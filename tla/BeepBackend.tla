---------------------------- MODULE BeepBackend ----------------------------
(***************************************************************************)
(* The sound back end of btcrecover/success_alert.py: how one beep of      *)
(* _emit_beeps chooses between the PC speaker (a KDMKTONE ioctl on a       *)
(* console device), the external `beep` utility and BEL characters, and    *)
(* how configure_pc_speaker resets the module globals that cache those     *)
(* choices.                                                                *)
(*                                                                         *)
(* One beep runs under _write_lock, and configure_pc_speaker is called     *)
(* before any beep thread starts (utilities/test_beeper.py is its only     *)
(* caller), so the two are atomic steps over the globals.  The outcome of  *)
(* every system call (open, ioctl, subprocess.run, write) is chosen by     *)
(* the environment: Openable, HasFcntl, BeepInstalled and Ttys are fixed   *)
(* per machine, and the ioctl, the command and the writes may each fail.   *)
(***************************************************************************)
EXTENDS Naturals, Sequences, SequencesExt

CONSTANTS
    DefaultPaths,   \* _DEFAULT_CONSOLE_PATHS
    EnvPaths,       \* _ENV_CONSOLE_PATHS, from BTCRECOVER_CONSOLE_BELL (<<>> if unset)
    PathChoices,    \* console_paths arguments given to configure_pc_speaker
    Openable,       \* the device paths open(path, "w") succeeds on
    HasFcntl,       \* the fcntl import succeeded
    BeepInstalled,  \* shutil.which("beep") finds the utility
    Ttys,           \* the streams among "stdout", "stderr" whose isatty() is true
    MaxBeeps,       \* bound on the beeps emitted
    MaxConfigures,  \* bound on the configure_pc_speaker calls
    None,           \* Python's None, for the Optional globals
    NoPaths         \* console_paths=None

Streams == {"stdout", "stderr", "console"}

\* _console_bell_paths at import: _ENV_CONSOLE_PATHS or _DEFAULT_CONSOLE_PATHS
InitialPaths == IF EnvPaths # <<>> THEN EnvPaths ELSE DefaultPaths

VARIABLES
    g,           \* the module globals of the back end (fields below)
    last,        \* what the most recent beep did, NoBeep after a configure
    cfg,         \* the last configure_pc_speaker call and its result, NoCfg before
    beeps,       \* beeps emitted so far
    configures   \* configure_pc_speaker calls so far

vars == <<g, last, cfg, beeps, configures>>

\* The globals at import.  paths: _console_bell_paths, forced:
\* _pcspeaker_forced, pcAvail: _pcspeaker_available, cmdAvail:
\* _beep_command_available, cmdPath: _beep_command_path is set, stream:
\* the path of _console_bell_stream or None, attempted: _console_open_attempted.
ImportState ==
    [paths |-> InitialPaths, forced |-> FALSE, pcAvail |-> None, cmdAvail |-> None,
     cmdPath |-> FALSE, stream |-> None, attempted |-> FALSE]

NoBeep == [ioctl |-> "none", cmd |-> "none", bel |-> {}, stdoutFallback |-> FALSE]
NoCfg == [enable |-> FALSE, result |-> FALSE, beeps |-> 0, called |-> FALSE]

-----------------------------------------------------------------------------
\* _ensure_console_bell_stream: open the first path that opens, once per
\* configuration.  _console_bell_fd is the same call: the fileno of an
\* open file never fails, so the fd exists exactly when the stream does.
EnsureConsoleBellStream(s) ==
    IF s.stream # None \/ s.attempted THEN s
    ELSE LET i == SelectInSeq(s.paths, LAMBDA p : p \in Openable)
         IN [s EXCEPT !.attempted = TRUE, !.stream = IF i = 0 THEN None ELSE s.paths[i]]

\* _beep_command: a found path is cached, a miss is looked up again.
BeepCommand(s) == [s EXCEPT !.cmdPath = @ \/ BeepInstalled]

\* _emit_beep_command; ran: subprocess.run was called.
EmitBeepCommand(s, runOk) ==
    IF s.cmdAvail = FALSE THEN [s |-> s, ok |-> FALSE, ran |-> FALSE]
    ELSE IF ~BeepCommand(s).cmdPath
         THEN [s |-> [s EXCEPT !.cmdAvail = FALSE], ok |-> FALSE, ran |-> FALSE]
         ELSE [s |-> [BeepCommand(s) EXCEPT !.cmdAvail = runOk], ok |-> runOk, ran |-> TRUE]

CmdOutcome(r) == IF ~r.ran THEN "none" ELSE IF r.ok THEN "ok" ELSE "failed"

\* The three failure exits of _emit_pc_speaker_beep: _pcspeaker_available =
\* False, then the beep command if the speaker is forced.
SpeakerUnavailable(s, ioctl, runOk) ==
    IF s.forced
    THEN LET r == EmitBeepCommand([s EXCEPT !.pcAvail = FALSE], runOk)
         IN [s |-> r.s, pcspeaker |-> r.ok, ioctl |-> ioctl, cmd |-> CmdOutcome(r)]
    ELSE [s |-> [s EXCEPT !.pcAvail = FALSE], pcspeaker |-> FALSE, ioctl |-> ioctl, cmd |-> "none"]

\* Mutant: the fd-is-None exit returns False without the forced fallback.
SpeakerOnDeviceNoFallback(e, ioctlOk, runOk) ==
    IF e.stream = None
    THEN [s |-> [e EXCEPT !.pcAvail = FALSE], pcspeaker |-> FALSE, ioctl |-> "none", cmd |-> "none"]
    ELSE IF ~ioctlOk THEN SpeakerUnavailable(e, "failed", runOk)
    ELSE [s |-> [e EXCEPT !.pcAvail = TRUE], pcspeaker |-> TRUE, ioctl |-> "ok", cmd |-> "none"]

\* _emit_pc_speaker_beep with the console already ensured (e); the
\* duration and frequency are the positive constants, so that exit is dead.
SpeakerOnDevice(e, ioctlOk, runOk) ==
    IF e.stream = None THEN SpeakerUnavailable(e, "none", runOk)
    ELSE IF ~ioctlOk THEN SpeakerUnavailable(e, "failed", runOk)
    ELSE [s |-> [e EXCEPT !.pcAvail = TRUE], pcspeaker |-> TRUE, ioctl |-> "ok", cmd |-> "none"]

EmitPcSpeakerBeep(s, ioctlOk, runOk) ==
    IF s.pcAvail = FALSE /\ ~s.forced
    THEN [s |-> s, pcspeaker |-> FALSE, ioctl |-> "none", cmd |-> "none"]
    ELSE IF ~HasFcntl THEN SpeakerUnavailable(s, "none", runOk)
    ELSE SpeakerOnDevice(EnsureConsoleBellStream(s), ioctlOk, runOk)

\* _bell_streams: the tty streams, and the console unless skipped.
BellTargets(s, skipConsole) ==
    Ttys \cup (IF ~skipConsole /\ s.stream # None THEN {"console"} ELSE {})

BellState(s, skipConsole) == IF skipConsole THEN s ELSE EnsureConsoleBellStream(s)

\* The rest of one beep once the tone is tried: the BEL writes (written:
\* the streams whose write and flush did not raise) and the stdout fallback.
EmitBells(t, s, written) ==
    /\ g' = s
    /\ last' = [ioctl |-> t.ioctl, cmd |-> t.cmd,
                bel |-> BellTargets(s, t.pcspeaker) \cap written,
                stdoutFallback |-> ~t.pcspeaker /\ BellTargets(s, t.pcspeaker) \cap written = {}]

\* One iteration of _emit_beeps, under _write_lock.
Beep ==
    /\ beeps < MaxBeeps
    /\ \E ioctlOk, runOk \in BOOLEAN, written \in SUBSET Streams :
          LET t == EmitPcSpeakerBeep(g, ioctlOk, runOk)
          IN EmitBells(t, BellState(t.s, t.pcspeaker), written)
    /\ beeps' = beeps + 1
    /\ cfg' = [cfg EXCEPT !.beeps = @ + 1]
    /\ UNCHANGED configures

-----------------------------------------------------------------------------
\* Mutant: _console_open_attempted is not reset.
ReconfiguredKeepsAttempt(s, enable, cps) ==
    [s EXCEPT !.forced = enable,
              !.paths = IF ~enable THEN InitialPaths
                        ELSE IF cps # NoPaths THEN cps
                        ELSE IF EnvPaths = <<>> THEN DefaultPaths ELSE @,
              !.stream = None, !.pcAvail = None]

\* configure_pc_speaker up to the early return: the paths, the forced flag,
\* closing the console and clearing the caches.  Empty paths are dropped
\* by the code; the model's paths are never empty.
Reconfigured(s, enable, cps) ==
    [s EXCEPT !.forced = enable,
              !.paths = IF ~enable THEN InitialPaths
                        ELSE IF cps # NoPaths THEN cps
                        ELSE IF EnvPaths = <<>> THEN DefaultPaths ELSE @,
              !.stream = None, !.attempted = FALSE, !.pcAvail = None]

\* Mutant: _beep_command_available is not reset when the beep utility is found.
PreparedNoCmdReset(e) ==
    IF e.stream # None THEN [s |-> e, result |-> TRUE]
    ELSE [s |-> BeepCommand(e), result |-> BeepCommand(e).cmdPath]

\* The end of configure_pc_speaker(True) once the console is tried (e).
Prepared(e) ==
    IF e.stream # None THEN [s |-> e, result |-> TRUE]
    ELSE IF BeepCommand(e).cmdPath
         THEN [s |-> [BeepCommand(e) EXCEPT !.cmdAvail = None], result |-> TRUE]
         ELSE [s |-> BeepCommand(e), result |-> FALSE]

ConfigureResult(s, enable, cps) ==
    IF ~enable
    THEN [s |-> [Reconfigured(s, enable, cps) EXCEPT !.cmdAvail = None], result |-> TRUE]
    ELSE Prepared(EnsureConsoleBellStream(Reconfigured(s, enable, cps)))

\* configure_pc_speaker(enable, console_paths=cps); console_paths is only
\* read when enable is true, so it is varied only then.
ConfigurePcSpeaker(enable, cps) ==
    /\ configures < MaxConfigures
    /\ g' = ConfigureResult(g, enable, cps).s
    /\ cfg' = [enable |-> enable, result |-> ConfigureResult(g, enable, cps).result,
               beeps |-> 0, called |-> TRUE]
    /\ last' = NoBeep
    /\ configures' = configures + 1
    /\ UNCHANGED beeps

Init ==
    /\ g = ImportState
    /\ last = NoBeep
    /\ cfg = NoCfg
    /\ beeps = 0
    /\ configures = 0

Next ==
    \/ Beep
    \/ \E cps \in PathChoices \cup {NoPaths} : ConfigurePcSpeaker(TRUE, cps)
    \/ ConfigurePcSpeaker(FALSE, NoPaths)

Spec == Init /\ [][Next]_vars
=============================================================================
