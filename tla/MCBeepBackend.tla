--------------------------- MODULE MCBeepBackend ---------------------------
(***************************************************************************)
(* Instantiates BeepBackend with three console device paths: the default   *)
(* search order c1, c2 (of which only c2 opens) and a caller-supplied c3,  *)
(* which does not open.  The properties relate configure_pc_speaker to    *)
(* the beeps that follow it.                                               *)
(***************************************************************************)
EXTENDS BeepBackend

CONSTANTS c1, c2, c3

MCDefaultPaths == <<c1, c2>>
MCEnvPaths == <<>>   \* BTCRECOVER_CONSOLE_BELL unset
MCPathChoices == {<<c3>>, <<c2>>}
MCOpenable == {c2}
MCTtys == {"stdout"}

(***************************************************************************)
(* configure_pc_speaker(True) returns True when it "succeeded", and False  *)
(* "when the PC speaker could not be prepared".  Stated: the first beep   *)
(* after a call that returned True drives the speaker, by the KDMKTONE     *)
(* ioctl or by running `beep`, whatever the beeps before the call cached  *)
(* in _pcspeaker_available and _beep_command_available.                   *)
(***************************************************************************)
PreparedSpeakerIsTried ==
    (cfg.called /\ cfg.enable /\ cfg.result /\ cfg.beeps = 1)
        => (last.ioctl # "none" \/ last.cmd # "none")

(***************************************************************************)
(* configure_pc_speaker(False) restores "the original console             *)
(* configuration": right after it, every global that decides the next     *)
(* beep is as at import, whatever was opened, forced or cached before.     *)
(* Only the found path of the beep utility stays cached.                   *)
(***************************************************************************)
ConfigureFalseRestoresImportState ==
    (cfg.called /\ ~cfg.enable /\ cfg.beeps = 0)
        => [g EXCEPT !.cmdPath = FALSE] = ImportState

=============================================================================
