---------------------------- MODULE SuccessAlert ----------------------------
(***************************************************************************)
(* The background success beep of btcrecover/success_alert.py.  The main  *)
(* thread calls set_beep_on_find, start_success_beep and                  *)
(* stop_success_beep in any order; start_success_beep creates a           *)
(* threading.Event and a daemon thread running _beep_loop, which emits    *)
(* two beeps and then waits up to ten seconds on the event.               *)
(*                                                                         *)
(* _beep_loop does not keep the event it was started with: every round it *)
(* reads the module global _success_beep_stop_event again, which          *)
(* stop_success_beep sets to None after a join of at most 0.1 s and which *)
(* a later start_success_beep replaces.  Thread i is started with event   *)
(* i; time is not modelled, so a join or a wait may time out whenever its *)
(* condition has not happened yet.  The bells themselves (_emit_beeps and *)
(* the console/PC-speaker back ends) are one step EmitDone.              *)
(***************************************************************************)
EXTENDS Naturals, FiniteSets

CONSTANTS
    MaxStarts,  \* bound on the beep threads started in one behaviour
    MaxCalls,   \* bound on the main thread's calls into the module
    None        \* Python's None

ASSUME MaxStarts \in Nat \ {0} /\ MaxCalls \in Nat

Threads == 1..MaxStarts
Events == 1..MaxStarts      \* thread i is started together with event i


VARIABLES
    beepEnabled,  \* _beep_enabled
    stopEvent,    \* _success_beep_stop_event: an event or None
    beepThread,   \* _success_beep_thread: a thread or None
    evSet,        \* evSet[e]: the internal flag of event e
    tpc,          \* tpc[t]: "unstarted", "emit", "check", "waiting", "ended", "crashed"
    waitOn,       \* waitOn[t]: the event thread t is blocked in wait() on
    mpc,          \* main thread: "idle", "joining" (inside stop_success_beep), "done"
    exiting,      \* the stop in progress is the last one before sys.exit
    started,      \* number of threads started so far
    calls         \* number of calls the main thread has made

vars == <<beepEnabled, stopEvent, beepThread, evSet, tpc, waitOn, mpc,
          exiting, started, calls>>

Alive(t) == tpc[t] \in {"emit", "check", "waiting"}

Init ==
    /\ beepEnabled = FALSE
    /\ stopEvent = None
    /\ beepThread = None
    /\ evSet = [e \in Events |-> FALSE]
    /\ tpc = [t \in Threads |-> "unstarted"]
    /\ waitOn = [t \in Threads |-> None]
    /\ mpc = "idle"
    /\ exiting = FALSE
    /\ started = 0
    /\ calls = 0

Call == mpc = "idle" /\ calls < MaxCalls /\ calls' = calls + 1

-----------------------------------------------------------------------------
(* Main thread.                                                            *)

\* Seeded bug: stop_success_beep forgets to set the event.
StopBeginNoSet(isExit) ==
    /\ evSet' = evSet
    /\ mpc' = "joining"
    /\ exiting' = isExit

\* First half of stop_success_beep: set the event if there is one and,
\* if a thread is registered, start joining it.
StopBegin(isExit) ==
    /\ evSet' = IF stopEvent # None THEN [evSet EXCEPT ![stopEvent] = TRUE] ELSE evSet
    /\ mpc' = "joining"
    /\ exiting' = isExit

\* set_beep_on_find(enabled): disabling also stops the beep.
SetBeepOnFind(x) ==
    /\ Call
    /\ beepEnabled' = x
    /\ IF x
       THEN UNCHANGED <<evSet, mpc, exiting>>
       ELSE StopBegin(FALSE)
    /\ UNCHANGED <<stopEvent, beepThread, tpc, waitOn, started>>

\* start_success_beep: a no-op unless enabled and no thread is registered.
StartSuccessBeep ==
    /\ Call
    /\ IF beepEnabled /\ beepThread = None /\ started < MaxStarts
       THEN LET t == started + 1 IN
            /\ stopEvent' = t
            /\ beepThread' = t
            /\ tpc' = [tpc EXCEPT ![t] = "emit"]
            /\ started' = t
       ELSE UNCHANGED <<stopEvent, beepThread, tpc, started>>
    /\ UNCHANGED <<beepEnabled, evSet, waitOn, mpc, exiting>>

\* stop_success_beep called by the main program.
StopSuccessBeep ==
    /\ Call
    /\ StopBegin(FALSE)
    /\ UNCHANGED <<beepEnabled, stopEvent, beepThread, tpc, waitOn, started>>

\* The final success_alert.stop_success_beep() of seedrecover_batch.py
\* before sys.exit.
ExitProgram ==
    /\ mpc = "idle"
    /\ StopBegin(TRUE)
    /\ UNCHANGED <<beepEnabled, stopEvent, beepThread, tpc, waitOn, started, calls>>

\* Second half of stop_success_beep: join(timeout=0.1) returns, because the
\* thread ended or because the timeout expired, and both globals are cleared.
JoinReturns ==
    /\ mpc = "joining"
    /\ stopEvent' = None
    /\ beepThread' = None
    /\ mpc' = IF exiting THEN "done" ELSE "idle"
    /\ UNCHANGED <<beepEnabled, evSet, tpc, waitOn, exiting, started, calls>>

-----------------------------------------------------------------------------
(* Beep thread t, running _beep_loop.                                      *)

\* _emit_beeps(2, spacing=1.5) completes.
EmitDone(t) ==
    /\ tpc[t] = "emit"
    /\ tpc' = [tpc EXCEPT ![t] = "check"]
    /\ UNCHANGED <<evSet, waitOn, started>>

\* _success_beep_stop_event.wait(10): the global is read now; None raises
\* AttributeError and ends the thread.
CheckEvent(t) ==
    /\ tpc[t] = "check"
    /\ IF stopEvent = None
       THEN /\ tpc' = [tpc EXCEPT ![t] = "crashed"]
            /\ UNCHANGED waitOn
       ELSE /\ tpc' = [tpc EXCEPT ![t] = "waiting"]
            /\ waitOn' = [waitOn EXCEPT ![t] = stopEvent]
    /\ UNCHANGED <<evSet, started>>

\* wait() returns True: break out of the loop.
WaitWakes(t) ==
    /\ tpc[t] = "waiting"
    /\ evSet[waitOn[t]]
    /\ tpc' = [tpc EXCEPT ![t] = "ended"]
    /\ UNCHANGED <<evSet, waitOn, started>>

\* wait() times out after ten seconds: beep again.
WaitTimesOut(t) ==
    /\ tpc[t] = "waiting"
    /\ ~evSet[waitOn[t]]
    /\ tpc' = [tpc EXCEPT ![t] = "emit"]
    /\ UNCHANGED <<evSet, waitOn, started>>

ThreadStep(t) == EmitDone(t) \/ CheckEvent(t) \/ WaitWakes(t) \/ WaitTimesOut(t)

Next ==
    \/ \E x \in BOOLEAN : SetBeepOnFind(x)
    \/ StartSuccessBeep
    \/ StopSuccessBeep
    \/ ExitProgram
    \/ JoinReturns
    \/ \E t \in Threads :
          /\ ThreadStep(t)
          /\ UNCHANGED <<beepEnabled, stopEvent, beepThread, mpc, exiting, calls>>

\* Only safety is checked here, so no fairness is assumed.
Spec == Init /\ [][Next]_vars

-----------------------------------------------------------------------------
(***************************************************************************)
(* A stop is never lost.  Whenever no stop is in progress and no beep      *)
(* thread is registered, every beep thread blocked in wait() is blocked on *)
(* an event that has been set, so it leaves the loop instead of beeping    *)
(* on with nobody holding a handle to stop it; this covers old threads     *)
(* that picked up a newer event from the global.                           *)
(***************************************************************************)
NoThreadOrphanedAfterStop ==
    (mpc \in {"idle", "done"} /\ beepThread = None) =>
        \A t \in Threads : tpc[t] = "waiting" => evSet[waitOn[t]]

(***************************************************************************)
(* stop_success_beep "stops the background success beep thread": the      *)
(* thread never dies of reading the global event after the stop has set   *)
(* it to None (AttributeError on None.wait in _beep_loop).                 *)
(***************************************************************************)
NoStopEventNoneRead == \A t \in Threads : tpc[t] # "crashed"

(***************************************************************************)
(* Once the event a beep thread was started with has been set, that thread *)
(* never begins another round of beeps.                                    *)
(***************************************************************************)
StoppedThreadStaysStopped ==
    [][\A t \in Threads : (tpc[t] = "waiting" /\ tpc'[t] = "emit") => ~evSet[t]]_vars
=============================================================================
