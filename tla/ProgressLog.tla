----------------------------- MODULE ProgressLog -----------------------------
(***************************************************************************)
(* What the progress file of a batch run promises, whoever writes it and   *)
(* in whatever order: it only grows, one whole line at a time; every line *)
(* names a seed of the batch file with the outcome btcrseed.main can have *)
(* for it (MATCHED only for a seed that opens the wallet, CHECKED only for *)
(* one that does not); and when completed seeds are skipped, no seed is   *)
(* recorded as a success a second time, unless a reload of the file      *)
(* failed to see that seed's success line (missed).  The last promise is  *)
(* made for a batch file that lists a repeated seed only at indices of   *)
(* one worker: a seed at indices of two workers is run by both, since   *)
(* each loads completed_seeds only at its start.  Which process writes a *)
(* line, and when, is left open.                                          *)
(***************************************************************************)
EXTENDS Sequences

CONSTANTS
    BatchSeeds,     \* the seeds listed in the batch file
    Match,          \* the seeds for which btcrseed.main finds the wallet
    SkipCompleted   \* --batch-skip-completed

VARIABLES
    log,            \* the lines of the progress file, [status, seed] records
    missed          \* the completed seeds some reload of the file did not see

Statuses == {"CHECKED", "MATCHED", "ERROR"}
SuccessStatuses == {"MATCHED", "CHECKED"}

Succeeded(s) == \E i \in DOMAIN log : log[i].seed = s /\ log[i].status \in SuccessStatuses

\* The status a run of seed s may end with.
Allowed(s, status) ==
    \/ status = "ERROR"
    \/ status = "MATCHED" /\ s \in Match
    \/ status = "CHECKED" /\ s \notin Match

Record(s, status) ==
    /\ Allowed(s, status)
    /\ SkipCompleted /\ status \in SuccessStatuses => ~Succeeded(s) \/ s \in missed
    /\ log' = Append(log, [status |-> status, seed |-> s])
    /\ UNCHANGED missed

\* A read of the file stops part way (OSError) and the reader does not see
\* the success lines of the seeds S.
MissOnReload(S) ==
    /\ \A s \in S : Succeeded(s)
    /\ missed' = missed \cup S
    /\ UNCHANGED log

Init == log = <<>> /\ missed = {}

Next ==
    \/ \E s \in BatchSeeds, status \in Statuses : Record(s, status)
    \/ \E S \in SUBSET BatchSeeds : MissOnReload(S)

Spec == Init /\ [][Next]_<<log, missed>>
=============================================================================
