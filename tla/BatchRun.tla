------------------------------ MODULE BatchRun ------------------------------
(***************************************************************************)
(* The batch seed runner of seedrecover_batch.py.  Several OS processes    *)
(* run the same script over the same batch file, each owning the seed     *)
(* indices  i  with  i % TOTAL  in its --batch-worker ID list, and all of *)
(* them append to one shared progress file.  A process can be killed at  *)
(* any point and run again; with --batch-skip-completed it then reloads   *)
(* the progress file and skips the seeds already CHECKED or MATCHED.      *)
(*                                                                         *)
(* A seed is a model value, a comment or blank line is the model value    *)
(* Comment, a progress line is a record [status, seed]; timestamps and    *)
(* argument columns are left out (no property reads them).  The run of    *)
(* btcrseed.main for one seed is the pair BeginSeed / FinishSeed, so other *)
(* processes interleave with it.                                          *)
(***************************************************************************)
EXTENDS Naturals, Sequences, FiniteSets, SequencesExt

CONSTANTS
    Procs,           \* the processes started on the batch file
    Seeds,           \* the seed phrases that can appear in the batch file
    Comment,         \* a blank line or a line starting with '#'
    BatchFile,       \* the lines of the batch file, in file order
    ProcessReverse,  \* --batch-reverse
    SkipCompleted,   \* --batch-skip-completed
    Total,           \* TOTAL of --batch-worker ID(/ID2,...)/TOTAL
    WorkerIds,       \* WorkerIds[p]: the 0-based worker ids of process p, or NoWorkers
    NoWorkers,       \* worker_ids is None: --batch-worker not given
    Match,           \* the seeds for which btcrseed.main finds the wallet
    AppendMayFail,   \* writing the progress file can raise OSError (disk full, permissions)
    ReadMayFail,     \* reading the progress file can raise OSError part way through
    MaxLaunches,     \* how many times each process may be started (first run plus restarts)
    Tabbed           \* the seeds whose batch line separates its words by tabs

\* _parse_batch_arguments rejects TOTAL < 2 and any ID outside 1..TOTAL
\* (0..TOTAL-1 once it subtracts 1).
ParsedWorkerArguments ==
    /\ Total \in Nat /\ Total >= 2
    /\ \A p \in Procs : WorkerIds[p] = NoWorkers
                        \/ (WorkerIds[p] # {} /\ WorkerIds[p] \subseteq 0..(Total - 1))
    /\ BatchFile \in Seq(Seeds \cup {Comment})
    /\ Match \subseteq Seeds
    /\ AppendMayFail \in BOOLEAN
    /\ ReadMayFail \in BOOLEAN
    /\ MaxLaunches \in Nat \ {0}
    /\ Tabbed \subseteq Seeds

ASSUME ParsedWorkerArguments

Statuses == {"CHECKED", "MATCHED", "ERROR"}
SuccessStatuses == {"MATCHED", "CHECKED"}
Entry == [status : Statuses, seed : Seeds]

\* What btcrseed.main does for one seed: return a sentence (found), return
\* "" (not found), return None (an error or Ctrl-C inside it), or raise.
Outcomes == {"found", "notfound", "none", "exception"}
PossibleOutcomes(s) ==
    IF s \in Match THEN {"found", "none", "exception"}
                   ELSE {"notfound", "none", "exception"}

VARIABLES
    progress,    \* the lines of the shared progress file
    pc,          \* "idle" (not started), "loop", "running", "done" (exited), "crashed"
    pos,         \* index into BatchList of the line being handled
    seedIndex,   \* seed_index
    completed,   \* completed_seeds
    retval,      \* retval
    matchFound,  \* match_found
    exitCode,    \* the status passed to sys.exit, NoExit before
    launches,    \* how many times each process has been started
    runErrors,   \* history: the current run of p has logged an ERROR line
    unlogged,    \* history: the seeds whose progress line failed to be written
    missed       \* history: the completed seeds a failed reload did not see

vars == <<progress, pc, pos, seedIndex, completed, retval, matchFound,
          exitCode, launches, runErrors, unlogged, missed>>

NoExit == 99

\* batch_seed_list after the optional reversal.
BatchList == IF ProcessReverse THEN Reverse(BatchFile) ELSE BatchFile

-----------------------------------------------------------------------------
\* A progress line is written as "STATUS<tab>seed" and split on tabs when
\* read back; parts[1] is the seed, or only its first word when the seed's
\* own words are separated by tabs.  That word is none of the batch's seeds.
FirstWord(s) == [firstWordOf |-> s]
ReadSeed(s) == IF s \in Tabbed THEN FirstWord(s) ELSE s
ReadSeeds == {ReadSeed(s) : s \in Seeds}

(* _load_completed_seeds: a left fold over the progress lines keeping, per *)
(* seed, the first status seen unless a later one is a success.            *)
NoStatus == "none"

\* Seeded bug: the first status of a seed wins, a later success is ignored.
LoadStepFirstWins(status_map, line) ==
    LET seed == ReadSeed(line.seed) IN
    IF status_map[seed] = NoStatus
    THEN [status_map EXCEPT ![seed] = line.status]
    ELSE status_map

LoadStep(status_map, line) ==
    LET seed == ReadSeed(line.seed)
        prev == status_map[seed]
    IN IF prev \in SuccessStatuses THEN status_map
       ELSE IF line.status \in SuccessStatuses \/ prev = NoStatus
            THEN [status_map EXCEPT ![seed] = line.status]
            ELSE status_map

LoadCompletedSeeds(log) ==
    LET final == FoldLeft(LoadStep, [s \in ReadSeeds |-> NoStatus], log)
    IN {s \in ReadSeeds : final[s] \in SuccessStatuses}

\* _progress_contains_match
ProgressContainsMatch(log) == \E i \in DOMAIN log : log[i].status = "MATCHED"

\* The loop-top _progress_contains_match call can return False: no MATCHED
\* line is logged, or an OSError ends the read and is printed and swallowed.
MayReadNoMatch(log) == ~ProgressContainsMatch(log) \/ ReadMayFail

\* What _load_completed_seeds returns: with an OSError part way through the
\* file it prints the error and returns the seeds of the lines read so far,
\* a prefix of whole lines (none when open itself fails).
LoadResults(log) ==
    IF ReadMayFail THEN {LoadCompletedSeeds(SubSeq(log, 1, k)) : k \in 0..Len(log)}
                   ELSE {LoadCompletedSeeds(log)}

\* The outcomes of opening and writing the progress file in append mode.
WriteOutcomes == IF AppendMayFail THEN BOOLEAN ELSE {TRUE}

\* _append_progress: one line is appended, or (ok = FALSE) makedirs, open
\* or write raises OSError, which is printed and swallowed.
AppendProgress(s, status, ok) ==
    /\ progress' = IF ok THEN Append(progress, [status |-> status, seed |-> s])
                   ELSE progress
    /\ unlogged' = IF ok THEN unlogged ELSE unlogged \cup {s}

\* Seeded bug: the 1-based IDs are used without the "- 1" of the parser.
IsMineUnshifted(p, idx) ==
    IF WorkerIds[p] = NoWorkers THEN TRUE ELSE ((idx + 1) % Total) \in WorkerIds[p]

\* the worker test of the main loop
IsMine(p, idx) ==
    IF WorkerIds[p] = NoWorkers THEN TRUE ELSE (idx % Total) \in WorkerIds[p]

Line(p) == BatchList[pos[p]]

\* Reference numbering: the seed index of line i is the number of seed lines
\* before it, whatever each process skipped.
SeedLines == {i \in DOMAIN BatchList : BatchList[i] # Comment}
RefSeedIndex(i) == Cardinality({j \in SeedLines : j < i})
InLoop(p) == pc[p] = "loop" /\ pos[p] <= Len(BatchList)

-----------------------------------------------------------------------------
Init ==
    /\ progress = <<>>
    /\ pc = [p \in Procs |-> "idle"]
    /\ pos = [p \in Procs |-> 1]
    /\ seedIndex = [p \in Procs |-> 0]
    /\ completed = [p \in Procs |-> {}]
    /\ retval = [p \in Procs |-> 0]
    /\ matchFound = [p \in Procs |-> FALSE]
    /\ exitCode = [p \in Procs |-> NoExit]
    /\ launches = [p \in Procs |-> 0]
    /\ runErrors = [p \in Procs |-> FALSE]
    /\ unlogged = {}
    /\ missed = {}

\* Seeded bug: a restart does not reload the completed seeds.
LaunchWithoutResume(p) ==
    /\ pc[p] \in {"idle", "crashed", "done"}
    /\ launches[p] < MaxLaunches
    /\ launches' = [launches EXCEPT ![p] = @ + 1]
    /\ pc' = [pc EXCEPT ![p] = "loop"]
    /\ pos' = [pos EXCEPT ![p] = 1]
    /\ seedIndex' = [seedIndex EXCEPT ![p] = 0]
    /\ completed' = [completed EXCEPT ![p] = {}]
    /\ retval' = [retval EXCEPT ![p] = 0]
    /\ matchFound' = [matchFound EXCEPT ![p] = FALSE]
    /\ exitCode' = [exitCode EXCEPT ![p] = NoExit]
    /\ runErrors' = [runErrors EXCEPT ![p] = FALSE]
    /\ UNCHANGED <<progress, unlogged, missed>>

\* The script is started (again): argument parsing, reading the batch file,
\* loading the completed seeds, and resetting the loop state.
Launch(p) ==
    /\ pc[p] \in {"idle", "crashed", "done"}
    /\ launches[p] < MaxLaunches
    /\ launches' = [launches EXCEPT ![p] = @ + 1]
    /\ pc' = [pc EXCEPT ![p] = "loop"]
    /\ pos' = [pos EXCEPT ![p] = 1]
    /\ seedIndex' = [seedIndex EXCEPT ![p] = 0]
    /\ \E loaded \in LoadResults(progress) :
          /\ completed' = [completed EXCEPT ![p] = IF SkipCompleted THEN loaded ELSE {}]
          /\ missed' = IF SkipCompleted
                       THEN missed \cup {s \in Seeds : ReadSeed(s) \in
                                          LoadCompletedSeeds(progress) \ loaded}
                       ELSE missed
    /\ retval' = [retval EXCEPT ![p] = 0]
    /\ matchFound' = [matchFound EXCEPT ![p] = FALSE]
    /\ exitCode' = [exitCode EXCEPT ![p] = NoExit]
    /\ runErrors' = [runErrors EXCEPT ![p] = FALSE]
    /\ UNCHANGED <<progress, unlogged>>

\* The batch file cannot be opened: sys.exit(1) before the loop.
LaunchFails(p) ==
    /\ pc[p] \in {"idle", "crashed", "done"}
    /\ launches[p] < MaxLaunches
    /\ launches' = [launches EXCEPT ![p] = @ + 1]
    /\ pc' = [pc EXCEPT ![p] = "done"]
    /\ exitCode' = [exitCode EXCEPT ![p] = 1]
    /\ runErrors' = [runErrors EXCEPT ![p] = FALSE]
    /\ UNCHANGED <<progress, unlogged, missed, pos, seedIndex, completed, retval, matchFound>>

\* Top of the loop: a MATCHED line is already in the progress file.
StopOnMatch(p) ==
    /\ InLoop(p)
    /\ ProgressContainsMatch(progress)
    /\ pc' = [pc EXCEPT ![p] = "done"]
    /\ retval' = [retval EXCEPT ![p] = 0]
    /\ exitCode' = [exitCode EXCEPT ![p] = 0]
    /\ UNCHANGED <<progress, unlogged, missed, pos, seedIndex, completed, matchFound, launches, runErrors>>

\* Seeded bug: seed_index is also counted for comment lines.
SkipCommentCounted(p) ==
    /\ InLoop(p)
    /\ MayReadNoMatch(progress)
    /\ Line(p) = Comment
    /\ seedIndex' = [seedIndex EXCEPT ![p] = @ + 1]
    /\ pos' = [pos EXCEPT ![p] = @ + 1]
    /\ UNCHANGED <<progress, unlogged, missed, pc, completed, retval, matchFound,
                   exitCode, launches, runErrors>>

\* A blank or comment line: continue without counting it.
SkipComment(p) ==
    /\ InLoop(p)
    /\ MayReadNoMatch(progress)
    /\ Line(p) = Comment
    /\ pos' = [pos EXCEPT ![p] = @ + 1]
    /\ UNCHANGED <<progress, unlogged, missed, pc, seedIndex, completed, retval, matchFound,
                   exitCode, launches, runErrors>>

\* --batch-skip-completed and the seed is already completed.
SkipCompletedSeed(p) ==
    /\ InLoop(p)
    /\ MayReadNoMatch(progress)
    /\ Line(p) # Comment
    /\ SkipCompleted /\ Line(p) \in completed[p]
    /\ seedIndex' = [seedIndex EXCEPT ![p] = @ + 1]
    /\ pos' = [pos EXCEPT ![p] = @ + 1]
    /\ UNCHANGED <<progress, unlogged, missed, pc, completed, retval, matchFound, exitCode,
                   launches, runErrors>>

\* The seed index belongs to another worker.
SkipOtherWorker(p) ==
    /\ InLoop(p)
    /\ MayReadNoMatch(progress)
    /\ Line(p) # Comment
    /\ ~(SkipCompleted /\ Line(p) \in completed[p])
    /\ ~IsMine(p, seedIndex[p])
    /\ seedIndex' = [seedIndex EXCEPT ![p] = @ + 1]
    /\ pos' = [pos EXCEPT ![p] = @ + 1]
    /\ UNCHANGED <<progress, unlogged, missed, pc, completed, retval, matchFound, exitCode,
                   launches, runErrors>>

\* The seed is this worker's: count it and call btcrseed.main.
BeginSeed(p) ==
    /\ InLoop(p)
    /\ MayReadNoMatch(progress)
    /\ Line(p) # Comment
    /\ ~(SkipCompleted /\ Line(p) \in completed[p])
    /\ IsMine(p, seedIndex[p])
    /\ seedIndex' = [seedIndex EXCEPT ![p] = @ + 1]
    /\ pc' = [pc EXCEPT ![p] = "running"]
    /\ UNCHANGED <<progress, unlogged, missed, pos, completed, retval, matchFound, exitCode,
                   launches, runErrors>>

\* btcrseed.main raises: log ERROR and continue with the next line.
SeedRaised(p, s, ok) ==
    /\ AppendProgress(s, "ERROR", ok)
    /\ runErrors' = [runErrors EXCEPT ![p] = TRUE]
    /\ pc' = [pc EXCEPT ![p] = "loop"]
    /\ pos' = [pos EXCEPT ![p] = @ + 1]
    /\ UNCHANGED <<completed, retval, matchFound, exitCode>>

\* btcrseed.main returns a mnemonic: log MATCHED, remember it, beep, and
\* leave the loop; after the loop the script exits with retval 0.
SeedMatched(p, s, ok) ==
    /\ AppendProgress(s, "MATCHED", ok)
    /\ matchFound' = [matchFound EXCEPT ![p] = TRUE]
    /\ completed' = [completed EXCEPT ![p] =
                        IF SkipCompleted THEN @ \cup {s} ELSE @]
    /\ retval' = [retval EXCEPT ![p] = 0]
    /\ pc' = [pc EXCEPT ![p] = "done"]
    /\ exitCode' = [exitCode EXCEPT ![p] = 0]
    /\ UNCHANGED <<pos, runErrors>>

\* btcrseed.main returns None: log ERROR and set retval to 1.
SeedFailed(p, s, ok) ==
    /\ AppendProgress(s, "ERROR", ok)
    /\ retval' = [retval EXCEPT ![p] = 1]
    /\ pc' = [pc EXCEPT ![p] = "loop"]
    /\ runErrors' = [runErrors EXCEPT ![p] = TRUE]
    /\ pos' = [pos EXCEPT ![p] = @ + 1]
    /\ UNCHANGED <<completed, matchFound, exitCode>>

\* Seeded bug: the "not found" branch forgets to log the seed.
SeedCheckedUnlogged(p, s, ok) ==
    /\ UNCHANGED <<progress, unlogged, missed>>
    /\ completed' = [completed EXCEPT ![p] =
                        IF SkipCompleted THEN @ \cup {s} ELSE @]
    /\ retval' = [retval EXCEPT ![p] = 0]
    /\ pc' = [pc EXCEPT ![p] = "loop"]
    /\ pos' = [pos EXCEPT ![p] = @ + 1]
    /\ UNCHANGED <<matchFound, exitCode, runErrors>>

\* btcrseed.main returns "": log CHECKED, remember it, retval 0.
SeedChecked(p, s, ok) ==
    /\ AppendProgress(s, "CHECKED", ok)
    /\ completed' = [completed EXCEPT ![p] =
                        IF SkipCompleted THEN @ \cup {s} ELSE @]
    /\ retval' = [retval EXCEPT ![p] = 0]
    /\ pc' = [pc EXCEPT ![p] = "loop"]
    /\ pos' = [pos EXCEPT ![p] = @ + 1]
    /\ UNCHANGED <<matchFound, exitCode, runErrors>>

\* btcrseed.main returns (or raises) and the outcome is logged.
FinishSeed(p, o) ==
    /\ pc[p] = "running"
    /\ o \in PossibleOutcomes(Line(p))
    /\ \E ok \in WriteOutcomes :
       \/ o = "exception" /\ SeedRaised(p, Line(p), ok)
       \/ o = "found"     /\ SeedMatched(p, Line(p), ok)
       \/ o = "none"      /\ SeedFailed(p, Line(p), ok)
       \/ o = "notfound"  /\ SeedChecked(p, Line(p), ok)
    /\ UNCHANGED <<seedIndex, launches, missed>>

\* The loop runs off the end of the batch: sys.exit(retval).
EndOfBatch(p) ==
    /\ pc[p] = "loop"
    /\ pos[p] > Len(BatchList)
    /\ pc' = [pc EXCEPT ![p] = "done"]
    /\ exitCode' = [exitCode EXCEPT ![p] = retval[p]]
    /\ UNCHANGED <<progress, unlogged, missed, pos, seedIndex, completed, retval, matchFound,
                   launches, runErrors>>

\* The process is killed (Ctrl-C outside btcrseed.main, kill, power loss).
\* Each progress line is written by one append, so a kill leaves whole lines.
Crash(p) ==
    /\ pc[p] \in {"loop", "running"}
    /\ pc' = [pc EXCEPT ![p] = "crashed"]
    /\ UNCHANGED <<progress, unlogged, missed, pos, seedIndex, completed, retval, matchFound,
                   exitCode, launches, runErrors>>

Next ==
    \E p \in Procs :
        \/ Launch(p)
        \/ LaunchFails(p)
        \/ StopOnMatch(p)
        \/ SkipComment(p)
        \/ SkipCompletedSeed(p)
        \/ SkipOtherWorker(p)
        \/ BeginSeed(p)
        \/ \E o \in Outcomes : FinishSeed(p, o)
        \/ EndOfBatch(p)
        \/ Crash(p)

\* No fairness: the loop runs over a list read at start, so a started
\* process always leaves it; only safety is checked.
Spec == Init /\ [][Next]_vars

-----------------------------------------------------------------------------
TypeOK ==
    /\ progress \in Seq(Entry)
    /\ pc \in [Procs -> {"idle", "loop", "running", "done", "crashed"}]
    /\ pos \in [Procs -> 1..(Len(BatchList) + 1)]
    /\ seedIndex \in [Procs -> 0..Cardinality(SeedLines)]
    /\ completed \in [Procs -> SUBSET (Seeds \cup ReadSeeds)]
    /\ retval \in [Procs -> {0, 1}]
    /\ matchFound \in [Procs -> BOOLEAN]
    /\ exitCode \in [Procs -> {0, 1, NoExit}]
    /\ launches \in [Procs -> 0..MaxLaunches]
    /\ runErrors \in [Procs -> BOOLEAN]
    /\ unlogged \in SUBSET Seeds
    /\ missed \in SUBSET Seeds

(***************************************************************************)
(* Work partition.  Whenever a process runs btcrseed.main, the line it     *)
(* runs belongs to it under the reference numbering of seed lines, so the *)
(* seed_index counter it keeps across comment, completed and foreign      *)
(* lines, restarts included, never drifts from the line position.         *)
(***************************************************************************)
RefOwner(p, i) ==
    IF WorkerIds[p] = NoWorkers THEN TRUE ELSE (RefSeedIndex(i) % Total) \in WorkerIds[p]

OwnerRunsSeed ==
    \A p \in Procs : pc[p] = "running" => RefOwner(p, pos[p])

(***************************************************************************)
(* No seed is lost.  While no MATCHED line is logged, once the process     *)
(* owning a seed line has run its loop to the end of the batch, the       *)
(* progress file has a line for that seed: it either ran the seed in that *)
(* run or skipped it as completed from the file it reloaded at start.     *)
(* The one exception is a seed whose line _append_progress failed to      *)
(* write: the OSError is only printed.                                     *)
(***************************************************************************)
HasEntry(s) == \E i \in DOMAIN progress : progress[i].seed = s

CoveredWhenOwnerFinished ==
    ~ProgressContainsMatch(progress) =>
        \A i \in SeedLines, p \in Procs :
            (/\ pc[p] = "done" /\ pos[p] > Len(BatchList)
             /\ RefOwner(p, i)) => HasEntry(BatchList[i]) \/ BatchList[i] \in unlogged

(***************************************************************************)
(* _load_completed_seeds computes, for every progress file the processes   *)
(* can write, the set of seeds with at least one CHECKED or MATCHED line.  *)
(* (Stated for seeds without tabs: a tabbed seed is read back as its      *)
(* first word, which BatchRun_tabs shows.)                                 *)
(***************************************************************************)
SucceededSeeds ==
    {s \in Seeds : \E i \in DOMAIN progress :
                     progress[i].seed = s /\ progress[i].status \in SuccessStatuses}

LoadCompletedMatchesReference == LoadCompletedSeeds(progress) = SucceededSeeds

(***************************************************************************)
(* The comment on retval = 1 says a nonzero exit status reports that       *)
(* btcrseed.main failed.  Stated: a process that exits 0 while no MATCHED  *)
(* line is logged has logged no ERROR line in that run.                    *)
(***************************************************************************)
ExitStatusReportsErrors ==
    \A p \in Procs :
        (exitCode[p] = 0 /\ ~ProgressContainsMatch(progress)) => ~runErrors[p]
-----------------------------------------------------------------------------
(***************************************************************************)
(* Refinement.  The progress file written by all processes together,      *)
(* across kills and restarts, is a behaviour of ProgressLog: append-only, *)
(* outcomes that btcrseed.main can return for the seed, and, with         *)
(* --batch-skip-completed and a batch file listing a seed only at        *)
(* indices of one worker, no seed recorded as a success twice unless a   *)
(* failed reload at a restart missed its success line.  The history      *)
(* variable missed is the abstract one; a Launch whose read of the file   *)
(* stops early is MissOnReload.                                            *)
(***************************************************************************)
Log == INSTANCE ProgressLog WITH log <- progress, BatchSeeds <- Range(BatchFile) \ {Comment}

ImplementsProgressLog == Log!Spec

(***************************************************************************)
(* Runner and report agree.  Once every process has run its loop to the   *)
(* end of the batch and no MATCHED line is logged, batch_progress_report  *)
(* (given the same --reverse) counts every seed position as processed,    *)
(* with two exceptions.  A position whose seed's progress line failed to  *)
(* be written.  And a repeated seed whose earlier occurrence succeeded:   *)
(* the runner skips the repeat as completed and writes no line for it,    *)
(* while the report wants one line per occurrence (seen_occurrences), so  *)
(* the repeat "appears to have been skipped".                              *)
(***************************************************************************)
Rep == INSTANCE ProgressReport

AllRunsFinished ==
    /\ ~ProgressContainsMatch(progress)
    /\ \A p \in Procs : pc[p] = "done" /\ pos[p] > Len(BatchList)

ReportShowsFinishedBatch ==
    AllRunsFinished =>
        LET batch == Rep!LoadBatchSeeds(BatchFile, ProcessReverse)
            r == Rep!Report(BatchFile, ProcessReverse, progress)
        IN \A k \in DOMAIN batch \ r.processed :
              \/ batch[k] \in unlogged
              \/ /\ Rep!Occurrence(batch, k) > 1
                 /\ batch[k] \in SucceededSeeds
=============================================================================
