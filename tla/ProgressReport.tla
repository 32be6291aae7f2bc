---------------------------- MODULE ProgressReport ----------------------------
(***************************************************************************)
(* utilities/batch_progress_report.py: reads a batch file and the progress *)
(* file the batch runner writes, and reports how many seed positions have  *)
(* a progress line, the farthest such position, and the positions before  *)
(* it that have none ("appear to have been skipped").  Pure operators      *)
(* over the lines of the two files, as the runner models them: a batch    *)
(* line is a seed or Comment, a progress line a [status, seed] record.    *)
(* Line numbers and the printed wording are left out.                     *)
(***************************************************************************)
EXTENDS Naturals, Sequences, FiniteSets, SequencesExt, FiniteSetsExt

CONSTANTS
    Comment,   \* a blank line or a line starting with '#'
    Tabbed     \* the seeds whose words are separated by tabs

\* _load_progress splits a progress line on tabs and keeps parts[1]: the
\* seed, or only its first word when the seed's words are separated by
\* tabs.  That word is none of the batch's seeds.
FirstWord(s) == [firstWordOf |-> s]
ReadSeed(s) == IF s \in Tabbed THEN FirstWord(s) ELSE s

\* _load_batch_seeds: the seed lines in file order, reversed with --reverse;
\* the position of an entry is its index.
LoadBatchSeeds(file, reverse) ==
    LET seeds == SelectSeq(file, LAMBDA l : l # Comment)
    IN IF reverse THEN Reverse(seeds) ELSE seeds

\* How many times batch[k] occurs in batch[1..k] (seen_occurrences).
Occurrence(batch, k) == Cardinality({j \in 1..k : batch[j] = batch[k]})

\* Seeded bug: an occurrence counts as processed only with more progress
\* lines than occurrences so far.
ProcessedPositionsStrict(batch, log) ==
    {k \in DOMAIN batch :
        Cardinality({i \in DOMAIN log : ReadSeed(log[i].seed) = batch[k]})
            > Occurrence(batch, k)}

\* _determine_processed_positions: the k-th occurrence of a seed in the
\* batch is processed when the progress file has at least k lines for it
\* (progress_counts[seed] >= seen_occurrences[seed]), whatever their status.
DetermineProcessedPositions(batch, log) ==
    {k \in DOMAIN batch :
        Cardinality({i \in DOMAIN log : ReadSeed(log[i].seed) = batch[k]})
            >= Occurrence(batch, k)}

\* main, from the loaded entries on: total, the number processed, the
\* farthest processed position (0 when none: "No progress has been
\* recorded yet") and the skipped positions before it.
ReportFrom(batch, processed) ==
    LET farthest == IF processed = {} THEN 0 ELSE Max(processed)
    IN [total     |-> Len(batch),
        processed |-> processed,
        farthest  |-> farthest,
        skipped   |-> {k \in DOMAIN batch : k < farthest /\ k \notin processed}]

Report(file, reverse, log) ==
    ReportFrom(LoadBatchSeeds(file, reverse),
               DetermineProcessedPositions(LoadBatchSeeds(file, reverse), log))
=============================================================================
