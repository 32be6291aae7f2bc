---------------------------- MODULE MCBatchRun ----------------------------
(***************************************************************************)
(* Model values for BatchRun: two worker processes splitting a four-line  *)
(* batch file (three seeds and a comment line) as --batch-worker 1/2 and  *)
(* 2/2, the last seed read being the one btcrseed.main finds.             *)
(***************************************************************************)
EXTENDS BatchRun, TLC

CONSTANTS p1, p2, s1, s2, s3

MCProcs == {p1, p2}
MCSeeds == {s1, s2, s3}
\* s1 (index 0) and s3 (index 2) belong to worker 1, s2 (index 1) to worker 2.
MCBatchFile == <<s1, Comment, s2, s3>>
MCTwoWorkers == (p1 :> {0}) @@ (p2 :> {1})
MCMatch == {s3}
\* With --batch-reverse the file is read as s3, s2, s1: the match is again
\* the last seed, and the ownership of the seed indices is unchanged.
MCMatchReversed == {s1}
\* A batch file listing s1 twice, both times at an index of worker 1 (0 and
\* 2, in either order); the match is worker 2's seed.
MCBatchFileRepeat == <<s1, Comment, s2, s1>>
MCMatchRepeat == {s2}
\* s1's batch line separates its words by tabs (pasted from a spreadsheet).
MCTabbed == {s1}
=============================================================================
