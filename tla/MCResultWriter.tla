-------------------------- MODULE MCResultWriter --------------------------
(***************************************************************************)
(* Instances of ResultWriter for TLC.                                      *)
(***************************************************************************)
EXTENDS ResultWriter

\* -r 1 on the command line: one operation per benchmark.
MCSameReps == [b \in 1..NumBenchmarks |-> {1}]

\* A timed policy: benchmarks stop after one or two operations.
MCTimedReps == [b \in 1..NumBenchmarks |-> IF b = 1 THEN {1, 2} ELSE {1}]

\* Default repetition counts, which differ between benchmarks.
MCDefaultReps == [b \in 1..NumBenchmarks |-> {b}]
=============================================================================
