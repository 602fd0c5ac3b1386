-------------------------- MODULE MCLazyHydration --------------------------
(***************************************************************************)
(* Small instances of LazyHydration.  A tick of these logs takes 10 bytes   *)
(* unless noted; bytes 0..9 are the bootstrap lines.                        *)
(***************************************************************************)
EXTENDS LazyHydration

CONSTANTS runA, runB, c1, c2

Uniform(ticks) == [t \in ticks |-> [start |-> 10 * t, end |-> 10 * t + 10]]

MCFiveTicks == [d \in {runA} |-> Uniform(1..5)]

\* A log with gaps, whose second tick is three times as long as the others, in a
\* file and behind a URL.
MCTwoGapLogs ==
  [d \in {runA, runB} |-> [t \in {1, 2, 4, 5, 6, 8, 9} |->
     [start |-> 10 * t, end |-> IF t = 2 THEN 40 ELSE 10 * t + 10]]]

MCTwoLogs == [d \in {runA, runB} |-> IF d = runA THEN Uniform(1..3) ELSE Uniform({1, 2, 4})]

KindFile == [d \in {runA} |-> "file"]
KindFileUrl == [d \in {runA, runB} |-> IF d = runA THEN "file" ELSE "url"]

Seeks == {-1, 1, 2, 3, 9}
=============================================================================
