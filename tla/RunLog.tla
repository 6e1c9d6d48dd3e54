------------------------------- MODULE RunLog -------------------------------
(***************************************************************************)
(* What the measurement store promises (store/sqlite.py): a log of runs    *)
(* that only grows, each run entering it whole, with all its points.       *)
(***************************************************************************)
EXTENDS Naturals, Sequences

CONSTANT PointCounts   \* how many points a run may have

VARIABLE log   \* by run id: the points its sweep had and the points stored

Init == log = <<>>

RecordRun ==
  \E n \in PointCounts : log' = Append(log, [measured |-> n, stored |-> n])

Spec == Init /\ [][RecordRun]_log
=============================================================================
