------------------------------ MODULE MCSweep ------------------------------
(* A benchmark of a small ladder, out of order as a caller of               *)
(* sweep_concurrency may give it; with two requests per point one failure   *)
(* is over the error limit at the lower rungs and exactly on it at the top. *)
EXTENDS Benchmark

MCLadder == <<4, 1, 2>>
MCLimits == {None, 1}
=============================================================================
