------------------------------- MODULE Sweep -------------------------------
(***************************************************************************)
(* The concurrency sweep, bench/harness.py: sweep_concurrency climbs the   *)
(* sorted ladder, measures each rung with run_at_concurrency and stops     *)
(* early on errors, saturation or a breached SLA; and what                 *)
(* bench/metrics.py reads off the points it returns.                       *)
(*                                                                         *)
(* A point is what the stop rules and the summary look at: how many        *)
(* requests succeeded and failed, the output throughput and the two p99    *)
(* latencies.  The engine's behaviour is chosen at the start as a curve,   *)
(* one measurement per rung, so that the points a sweep returns can be     *)
(* compared with the ones it skipped.  Ratios are compared as integers.    *)
(***************************************************************************)
EXTENDS Integers, Sequences, Functions

CONSTANTS
  Ladder,            (* config.concurrencies, in the order they were given  *)
  RequestsPerPoint,  (* config.requests_per_point                           *)
  MaxErrorPercent,   (* config.max_error_rate                               *)
  Throughputs,       (* throughputs of a rung where something succeeded     *)
  Latencies,         (* p99 latencies; 0 is the tpot of single-token runs   *)
  Limits             (* SLA bounds; None among them means not constrained   *)

None == -1

ASSUME SweepAssumption ==
  /\ Ladder \in Seq(Nat \ {0}) /\ Ladder # <<>>
  /\ RequestsPerPoint \in Nat \ {0}
  /\ MaxErrorPercent \in 0 .. 100
  /\ Throughputs \subseteq Nat \ {0}
  /\ Latencies \subseteq Nat
  /\ Limits \subseteq Nat \cup {None}

VARIABLES
  config,   \* the stop flags and the SLA
  curve,    \* what each rung of the sorted ladder would measure
  index,    \* the rung that is next
  points,   \* the points measured so far
  best,     \* best_throughput
  stop      \* why the climb ended; "climbing" before that

vars == <<config, curve, index, points, best, stop>>

Rungs == 1 .. Len(Ladder)

\* sorted(config.concurrencies)
Sorted ==
  CHOOSE s \in [Rungs -> {Ladder[i] : i \in Rungs}] :
    /\ \A i, j \in Rungs : i < j => s[i] <= s[j]
    /\ \E f \in Bijection(Rungs, Rungs) : \A i \in Rungs : s[i] = Ladder[f[i]]

Larger(a, b) == IF a >= b THEN a ELSE b

\* n_requests of a rung: never fewer than its concurrency
Requests(c) == Larger(RequestsPerPoint, c)

(* What a rung can measure: no request failed, one did, or all of them did  *)
(* and then there is neither throughput nor latency.                        *)
Measurements(c) ==
  LET n == Requests(c) IN
  [concurrency : {c}, ok : {n}, failed : {0},
   throughput : Throughputs, ttft : Latencies \ {0}, tpot : Latencies]
  \cup
  (IF n = 1 THEN {} ELSE
  [concurrency : {c}, ok : {n - 1}, failed : {1},
   throughput : Throughputs, ttft : Latencies \ {0}, tpot : Latencies])
  \cup
  [concurrency : {c}, ok : {0}, failed : {n}, throughput : {0}, ttft : {0}, tpot : {0}]

-----------------------------------------------------------------------------
(* bench/metrics.py.                                                        *)

TooManyErrors(p) == 100 * p.failed > MaxErrorPercent * (p.ok + p.failed)

\* BenchmarkResult.meets
Meets(p, sla) ==
  /\ p.ok > 0
  /\ sla.ttft = None \/ p.ttft <= sla.ttft
  /\ sla.tpot = None \/ p.tpot <= sla.tpot

NotGaining(throughput, reference) == 100 * throughput < 102 * reference

\* the first of the points with indices I that has the highest throughput
Highest(pts, I) ==
  pts[CHOOSE i \in I :
        \A j \in I : \/ pts[j].throughput < pts[i].throughput
                     \/ pts[j].throughput = pts[i].throughput /\ i <= j]

\* SweepResult.knee: throughput of the chosen point, 0 without one
Knee(pts, sla) ==
  LET I == {i \in DOMAIN pts : Meets(pts[i], sla)}
  IN  IF I = {} THEN 0 ELSE Highest(pts, I).throughput

\* Mutant: the usable point before the first one that gains too little
LastGainingConcurrency(pts) ==
  LET usable == {i \in DOMAIN pts : pts[i].ok > 0}
      gaining == {i \in usable : \A k, j \in usable :
                    j < k /\ k <= i => ~NotGaining(pts[k].throughput, pts[j].throughput)}
  IN  IF \A i, j \in usable : i = j THEN None
      ELSE pts[CHOOSE i \in gaining : \A j \in gaining : i >= j].concurrency

\* SweepResult.saturation_concurrency: the first usable point that gains less
\* than 2% on a usable point before it, else the last usable one
SaturationConcurrency(pts) ==
  LET usable == {i \in DOMAIN pts : pts[i].ok > 0}
      flat   == {i \in usable : \E j \in usable :
                   j < i /\ NotGaining(pts[i].throughput, pts[j].throughput)}
  IN  IF \A i, j \in usable : i = j THEN None
      ELSE IF flat # {} THEN pts[CHOOSE i \in flat : \A j \in flat : i <= j].concurrency
      ELSE pts[CHOOSE i \in usable : \A j \in usable : i >= j].concurrency

-----------------------------------------------------------------------------
(* sweep_concurrency.                                                       *)

Unconstrained == config.sla.ttft = None /\ config.sla.tpot = None

\* Mutant: saturated only when throughput falls
SaturatedIfLower(p) == config.stopOnSaturation /\ best > 0 /\ p.throughput < best

Saturated(p) == config.stopOnSaturation /\ best > 0 /\ NotGaining(p.throughput, best)

\* Mutant: a point exactly on the limit counts as a breach
BreachedOnLimit(p) ==
  /\ config.stopOnSla
  /\ \/ config.sla.ttft # None /\ p.ttft >= config.sla.ttft
     \/ config.sla.tpot # None /\ p.tpot >= config.sla.tpot

SlaBreached(p) ==
  config.stopOnSla /\ ~Unconstrained /\ ~Meets(p, config.sla)

Settings ==
  [stopOnSla : BOOLEAN, stopOnSaturation : BOOLEAN, sla : [ttft : Limits, tpot : Limits]]

Curves ==
  {c \in [Rungs -> UNION {Measurements(Ladder[i]) : i \in Rungs}] :
     \A i \in Rungs : c[i] \in Measurements(Sorted[i])}

Init ==
  /\ config \in Settings
  /\ curve \in Curves
  /\ index = 1
  /\ points = <<>>
  /\ best = 0
  /\ stop = "climbing"

(* The body of the loop: measure the rung, keep the point, then the three   *)
(* reasons to stop, in this order.                                          *)
Measure ==
  /\ stop = "climbing"
  /\ index \in Rungs
  /\ points' = Append(points, curve[index])
  /\ index' = index + 1
  /\ UNCHANGED <<config, curve>>

StopOnErrors ==
  /\ Measure
  /\ TooManyErrors(curve[index])
  /\ stop' = "errors"
  /\ UNCHANGED best

StopOnSaturation ==
  /\ Measure
  /\ ~TooManyErrors(curve[index])
  /\ Saturated(curve[index])
  /\ stop' = "saturation"
  /\ UNCHANGED best

Climb ==
  /\ Measure
  /\ ~TooManyErrors(curve[index])
  /\ ~Saturated(curve[index])
  /\ best' = Larger(best, curve[index].throughput)
  /\ stop' = IF SlaBreached(curve[index]) THEN "sla" ELSE "climbing"

ReachTop ==
  /\ stop = "climbing"
  /\ index \notin Rungs
  /\ stop' = "top"
  /\ UNCHANGED <<config, curve, index, points, best>>

(* An exception from run_at_concurrency or on_point leaves the function:    *)
(* the points measured so far are local to it and go with it.               *)
Raise ==
  /\ stop = "climbing"
  /\ index \in Rungs
  /\ stop' = "raised"
  /\ points' = <<>>
  /\ UNCHANGED <<config, curve, index, best>>

SweepStep == StopOnErrors \/ StopOnSaturation \/ Climb \/ ReachTop \/ Raise

Terminating ==
  /\ stop # "climbing"
  /\ UNCHANGED vars

Next == SweepStep \/ Terminating

Spec == Init /\ [][Next]_vars

-----------------------------------------------------------------------------
(* Properties.                                                              *)

(* The climb goes on only for a reason: every point but the last is no      *)
(* slower than its predecessors by the 2% rule, within the error budget and *)
(* within the SLA, as far as the flags ask, and concurrency never falls.    *)
(* Throughputs are compared with the points themselves, not with best.      *)
ClimbJustified ==
  \A i \in 1 .. Len(points) - 1 :
    /\ points[i].concurrency <= points[i + 1].concurrency
    /\ ~TooManyErrors(points[i])
    /\ config.stopOnSaturation =>
         \A j \in 1 .. i - 1 : ~NotGaining(points[i].throughput, points[j].throughput)
    /\ config.stopOnSla /\ ~Unconstrained => Meets(points[i], config.sla)

(* The harness and the summary decide saturation separately, from best and  *)
(* from the points: a sweep that stops on saturation never measures a       *)
(* usable point beyond the concurrency its own result calls saturated.      *)
SaturationAgrees ==
  config.stopOnSaturation /\ SaturationConcurrency(points) # None =>
    \A i \in DOMAIN points :
      points[i].ok > 0 => points[i].concurrency <= SaturationConcurrency(points)

LatencyMonotone ==
  \A i, j \in DOMAIN curve :
    i < j /\ curve[i].ok > 0 /\ curve[j].ok > 0 =>
      curve[i].ttft <= curve[j].ttft /\ curve[i].tpot <= curve[j].tpot

(* "higher points cannot satisfy it either, since latency is monotone in    *)
(* concurrency" (SweepConfig.stop_on_sla_violation): granted the premise,   *)
(* stopping at the SLA loses nothing, the knee of the points measured is    *)
(* that of the whole ladder.                                                *)
SlaStopKeepsKnee ==
  stop = "sla" /\ LatencyMonotone /\ MaxErrorPercent < 100 =>
    Knee(points, config.sla) = Knee(curve, config.sla)
=============================================================================
