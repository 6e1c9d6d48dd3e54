------------------------------- MODULE Search -------------------------------
(***************************************************************************)
(* The configuration search: search and grid_search of search/engine.py,   *)
(* score_all, prune and pareto_front of search/space.py.                   *)
(*                                                                         *)
(* A candidate is its place in the enumeration.  What the estimator        *)
(* predicts of it and what a boot would measure are numbers chosen freely  *)
(* in Init and used as the code uses them: compared with each other, and   *)
(* with zero.  The measurement of a candidate is its throughput within the *)
(* SLA, zero when the sweep has no point that meets it.                    *)
(***************************************************************************)
EXTENDS Integers, FiniteSets

CONSTANTS
  Count,         (* candidates enumerated                                   *)
  Budget,        (* boot_budget, handed to prune as keep                    *)
  Predictions,   (* bound: values of either predicted axis                  *)
  Measurements   (* bound: throughputs a sweep may find, 0 among them       *)

ASSUME SearchAssumption ==
  /\ Count \in Nat
  /\ Budget \in Nat \ {0}          \* search raises ValueError otherwise
  /\ Predictions \subseteq Nat
  /\ Measurements \subseteq Nat

Candidates == 1 .. Count
None == 0

VARIABLES
  mode,        \* "search" or "grid": which of the two functions is called
  feasible,    \* candidates score does not answer None for
  kvTokens,    \* ScoredCandidate.kv_tokens
  throughput,  \* ScoredCandidate.predicted_throughput
  measured,    \* what a boot of the candidate measures
  pc,          \* "prune", "boot", "done" or "raised"
  survivors,   \* PruneReport.survivors
  booted,      \* the candidates of evaluations
  best         \* SearchResult.best, or None

world == <<mode, feasible, kvTokens, throughput, measured>>
vars  == <<world, pc, survivors, booted, best>>

-----------------------------------------------------------------------------
(* search/space.py                                                          *)

\* Mutant: equal candidates dominate each other
DominatesOrEquals(b, a) ==
  b # a /\ kvTokens[b] >= kvTokens[a] /\ throughput[b] >= throughput[a]

Dominates(b, a) ==
  /\ kvTokens[b] >= kvTokens[a]
  /\ throughput[b] >= throughput[a]
  /\ kvTokens[b] > kvTokens[a] \/ throughput[b] > throughput[a]

\* pareto_front
Frontier == {a \in feasible : \A b \in feasible : ~Dominates(b, a)}

\* Mutant: sorted without reverse
BeforeAscending(a, b) ==
  \/ throughput[a] < throughput[b]
  \/ throughput[a] = throughput[b] /\ a < b

\* sorted by predicted throughput, descending; sorted is stable
Before(a, b) ==
  \/ throughput[a] > throughput[b]
  \/ throughput[a] = throughput[b] /\ a < b

\* [:keep]
Kept == {a \in Frontier : Cardinality({b \in Frontier : Before(b, a)}) < Budget}

-----------------------------------------------------------------------------
Init ==
  /\ mode \in {"search", "grid"}
  /\ feasible \in SUBSET Candidates
  /\ kvTokens \in [Candidates -> Predictions]
  /\ throughput \in [Candidates -> Predictions]
  /\ measured \in [Candidates -> Measurements]
  /\ pc = "prune"
  /\ survivors = {}
  /\ booted = {}
  /\ best = None

(* prune, or in grid_search score_all alone.  With nothing feasible search  *)
(* returns at once and grid_search has nothing to boot.                     *)
Prune ==
  /\ pc = "prune"
  /\ survivors' = IF mode = "search" THEN Kept ELSE feasible
  /\ pc' = IF feasible = {} THEN "done" ELSE "boot"
  /\ UNCHANGED <<world, booted, best>>

\* the order of the boots: that of the survivors
Earlier(a, b) == IF mode = "search" THEN Before(a, b) ELSE a < b

IsNext(c) ==
  /\ c \in survivors \ booted
  /\ \A d \in survivors \ booted : ~Earlier(d, c)

(* boot_and_measure returns a sweep: one more evaluation.                   *)
Boot ==
  /\ pc = "boot"
  /\ \E c \in survivors : IsNext(c) /\ booted' = booted \cup {c}
  /\ UNCHANGED <<world, pc, survivors, best>>

(* boot_and_measure raises: the exception leaves the search, and the        *)
(* evaluations already made go with it.                                     *)
BootRaises ==
  /\ pc = "boot"
  /\ survivors # booted
  /\ pc' = "raised"
  /\ UNCHANGED <<world, survivors, booted, best>>

Usable == {c \in booted : measured[c] > 0}

\* max returns the first of the largest
IsBest(c) ==
  \A d \in Usable :
    \/ measured[d] < measured[c]
    \/ measured[d] = measured[c] /\ ~Earlier(d, c)

Select ==
  /\ pc = "boot"
  /\ booted = survivors
  /\ IF Usable = {} THEN best' = None ELSE \E c \in Usable : IsBest(c) /\ best' = c
  /\ pc' = "done"
  /\ UNCHANGED <<world, survivors, booted>>

Terminating ==
  /\ pc \in {"done", "raised"}
  /\ UNCHANGED vars

Next == Prune \/ Boot \/ BootRaises \/ Select \/ Terminating

Spec == Init /\ [][Next]_vars

-----------------------------------------------------------------------------
(* Properties.                                                              *)

(* search's docstring: "if the budget runs out early, what has been spent   *)
(* is spent on the most promising candidates rather than an arbitrary       *)
(* prefix".  Whenever the search stops, a boot that raises included, each   *)
(* feasible candidate it passed over for a booted one of lower predicted    *)
(* throughput is dominated, on both axes, by one that was booted.           *)
NothingBetterSkipped ==
  mode = "search" =>
    \A b \in booted, c \in feasible \ booted :
      throughput[c] > throughput[b] => \E d \in booted : Dominates(d, c)

\* the predictions order the candidates as the measurements do
PredictionsOrder ==
  \A a, b \in feasible : throughput[a] >= throughput[b] => measured[a] >= measured[b]

(* What pruning gives up is the estimator's fault alone: if the predictions *)
(* rank the candidates as the engine does, a search within its boot budget  *)
(* finds as good a configuration as the exhaustive grid, which always finds *)
(* the best.                                                                *)
FindsBest ==
  pc = "done" /\ (mode = "grid" \/ PredictionsOrder) =>
    \A c \in feasible :
      IF best = None THEN measured[c] = 0 ELSE measured[c] <= measured[best]
=============================================================================
