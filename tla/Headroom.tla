------------------------------ MODULE Headroom ------------------------------
(***************************************************************************)
(* The headroom of a plan: max_concurrency_for_budget in                   *)
(* estimator/memory.py, which doubles and then bisects for the largest     *)
(* concurrency whose caches fit the budget.  Each step is one evaluation   *)
(* of the predicate fits, a Monte Carlo estimate of the working set.       *)
(*                                                                         *)
(* The predicate is any set of concurrencies: the estimate draws different *)
(* requests for each concurrency, so nothing guarantees that it is         *)
(* monotone.  A budget of nothing is the empty set.  Module Launch runs    *)
(* the search for the requests of a plan.                                  *)
(***************************************************************************)
EXTENDS Integers

CONSTANT Ceiling   \* ceiling: the largest answer

CeilingPositive == Ceiling \in Nat \ {0}

VARIABLES
  fits,     \* the concurrencies whose footprint fits the budget
  low,      \* fits, once the search has begun
  high,
  pc,       \* "one", "double", "bisect" or "done"
  result,
  calls     \* history: evaluations of fits

vars == <<fits, low, high, pc, result, calls>>

Concurrencies == 1 .. Ceiling

(* One past the ceiling too: the search must not ask about it.              *)
Askable == 1 .. Ceiling + 1

Smaller(a, b) == IF a <= b THEN a ELSE b

Init ==
  /\ fits \in SUBSET Askable
  /\ low = 1
  /\ high = 2
  /\ pc = "one"
  /\ result = 0
  /\ calls = 0

(* Not even one request fits.                                               *)
NoneFits ==
  /\ pc = "one"
  /\ 1 \notin fits
  /\ pc' = "done"
  /\ calls' = calls + 1
  /\ UNCHANGED <<fits, low, high, result>>

OneFits ==
  /\ pc = "one"
  /\ 1 \in fits
  /\ pc' = "double"
  /\ calls' = calls + 1
  /\ UNCHANGED <<fits, low, high, result>>

(* while high <= ceiling and fits(high)                                     *)
Double ==
  /\ pc = "double"
  /\ high <= Ceiling
  /\ high \in fits
  /\ low' = high
  /\ high' = high * 2
  /\ calls' = calls + 1
  /\ UNCHANGED <<fits, pc, result>>

StopDoubling ==
  /\ pc = "double"
  /\ high > Ceiling \/ high \notin fits
  /\ high' = Smaller(high, Ceiling)
  /\ pc' = "bisect"
  /\ calls' = IF high <= Ceiling THEN calls + 1 ELSE calls
  /\ UNCHANGED <<fits, low, result>>

(* Mutant: the next concurrency is probed instead of the middle.            *)
BisectLinear ==
  /\ pc = "bisect"
  /\ low + 1 < high
  /\ IF low + 1 \in fits
       THEN low' = low + 1 /\ UNCHANGED high
       ELSE high' = low + 1 /\ UNCHANGED low
  /\ calls' = calls + 1
  /\ UNCHANGED <<fits, pc, result>>

Bisect ==
  /\ pc = "bisect"
  /\ low + 1 < high
  /\ LET mid == (low + high) \div 2 IN
       IF mid \in fits
         THEN low' = mid /\ UNCHANGED high
         ELSE high' = mid /\ UNCHANGED low
  /\ calls' = calls + 1
  /\ UNCHANGED <<fits, pc, result>>

Return ==
  /\ pc = "bisect"
  /\ low + 1 >= high
  /\ result' = low
  /\ pc' = "done"
  /\ UNCHANGED <<fits, low, high, calls>>

Terminating == pc = "done" /\ UNCHANGED vars

SearchStep == NoneFits \/ OneFits \/ Double \/ StopDoubling \/ Bisect \/ Return

Next == SearchStep \/ Terminating

Spec == Init /\ [][Next]_vars

-----------------------------------------------------------------------------
(* Properties.                                                              *)

TypeOK ==
  /\ fits \subseteq Askable
  /\ low \in Concurrencies
  /\ high \in 1 .. 2 * Ceiling
  /\ pc \in {"one", "double", "bisect", "done"}
  /\ result \in 0 .. Ceiling
  /\ calls \in Nat

(* What the proofs rest on: low fits, and high either failed or is the      *)
(* ceiling, which the search may leave untested.                            *)
Bracket ==
  /\ pc = "one" => low = 1 /\ high = 2 /\ result = 0
  /\ pc = "double" => low \in fits /\ high = 2 * low
  /\ pc = "bisect" =>
       /\ low \in fits
       /\ low <= high
       /\ high <= Ceiling
       /\ high < Ceiling => high \notin fits
  /\ pc = "done" =>
       IF result = 0 THEN 1 \notin fits
       ELSE result \in fits /\ (result + 1 < Ceiling => result + 1 \notin fits)

(* The answer is never one that does not fit, and a request more than the   *)
(* answer does not, whether or not the estimate is monotone.                *)
AnswerTight ==
  pc = "done" =>
    /\ result > 0 => result \in fits
    /\ result + 1 < Ceiling => result + 1 \notin fits

(* The bits a number is written with.                                       *)
BitLength[n \in Nat] == IF n = 0 THEN 0 ELSE 1 + BitLength[n \div 2]

(* The cost of the search is logarithmic in the ceiling.                    *)
LogarithmicCost == calls <= 2 * BitLength[Ceiling] - 1
=============================================================================
