-------------------------- MODULE PredictionProofs --------------------------
(***************************************************************************)
(* What the two parts that work with the performance model promise, proved *)
(* for every value of their constants: the search, which boots what the    *)
(* predictions rank, and the calibration, which refits the coefficients    *)
(* that the predictions are made with.                                     *)
(***************************************************************************)
EXTENDS Search, Calibration, Sums, SequenceTheorems

-----------------------------------------------------------------------------
(* The search: any number of candidates, any boot budget, all predictions   *)
(* and all measurements.                                                    *)

World ==
  /\ mode \in {"search", "grid"}
  /\ feasible \subseteq Candidates
  /\ kvTokens \in [Candidates -> Nat]
  /\ throughput \in [Candidates -> Nat]
  /\ measured \in [Candidates -> Nat]

Survivors == IF mode = "search" THEN Kept ELSE feasible

(* Boots follow the order of the survivors.                                 *)
Booted ==
  /\ pc \in {"prune", "boot", "done", "raised"}
  /\ IF pc = "prune" THEN survivors = {} ELSE survivors = Survivors
  /\ booted \subseteq survivors
  /\ \A b \in booted, c \in survivors : Earlier(c, b) => c \in booted

(* A search that is done has booted every survivor and returns the first of *)
(* the largest measurements.                                                *)
Selected ==
  pc = "done" =>
    /\ booted = survivors
    /\ IF Usable = {} THEN best = None ELSE best \in Usable /\ IsBest(best)

(* Nothing is selected before the boots are over.                           *)
Unspent == pc \in {"prune", "boot"} => best = None

SearchInv == World /\ Booted /\ Selected /\ Unspent

(* Domination is a strict order.                                            *)
LEMMA DominationStrict ==
  ASSUME World
  PROVE  /\ \A a \in feasible : ~Dominates(a, a)
         /\ \A a, b, c \in feasible : Dominates(a, b) /\ Dominates(b, c) => Dominates(a, c)
<1>1. \A a \in feasible : kvTokens[a] \in Nat /\ throughput[a] \in Nat
  BY DEF World
<1>2. \A a \in feasible : ~Dominates(a, a)
  BY <1>1 DEF Dominates
<1>3. ASSUME NEW a \in feasible, NEW b \in feasible, NEW c \in feasible,
             Dominates(a, b), Dominates(b, c)
      PROVE  Dominates(a, c)
  BY <1>1, <1>3 DEF Dominates
<1>4. QED
  BY <1>2, <1>3

(* The order of the boots is strict too.                                    *)
LEMMA OrderStrict ==
  ASSUME World
  PROVE  /\ \A a \in feasible : ~Before(a, a)
         /\ \A a, b, c \in feasible : Before(a, b) /\ Before(b, c) => Before(a, c)
<1>1. \A a \in feasible : a \in Int /\ throughput[a] \in Nat
  BY SearchAssumption DEF World, Candidates, SearchAssumption
<1>2. \A a \in feasible : ~Before(a, a)
  BY <1>1 DEF Before
<1>3. ASSUME NEW a \in feasible, NEW b \in feasible, NEW c \in feasible,
             Before(a, b), Before(b, c)
      PROVE  Before(a, c)
  BY <1>1, <1>3 DEF Before
<1>4. QED
  BY <1>2, <1>3

LEMMA FeasibleFinite ==
  ASSUME World
  PROVE  /\ IsFiniteSet(feasible)
         /\ Frontier \subseteq feasible /\ Kept \subseteq Frontier
         /\ \A S : S \subseteq feasible => IsFiniteSet(S)
<1>1. IsFiniteSet(Candidates)
  BY SearchAssumption, FS_Interval DEF Candidates, SearchAssumption
<1>2. ASSUME NEW S, S \subseteq feasible PROVE IsFiniteSet(S)
  BY <1>1, <1>2, FS_Subset DEF World
<1>3. QED
  BY <1>2 DEF Frontier, Kept

(* What pruning drops is dominated by something on the frontier.            *)
LEMMA FrontierDominates ==
  ASSUME World, NEW c \in feasible
  PROVE  c \in Frontier \/ \E d \in Frontier : Dominates(d, c)
<1> DEFINE S == {d \in feasible : Dominates(d, c)}
           R == {p \in feasible \X feasible : Dominates(p[1], p[2])}
<1>1. CASE S = {}
  BY <1>1 DEF Frontier
<1>2. CASE S # {}
  <2>1. IsFiniteSet(S) /\ S \subseteq feasible
    BY FeasibleFinite
  <2>2. \A x, y \in feasible : <<x, y>> \in R <=> Dominates(x, y)
    OBVIOUS
  <2>3. /\ \A x \in S : <<x, x>> \notin R
        /\ \A x, y, z \in S : <<x, y>> \in R /\ <<y, z>> \in R => <<x, z>> \in R
    <3> HIDE DEF R
    <3> QED
      BY <2>1, <2>2, DominationStrict
  <2>4. PICK m \in S : \A y \in S : <<y, m>> \notin R
    <3> HIDE DEF R, S
    <3> QED
      BY <1>2, <2>1, <2>3, LeastMember
  <2>5. m \in feasible /\ Dominates(m, c)
    OBVIOUS
  <2>6. \A b \in feasible : ~Dominates(b, m)
    <3> SUFFICES ASSUME NEW b \in feasible, Dominates(b, m) PROVE FALSE
      OBVIOUS
    <3>1. b \in S
      BY <2>5, DominationStrict
    <3> QED
      BY <2>2, <2>4, <2>5, <3>1
  <2>7. QED
    BY <2>5, <2>6 DEF Frontier
<1>3. QED
  BY <1>1, <1>2

(* The cut keeps, with a candidate, all of the frontier before it.          *)
LEMMA KeptClosed ==
  ASSUME World, NEW a \in Kept, NEW c \in Frontier, Before(c, a)
  PROVE  c \in Kept
<1> DEFINE Preceding(x) == {b \in Frontier : Before(b, x)}
<1>1. IsFiniteSet(Preceding(a)) /\ Preceding(a) \subseteq feasible
  BY FeasibleFinite
<1>2. Preceding(c) \subseteq Preceding(a)
  BY FeasibleFinite, OrderStrict
<1>3. /\ IsFiniteSet(Preceding(c)) /\ Cardinality(Preceding(c)) <= Cardinality(Preceding(a))
      /\ Cardinality(Preceding(c)) \in Nat /\ Cardinality(Preceding(a)) \in Nat
  <2> HIDE DEF Preceding
  <2> QED
    BY <1>1, <1>2, FS_Subset, FS_CardinalityType
<1>4. Cardinality(Preceding(a)) < Budget
  BY DEF Kept
<1>5. Cardinality(Preceding(c)) < Budget
  <2> HIDE DEF Preceding
  <2> QED
    BY <1>3, <1>4, SearchAssumption DEF SearchAssumption
<1>6. QED
  BY <1>5 DEF Kept

(* The cut keeps the most promising of the frontier: nothing on the         *)
(* frontier is predicted to be faster than everything that is kept.         *)
LEMMA KeptMostPromising ==
  ASSUME World, NEW c \in Frontier
  PROVE  \E a \in Kept : throughput[a] >= throughput[c]
<1> DEFINE R == {p \in feasible \X feasible : Before(p[1], p[2])}
<1>1. /\ IsFiniteSet(Frontier) /\ Frontier # {} /\ Frontier \subseteq feasible
      /\ throughput \in [Candidates -> Nat] /\ feasible \subseteq Candidates
  BY FeasibleFinite DEF World
<1>2. \A x, y \in feasible : <<x, y>> \in R <=> Before(x, y)
  OBVIOUS
<1>3. /\ \A x \in Frontier : <<x, x>> \notin R
      /\ \A x, y, z \in Frontier : <<x, y>> \in R /\ <<y, z>> \in R => <<x, z>> \in R
  <2> HIDE DEF R
  <2> QED
    BY <1>1, <1>2, OrderStrict
<1>4. PICK m \in Frontier : \A y \in Frontier : <<y, m>> \notin R
  <2> HIDE DEF R
  <2> QED
    BY <1>1, <1>3, LeastMember
<1>5. \A y \in Frontier : ~Before(y, m)
  BY <1>1, <1>2, <1>4
<1>6. {b \in Frontier : Before(b, m)} = {}
  BY <1>5
<1>7. m \in Kept
  BY <1>6, FS_EmptySet, SearchAssumption DEF Kept, SearchAssumption
<1>8. throughput[m] >= throughput[c]
  BY <1>1, <1>5 DEF Before
<1>9. QED
  BY <1>7, <1>8

-----------------------------------------------------------------------------
LEMMA InitHolds == Init => SearchInv
<1> SUFFICES ASSUME Init PROVE SearchInv
  OBVIOUS
<1>1. World
  BY SearchAssumption DEF Init, World, SearchAssumption, Candidates
<1>2. QED
  BY <1>1 DEF Init, SearchInv, Booted, Selected, Unspent

LEMMA PruneKeeps == SearchInv /\ Prune => SearchInv'
<1> SUFFICES ASSUME SearchInv, Prune PROVE SearchInv'
  OBVIOUS
<1>1. /\ World /\ World' /\ Survivors' = Survivors /\ survivors' = Survivors
      /\ booted' = {} /\ pc' \in {"done", "boot"}
  BY DEF SearchInv, World, Booted, Prune, world, Survivors, Kept, Frontier, Before, Dominates
<1>2. Booted'
  BY <1>1 DEF Booted
<1>3. ASSUME pc' = "done" PROVE booted' = survivors' /\ Usable' = {} /\ best' = None
  <2>1. feasible = {} /\ best' = best
    BY <1>3 DEF Prune
  <2>2. survivors' = {}
    BY <1>1, <2>1, FeasibleFinite DEF Survivors
  <2>3. best = None
    BY DEF SearchInv, Unspent, Prune
  <2>4. Usable' = {}
    BY <1>1 DEF Usable
  <2>5. QED
    BY <1>1, <2>1, <2>2, <2>3, <2>4
<1>4. Unspent'
  BY DEF SearchInv, Unspent, Prune
<1>5. QED
  BY <1>1, <1>2, <1>3, <1>4 DEF SearchInv, Selected

LEMMA BootKeeps == SearchInv /\ Boot => SearchInv'
<1> SUFFICES ASSUME SearchInv, Boot PROVE SearchInv'
  OBVIOUS
<1>1. /\ World /\ World' /\ Survivors' = Survivors /\ survivors' = survivors
      /\ pc = "boot" /\ pc' = pc /\ survivors = Survivors
  BY DEF SearchInv, World, Booted, Boot, world, Survivors, Kept, Frontier, Before, Dominates
<1>2. PICK c \in survivors : IsNext(c) /\ booted' = booted \cup {c}
  BY DEF Boot
<1>3. booted' \subseteq survivors'
  BY <1>1, <1>2 DEF SearchInv, Booted
<1>4. ASSUME NEW b \in booted', NEW d \in survivors', Earlier(d, b)'
      PROVE  d \in booted'
  <2>1. Earlier(d, b) /\ d \in survivors
    BY <1>1, <1>4 DEF Earlier, Before, Boot, world
  <2>2. CASE b \in booted
    BY <1>2, <2>1, <2>2 DEF SearchInv, Booted
  <2>3. CASE b = c
    BY <1>2, <2>1, <2>3 DEF IsNext
  <2>4. QED
    BY <1>2, <2>2, <2>3
<1>5. Booted'
  BY <1>1, <1>3, <1>4 DEF Booted
<1>6. QED
  BY <1>1, <1>5 DEF SearchInv, Selected, Unspent, Boot

LEMMA RaiseKeeps == SearchInv /\ BootRaises => SearchInv'
BY DEF SearchInv, World, Booted, Selected, Unspent, BootRaises, world, Survivors, Kept,
       Frontier, Before, Dominates, Earlier

LEMMA SelectKeeps == SearchInv /\ Select => SearchInv'
<1> SUFFICES ASSUME SearchInv, Select PROVE SearchInv'
  OBVIOUS
<1>1. /\ World' /\ Survivors' = Survivors /\ survivors' = survivors /\ booted' = booted
      /\ pc = "boot" /\ pc' = "done" /\ booted = survivors
  BY DEF SearchInv, World, Booted, Select, world, Survivors, Kept, Frontier, Before, Dominates
<1>2. Booted'
  BY <1>1 DEF SearchInv, Booted, Earlier, Before, Select, world
<1>3. Usable' = Usable /\ \A c : IsBest(c)' <=> IsBest(c)
  BY <1>1 DEF Usable, IsBest, Earlier, Before, Select, world
<1>4. IF Usable = {} THEN best' = None ELSE best' \in Usable /\ IsBest(best')
  BY DEF Select
<1>5. Selected'
  <2>1. CASE Usable = {}
    BY <1>1, <1>3, <1>4, <2>1 DEF Selected
  <2>2. CASE Usable # {}
    <3>1. best' \in Usable' /\ IsBest(best)'
      BY <1>3, <1>4, <2>2 DEF IsBest, Usable, Earlier, Before, Select, world
    <3>2. QED
      BY <1>1, <1>3, <2>2, <3>1 DEF Selected
  <2>3. QED
    BY <2>1, <2>2
<1>6. QED
  BY <1>1, <1>2, <1>5 DEF SearchInv, Unspent

LEMMA Inductive == Spec => []SearchInv
<1>1. SearchInv /\ [Next]_vars => SearchInv'
  <2>1. SearchInv /\ Terminating => SearchInv'
    BY DEF SearchInv, World, Booted, Selected, Unspent, Terminating, vars, world, Survivors,
           Kept, Frontier, Before, Dominates, Earlier, Usable, IsBest
  <2>2. SearchInv /\ UNCHANGED vars => SearchInv'
    BY DEF SearchInv, World, Booted, Selected, Unspent, vars, world, Survivors,
           Kept, Frontier, Before, Dominates, Earlier, Usable, IsBest
  <2>3. QED
    BY <2>1, <2>2, PruneKeeps, BootKeeps, RaiseKeeps, SelectKeeps DEF Next
<1>2. QED
  BY <1>1, InitHolds, PTL DEF Spec

-----------------------------------------------------------------------------
(* The boots a search has made are spent on the most promising candidates,  *)
(* wherever it stops: a feasible one of higher predicted throughput that    *)
(* was passed over is dominated by one that was booted.                     *)
THEOREM PromisingFirst == Spec => []NothingBetterSkipped
<1>1. SearchInv => NothingBetterSkipped
  <2> SUFFICES ASSUME SearchInv, mode = "search",
                      NEW b \in booted, NEW c \in feasible \ booted,
                      throughput[c] > throughput[b]
               PROVE  \E d \in booted : Dominates(d, c)
    BY DEF NothingBetterSkipped
  <2>1. /\ World /\ b \in Kept /\ b \in feasible /\ survivors = Kept
        /\ \A x \in feasible : throughput[x] \in Nat
    BY FeasibleFinite DEF SearchInv, World, Booted, Survivors
  <2>2. ASSUME NEW x \in Frontier, throughput[x] > throughput[b] PROVE x \in booted
    <3>1. Before(x, b)
      BY <2>2 DEF Before
    <3>2. x \in Kept
      BY <2>1, <3>1, KeptClosed
    <3>3. QED
      BY <2>1, <3>1, <3>2 DEF SearchInv, Booted, Earlier
  <2>3. PICK d \in Frontier : Dominates(d, c)
    BY <2>1, <2>2, FrontierDominates
  <2>4. throughput[d] > throughput[b]
    BY <2>1, <2>3, FeasibleFinite DEF Dominates
  <2>5. QED
    BY <2>2, <2>3, <2>4
<1>2. QED
  BY <1>1, Inductive, PTL

(* If the predictions order the candidates as the engine does, a search     *)
(* that ends finds as good a configuration as the exhaustive grid, and the  *)
(* grid always finds the best.                                              *)
THEOREM BestFound == Spec => []FindsBest
<1>1. SearchInv => FindsBest
  <2> SUFFICES ASSUME SearchInv, pc = "done", mode = "grid" \/ PredictionsOrder, NEW c \in feasible
               PROVE  IF best = None THEN measured[c] = 0 ELSE measured[c] <= measured[best]
    BY DEF FindsBest
  <2>1. /\ World /\ booted = Survivors /\ booted \subseteq feasible
        /\ \A x \in feasible : throughput[x] \in Nat /\ measured[x] \in Nat /\ x # None
    BY FeasibleFinite, SearchAssumption
       DEF SearchInv, World, Booted, Selected, Survivors, SearchAssumption, Candidates, None
  <2>2. PICK a \in booted : measured[a] >= measured[c]
    <3>1. CASE mode = "grid"
      BY <2>1, <3>1 DEF Survivors, World
    <3>2. CASE mode = "search" /\ PredictionsOrder
      <4>1. PICK d \in Frontier : throughput[d] >= throughput[c]
        <5>1. CASE c \in Frontier
          BY <2>1, <5>1
        <5>2. CASE \E d \in Frontier : Dominates(d, c)
          BY <5>2 DEF Dominates
        <5>3. QED
          BY <2>1, <5>1, <5>2, FrontierDominates
      <4>2. PICK a \in Kept : throughput[a] >= throughput[d]
        BY <2>1, KeptMostPromising
      <4>3. a \in feasible /\ d \in feasible
        BY <2>1, FeasibleFinite
      <4>4. throughput[a] >= throughput[c]
        BY <2>1, <4>1, <4>2, <4>3
      <4>5. QED
        BY <2>1, <3>2, <4>2, <4>3, <4>4 DEF PredictionsOrder, Survivors
    <3>3. QED
      BY <2>1, <3>1, <3>2 DEF World
  <2>3. CASE Usable = {}
    <3>1. measured[a] = 0 /\ best = None
      BY <2>1, <2>3 DEF Usable, SearchInv, Selected
    <3>2. QED
      BY <2>1, <2>2, <3>1
  <2>4. CASE Usable # {}
    <3>1. best \in booted /\ best # None /\ measured[best] > 0
          /\ \A x \in Usable : measured[x] <= measured[best]
      BY <2>1, <2>4 DEF SearchInv, Selected, IsBest, Usable
    <3>2. measured[a] <= measured[best]
      BY <2>1, <3>1 DEF Usable
    <3>3. QED
      BY <2>1, <2>2, <3>1, <3>2
  <2>5. QED
    BY <2>3, <2>4
<1>2. QED
  BY <1>1, Inductive, PTL

-----------------------------------------------------------------------------
(* The calibration.                                                         *)

(* A ratio of counts.                                                       *)
Ratios == [num : Nat, den : Nat \ {0}]

LEMMA Product ==
  ASSUME NEW a \in Nat, NEW b \in Nat
  PROVE  a * b \in Nat
OBVIOUS

LEMMA Cancel ==
  ASSUME NEW k \in Nat \ {0}, NEW a \in Int, NEW b \in Int
  PROVE  /\ k * a < k * b <=> a < b
         /\ k * a <= k * b <=> a <= b
         /\ k * a = k * b <=> a = b
BY SMT

(* Ratios compared crosswise are ordered.                                   *)
LEMMA Crosswise ==
  ASSUME NEW an \in Nat, NEW ad \in Nat \ {0}, NEW bn \in Nat, NEW bd \in Nat \ {0},
         NEW cn \in Nat, NEW cd \in Nat \ {0},
         an * bd <= bn * ad, bn * cd <= cn * bd
  PROVE  /\ an * cd <= cn * ad
         /\ an * bd < bn * ad \/ bn * cd < cn * bd => an * cd < cn * ad
<1> DEFINE ab == an * bd
           ba == bn * ad
           bc == bn * cd
           cb == cn * bd
           ac == an * cd
           ca == cn * ad
<1>1. /\ ab \in Nat /\ ba \in Nat /\ bc \in Nat /\ cb \in Nat /\ ac \in Nat /\ ca \in Nat
  BY Product
<1>2. cd * ab = bd * ac /\ cd * ba = ad * bc /\ ad * cb = bd * ca
  OBVIOUS
<1>3. ab <= ba /\ bc <= cb
  OBVIOUS
<1> HIDE DEF ab, ba, bc, cb, ac, ca
<1>4. cd * ab <= cd * ba /\ ad * bc <= ad * cb
  BY <1>1, <1>3, Cancel
<1>5. /\ cd * ab \in Nat /\ cd * ba \in Nat /\ ad * bc \in Nat /\ ad * cb \in Nat
      /\ bd * ac \in Nat /\ bd * ca \in Nat
  BY <1>1, Product
<1>6. bd * ac <= bd * ca
  BY <1>2, <1>4, <1>5
<1>7. ac <= ca
  BY <1>1, <1>6, Cancel
<1>8. ASSUME ab < ba \/ bc < cb PROVE ac < ca
  <2>1. cd * ab < cd * ba \/ ad * bc < ad * cb
    BY <1>1, <1>8, Cancel
  <2>2. bd * ac < bd * ca
    BY <1>2, <1>4, <1>5, <2>1
  <2>3. QED
    BY <1>1, <2>2, Cancel
<1>9. QED
  BY <1>7, <1>8 DEF ab, ba, bc, cb, ac, ca

LEMMA Ordered ==
  ASSUME NEW a \in Ratios, NEW b \in Ratios, NEW c \in Ratios
  PROVE  /\ ~Below(a, a)
         /\ Below(a, b) => ~Below(b, a)
         /\ ~Below(b, a) /\ ~Below(c, b) => ~Below(c, a)
         /\ Below(a, b) /\ ~Below(c, b) => Below(a, c)
         /\ ~Below(b, a) /\ Below(b, c) => Below(a, c)
<1>1. /\ a.num \in Nat /\ a.den \in Nat \ {0} /\ b.num \in Nat /\ b.den \in Nat \ {0}
      /\ c.num \in Nat /\ c.den \in Nat \ {0}
  BY DEF Ratios
<1> DEFINE ab == a.num * b.den
           ba == b.num * a.den
           bc == b.num * c.den
           cb == c.num * b.den
           ac == a.num * c.den
           ca == c.num * a.den
<1>2. /\ ab \in Nat /\ ba \in Nat /\ bc \in Nat /\ cb \in Nat /\ ac \in Nat /\ ca \in Nat
  BY <1>1, Product
<1>3. /\ Below(a, b) <=> ab < ba
      /\ Below(b, a) <=> ba < ab
      /\ Below(b, c) <=> bc < cb
      /\ Below(c, b) <=> cb < bc
      /\ Below(a, c) <=> ac < ca
      /\ Below(c, a) <=> ca < ac
  BY DEF Below
<1>4. ~Below(a, a)
  <2>1. a.num * a.den \in Nat
    BY <1>1, Product
  <2>2. QED
    BY <2>1 DEF Below
<1>5. ab <= ba /\ bc <= cb => ac <= ca /\ (ab < ba \/ bc < cb => ac < ca)
  BY <1>1, Crosswise
<1> HIDE DEF ab, ba, bc, cb, ac, ca
<1>6. QED
  BY <1>2, <1>3, <1>4, <1>5

(* The samples sorted: every place among them is taken by one.              *)
LEMMA NthExists ==
  ASSUME NEW s \in Seq(Ratios), NEW k \in 1 .. Len(s)
  PROVE  \E i \in DOMAIN s : Cardinality(Ahead(s, i)) = k - 1
<1>1. PICK n : n = Len(s)
  OBVIOUS
<1>2. n \in Nat /\ DOMAIN s = 1 .. n /\ k \in 1 .. n /\ \A i \in 1 .. n : s[i] \in Ratios
  BY <1>1
<1>3. PICK D : D = 1 .. n
  OBVIOUS
<1>4. IsFiniteSet(D) /\ Cardinality(D) = n /\ D \subseteq Nat
  BY <1>2, <1>3, FS_Interval
<1>5. \A i \in D : /\ Ahead(s, i) \in SUBSET D /\ i \notin Ahead(s, i)
  <2>1. \A i \in D : ~Below(s[i], s[i]) /\ ~(i < i)
    BY <1>2, <1>3, <1>4, Ordered
  <2>2. QED
    BY <1>2, <1>3, <2>1 DEF Ahead
<1>6. \A i, j \in D : i # j => i \in Ahead(s, j) \/ j \in Ahead(s, i)
  <2> SUFFICES ASSUME NEW i \in D, NEW j \in D, i # j, i \notin Ahead(s, j), j \notin Ahead(s, i)
               PROVE  FALSE
    OBVIOUS
  <2>1. /\ ~Below(s[i], s[j]) /\ (Below(s[j], s[i]) \/ ~(i < j))
        /\ ~Below(s[j], s[i]) /\ (Below(s[i], s[j]) \/ ~(j < i))
    BY <1>2, <1>3 DEF Ahead
  <2>2. QED
    BY <1>4, <2>1
<1>7. \A i, j \in D : i \in Ahead(s, j) => Ahead(s, i) \subseteq Ahead(s, j)
  <2> SUFFICES ASSUME NEW i \in D, NEW j \in D, i \in Ahead(s, j), NEW h \in Ahead(s, i)
               PROVE  h \in Ahead(s, j)
    OBVIOUS
  <2>1. h \in D
    BY <1>5
  <2>2. /\ Below(s[h], s[i]) \/ (~Below(s[i], s[h]) /\ h < i)
        /\ Below(s[i], s[j]) \/ (~Below(s[j], s[i]) /\ i < j)
    BY DEF Ahead
  <2>3. s[h] \in Ratios /\ s[i] \in Ratios /\ s[j] \in Ratios
    BY <1>2, <1>3, <2>1
  <2>4. Below(s[h], s[i]) => ~Below(s[i], s[h])
    BY <2>3, Ordered
  <2>5. Below(s[i], s[j]) => ~Below(s[j], s[i])
    BY <2>3, Ordered
  <2>6. ~Below(s[i], s[h]) /\ ~Below(s[j], s[i]) => ~Below(s[j], s[h])
    BY <2>3, Ordered
  <2>7. Below(s[h], s[i]) /\ ~Below(s[j], s[i]) => Below(s[h], s[j])
    BY <2>3, Ordered
  <2>8. ~Below(s[i], s[h]) /\ Below(s[i], s[j]) => Below(s[h], s[j])
    BY <2>3, Ordered
  <2>9. Below(s[h], s[j]) \/ (~Below(s[j], s[h]) /\ h < i /\ i < j)
    BY <2>2, <2>4, <2>5, <2>6, <2>7, <2>8
  <2>10. h < i /\ i < j => h < j
    BY <1>4, <2>1
  <2>11. QED
    BY <1>2, <1>3, <2>1, <2>9, <2>10 DEF Ahead
<1> DEFINE rank(i) == Cardinality(Ahead(s, i))
<1>8. \A i \in D : IsFiniteSet(Ahead(s, i)) /\ rank(i) \in Nat /\ rank(i) < n
  <2> SUFFICES ASSUME NEW i \in D
               PROVE  IsFiniteSet(Ahead(s, i)) /\ rank(i) \in Nat /\ rank(i) < n
    OBVIOUS
  <2>1. Ahead(s, i) \in SUBSET D /\ Ahead(s, i) # D
    BY <1>5
  <2>2. QED
    BY <1>4, <2>1, FS_Subset, FS_CardinalityType
<1>9. \A i, j \in D : i \in Ahead(s, j) => rank(i) < rank(j)
  <2> SUFFICES ASSUME NEW i \in D, NEW j \in D, i \in Ahead(s, j) PROVE rank(i) < rank(j)
    OBVIOUS
  <2>1. Ahead(s, i) \in SUBSET Ahead(s, j) /\ Ahead(s, i) # Ahead(s, j)
    BY <1>5, <1>7
  <2>2. QED
    BY <1>8, <2>1, FS_Subset
<1> HIDE DEF rank
<1>10. PICK R : R = 0 .. n - 1
  OBVIOUS
<1>11. PICK f : f = [i \in D |-> rank(i)]
  OBVIOUS
<1>12. f \in Injection(D, R)
  <2>1. f \in [D -> R]
    BY <1>2, <1>8, <1>10, <1>11
  <2>2. \A i, j \in D : f[i] = f[j] => i = j
    BY <1>6, <1>8, <1>9, <1>11
  <2>3. QED
    BY <2>1, <2>2 DEF Injection, IsInjective
<1>13. IsFiniteSet(R) /\ Cardinality(R) = n
  BY <1>2, <1>10, FS_Interval
<1>14. f \in Surjection(D, R)
  BY <1>4, <1>12, <1>13, FS_Injection
<1>15. k - 1 \in R
  BY <1>2, <1>10
<1>16. PICK i \in D : f[i] = k - 1
  BY <1>14, <1>15 DEF Surjection
<1>17. QED
  BY <1>2, <1>3, <1>11, <1>16 DEF rank

(* Samples that tell the truth come after those that understate it.         *)
LEMMA TruthOnTop ==
  ASSUME NEW s \in Seq(Ratios), NEW d \in Nat \ {0}, \A i \in DOMAIN s : AtMost(s[i], d),
         NEW E, E = {i \in DOMAIN s : Equals(s[i], d)},
         NEW i \in DOMAIN s, Cardinality(Ahead(s, i)) >= Len(s) - Cardinality(E)
  PROVE  Equals(s[i], d)
<1> SUFFICES ASSUME ~Equals(s[i], d) PROVE FALSE
  OBVIOUS
<1>1. PICK n, D : n = Len(s) /\ D = 1 .. n
  OBVIOUS
<1>2. n \in Nat /\ DOMAIN s = D /\ \A j \in D : s[j] \in Ratios
  <2>1. Len(s) \in Nat /\ DOMAIN s = 1 .. Len(s) /\ \A j \in DOMAIN s : s[j] \in Ratios
    OBVIOUS
  <2>2. QED
    BY <1>1, <2>1
<1>3. IsFiniteSet(D) /\ Cardinality(D) = n /\ E \in SUBSET D
  <2>1. IsFiniteSet(D) /\ Cardinality(D) = n
    <3>1. n \in Nat /\ D = 1 .. n
      BY <1>1, <1>2
    <3>2. QED
      BY ONLY <3>1, FS_Interval
  <2>2. E \in SUBSET D
    BY <1>2
  <2>3. QED
    BY <2>1, <2>2
<1>4. ASSUME NEW j \in E PROVE j \notin Ahead(s, i)
  <2>1. PICK a, b : a = s[i] /\ b = s[j]
    OBVIOUS
  <2>2. /\ a.num \in Nat /\ a.den \in Nat \ {0} /\ b.num \in Nat /\ b.den \in Nat \ {0}
        /\ a \in Ratios /\ b \in Ratios
    BY <1>2, <1>3, <2>1 DEF Ratios
  <2>3. a.num * d <= a.den /\ a.num * d # a.den /\ b.num * d = b.den
    <3>1. AtMost(a, d) /\ ~Equals(a, d) /\ Equals(b, d)
      BY <1>2, <1>3, <2>1
    <3>2. QED
      BY <3>1 DEF AtMost, Equals
  <2>4. a.num * d \in Nat /\ b.num \in Nat \ {0}
    BY <2>2, <2>3, Product
  <2>5. a.num * d < a.den
    BY <2>2, <2>3, <2>4
  <2>6. b.num * (a.num * d) < b.num * a.den
    <3>1. PICK u, v, w : u = a.num * d /\ v = b.num /\ w = a.den
      OBVIOUS
    <3>2. v \in Nat \ {0} /\ u \in Int /\ w \in Int /\ u < w
      BY <2>2, <2>4, <2>5, <3>1
    <3>3. v * u < v * w
      BY <3>2, Cancel
    <3>4. QED
      BY <3>1, <3>3
  <2>7. b.num * (a.num * d) = a.num * b.den
    <3>1. b.num * (a.num * d) = a.num * (b.num * d)
      <4>1. PICK u, v : u = a.num /\ v = b.num
        OBVIOUS
      <4>2. u \in Nat /\ v \in Nat
        BY <2>2, <4>1
      <4>3. v * (u * d) = u * (v * d)
        BY ONLY <4>2, d \in Nat
      <4>4. QED
        BY <4>1, <4>3
    <3>2. QED
      BY <2>3, <3>1
  <2>8. Below(a, b)
    BY <2>6, <2>7 DEF Below
  <2>9. ~Below(b, a)
    BY <2>2, <2>8, Ordered
  <2>10. QED
    BY <2>1, <2>8, <2>9 DEF Ahead
<1>5. i \in D \ E
  BY <1>2
<1>6. i \notin Ahead(s, i)
  <2>1. ~Below(s[i], s[i]) /\ ~(i < i)
    BY <1>1, <1>2, Ordered
  <2>2. QED
    BY <2>1 DEF Ahead
<1>7. Ahead(s, i) \in SUBSET ((D \ E) \ {i})
  <2>1. Ahead(s, i) \in SUBSET D
    BY <1>2 DEF Ahead
  <2>2. QED
    BY <1>4, <1>6, <2>1
<1>8. IsFiniteSet(D \ E) /\ Cardinality(D \ E) = n - Cardinality(E)
  <2>1. D \cap E = E
    BY <1>3
  <2>2. IsFiniteSet(D \ E)
    BY <1>3, FS_Difference
  <2>3. Cardinality(D \ E) = Cardinality(D) - Cardinality(D \cap E)
    BY <1>3, FS_Difference
  <2>4. QED
    BY <1>3, <2>1, <2>2, <2>3
<1>9. /\ IsFiniteSet((D \ E) \ {i})
      /\ Cardinality((D \ E) \ {i}) = Cardinality(D \ E) - 1
  BY <1>5, <1>8, FS_RemoveElement
<1>10. Cardinality(Ahead(s, i)) <= Cardinality((D \ E) \ {i})
  BY <1>7, <1>9, FS_Subset
<1>11. Cardinality(E) \in Nat /\ Cardinality(Ahead(s, i)) \in Nat
  BY <1>3, <1>7, <1>9, FS_Subset, FS_CardinalityType
<1>12. QED
  BY <1>1, <1>2, <1>8, <1>9, <1>10, <1>11

(* Sample k of the sorted ones is a sample, and the truth when fewer than k *)
(* understate it.                                                           *)
LEMMA NthTrue ==
  ASSUME NEW s \in Seq(Ratios), NEW d \in Nat \ {0}, \A i \in DOMAIN s : AtMost(s[i], d),
         NEW E, E = {i \in DOMAIN s : Equals(s[i], d)}, NEW k \in 1 .. Len(s)
  PROVE  /\ Nth(s, k) \in Ratios /\ AtMost(Nth(s, k), d)
         /\ Len(s) - Cardinality(E) < k => Equals(Nth(s, k), d)
<1>1. PICK i : i = CHOOSE j \in DOMAIN s : Cardinality(Ahead(s, j)) = k - 1
  OBVIOUS
<1>2. i \in DOMAIN s /\ Cardinality(Ahead(s, i)) = k - 1
  BY <1>1, NthExists
<1>3. Nth(s, k) = s[i]
  BY <1>1 DEF Nth
<1>4. s[i] \in Ratios /\ AtMost(s[i], d)
  BY <1>2
<1>5. ASSUME Len(s) - Cardinality(E) < k PROVE Equals(s[i], d)
  <2>1. k - 1 >= Len(s) - Cardinality(E)
    <3>1. IsFiniteSet(DOMAIN s)
      <4>1. DOMAIN s = 1 .. Len(s) /\ Len(s) \in Nat
        OBVIOUS
      <4>2. QED
        BY <4>1, FS_Interval
    <3>2. E \in SUBSET DOMAIN s
      OBVIOUS
    <3>3. Cardinality(E) \in Nat
      BY <3>1, <3>2, FS_Subset, FS_CardinalityType
    <3>4. QED
      BY <1>5, <3>3
  <2>2. QED
    BY <1>2, <2>1, TruthOnTop
<1>6. QED
  BY <1>3, <1>4, <1>5

LEMMA MeanTrue ==
  ASSUME NEW a \in Ratios, NEW b \in Ratios, NEW d \in Nat \ {0}, AtMost(a, d), AtMost(b, d)
  PROVE  /\ AtMost(Mean(a, b), d)
         /\ Equals(a, d) /\ Equals(b, d) => Equals(Mean(a, b), d)
<1>1. PICK p, q, x, y : p = a.num * d /\ q = b.num * d /\ x = a.den /\ y = b.den
  OBVIOUS
<1>2. a.num \in Nat /\ b.num \in Nat /\ x \in Nat /\ y \in Nat
  BY <1>1 DEF Ratios
<1>3. p \in Nat /\ q \in Nat
  BY <1>1, <1>2, Product
<1>4. p <= x /\ q <= y
  BY <1>1 DEF AtMost
<1>5. Mean(a, b).num * d = p * y + q * x
  <2>1. Mean(a, b).num = a.num * y + b.num * x
    BY <1>1 DEF Mean
  <2>2. (a.num * y + b.num * x) * d = (a.num * d) * y + (b.num * d) * x
    BY <1>2
  <2>3. QED
    BY <1>1, <2>1, <2>2
<1>6. Mean(a, b).den = x * y + x * y
  <2>1. Mean(a, b).den = 2 * x * y
    BY <1>1 DEF Mean
  <2>2. QED
    BY <1>2, <2>1
<1>7. p * y <= x * y /\ q * x <= x * y
  BY <1>2, <1>3, <1>4
<1>8. p * y \in Nat /\ q * x \in Nat /\ x * y \in Nat
  BY <1>2, <1>3, Product
<1>9. AtMost(Mean(a, b), d)
  BY <1>5, <1>6, <1>7, <1>8 DEF AtMost
<1>10. ASSUME Equals(a, d), Equals(b, d) PROVE Equals(Mean(a, b), d)
  <2>1. p = x /\ q = y
    BY <1>1, <1>10 DEF Equals
  <2>2. p * y = x * y /\ q * x = x * y
    BY <1>2, <2>1
  <2>3. QED
    BY <1>5, <1>6, <2>2 DEF Equals
<1>11. QED
  BY <1>9, <1>10

(* So the median never exceeds the truth, and it is the truth when most     *)
(* samples are.                                                             *)
LEMMA MedianTrue ==
  ASSUME NEW s \in Seq(Ratios), s # <<>>, NEW d \in Nat \ {0}, \A i \in DOMAIN s : AtMost(s[i], d),
         NEW E, E = {i \in DOMAIN s : Equals(s[i], d)}
  PROVE  /\ AtMost(Median(s), d)
         /\ 2 * Cardinality(E) > Len(s) => Equals(Median(s), d)
<1>1. PICK n, e : n = Len(s) /\ e = Cardinality(E)
  OBVIOUS
<1>2. n \in Nat \ {0}
  BY <1>1, EmptySeq
<1>3. e \in Nat
  <2>1. IsFiniteSet(DOMAIN s)
    BY <1>1, <1>2, FS_Interval
  <2>2. E \in SUBSET DOMAIN s
    OBVIOUS
  <2>3. QED
    BY <1>1, <2>1, <2>2, FS_Subset, FS_CardinalityType
<1>4. CASE n % 2 = 1
  <2>1. PICK k : k = (n + 1) \div 2
    OBVIOUS
  <2>2. k \in 1 .. n /\ (2 * e > n => n - e < k)
    BY <1>2, <1>3, <1>4, <2>1
  <2>3. Median(s) = Nth(s, k)
    BY <1>1, <1>4, <2>1 DEF Median
  <2>4. QED
    BY <1>1, <2>2, <2>3, NthTrue
<1>5. CASE n % 2 # 1
  <2>1. PICK k : k = n \div 2
    OBVIOUS
  <2>2. k \in 1 .. n /\ k + 1 \in 1 .. n /\ (2 * e > n => n - e < k /\ n - e < k + 1)
    BY <1>2, <1>3, <1>5, <2>1
  <2>3. Median(s) = Mean(Nth(s, k), Nth(s, k + 1))
    BY <1>1, <1>5, <2>1 DEF Median
  <2>4. /\ Nth(s, k) \in Ratios /\ AtMost(Nth(s, k), d)
        /\ n - e < k => Equals(Nth(s, k), d)
    BY <1>1, <2>2, NthTrue
  <2>5. /\ Nth(s, k + 1) \in Ratios /\ AtMost(Nth(s, k + 1), d)
        /\ n - e < k + 1 => Equals(Nth(s, k + 1), d)
    BY <1>1, <2>2, NthTrue
  <2>6. /\ AtMost(Median(s), d)
        /\ Equals(Nth(s, k), d) /\ Equals(Nth(s, k + 1), d) => Equals(Median(s), d)
    BY <2>3, <2>4, <2>5, MeanTrue
  <2>7. QED
    BY <1>1, <2>2, <2>4, <2>5, <2>6
<1>6. QED
  BY <1>4, <1>5

-----------------------------------------------------------------------------
(* Quotients.                                                               *)
LEMMA Quotient ==
  ASSUME NEW a \in Nat, NEW k \in Nat \ {0}
  PROVE  /\ a \div k \in Nat
         /\ a % k = 0 => k * (a \div k) = a
BY SMT

LEMMA QuotientMonotone ==
  ASSUME NEW a \in Nat, NEW b \in Nat, NEW k \in Nat \ {0}, a <= b
  PROVE  a \div k <= b \div k
<1>1. PICK q, r : q = a \div k /\ r = b \div k
  OBVIOUS
<1>2. q \in Nat /\ r \in Nat /\ k * q <= a /\ b < k * r + k
  BY <1>1, SMT
<1>3. k * q \in Nat /\ k * r \in Nat /\ k * (r + 1) = k * r + k
  BY <1>2, Product
<1>4. k * q < k * (r + 1)
  BY <1>2, <1>3
<1>5. q < r + 1
  BY <1>2, <1>4, Cancel
<1>6. QED
  BY <1>1, <1>2, <1>5

(* A device has a figure for every width, its own or the widest.            *)
LEMMA PeakPositive ==
  ASSUME NEW s, Measurable(s)
  PROVE  Peak(s) \in Nat \ {0}
<1> DEFINE D == DOMAIN s.flops
           R == {p \in D \X D : s.flops[p[1]] > s.flops[p[2]]}
<1>1. IsFiniteSet(D) /\ D # {} /\ \A w \in D : s.flops[w] \in Nat \ {0}
  BY DEF Measurable
<1>2. \A x, y \in D : <<x, y>> \in R <=> s.flops[x] > s.flops[y]
  OBVIOUS
<1>3. \A x, y : <<x, y>> \in R => x \in D /\ y \in D
  OBVIOUS
<1> HIDE DEF R, D
<1>4. \A x \in D : <<x, x>> \notin R
  BY <1>1, <1>2
<1>5. \A x, y, z \in D : <<x, y>> \in R /\ <<y, z>> \in R => <<x, z>> \in R
  BY <1>1, <1>2
<1>6. PICK m \in D : \A y \in D : <<y, m>> \notin R
  BY <1>1, <1>4, <1>5, LeastMember
<1>7. \A w \in D : s.flops[w] <= s.flops[m]
  <2> SUFFICES ASSUME NEW w \in D PROVE s.flops[w] <= s.flops[m]
    OBVIOUS
  <2>1. ~(s.flops[w] > s.flops[m])
    BY <1>2, <1>6
  <2>2. s.flops[w] \in Nat
    BY <1>1
  <2>3. s.flops[m] \in Nat
    BY <1>1
  <2>4. QED
    BY <2>1, <2>2, <2>3
<1>8. BigFlops(s) \in {s.flops[w] : w \in D}
  <2>1. s.flops[m] \in {s.flops[w] : w \in D}
    OBVIOUS
  <2>2. BigFlops(s) = CHOOSE p \in {s.flops[w] : w \in D} : \A w \in D : s.flops[w] <= p
    BY DEF BigFlops, D
  <2>3. QED
    BY <1>7, <2>1, <2>2
<1>9. BigFlops(s) \in Nat \ {0}
  BY <1>1, <1>8
<1>10. s.bits \in D => s.flops[s.bits] \in Nat \ {0}
  BY <1>1
<1>11. QED
  BY <1>9, <1>10 DEF Peak, D

LEMMA CommunicationNatural ==
  ASSUME NEW s, Measurable(s), NEW t \in Nat, NEW b \in Nat
  PROVE  Communication(s, t, b) \in Nat
<1>1. /\ s.layers \in Nat /\ s.hidden \in Nat /\ s.tp \in Nat \ {0}
      /\ s.link.rate \in Nat /\ s.link.latency \in Nat
  BY DEF Measurable
<1>2. CASE s.tp = 1 \/ s.link.rate = 0
  BY <1>2 DEF Communication
<1>3. CASE ~(s.tp = 1 \/ s.link.rate = 0)
  <2>1. PICK calls, size, k, l : /\ calls = 2 * s.layers
                                 /\ size = calls * 2 * (s.tp - 1) * (t * s.hidden * (b \div 8))
                                 /\ k = s.tp * s.link.rate
                                 /\ l = calls * s.link.latency
    OBVIOUS
  <2>2. calls \in Nat /\ s.tp - 1 \in Nat /\ b \div 8 \in Nat
    <3>1. calls \in Nat
      BY <1>1, <2>1
    <3>2. s.tp - 1 \in Nat
      BY <1>1
    <3>3. b \div 8 \in Nat
      BY Quotient
    <3>4. QED
      BY <3>1, <3>2, <3>3
  <2>3. size \in Nat
    <3>1. t * s.hidden \in Nat /\ calls * 2 \in Nat
      BY <1>1, <2>2, Product
    <3>2. t * s.hidden * (b \div 8) \in Nat
      BY <2>2, <3>1, Product
    <3>3. calls * 2 * (s.tp - 1) \in Nat
      BY <2>2, <3>1, Product
    <3>4. QED
      BY <2>1, <3>2, <3>3, Product
  <2>4. k \in Nat \ {0}
    BY <1>1, <1>3, <2>1
  <2>5. l \in Nat
    BY <1>1, <2>1, <2>2, Product
  <2>6. size \div k \in Nat
    BY <2>3, <2>4, Quotient
  <2>7. Communication(s, t, b) = (size \div k) + l
    BY <1>3, <2>1 DEF Communication
  <2>8. QED
    BY <2>5, <2>6, <2>7
<1>4. QED
  BY <1>2, <1>3

(* Wider activations take no less time on the link.                         *)
LEMMA CommunicationMonotone ==
  ASSUME NEW s, Measurable(s), NEW t \in Nat, NEW a \in Nat, NEW b \in Nat, a <= b
  PROVE  Communication(s, t, a) <= Communication(s, t, b)
<1>1. /\ s.layers \in Nat /\ s.hidden \in Nat /\ s.tp \in Nat \ {0}
      /\ s.link.rate \in Nat /\ s.link.latency \in Nat
  BY DEF Measurable
<1>2. CASE s.tp = 1 \/ s.link.rate = 0
  BY <1>2 DEF Communication
<1>3. CASE ~(s.tp = 1 \/ s.link.rate = 0)
  <2>1. PICK calls, x, y, m, k, l : /\ calls = 2 * s.layers
                                    /\ m = t * s.hidden
                                    /\ x = a \div 8 /\ y = b \div 8
                                    /\ k = s.tp * s.link.rate
                                    /\ l = calls * s.link.latency
    OBVIOUS
  <2>2. PICK n : n = calls * 2 * (s.tp - 1)
    OBVIOUS
  <2>3. calls \in Nat /\ s.tp - 1 \in Nat /\ m \in Nat
    BY <1>1, <2>1, Product
  <2>4. n \in Nat
    BY <2>2, <2>3, Product
  <2>5. x \in Nat /\ y \in Nat /\ x <= y
    BY <2>1
  <2>6. k \in Nat \ {0}
    BY <1>1, <1>3, <2>1
  <2>7. l \in Nat
    BY <1>1, <2>1, <2>3, Product
  <2>8. n * (m * x) \in Nat /\ n * (m * y) \in Nat
    BY <2>3, <2>4, <2>5, Product
  <2>9. n * (m * x) <= n * (m * y)
    <3>1. m * x <= m * y
      BY <2>3, <2>5
    <3>2. m * x \in Nat /\ m * y \in Nat
      BY <2>3, <2>5, Product
    <3>3. QED
      BY <2>4, <3>1, <3>2
  <2>10. (n * (m * x)) \div k <= (n * (m * y)) \div k
    BY <2>6, <2>8, <2>9, QuotientMonotone
  <2>11. (n * (m * x)) \div k \in Nat /\ (n * (m * y)) \div k \in Nat
    BY <2>6, <2>8, Quotient
  <2>12. /\ Communication(s, t, a) = ((n * (m * x)) \div k) + l
         /\ Communication(s, t, b) = ((n * (m * y)) \div k) + l
    BY <1>3, <2>1, <2>2 DEF Communication
  <2>13. QED
    BY <2>7, <2>10, <2>11, <2>12
<1>4. QED
  BY <1>2, <1>3

-----------------------------------------------------------------------------
(* What calibrate takes for granted of the activations, 16 bits, is no more *)
(* than the engine sends, or it sends none.                                 *)
Wide(s) == s.tp = 1 \/ s.link.rate = 0 \/ s.bits >= 16

LEMMA WideEnough ==
  ASSUME NEW s, Measurable(s), Wide(s), NEW t \in Nat
  PROVE  Communication(s, t, 16) <= Communication(s, t, s.bits)
<1>1. CASE s.tp = 1 \/ s.link.rate = 0
  BY <1>1 DEF Communication
<1>2. CASE s.bits >= 16
  <2>1. s.bits \in Nat /\ 16 \in Nat /\ 16 <= s.bits
    BY <1>2 DEF Measurable
  <2>2. QED
    BY <2>1, CommunicationMonotone
<1>3. QED
  BY <1>1, <1>2 DEF Wide

Coefficients == [mbu : Efficiencies, mfu : Efficiencies]

(* A step whose quotients are whole.                                        *)
LEMMA StepWhole ==
  ASSUME NEW s, Measurable(s), NEW coef \in Coefficients,
         NEW bytes \in Nat, NEW flops \in Nat, NEW tokens \in Nat, NEW step,
         step = Step(s, coef, bytes, flops, tokens)
  PROVE  /\ step.memory \in Nat /\ step.compute \in Nat
         /\ step.comm \in Nat /\ step.comm = Communication(s, tokens, s.bits)
         /\ step.fixed \in Nat /\ step.fixed = s.fixed
         /\ (bytes * coef.mbu) % s.bandwidth = 0 => s.bandwidth * step.memory = bytes * coef.mbu
         /\ (flops * coef.mfu) % Peak(s) = 0 => Peak(s) * step.compute = flops * coef.mfu
<1>1. PICK x, y, u, v : x = bytes * coef.mbu /\ y = flops * coef.mfu /\ u = s.bandwidth /\ v = Peak(s)
  OBVIOUS
<1>2. u \in Nat \ {0} /\ v \in Nat \ {0}
  BY <1>1, PeakPositive DEF Measurable
<1>3. coef.mbu \in Nat /\ coef.mfu \in Nat
  BY ParametersAssumption DEF Coefficients
<1>4. x \in Nat /\ y \in Nat
  BY <1>1, <1>3, Product
<1>5. /\ step.memory = x \div u /\ step.compute = y \div v
      /\ step.comm = Communication(s, tokens, s.bits) /\ step.fixed = s.fixed
  BY <1>1 DEF Step
<1>6. x \div u \in Nat /\ (x % u = 0 => u * (x \div u) = x)
  BY <1>2, <1>4, Quotient
<1>7. y \div v \in Nat /\ (y % v = 0 => v * (y \div v) = y)
  BY <1>2, <1>4, Quotient
<1>8. s.fixed \in Nat /\ s.bits \in Nat
  BY DEF Measurable
<1>9. step.comm \in Nat
  BY <1>5, <1>8, CommunicationNatural
<1>10. /\ step.memory \in Nat /\ step.compute \in Nat
       /\ x % u = 0 => u * step.memory = x
       /\ y % v = 0 => v * step.compute = y
  BY <1>5, <1>6, <1>7
<1>11. QED
  BY <1>1, <1>5, <1>8, <1>9, <1>10

(* The time to move the bytes, when it is a whole number of ticks.          *)
LEMMA MemoryTime ==
  ASSUME NEW s, Measurable(s), NEW coef \in Coefficients,
         NEW bytes \in Nat, NEW flops \in Nat, NEW tokens \in Nat,
         (bytes * coef.mbu) % s.bandwidth = 0
  PROVE  s.bandwidth * Step(s, coef, bytes, flops, tokens).memory = bytes * coef.mbu
BY StepWhole

(* Every rank holds its share of the weights, rounded up.                   *)
LEMMA WeightsShared ==
  ASSUME NEW s, Measurable(s)
  PROVE  WeightBytesPerGpu(s) \in Nat /\ s.weights <= s.tp * WeightBytesPerGpu(s)
<1>1. PICK a, k, q : a = s.weights /\ k = s.tp /\ q = WeightBytesPerGpu(s)
  OBVIOUS
<1>2. a \in Nat /\ k \in Nat \ {0}
  BY <1>1 DEF Measurable
<1>3. q = (a + k - 1) \div k
  BY <1>1 DEF WeightBytesPerGpu
<1>4. a + k - 1 \in Nat
  BY <1>2
<1>5. q \in Nat
  BY <1>2, <1>3, <1>4, Quotient
<1>6. a + k - 1 < k * q + k
  BY <1>2, <1>3, <1>4, SMT
<1>7. k * q \in Nat
  BY <1>2, <1>5, Product
<1>8. a <= k * q
  BY <1>2, <1>6, <1>7
<1>9. QED
  BY <1>1, <1>5, <1>8

(* What is read and computed for a token, and for a prompt.                 *)
LEMMA Sized ==
  ASSUME NEW s, Measurable(s), NEW n \in Nat, NEW m \in Nat
  PROVE  /\ DecodeBytes(s, n, m) \in Nat
         /\ DecodeFlops(s, n) \in Nat
         /\ PrefillFlops(s, n) \in Nat
<1>1. /\ s.kv \in Nat /\ s.active \in Nat /\ s.layers \in Nat /\ s.hidden \in Nat
      /\ s.tp \in Nat \ {0}
  BY DEF Measurable
<1>2. DecodeBytes(s, n, m) \in Nat
  <2>1. n * m \in Nat
    BY Product
  <2>2. n * m * s.kv \in Nat
    BY <1>1, <2>1, Product
  <2>3. WeightBytesPerGpu(s) \in Nat
    BY WeightsShared
  <2>4. QED
    BY <2>2, <2>3 DEF DecodeBytes
<1>3. 2 * s.active \in Nat
  BY <1>1
<1>4. 2 * s.active * n \in Nat
  BY <1>3, Product
<1>5. DecodeFlops(s, n) \in Nat
  BY <1>1, <1>4, Quotient DEF DecodeFlops
<1>6. PrefillFlops(s, n) \in Nat
  <2>1. 4 * s.layers \in Nat
    BY <1>1
  <2>2. 4 * s.layers * s.hidden \in Nat
    BY <1>1, <2>1, Product
  <2>3. 4 * s.layers * s.hidden * n \in Nat
    BY <2>2, Product
  <2>4. 4 * s.layers * s.hidden * n * n \in Nat
    BY <2>3, Product
  <2>5. 2 * s.active * n + 4 * s.layers * s.hidden * n * n \in Nat
    BY <1>4, <2>4
  <2>6. QED
    BY <1>1, <2>5, Quotient DEF PrefillFlops
<1>7. QED
  BY <1>2, <1>5, <1>6

(* A rate at which something was done, and the time it took.                *)
LEMMA RateAtMost ==
  ASSUME NEW rate \in Nat \ {0}, NEW work \in Nat, NEW all \in Nat, work <= all,
         NEW d \in Nat \ {0}, NEW took \in Nat, rate * took = all * d,
         NEW seen \in Nat \ {0}, NEW sample, sample = [num |-> work, den |-> rate * seen]
  PROVE  /\ sample \in Ratios
         /\ took <= seen => AtMost(sample, d)
         /\ took = seen /\ work = all => Equals(sample, d)
<1>1. rate * seen \in Nat \ {0}
  BY SMT
<1>2. work * d <= all * d /\ work * d \in Nat /\ all * d \in Nat
  BY SMT
<1>3. took <= seen => rate * took <= rate * seen
  BY Cancel
<1>4. took <= seen => work * d <= rate * seen
  BY <1>1, <1>2, <1>3
<1>5. QED
  BY <1>1, <1>4 DEF Ratios, AtMost, Equals

-----------------------------------------------------------------------------
(* What one point tells.                                                    *)

LEMMA WorkloadFacts ==
  ASSUME setup \in Setups, truth \in Coefficients, NEW w \in Workloads
  PROVE  /\ Measurable(setup) /\ truth.mbu \in Nat \ {0} /\ truth.mfu \in Nat \ {0}
         /\ w.concurrency \in Nat /\ w.disturbance \in Nat
         /\ w.traffic.prompt \in Nat /\ TrueContext(w) \in Nat
         /\ w.traffic.prompt <= TrueContext(w)
         /\ WholeTicks(setup, [mbu |-> truth.mbu, mfu |-> truth.mfu], Concurrencies,
                       {w.traffic.prompt + w.traffic.generated \div 2}, {w.traffic.prompt})
<1>1. Measurable(setup)
  BY SetupsAssumption
<1>2. truth.mbu \in Efficiencies /\ truth.mfu \in Efficiencies
  BY DEF Coefficients
<1>3. w.concurrency \in Concurrencies /\ w.disturbance \in Disturbances /\ w.traffic \in Traffic
  BY DEF Workloads
<1>4. w.traffic.prompt \in Nat /\ w.traffic.generated \in Nat
  BY <1>3, ParametersAssumption
<1>5. w.traffic.generated \div 2 \in Nat
  BY <1>4, Quotient
<1>6. TrueContext(w) \in Nat /\ w.traffic.prompt <= TrueContext(w)
  BY <1>4, <1>5 DEF TrueContext
<1>7. WholeTicks(setup, [mbu |-> truth.mbu, mfu |-> truth.mfu], Concurrencies,
                 {w.traffic.prompt + w.traffic.generated \div 2}, {w.traffic.prompt})
  BY <1>2, <1>3, TicksAssumption
<1>8. truth.mbu \in Nat \ {0} /\ truth.mfu \in Nat \ {0}
  BY <1>2, ParametersAssumption
<1>9. w.concurrency \in Nat /\ w.disturbance \in Nat
  BY <1>3, ParametersAssumption
<1>10. QED
  BY <1>1, <1>4, <1>6, <1>7, <1>8, <1>9

LEMMA DecodeWhole ==
  ASSUME setup \in Setups, truth \in Coefficients, NEW w \in Workloads
  PROVE  /\ (DecodeBytes(setup, w.concurrency, TrueContext(w)) * truth.mbu) % setup.bandwidth = 0
         /\ (DecodeFlops(setup, w.concurrency) * truth.mfu) % Peak(setup) = 0
         /\ (2 * setup.active * w.concurrency) % setup.tp = 0
         /\ (PrefillFlops(setup, w.traffic.prompt) * truth.mfu) % Peak(setup) = 0
<1>1. w.concurrency \in Concurrencies
  BY DEF Workloads
<1>2. PICK coef : coef = [mbu |-> truth.mbu, mfu |-> truth.mfu]
  OBVIOUS
<1>3. PICK C, P : C = {w.traffic.prompt + w.traffic.generated \div 2} /\ P = {w.traffic.prompt}
  OBVIOUS
<1>4. WholeTicks(setup, coef, Concurrencies, C, P)
  BY <1>2, <1>3, WorkloadFacts
<1>5. TrueContext(w) \in C /\ w.traffic.prompt \in P
  BY <1>3 DEF TrueContext
<1>6. coef.mbu = truth.mbu /\ coef.mfu = truth.mfu
  BY <1>2
<1>7. /\ (DecodeBytes(setup, w.concurrency, TrueContext(w)) * coef.mbu) % setup.bandwidth = 0
      /\ (DecodeFlops(setup, w.concurrency) * coef.mfu) % Peak(setup) = 0
      /\ (2 * setup.active * w.concurrency) % setup.tp = 0
      /\ (PrefillFlops(setup, w.traffic.prompt) * coef.mfu) % Peak(setup) = 0
  BY <1>1, <1>4, <1>5 DEF WholeTicks
<1>8. QED
  BY <1>6, <1>7

(* A decode time never makes the bandwidth look better used than it was.    *)
LEMMA MbuSample ==
  ASSUME setup \in Setups, truth \in Coefficients, NEW w \in Workloads, NEW p \in Points(w),
         p.tpot # 0, p.kv # 0, FitMbu(p) # Missing
  PROVE  /\ FitMbu(p) \in Ratios
         /\ Wide(setup) => AtMost(FitMbu(p), truth.mbu)
         /\ Undisturbed(w).mbu => Equals(FitMbu(p), truth.mbu)
<1>1. PICK s, n, full, st, d, took, wait :
        /\ s = setup /\ n = w.concurrency /\ full = TrueContext(w)
        /\ st = DecodeStep(s, truth, n, full) /\ d = truth.mbu
        /\ took = st.memory /\ wait = w.disturbance
  OBVIOUS
<1>2. Measurable(s) /\ n \in Nat /\ full \in Nat /\ d \in Nat \ {0} /\ wait \in Nat
  BY <1>1, WorkloadFacts
<1>3. /\ p.concurrency = n /\ p.tpot = TpotOf(w) /\ p.kv = s.kv
      /\ p.context = IF w.context THEN full ELSE w.traffic.prompt
  BY <1>1 DEF Points
<1>4. p.context \in Nat /\ p.context <= full
  <2>1. w.traffic.prompt \in Nat /\ w.traffic.prompt <= full
    BY <1>1, WorkloadFacts
  <2>2. QED
    BY <1>2, <1>3, <2>1
<1>5. PICK all, work : /\ all = DecodeBytes(s, n, full)
                       /\ work = WeightBytesPerGpu(s) + n * p.context * s.kv
  OBVIOUS
<1>6. /\ all \in Nat /\ work \in Nat /\ work <= all
      /\ p.context = full => work = all
  <2>1. PICK a, x, k : a = WeightBytesPerGpu(s) /\ x = p.context /\ k = s.kv
    OBVIOUS
  <2>2. a \in Nat /\ x \in Nat /\ x <= full /\ k \in Nat
    BY <1>2, <1>4, <2>1, WeightsShared DEF Measurable
  <2>3. all = a + n * full * k /\ work = a + n * x * k
    BY <1>5, <2>1 DEF DecodeBytes
  <2>4. n * x \in Nat /\ n * full \in Nat /\ n * x <= n * full
    BY <1>2, <2>2, Product
  <2>5. n * x * k \in Nat /\ n * full * k \in Nat
    BY <2>2, <2>4, Product
  <2>6. n * x * k <= n * full * k
    BY <2>2, <2>4
  <2>7. QED
    BY <2>1, <2>2, <2>3, <2>5, <2>6
<1>7. /\ took \in Nat /\ st.compute \in Nat /\ st.comm \in Nat /\ s.fixed \in Nat
      /\ st.fixed = s.fixed /\ st.comm = Communication(s, n, s.bits)
      /\ s.bandwidth * took = all * d
  <2>1. DecodeFlops(s, n) \in Nat
    BY <1>2, Sized
  <2>2. st = Step(s, truth, all, DecodeFlops(s, n), n)
    BY <1>1, <1>5 DEF DecodeStep
  <2>3. (all * truth.mbu) % s.bandwidth = 0
    BY <1>1, <1>5, DecodeWhole
  <2>4. /\ st.memory \in Nat /\ st.compute \in Nat
        /\ st.comm \in Nat /\ st.comm = Communication(s, n, s.bits)
        /\ st.fixed \in Nat /\ st.fixed = s.fixed
    <3>1. st.memory \in Nat /\ st.compute \in Nat
      BY <1>2, <1>6, <2>1, <2>2, StepWhole
    <3>2. st.comm \in Nat /\ st.comm = Communication(s, n, s.bits)
      BY <1>2, <1>6, <2>1, <2>2, StepWhole
    <3>3. st.fixed \in Nat /\ st.fixed = s.fixed
      BY <1>2, <1>6, <2>1, <2>2, StepWhole
    <3>4. QED
      BY <3>1, <3>2, <3>3
  <2>5. s.bandwidth * st.memory = all * truth.mbu
    BY <1>2, <1>6, <2>1, <2>2, <2>3, StepWhole
  <2>6. QED
    BY <1>1, <2>4, <2>5
<1>8. PICK seen : seen = p.tpot - s.fixed - Communication(s, n, 16)
  OBVIOUS
<1>9. PICK c : c = Communication(s, n, 16)
  OBVIOUS
<1>10. c \in Nat /\ s.bandwidth \in Nat \ {0}
  BY <1>2, <1>9, CommunicationNatural DEF Measurable
<1>11. seen = Bigger(took, st.compute) + st.comm + wait - c
  <2>1. p.tpot = Bigger(took, st.compute) + st.comm + s.fixed + wait
    BY <1>1, <1>3, <1>7 DEF TpotOf, Total
  <2>2. Bigger(took, st.compute) \in Nat
    BY <1>7 DEF Bigger
  <2>3. QED
    BY <1>2, <1>7, <1>8, <1>9, <1>10, <2>1, <2>2
<1>12. seen \in Int
  BY <1>2, <1>7, <1>10, <1>11 DEF Bigger
<1>13. FitMbu(p) = IF seen <= 0 THEN Missing ELSE [num |-> work, den |-> s.bandwidth * seen]
  BY <1>1, <1>3, <1>5, <1>8 DEF FitMbu
<1>14. seen \in Nat \ {0} /\ FitMbu(p) = [num |-> work, den |-> s.bandwidth * seen]
  BY <1>12, <1>13
<1>15. Wide(setup) => took <= seen
  <2>1. Wide(s) => c <= st.comm
    BY <1>2, <1>7, <1>9, WideEnough
  <2>2. took <= Bigger(took, st.compute) /\ Bigger(took, st.compute) \in Nat
    BY <1>7 DEF Bigger
  <2>3. QED
    BY <1>1, <1>2, <1>7, <1>10, <1>11, <2>1, <2>2
<1>16. Undisturbed(w).mbu => took = seen /\ work = all
  <2> SUFFICES ASSUME Undisturbed(w).mbu PROVE took = seen /\ work = all
    OBVIOUS
  <2>1. wait = 0 /\ w.context /\ c = st.comm /\ took >= st.compute
    BY <1>1, <1>7, <1>9 DEF Undisturbed
  <2>2. took = seen
    BY <1>7, <1>10, <1>11, <2>1 DEF Bigger
  <2>3. work = all
    BY <1>3, <1>6, <2>1
  <2>4. QED
    BY <2>2, <2>3
<1>17. /\ FitMbu(p) \in Ratios
       /\ took <= seen => AtMost(FitMbu(p), d)
       /\ took = seen /\ work = all => Equals(FitMbu(p), d)
  <2>1. PICK rate, x : rate = s.bandwidth /\ x = FitMbu(p)
    OBVIOUS
  <2>2. rate \in Nat \ {0} /\ x = [num |-> work, den |-> rate * seen] /\ rate * took = all * d
    BY <1>7, <1>10, <1>14, <2>1
  <2>3. /\ x \in Ratios
        /\ took <= seen => AtMost(x, d)
        /\ took = seen /\ work = all => Equals(x, d)
    BY <1>2, <1>6, <1>7, <1>14, <2>2, RateAtMost
  <2>4. QED
    BY <2>1, <2>3
<1>18. QED
  BY <1>1, <1>15, <1>16, <1>17

(* Nor does a prefill time the compute.                                     *)
LEMMA MfuSample ==
  ASSUME setup \in Setups, truth \in Coefficients, NEW w \in Workloads, NEW p \in Points(w),
         FitMfu(p) # Missing
  PROVE  /\ FitMfu(p) \in Ratios
         /\ AtMost(FitMfu(p), truth.mfu)
         /\ Undisturbed(w).mfu => Equals(FitMfu(p), truth.mfu)
<1>1. PICK s, n, st, d, took, wait :
        /\ s = setup /\ n = w.traffic.prompt
        /\ st = PrefillStep(s, truth, n) /\ d = truth.mfu
        /\ took = st.compute /\ wait = w.disturbance
  OBVIOUS
<1>2. Measurable(s) /\ n \in Nat /\ d \in Nat \ {0} /\ wait \in Nat
  BY <1>1, WorkloadFacts
<1>3. p.prompt = n /\ p.ttft = TtftOf(w)
  BY <1>1 DEF Points
<1>4. PICK work, rate, c : /\ work = PrefillFlops(s, n) /\ rate = Peak(s)
                           /\ c = Communication(s, n, s.bits)
  OBVIOUS
<1>5. work \in Nat /\ rate \in Nat \ {0}
  BY <1>2, <1>4, Sized, PeakPositive
<1>6. /\ took \in Nat /\ st.memory \in Nat /\ st.comm \in Nat /\ s.fixed \in Nat
      /\ st.fixed = s.fixed /\ st.comm = c /\ rate * took = work * d
  <2>1. WeightBytesPerGpu(s) \in Nat
    BY <1>2, WeightsShared
  <2>2. st = Step(s, truth, WeightBytesPerGpu(s), work, n)
    BY <1>1, <1>4 DEF PrefillStep
  <2>3. (work * truth.mfu) % Peak(s) = 0
    BY <1>1, <1>4, DecodeWhole
  <2>4. /\ st.memory \in Nat /\ st.compute \in Nat
        /\ st.comm \in Nat /\ st.comm = Communication(s, n, s.bits)
        /\ st.fixed \in Nat /\ st.fixed = s.fixed
    <3>1. st.memory \in Nat /\ st.compute \in Nat
      BY <1>2, <1>5, <2>1, <2>2, StepWhole
    <3>2. st.comm \in Nat /\ st.comm = Communication(s, n, s.bits)
      BY <1>2, <1>5, <2>1, <2>2, StepWhole
    <3>3. st.fixed \in Nat /\ st.fixed = s.fixed
      BY <1>2, <1>5, <2>1, <2>2, StepWhole
    <3>4. QED
      BY <3>1, <3>2, <3>3
  <2>5. Peak(s) * st.compute = work * truth.mfu
    BY <1>2, <1>5, <2>1, <2>2, <2>3, StepWhole
  <2>6. QED
    BY <1>1, <1>4, <2>4, <2>5
<1>7. PICK seen : seen = p.ttft - s.fixed - c
  OBVIOUS
<1>8. seen = Bigger(st.memory, took) + wait
  <2>1. p.ttft = Bigger(st.memory, took) + c + s.fixed + wait
    BY <1>1, <1>3, <1>6 DEF TtftOf, Total
  <2>2. Bigger(st.memory, took) \in Nat /\ c \in Nat
    BY <1>6 DEF Bigger
  <2>3. QED
    BY <1>2, <1>6, <1>7, <2>1, <2>2
<1>9. seen \in Nat /\ took <= seen
  BY <1>2, <1>6, <1>8 DEF Bigger
<1>10. FitMfu(p) = IF seen <= 0 THEN Missing ELSE [num |-> work, den |-> rate * seen]
  BY <1>1, <1>3, <1>4, <1>7 DEF FitMfu
<1>11. seen \in Nat \ {0} /\ FitMfu(p) = [num |-> work, den |-> rate * seen]
  BY <1>9, <1>10
<1>12. Undisturbed(w).mfu => took = seen
  <2> SUFFICES ASSUME Undisturbed(w).mfu PROVE took = seen
    OBVIOUS
  <2>1. wait = 0 /\ took >= st.memory
    BY <1>1 DEF Undisturbed
  <2>2. QED
    BY <1>6, <1>8, <2>1 DEF Bigger
<1>13. work <= work
  BY <1>5
<1>14. /\ FitMfu(p) \in Ratios
       /\ took <= seen => AtMost(FitMfu(p), d)
       /\ took = seen => Equals(FitMfu(p), d)
  <2>1. PICK x : x = FitMfu(p)
    OBVIOUS
  <2>2. /\ x \in Ratios
        /\ took <= seen => AtMost(x, d)
        /\ took = seen /\ work = work => Equals(x, d)
    BY <1>2, <1>5, <1>6, <1>11, <1>13, <2>1, RateAtMost
  <2>3. QED
    BY <2>1, <2>2
<1>15. QED
  BY <1>1, <1>9, <1>12, <1>14

-----------------------------------------------------------------------------
(* The samples so far.                                                      *)

(* How many of them are the truth.                                          *)
Truthful(s, d) == Cardinality({i \in DOMAIN s : Equals(s[i], d)})

LEMMA TruthfulNatural ==
  ASSUME NEW s \in Seq(Ratios), NEW d
  PROVE  Truthful(s, d) \in Nat
<1>1. PICK E : E = {i \in DOMAIN s : Equals(s[i], d)}
  OBVIOUS
<1>2. DOMAIN s = 1 .. Len(s) /\ Len(s) \in Nat
  OBVIOUS
<1>3. IsFiniteSet(DOMAIN s)
  BY <1>2, FS_Interval
<1>4. E \in SUBSET DOMAIN s
  BY <1>1
<1>5. Cardinality(E) \in Nat
  BY <1>3, <1>4, FS_Subset, FS_CardinalityType
<1>6. QED
  BY <1>1, <1>5 DEF Truthful

(* What a point adds: one sample at most, which meets what any would.       *)
LEMMA AcceptedShape ==
  ASSUME NEW x, NEW tried, tried /\ x # Missing => x \in Ratios
  PROVE  /\ Accepted(tried, x) \in Seq(Ratios)
         /\ Len(Accepted(tried, x)) \in {0, 1}
         /\ \A i \in DOMAIN Accepted(tried, x) :
              Accepted(tried, x)[i] = x /\ tried /\ x # Missing
<1>1. CASE tried /\ x # Missing /\ Plausible(x)
  <2>1. PICK s : s = <<x>>
    OBVIOUS
  <2>2. s \in Seq(Ratios) /\ Len(s) = 1 /\ \A i \in DOMAIN s : s[i] = x
    BY <1>1, <2>1
  <2>3. Accepted(tried, x) = s
    BY <1>1, <2>1 DEF Accepted
  <2>4. QED
    BY <1>1, <2>2, <2>3
<1>2. CASE ~(tried /\ x # Missing /\ Plausible(x))
  <2>1. Accepted(tried, x) = <<>>
    BY <1>2 DEF Accepted
  <2>2. QED
    BY <2>1
<1>3. QED
  BY <1>1, <1>2

LEMMA Extended ==
  ASSUME NEW d, NEW s \in Seq(Ratios), \A i \in DOMAIN s : AtMost(s[i], d),
         NEW t \in Seq(Ratios), Len(t) \in {0, 1}, \A i \in DOMAIN t : AtMost(t[i], d),
         NEW told, told => \A i \in DOMAIN t : Equals(t[i], d),
         NEW k \in Nat, k <= Truthful(s, d)
  PROVE  /\ s \o t \in Seq(Ratios)
         /\ \A i \in DOMAIN (s \o t) : AtMost((s \o t)[i], d)
         /\ k + (IF told THEN Len(t) ELSE 0) \in Nat
         /\ k + (IF told THEN Len(t) ELSE 0) <= Truthful(s \o t, d)
<1>1. PICK e : e = s \o t
  OBVIOUS
<1>2. PICK n : n = Len(s)
  OBVIOUS
<1>3. n \in Nat /\ DOMAIN s = 1 .. n
  BY <1>2
<1>4. Truthful(s, d) \in Nat /\ e \in Seq(Ratios)
  BY <1>1, TruthfulNatural, ConcatProperties
<1>5. k + (IF told THEN Len(t) ELSE 0) \in Nat
  OBVIOUS
<1>6. CASE Len(t) = 0
  <2>1. t = <<>>
    BY <1>6, EmptySeq
  <2>2. e = s
    BY <1>1, <2>1, ConcatEmptySeq
  <2>3. k + (IF told THEN Len(t) ELSE 0) = k
    BY <1>6
  <2>4. QED
    BY <1>1, <1>4, <1>5, <2>2, <2>3
<1>7. CASE Len(t) = 1
  <2>1. Len(e) = n + 1
    <3>1. Len(s \o t) = Len(s) + Len(t)
      BY ConcatProperties
    <3>2. QED
      BY <1>1, <1>2, <1>7, <3>1
  <2>2. DOMAIN e = 1 .. n + 1
    BY <1>4, <2>1
  <2>3. \A i \in 1 .. n + 1 : e[i] = IF i <= n THEN s[i] ELSE t[i - n]
    <3>1. Len(s) + Len(t) = n + 1
      BY <1>2, <1>7
    <3>2. \A i \in 1 .. Len(s) + Len(t) :
            (s \o t)[i] = IF i <= Len(s) THEN s[i] ELSE t[i - Len(s)]
      BY ConcatProperties
    <3>3. QED
      BY <1>1, <1>2, <3>1, <3>2
  <2>4. DOMAIN t = 1 .. 1 /\ 1 \in 1 .. 1
    BY <1>7
  <2>5. \A i \in 1 .. n : e[i] = s[i]
    BY <1>3, <2>3
  <2>6. e[n + 1] = t[1]
    BY <1>3, <2>3
  <2>7. \A i \in 1 .. n + 1 : AtMost(e[i], d)
    <3>1. ASSUME NEW i \in 1 .. n + 1 PROVE AtMost(e[i], d)
      <4>1. i \in 1 .. n \/ i = n + 1
        BY <1>3
      <4>2. CASE i \in 1 .. n
        BY <1>3, <2>5, <4>2
      <4>3. CASE i = n + 1
        BY <2>4, <2>6, <4>3
      <4>4. QED
        BY <4>1, <4>2, <4>3
    <3>2. QED
      BY <3>1
  <2>8. PICK E, F : /\ E = {i \in DOMAIN s : Equals(s[i], d)}
                    /\ F = {i \in DOMAIN e : Equals(e[i], d)}
    OBVIOUS
  <2>9. E \in SUBSET F
    BY <1>3, <2>2, <2>5, <2>8
  <2>10. IsFiniteSet(F)
    <3>1. n + 1 \in Nat
      BY <1>3
    <3>2. IsFiniteSet(1 .. n + 1)
      BY <3>1, FS_Interval
    <3>3. F \in SUBSET (1 .. n + 1)
      BY <2>2, <2>8
    <3>4. QED
      BY <3>2, <3>3, FS_Subset
  <2>11. Cardinality(E) = Truthful(s, d) /\ Cardinality(F) = Truthful(e, d)
    BY <2>8 DEF Truthful
  <2>12. Cardinality(E) <= Cardinality(F) /\ IsFiniteSet(E)
    BY <2>9, <2>10, FS_Subset
  <2>13. Truthful(e, d) \in Nat
    BY <1>4, TruthfulNatural
  <2>14. ASSUME told PROVE k + 1 <= Truthful(e, d)
    <3>1. Equals(t[1], d)
      BY <2>4, <2>14
    <3>2. n + 1 \in F /\ n + 1 \notin E
      BY <1>3, <2>2, <2>6, <2>8, <3>1
    <3>3. E # F
      BY <3>2
    <3>4. Cardinality(E) < Cardinality(F)
      <4>1. Cardinality(E) # Cardinality(F)
        BY <2>9, <2>10, <3>3, FS_Subset
      <4>2. Cardinality(E) \in Nat /\ Cardinality(F) \in Nat
        BY <2>10, <2>12, FS_CardinalityType
      <4>3. QED
        BY <2>12, <4>1, <4>2
    <3>5. QED
      BY <1>4, <2>11, <2>13, <3>4
  <2>15. k <= Truthful(e, d)
    BY <1>4, <2>11, <2>12, <2>13
  <2>16. k + (IF told THEN Len(t) ELSE 0) <= Truthful(e, d)
    BY <1>7, <2>14, <2>15
  <2>17. QED
    BY <1>1, <1>4, <1>5, <2>2, <2>7, <2>16
<1>8. QED
  BY <1>6, <1>7

(* What was measured, and that no sample exceeds it.                        *)
Measured ==
  /\ setup \in Setups /\ truth \in Coefficients
  /\ exact.mbu \in Nat /\ exact.mfu \in Nat

Understated ==
  /\ mbu \in Seq(Ratios) /\ \A i \in DOMAIN mbu : AtMost(mbu[i], truth.mbu)
  /\ mfu \in Seq(Ratios) /\ \A i \in DOMAIN mfu : AtMost(mfu[i], truth.mfu)

(* As many are the truth as came from undisturbed points.                   *)
Told == exact.mbu <= Truthful(mbu, truth.mbu) /\ exact.mfu <= Truthful(mfu, truth.mfu)

(* The fit is the median of its samples.                                    *)
Fitted ==
  fitted # Missing =>
    /\ mbu # <<>> => fitted.mbu = Median(mbu)
    /\ mfu # <<>> => fitted.mfu = Median(mfu)

FitInv == Measured /\ Understated /\ Told /\ Fitted

LEMMA FitStarts == CalibrationInit => FitInv
<1> SUFFICES ASSUME CalibrationInit PROVE FitInv
  OBVIOUS
<1>1. /\ setup \in Setups /\ truth \in Coefficients
      /\ mbu = <<>> /\ mfu = <<>> /\ fitted = Missing
      /\ exact = [mbu |-> 0, mfu |-> 0]
  BY DEF CalibrationInit, Coefficients
<1>2. Measured
  BY <1>1 DEF Measured
<1>3. <<>> \in Seq(Ratios) /\ DOMAIN <<>> = {}
  OBVIOUS
<1>4. Understated
  BY <1>1, <1>3 DEF Understated
<1>5. Told
  <2>1. Truthful(<<>>, truth.mbu) \in Nat /\ Truthful(<<>>, truth.mfu) \in Nat
    BY <1>3, TruthfulNatural
  <2>2. exact.mbu = 0 /\ exact.mfu = 0
    BY <1>1
  <2>3. QED
    BY <1>1, <2>1, <2>2 DEF Told
<1>6. Fitted
  BY <1>1 DEF Fitted
<1>7. QED
  BY <1>2, <1>4, <1>5, <1>6 DEF FitInv

LEMMA PointKeeps ==
  ASSUME FitInv, \A s \in Setups : Wide(s), ReadPoint
  PROVE  FitInv'
<1>1. PICK w \in Workloads : \E p \in Points(w) :
       LET decode  == p.tpot # 0 /\ p.kv # 0
           prefill == p.concurrency <= MaxConcurrencyForMfu
           newMbu  == Accepted(decode, FitMbu(p))
           newMfu  == Accepted(prefill, FitMfu(p))
       IN  /\ mbu' = mbu \o newMbu
           /\ mfu' = mfu \o newMfu
           /\ exact' = [ mbu |-> exact.mbu + (IF Undisturbed(w).mbu THEN Len(newMbu) ELSE 0),
                         mfu |-> exact.mfu + (IF Undisturbed(w).mfu THEN Len(newMfu) ELSE 0) ]
  BY DEF ReadPoint
<1>2. PICK p \in Points(w) :
       LET decode  == p.tpot # 0 /\ p.kv # 0
           prefill == p.concurrency <= MaxConcurrencyForMfu
           newMbu  == Accepted(decode, FitMbu(p))
           newMfu  == Accepted(prefill, FitMfu(p))
       IN  /\ mbu' = mbu \o newMbu
           /\ mfu' = mfu \o newMfu
           /\ exact' = [ mbu |-> exact.mbu + (IF Undisturbed(w).mbu THEN Len(newMbu) ELSE 0),
                         mfu |-> exact.mfu + (IF Undisturbed(w).mfu THEN Len(newMfu) ELSE 0) ]
  BY <1>1
<1>3. PICK decode, prefill, b, f :
        /\ decode = (p.tpot # 0 /\ p.kv # 0)
        /\ b = Accepted(decode, FitMbu(p)) /\ f = Accepted(prefill, FitMfu(p))
        /\ mbu' = mbu \o b /\ mfu' = mfu \o f
        /\ exact' = [ mbu |-> exact.mbu + (IF Undisturbed(w).mbu THEN Len(b) ELSE 0),
                      mfu |-> exact.mfu + (IF Undisturbed(w).mfu THEN Len(f) ELSE 0) ]
  BY <1>2
<1>4. setup' = setup /\ truth' = truth /\ fitted' = fitted /\ fitted = Missing
  BY DEF ReadPoint, Reading
<1>5. setup \in Setups /\ truth \in Coefficients /\ Wide(setup)
  BY DEF FitInv, Measured
<1>6. PICK x, y : x = FitMbu(p) /\ y = FitMfu(p)
  OBVIOUS
<1>7. decode /\ x # Missing => /\ x \in Ratios /\ AtMost(x, truth.mbu)
                               /\ Undisturbed(w).mbu => Equals(x, truth.mbu)
  BY <1>3, <1>5, <1>6, MbuSample
<1>8. prefill /\ y # Missing => /\ y \in Ratios /\ AtMost(y, truth.mfu)
                                /\ Undisturbed(w).mfu => Equals(y, truth.mfu)
  BY <1>5, <1>6, MfuSample
<1>9. /\ b \in Seq(Ratios) /\ Len(b) \in {0, 1}
      /\ \A i \in DOMAIN b : b[i] = x /\ decode /\ x # Missing
  BY <1>3, <1>6, <1>7, AcceptedShape
<1>10. /\ f \in Seq(Ratios) /\ Len(f) \in {0, 1}
      /\ \A i \in DOMAIN f : f[i] = y /\ prefill /\ y # Missing
  BY <1>3, <1>6, <1>8, AcceptedShape
<1>11. /\ mbu' \in Seq(Ratios) /\ \A i \in DOMAIN mbu' : AtMost(mbu'[i], truth.mbu)
       /\ exact'.mbu \in Nat /\ exact'.mbu <= Truthful(mbu', truth.mbu)
  <2>1. PICK told : told = Undisturbed(w).mbu
    OBVIOUS
  <2>2. /\ \A i \in DOMAIN b : AtMost(b[i], truth.mbu)
        /\ told => \A i \in DOMAIN b : Equals(b[i], truth.mbu)
    BY <1>7, <1>9, <2>1
  <2>3. PICK k, d, s : k = exact.mbu /\ d = truth.mbu /\ s = mbu
    OBVIOUS
  <2>4. /\ k \in Nat /\ k <= Truthful(s, d) /\ s \in Seq(Ratios)
        /\ \A i \in DOMAIN s : AtMost(s[i], d)
    BY <2>3 DEF FitInv, Measured, Understated, Told
  <2>5. /\ s \o b \in Seq(Ratios)
        /\ \A i \in DOMAIN (s \o b) : AtMost((s \o b)[i], d)
        /\ k + (IF told THEN Len(b) ELSE 0) \in Nat
        /\ k + (IF told THEN Len(b) ELSE 0) <= Truthful(s \o b, d)
    BY <1>9, <2>2, <2>3, <2>4, Extended
  <2>6. mbu' = s \o b /\ exact'.mbu = k + (IF told THEN Len(b) ELSE 0)
    BY <1>3, <2>1, <2>3
  <2>7. QED
    BY <2>3, <2>5, <2>6
<1>12. /\ mfu' \in Seq(Ratios) /\ \A i \in DOMAIN mfu' : AtMost(mfu'[i], truth.mfu)
       /\ exact'.mfu \in Nat /\ exact'.mfu <= Truthful(mfu', truth.mfu)
  <2>1. PICK told : told = Undisturbed(w).mfu
    OBVIOUS
  <2>2. /\ \A i \in DOMAIN f : AtMost(f[i], truth.mfu)
        /\ told => \A i \in DOMAIN f : Equals(f[i], truth.mfu)
    BY <1>8, <1>10, <2>1
  <2>3. PICK k, d, s : k = exact.mfu /\ d = truth.mfu /\ s = mfu
    OBVIOUS
  <2>4. /\ k \in Nat /\ k <= Truthful(s, d) /\ s \in Seq(Ratios)
        /\ \A i \in DOMAIN s : AtMost(s[i], d)
    BY <2>3 DEF FitInv, Measured, Understated, Told
  <2>5. /\ s \o f \in Seq(Ratios)
        /\ \A i \in DOMAIN (s \o f) : AtMost((s \o f)[i], d)
        /\ k + (IF told THEN Len(f) ELSE 0) \in Nat
        /\ k + (IF told THEN Len(f) ELSE 0) <= Truthful(s \o f, d)
    BY <1>10, <2>2, <2>3, <2>4, Extended
  <2>6. mfu' = s \o f /\ exact'.mfu = k + (IF told THEN Len(f) ELSE 0)
    BY <1>3, <2>1, <2>3
  <2>7. QED
    BY <2>3, <2>5, <2>6
<1>13. Measured' /\ Understated' /\ Told' /\ Fitted'
  BY <1>4, <1>5, <1>11, <1>12 DEF Measured, Understated, Told, Fitted, Truthful
<1>14. QED
  BY <1>13 DEF FitInv

LEMMA FitInductive ==
  ASSUME \A s \in Setups : Wide(s)
  PROVE  CalibrationSpec => []FitInv
<1>1. CalibrationInit => FitInv
  BY FitStarts
<1>2. FitInv /\ [CalibrationNext]_calibrationVars => FitInv'
  <2> SUFFICES ASSUME FitInv, [CalibrationNext]_calibrationVars PROVE FitInv'
    OBVIOUS
  <2>1. CASE RejectPoint
    BY <2>1 DEF RejectPoint, FitInv, Measured, Understated, Told, Fitted, Truthful
  <2>2. CASE ReadPoint
    BY <2>2, PointKeeps
  <2>3. CASE Finish
    <3>1. /\ UNCHANGED <<setup, truth, mbu, mfu, exact>>
          /\ mbu # <<>> => fitted'.mbu = Median(mbu)
          /\ mfu # <<>> => fitted'.mfu = Median(mfu)
      BY <2>3 DEF Finish
    <3>2. Fitted'
      BY <3>1 DEF Fitted, Median, Nth, Mean, Ahead, Below
    <3>3. QED
      BY <3>1, <3>2 DEF FitInv, Measured, Understated, Told, Truthful
  <2>4. CASE Refitted \/ UNCHANGED calibrationVars
    <3>1. UNCHANGED calibrationVars
      BY <2>4 DEF Refitted
    <3>2. QED
      BY <3>1 DEF calibrationVars, FitInv, Measured, Understated, Told, Fitted, Truthful
  <2>5. QED
    BY <2>1, <2>2, <2>3, <2>4 DEF CalibrationNext
<1>3. QED
  BY <1>1, <1>2, PTL DEF CalibrationSpec

(* Whatever disturbs the measurements, a refitted coefficient (calibrate in *)
(* estimator/calibration.py) never exceeds the true one, as long as the     *)
(* engine sends no narrower activations than calibrate takes for granted.   *)
THEOREM NeverBetterThanTrue ==
  ASSUME \A s \in Setups : Wide(s)
  PROVE  CalibrationSpec => []NeverOverstates
<1>1. FitInv => NeverOverstates
  <2> SUFFICES ASSUME FitInv PROVE NeverOverstates
    OBVIOUS
  <2>1. truth.mbu \in Nat \ {0} /\ truth.mfu \in Nat \ {0}
    BY ParametersAssumption DEF FitInv, Measured, Coefficients
  <2>2. mbu # <<>> => AtMost(Median(mbu), truth.mbu)
    BY <2>1, MedianTrue DEF FitInv, Understated
  <2>3. mfu # <<>> => AtMost(Median(mfu), truth.mfu)
    BY <2>1, MedianTrue DEF FitInv, Understated
  <2>4. QED
    BY <2>2, <2>3 DEF NeverOverstates, FitInv, Understated, Fitted
<1>2. QED
  BY <1>1, FitInductive, PTL

(* When most samples are undisturbed, the coefficient is the true one       *)
(* (FitSample and the medians of estimator/calibration.py).                 *)
THEOREM TruthRecovered ==
  ASSUME \A s \in Setups : Wide(s)
  PROVE  CalibrationSpec => []MedianRecovers
<1>1. FitInv => MedianRecovers
  <2> SUFFICES ASSUME FitInv, fitted # Missing
               PROVE  /\ 2 * exact.mbu > Len(mbu) => Equals(fitted.mbu, truth.mbu)
                      /\ 2 * exact.mfu > Len(mfu) => Equals(fitted.mfu, truth.mfu)
    BY DEF MedianRecovers
  <2>1. /\ truth.mbu \in Nat \ {0} /\ truth.mfu \in Nat \ {0}
        /\ exact.mbu \in Nat /\ exact.mfu \in Nat
        /\ mbu \in Seq(Ratios) /\ mfu \in Seq(Ratios)
    BY ParametersAssumption DEF FitInv, Measured, Coefficients, Understated
  <2>2. ASSUME 2 * exact.mbu > Len(mbu) PROVE Equals(fitted.mbu, truth.mbu)
    <3>1. PICK s, d, k : s = mbu /\ d = truth.mbu /\ k = exact.mbu
      OBVIOUS
    <3>2. s \in Seq(Ratios) /\ d \in Nat \ {0} /\ k \in Nat /\ 2 * k > Len(s) /\ Len(s) \in Nat
      BY <2>1, <2>2, <3>1
    <3>3. \A i \in DOMAIN s : AtMost(s[i], d)
      BY <3>1 DEF FitInv, Understated
    <3>4. k <= Truthful(s, d) /\ Truthful(s, d) \in Nat
      BY <3>1, <3>2, TruthfulNatural DEF FitInv, Told
    <3>5. s # <<>>
      <4>1. CASE s = <<>>
        <5>1. DOMAIN s = {}
          BY <4>1
        <5>2. Truthful(s, d) = 0
          <6>1. {i \in DOMAIN s : Equals(s[i], d)} = {}
            BY <5>1
          <6>2. QED
            BY <6>1, FS_EmptySet DEF Truthful
        <5>3. QED
          BY <3>2, <3>4, <5>2
      <4>2. QED
        BY <4>1
    <3>6. 2 * Truthful(s, d) > Len(s)
      BY <3>2, <3>4
    <3>7. Equals(Median(s), d)
      BY <3>2, <3>3, <3>5, <3>6, MedianTrue DEF Truthful
    <3>8. QED
      BY <3>1, <3>5, <3>7 DEF FitInv, Fitted
  <2>3. ASSUME 2 * exact.mfu > Len(mfu) PROVE Equals(fitted.mfu, truth.mfu)
    <3>1. PICK s, d, k : s = mfu /\ d = truth.mfu /\ k = exact.mfu
      OBVIOUS
    <3>2. s \in Seq(Ratios) /\ d \in Nat \ {0} /\ k \in Nat /\ 2 * k > Len(s) /\ Len(s) \in Nat
      BY <2>1, <2>3, <3>1
    <3>3. \A i \in DOMAIN s : AtMost(s[i], d)
      BY <3>1 DEF FitInv, Understated
    <3>4. k <= Truthful(s, d) /\ Truthful(s, d) \in Nat
      BY <3>1, <3>2, TruthfulNatural DEF FitInv, Told
    <3>5. s # <<>>
      <4>1. CASE s = <<>>
        <5>1. DOMAIN s = {}
          BY <4>1
        <5>2. Truthful(s, d) = 0
          <6>1. {i \in DOMAIN s : Equals(s[i], d)} = {}
            BY <5>1
          <6>2. QED
            BY <6>1, FS_EmptySet DEF Truthful
        <5>3. QED
          BY <3>2, <3>4, <5>2
      <4>2. QED
        BY <4>1
    <3>6. 2 * Truthful(s, d) > Len(s)
      BY <3>2, <3>4
    <3>7. Equals(Median(s), d)
      BY <3>2, <3>3, <3>5, <3>6, MedianTrue DEF Truthful
    <3>8. QED
      BY <3>1, <3>5, <3>7 DEF FitInv, Fitted
  <2>4. QED
    BY <2>2, <2>3
<1>2. QED
  BY <1>1, FitInductive, PTL

-----------------------------------------------------------------------------
(* The critical batch size.                                                 *)

LEMMA SetupStays == CalibrationSpec => [](setup \in Setups /\ truth \in Coefficients)
<1> DEFINE Inv == setup \in Setups /\ truth \in Coefficients
<1>1. CalibrationInit => Inv
  BY DEF CalibrationInit, Coefficients
<1>2. Inv /\ [CalibrationNext]_calibrationVars => Inv'
  BY DEF CalibrationNext, RejectPoint, ReadPoint, Finish, Refitted, calibrationVars
<1>3. QED
  BY <1>1, <1>2, PTL DEF CalibrationSpec

(* Below the critical batch the FLOPs of a batch take no longer than the    *)
(* bytes they are done to, if there are no more bytes than a batch of one   *)
(* has FLOPs.                                                               *)
LEMMA MemoryLimits ==
  ASSUME NEW bw \in Nat \ {0}, NEW peak \in Nat \ {0}, NEW mb \in Nat, NEW mf \in Nat,
         NEW batch \in Nat, NEW bytes \in Nat, NEW flops \in Nat, flops <= bytes * batch,
         NEW memory \in Nat, bw * memory = bytes * mb,
         NEW compute \in Nat, peak * compute = flops * mf,
         batch * (bw * mf) <= peak * mb
  PROVE  compute <= memory
<1>1. PICK r, c, x : r = bw * mf /\ c = peak * mb /\ x = bytes * batch
  OBVIOUS
<1>2. r \in Nat /\ c \in Nat /\ x \in Nat /\ batch * r <= c /\ flops <= x
  BY <1>1, Product
<1>3. bw * (peak * compute) = flops * r
  <2>1. bw * (flops * mf) = flops * (bw * mf)
    OBVIOUS
  <2>2. QED
    BY <1>1, <2>1
<1>4. flops * r <= x * r
  BY <1>2
<1>5. x * r = bytes * (batch * r)
  BY <1>1, <1>2
<1>6. batch * r \in Nat
  BY <1>2, Product
<1>7. bytes * (batch * r) <= bytes * c
  BY <1>2, <1>6
<1>8. bytes * c = bw * (peak * memory)
  <2>1. bytes * (peak * mb) = peak * (bytes * mb)
    OBVIOUS
  <2>2. peak * (bw * memory) = bw * (peak * memory)
    OBVIOUS
  <2>3. QED
    BY <1>1, <2>1, <2>2
<1>9. /\ flops * r \in Nat /\ x * r \in Nat /\ bytes * c \in Nat
      /\ peak * compute \in Nat /\ peak * memory \in Nat
  BY <1>2, Product
<1>10. bw * (peak * compute) <= bw * (peak * memory)
  BY <1>3, <1>4, <1>5, <1>7, <1>8, <1>9
<1>11. peak * compute <= peak * memory
  BY <1>9, <1>10, Cancel
<1>12. QED
  BY <1>11, Cancel

(* Up to the critical batch size that a prediction reports                  *)
(* (critical_batch_size in estimator/roofline.py) compute is not the wall,  *)
(* whenever a parameter takes two bytes; the run critical_batch shows that  *)
(* this is needed.                                                          *)
THEOREM WallBeyondCritical ==
  ASSUME \A s \in Setups : 2 * s.active <= s.weights
  PROVE  CalibrationSpec => []CriticalIsWall
<1>1. setup \in Setups /\ truth \in Coefficients => CriticalIsWall
  <2> SUFFICES ASSUME setup \in Setups, truth \in Coefficients,
                      NEW batch \in Concurrencies, NEW t \in Traffic, NEW p,
                      p = Predict(setup, truth, batch, t.prompt, t.prompt + t.generated \div 2),
                      batch * p.critical.den <= p.critical.num
               PROVE  p.decodeBound # "compute"
    BY DEF CriticalIsWall
  <2>1. PICK s, mb, mf, context, bytes, flops, st :
          /\ s = setup /\ mb = truth.mbu /\ mf = truth.mfu
          /\ context = t.prompt + t.generated \div 2
          /\ bytes = DecodeBytes(s, batch, context) /\ flops = DecodeFlops(s, batch)
          /\ st = DecodeStep(s, truth, batch, context)
    OBVIOUS
  <2>2. /\ Measurable(s) /\ 2 * s.active <= s.weights
        /\ mb \in Nat \ {0} /\ mf \in Nat \ {0}
        /\ batch \in Nat /\ t.prompt \in Nat /\ t.generated \in Nat
    <3>1. Measurable(s) /\ 2 * s.active <= s.weights
      BY <2>1, SetupsAssumption
    <3>2. truth.mbu \in Efficiencies /\ truth.mfu \in Efficiencies
      BY DEF Coefficients
    <3>3. mb \in Nat \ {0} /\ mf \in Nat \ {0}
      BY <2>1, <3>2, ParametersAssumption
    <3>4. batch \in Nat /\ t.prompt \in Nat /\ t.generated \in Nat
      BY ParametersAssumption
    <3>5. QED
      BY <3>1, <3>3, <3>4
  <2>3. context \in Nat
    <3>1. t.generated \div 2 \in Nat
      BY <2>2, Quotient
    <3>2. QED
      BY <2>1, <2>2, <3>1
  <2>4. bytes \in Nat /\ flops \in Nat
    BY <2>1, <2>2, <2>3, Sized
  <2>5. /\ (bytes * mb) % s.bandwidth = 0
        /\ (flops * mf) % Peak(s) = 0
        /\ (2 * s.active * batch) % s.tp = 0
    <3>1. PICK coef, C, P : /\ coef = [mbu |-> truth.mbu, mfu |-> truth.mfu]
                            /\ C = {t.prompt + t.generated \div 2} /\ P = {t.prompt}
      OBVIOUS
    <3>2. WholeTicks(setup, coef, Concurrencies, C, P)
      <4>1. truth.mbu \in Efficiencies /\ truth.mfu \in Efficiencies
        BY DEF Coefficients
      <4>2. QED
        BY <3>1, <4>1, TicksAssumption
    <3>3. context \in C /\ t.prompt \in P /\ coef.mbu = mb /\ coef.mfu = mf
      BY <2>1, <3>1
    <3>4. /\ (DecodeBytes(setup, batch, context) * coef.mbu) % setup.bandwidth = 0
          /\ (DecodeFlops(setup, batch) * coef.mfu) % Peak(setup) = 0
          /\ (2 * setup.active * batch) % setup.tp = 0
      BY <3>2, <3>3 DEF WholeTicks
    <3>5. QED
      BY <2>1, <3>3, <3>4
  <2>6. st = Step(s, truth, bytes, flops, batch)
    BY <2>1 DEF DecodeStep
  <2>7. PICK bw, peak : bw = s.bandwidth /\ peak = Peak(s)
    OBVIOUS
  <2>8. bw \in Nat \ {0} /\ peak \in Nat \ {0}
    BY <2>2, <2>7, PeakPositive DEF Measurable
  <2>9. st.memory \in Nat /\ st.compute \in Nat
    BY <2>2, <2>4, <2>6, StepWhole
  <2>10. bw * st.memory = bytes * mb
    <3>1. Measurable(s) /\ batch \in Nat /\ bytes \in Nat /\ flops \in Nat
      BY <2>2, <2>4
    <3>2. s.bandwidth * st.memory = bytes * truth.mbu
      <4>1. (bytes * truth.mbu) % s.bandwidth = 0
        BY <2>1, <2>5
      <4>2. PICK coef : coef = truth
        OBVIOUS
      <4>3. coef \in Coefficients /\ (bytes * coef.mbu) % s.bandwidth = 0
        BY <4>1, <4>2
      <4>4. s.bandwidth * Step(s, coef, bytes, flops, batch).memory = bytes * coef.mbu
        BY <3>1, <4>3, MemoryTime
      <4>5. QED
        BY <2>6, <4>2, <4>4
    <3>3. QED
      BY <2>1, <2>7, <3>2
  <2>11. peak * st.compute = flops * mf
    <3>1. Measurable(s) /\ batch \in Nat /\ bytes \in Nat /\ flops \in Nat
      BY <2>2, <2>4
    <3>2. Peak(s) * st.compute = flops * truth.mfu
      <4>1. (flops * truth.mfu) % Peak(s) = 0
        BY <2>1, <2>5
      <4>2. QED
        BY <2>6, <3>1, <4>1, StepWhole
    <3>3. QED
      BY <2>1, <2>7, <3>2
  <2>12. batch * (bw * mf) <= peak * mb
    <3>1. p.critical = [num |-> peak * mb, den |-> bw * mf]
      BY <2>1, <2>7 DEF Predict, CriticalBatch
    <3>2. QED
      BY <3>1
  <2>13. flops <= bytes * batch
    <3>1. PICK n, share, work, a, rest :
            /\ n = s.tp /\ share = WeightBytesPerGpu(s) /\ work = 2 * s.active * batch
            /\ a = 2 * s.active /\ rest = batch * context * s.kv
      OBVIOUS
    <3>2. n \in Nat \ {0} /\ share \in Nat /\ s.weights \in Nat /\ a \in Nat /\ s.kv \in Nat
      BY <2>2, <3>1, WeightsShared DEF Measurable
    <3>3. work = a * batch /\ work \in Nat /\ a <= s.weights /\ s.weights <= n * share
      BY <2>2, <3>1, <3>2, WeightsShared, Product
    <3>4. n * flops = work
      <4>1. flops = work \div n
        BY <2>1, <3>1 DEF DecodeFlops
      <4>2. work % n = 0
        BY <2>5, <3>1
      <4>3. QED
        BY <3>2, <3>3, <4>1, <4>2, Quotient
    <3>5. a <= n * share /\ n * share \in Nat
      <4>1. n * share \in Nat
        BY <3>2, Product
      <4>2. QED
        BY <3>2, <3>3, <4>1
    <3>6. a * batch <= n * share * batch
      BY <2>2, <3>2, <3>5
    <3>7. share * batch \in Nat /\ n * share * batch = n * (share * batch)
      BY <2>2, <3>2, Product
    <3>8. n * flops <= n * (share * batch)
      BY <3>3, <3>4, <3>6, <3>7
    <3>9. flops <= share * batch
      BY <2>4, <3>2, <3>7, <3>8, Cancel
    <3>10. rest \in Nat /\ bytes = share + rest
      <4>1. batch * context \in Nat
        BY <2>2, <2>3, Product
      <4>2. rest \in Nat
        BY <3>1, <3>2, <4>1, Product
      <4>3. QED
        BY <2>1, <3>1, <4>2 DEF DecodeBytes
    <3>11. share * batch <= bytes * batch /\ bytes * batch \in Nat
      <4>1. share <= bytes
        BY <3>2, <3>10
      <4>2. bytes * batch \in Nat
        BY <2>2, <2>4, Product
      <4>3. QED
        BY <2>2, <2>4, <3>2, <4>1, <4>2
    <3>12. QED
      BY <2>4, <3>7, <3>9, <3>11
  <2>14. st.compute <= st.memory
    <3>1. PICK memory, compute : memory = st.memory /\ compute = st.compute
      OBVIOUS
    <3>2. memory \in Nat /\ compute \in Nat /\ bw * memory = bytes * mb /\ peak * compute = flops * mf
      BY <2>9, <2>10, <2>11, <3>1
    <3>3. mb \in Nat /\ mf \in Nat
      BY <2>2
    <3>4. compute <= memory
      BY <2>2, <2>4, <2>8, <2>12, <2>13, <3>2, <3>3, MemoryLimits
    <3>5. QED
      BY <3>1, <3>4
  <2>15. p.decodeBound = Bound(st)
    BY <2>1 DEF Predict
  <2>16. QED
    BY <2>9, <2>14, <2>15 DEF Bound
<1>2. QED
  BY <1>1, SetupStays, PTL
=============================================================================
