-------------------------------- MODULE Sums --------------------------------
(***************************************************************************)
(* Finite sums and the inductions they need.  The folds of the community   *)
(* modules are recursive functions that take the members of a set in an    *)
(* order of their own; here the sum of f over a finite set S is what every *)
(* order yields, and SumFunction is shown to be one.  Inductions are       *)
(* stated over sets of numbers or of subsets, those a claim holds of.      *)
(***************************************************************************)
EXTENDS Integers, FiniteSets, FiniteSetTheorems, WellFoundedInduction, TLAPS

(* A finite set has a member nothing in it precedes, for any strict order.  *)
LEMMA LeastMember ==
  ASSUME NEW S, IsFiniteSet(S), S # {}, NEW R,
         \A x \in S : <<x, x>> \notin R,
         \A x, y, z \in S : <<x, y>> \in R /\ <<y, z>> \in R => <<x, z>> \in R
  PROVE  \E m \in S : \A y \in S : <<y, m>> \notin R
<1> DEFINE Below(x) == {y \in S : <<y, x>> \in R}
           T == {Below(x) : x \in S}
<1>1. IsWellFoundedOn(StrictSubsetOrdering(S), SUBSET S)
  BY FS_StrictSubsetOrderingWellFounded, FS_FiniteSubsetsOfFinite
<1>2. T \subseteq SUBSET S /\ T # {}
  <2>1. \A x : Below(x) \in SUBSET S
    OBVIOUS
  <2>2. PICK x \in S : TRUE
    OBVIOUS
  <2> HIDE DEF Below
  <2> QED
    BY <2>1, <2>2
<1>3. PICK least \in T : \A t \in T : <<t, least>> \notin StrictSubsetOrdering(S)
  <2> HIDE DEF T
  <2> QED
    BY <1>1, <1>2, WFMin
<1>4. PICK m \in S : least = Below(m)
  BY <1>3
<1>5. ASSUME NEW y \in S, <<y, m>> \in R PROVE FALSE
  <2>1. Below(y) \subseteq Below(m)
    BY <1>5
  <2>2. y \in Below(m) /\ y \notin Below(y)
    BY <1>5
  <2>3. Below(y) \in T /\ Below(y) \in SUBSET S /\ Below(m) \in SUBSET S
    OBVIOUS
  <2>4. <<Below(y), Below(m)>> \in StrictSubsetOrdering(S)
    <3> HIDE DEF Below
    <3> QED
      BY <2>1, <2>2, <2>3 DEF StrictSubsetOrdering
  <2>5. QED
    BY <1>3, <1>4, <2>3, <2>4
<1>6. QED
  BY <1>5

(* What holds of the empty set, and of a set with one member more whenever  *)
(* it holds of the set, holds of every finite set.  Good are the subsets of *)
(* S it holds of.                                                           *)
LEMMA SubsetInduction ==
  ASSUME NEW S, IsFiniteSet(S), NEW Good, {} \in Good,
         \A s \in SUBSET S : \A x \in s : s \ {x} \in Good => s \in Good
  PROVE  \A s \in SUBSET S : s \in Good
<1> DEFINE Bad == {s \in SUBSET S : s \notin Good}
<1>1. SUFFICES ASSUME Bad # {} PROVE FALSE
  OBVIOUS
<1>2. IsWellFoundedOn(StrictSubsetOrdering(S), SUBSET S)
  BY FS_StrictSubsetOrderingWellFounded, FS_FiniteSubsetsOfFinite
<1>3. PICK least \in Bad : \A s \in Bad : <<s, least>> \notin StrictSubsetOrdering(S)
  <2>1. Bad \subseteq SUBSET S
    OBVIOUS
  <2> HIDE DEF Bad
  <2> QED
    BY <1>1, <1>2, <2>1, WFMin
<1>4. PICK x \in least : TRUE
  OBVIOUS
<1>5. least \ {x} \in Bad
  OBVIOUS
<1>6. <<least \ {x}, least>> \in StrictSubsetOrdering(S)
  BY <1>4 DEF StrictSubsetOrdering
<1>7. QED
  BY <1>3, <1>5, <1>6

(* The same of the natural numbers.                                         *)
LEMMA NatInductionSet ==
  ASSUME NEW Good, 0 \in Good, \A n \in Nat : n \in Good => n + 1 \in Good
  PROVE  \A n \in Nat : n \in Good
<1> SUFFICES ASSUME NEW n \in Nat, n \notin Good PROVE FALSE
  OBVIOUS
<1> DEFINE Bad == {k \in 0 .. n : k \notin Good}
           R == {p \in Nat \X Nat : p[1] < p[2]}
<1>1. IsFiniteSet(Bad) /\ Bad # {} /\ Bad \subseteq Nat
  <2>1. IsFiniteSet(0 .. n) /\ Bad \in SUBSET (0 .. n) /\ n \in Bad
    BY FS_Interval
  <2>2. QED
    BY <2>1, FS_Subset
<1>2. \A x, y \in Nat : <<x, y>> \in R <=> x < y
  OBVIOUS
<1>3. PICK least \in Bad : \A k \in Bad : <<k, least>> \notin R
  <2>1. /\ \A x \in Bad : <<x, x>> \notin R
        /\ \A x, y, z \in Bad : <<x, y>> \in R /\ <<y, z>> \in R => <<x, z>> \in R
    <3> HIDE DEF R, Bad
    <3> QED
      BY <1>1, <1>2
  <2> HIDE DEF Bad, R
  <2>2. QED
    BY <1>1, <2>1, LeastMember
<1>4. least \in 0 .. n /\ least \notin Good
  OBVIOUS
<1>5. least - 1 \in Nat /\ least - 1 < least /\ (least - 1) + 1 = least /\ least - 1 <= n
  BY <1>4
<1>6. least - 1 \in Bad
  BY <1>4, <1>5
<1>7. QED
  BY <1>2, <1>3, <1>5, <1>6, <1>1

-----------------------------------------------------------------------------
(* g sums f over the subsets of S.                                          *)
Additive(g, f, S) ==
  /\ g \in [SUBSET S -> Int]
  /\ g[{}] = 0
  /\ \A s \in SUBSET S : \A x \in s : g[s] = f[x] + g[s \ {x}]

(* f gives every member of S a number.                                      *)
Numbers(f, S) == \A x \in S : f[x] \in Int

SumOf(f, S) == (CHOOSE g : Additive(g, f, S))[S]

LEMMA AdditiveExists ==
  ASSUME NEW S, IsFiniteSet(S), NEW f, Numbers(f, S)
  PROVE  \E g : Additive(g, f, S)
<1> DEFINE Good == {s \in SUBSET S : \E g : Additive(g, f, s)}
<1>1. {} \in Good
  <2> DEFINE g == [s \in SUBSET {} |-> 0]
  <2>1. Additive(g, f, {})
    BY DEF Additive
  <2> QED
    BY <2>1
<1>2. ASSUME NEW s \in SUBSET S, NEW x \in s, s \ {x} \in Good PROVE s \in Good
  <2>1. PICK g : Additive(g, f, s \ {x})
    BY <1>2
  <2> DEFINE h == [t \in SUBSET s |-> g[t \ {x}] + IF x \in t THEN f[x] ELSE 0]
  <2>2. h \in [SUBSET s -> Int]
    <3> SUFFICES ASSUME NEW t \in SUBSET s
                 PROVE  g[t \ {x}] + (IF x \in t THEN f[x] ELSE 0) \in Int
      OBVIOUS
    <3>1. t \ {x} \in SUBSET (s \ {x})
      OBVIOUS
    <3>2. g[t \ {x}] \in Int /\ f[x] \in Int
      BY <2>1, <3>1 DEF Additive, Numbers
    <3> QED
      BY <3>2
  <2>3. h[{}] = 0
    <3>1. {} \ {x} = {}
      OBVIOUS
    <3> QED
      BY <2>1, <3>1 DEF Additive
  <2>4. ASSUME NEW t \in SUBSET s, NEW y \in t PROVE h[t] = f[y] + h[t \ {y}]
    <3>1. t \ {y} \in SUBSET s /\ t \ {x} \in SUBSET (s \ {x}) /\ (t \ {y}) \ {x} \in SUBSET (s \ {x})
      OBVIOUS
    <3>2. /\ h[t] = g[t \ {x}] + (IF x \in t THEN f[x] ELSE 0)
          /\ h[t \ {y}] = g[(t \ {y}) \ {x}] + (IF x \in t \ {y} THEN f[x] ELSE 0)
      BY <3>1
    <3>3. /\ g[t \ {x}] \in Int /\ g[(t \ {y}) \ {x}] \in Int
          /\ f[x] \in Int /\ f[y] \in Int
      BY <2>1, <3>1 DEF Additive, Numbers
    <3> HIDE DEF h
    <3>4. CASE y = x
      <4>1. (t \ {y}) \ {x} = t \ {x} /\ x \in t /\ x \notin t \ {y}
        BY <3>4
      <4> QED
        BY <3>2, <3>3, <3>4, <4>1
    <3>5. CASE y # x
      <4>1. /\ y \in t \ {x} /\ (t \ {y}) \ {x} = (t \ {x}) \ {y}
            /\ (x \in t <=> x \in t \ {y})
        BY <3>5
      <4>2. g[t \ {x}] = f[y] + g[(t \ {x}) \ {y}]
        BY <2>1, <3>1, <4>1 DEF Additive
      <4>3. h[t \ {y}] = g[(t \ {x}) \ {y}] + (IF x \in t THEN f[x] ELSE 0)
        BY <3>2, <4>1
      <4>4. (IF x \in t THEN f[x] ELSE 0) \in Int
        BY <3>3
      <4>5. g[(t \ {x}) \ {y}] \in Int
        BY <3>3, <4>1
      <4> QED
        BY <3>2, <3>3, <4>2, <4>3, <4>4, <4>5
    <3> QED
      BY <3>4, <3>5
  <2>5. Additive(h, f, s)
    <3> HIDE DEF h
    <3> QED
      BY <2>2, <2>3, <2>4 DEF Additive
  <2> QED
    BY <2>5
<1>3. \A s \in SUBSET S : s \in Good
  <2> HIDE DEF Good
  <2>1. \A s \in SUBSET S : \A x \in s : s \ {x} \in Good => s \in Good
    BY <1>2
  <2> QED
    BY ONLY <1>1, <2>1, SubsetInduction, IsFiniteSet(S)
<1> QED
  BY <1>3

LEMMA AdditiveUnique ==
  ASSUME NEW S, IsFiniteSet(S), NEW e, NEW f, \A x \in S : e[x] = f[x],
         NEW g, Additive(g, e, S), NEW h, Additive(h, f, S)
  PROVE  \A s \in SUBSET S : g[s] = h[s]
<1> DEFINE Good == {s \in SUBSET S : g[s] = h[s]}
<1>1. {} \in Good
  BY DEF Additive
<1>2. ASSUME NEW s \in SUBSET S, NEW x \in s, s \ {x} \in Good PROVE s \in Good
  BY <1>2 DEF Additive
<1>3. \A s \in SUBSET S : s \in Good
  <2> HIDE DEF Good
  <2>1. \A s \in SUBSET S : \A x \in s : s \ {x} \in Good => s \in Good
    BY <1>2
  <2> QED
    BY ONLY <1>1, <2>1, SubsetInduction, IsFiniteSet(S)
<1> QED
  BY <1>3

LEMMA SumAdditive ==
  ASSUME NEW S, IsFiniteSet(S), NEW f, Numbers(f, S), NEW g, Additive(g, f, S)
  PROVE  \A s \in SUBSET S : g[s] = SumOf(f, s)
<1> SUFFICES ASSUME NEW s \in SUBSET S PROVE g[s] = SumOf(f, s)
  OBVIOUS
<1> DEFINE h == CHOOSE k : Additive(k, f, s)
           r == [t \in SUBSET s |-> g[t]]
<1>1. IsFiniteSet(s) /\ Numbers(f, s)
  BY FS_Subset DEF Numbers
<1>2. Additive(h, f, s)
  BY <1>1, AdditiveExists
<1>3. Additive(r, f, s)
  <2>1. \A t \in SUBSET s : t \in SUBSET S /\ r[t] = g[t]
    OBVIOUS
  <2>2. r \in [SUBSET s -> Int]
    BY <2>1 DEF Additive
  <2>3. \A t \in SUBSET s : \A x \in t : t \ {x} \in SUBSET s
    OBVIOUS
  <2> HIDE DEF r
  <2> QED
    BY <2>1, <2>2, <2>3 DEF Additive
<1>4. r[s] = h[s]
  <2> HIDE DEF r, h
  <2>1. \A t \in SUBSET s : r[t] = h[t]
    BY <1>1, <1>2, <1>3, AdditiveUnique
  <2>2. s \in SUBSET s
    OBVIOUS
  <2> QED
    BY <2>1, <2>2
<1> QED
  BY <1>4 DEF SumOf

(* The sum over nothing, and what taking out one member does.               *)
LEMMA SumEmpty ==
  ASSUME NEW f
  PROVE  SumOf(f, {}) = 0
<1>1. IsFiniteSet({}) /\ Numbers(f, {})
  BY FS_EmptySet DEF Numbers
<1>2. PICK g : Additive(g, f, {})
  BY <1>1, AdditiveExists
<1>3. {} \in SUBSET {}
  OBVIOUS
<1>4. g[{}] = SumOf(f, {})
  BY <1>1, <1>2, <1>3, SumAdditive
<1> QED
  BY <1>2, <1>4 DEF Additive

LEMMA SumStep ==
  ASSUME NEW S, IsFiniteSet(S), NEW f, Numbers(f, S)
  PROVE  /\ SumOf(f, S) \in Int
         /\ \A x \in S : SumOf(f, S) = f[x] + SumOf(f, S \ {x})
<1>1. PICK g : Additive(g, f, S)
  BY AdditiveExists
<1>2. \A s \in SUBSET S : g[s] = SumOf(f, s)
  BY <1>1, SumAdditive
<1>3. S \in SUBSET S /\ \A x \in S : S \ {x} \in SUBSET S
  OBVIOUS
<1> QED
  BY <1>1, <1>2, <1>3 DEF Additive

(* A claim about the sums over the subsets of S, by induction.              *)
LEMMA SumMonotone ==
  ASSUME NEW S, IsFiniteSet(S), NEW T \in SUBSET S,
         NEW e, Numbers(e, T), NEW f, Numbers(f, S),
         \A x \in T : e[x] <= f[x], \A x \in S \ T : f[x] >= 0
  PROVE  SumOf(e, T) <= SumOf(f, S)
<1> DEFINE Good == {s \in SUBSET S : SumOf(e, s \cap T) <= SumOf(f, s)}
<1>1. {} \in Good
  <2>1. {} \cap T = {}
    OBVIOUS
  <2> QED
    BY <2>1, SumEmpty
<1>2. ASSUME NEW s \in SUBSET S, NEW x \in s, s \ {x} \in Good PROVE s \in Good
  <2>1. /\ IsFiniteSet(s) /\ Numbers(f, s)
        /\ IsFiniteSet(s \cap T) /\ Numbers(e, s \cap T)
        /\ IsFiniteSet(s \ {x}) /\ Numbers(f, s \ {x})
        /\ IsFiniteSet((s \ {x}) \cap T) /\ Numbers(e, (s \ {x}) \cap T)
    <3>1. s \cap T \in SUBSET S /\ s \ {x} \in SUBSET S /\ (s \ {x}) \cap T \in SUBSET S
      OBVIOUS
    <3> QED
      BY <3>1, FS_Subset DEF Numbers
  <2>2. /\ SumOf(f, s) = f[x] + SumOf(f, s \ {x})
        /\ SumOf(f, s \ {x}) \in Int /\ f[x] \in Int
        /\ SumOf(e, (s \ {x}) \cap T) \in Int
    BY <2>1, SumStep DEF Numbers
  <2>3. SumOf(e, (s \ {x}) \cap T) <= SumOf(f, s \ {x})
    BY <1>2
  <2>4. CASE x \in T
    <3>1. (s \cap T) \ {x} = (s \ {x}) \cap T /\ x \in s \cap T
      BY <2>4
    <3>2. SumOf(e, s \cap T) = e[x] + SumOf(e, (s \ {x}) \cap T)
      BY <2>1, <3>1, SumStep
    <3>3. e[x] \in Int /\ e[x] <= f[x]
      BY <2>4 DEF Numbers
    <3> QED
      BY <2>2, <2>3, <3>2, <3>3
  <2>5. CASE x \notin T
    <3>1. s \cap T = (s \ {x}) \cap T /\ f[x] >= 0
      BY <2>5
    <3> QED
      BY <2>2, <2>3, <3>1
  <2> QED
    BY <2>4, <2>5
<1>3. \A s \in SUBSET S : s \in Good
  <2> HIDE DEF Good
  <2>1. \A s \in SUBSET S : \A x \in s : s \ {x} \in Good => s \in Good
    BY <1>2
  <2> QED
    BY ONLY <1>1, <2>1, SubsetInduction, IsFiniteSet(S)
<1>4. S \in Good /\ S \cap T = T
  BY <1>3
<1> QED
  BY <1>4

LEMMA SumLinear ==
  ASSUME NEW S, IsFiniteSet(S), NEW e, Numbers(e, S), NEW f, Numbers(f, S), NEW k \in Int,
         NEW h, \A x \in S : h[x] = e[x] + k * f[x]
  PROVE  SumOf(h, S) = SumOf(e, S) + k * SumOf(f, S)
<1> DEFINE Good == {s \in SUBSET S : SumOf(h, s) = SumOf(e, s) + k * SumOf(f, s)}
<1>1. {} \in Good
  BY SumEmpty
<1>2. ASSUME NEW s \in SUBSET S, NEW x \in s, s \ {x} \in Good PROVE s \in Good
  <2>1. IsFiniteSet(s) /\ IsFiniteSet(s \ {x})
    BY FS_Subset, FS_RemoveElement
  <2>2. \A y \in S : h[y] \in Int
    BY DEF Numbers
  <2>3. /\ Numbers(e, s) /\ Numbers(f, s) /\ Numbers(h, s)
        /\ Numbers(e, s \ {x}) /\ Numbers(f, s \ {x}) /\ Numbers(h, s \ {x})
    BY <2>2 DEF Numbers
  <2>4. /\ SumOf(e, s) = e[x] + SumOf(e, s \ {x}) /\ SumOf(e, s \ {x}) \in Int /\ e[x] \in Int
        /\ SumOf(f, s) = f[x] + SumOf(f, s \ {x}) /\ SumOf(f, s \ {x}) \in Int /\ f[x] \in Int
        /\ SumOf(h, s) = h[x] + SumOf(h, s \ {x}) /\ SumOf(h, s \ {x}) \in Int
    BY <2>1, <2>3, SumStep DEF Numbers
  <2>5. SumOf(h, s \ {x}) = SumOf(e, s \ {x}) + k * SumOf(f, s \ {x})
    BY <1>2
  <2>6. h[x] = e[x] + k * f[x]
    OBVIOUS
  <2>7. k * (f[x] + SumOf(f, s \ {x})) = k * f[x] + k * SumOf(f, s \ {x})
    BY <2>4
  <2>8. k * f[x] \in Int /\ k * SumOf(f, s \ {x}) \in Int
    BY <2>4
  <2> QED
    BY <2>4, <2>5, <2>6, <2>7, <2>8
<1>3. \A s \in SUBSET S : s \in Good
  <2> HIDE DEF Good
  <2>1. \A s \in SUBSET S : \A x \in s : s \ {x} \in Good => s \in Good
    BY <1>2
  <2> QED
    BY ONLY <1>1, <2>1, SubsetInduction, IsFiniteSet(S)
<1> QED
  BY <1>3

(* Consequences of the two.                                                 *)
LEMMA SumAlike ==
  ASSUME NEW S, IsFiniteSet(S), NEW f, Numbers(f, S), NEW e, \A x \in S : e[x] = f[x]
  PROVE  SumOf(e, S) = SumOf(f, S)
<1>1. Numbers(e, S)
  BY DEF Numbers
<1>2. S \in SUBSET S /\ S \ S = {}
  OBVIOUS
<1>3. /\ \A x \in S : e[x] <= f[x] /\ f[x] <= e[x]
      /\ SumOf(e, S) \in Int /\ SumOf(f, S) \in Int
  BY <1>1, SumStep DEF Numbers
<1>4. SumOf(e, S) <= SumOf(f, S)
  BY <1>1, <1>2, <1>3, SumMonotone
<1>5. SumOf(f, S) <= SumOf(e, S)
  BY <1>1, <1>2, <1>3, SumMonotone
<1> QED
  BY <1>3, <1>4, <1>5

LEMMA SumNatural ==
  ASSUME NEW S, IsFiniteSet(S), NEW f, \A x \in S : f[x] \in Nat
  PROVE  /\ SumOf(f, S) \in Nat
         /\ \A x \in S : f[x] <= SumOf(f, S)
<1>1. Numbers(f, S)
  BY DEF Numbers
<1>2. \A T \in SUBSET S : SumOf(f, T) \in Int /\ SumOf(f, T) >= 0
  <2> SUFFICES ASSUME NEW T \in SUBSET S PROVE SumOf(f, T) \in Int /\ SumOf(f, T) >= 0
    OBVIOUS
  <2>1. IsFiniteSet(T) /\ Numbers(f, T) /\ {} \in SUBSET T /\ Numbers(f, {})
    BY FS_Subset DEF Numbers
  <2>2. \A x \in T \ {} : f[x] >= 0
    OBVIOUS
  <2>3. SumOf(f, {}) <= SumOf(f, T)
    BY <2>1, <2>2, SumMonotone
  <2> QED
    BY <2>1, <2>3, SumStep, SumEmpty
<1>3. ASSUME NEW x \in S PROVE f[x] <= SumOf(f, S)
  <2>1. S \ {x} \in SUBSET S /\ SumOf(f, S) = f[x] + SumOf(f, S \ {x})
    BY <1>1, SumStep
  <2> QED
    BY <1>2, <2>1
<1>4. S \in SUBSET S
  OBVIOUS
<1> QED
  BY <1>2, <1>3, <1>4

LEMMA SumTimes ==
  ASSUME NEW S, IsFiniteSet(S), NEW f, Numbers(f, S), NEW k \in Int,
         NEW h, \A x \in S : h[x] = k * f[x]
  PROVE  SumOf(h, S) = k * SumOf(f, S)
<1> DEFINE z == [x \in S |-> 0]
<1>1. Numbers(z, S) /\ \A x \in S : h[x] = z[x] + k * f[x]
  BY DEF Numbers
<1>2. \A x \in S : z[x] = 0 * f[x]
  BY DEF Numbers
<1>3. SumOf(z, S) = 0
  <2>1. \A x \in S : z[x] = z[x] + 1 * z[x]
    OBVIOUS
  <2> HIDE DEF z
  <2>2. SumOf(z, S) = SumOf(z, S) + 1 * SumOf(z, S)
    BY <1>1, <2>1, SumLinear
  <2> QED
    BY <1>1, <2>2, SumStep
<1> HIDE DEF z
<1>4. SumOf(h, S) = SumOf(z, S) + k * SumOf(f, S)
  BY <1>1, SumLinear
<1> QED
  BY <1>3, <1>4, SumStep

-----------------------------------------------------------------------------
(* SumFunction of the community modules: the members are taken out in an    *)
(* order CHOOSE fixes.  A function that takes them out in the order c sums  *)
(* f, and there is one.                                                     *)
Folds(h, f, c, S) ==
  h = [s \in SUBSET S |-> IF s = {} THEN 0 ELSE f[c[s]] + h[s \ {c[s]}]]

LEMMA FoldIsSum ==
  ASSUME NEW S, IsFiniteSet(S), NEW f, Numbers(f, S),
         NEW c, \A s \in SUBSET S : s # {} => c[s] \in s
  PROVE  /\ \E h : Folds(h, f, c, S)
         /\ \A h : Folds(h, f, c, S) => h[S] = SumOf(f, S)
<1>1. PICK g : Additive(g, f, S)
  BY AdditiveExists
<1>2. Folds(g, f, c, S)
  <2>1. \A s \in SUBSET S : g[s] = IF s = {} THEN 0 ELSE f[c[s]] + g[s \ {c[s]}]
    BY <1>1 DEF Additive
  <2>2. g = [s \in SUBSET S |-> g[s]]
    BY <1>1 DEF Additive
  <2>3. QED
    BY <2>1, <2>2 DEF Folds
<1>3. ASSUME NEW h, Folds(h, f, c, S) PROVE h[S] = SumOf(f, S)
  <2> DEFINE Bad == {s \in SUBSET S : h[s] # g[s]}
  <2>1. \A s \in SUBSET S : h[s] = IF s = {} THEN 0 ELSE f[c[s]] + h[s \ {c[s]}]
    BY <1>3 DEF Folds
  <2>2. Bad = {}
    <3> SUFFICES ASSUME Bad # {} PROVE FALSE
      OBVIOUS
    <3>1. IsWellFoundedOn(StrictSubsetOrdering(S), SUBSET S) /\ Bad \subseteq SUBSET S
      BY FS_StrictSubsetOrderingWellFounded, FS_FiniteSubsetsOfFinite
    <3>2. PICK s \in Bad : \A b \in Bad : <<b, s>> \notin StrictSubsetOrdering(S)
      <4> HIDE DEF Bad
      <4> QED
        BY <3>1, WFMin
    <3>3. s \in SUBSET S /\ h[s] # g[s] /\ s # {}
      BY <1>1, <2>1 DEF Additive
    <3>4. s \ {c[s]} \in SUBSET S /\ c[s] \in s
      BY <3>3
    <3>5. h[s \ {c[s]}] # g[s \ {c[s]}]
      BY <1>1, <2>1, <3>3, <3>4 DEF Additive
    <3>6. <<s \ {c[s]}, s>> \in StrictSubsetOrdering(S)
      BY <3>3, <3>4 DEF StrictSubsetOrdering
    <3>7. QED
      BY <3>2, <3>4, <3>5, <3>6
  <2>3. S \in SUBSET S
    OBVIOUS
  <2>4. QED
    BY <1>1, <2>2, <2>3, SumAdditive
<1>4. QED
  BY <1>2, <1>3

LEMMA SumFunctionOnSetIsSum ==
  ASSUME NEW S, IsFiniteSet(S), NEW f, Numbers(f, S)
  PROVE  SumFunctionOnSet(f, S) = SumOf(f, S)
<1> DEFINE c == [s \in SUBSET S |-> CHOOSE x \in s : TRUE]
           Iter(h) == h = [s \in SUBSET S |-> IF s = {} THEN 0
                             ELSE f[CHOOSE x \in s : TRUE] + h[s \ {CHOOSE x \in s : TRUE}]]
<1>1. /\ \A s \in SUBSET S : s # {} => c[s] \in s
      /\ \A h : Folds(h, f, c, S) <=> Iter(h)
  BY DEF Folds
<1>2. SumFunctionOnSet(f, S) = (CHOOSE h : Iter(h))[S]
  BY DEF SumFunctionOnSet, FoldFunctionOnSet, MapThenFoldSet
<1> HIDE DEF c, Iter
<1>3. /\ \E h : Folds(h, f, c, S)
      /\ \A h : Folds(h, f, c, S) => h[S] = SumOf(f, S)
  BY <1>1, FoldIsSum
<1>4. Iter(CHOOSE h : Iter(h))
  BY <1>1, <1>3
<1>5. QED
  BY <1>1, <1>2, <1>3, <1>4

LEMMA SumFunctionIsSum ==
  ASSUME NEW f, IsFiniteSet(DOMAIN f), Numbers(f, DOMAIN f)
  PROVE  SumFunction(f) = SumOf(f, DOMAIN f)
BY SumFunctionOnSetIsSum DEF SumFunction
=============================================================================
