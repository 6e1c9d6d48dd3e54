--------------------------- MODULE ProfileProofs ----------------------------
(***************************************************************************)
(* Proofs about module Profile: the NVML session is closed, the active     *)
(* parameters of every profile lie between what a token really passes      *)
(* through and the total, and its cache costs what the layers of the       *)
(* config cost one by one, for every config.                               *)
(***************************************************************************)
EXTENDS Profile, Sums, SequenceTheorems

(* The closed session is inductive on its own.                              *)
THEOREM NvmlShut == Spec => []NvmlClosed
<1>1. Init => NvmlClosed
  BY DEF Init, NvmlClosed
<1>2. NvmlClosed /\ [Next]_vars => NvmlClosed'
  <2> SUFFICES ASSUME NvmlClosed, [Next]_vars
               PROVE  NvmlClosed'
    OBVIOUS
  <2> USE DEF NvmlClosed
  <2>1. CASE LoadSpec
    BY <2>1 DEF LoadSpec
  <2>2. CASE OpenNvml
    BY <2>2 DEF OpenNvml
  <2>3. CASE Query
    BY <2>3 DEF Query
  <2>4. CASE QueryRaises
    BY <2>4 DEF QueryRaises
  <2>5. CASE BuildLive
    BY <2>5 DEF BuildLive
  <2>6. CASE FetchConfig
    BY <2>6 DEF FetchConfig
  <2>7. CASE Measure
    BY <2>7 DEF Measure
  <2>8. CASE Estimate
    BY <2>8 DEF Estimate
  <2>9. CASE Interrupt
    BY <2>9 DEF Interrupt
  <2>10. CASE Ended \/ UNCHANGED vars
    BY <2>10 DEF Ended, vars
  <2> QED
    BY <2>1, <2>2, <2>3, <2>4, <2>5, <2>6, <2>7, <2>8, <2>9, <2>10 DEF Next, FindGpu
<1> QED
  BY <1>1, <1>2, PTL DEF Spec

-----------------------------------------------------------------------------
(* A product of counts, taken apart.                                        *)
LEMMA Distributes ==
  ASSUME NEW l \in Nat, NEW a \in Nat, NEW b \in Nat, NEW p \in Nat
  PROVE  /\ l * (a + b) * p = l * a * p + l * b * p
         /\ l * a * p \in Nat /\ l * b * p \in Nat
BY SMT

LEMMA Sizes ==
  ASSUME NEW c \in Configs
  PROVE  ExpertLayers(c) \in Nat /\ ExpertSize(c) \in Nat
<1>1. ExpertLayers(c) \in Nat
  BY ConfigsAssumption DEF ExpertLayers
<1>2. ExpertSize(c) \in Nat
  <2>1. c.hidden \in Nat /\ c.moe.width \in Nat
    BY ConfigsAssumption
  <2> QED
    BY <2>1, Distributes DEF ExpertSize
<1> QED
  BY <1>1, <1>2

(* Whatever was counted, packed or not, is a positive number.               *)
LEMMA CountPositive ==
  ASSUME NEW c \in Configs, NEW dense \in Dense, NEW packed \in BOOLEAN
  PROVE  Counted(c, dense, packed) \in Nat \ {0}
<1> DEFINE all == Parameters(c, dense)
<1>1. all \in Nat \ {0}
  <2>1. ExpertLayers(c) * (c.moe.experts + c.moe.shared) * ExpertSize(c) \in Nat
    BY Sizes, ConfigsAssumption, Distributes
  <2> QED
    BY <2>1, DenseAssumption DEF Parameters
<1> HIDE DEF all
<1>2. 1 + all \div 8 \in Nat \ {0}
  BY <1>1
<1> QED
  BY <1>1, <1>2 DEF Counted, all

(* The estimate is between one and the total it is given.                   *)
LEMMA ActiveInRange ==
  ASSUME NEW c \in Configs, NEW total \in Nat \ {0}
  PROVE  ActiveParams(c, total) \in 1..total
<1> DEFINE l == ExpertLayers(c)
           p == ExpertSize(c)
           others == total - l * c.moe.experts * p
           routed == l * (c.moe.topk + c.moe.shared) * p
<1>1. ActiveParams(c, total) =
        IF ~IsMoe(c) \/ c.moe.width = 0 \/ others <= 0 THEN total
        ELSE IF others + routed <= total THEN others + routed ELSE total
  BY DEF ActiveParams, ExpertLayers, ExpertSize
<1>2. l * c.moe.experts * p \in Nat /\ routed \in Nat
  BY Sizes, Distributes, ConfigsAssumption
<1>3. others \in Int
  BY <1>2
<1> HIDE DEF l, p, others, routed
<1> QED
  BY <1>1, <1>2, <1>3

(* What is not counted as active is at most the experts a token skips.      *)
LEMMA SkippedBounded ==
  ASSUME NEW c \in Configs, NEW dense \in Dense, c.moe.topk <= c.moe.experts
  PROVE  Parameters(c, dense) - ActiveParams(c, Parameters(c, dense)) <=
           IF IsMoe(c)
           THEN ExpertLayers(c) * (c.moe.experts - c.moe.topk) * ExpertSize(c) ELSE 0
<1> DEFINE l == ExpertLayers(c)
           p == ExpertSize(c)
           total == Parameters(c, dense)
           skipped == c.moe.experts - c.moe.topk
           others == total - l * c.moe.experts * p
           routed == l * (c.moe.topk + c.moe.shared) * p
<1>1. ActiveParams(c, total) =
        IF ~IsMoe(c) \/ c.moe.width = 0 \/ others <= 0 THEN total
        ELSE IF others + routed <= total THEN others + routed ELSE total
  BY DEF ActiveParams, ExpertLayers, ExpertSize
<1>2. total \in Nat \ {0}
  BY CountPositive DEF Counted
<1>3. /\ skipped \in Nat
      /\ c.moe.experts = c.moe.topk + skipped
  BY ConfigsAssumption
<1> DEFINE k == c.moe.topk
           s == c.moe.shared
<1>. /\ l \in Nat /\ p \in Nat /\ k \in Nat /\ s \in Nat
  BY Sizes, ConfigsAssumption
<1>4. /\ l * c.moe.experts * p = l * c.moe.topk * p + l * skipped * p
      /\ l * c.moe.topk * p \in Nat /\ l * skipped * p \in Nat
  <2> HIDE DEF l, p, skipped
  <2> QED
    BY <1>3, Distributes DEF k
<1>5. /\ routed = l * c.moe.topk * p + l * c.moe.shared * p
      /\ l * c.moe.shared * p \in Nat
  <2> HIDE DEF l, p
  <2> QED
    BY Distributes DEF k, s
<1> DEFINE experts == l * c.moe.experts * p
           top == l * c.moe.topk * p
           rest == l * skipped * p
           shared == l * c.moe.shared * p
<1>6. others = total - experts
  OBVIOUS
<1> HIDE DEF l, p, total, skipped, others, routed, experts, top, rest, shared
<1>7. total - ActiveParams(c, total) <= IF IsMoe(c) THEN rest ELSE 0
  <2>1. experts = top + rest /\ top \in Nat /\ rest \in Nat
    BY <1>4 DEF experts, top, rest
  <2>2. routed = top + shared /\ shared \in Nat
    BY <1>5 DEF top, shared
  <2> QED
    BY <1>1, <1>2, <1>6, <2>1, <2>2
<1> QED
  BY <1>7 DEF rest, l, p, total, skipped

-----------------------------------------------------------------------------
(* Bytes of a cache, its parts and its layers.                               *)

(* A byte holds one fp8 number, half a bf16 one.                            *)
LEMMA Bytewise ==
  ASSUME NEW n \in Nat
  PROVE  BytesFor(n, "fp8") = n /\ BytesFor(n, "bf16") = 2 * n
BY DEF BytesFor, CeilDiv, Bits

LEMMA Shared ==
  ASSUME NEW n \in Nat, NEW tp \in Positive
  PROVE  CeilDiv(n, tp) \in Nat
<1> DEFINE a == n + tp - 1
<1>1. a \in Nat /\ tp \in Nat /\ tp > 0 /\ CeilDiv(n, tp) = a \div tp
  BY DEF CeilDiv, Positive
<1> HIDE DEF a
<1>2. QED
  BY <1>1

LEMMA ProductNatural ==
  ASSUME NEW a \in Nat, NEW b \in Nat
  PROVE  a * b \in Nat
OBVIOUS

(* Bytes are proportional to the layers that are counted.                   *)
LEMMA BytesScale ==
  ASSUME NEW m \in Nat, NEW k \in Nat, NEW d \in KvDtypes
  PROVE  BytesFor(m * k, d) = k * BytesFor(m * 1, d) /\ BytesFor(m * 1, d) \in Nat
<1>1. m * k \in Nat /\ m * 1 = m /\ m * k = k * m /\ k * (2 * m) = 2 * (k * m)
  BY ProductNatural
<1>2. CASE d = "fp8"
  BY <1>1, <1>2, Bytewise
<1>3. CASE d = "bf16"
  BY <1>1, <1>3, Bytewise
<1>4. QED
  BY <1>2, <1>3 DEF KvDtypes

(* So k layers cost k times what one does.                                  *)
LEMMA HeadsScale ==
  ASSUME NEW h \in Nat, NEW e \in Nat, NEW w \in Nat, NEW k \in Nat,
         NEW n \in Nat, NEW d \in KvDtypes, NEW tp \in Positive
  PROVE  /\ PartSequence(Attention(h, e, k, w), n, d, tp) = k * PartSequence(Attention(h, e, 1, w), n, d, tp)
         /\ PartSequence(Attention(h, e, 1, w), n, d, tp) \in Nat
<1> DEFINE m == 2 * CeilDiv(h, tp) * e
           s == IF w # NoWindow THEN Smaller(n, w) ELSE n
           b(l) == BytesFor(m * l, d)
<1>1. m \in Nat
  BY Shared, ProductNatural
<1>2. s \in Nat
  BY DEF Smaller
<1>3. \A l : PartSequence(Attention(h, e, l, w), n, d, tp) = s * b(l)
  BY DEF PartSequence, Attention, Windowed, KvBytesPerToken, KvHeadsPerGpu
<1>4. b(k) = k * b(1) /\ b(1) \in Nat
  BY <1>1, BytesScale
<1> HIDE DEF m, s, b
<1>5. s * (k * b(1)) = k * (s * b(1)) /\ s * b(1) \in Nat
  BY <1>2, <1>4
<1>6. QED
  BY <1>3, <1>4, <1>5

LEMMA LatentScale ==
  ASSUME NEW r \in Nat, NEW e \in Nat, NEW k \in Nat,
         NEW n \in Nat, NEW d \in KvDtypes, NEW tp \in Positive
  PROVE  /\ PartSequence(MLA(r, e, k), n, d, tp) = k * PartSequence(MLA(r, e, 1), n, d, tp)
         /\ PartSequence(MLA(r, e, 1), n, d, tp) \in Nat
<1> DEFINE m == IF d = "fp8" THEN r + 2 * e + 16 ELSE 2 * (r + e)
<1>1. m \in Nat
  OBVIOUS
<1>2. \A l : PartSequence(MLA(r, e, l), n, d, tp) = n * (m * l)
  <2>1. BytesFor(r + e, "bf16") = 2 * (r + e)
    BY Bytewise
  <2>2. QED
    BY <2>1 DEF PartSequence, MLA, Windowed, KvBytesPerToken, KvDtypes
<1> HIDE DEF m
<1>3. n * (m * k) = k * (n * (m * 1)) /\ n * (m * 1) \in Nat
  BY <1>1
<1>4. QED
  BY <1>2, <1>3

LEMMA StateScale ==
  ASSUME NEW i \in Nat, NEW g \in Nat, NEW s \in Nat, NEW v \in Nat, NEW k \in Nat,
         NEW n \in Nat, NEW d \in KvDtypes, NEW tp \in Positive
  PROVE  /\ PartSequence(Recurrent(i, g, s, v, k), n, d, tp) = k * PartSequence(Recurrent(i, g, s, v, 1), n, d, tp)
         /\ PartSequence(Recurrent(i, g, s, v, 1), n, d, tp) \in Nat
<1> DEFINE a == CeilDiv(i, tp)
           b == CeilDiv(g, tp)
           m == (a + 2 * b * s) * v + a * s
<1>1. m \in Nat
  <2>1. a \in Nat /\ b \in Nat
    BY Shared
  <2> HIDE DEF a, b
  <2>2. 2 * b * s \in Nat /\ a * s \in Nat
    BY <2>1, ProductNatural
  <2>3. (a + 2 * b * s) * v \in Nat
    BY <2>1, <2>2, ProductNatural
  <2>4. QED
    BY <2>2, <2>3
<1>2. \A l : PartSequence(Recurrent(i, g, s, v, l), n, d, tp) = BytesFor(m * l, d)
  BY DEF PartSequence, Recurrent, StateBytes
<1> HIDE DEF m
<1>3. QED
  BY <1>1, <1>2, BytesScale

(* What a cache costs, as a sum over its parts.                             *)
LEMMA CostIsSum ==
  ASSUME NEW n, NEW d, NEW tp, NEW c, NEW D, D = DOMAIN c, IsFiniteSet(D),
         \A i \in D : PartSequence(c[i], n, d, tp) \in Nat
  PROVE  \E f : /\ Numbers(f, D) /\ SequenceBytes(c, n, d, tp) = SumOf(f, D)
                /\ \A i \in D : f[i] = PartSequence(c[i], n, d, tp)
<1>1. PICK f : f = [i \in D |-> PartSequence(c[i], n, d, tp)]
  OBVIOUS
<1>2. DOMAIN f = D /\ \A i \in D : f[i] = PartSequence(c[i], n, d, tp)
  BY <1>1
<1>3. Numbers(f, D)
  BY <1>2 DEF Numbers
<1>4. SequenceBytes(c, n, d, tp) = SumFunction(f)
  BY <1>1 DEF SequenceBytes
<1>5. SumFunction(f) = SumOf(f, D)
  BY <1>2, <1>3, SumFunctionIsSum
<1>6. QED
  BY <1>2, <1>3, <1>4, <1>5

(* A cache of no part, of one and of two.                                   *)
LEMMA CostOfNone ==
  ASSUME NEW n, NEW d, NEW tp
  PROVE  SequenceBytes(<<>>, n, d, tp) = 0
<1>1. DOMAIN <<>> = {} /\ IsFiniteSet({})
  BY FS_EmptySet
<1>2. PICK f : SequenceBytes(<<>>, n, d, tp) = SumOf(f, {})
  BY <1>1, CostIsSum
<1>3. QED
  BY <1>2, SumEmpty

LEMMA CostOfOne ==
  ASSUME NEW n, NEW d, NEW tp, NEW c, DOMAIN c = {1}, PartSequence(c[1], n, d, tp) \in Nat
  PROVE  SequenceBytes(c, n, d, tp) = PartSequence(c[1], n, d, tp)
<1>1. IsFiniteSet({1}) /\ {1} \ {1} = {} /\ 1 \in {1}
  BY FS_Singleton
<1>2. PICK f : /\ Numbers(f, {1}) /\ SequenceBytes(c, n, d, tp) = SumOf(f, {1})
               /\ \A i \in {1} : f[i] = PartSequence(c[i], n, d, tp)
  BY <1>1, CostIsSum
<1>3. SumOf(f, {1}) = f[1] + SumOf(f, {})
  BY <1>1, <1>2, SumStep
<1>4. f[1] = PartSequence(c[1], n, d, tp) /\ SumOf(f, {}) = 0
  BY <1>2, SumEmpty
<1>5. QED
  BY <1>2, <1>3, <1>4

LEMMA CostOfTwo ==
  ASSUME NEW n, NEW d, NEW tp, NEW c, DOMAIN c = {1, 2},
         PartSequence(c[1], n, d, tp) \in Nat, PartSequence(c[2], n, d, tp) \in Nat
  PROVE  SequenceBytes(c, n, d, tp) = PartSequence(c[1], n, d, tp) + PartSequence(c[2], n, d, tp)
<1>1. /\ {1, 2} \ {1} = {2} /\ {2} \ {2} = {} /\ 1 \in {1, 2} /\ 2 \in {2}
      /\ {1} \cup {2} = {1, 2}
  OBVIOUS
<1>2. IsFiniteSet({2}) /\ IsFiniteSet({1, 2})
  <2>1. IsFiniteSet({1}) /\ IsFiniteSet({2})
    BY FS_Singleton
  <2>2. IsFiniteSet({1} \cup {2})
    BY <2>1, FS_AddElement
  <2>3. QED
    BY <1>1, <2>1, <2>2
<1>3. PICK f : /\ Numbers(f, {1, 2}) /\ SequenceBytes(c, n, d, tp) = SumOf(f, {1, 2})
               /\ \A i \in {1, 2} : f[i] = PartSequence(c[i], n, d, tp)
  BY <1>2, CostIsSum
<1>4. Numbers(f, {2})
  BY <1>3 DEF Numbers
<1>5. SumOf(f, {1, 2}) = f[1] + SumOf(f, {2}) /\ SumOf(f, {2}) = f[2] + SumOf(f, {})
  BY <1>1, <1>2, <1>3, <1>4, SumStep
<1>6. /\ f[1] = PartSequence(c[1], n, d, tp) /\ f[2] = PartSequence(c[2], n, d, tp)
      /\ SumOf(f, {}) = 0
  BY <1>3, SumEmpty
<1>7. QED
  BY <1>3, <1>5, <1>6

LEMMA SingleShape ==
  ASSUME NEW p
  PROVE  /\ Len(Single(p)) = 1 /\ DOMAIN Single(p) = {1} /\ Single(p)[1] = p
         /\ \A T : p \in T => Single(p) \in Seq(T)
BY DEF Single

LEMMA SingleCost ==
  ASSUME NEW n, NEW d, NEW tp, NEW p, PartSequence(p, n, d, tp) \in Nat
  PROVE  SequenceBytes(Single(p), n, d, tp) = PartSequence(p, n, d, tp)
<1>1. PICK c : c = Single(p)
  OBVIOUS
<1>2. DOMAIN c = {1} /\ c[1] = p
  BY <1>1, SingleShape
<1>3. QED
  BY <1>1, <1>2, CostOfOne

LEMMA PairCost ==
  ASSUME NEW n, NEW d, NEW tp, NEW p, PartSequence(p, n, d, tp) \in Nat,
         NEW q, PartSequence(q, n, d, tp) \in Nat
  PROVE  SequenceBytes(Single(p) \o Single(q), n, d, tp)
           = PartSequence(p, n, d, tp) + PartSequence(q, n, d, tp)
<1>1. PICK s, t, T : s = Single(p) /\ t = Single(q) /\ T = {p, q}
  OBVIOUS
<1>2. /\ s \in Seq(T) /\ t \in Seq(T) /\ Len(s) = 1 /\ Len(t) = 1
      /\ s[1] = p /\ t[1] = q
  BY <1>1, SingleShape
<1>3. PICK c : c = s \o t
  OBVIOUS
<1>4. c \in Seq(T) /\ Len(c) = 2
  BY <1>2, <1>3, ConcatProperties
<1>5. c[1] = p /\ c[2] = q
  <2>1. \A i \in 1 .. 2 : c[i] = IF i <= 1 THEN s[i] ELSE t[i - 1]
    BY <1>2, <1>3, ConcatProperties
  <2>2. c[1] = s[1] /\ c[2] = t[1]
    BY <2>1
  <2>3. QED
    BY <1>2, <2>2
<1>6. DOMAIN c = {1, 2}
  BY <1>4
<1>7. QED
  BY <1>1, <1>3, <1>5, <1>6, CostOfTwo

(* A sum of so many of one value and so many of another.                    *)
LEMMA SumCounted ==
  ASSUME NEW S, IsFiniteSet(S), NEW A \in SUBSET S, NEW B \in SUBSET S, A \cap B = {},
         NEW a \in Nat, NEW b \in Nat, NEW f,
         \A i \in S : f[i] = IF i \in A THEN a ELSE IF i \in B THEN b ELSE 0
  PROVE  SumOf(f, S) = Cardinality(A) * a + Cardinality(B) * b
<1> DEFINE Good == {s \in SUBSET S :
                      SumOf(f, s) = Cardinality(A \cap s) * a + Cardinality(B \cap s) * b}
<1>0. \A s \in SUBSET S : IsFiniteSet(s) /\ IsFiniteSet(A \cap s) /\ IsFiniteSet(B \cap s)
  BY FS_Subset
<1>1. \A s \in SUBSET S : Numbers(f, s)
  BY DEF Numbers
<1>2. {} \in Good
  <2>1. A \cap {} = {} /\ B \cap {} = {} /\ Cardinality({}) = 0 /\ SumOf(f, {}) = 0
    BY FS_EmptySet, SumEmpty
  <2>2. QED
    BY <2>1
<1>3. ASSUME NEW s \in SUBSET S, NEW x \in s, s \ {x} \in Good
      PROVE  s \in Good
  <2> DEFINE r == s \ {x}
             k == Cardinality(A \cap r)
             l == Cardinality(B \cap r)
  <2>1. r \in SUBSET S /\ SumOf(f, r) = k * a + l * b
    BY <1>3
  <2>2. SumOf(f, s) = f[x] + SumOf(f, r)
    BY <1>0, <1>1, SumStep
  <2>3. k \in Nat /\ l \in Nat
    BY <1>0, <2>1, FS_CardinalityType
  <2>4. /\ Cardinality(A \cap s) = IF x \in A THEN k + 1 ELSE k
        /\ Cardinality(B \cap s) = IF x \in B THEN l + 1 ELSE l
    <3>1. ASSUME NEW T \in {A, B}
          PROVE  Cardinality(T \cap s)
                   = IF x \in T THEN Cardinality(T \cap r) + 1 ELSE Cardinality(T \cap r)
      <4>1. IsFiniteSet(T \cap r) /\ x \notin T \cap r
        BY <1>0, <2>1
      <4>2. CASE x \in T
        <5>1. T \cap s = (T \cap r) \cup {x}
          BY <4>2
        <5> HIDE DEF r
        <5>2. QED
          BY <4>1, <4>2, <5>1, FS_AddElement
      <4>3. CASE x \notin T
        <5>1. T \cap s = T \cap r
          BY <4>3
        <5> HIDE DEF r
        <5>2. QED
          BY <4>3, <5>1
      <4>4. QED
        BY <4>2, <4>3
    <3>2. QED
      BY <3>1
  <2> HIDE DEF k, l, r
  <2>5. CASE x \in A
    <3>1. x \notin B /\ f[x] = a
      BY <2>5
    <3>2. (k + 1) * a = k * a + a /\ k * a \in Nat /\ l * b \in Nat
      BY <2>3
    <3>3. SumOf(f, s) = (k + 1) * a + l * b
      BY <2>1, <2>2, <3>1, <3>2
    <3>4. QED
      BY <2>4, <2>5, <3>1, <3>3
  <2>6. CASE x \in B
    <3>1. x \notin A /\ f[x] = b
      BY <2>6
    <3>2. (l + 1) * b = l * b + b /\ k * a \in Nat /\ l * b \in Nat
      BY <2>3
    <3>3. SumOf(f, s) = k * a + (l + 1) * b
      BY <2>1, <2>2, <3>1, <3>2
    <3>4. QED
      BY <2>4, <2>6, <3>1, <3>3
  <2>7. CASE x \notin A /\ x \notin B
    <3>1. f[x] = 0 /\ k * a \in Nat /\ l * b \in Nat
      BY <2>3, <2>7
    <3>2. QED
      BY <2>1, <2>2, <2>4, <2>7, <3>1
  <2>8. QED
    BY <2>5, <2>6, <2>7
<1>4. S \in Good
  <2> HIDE DEF Good
  <2>1. \A s \in SUBSET S : \A x \in s : s \ {x} \in Good => s \in Good
    BY <1>3
  <2>2. QED
    BY <1>2, <2>1, SubsetInduction
<1>5. A \cap S = A /\ B \cap S = B
  OBVIOUS
<1>6. QED
  BY <1>4, <1>5

-----------------------------------------------------------------------------
(* The same for what layers cost, when they are of two kinds or none.       *)
LEMMA TwoKinds ==
  ASSUME NEW S, IsFiniteSet(S), NEW A \in SUBSET S, NEW B \in SUBSET S, A \cap B = {},
         NEW a \in Nat, NEW b \in Nat, NEW f, DOMAIN f = S,
         \A i \in S : f[i] = IF i \in A THEN a ELSE IF i \in B THEN b ELSE 0
  PROVE  SumFunction(f) = Cardinality(A) * a + Cardinality(B) * b
<1>1. Numbers(f, S)
  BY DEF Numbers
<1>2. QED
  BY <1>1, SumCounted, SumFunctionIsSum

LEMMA OneKind ==
  ASSUME NEW S, IsFiniteSet(S), NEW a \in Nat, NEW f, DOMAIN f = S, \A i \in S : f[i] = a
  PROVE  SumFunction(f) = Cardinality(S) * a
<1>1. S \in SUBSET S /\ {} \in SUBSET S /\ S \cap {} = {}
  OBVIOUS
<1>2. \A i \in S : f[i] = IF i \in S THEN a ELSE IF i \in {} THEN 0 ELSE 0
  OBVIOUS
<1>3. SumFunction(f) = Cardinality(S) * a + Cardinality({}) * 0
  BY <1>1, <1>2, TwoKinds
<1>4. Cardinality({}) = 0 /\ Cardinality(S) \in Nat
  BY FS_EmptySet, FS_CardinalityType
<1>5. QED
  BY <1>3, <1>4

(* Parts of no layers cost nothing, so leaving them out changes nothing.    *)
LEMMA KeptCost ==
  ASSUME NEW n, NEW d, NEW tp, NEW x, x.layers \in Nat, NEW y, y.layers \in Nat,
         NEW a \in Nat, PartSequence(x, n, d, tp) = x.layers * a,
         NEW b \in Nat, PartSequence(y, n, d, tp) = y.layers * b
  PROVE  SequenceBytes(Kept(x) \o Kept(y), n, d, tp) = x.layers * a + y.layers * b
<1>1. x.layers * a \in Nat /\ y.layers * b \in Nat
  BY ProductNatural
<1>2. PartSequence(x, n, d, tp) \in Nat /\ PartSequence(y, n, d, tp) \in Nat
  BY <1>1
<1>3. /\ SequenceBytes(<<>>, n, d, tp) = 0
      /\ SequenceBytes(Single(x), n, d, tp) = PartSequence(x, n, d, tp)
      /\ SequenceBytes(Single(y), n, d, tp) = PartSequence(y, n, d, tp)
      /\ SequenceBytes(Single(x) \o Single(y), n, d, tp)
           = PartSequence(x, n, d, tp) + PartSequence(y, n, d, tp)
  BY <1>2, CostOfNone, SingleCost, PairCost
<1>4. /\ <<>> \o <<>> = <<>>
      /\ Single(x) \o <<>> = Single(x)
      /\ <<>> \o Single(y) = Single(y)
  <2>1. Single(x) \in Seq({x, y}) /\ Single(y) \in Seq({x, y}) /\ <<>> \in Seq({x, y})
    BY SingleShape
  <2>2. QED
    BY <2>1, ConcatEmptySeq
<1>5. /\ Kept(x) = IF x.layers > 0 THEN Single(x) ELSE <<>>
      /\ Kept(y) = IF y.layers > 0 THEN Single(y) ELSE <<>>
  BY DEF Kept
<1>6. /\ x.layers = 0 => x.layers * a = 0
      /\ y.layers = 0 => y.layers * b = 0
  OBVIOUS
<1>7. x.layers > 0 \/ x.layers = 0
  OBVIOUS
<1>8. y.layers > 0 \/ y.layers = 0
  OBVIOUS
<1>9. CASE x.layers > 0 /\ y.layers > 0
  <2>1. Kept(x) \o Kept(y) = Single(x) \o Single(y)
    BY <1>5, <1>9
  <2>2. QED
    BY <1>3, <2>1
<1>10. CASE x.layers > 0 /\ y.layers = 0
  <2>1. Kept(x) \o Kept(y) = Single(x)
    BY <1>4, <1>5, <1>10
  <2>2. QED
    BY <1>1, <1>3, <1>6, <1>10, <2>1
<1>11. CASE x.layers = 0 /\ y.layers > 0
  <2>1. Kept(x) \o Kept(y) = Single(y)
    BY <1>4, <1>5, <1>11
  <2>2. QED
    BY <1>1, <1>3, <1>6, <1>11, <2>1
<1>12. CASE x.layers = 0 /\ y.layers = 0
  <2>1. Kept(x) \o Kept(y) = <<>>
    BY <1>4, <1>5, <1>12
  <2>2. QED
    BY <1>3, <1>6, <1>12, <2>1
<1>13. QED
  BY <1>7, <1>8, <1>9, <1>10, <1>11, <1>12

(* A cache of one part, and its layers one by one.                          *)
LEMMA AlikeCost ==
  ASSUME NEW n, NEW d, NEW tp, NEW a \in Nat, NEW S, IsFiniteSet(S),
         NEW x, PartSequence(x, n, d, tp) = Cardinality(S) * a,
         NEW y, PartSequence(y, n, d, tp) = a,
         NEW f, DOMAIN f = S, \A i \in S : f[i] = SequenceBytes(Single(y), n, d, tp)
  PROVE  SequenceBytes(Single(x), n, d, tp) = SumFunction(f)
<1>1. Cardinality(S) \in Nat
  BY FS_CardinalityType
<1>2. PartSequence(x, n, d, tp) \in Nat /\ PartSequence(y, n, d, tp) \in Nat
  BY <1>1, ProductNatural
<1>3. /\ SequenceBytes(Single(x), n, d, tp) = PartSequence(x, n, d, tp)
      /\ SequenceBytes(Single(y), n, d, tp) = PartSequence(y, n, d, tp)
  BY <1>2, SingleCost
<1>4. \A i \in S : f[i] = a
  BY <1>3
<1>5. SumFunction(f) = Cardinality(S) * a
  BY <1>4, OneKind
<1>6. QED
  BY <1>3, <1>5

(* A cache of two parts, and its layers one by one.                         *)
LEMMA MixedCost ==
  ASSUME NEW n, NEW d, NEW tp, NEW a \in Nat, NEW b \in Nat,
         NEW S, IsFiniteSet(S), NEW A \in SUBSET S, NEW B \in SUBSET S, A \cap B = {},
         NEW x, x.layers = Cardinality(A), PartSequence(x, n, d, tp) = Cardinality(A) * a,
         NEW y, y.layers = Cardinality(B), PartSequence(y, n, d, tp) = Cardinality(B) * b,
         NEW v, PartSequence(v, n, d, tp) = a,
         NEW w, PartSequence(w, n, d, tp) = b,
         NEW f, DOMAIN f = S,
         \A i \in S : f[i] = SequenceBytes(IF i \in A THEN Single(v)
                                           ELSE IF i \in B THEN Single(w) ELSE <<>>, n, d, tp)
  PROVE  SequenceBytes(Kept(x) \o Kept(y), n, d, tp) = SumFunction(f)
<1>1. Cardinality(A) \in Nat /\ Cardinality(B) \in Nat
  BY FS_Subset, FS_CardinalityType
<1>2. SequenceBytes(Kept(x) \o Kept(y), n, d, tp) = Cardinality(A) * a + Cardinality(B) * b
  <2>1. x.layers \in Nat /\ PartSequence(x, n, d, tp) = x.layers * a
    BY <1>1
  <2>2. y.layers \in Nat /\ PartSequence(y, n, d, tp) = y.layers * b
    BY <1>1
  <2>3. SequenceBytes(Kept(x) \o Kept(y), n, d, tp) = x.layers * a + y.layers * b
    BY <2>1, <2>2, KeptCost
  <2>4. QED
    BY <2>3
<1>3. PartSequence(v, n, d, tp) \in Nat /\ PartSequence(w, n, d, tp) \in Nat
  OBVIOUS
<1>4. /\ SequenceBytes(Single(v), n, d, tp) = PartSequence(v, n, d, tp)
      /\ SequenceBytes(Single(w), n, d, tp) = PartSequence(w, n, d, tp)
      /\ SequenceBytes(<<>>, n, d, tp) = 0
  BY <1>3, SingleCost, CostOfNone
<1>6. \A i \in S : f[i] = IF i \in A THEN a ELSE IF i \in B THEN b ELSE 0
  BY <1>4
<1>7. SumFunction(f) = Cardinality(A) * a + Cardinality(B) * b
  BY <1>6, TwoKinds
<1>8. QED
  BY <1>2, <1>7

(* The layers of a kind, counted.                                           *)
LEMMA CountNatural ==
  ASSUME NEW T, NEW s \in Seq(T), NEW x
  PROVE  /\ IsFiniteSet(DOMAIN s)
         /\ Count(x, s) \in Nat
         /\ Count(x, s) = 0 => \A i \in DOMAIN s : s[i] # x
<1> DEFINE D == DOMAIN s
           A == {i \in D : s[i] = x}
<1>1. IsFiniteSet(D)
  <2>1. Len(s) \in Nat /\ D = 1 .. Len(s)
    OBVIOUS
  <2>2. QED
    BY <2>1, FS_Interval
<1>2. A \in SUBSET D
  OBVIOUS
<1>3. Count(x, s) = Cardinality(A)
  BY DEF Count
<1> HIDE DEF D
<1>4. IsFiniteSet(A) /\ Cardinality(A) \in Nat
  <2>1. IsFiniteSet(A)
    BY <1>1, <1>2, FS_Subset
  <2>2. QED
    BY <2>1, FS_CardinalityType
<1>5. Cardinality(A) = 0 => A = {}
  BY <1>4, FS_EmptySet
<1>6. QED
  BY <1>1, <1>3, <1>4, <1>5 DEF D

(* What a layer of each kind costs.                                         *)
LEMMA HeadsCost ==
  ASSUME NEW c \in Configs, ~Unknown(c), NEW k \in Nat, NEW w \in Nat,
         NEW n \in Nat, NEW d \in KvDtypes, NEW tp \in Positive
  PROVE  /\ PartSequence(Heads(c, k, w), n, d, tp) = k * PartSequence(Heads(c, 1, w), n, d, tp)
         /\ PartSequence(Heads(c, 1, w), n, d, tp) \in Nat
<1>1. KvHeads(c) \in Nat /\ HeadDim(c) \in Nat
  <2>1. c.heads \in Nat /\ c.heads # 0 /\ c.hidden \in Nat /\ c.headDim \in Nat /\ c.kvHeads \in Nat
    BY ConfigsAssumption DEF Unknown
  <2>2. \A i, j \in Nat : j # 0 => i \div j \in Nat
    OBVIOUS
  <2>3. QED
    BY <2>1, <2>2 DEF KvHeads, HeadDim
<1>2. PartSequence(Attention(KvHeads(c), HeadDim(c), k, w), n, d, tp)
        = k * PartSequence(Attention(KvHeads(c), HeadDim(c), 1, w), n, d, tp)
  BY <1>1, HeadsScale
<1>3. PartSequence(Attention(KvHeads(c), HeadDim(c), 1, w), n, d, tp) \in Nat
  BY <1>1, HeadsScale
<1>4. QED
  BY <1>2, <1>3 DEF Heads

LEMMA MambaCost ==
  ASSUME NEW c \in Configs, NEW k \in Nat,
         NEW n \in Nat, NEW d \in KvDtypes, NEW tp \in Positive
  PROVE  /\ PartSequence(Mamba(c, k), n, d, tp) = k * PartSequence(Mamba(c, 1), n, d, tp)
         /\ PartSequence(Mamba(c, 1), n, d, tp) \in Nat
<1> DEFINE part(l) == Recurrent(MambaInner(c), c.mamba.groups, c.mamba.state, c.mamba.conv, l)
<1>1. /\ MambaInner(c) \in Nat /\ c.mamba.groups \in Nat /\ c.mamba.state \in Nat
      /\ c.mamba.conv \in Nat
  BY ConfigsAssumption DEF MambaInner
<1>2. /\ PartSequence(part(k), n, d, tp) = k * PartSequence(part(1), n, d, tp)
      /\ PartSequence(part(1), n, d, tp) \in Nat
  BY <1>1, StateScale
<1>3. QED
  BY <1>2 DEF Mamba

(* Which of the five layouts a config means, and its layers one by one,     *)
(* come to the same bytes.                                                  *)
LEMMA LayersCost ==
  ASSUME NEW c \in Configs, ~Unknown(c),
         NEW n \in Nat, NEW d \in KvDtypes, NEW tp \in Positive
  PROVE  SequenceBytes(CacheSpec(c), n, d, tp)
           = SumFunction([i \in LayersOf(c) |-> SequenceBytes(LayerOf(c, i), n, d, tp)])
<1>1. /\ c.layers \in Nat /\ c.window \in Nat /\ NoWindow \in Nat /\ 1 \in Nat
      /\ c.rank \in Nat /\ c.rope \in Nat
      /\ c.pattern \in Seq({"*", "M", "-"}) /\ c.types \in Seq({"full", "sliding", "other"})
  BY ConfigsAssumption DEF NoWindow
<1>2. PICK F : F = [i \in LayersOf(c) |-> SequenceBytes(LayerOf(c, i), n, d, tp)]
  OBVIOUS
<1>3. DOMAIN F = LayersOf(c) /\ \A i \in LayersOf(c) : F[i] = SequenceBytes(LayerOf(c, i), n, d, tp)
  BY <1>2
<1>4. CASE c.rank # 0
  <2>1. PICK k, r, e : k = c.layers /\ r = c.rank /\ e = c.rope
    OBVIOUS
  <2>2. k \in Nat /\ r \in Nat /\ e \in Nat
    BY <1>1, <2>1
  <2>3. PICK x, y : x = MLA(r, e, k) /\ y = MLA(r, e, 1)
    OBVIOUS
  <2>4. CacheSpec(c) = Single(x) /\ LayersOf(c) = 1 .. k
    BY <1>4, <2>1, <2>3 DEF CacheSpec, Layout, LayersOf
  <2>5. \A i : LayerOf(c, i) = Single(y)
    BY <1>4, <2>1, <2>3 DEF LayerOf
  <2>6. PICK a : a = PartSequence(y, n, d, tp)
    OBVIOUS
  <2>7. a \in Nat
    BY <2>2, <2>3, <2>6, LatentScale
  <2>8. PartSequence(x, n, d, tp) = k * a
    BY <2>2, <2>3, <2>6, LatentScale
  <2>9. PICK S : S = 1 .. k
    OBVIOUS
  <2>10. SequenceBytes(Single(x), n, d, tp) = SumFunction(F)
    <3>1. IsFiniteSet(S) /\ Cardinality(S) = k
      BY <2>2, <2>9, FS_Interval
    <3>2. PartSequence(x, n, d, tp) = Cardinality(S) * a
      BY <2>8, <3>1
    <3>3. DOMAIN F = S /\ \A i \in S : F[i] = SequenceBytes(Single(y), n, d, tp)
      BY <1>3, <2>4, <2>5, <2>9
    <3>4. IsFiniteSet(S)
      BY <3>1
    <3>5. DOMAIN F = S
      BY <3>3
    <3>6. \A i \in S : F[i] = SequenceBytes(Single(y), n, d, tp)
      BY <3>3
    <3>7. QED
      BY <2>6, <2>7, <3>2, <3>4, <3>5, <3>6, AlikeCost
  <2>11. QED
    BY <1>2, <2>4, <2>10
<1>5. CASE c.rank = 0 /\ c.pattern # <<>>
  <2>1. PICK A, B : A = {i \in DOMAIN c.pattern : c.pattern[i] = "*"}
                    /\ B = {i \in DOMAIN c.pattern : c.pattern[i] = "M"}
    OBVIOUS
  <2>2. PICK win : win = c.window /\ win \in Nat
    BY <1>1
  <2>3. PICK x, v : x = Heads(c, Cardinality(A), NoWindow) /\ v = Heads(c, 1, NoWindow)
    OBVIOUS
  <2>4. PICK y, w : y = Mamba(c, Cardinality(B)) /\ w = Mamba(c, 1)
    OBVIOUS
  <2>5. LayersOf(c) = DOMAIN c.pattern
    <3>1. c.pattern \o c.types # <<>>
      BY <1>1, <1>5
    <3>2. QED
      BY <1>5, <3>1 DEF LayersOf
  <2>6. CacheSpec(c) = Kept(x) \o Kept(y)
    BY <1>5, <2>1, <2>2, <2>3, <2>4 DEF CacheSpec, Layout, Count
  <2>7. \A i \in DOMAIN c.pattern : i \in A <=> c.pattern[i] = "*"
    BY <2>1
  <2>8. \A i \in DOMAIN c.pattern : LayerOf(c, i) = IF i \in A THEN Single(v) ELSE IF i \in B THEN Single(w) ELSE <<>>
    BY <1>5, <2>1, <2>2, <2>3, <2>4, <2>7 DEF LayerOf
  <2>9. IsFiniteSet(DOMAIN c.pattern) /\ Cardinality(A) \in Nat /\ Cardinality(B) \in Nat
    BY <1>1, <2>1, CountNatural DEF Count
  <2>10. A \in SUBSET DOMAIN c.pattern /\ B \in SUBSET DOMAIN c.pattern /\ A \cap B = {}
    BY <2>1
  <2>11. x.layers = Cardinality(A) /\ y.layers = Cardinality(B)
    BY <2>3, <2>4 DEF Heads, Attention, Mamba, Recurrent
  <2>12. PICK a, b : a = PartSequence(v, n, d, tp) /\ b = PartSequence(w, n, d, tp)
    OBVIOUS
  <2>13. a \in Nat /\ PartSequence(x, n, d, tp) = Cardinality(A) * a
    BY <1>1, <2>3, <2>9, <2>12, HeadsCost
  <2>14. b \in Nat /\ PartSequence(y, n, d, tp) = Cardinality(B) * b
    <3>1. b \in Nat
      BY <1>1, <2>2, <2>4, <2>9, <2>12, MambaCost
    <3>2. Cardinality(B) \in Nat
      BY <2>9
    <3>3. PartSequence(Mamba(c, Cardinality(B)), n, d, tp)
            = Cardinality(B) * PartSequence(Mamba(c, 1), n, d, tp)
      <4>1. win \in Nat
        BY <2>2
      <4>2. QED
        BY <3>2, <4>1, MambaCost
    <3>4. QED
      BY <2>4, <2>12, <3>1, <3>2, <3>3
  <2>15. \A i \in DOMAIN c.pattern : F[i] = SequenceBytes(IF i \in A THEN Single(v)
                                         ELSE IF i \in B THEN Single(w) ELSE <<>>, n, d, tp)
    BY <1>3, <2>5, <2>8
  <2>16. SequenceBytes(Kept(x) \o Kept(y), n, d, tp) = SumFunction(F)
    <3>1. PICK S : S = DOMAIN c.pattern
      OBVIOUS
    <3>2. IsFiniteSet(S) /\ A \in SUBSET S /\ B \in SUBSET S /\ DOMAIN F = S
      BY <1>3, <2>5, <2>9, <2>10, <3>1
    <3>3. \A i \in S : F[i] = SequenceBytes(IF i \in A THEN Single(v)
                                            ELSE IF i \in B THEN Single(w) ELSE <<>>, n, d, tp)
      BY <2>15, <3>1
    <3>4. QED
      BY <2>10, <2>11, <2>12, <2>13, <2>14, <3>2, <3>3, MixedCost
  <2>17. QED
    BY <1>2, <2>6, <2>16
<1>6. CASE c.rank = 0 /\ c.pattern = <<>> /\ c.types # <<>>
  <2>1. PICK A, B : A = {i \in DOMAIN c.types : c.types[i] = "full"}
                    /\ B = {i \in DOMAIN c.types : c.types[i] = "sliding"}
    OBVIOUS
  <2>2. PICK win : win = c.window /\ win \in Nat
    BY <1>1
  <2>3. PICK x, v : x = Heads(c, Cardinality(A), NoWindow) /\ v = Heads(c, 1, NoWindow)
    OBVIOUS
  <2>4. PICK y, w : y = Heads(c, Cardinality(B), win) /\ w = Heads(c, 1, win)
    OBVIOUS
  <2>5. LayersOf(c) = DOMAIN c.types
    <3>1. c.pattern \o c.types # <<>>
      BY <1>1, <1>6
    <3>2. QED
      BY <1>6, <3>1 DEF LayersOf
  <2>6. CacheSpec(c) = Kept(x) \o Kept(y)
    BY <1>6, <2>1, <2>2, <2>3, <2>4 DEF CacheSpec, Layout, Count
  <2>7. \A i \in DOMAIN c.types : i \in A \/ i \in B
    <3>1. Count("other", c.types) \in Nat /\ ~(Count("other", c.types) > 0)
      BY <1>1, <1>6, CountNatural DEF Unknown, Layout
    <3>2. \A i \in DOMAIN c.types : c.types[i] # "other"
      BY <1>1, <3>1, CountNatural
    <3>3. \A i \in DOMAIN c.types : c.types[i] \in {"full", "sliding", "other"}
      BY <1>1
    <3>4. QED
      BY <2>1, <3>2, <3>3
  <2>8. \A i \in DOMAIN c.types : LayerOf(c, i) = IF i \in A THEN Single(v) ELSE IF i \in B THEN Single(w) ELSE <<>>
    BY <1>6, <2>1, <2>2, <2>3, <2>4, <2>7 DEF LayerOf
  <2>9. IsFiniteSet(DOMAIN c.types) /\ Cardinality(A) \in Nat /\ Cardinality(B) \in Nat
    BY <1>1, <2>1, CountNatural DEF Count
  <2>10. A \in SUBSET DOMAIN c.types /\ B \in SUBSET DOMAIN c.types /\ A \cap B = {}
    BY <2>1
  <2>11. x.layers = Cardinality(A) /\ y.layers = Cardinality(B)
    BY <2>3, <2>4 DEF Heads, Attention, Mamba, Recurrent
  <2>12. PICK a, b : a = PartSequence(v, n, d, tp) /\ b = PartSequence(w, n, d, tp)
    OBVIOUS
  <2>13. a \in Nat /\ PartSequence(x, n, d, tp) = Cardinality(A) * a
    BY <1>1, <2>3, <2>9, <2>12, HeadsCost
  <2>14. b \in Nat /\ PartSequence(y, n, d, tp) = Cardinality(B) * b
    <3>1. b \in Nat
      BY <1>1, <2>2, <2>4, <2>9, <2>12, HeadsCost
    <3>2. Cardinality(B) \in Nat
      BY <2>9
    <3>3. PartSequence(Heads(c, Cardinality(B), win), n, d, tp)
            = Cardinality(B) * PartSequence(Heads(c, 1, win), n, d, tp)
      <4>1. win \in Nat
        BY <2>2
      <4>2. QED
        BY <3>2, <4>1, HeadsCost
    <3>4. QED
      BY <2>4, <2>12, <3>1, <3>2, <3>3
  <2>15. \A i \in DOMAIN c.types : F[i] = SequenceBytes(IF i \in A THEN Single(v)
                                         ELSE IF i \in B THEN Single(w) ELSE <<>>, n, d, tp)
    BY <1>3, <2>5, <2>8
  <2>16. SequenceBytes(Kept(x) \o Kept(y), n, d, tp) = SumFunction(F)
    <3>1. PICK S : S = DOMAIN c.types
      OBVIOUS
    <3>2. IsFiniteSet(S) /\ A \in SUBSET S /\ B \in SUBSET S /\ DOMAIN F = S
      BY <1>3, <2>5, <2>9, <2>10, <3>1
    <3>3. \A i \in S : F[i] = SequenceBytes(IF i \in A THEN Single(v)
                                            ELSE IF i \in B THEN Single(w) ELSE <<>>, n, d, tp)
      BY <2>15, <3>1
    <3>4. QED
      BY <2>10, <2>11, <2>12, <2>13, <2>14, <3>2, <3>3, MixedCost
  <2>17. QED
    BY <1>2, <2>6, <2>16
<1>7. CASE c.rank = 0 /\ c.pattern = <<>> /\ c.types = <<>>
  <2>1. PICK k, s : k = c.layers /\ s = IF c.disabled THEN NoWindow ELSE c.window
    OBVIOUS
  <2>2. k \in Nat /\ s \in Nat
    BY <1>1, <2>1
  <2>3. PICK x, y : x = Heads(c, k, s) /\ y = Heads(c, 1, s)
    OBVIOUS
  <2>4. CacheSpec(c) = Single(x)
    BY <1>7, <2>1, <2>3 DEF CacheSpec, Layout, NoWindow
  <2>5. LayersOf(c) = 1 .. k
    <3>1. c.pattern \o c.types = <<>>
      BY <1>7
    <3>2. QED
      BY <1>7, <2>1, <3>1 DEF LayersOf
  <2>6. \A i : LayerOf(c, i) = Single(y)
    BY <1>7, <2>1, <2>3 DEF LayerOf
  <2>7. PICK a : a = PartSequence(y, n, d, tp)
    OBVIOUS
  <2>8. a \in Nat
    BY <2>2, <2>3, <2>7, HeadsCost
  <2>9. PartSequence(x, n, d, tp) = k * a
    BY <2>2, <2>3, <2>7, HeadsCost
  <2>10. PICK S : S = 1 .. k
    OBVIOUS
  <2>11. SequenceBytes(Single(x), n, d, tp) = SumFunction(F)
    <3>1. IsFiniteSet(S) /\ Cardinality(S) = k
      BY <2>2, <2>10, FS_Interval
    <3>2. PartSequence(x, n, d, tp) = Cardinality(S) * a
      BY <2>9, <3>1
    <3>3. DOMAIN F = S /\ \A i \in S : F[i] = SequenceBytes(Single(y), n, d, tp)
      BY <1>3, <2>5, <2>6, <2>10
    <3>4. QED
      BY <2>7, <2>8, <3>1, <3>2, <3>3, AlikeCost
  <2>12. QED
    BY <1>2, <2>4, <2>11
<1>8. QED
  BY <1>1, <1>4, <1>5, <1>6, <1>7

-----------------------------------------------------------------------------
(* What is in hand once the weights are measured.                           *)
Measured ==
  /\ pc = "weights" => config \in Configs
  /\ pc \in {"estimate", "ready"} =>
       /\ config \in Configs
       /\ ~Refused(config) /\ ~Unknown(config)
       /\ model.cache = CacheSpec(config)
       /\ \E dense \in Dense, packed \in BOOLEAN :
            /\ measured.params = Counted(config, dense, packed)
            /\ measured.packed = packed
       /\ model.params = measured.params
       /\ model.active = ActiveParams(config, measured.params)

LEMMA MeasuredHolds == Spec => []Measured
<1>1. Init => Measured
  BY DEF Init, Measured
<1>2. Measured /\ [Next]_vars => Measured'
  <2> SUFFICES ASSUME Measured, [Next]_vars
               PROVE  Measured'
    OBVIOUS
  <2>1. CASE LoadSpec
    BY <2>1 DEF LoadSpec, Measured
  <2>2. CASE OpenNvml
    BY <2>2 DEF OpenNvml, Measured
  <2>3. CASE Query \/ QueryRaises \/ BuildLive
    BY <2>3 DEF Query, QueryRaises, BuildLive, Measured
  <2>4. CASE FetchConfig
    BY <2>4 DEF FetchConfig, Measured
  <2>5. CASE Measure
    <3>1. CASE pc' \in {"error", "traceback"}
      BY <3>1 DEF Measured
    <3>2. CASE pc' \notin {"error", "traceback"}
      <4>1. PICK dense \in Dense, packed \in BOOLEAN :
              LET m == [ params |-> Counted(config, dense, packed), packed |-> packed,
                         bytes  |-> 2 * Counted(config, dense, packed) ] IN
              measured' = m /\ pc' = "estimate" /\ ~Refused(config)
                /\ ~Unknown(config) /\ model' = ProfileOf(config, m)
        BY <2>5, <3>2 DEF Measure
      <4>2. config' = config /\ config \in Configs
        BY <2>5 DEF Measure, Measured
      <4>3. /\ measured'.params = Counted(config, dense, packed)
            /\ measured'.packed = packed
        BY <4>1
      <4>4. /\ model'.params = measured'.params
            /\ model'.active = ActiveParams(config, measured'.params)
        BY <4>1 DEF ProfileOf
      <4>5. ~Refused(config) /\ ~Unknown(config) /\ pc' = "estimate"
        BY <4>1
      <4>6. model'.cache = CacheSpec(config)
        BY <4>1 DEF ProfileOf
      <4> QED
        BY <4>2, <4>3, <4>4, <4>5, <4>6 DEF Measured, Unknown, Refused
    <3> QED
      BY <3>1, <3>2
  <2>6. CASE Estimate
    BY <2>6 DEF Estimate, Measured
  <2>7. CASE Interrupt
    BY <2>7 DEF Interrupt, Measured
  <2>8. CASE Ended \/ UNCHANGED vars
    BY <2>8 DEF Ended, vars, Measured
  <2> QED
    BY <2>1, <2>2, <2>3, <2>4, <2>5, <2>6, <2>7, <2>8 DEF Next, FindGpu
<1> QED
  BY <1>1, <1>2, PTL DEF Spec

(* For every config the roofline is given an active parameter count that    *)
(* covers what a token passes through and does not exceed the total         *)
(* (_estimate_active_params in models/hf.py).                               *)
THEOREM ActiveCovered == Spec => []ActiveCovers
<1>1. Measured => ActiveCovers
  <2> SUFFICES ASSUME Measured, pc = "ready"
               PROVE  /\ model.active \in 1..model.params
                      /\ ~measured.packed =>
                           model.params - model.active <=
                             IF IsMoe(config)
                             THEN ExpertLayers(config) * (config.moe.experts - config.moe.topk)
                                    * ExpertSize(config)
                             ELSE 0
    BY DEF ActiveCovers
  <2>1. PICK dense \in Dense, packed \in BOOLEAN :
          measured.params = Counted(config, dense, packed) /\ measured.packed = packed
    BY DEF Measured
  <2>2. /\ config \in Configs /\ ~Refused(config)
        /\ model.params = measured.params
        /\ model.active = ActiveParams(config, measured.params)
    BY DEF Measured
  <2>3. model.active \in 1..model.params
    BY <2>1, <2>2, CountPositive, ActiveInRange
  <2>4. ASSUME ~measured.packed
        PROVE  model.params - model.active <=
                 IF IsMoe(config)
                 THEN ExpertLayers(config) * (config.moe.experts - config.moe.topk)
                        * ExpertSize(config)
                 ELSE 0
    <3>1. measured.params = Parameters(config, dense)
      BY <2>1, <2>4 DEF Counted
    <3>2. CASE IsMoe(config)
      <4>1. config.moe.topk <= config.moe.experts
        BY <2>2, <3>2, ConfigsAssumption DEF Refused
      <4> QED
        BY <2>2, <3>1, <4>1, SkippedBounded
    <3>3. CASE ~IsMoe(config)
      <4>1. model.active = model.params
        BY <2>2, <3>3 DEF ActiveParams
      <4>2. model.params \in Nat
        BY <2>1, <2>2, CountPositive
      <4> QED
        BY <3>3, <4>1, <4>2
    <3> QED
      BY <3>2, <3>3
  <2> QED
    BY <2>3, <2>4
<1> QED
  BY <1>1, MeasuredHolds, PTL

(* For every config, tensor-parallel degree, dtype and length the run asks   *)
(* about, the cache of a profile costs what its layers cost one by one      *)
(* (build_cache_spec in models/hf.py): counting the layers of a kind loses   *)
(* none and adds none.                                                      *)
THEOREM EveryLayerCounted == Spec => []CacheCountsEveryLayer
<1>1. Measured => CacheCountsEveryLayer
  <2> SUFFICES ASSUME Measured, pc = "ready",
                      NEW n \in {1, 3, 9}, NEW dtype \in KvDtypes, NEW tp \in {1, 2}
               PROVE  SequenceBytes(model.cache, n, dtype, tp)
                        = SumFunction([i \in LayersOf(config) |->
                                         SequenceBytes(LayerOf(config, i), n, dtype, tp)])
    BY DEF CacheCountsEveryLayer
  <2>1. config \in Configs /\ ~Unknown(config) /\ model.cache = CacheSpec(config)
    BY DEF Measured
  <2>2. n \in Nat /\ tp \in Positive
    BY DEF Positive
  <2>3. PICK c : c = config
    OBVIOUS
  <2>4. c \in Configs /\ ~Unknown(c)
    BY <2>1, <2>3
  <2>5. SequenceBytes(CacheSpec(c), n, dtype, tp)
          = SumFunction([i \in LayersOf(c) |-> SequenceBytes(LayerOf(c, i), n, dtype, tp)])
    BY <2>2, <2>4, LayersCost
  <2> QED
    BY <2>1, <2>3, <2>5
<1> QED
  BY <1>1, MeasuredHolds, PTL
=============================================================================
