---------------------------- MODULE LaunchProofs ----------------------------
(* Theorems about Launch, for every request and every engine: that plans    *)
(* reconcile, that the headroom is what fits and is found cheaply, that the *)
(* constraint named is the one that binds, that re-deriving is safe, and    *)
(* that the engine started from a plan honours it.                          *)
EXTENDS Launch, Sums

(* Arithmetic.                                                              *)

LEMMA Multiplied ==
  ASSUME NEW a \in Int, NEW b \in Int, NEW c \in Nat, a <= b
  PROVE  a * c <= b * c /\ c * a <= c * b
OBVIOUS

LEMMA Divided ==
  ASSUME NEW a \in Int, NEW b \in Int, NEW p \in Nat \ {0}
  PROVE  a * p <= b <=> a <= b \div p
OBVIOUS

LEMMA Bytewise ==
  ASSUME NEW n \in Nat
  PROVE  BytesFor(n, "fp8") = n /\ BytesFor(n, "bf16") = 2 * n
BY DEF BytesFor, CeilDiv, Bits

(* What is split over the GPUs is all there, and some of it on each.        *)
LEMMA Shares ==
  ASSUME NEW n \in Positive, NEW tp \in Positive
  PROVE  CeilDiv(n, tp) \in Positive /\ n <= tp * CeilDiv(n, tp) /\ CeilDiv(n, 1) = n
<1> DEFINE q == CeilDiv(n, tp)
<1>1. q = (n + tp - 1) \div tp
  BY DEF CeilDiv
<1>2. q \in Int /\ tp * q <= n + tp - 1 /\ n + tp - 1 < tp * q + tp
  BY <1>1 DEF Positive
<1>3. n <= tp * q /\ tp * q \in Int
  BY <1>2 DEF Positive
<1>4. q > 0
  BY <1>2, <1>3 DEF Positive
<1>5. CeilDiv(n, 1) = n
  BY DEF CeilDiv, Positive
<1>6. QED
  BY <1>2, <1>3, <1>4, <1>5 DEF Positive

LEMMA ProductPositive ==
  ASSUME NEW a \in Positive, NEW b \in Positive
  PROVE  a * b \in Positive /\ a + b \in Positive
BY DEF Positive

LEMMA ProductNatural ==
  ASSUME NEW a \in Nat, NEW b \in Nat
  PROVE  a * b \in Nat
OBVIOUS

LEMMA Spread ==
  ASSUME NEW a \in Nat, NEW b \in Nat, NEW c \in Nat, NEW tp \in Nat, a <= tp * b
  PROVE  a * c <= tp * (b * c)
<1>1. tp * b \in Nat /\ a * c <= (tp * b) * c
  BY Multiplied
<1>2. (tp * b) * c = tp * (b * c)
  OBVIOUS
<1>3. QED
  BY <1>1, <1>2

(* What a part keeps of every token, on each GPU and on all of them.        *)
LEMMA TokenBytes ==
  ASSUME NEW p, Part(p), NEW d \in KvDtypes, NEW tp \in Positive
  PROVE  /\ KvBytesPerToken(p, d, tp) \in Nat
         /\ p.kind # "recurrent" => KvBytesPerToken(p, d, tp) \in Positive
         /\ KvBytesPerToken(p, d, 1) <= tp * KvBytesPerToken(p, d, tp)
<1>0. 1 \in Positive /\ d \in {"bf16", "fp8"}
  BY DEF Positive, KvDtypes
<1>1. CASE p.kind = "attention"
  <2> DEFINE h(t) == KvHeadsPerGpu(p, t)
             n(t) == 2 * h(t) * p.dim * p.layers
  <2>1. p.heads \in Positive /\ p.dim \in Positive /\ p.layers \in Positive
    BY <1>1 DEF Part
  <2>2. h(tp) \in Positive /\ h(1) = p.heads /\ h(1) <= tp * h(tp)
    BY <2>1, Shares DEF KvHeadsPerGpu
  <2>3. \A t : KvBytesPerToken(p, d, t) = BytesFor(n(t), d)
    BY <1>1 DEF KvBytesPerToken
  <2> DEFINE m == p.dim * p.layers
  <2>4. m \in Positive
    BY <2>1, ProductPositive
  <2>5. \A t \in {1, tp} : h(t) \in Positive /\ n(t) = 2 * (h(t) * m)
    <3> SUFFICES ASSUME NEW t \in {1, tp}
                 PROVE  h(t) \in Positive /\ n(t) = 2 * (h(t) * m)
      OBVIOUS
    <3>1. h(t) \in Positive
      BY <2>1, <2>2
    <3> HIDE DEF h
    <3>2. QED
      BY <2>1, <3>1 DEF Positive
  <2>6. h(1) * m <= tp * (h(tp) * m) /\ h(tp) * m \in Positive /\ h(1) * m \in Positive
    <3> HIDE DEF h, m
    <3>1. QED
      BY <2>2, <2>4, <2>5, Spread, ProductPositive DEF Positive
  <2> HIDE DEF h, m, n
  <2>7. \A t \in {1, tp} : n(t) \in Nat
    BY <2>5, <2>6 DEF Positive
  <2>8. CASE d = "fp8"
    BY <2>3, <2>5, <2>6, <2>7, <2>8, Bytewise DEF Positive
  <2>9. CASE d = "bf16"
    <3>1. \A t \in {1, tp} : KvBytesPerToken(p, d, t) = 2 * (2 * (h(t) * m))
      BY <2>3, <2>5, <2>7, <2>9, Bytewise
    <3>2. QED
      BY <2>6, <3>1 DEF Positive
  <2>10. QED
    BY <1>0, <2>8, <2>9
<1>2. CASE p.kind = "mla"
  <2>1. p.rank \in Positive /\ p.rope \in Positive /\ p.layers \in Positive
    BY <1>2 DEF Part
  <2> DEFINE k == IF d = "fp8" THEN p.rank + 2 * p.rope + 16 ELSE 2 * (p.rank + p.rope)
  <2>2. k \in Positive
    BY <2>1 DEF Positive
  <2>3. \A t : KvBytesPerToken(p, d, t) = k * p.layers
    <3>1. BytesFor(p.rank + p.rope, "bf16") = 2 * (p.rank + p.rope)
      BY <2>1, Bytewise DEF Positive
    <3>2. QED
      BY <1>0, <1>2, <3>1 DEF KvBytesPerToken
  <2> HIDE DEF k
  <2>4. k * p.layers \in Positive
    BY <2>1, <2>2, ProductPositive
  <2>5. QED
    BY <2>3, <2>4 DEF Positive
<1>3. CASE p.kind = "recurrent"
  BY <1>3 DEF KvBytesPerToken, Positive
<1>4. QED
  BY <1>1, <1>2, <1>3 DEF Part

(* The state of a part, the same.                                           *)
LEMMA StateSize ==
  ASSUME NEW p, Part(p), p.kind = "recurrent", NEW tp \in Positive
  PROVE  /\ \A d \in KvDtypes :
              StateBytes(p, d, tp) \in Nat /\ StateBytes(p, d, 1) <= tp * StateBytes(p, d, tp)
         /\ StateBytes(p, "bf16", tp) = 2 * StateBytes(p, "fp8", tp)
<1> DEFINE e(t) == ((CeilDiv(p.inner, t) + 2 * CeilDiv(p.groups, t) * p.state) * p.conv
                      + CeilDiv(p.inner, t) * p.state) * p.layers
<1>1. /\ p.inner \in Positive /\ p.groups \in Positive /\ p.state \in Positive
      /\ p.conv \in Positive /\ p.layers \in Positive
  BY DEF Part
<1>2. /\ CeilDiv(p.inner, tp) \in Nat /\ CeilDiv(p.groups, tp) \in Nat
      /\ CeilDiv(p.inner, 1) = p.inner /\ CeilDiv(p.groups, 1) = p.groups
      /\ p.inner <= tp * CeilDiv(p.inner, tp) /\ p.groups <= tp * CeilDiv(p.groups, tp)
  BY <1>1, Shares DEF Positive
<1>3. e(1) \in Nat /\ e(tp) \in Nat /\ e(1) <= tp * e(tp)
  <2> DEFINE i == CeilDiv(p.inner, tp)
             g == CeilDiv(p.groups, tp)
             a == 2 * g * p.state
             b == 2 * p.groups * p.state
             x == (i + a) * p.conv + i * p.state
             y == (p.inner + b) * p.conv + p.inner * p.state
  <2>1. i \in Nat /\ g \in Nat /\ p.inner \in Nat /\ p.groups \in Nat /\ p.state \in Nat
        /\ p.conv \in Nat /\ p.layers \in Nat /\ tp \in Nat
    BY <1>1, <1>2 DEF Positive
  <2>2. p.inner <= tp * i /\ p.groups <= tp * g
    BY <1>2
  <2>3. e(tp) = x * p.layers /\ e(1) = y * p.layers
    BY <1>2
  <2> HIDE DEF i, g, e
  <2>4. a \in Nat /\ b \in Nat /\ b <= tp * a
    <3>1. 2 * p.groups <= tp * (2 * g) /\ 2 * g \in Nat /\ 2 * p.groups \in Nat
      BY <2>1, <2>2
    <3>2. QED
      BY <2>1, <3>1, Spread, ProductNatural
  <2> HIDE DEF a, b
  <2>5. p.inner + b <= tp * (i + a)
    BY <2>1, <2>2, <2>4
  <2>6. (p.inner + b) * p.conv <= tp * ((i + a) * p.conv)
    BY <2>1, <2>4, <2>5, Spread
  <2>7. p.inner * p.state <= tp * (i * p.state)
    BY <2>1, <2>2, Spread
  <2>8. x \in Nat /\ y \in Nat /\ y <= tp * x
    <3> DEFINE u == (i + a) * p.conv
               v == i * p.state
               w == (p.inner + b) * p.conv
               z == p.inner * p.state
    <3>1. u \in Nat /\ v \in Nat /\ w \in Nat /\ z \in Nat
      BY <2>1, <2>4, ProductNatural
    <3>2. w <= tp * u /\ z <= tp * v /\ x = u + v /\ y = w + z
      BY <2>6, <2>7
    <3> HIDE DEF u, v, w, z, x, y
    <3>3. QED
      BY <2>1, <3>1, <3>2
  <2> HIDE DEF x, y
  <2>9. QED
    BY <2>1, <2>3, <2>8, Spread, ProductNatural
<1>4. \A d, t : StateBytes(p, d, t) = BytesFor(e(t), d)
  BY DEF StateBytes
<1> HIDE DEF e
<1>5. \A t \in {1, tp} : StateBytes(p, "fp8", t) = e(t) /\ StateBytes(p, "bf16", t) = 2 * e(t)
  BY <1>3, <1>4, Bytewise
<1>6. 2 * e(1) <= tp * (2 * e(tp)) /\ 2 * e(tp) \in Nat
  BY <1>3 DEF Positive
<1>7. QED
  BY <1>3, <1>5, <1>6 DEF KvDtypes

-----------------------------------------------------------------------------
(* Costs by part, added up over a cache.                                    *)
Cache(c) == c \in Seq(Range(c)) /\ \A i \in DOMAIN c : Part(c[i])

LEMMA CacheFinite ==
  ASSUME NEW c, Cache(c)
  PROVE  IsFiniteSet(DOMAIN c)
<1>1. PICK n \in Nat : DOMAIN c = 1 .. n
  BY DEF Cache
<1>2. QED
  BY <1>1, FS_Interval

LEMMA PartCosts ==
  ASSUME NEW p, Part(p), NEW d \in KvDtypes, NEW tp \in Positive
  PROVE  /\ PartFixed(p, d, tp) \in Nat
         /\ PartMarginal(p, d, tp) \in Nat
         /\ \A n \in Nat : PartSequence(p, n, d, tp) \in Nat
         /\ ~Windowed(p) => \A n \in Nat :
              PartSequence(p, n, d, tp) = PartFixed(p, d, tp) + n * PartMarginal(p, d, tp)
         /\ ~Windowed(p) /\ p.kind # "recurrent" => PartMarginal(p, d, tp) \in Positive
<1>1. CASE p.kind = "recurrent"
  <2>1. StateBytes(p, d, tp) \in Nat
    BY <1>1, StateSize
  <2>2. KvBytesPerToken(p, d, tp) = 0 /\ ~Windowed(p)
    BY <1>1 DEF KvBytesPerToken, Windowed
  <2>3. QED
    BY <1>1, <2>1, <2>2 DEF PartFixed, PartMarginal, PartSequence
<1>2. CASE p.kind # "recurrent"
  <2> DEFINE k == KvBytesPerToken(p, d, tp)
  <2>1. k \in Positive /\ k \in Nat
    BY <1>2, TokenBytes
  <2>2. ASSUME NEW n \in Nat PROVE PartSequence(p, n, d, tp) \in Nat
    <3>1. Windowed(p) => p.window \in Nat
      BY DEF Windowed, Part
    <3> DEFINE s == IF Windowed(p) THEN Smaller(n, p.window) ELSE n
    <3>2. s \in Nat
      BY <3>1 DEF Smaller
    <3>3. PartSequence(p, n, d, tp) = s * k
      BY <1>2 DEF PartSequence
    <3> HIDE DEF s, k
    <3>4. QED
      BY <2>1, <3>2, <3>3, ProductNatural
  <2>3. PartFixed(p, d, tp) = 0 /\ PartMarginal(p, d, tp) = IF Windowed(p) THEN 0 ELSE k
    BY <1>2 DEF PartFixed, PartMarginal
  <2>4. ~Windowed(p) => \A n \in Nat : PartSequence(p, n, d, tp) = n * k
    BY <1>2 DEF PartSequence
  <2> HIDE DEF k
  <2>5. \A n \in Nat : n * k \in Nat /\ 0 + n * k = n * k
    BY <2>1, ProductNatural
  <2>6. QED
    BY <2>1, <2>2, <2>3, <2>4, <2>5
<1>3. QED
  BY <1>1, <1>2

LEMMA CacheCosts ==
  ASSUME NEW c, Cache(c), NEW d \in KvDtypes, NEW tp \in Positive
  PROVE  /\ FixedBytesPerSequence(c, d, tp) \in Nat
         /\ MarginalBytesPerToken(c, d, tp) \in Nat
         /\ \A n \in Nat : SequenceBytes(c, n, d, tp) \in Nat
         /\ \A n \in Nat : SequenceBytes(c, n, d, tp)
              = SumOf([i \in DOMAIN c |-> PartSequence(c[i], n, d, tp)], DOMAIN c)
         /\ FixedBytesPerSequence(c, d, tp)
              = SumOf([i \in DOMAIN c |-> PartFixed(c[i], d, tp)], DOMAIN c)
         /\ MarginalBytesPerToken(c, d, tp)
              = SumOf([i \in DOMAIN c |-> PartMarginal(c[i], d, tp)], DOMAIN c)
<1>1. IsFiniteSet(DOMAIN c)
  BY CacheFinite
<1>2. ASSUME NEW f, DOMAIN f = DOMAIN c, \A i \in DOMAIN c : f[i] \in Nat
      PROVE  SumFunction(f) \in Nat /\ SumFunction(f) = SumOf(f, DOMAIN c)
  <2>1. Numbers(f, DOMAIN f)
    BY <1>2 DEF Numbers
  <2>2. QED
    BY <1>1, <1>2, <2>1, SumFunctionIsSum, SumNatural
<1>3. \A i \in DOMAIN c :
        /\ PartFixed(c[i], d, tp) \in Nat /\ PartMarginal(c[i], d, tp) \in Nat
        /\ \A n \in Nat : PartSequence(c[i], n, d, tp) \in Nat
  BY PartCosts DEF Cache
<1>4. QED
  BY <1>2, <1>3 DEF FixedBytesPerSequence, MarginalBytesPerToken, SequenceBytes

(* Without windows a sequence costs its state and so much for every token.  *)
LEMMA WindowlessCosts ==
  ASSUME NEW c, Cache(c), Windowless(c), NEW d \in KvDtypes, NEW tp \in Positive
  PROVE  /\ \A n \in Nat : SequenceBytes(c, n, d, tp)
              = FixedBytesPerSequence(c, d, tp) + n * MarginalBytesPerToken(c, d, tp)
         /\ PageBytes(c, d, tp) = MarginalBytesPerToken(c, d, tp)
         /\ ScalesWithContext(c) => MarginalBytesPerToken(c, d, tp) \in Positive
         /\ ~ScalesWithContext(c) => MarginalBytesPerToken(c, d, tp) = 0
<1> DEFINE D == DOMAIN c
           s(n) == [i \in D |-> PartSequence(c[i], n, d, tp)]
           f == [i \in D |-> PartFixed(c[i], d, tp)]
           m == [i \in D |-> PartMarginal(c[i], d, tp)]
           g == [i \in D |-> IF c[i].kind = "recurrent" THEN 0 ELSE PartSequence(c[i], 1, d, tp)]
<1>1. IsFiniteSet(D) /\ \A i \in D : Part(c[i]) /\ ~Windowed(c[i])
  BY CacheFinite DEF Cache, Windowless
<1>2. \A i \in D :
        /\ f[i] \in Nat /\ m[i] \in Nat
        /\ \A n \in Nat : s(n)[i] \in Nat /\ s(n)[i] = f[i] + n * m[i]
        /\ c[i].kind # "recurrent" => m[i] \in Positive
        /\ c[i].kind = "recurrent" => m[i] = 0
        /\ g[i] = m[i]
  <2> SUFFICES ASSUME NEW i \in D
               PROVE  /\ f[i] \in Nat /\ m[i] \in Nat
                      /\ \A n \in Nat : s(n)[i] \in Nat /\ s(n)[i] = f[i] + n * m[i]
                      /\ c[i].kind # "recurrent" => m[i] \in Positive
                      /\ c[i].kind = "recurrent" => m[i] = 0
                      /\ g[i] = m[i]
    OBVIOUS
  <2>1. /\ f[i] \in Nat /\ m[i] \in Nat
        /\ \A n \in Nat : s(n)[i] \in Nat /\ s(n)[i] = f[i] + n * m[i]
        /\ c[i].kind # "recurrent" => m[i] \in Positive
    BY <1>1, PartCosts
  <2>2. c[i].kind = "recurrent" => m[i] = 0
    BY DEF PartMarginal, KvBytesPerToken
  <2>3. c[i].kind # "recurrent" => g[i] = m[i]
    <3>1. c[i].kind # "recurrent" => f[i] = 0
      BY DEF PartFixed
    <3>2. c[i].kind # "recurrent" => g[i] = s(1)[i]
      OBVIOUS
    <3>3. s(1)[i] = f[i] + 1 * m[i]
      BY <2>1
    <3> HIDE DEF f, g, m, s
    <3>4. QED
      BY <2>1, <3>1, <3>2, <3>3
  <2>4. QED
    BY <2>1, <2>2, <2>3
<1>3. /\ \A n \in Nat : SequenceBytes(c, n, d, tp) = SumOf(s(n), D)
      /\ FixedBytesPerSequence(c, d, tp) = SumOf(f, D)
      /\ MarginalBytesPerToken(c, d, tp) = SumOf(m, D)
  BY CacheCosts
<1>4. PageBytes(c, d, tp) = SumFunction(g) /\ DOMAIN g = D
  BY DEF PageBytes
<1> HIDE DEF s, f, m, g
<1>5. Numbers(f, D) /\ Numbers(m, D) /\ Numbers(g, D)
  BY <1>2 DEF Numbers
<1>6. \A n \in Nat : SumOf(s(n), D) = SumOf(f, D) + n * SumOf(m, D)
  BY <1>1, <1>2, <1>5, SumLinear
<1>7. SumFunction(g) = SumOf(m, D)
  BY <1>1, <1>2, <1>4, <1>5, SumFunctionIsSum, SumAlike
<1>8. ScalesWithContext(c) => SumOf(m, D) \in Positive
  <2> SUFFICES ASSUME NEW i \in D, c[i].kind # "recurrent" PROVE SumOf(m, D) \in Positive
    BY DEF ScalesWithContext
  <2>1. m[i] \in Positive /\ m[i] <= SumOf(m, D) /\ SumOf(m, D) \in Nat
    BY <1>1, <1>2, SumNatural
  <2>2. QED
    BY <2>1 DEF Positive
<1>9. ~ScalesWithContext(c) => SumOf(m, D) = 0
  <2> SUFFICES ASSUME ~ScalesWithContext(c) PROVE SumOf(m, D) = 0
    OBVIOUS
  <2>1. \A i \in D : m[i] = 0 * m[i]
    BY <1>2 DEF ScalesWithContext
  <2>2. SumOf(m, D) = 0 * SumOf(m, D)
    BY <1>1, <1>5, <2>1, SumTimes
  <2>3. QED
    BY <1>1, <1>5, <2>2, SumStep
<1>10. QED
  BY <1>3, <1>4, <1>6, <1>7, <1>8, <1>9

(* The GPUs together hold a sequence whole.                                 *)
LEMMA GpusHoldSequence ==
  ASSUME NEW c, Cache(c), NEW d \in KvDtypes, NEW tp \in Positive, NEW n \in Nat
  PROVE  SequenceBytes(c, n, d, 1) <= tp * SequenceBytes(c, n, d, tp)
<1> DEFINE D == DOMAIN c
           one == [i \in D |-> PartSequence(c[i], n, d, 1)]
           each == [i \in D |-> PartSequence(c[i], n, d, tp)]
           all == [i \in D |-> tp * each[i]]
<1>0. IsFiniteSet(D) /\ 1 \in Positive /\ tp \in Nat /\ \A i \in D : Part(c[i])
  BY CacheFinite DEF Cache, Positive
<1>1. ASSUME NEW i \in D
      PROVE  one[i] \in Nat /\ each[i] \in Nat /\ one[i] <= tp * each[i]
  <2>1. one[i] \in Nat /\ each[i] \in Nat
    BY <1>0, PartCosts
  <2>2. CASE c[i].kind = "recurrent"
    <3>1. StateBytes(c[i], d, 1) <= tp * StateBytes(c[i], d, tp)
      BY <1>0, <2>2, StateSize
    <3>2. one[i] = StateBytes(c[i], d, 1) /\ each[i] = StateBytes(c[i], d, tp)
      BY <2>2 DEF PartSequence
    <3>3. QED
      BY <2>1, <3>1, <3>2
  <2>3. CASE c[i].kind # "recurrent"
    <3> DEFINE l == IF Windowed(c[i]) THEN Smaller(n, c[i].window) ELSE n
               k(t) == KvBytesPerToken(c[i], d, t)
    <3>1. l \in Nat
      BY <1>0 DEF Windowed, Smaller, Part
    <3>2. k(1) \in Nat /\ k(tp) \in Nat /\ k(1) <= tp * k(tp)
      BY <1>0, TokenBytes
    <3>3. one[i] = l * k(1) /\ each[i] = l * k(tp)
      BY <2>3 DEF PartSequence
    <3> HIDE DEF l, k, one, each
    <3>4. k(1) * l <= tp * (k(tp) * l)
      BY <1>0, <3>1, <3>2, Spread
    <3>5. k(1) * l = l * k(1) /\ k(tp) * l = l * k(tp)
      BY <3>1, <3>2
    <3>6. QED
      BY <2>1, <3>3, <3>4, <3>5
  <2>4. QED
    BY <2>1, <2>2, <2>3
<1>2. SequenceBytes(c, n, d, 1) = SumOf(one, D) /\ SequenceBytes(c, n, d, tp) = SumOf(each, D)
  BY <1>0, CacheCosts
<1>3. \A i \in D : all[i] = tp * each[i]
  OBVIOUS
<1> HIDE DEF one, each, all
<1>4. Numbers(one, D) /\ Numbers(each, D) /\ Numbers(all, D) /\ \A i \in D : one[i] <= all[i] /\ all[i] >= 0
  BY <1>0, <1>1, <1>3, ProductNatural DEF Numbers
<1>5. SumOf(all, D) = tp * SumOf(each, D)
  BY <1>0, <1>3, <1>4, SumTimes
<1>6. SumOf(one, D) <= SumOf(all, D)
  <2>1. D \in SUBSET D
    OBVIOUS
  <2>2. QED
    BY <1>0, <1>4, <2>1, SumMonotone
<1>7. QED
  BY <1>2, <1>5, <1>6

(* The same cache in 8 bits: half the state, no more for any token as long  *)
(* as the latent outweighs its 16 bytes of scales.                          *)
Latent(c) == \A i \in DOMAIN c : c[i].kind = "mla" => c[i].rank >= 16

LEMMA Narrowed ==
  ASSUME NEW c, Cache(c), NEW tp \in Positive
  PROVE  /\ FixedBytesPerSequence(c, "bf16", tp) = 2 * FixedBytesPerSequence(c, "fp8", tp)
         /\ Latent(c) => CacheBytesPerToken(c, "fp8", tp) <= CacheBytesPerToken(c, "bf16", tp)
<1> DEFINE D == DOMAIN c
           f8 == [i \in D |-> PartFixed(c[i], "fp8", tp)]
           f16 == [i \in D |-> PartFixed(c[i], "bf16", tp)]
           m8 == [i \in D |-> PartMarginal(c[i], "fp8", tp)]
           m16 == [i \in D |-> PartMarginal(c[i], "bf16", tp)]
<1>0. IsFiniteSet(D) /\ "fp8" \in KvDtypes /\ "bf16" \in KvDtypes /\ \A i \in D : Part(c[i])
  BY CacheFinite DEF Cache, KvDtypes
<1>1. ASSUME NEW i \in D
      PROVE  /\ f8[i] \in Nat /\ f16[i] \in Nat /\ m8[i] \in Nat /\ m16[i] \in Nat
             /\ f16[i] = 2 * f8[i]
             /\ Latent(c) => m8[i] <= m16[i]
  <2>1. f8[i] \in Nat /\ f16[i] \in Nat /\ m8[i] \in Nat /\ m16[i] \in Nat
    BY <1>0, PartCosts
  <2>2. f16[i] = 2 * f8[i]
    <3>1. CASE c[i].kind = "recurrent"
      BY <1>0, <3>1, StateSize DEF PartFixed
    <3>2. CASE c[i].kind # "recurrent"
      BY <3>2 DEF PartFixed
    <3>3. QED
      BY <3>1, <3>2
  <2>3. ASSUME Latent(c) PROVE m8[i] <= m16[i]
    <3>1. CASE Windowed(c[i]) \/ c[i].kind = "recurrent"
      BY <3>1 DEF PartMarginal, KvBytesPerToken
    <3>2. CASE c[i].kind = "attention" /\ ~Windowed(c[i])
      <4> DEFINE h == KvHeadsPerGpu(c[i], tp)
                 n == 2 * h * c[i].dim * c[i].layers
      <4>1. c[i].heads \in Positive /\ c[i].dim \in Positive /\ c[i].layers \in Positive
        BY <1>0, <3>2 DEF Part
      <4>2. h \in Positive
        BY <4>1, Shares DEF KvHeadsPerGpu
      <4>3. n \in Nat
        <5>1. 2 * h \in Nat /\ c[i].dim \in Nat /\ c[i].layers \in Nat
          BY <4>1, <4>2 DEF Positive
        <5> HIDE DEF h
        <5>2. QED
          BY <5>1, ProductNatural
      <4>4. m8[i] = BytesFor(n, "fp8") /\ m16[i] = BytesFor(n, "bf16")
        BY <3>2 DEF PartMarginal, KvBytesPerToken
      <4> HIDE DEF n
      <4>5. QED
        BY <4>3, <4>4, Bytewise
    <3>3. CASE c[i].kind = "mla"
      <4>1. /\ c[i].rank \in Positive /\ c[i].rope \in Positive /\ c[i].layers \in Positive
            /\ c[i].rank >= 16
        BY <1>0, <2>3, <3>3 DEF Part, Latent
      <4> DEFINE a == c[i].rank + 2 * c[i].rope + 16
                 b == 2 * (c[i].rank + c[i].rope)
      <4>2. BytesFor(c[i].rank + c[i].rope, "bf16") = b
        BY <4>1, Bytewise DEF Positive
      <4>3. m8[i] = a * c[i].layers /\ m16[i] = b * c[i].layers
        BY <3>3, <4>2 DEF PartMarginal, KvBytesPerToken, Windowed
      <4>4. a \in Nat /\ b \in Nat /\ a <= b /\ c[i].layers \in Nat
        BY <4>1 DEF Positive
      <4> HIDE DEF a, b
      <4>5. QED
        BY <4>3, <4>4, Multiplied
    <3>4. QED
      BY <1>0, <3>1, <3>2, <3>3 DEF Part
  <2>4. QED
    BY <2>1, <2>2, <2>3
<1>2. /\ FixedBytesPerSequence(c, "fp8", tp) = SumOf(f8, D)
      /\ FixedBytesPerSequence(c, "bf16", tp) = SumOf(f16, D)
      /\ MarginalBytesPerToken(c, "fp8", tp) = SumOf(m8, D)
      /\ MarginalBytesPerToken(c, "bf16", tp) = SumOf(m16, D)
  BY <1>0, CacheCosts
<1> HIDE DEF f8, f16, m8, m16
<1>3. Numbers(f8, D) /\ Numbers(f16, D) /\ Numbers(m8, D) /\ Numbers(m16, D)
  BY <1>1 DEF Numbers
<1>4. SumOf(f16, D) = 2 * SumOf(f8, D)
  BY <1>0, <1>1, <1>3, SumTimes
<1>5. Latent(c) => SumOf(m8, D) <= SumOf(m16, D)
  <2>1. D \in SUBSET D
    OBVIOUS
  <2>2. QED
    BY <1>0, <1>1, <1>3, <2>1, SumMonotone
<1>6. SumOf(m8, D) \in Int /\ SumOf(m16, D) \in Int
  BY <1>0, <1>3, SumStep
<1>7. QED
  BY <1>2, <1>4, <1>5, <1>6 DEF CacheBytesPerToken, Larger

(* The terms of a plan are natural numbers, whatever is asked for.          *)
LEMMA Terms ==
  ASSUME NEW r, WellPosed(r)
  PROVE  /\ Cache(r.model.cache) /\ r.tp \in Positive /\ r.kv \in KvDtypes
         /\ r.gpu.usable \in Nat /\ r.gpu.total \in Positive /\ r.gpu.usable <= r.gpu.total
         /\ r.length \in Nat /\ r.seqs \in Nat /\ r.maxlen \in Nat /\ r.skew \in Int
         /\ Weights(r) \in Nat /\ Safety(r) \in Nat
         /\ Overheads(r).graph \in Nat /\ Overheads(r).workspace \in Nat
         /\ Overheads(r).prefill \in Nat /\ Overheads(r).logits \in Nat
         /\ FixedPerSequence(r) \in Nat /\ RecurrentState(r) \in Nat
         /\ PerToken(r) \in Positive
         /\ KvBudget(r) \in Int
<1>1. /\ Cache(r.model.cache) /\ r.tp \in Positive /\ r.kv \in KvDtypes
      /\ r.gpu.usable \in Nat /\ r.gpu.total \in Positive /\ r.gpu.usable <= r.gpu.total
      /\ r.length \in Nat /\ r.seqs \in Nat /\ r.maxlen \in Nat /\ r.skew \in Int
      /\ r.model.weights \in Nat /\ r.model.hidden \in Nat /\ r.model.intermediate \in Nat
      /\ r.model.vocab \in Nat /\ r.eager \in BOOLEAN
  BY DEF WellPosed, Cache, Positive
<1>2. FixedPerSequence(r) \in Nat /\ MarginalBytesPerToken(r.model.cache, r.kv, r.tp) \in Nat
  BY <1>1, CacheCosts DEF FixedPerSequence
<1>3. PerToken(r) \in Positive
  BY <1>2 DEF PerToken, CacheBytesPerToken, Larger, Positive
<1>4. RecurrentState(r) \in Nat
  BY <1>1, <1>2, ProductNatural DEF RecurrentState
<1>5. Weights(r) \in Nat
  <2> DEFINE w == r.model.weights
             t == r.tp
  <2>1. w \in Nat /\ t \in Nat \ {0}
    BY <1>1 DEF Positive
  <2>2. Weights(r) = (w + t - 1) \div t
    BY DEF Weights, CeilDiv
  <2> HIDE DEF w, t
  <2>3. 0 <= (w + t - 1) \div t /\ (w + t - 1) \div t \in Int
    <3>1. 0 * t <= w + t - 1
      BY <2>1
    <3>2. QED
      BY <2>1, <3>1, Divided
  <2>4. QED
    BY <2>2, <2>3
<1>6. Safety(r) \in Nat
  BY <1>1 DEF Safety, RoundDiv
<1> DEFINE hidden == Larger(1, r.model.hidden \div r.tp)
           inner == Larger(1, r.model.intermediate \div r.tp)
<1>7. hidden \in Nat /\ inner \in Nat
  <2>1. r.tp \in Nat \ {0}
    BY <1>1 DEF Positive
  <2>2. r.model.hidden \div r.tp \in Int /\ r.model.intermediate \div r.tp \in Int
    BY <1>1, <2>1
  <2>3. QED
    BY <2>2 DEF Larger
<1>8. /\ Overheads(r).graph = IF r.eager THEN 0 ELSE GraphBase + r.seqs * hidden * GraphPerHidden
      /\ Overheads(r).workspace = Workspace
      /\ Overheads(r).prefill = BytesFor(Smaller(r.maxlen, DefaultChunk) * (hidden + inner)
                                           * ActivationElements, "bf16")
      /\ Overheads(r).logits = r.seqs * r.model.vocab * 4 * LogitsBufferCopies
  BY DEF Overheads
<1> HIDE DEF hidden, inner
<1>9. Overheads(r).graph \in Nat /\ Overheads(r).workspace \in Nat
  <2>1. GraphBase \in Nat /\ GraphPerHidden \in Nat /\ Workspace \in Nat
    BY PlanAssumption
  <2>2. r.seqs * hidden \in Nat
    BY <1>1, <1>7, ProductNatural
  <2>3. r.seqs * hidden * GraphPerHidden \in Nat
    BY <2>1, <2>2, ProductNatural
  <2>4. QED
    BY <1>8, <2>1, <2>3
<1>10. Overheads(r).prefill \in Nat
  <2>1. Smaller(r.maxlen, DefaultChunk) \in Nat /\ hidden + inner \in Nat
    BY <1>1, <1>7 DEF Smaller, DefaultChunk
  <2>2. Smaller(r.maxlen, DefaultChunk) * (hidden + inner) \in Nat
    BY <2>1, ProductNatural
  <2>3. Smaller(r.maxlen, DefaultChunk) * (hidden + inner) * ActivationElements \in Nat
    BY <2>2, ProductNatural DEF ActivationElements
  <2>4. QED
    BY <1>8, <2>3, Bytewise
<1>11. Overheads(r).logits \in Nat
  <2>1. r.seqs * r.model.vocab \in Nat
    BY <1>1, ProductNatural
  <2>2. QED
    BY <1>8, <2>1 DEF LogitsBufferCopies
<1>12. KvBudget(r) \in Int
  BY <1>1, <1>4, <1>5, <1>6, <1>9, <1>10, <1>11 DEF KvBudget, TorchSide
<1>13. QED
  BY <1>1, <1>2, <1>3, <1>4, <1>5, <1>6, <1>9, <1>10, <1>11, <1>12

(* What a plan's bytes add up to.                                           *)
LEMMA BudgetOf ==
  ASSUME NEW r
  PROVE  KvBudget(r) = r.gpu.usable - (Weights(r)
           + (Overheads(r).graph + Overheads(r).workspace + Overheads(r).prefill
                + Overheads(r).logits) + Safety(r) + RecurrentState(r))
BY DEF KvBudget, TorchSide

-----------------------------------------------------------------------------
(* Bit lengths: there is such a function, and it grows with its argument.   *)
BitsTo(g, n) ==
  /\ g \in [0 .. n -> Nat]
  /\ \A k \in 0 .. n : g[k] = IF k = 0 THEN 0 ELSE 1 + g[k \div 2]

LEMMA Half ==
  ASSUME NEW n \in Nat
  PROVE  /\ n \div 2 \in Nat /\ n \div 2 <= n
         /\ n > 0 => n \div 2 < n
OBVIOUS

LEMMA BitsToExist == \A n \in Nat : \E g : BitsTo(g, n)
<1> DEFINE Good == {n \in Nat : \E g : BitsTo(g, n)}
<1>1. 0 \in Good
  <2>1. BitsTo([k \in 0 .. 0 |-> 0], 0)
    BY DEF BitsTo
  <2>2. QED
    BY <2>1
<1>2. ASSUME NEW n \in Nat, n \in Good PROVE n + 1 \in Good
  <2>1. PICK g : BitsTo(g, n)
    BY <1>2
  <2> DEFINE h == [k \in 0 .. n + 1 |-> IF k = n + 1 THEN 1 + g[(n + 1) \div 2] ELSE g[k]]
  <2>2. (n + 1) \div 2 \in 0 .. n
    OBVIOUS
  <2>3. \A k \in 0 .. n + 1 : k \in 0 .. n \/ k = n + 1
    OBVIOUS
  <2>4. h \in [0 .. n + 1 -> Nat]
    BY <2>1, <2>2, <2>3 DEF BitsTo
  <2>5. \A k \in 0 .. n : h[k] = g[k]
    OBVIOUS
  <2>6. h[n + 1] = 1 + g[(n + 1) \div 2]
    OBVIOUS
  <2>7. \A k \in 0 .. n + 1 : k # n + 1 => k \in 0 .. n /\ k \div 2 \in 0 .. n
    BY Half
  <2> HIDE DEF h
  <2>8. \A k \in 0 .. n + 1 : h[k] = IF k = 0 THEN 0 ELSE 1 + h[k \div 2]
    <3> SUFFICES ASSUME NEW k \in 0 .. n + 1 PROVE h[k] = IF k = 0 THEN 0 ELSE 1 + h[k \div 2]
      OBVIOUS
    <3>1. CASE k = n + 1
      BY <2>2, <2>5, <2>6, <3>1
    <3>2. CASE k # n + 1
      <4>1. k \in 0 .. n /\ k \div 2 \in 0 .. n
        BY <2>7, <3>2
      <4>2. g[k] = IF k = 0 THEN 0 ELSE 1 + g[k \div 2]
        BY <2>1, <4>1 DEF BitsTo
      <4>3. QED
        BY <2>5, <4>1, <4>2
    <3>3. QED
      BY <3>1, <3>2
  <2>9. QED
    BY <2>4, <2>8 DEF BitsTo
<1>3. QED
  <2> HIDE DEF Good
  <2>1. \A n \in Nat : n \in Good => n + 1 \in Good
    BY <1>2
  <2>2. \A n \in Nat : n \in Good
    BY <1>1, <2>1, NatInductionSet
  <2>3. QED
    BY <2>2 DEF Good

LEMMA BitsToAgree ==
  ASSUME NEW m \in Nat, NEW n \in Nat, NEW g, BitsTo(g, m), NEW h, BitsTo(h, n)
  PROVE  \A k \in 0 .. m : k \in 0 .. n => g[k] = h[k]
<1> DEFINE Good == {k \in Nat : \A j \in 0 .. k : j \in 0 .. m /\ j \in 0 .. n => g[j] = h[j]}
<1>1. 0 \in Good
  BY DEF BitsTo
<1>2. ASSUME NEW k \in Nat, k \in Good PROVE k + 1 \in Good
  <2>1. (k + 1) \div 2 \in 0 .. k
    OBVIOUS
  <2>2. ASSUME k + 1 \in 0 .. m, k + 1 \in 0 .. n PROVE g[k + 1] = h[k + 1]
    <3>1. (k + 1) \div 2 \in 0 .. m /\ (k + 1) \div 2 \in 0 .. n
      BY <2>1, <2>2
    <3>2. g[(k + 1) \div 2] = h[(k + 1) \div 2]
      BY <1>2, <2>1, <3>1
    <3>3. QED
      BY <2>2, <3>2 DEF BitsTo
  <2>3. \A j \in 0 .. k + 1 : j \in 0 .. k \/ j = k + 1
    OBVIOUS
  <2>4. QED
    BY <1>2, <2>2, <2>3
<1>3. \A k \in Nat : k \in Good
  <2> HIDE DEF Good
  <2>1. \A k \in Nat : k \in Good => k + 1 \in Good
    BY <1>2
  <2>2. QED
    BY <1>1, <2>1, NatInductionSet
<1>4. QED
  BY <1>3

LEMMA BitLengthDefined ==
  /\ HeadroomSearch!BitLength \in [Nat -> Nat]
  /\ HeadroomSearch!BitLength[0] = 0
  /\ \A n \in Nat : n > 0 =>
       HeadroomSearch!BitLength[n] = 1 + HeadroomSearch!BitLength[n \div 2]
<1> DEFINE B(f) == f = [n \in Nat |-> IF n = 0 THEN 0 ELSE 1 + f[n \div 2]]
           upTo(n) == CHOOSE g : BitsTo(g, n)
           bits == [n \in Nat |-> upTo(n)[n]]
<1>1. \A n \in Nat : BitsTo(upTo(n), n)
  BY BitsToExist
<1>2. \A n \in Nat : \A k \in 0 .. n : bits[k] = upTo(n)[k]
  <2> SUFFICES ASSUME NEW n \in Nat, NEW k \in 0 .. n PROVE bits[k] = upTo(n)[k]
    OBVIOUS
  <2>1. k \in Nat /\ bits[k] = upTo(k)[k] /\ k \in 0 .. k
    OBVIOUS
  <2>2. BitsTo(upTo(k), k) /\ BitsTo(upTo(n), n)
    BY <1>1, <2>1
  <2> HIDE DEF bits, upTo
  <2>3. QED
    BY <2>1, <2>2, BitsToAgree
<1>3. ASSUME NEW n \in Nat PROVE bits[n] = IF n = 0 THEN 0 ELSE 1 + bits[n \div 2]
  <2>1. n \in 0 .. n /\ n \div 2 \in 0 .. n
    BY Half
  <2>2. upTo(n)[n] = IF n = 0 THEN 0 ELSE 1 + upTo(n)[n \div 2]
    BY <1>1, <2>1 DEF BitsTo
  <2>3. bits[n] = upTo(n)[n] /\ bits[n \div 2] = upTo(n)[n \div 2]
    BY <1>2, <2>1
  <2> HIDE DEF bits, upTo
  <2>4. QED
    BY <2>2, <2>3
<1>4. bits \in [Nat -> Nat]
  <2>1. \A n \in Nat : n \in 0 .. n /\ upTo(n)[n] \in Nat
    BY <1>1 DEF BitsTo
  <2>2. QED
    BY <2>1
<1>5. B(bits)
  <2>1. bits = [n \in Nat |-> bits[n]]
    OBVIOUS
  <2> HIDE DEF bits
  <2>2. QED
    BY <1>3, <2>1
<1>6. HeadroomSearch!BitLength = CHOOSE f : B(f)
  BY DEF HeadroomSearch!BitLength
<1> HIDE DEF bits, upTo
<1>7. B(HeadroomSearch!BitLength)
  <2> HIDE DEF B
  <2>1. QED
    BY <1>5, <1>6
<1>8. \A n \in Nat : HeadroomSearch!BitLength[n] = bits[n]
  <2> DEFINE f == HeadroomSearch!BitLength
  <2>1. \A n \in Nat : f[n] = IF n = 0 THEN 0 ELSE 1 + f[n \div 2]
    BY <1>7
  <2> HIDE DEF f
  <2> DEFINE Good == {n \in Nat : \A j \in 0 .. n : f[j] = bits[j]}
  <2>2. 0 \in Good
    BY <1>3, <2>1
  <2>3. ASSUME NEW n \in Nat, n \in Good PROVE n + 1 \in Good
    <3>1. (n + 1) \div 2 \in 0 .. n /\ \A j \in 0 .. n + 1 : j \in 0 .. n \/ j = n + 1
      OBVIOUS
    <3>2. f[n + 1] = bits[n + 1]
      BY <1>3, <2>1, <2>3, <3>1
    <3>3. QED
      BY <2>3, <3>1, <3>2
  <2>4. \A n \in Nat : n \in Good
    <3> HIDE DEF Good
    <3>1. \A n \in Nat : n \in Good => n + 1 \in Good
      BY <2>3
    <3>2. QED
      BY <2>2, <3>1, NatInductionSet
  <2>5. QED
    BY <2>4 DEF f
<1>9. HeadroomSearch!BitLength = bits
  <2>1. bits = [n \in Nat |-> bits[n]]
    BY <1>4
  <2>2. HeadroomSearch!BitLength = [n \in Nat |-> HeadroomSearch!BitLength[n]]
    BY <1>7
  <2>3. QED
    BY <1>8, <2>1, <2>2
<1>10. QED
  BY <1>3, <1>4, <1>9

LEMMA BitLengthGrows ==
  ASSUME NEW m \in Nat, NEW n \in Nat, m <= n
  PROVE  HeadroomSearch!BitLength[m] <= HeadroomSearch!BitLength[n]
<1> DEFINE b == HeadroomSearch!BitLength
           Good == {k \in Nat : \A j \in 0 .. k : \A i \in 0 .. j : b[i] <= b[j]}
<1>1. b \in [Nat -> Nat] /\ b[0] = 0 /\ \A k \in Nat : k > 0 => b[k] = 1 + b[k \div 2]
  BY BitLengthDefined
<1> HIDE DEF b
<1>2. 0 \in Good
  BY <1>1
<1>3. ASSUME NEW k \in Nat, k \in Good PROVE k + 1 \in Good
  <2>1. ASSUME NEW i \in 0 .. k + 1 PROVE b[i] <= b[k + 1]
    <3>1. CASE i = 0
      BY <1>1, <3>1
    <3>2. CASE i > 0
      <4>1. i \div 2 \in 0 .. (k + 1) \div 2 /\ (k + 1) \div 2 \in 0 .. k
        BY <3>2
      <4>2. b[i \div 2] <= b[(k + 1) \div 2]
        BY <1>3, <4>1
      <4>3. b[i] = 1 + b[i \div 2] /\ b[k + 1] = 1 + b[(k + 1) \div 2]
        BY <1>1, <3>2
      <4>4. b[i \div 2] \in Nat /\ b[(k + 1) \div 2] \in Nat
        BY <1>1, <4>1
      <4>5. QED
        BY <4>2, <4>3, <4>4
    <3>3. QED
      BY <3>1, <3>2
  <2>2. \A j \in 0 .. k + 1 : j \in 0 .. k \/ j = k + 1
    OBVIOUS
  <2>3. QED
    BY <1>3, <2>1, <2>2
<1>4. \A k \in Nat : k \in Good
  <2> HIDE DEF Good
  <2>1. \A k \in Nat : k \in Good => k + 1 \in Good
    BY <1>3
  <2>2. QED
    BY <1>2, <2>1, NatInductionSet
<1>5. m \in 0 .. n /\ n \in 0 .. n /\ n \in Good
  BY <1>4
<1>6. QED
  BY <1>5 DEF b

-----------------------------------------------------------------------------
(* The search for the headroom, whatever the estimate answers.              *)

(* The bracket is inductive together with the types: each evaluation of     *)
(* fits moves low to a concurrency that fits or high to one that does not.  *)
LEMMA BracketHolds == HeadroomSearch!Spec => [](HeadroomSearch!TypeOK /\ HeadroomSearch!Bracket)
<1> USE PlanAssumption DEF Positive, HeadroomSearch!Concurrencies, HeadroomSearch!Askable
<1>1. ASSUME HeadroomSearch!Init PROVE HeadroomSearch!TypeOK /\ HeadroomSearch!Bracket
  <2>1. fits \subseteq HeadroomSearch!Askable
    BY <1>1 DEF HeadroomSearch!Init
  <2>2. HeadroomSearch!TypeOK
    BY <1>1, <2>1 DEF HeadroomSearch!Init, HeadroomSearch!TypeOK
  <2>3. QED
    BY <1>1, <2>2 DEF HeadroomSearch!Init, HeadroomSearch!Bracket
<1>2. ASSUME HeadroomSearch!TypeOK, HeadroomSearch!Bracket, [HeadroomSearch!Next]_HeadroomSearch!vars PROVE HeadroomSearch!TypeOK' /\ HeadroomSearch!Bracket'
  <2> USE <1>2
  <2>1. CASE HeadroomSearch!NoneFits \/ HeadroomSearch!OneFits
    <3>1. /\ pc = "one" /\ low = 1 /\ high = 2 /\ result = 0
          /\ UNCHANGED <<fits, low, high, result>>
          /\ calls' \in Nat
      BY <2>1 DEF HeadroomSearch!NoneFits, HeadroomSearch!OneFits, HeadroomSearch!TypeOK, HeadroomSearch!Bracket
    <3>2. \/ 1 \notin fits /\ pc' = "done"
          \/ 1 \in fits /\ pc' = "double"
      BY <2>1 DEF HeadroomSearch!NoneFits, HeadroomSearch!OneFits
    <3>3. HeadroomSearch!TypeOK'
      BY <3>1, <3>2 DEF HeadroomSearch!TypeOK
    <3>4. HeadroomSearch!Bracket'
      BY <3>1, <3>2 DEF HeadroomSearch!Bracket
    <3>5. QED
      BY <3>3, <3>4
  <2>2. CASE HeadroomSearch!Double
    BY <2>2 DEF HeadroomSearch!Double, HeadroomSearch!TypeOK, HeadroomSearch!Bracket
  <2>3. CASE HeadroomSearch!StopDoubling
    BY <2>3 DEF HeadroomSearch!StopDoubling, HeadroomSearch!Smaller, HeadroomSearch!TypeOK, HeadroomSearch!Bracket
  <2>4. CASE HeadroomSearch!Bisect
    <3> DEFINE mid == (low + high) \div 2
    <3>1. mid \in Int /\ low < mid /\ mid < high
      BY <2>4 DEF HeadroomSearch!Bisect, HeadroomSearch!TypeOK, HeadroomSearch!Bracket
    <3>2. \/ mid \in fits /\ low' = mid /\ high' = high
          \/ mid \notin fits /\ high' = mid /\ low' = low
      BY <2>4 DEF HeadroomSearch!Bisect
    <3>3. pc = "bisect" /\ UNCHANGED <<fits, pc, result>> /\ calls' \in Nat
      BY <2>4 DEF HeadroomSearch!Bisect, HeadroomSearch!TypeOK
    <3> HIDE DEF mid
    <3>4. HeadroomSearch!TypeOK'
      BY <3>1, <3>2, <3>3 DEF HeadroomSearch!TypeOK, HeadroomSearch!Bracket
    <3>5. HeadroomSearch!Bracket'
      BY <3>1, <3>2, <3>3 DEF HeadroomSearch!TypeOK, HeadroomSearch!Bracket
    <3>6. QED
      BY <3>4, <3>5
  <2>5. CASE HeadroomSearch!Return
    BY <2>5 DEF HeadroomSearch!Return, HeadroomSearch!TypeOK, HeadroomSearch!Bracket
  <2>6. CASE UNCHANGED HeadroomSearch!vars
    BY <2>6 DEF HeadroomSearch!vars, HeadroomSearch!TypeOK, HeadroomSearch!Bracket
  <2>7. QED
    BY <2>1, <2>2, <2>3, <2>4, <2>5, <2>6 DEF HeadroomSearch!Next, HeadroomSearch!SearchStep, HeadroomSearch!Terminating
<1>3. QED
  BY <1>1, <1>2, PTL DEF HeadroomSearch!Spec

(* Whatever the estimator answers, max_concurrency_for_budget never returns *)
(* a concurrency that does not fit, nor one below which it stopped short.   *)
THEOREM TightAnswer == HeadroomSearch!Spec => []HeadroomSearch!AnswerTight
<1>1. HeadroomSearch!TypeOK /\ HeadroomSearch!Bracket => HeadroomSearch!AnswerTight
  BY DEF Positive, HeadroomSearch!TypeOK, HeadroomSearch!Bracket, HeadroomSearch!AnswerTight
<1>2. QED
  BY <1>1, BracketHolds, PTL

Monotone == \A c \in HeadroomSearch!Concurrencies : c \in fits => \A d \in 1 .. c : d \in fits

(* "Binary search over a monotone predicate": if it is monotone, the answer *)
(* separates what fits from what does not, everywhere below the ceiling.    *)
ExactBelowCeiling ==
  pc = "done" /\ Monotone =>
    \A c \in 1 .. Ceiling - 1 : c \in fits <=> c <= result

(* With a monotone predicate the answer is exact below every ceiling.       *)
THEOREM ExactAnswer == HeadroomSearch!Spec => []ExactBelowCeiling
<1>1. ASSUME HeadroomSearch!TypeOK, HeadroomSearch!AnswerTight, pc = "done", Monotone,
             NEW c \in 1 .. Ceiling - 1
      PROVE  c \in fits <=> c <= result
  <2>1. /\ Ceiling \in Nat /\ c \in HeadroomSearch!Concurrencies /\ result \in 0 .. Ceiling
    BY <1>1, PlanAssumption DEF Positive, HeadroomSearch!TypeOK, HeadroomSearch!Concurrencies
  <2>2. ASSUME c \in fits PROVE c <= result
    <3> SUFFICES ASSUME result + 1 <= c PROVE FALSE
      BY <2>1
    <3>1. result + 1 \in 1 .. c /\ result + 1 < Ceiling
      BY <2>1
    <3>2. result + 1 \in fits
      BY <1>1, <2>1, <2>2, <3>1 DEF Monotone
    <3>3. QED
      BY <1>1, <3>1, <3>2 DEF HeadroomSearch!AnswerTight
  <2>3. ASSUME c <= result PROVE c \in fits
    <3>1. result > 0 /\ result \in HeadroomSearch!Concurrencies /\ c \in 1 .. result
      BY <2>1, <2>3 DEF HeadroomSearch!Concurrencies
    <3>2. QED
      BY <1>1, <3>1 DEF HeadroomSearch!AnswerTight, Monotone
  <2>4. QED
    BY <2>2, <2>3
<1>2. HeadroomSearch!TypeOK /\ HeadroomSearch!AnswerTight => ExactBelowCeiling
  BY <1>1 DEF ExactBelowCeiling
<1>3. QED
  BY <1>2, BracketHolds, TightAnswer, PTL

(* Where doubling leads: the ceiling is a power of two, so either a         *)
(* concurrency that does not fit was met or the ceiling itself fits.        *)
Climb ==
  /\ pc = "double" => \E q \in Nat : q * low = Ceiling
  /\ pc = "bisect" => high \notin fits \/ low = Ceiling
  /\ pc = "done" =>
       IF result = 0 THEN 1 \notin fits
       ELSE result = Ceiling \/ result + 1 \notin fits

(* What it costs, and what it may cost yet: halving an interval takes one   *)
(* evaluation for every bit of its length.                                  *)
Cost ==
  LET bits == HeadroomSearch!BitLength
  IN  /\ pc = "one" => calls = 0
      /\ pc = "double" => calls = bits[low]
      /\ pc = "bisect" =>
           calls + (IF low < high THEN bits[high - low - 1] ELSE 0) <= 2 * bits[Ceiling] - 1
      /\ pc = "done" => calls <= 2 * bits[Ceiling] - 1

LEMMA ClimbStep ==
  ASSUME HeadroomSearch!TypeOK, HeadroomSearch!Bracket, Climb,
         [HeadroomSearch!Next]_HeadroomSearch!vars
  PROVE  Climb'
<1> USE DEF HeadroomSearch!Concurrencies
<1>0. /\ Ceiling \in Nat /\ Ceiling > 0 /\ low \in 1 .. Ceiling
      /\ PowerOfTwo(Ceiling)
  BY PlanAssumption DEF HeadroomSearch!TypeOK, Positive
<1>1. CASE HeadroomSearch!NoneFits
  BY <1>1 DEF HeadroomSearch!NoneFits, HeadroomSearch!Bracket, Climb
<1>2. CASE HeadroomSearch!OneFits
  <2>1. Ceiling * low' = Ceiling /\ pc' = "double"
    BY <1>0, <1>2 DEF HeadroomSearch!OneFits, HeadroomSearch!Bracket
  <2>2. QED
    BY <1>0, <2>1 DEF Climb
<1>3. CASE HeadroomSearch!Double
  <2>1. pc = "double" /\ low' = 2 * low /\ 2 * low <= Ceiling /\ pc' = "double"
    BY <1>0, <1>3 DEF HeadroomSearch!Double, HeadroomSearch!Bracket
  <2>2. PICK q \in Nat : q * low = Ceiling
    BY <2>1 DEF Climb
  <2>3. q \in 1 .. Ceiling /\ q # 1
    <3>1. q # 0 /\ q # 1
      BY <1>0, <2>1, <2>2
    <3>2. q * 1 <= q * low
      BY <1>0, Multiplied
    <3>3. QED
      BY <2>2, <3>1, <3>2
  <2>4. q % 2 = 0
    BY <1>0, <2>2, <2>3 DEF PowerOfTwo
  <2>5. PICK k \in Nat : q = 2 * k
    <3>1. q = 2 * (q \div 2) /\ q \div 2 \in Nat
      BY <2>4
    <3>2. QED
      BY <3>1
  <2>6. k * low' = Ceiling
    BY <1>0, <2>1, <2>2, <2>5
  <2>7. QED
    BY <2>1, <2>6 DEF Climb
<1>4. CASE HeadroomSearch!StopDoubling
  <2>1. /\ pc = "double" /\ high = 2 * low /\ pc' = "bisect" /\ fits' = fits /\ low' = low
        /\ high' = IF high <= Ceiling THEN high ELSE Ceiling
        /\ high > Ceiling \/ high \notin fits
    BY <1>0, <1>4 DEF HeadroomSearch!StopDoubling, HeadroomSearch!Bracket, HeadroomSearch!Smaller
  <2>2. CASE high <= Ceiling
    BY <1>0, <2>1, <2>2 DEF Climb
  <2>3. CASE high > Ceiling
    <3>1. PICK q \in Nat : q * low = Ceiling
      BY <2>1 DEF Climb
    <3>2. q < 2
      <4> SUFFICES ASSUME 2 <= q PROVE FALSE
        OBVIOUS
      <4>1. 2 * low <= q * low
        BY <1>0, Multiplied
      <4>2. QED
        BY <1>0, <2>1, <2>3, <3>1, <4>1
    <3>3. q = 1
      BY <1>0, <3>1, <3>2
    <3>4. low = Ceiling
      BY <1>0, <3>1, <3>3
    <3>5. QED
      BY <2>1, <3>4 DEF Climb
  <2>4. QED
    BY <1>0, <2>1, <2>2, <2>3
<1>5. CASE HeadroomSearch!Bisect
  <2> DEFINE mid == (low + high) \div 2
  <2>1. \/ mid \in fits /\ low' = mid /\ high' = high
        \/ mid \notin fits /\ high' = mid /\ low' = low
    BY <1>5 DEF HeadroomSearch!Bisect
  <2>2. pc = "bisect" /\ fits' = fits /\ pc' = pc /\ low + 1 < high /\ high <= Ceiling
    BY <1>5 DEF HeadroomSearch!Bisect, HeadroomSearch!Bracket
  <2>3. high \notin fits
    BY <1>0, <2>2 DEF Climb, HeadroomSearch!TypeOK
  <2> HIDE DEF mid
  <2>4. QED
    BY <2>1, <2>2, <2>3 DEF Climb
<1>6. CASE HeadroomSearch!Return
  <2>1. /\ pc = "bisect" /\ low \in fits /\ low <= high /\ low + 1 >= high
        /\ high \notin fits \/ low = Ceiling
        /\ result' = low /\ pc' = "done" /\ fits' = fits
    BY <1>6 DEF HeadroomSearch!Return, HeadroomSearch!Bracket, Climb
  <2>2. low = Ceiling \/ low + 1 \notin fits
    BY <1>0, <2>1 DEF HeadroomSearch!TypeOK
  <2>3. QED
    BY <1>0, <2>1, <2>2 DEF Climb
<1>7. CASE UNCHANGED HeadroomSearch!vars
  BY <1>7 DEF HeadroomSearch!vars, Climb
<1>8. QED
  BY <1>1, <1>2, <1>3, <1>4, <1>5, <1>6, <1>7
     DEF HeadroomSearch!Next, HeadroomSearch!SearchStep, HeadroomSearch!Terminating

LEMMA CostStep ==
  ASSUME HeadroomSearch!TypeOK, HeadroomSearch!Bracket, Climb, Cost,
         [HeadroomSearch!Next]_HeadroomSearch!vars
  PROVE  Cost'
<1> DEFINE bits == HeadroomSearch!BitLength
<1>0. /\ Ceiling \in Nat /\ Ceiling > 0 /\ low \in 1 .. Ceiling /\ calls \in Nat /\ high \in Nat
  BY PlanAssumption DEF HeadroomSearch!TypeOK, Positive, HeadroomSearch!Concurrencies
<1>1. /\ \A n \in Nat : bits[n] \in Nat
      /\ bits[0] = 0 /\ \A n \in Nat : n > 0 => bits[n] = 1 + bits[n \div 2]
      /\ \A m, n \in Nat : m <= n => bits[m] <= bits[n]
  BY BitLengthDefined, BitLengthGrows
<1>2. bits[1] = 1 /\ bits[Ceiling] >= 1
  BY <1>0, <1>1
<1>3. \A n \in Nat : n > 0 => bits[2 * n] = 1 + bits[n]
  BY <1>1
<1>4. Cost <=>
        /\ pc = "one" => calls = 0
        /\ pc = "double" => calls = bits[low]
        /\ pc = "bisect" =>
             calls + (IF low < high THEN bits[high - low - 1] ELSE 0) <= 2 * bits[Ceiling] - 1
        /\ pc = "done" => calls <= 2 * bits[Ceiling] - 1
  BY DEF Cost
<1>5. Cost' <=>
        /\ pc' = "one" => calls' = 0
        /\ pc' = "double" => calls' = bits[low']
        /\ pc' = "bisect" =>
             calls' + (IF low' < high' THEN bits[high' - low' - 1] ELSE 0)
               <= 2 * bits[Ceiling] - 1
        /\ pc' = "done" => calls' <= 2 * bits[Ceiling] - 1
  BY DEF Cost, HeadroomSearch!BitLength
<1> HIDE DEF bits
<1>6. CASE HeadroomSearch!NoneFits \/ HeadroomSearch!OneFits
  <2>1. pc = "one" /\ calls' = calls + 1 /\ low' = low /\ pc' \in {"done", "double"} /\ low = 1
    BY <1>6 DEF HeadroomSearch!NoneFits, HeadroomSearch!OneFits, HeadroomSearch!Bracket
  <2>2. calls' = 1
    BY <1>0, <1>4, <2>1
  <2>3. bits[Ceiling] \in Nat
    BY <1>0, <1>1
  <2>4. QED
    BY <1>2, <1>5, <2>1, <2>2, <2>3
<1>7. CASE HeadroomSearch!Double
  <2>1. pc = "double" /\ low' = 2 * low /\ pc' = pc /\ calls' = calls + 1
    BY <1>0, <1>7 DEF HeadroomSearch!Double, HeadroomSearch!Bracket
  <2>2. calls' = bits[low']
    BY <1>0, <1>1, <1>3, <1>4, <2>1
  <2>3. QED
    BY <1>5, <2>1, <2>2
<1>8. CASE HeadroomSearch!StopDoubling
  <2>1. /\ pc = "double" /\ high = 2 * low /\ pc' = "bisect" /\ low' = low
        /\ high' = IF high <= Ceiling THEN high ELSE Ceiling
        /\ calls' = IF high <= Ceiling THEN calls + 1 ELSE calls
    BY <1>0, <1>8 DEF HeadroomSearch!StopDoubling, HeadroomSearch!Bracket, HeadroomSearch!Smaller
  <2>2. calls = bits[low]
    BY <1>4, <2>1
  <2>3. CASE high <= Ceiling
    <3>1. low - 1 \in Nat /\ high' - low' - 1 = low - 1 /\ low' < high' /\ calls' = bits[low] + 1
      BY <1>0, <2>1, <2>2, <2>3
    <3>2. bits[low - 1] <= bits[low] /\ 1 + bits[low] <= bits[Ceiling]
      BY <1>0, <1>1, <1>3, <2>1, <2>3, <3>1
    <3>3. bits[low - 1] \in Nat /\ bits[low] \in Nat /\ bits[Ceiling] \in Nat
      BY <1>0, <1>1, <3>1
    <3>4. QED
      BY <1>5, <2>1, <3>1, <3>2, <3>3
  <2>4. CASE high > Ceiling
    <3>1. low' = Ceiling /\ high' = Ceiling /\ calls' = bits[Ceiling]
      <4>1. Climb'
        BY ClimbStep
      <4>2. high' = Ceiling /\ calls' = bits[low] /\ low' = low
        BY <1>0, <2>1, <2>2, <2>4
      <4>3. low = Ceiling
        <5>1. PICK q \in Nat : q * low = Ceiling
          BY <2>1 DEF Climb
        <5>2. q < 2
          <6> SUFFICES ASSUME 2 <= q PROVE FALSE
            OBVIOUS
          <6>1. 2 * low <= q * low
            BY <1>0, Multiplied
          <6>2. QED
            BY <1>0, <2>1, <2>4, <5>1, <6>1
        <5>3. q = 1
          BY <1>0, <5>1, <5>2
        <5>4. QED
          BY <1>0, <5>1, <5>3
      <4>4. QED
        BY <4>2, <4>3
    <3>2. bits[Ceiling] \in Nat
      BY <1>0, <1>1
    <3>3. QED
      BY <1>0, <1>2, <1>5, <2>1, <3>1, <3>2
  <2>5. QED
    BY <1>0, <2>3, <2>4
<1>9. CASE HeadroomSearch!Bisect
  <2> DEFINE mid == (low + high) \div 2
             gap == high - low - 1
  <2>1. /\ pc = "bisect" /\ pc' = "bisect" /\ calls' = calls + 1 /\ low + 1 < high
        /\ \/ low' = mid /\ high' = high
           \/ high' = mid /\ low' = low
    BY <1>9 DEF HeadroomSearch!Bisect
  <2>2. gap \in Nat /\ gap > 0 /\ calls + bits[gap] <= 2 * bits[Ceiling] - 1
    BY <1>0, <1>4, <2>1
  <2>3. /\ high' - low' - 1 \in Nat /\ gap \div 2 \in Nat /\ low' < high'
        /\ high' - low' - 1 <= gap \div 2
    BY <1>0, <2>1, <2>2
  <2> HIDE DEF mid, gap
  <2>4. bits[high' - low' - 1] <= bits[gap \div 2] /\ bits[gap] = 1 + bits[gap \div 2]
    BY <1>1, <2>2, <2>3
  <2>5. /\ bits[high' - low' - 1] \in Nat /\ bits[gap \div 2] \in Nat /\ bits[Ceiling] \in Nat
    BY <1>0, <1>1, <2>3
  <2>6. QED
    BY <1>0, <1>5, <2>1, <2>2, <2>3, <2>4, <2>5
<1>10. CASE HeadroomSearch!Return
  <2>1. pc = "bisect" /\ pc' = "done" /\ calls' = calls
    BY <1>10 DEF HeadroomSearch!Return
  <2>2. /\ IF low < high THEN bits[high - low - 1] \in Nat ELSE TRUE
        /\ bits[Ceiling] \in Nat
    BY <1>0, <1>1
  <2>3. QED
    BY <1>0, <1>4, <1>5, <2>1, <2>2
<1>11. CASE UNCHANGED HeadroomSearch!vars
  <2>1. UNCHANGED <<low, high, pc, calls>>
    BY <1>11 DEF HeadroomSearch!vars
  <2>2. QED
    BY <1>4, <1>5, <2>1
<1>12. QED
  BY <1>6, <1>7, <1>8, <1>9, <1>10, <1>11
     DEF HeadroomSearch!Next, HeadroomSearch!SearchStep, HeadroomSearch!Terminating

LEMMA ClimbAndCost == HeadroomSearch!Spec => [](Climb /\ Cost)
<1>1. HeadroomSearch!Init => Climb /\ Cost
  BY DEF HeadroomSearch!Init, Climb, Cost
<1>2. /\ HeadroomSearch!TypeOK /\ HeadroomSearch!Bracket /\ Climb /\ Cost
      /\ [HeadroomSearch!Next]_HeadroomSearch!vars
      => Climb' /\ Cost'
  BY ClimbStep, CostStep
<1>3. QED
  BY <1>1, <1>2, BracketHolds, PTL DEF HeadroomSearch!Spec

(* "So this costs O(log n) Monte-Carlo evaluations rather than a linear     *)
(* scan": whatever the estimator answers.                                   *)
THEOREM CheapAnswer == HeadroomSearch!Spec => []HeadroomSearch!LogarithmicCost
<1>1. HeadroomSearch!TypeOK /\ Cost => HeadroomSearch!LogarithmicCost
  <2> SUFFICES ASSUME HeadroomSearch!TypeOK, Cost PROVE HeadroomSearch!LogarithmicCost
    OBVIOUS
  <2> DEFINE bits == HeadroomSearch!BitLength
  <2>0. /\ Ceiling \in Nat /\ Ceiling > 0 /\ low \in Nat /\ low <= Ceiling
        /\ calls \in Nat /\ high \in Nat
    BY PlanAssumption DEF HeadroomSearch!TypeOK, Positive, HeadroomSearch!Concurrencies
  <2>1. /\ \A n \in Nat : bits[n] \in Nat
        /\ bits[Ceiling] >= 1
        /\ bits[low] <= bits[Ceiling]
    <3>1. bits[Ceiling] = 1 + bits[Ceiling \div 2] /\ Ceiling \div 2 \in Nat
      BY <2>0, BitLengthDefined
    <3>2. QED
      BY <2>0, <3>1, BitLengthDefined, BitLengthGrows
  <2>2. /\ pc = "one" => calls = 0
        /\ pc = "double" => calls = bits[low]
        /\ pc = "bisect" =>
             calls + (IF low < high THEN bits[high - low - 1] ELSE 0) <= 2 * bits[Ceiling] - 1
        /\ pc = "done" => calls <= 2 * bits[Ceiling] - 1
    BY DEF Cost
  <2>3. pc \in {"one", "double", "bisect", "done"}
    BY DEF HeadroomSearch!TypeOK
  <2>4. (IF low < high THEN bits[high - low - 1] ELSE 0) \in Nat
    BY <2>0, <2>1
  <2> HIDE DEF bits
  <2>5. bits[low] \in Nat /\ bits[Ceiling] \in Nat
    BY <2>0, <2>1
  <2>6. calls <= 2 * bits[Ceiling] - 1
    BY <2>0, <2>1, <2>2, <2>3, <2>4, <2>5
  <2>7. QED
    BY <2>6 DEF HeadroomSearch!LogarithmicCost, bits
<1>2. QED
  BY <1>1, BracketHolds, ClimbAndCost, PTL

-----------------------------------------------------------------------------
(* What a plan adds up to.                                                  *)

(* The budget is what the other terms leave, so a plan accounts for usable  *)
(* memory exactly.                                                          *)
LEMMA EstimateReconciles ==
  ASSUME NEW r \in Requests, NEW h
  PROVE  /\ TotalAllocated(EstimatePlan(r, h)) = r.gpu.usable
         /\ LedgerTotal(EstimatePlan(r, h).ledger) = r.gpu.usable
<1> DEFINE o == Overheads(r)
           s == RecurrentState(r)
<1>1. /\ r.gpu.usable \in Nat /\ Weights(r) \in Nat /\ Safety(r) \in Nat /\ s \in Nat
      /\ o.graph \in Nat /\ o.workspace \in Nat /\ o.prefill \in Nat /\ o.logits \in Nat
  BY RequestsAssumption, Terms
<1>2. KvBudget(r) = r.gpu.usable - (Weights(r) + (o.graph + o.workspace + o.prefill + o.logits)
                                      + Safety(r) + s)
  BY DEF KvBudget, TorchSide
<1> HIDE DEF o, s
<1>3. TotalAllocated(EstimatePlan(r, h))
        = Weights(r) + (o.prefill + o.logits) + (o.graph + o.workspace + s) + Safety(r)
            + KvBudget(r)
  BY DEF TotalAllocated, EstimatePlan, o, s
<1>4. LedgerTotal(EstimatePlan(r, h).ledger)
        = Weights(r) + o.graph + o.workspace + o.prefill + o.logits + s + Safety(r)
            + KvBudget(r)
  BY <1>1 DEF LedgerTotal, EstimatePlan, Ledger, Restrict, o, s
<1> QED
  BY <1>1, <1>2, <1>3, <1>4

(* Re-deriving a plan for another dtype touches none of its terms.          *)
LEMMA SwitchKeepsTerms ==
  ASSUME NEW r \in Requests, NEW h, NEW dtype
  PROVE  LET p == EstimatePlan(r, h)
             q == WithKvDtype(p, r.model.cache, dtype)
         IN  /\ TotalAllocated(q) = TotalAllocated(p)
             /\ LedgerTotal(q.ledger) = LedgerTotal(p.ledger)
             /\ q.dtype = dtype
<1> DEFINE p == EstimatePlan(r, h)
           q == WithKvDtype(p, r.model.cache, dtype)
<1>1. /\ q.weights = p.weights /\ q.activation = p.activation /\ q.fixed = p.fixed
      /\ q.safety = p.safety /\ q.kv = p.kv /\ q.ledger = p.ledger /\ q.dtype = dtype
  BY DEF EstimatePlan, WithKvDtype
<1> QED
  BY <1>1 DEF TotalAllocated

(* A plan is the estimate of its request, re-derived for fp8 or not, and    *)
(* there is one when there should be.                                       *)
PlanDerived ==
  /\ request \in Requests
  /\ phase \in {"asked", "searching"} => plan = None
  /\ \/ plan = None /\ phase # "planned"
     \/ plan = EstimatePlan(request, result)
     \/ plan = WithKvDtype(EstimatePlan(request, result), request.model.cache, "fp8")

LEMMA InitDerived == Init => PlanDerived
BY DEF Init, PlanDerived

LEMMA NextDerived == PlanDerived /\ [Next]_vars => PlanDerived'
<1> SUFFICES ASSUME PlanDerived, [Next]_vars PROVE PlanDerived'
  OBVIOUS
<1>1. CASE Plan
  BY <1>1 DEF Plan, PlanDerived, search
<1>2. CASE Refuse \/ Admit \/ Search
  BY <1>2 DEF Refuse, Admit, Search, PlanDerived, search
<1>3. CASE Switch
  <2>1. phase = "planned" /\ plan.dtype # "fp8"
    BY <1>3 DEF Switch
  <2>2. plan # WithKvDtype(EstimatePlan(request, result), request.model.cache, "fp8")
    BY <2>1, SwitchKeepsTerms DEF PlanDerived
  <2>3. plan = EstimatePlan(request, result)
    BY <2>1, <2>2 DEF PlanDerived
  <2> QED
    BY <1>3, <2>3 DEF Switch, PlanDerived, search
<1>4. CASE Compile
  BY <1>4 DEF Compile, PlanDerived, search
<1>5. CASE Boot
  BY <1>5 DEF Boot, PlanDerived, search
<1>6. CASE Stopped \/ UNCHANGED vars
  BY <1>6 DEF Stopped, vars, PlanDerived, search
<1> QED
  BY <1>1, <1>2, <1>3, <1>4, <1>5, <1>6 DEF Next

LEMMA DerivedReconciles == PlanDerived => Reconciles
<1> SUFFICES ASSUME PlanDerived, plan # None PROVE
      /\ TotalAllocated(plan) = request.gpu.usable
      /\ LedgerTotal(plan.ledger) = request.gpu.usable
  BY DEF Reconciles
<1> QED
  BY EstimateReconciles, SwitchKeepsTerms DEF PlanDerived

(* Whatever is asked for, the plan in hand accounts for usable memory to    *)
(* the byte, in its terms and in its ledger, re-derived or not: the         *)
(* assertion that estimate_plan makes of every plan it returns.             *)
THEOREM PlanReconciles == Spec => []Reconciles
<1>1. Spec => []PlanDerived
  BY InitDerived, NextDerived, PTL DEF Spec
<1> QED
  BY <1>1, DerivedReconciles, PTL

-----------------------------------------------------------------------------
(* The headroom.                                                            *)

(* The search that a plan waits for is max_concurrency_for_budget as module *)
(* Headroom specifies it: every other step of a launch leaves it alone.     *)
THEOREM LaunchSearches == Spec => HeadroomSearch!Spec
<1>1. Init => HeadroomSearch!Init
  BY DEF Init
<1>2. [Next]_vars => [HeadroomSearch!Next]_(HeadroomSearch!vars)
  <2> SUFFICES ASSUME [Next]_vars PROVE HeadroomSearch!Next \/ UNCHANGED HeadroomSearch!vars
    OBVIOUS
  <2>1. CASE Search
    BY <2>1 DEF Search, HeadroomSearch!Next
  <2>2. CASE Refuse \/ Admit \/ Plan \/ Switch \/ Compile \/ Boot \/ Stopped \/ UNCHANGED vars
    BY <2>2 DEF Refuse, Admit, Plan, Switch, Compile, Boot, Stopped, vars, search,
         HeadroomSearch!vars
  <2> QED
    BY <2>1, <2>2 DEF Next
<1> QED
  BY <1>1, <1>2, PTL DEF Spec, HeadroomSearch!Spec

(* What ties a plan to the search: the predicate is that of its request,    *)
(* and there is no plan before the search is over.                          *)
Searched ==
  /\ fits = {c \in HeadroomSearch!Askable : Fits(request, c)}
  /\ plan # None => pc = "done" /\ plan.headroom = result

LEMMA SearchedHolds == Spec => []Searched
<1>1. Init => Searched
  BY DEF Init, Searched
<1>2. PlanDerived /\ Searched /\ [Next]_vars => Searched'
  <2> SUFFICES ASSUME PlanDerived, Searched, [Next]_vars PROVE Searched'
    OBVIOUS
  <2>1. CASE Search
    <3>1. fits' = fits /\ request' = request /\ plan' = plan
      BY <2>1 DEF Search, HeadroomSearch!SearchStep, HeadroomSearch!NoneFits,
           HeadroomSearch!OneFits, HeadroomSearch!Double, HeadroomSearch!StopDoubling,
           HeadroomSearch!Bisect, HeadroomSearch!Return
    <3>2. plan = None
      BY <2>1 DEF Search, PlanDerived
    <3> QED
      BY <3>1, <3>2 DEF Searched
  <2>2. CASE Plan
    <3>1. plan'.headroom = result' /\ pc' = "done"
      BY <2>2 DEF Plan, EstimatePlan, search
    <3> QED
      BY <2>2, <3>1 DEF Plan, Searched, search
  <2>3. CASE Switch
    <3>1. plan'.headroom = plan.headroom /\ plan # None
      <4>1. phase = "planned"
        BY <2>3 DEF Switch
      <4>2. plan = EstimatePlan(request, result)
        <5>1. plan.dtype # "fp8"
          BY <2>3 DEF Switch
        <5> QED
          BY <4>1, <5>1, SwitchKeepsTerms DEF PlanDerived
      <4>3. plan' = [plan EXCEPT !.perToken = plan'.perToken, !.dtype = plan'.dtype]
        BY <2>3, <4>2 DEF Switch, WithKvDtype, EstimatePlan
      <4>4. plan'.headroom = plan.headroom
        BY <4>2, <4>3 DEF EstimatePlan
      <4>5. "weights" \in DOMAIN plan
        BY <4>2 DEF EstimatePlan
      <4> QED
        BY <4>4, <4>5 DEF None
    <3> QED
      BY <2>3, <3>1 DEF Switch, Searched, search
  <2>4. CASE Refuse \/ Admit \/ Compile \/ Boot \/ Stopped \/ UNCHANGED vars
    BY <2>4 DEF Refuse, Admit, Compile, Boot, Stopped, vars, search, Searched
  <2> QED
    BY <2>1, <2>2, <2>3, <2>4 DEF Next
<1>3. Spec => []PlanDerived
  BY InitDerived, NextDerived, PTL DEF Spec
<1> QED
  BY <1>1, <1>2, <1>3, PTL DEF Spec

(* A plan never promises a concurrency whose caches do not fit its budget.  *)
Promised == plan # None /\ plan.headroom > 0 => Fits(request, plan.headroom)

(* For every request, whatever the layouts, devices and settings.           *)
THEOREM HeadroomPromised == Spec => []Promised
<1>1. Spec => []HeadroomSearch!AnswerTight
  BY LaunchSearches, TightAnswer, PTL
<1>2. Searched /\ HeadroomSearch!AnswerTight => Promised
  BY DEF Searched, HeadroomSearch!AnswerTight, Promised
<1> QED
  BY <1>1, <1>2, SearchedHolds, PTL

(* A plan that was not re-derived is the estimate of its request.           *)
LEMMA FreshEstimate ==
  ASSUME PlanDerived, Searched, Fresh
  PROVE  /\ plan = EstimatePlan(request, result) /\ plan.headroom = result
         /\ plan.kv = KvBudget(request) /\ plan.perToken = PerToken(request)
         /\ plan.binding = Binding(request, result)
         /\ plan.critical = request.gpu.critical
<1> DEFINE e == EstimatePlan(request, result)
<1>1. plan = e
  <2>1. CASE plan = WithKvDtype(e, request.model.cache, "fp8")
    <3>1. plan.dtype = "fp8" /\ request.kv = "fp8"
      BY <2>1, SwitchKeepsTerms DEF Fresh, PlanDerived
    <3>2. /\ e.perToken = CacheBytesPerToken(request.model.cache, "fp8", request.tp)
          /\ e.dtype = "fp8" /\ e.tp = request.tp
      BY <3>1 DEF EstimatePlan, PerToken
    <3>3. e = [e EXCEPT !.perToken = e.perToken, !.dtype = e.dtype]
      BY DEF EstimatePlan
    <3> HIDE DEF e
    <3>4. QED
      BY <2>1, <3>2, <3>3 DEF WithKvDtype
  <2>2. QED
    BY <2>1 DEF PlanDerived, Fresh
<1>2. QED
  BY <1>1 DEF EstimatePlan

-----------------------------------------------------------------------------
(* The search of every launch costs two evaluations for each bit of the     *)
(* ceiling at most, less one.                                               *)
THEOREM CheapSearch == Spec => []SearchCheap
BY LaunchSearches, CheapAnswer, PTL DEF SearchCheap

-----------------------------------------------------------------------------
(* What fits.                                                               *)

(* A request past the refusal is feasible.                                  *)
Admitted == phase \notin {"asked", "infeasible"} => Feasible(request)

LEMMA AdmittedHolds == Spec => []Admitted
<1>1. Init => Admitted
  BY DEF Init, Admitted
<1>2. Admitted /\ [Next]_vars => Admitted'
  <2> SUFFICES ASSUME Admitted, [Next]_vars PROVE Admitted'
    OBVIOUS
  <2>1. CASE Refuse \/ Admit \/ Search \/ Plan \/ Switch \/ Compile \/ Boot \/ Stopped \/ UNCHANGED vars
    BY <2>1 DEF Refuse, Admit, Search, Plan, Switch, Compile, Boot, Stopped, Runnable, vars,
         search, Admitted
  <2>2. QED
    BY <2>1 DEF Next
<1>3. QED
  BY <1>1, <1>2, PTL DEF Spec

LEMMA FitsCosts ==
  ASSUME NEW r \in Requests, Windowless(r.model.cache), NEW h \in Nat
  PROVE  LET s == SequenceBytes(r.model.cache, r.length, r.kv, r.tp)
             x == KvBudget(r) + RecurrentState(r)
         IN  /\ s \in Nat /\ x \in Int
             /\ Fits(r, h) => h * s <= x
             /\ ScalesWithContext(r.model.cache) => (Fits(r, h) <=> h * s <= x)
<1> DEFINE s == SequenceBytes(r.model.cache, r.length, r.kv, r.tp)
           x == KvBudget(r) + RecurrentState(r)
           f == FixedPerSequence(r)
           m == MarginalBytesPerToken(r.model.cache, r.kv, r.tp)
           p == PerToken(r)
           l == r.length
<1>1. WellPosed(r)
  BY RequestsAssumption
<1>2. f \in Nat /\ p \in Nat /\ l \in Nat /\ x \in Int /\ Cache(r.model.cache)
  BY <1>1, Terms DEF Positive
<1>3. r.kv \in KvDtypes /\ r.tp \in Positive
  BY <1>1, Terms
<1>4. /\ m \in Nat /\ s \in Nat /\ s = f + l * m
      /\ ScalesWithContext(r.model.cache) => m >= 1
  <2>1. f = FixedBytesPerSequence(r.model.cache, r.kv, r.tp)
    BY DEF FixedPerSequence
  <2>2. m \in Nat /\ \A n \in Nat : SequenceBytes(r.model.cache, n, r.kv, r.tp) \in Nat
    BY <1>2, <1>3, CacheCosts
  <2>3. /\ \A n \in Nat : SequenceBytes(r.model.cache, n, r.kv, r.tp) = f + n * m
        /\ ScalesWithContext(r.model.cache) => m \in Positive
    BY <1>2, <1>3, <2>1, WindowlessCosts
  <2> HIDE DEF f, m
  <2>4. QED
    BY <1>2, <2>2, <2>3 DEF Positive
<1>5. m <= p /\ (m >= 1 => m = p)
  BY <1>4 DEF PerToken, CacheBytesPerToken, Larger
<1>6. Fits(r, h) <=> h * f + h * l * p <= x
  BY DEF Fits
<1> HIDE DEF s, x, f, m, p, l
<1>7. h * l \in Nat /\ h * l * m \in Nat /\ h * l * p \in Nat /\ h * f \in Nat
  BY <1>2, <1>4, ProductNatural
<1>8. h * s = h * f + h * l * m
  <2>1. h * s = h * f + h * (l * m) /\ h * (l * m) = h * l * m
    BY <1>2, <1>4
  <2>2. QED
    BY <2>1
<1>9. h * l * m <= h * l * p
  BY <1>2, <1>4, <1>5, <1>7, Multiplied
<1>10. Fits(r, h) => h * s <= x
  BY <1>2, <1>6, <1>7, <1>8, <1>9
<1>11. ScalesWithContext(r.model.cache) => (Fits(r, h) <=> h * s <= x)
  BY <1>4, <1>5, <1>6, <1>8
<1>12. QED
  BY <1>2, <1>4, <1>10, <1>11 DEF s, x

(* For every request without windows: the promised concurrency fits on each *)
(* GPU and on all of them together, and when the cache grows with the       *)
(* context no larger one does.                                              *)
THEOREM HeadroomExact == Spec => []HeadroomFits
<1>1. ASSUME PlanDerived, Searched, Promised, Admitted, Climb, HeadroomSearch!TypeOK
      PROVE  HeadroomFits
  <2> DEFINE r == request
             c == request.model.cache
             h == plan.headroom
             s == SequenceBytes(c, r.length, r.kv, r.tp)
             one == SequenceBytes(c, r.length, r.kv, 1)
  <2> SUFFICES ASSUME Fresh, Windowless(c)
               PROVE  /\ Footprint(h) <= ForCaches
                      /\ h * one <= r.tp * ForCaches
                      /\ ScalesWithContext(c) /\ h < Ceiling => Footprint(h + 1) > ForCaches
    BY DEF HeadroomFits, Largest
  <2>1. /\ r \in Requests /\ WellPosed(r) /\ Feasible(r) /\ h = result /\ plan # None
        /\ pc = "done"
    <3>1. r \in Requests /\ WellPosed(r) /\ Feasible(r) /\ plan # None
      <4>1. r \in Requests /\ WellPosed(r) /\ Feasible(r)
        BY <1>1, RequestsAssumption DEF PlanDerived, Admitted, Fresh
      <4>2. "weights" \in DOMAIN plan
        BY <1>1, FreshEstimate DEF EstimatePlan
      <4>3. plan # None
        BY <4>2 DEF None
      <4>4. QED
        BY <4>1, <4>3
    <3>2. QED
      BY <1>1, <3>1 DEF Searched
  <2>2. /\ h \in Nat /\ h <= Ceiling /\ Ceiling \in Nat /\ Ceiling > 0
    BY <1>1, <2>1, PlanAssumption DEF HeadroomSearch!TypeOK, Positive
  <2>3. /\ s \in Nat /\ r.tp \in Positive /\ r.tp \in Nat /\ r.kv \in KvDtypes
        /\ r.length \in Nat /\ Cache(c) /\ KvBudget(r) > 0 /\ ForCaches \in Nat
    BY <2>1, <2>2, Terms, FitsCosts DEF Feasible, ForCaches, Positive
  <2>4. Footprint(h) = h * s /\ Footprint(h + 1) = (h + 1) * s
    BY DEF Footprint
  <2>5. h * s <= ForCaches
    <3>1. CASE h > 0
      BY <1>1, <2>1, <2>2, <3>1, FitsCosts DEF Promised, ForCaches
    <3>2. CASE h = 0
      <4> HIDE DEF s
      <4>1. QED
        BY <2>3, <3>2
    <3>3. QED
      BY <2>2, <3>1, <3>2
  <2>6. h * one <= r.tp * ForCaches
    <3>1. one \in Nat /\ one <= r.tp * s
      <4>1. 1 \in Positive
        BY DEF Positive
      <4>2. QED
        BY <2>3, <4>1, CacheCosts, GpusHoldSequence
    <3> HIDE DEF one, s, h, r
    <3>2. one * h <= r.tp * (s * h)
      BY <2>2, <2>3, <3>1, Spread
    <3>3. h * one = one * h /\ s * h = h * s /\ h * s \in Nat
      BY <2>2, <2>3, <3>1, ProductNatural
    <3>4. r.tp * (h * s) <= r.tp * ForCaches
      BY <2>3, <2>5, <3>3, Multiplied
    <3>5. r.tp * (h * s) \in Nat /\ r.tp * ForCaches \in Nat /\ one * h \in Nat
      BY <2>2, <2>3, <3>1, <3>3, ProductNatural
    <3>6. QED
      BY <3>2, <3>3, <3>4, <3>5
  <2>7. ASSUME ScalesWithContext(c), h < Ceiling PROVE Footprint(h + 1) > ForCaches
    <3>1. h + 1 \in HeadroomSearch!Askable /\ h + 1 \notin fits
      BY <1>1, <2>1, <2>2, <2>7 DEF Climb, HeadroomSearch!Askable
    <3>2. ~Fits(r, h + 1) /\ h + 1 \in Nat
      BY <1>1, <2>2, <3>1 DEF Searched
    <3>3. ~((h + 1) * s <= ForCaches)
      BY <2>1, <2>7, <3>2, FitsCosts DEF ForCaches
    <3> HIDE DEF h, s
    <3>4. (h + 1) * s \in Nat
      BY <2>2, <2>3, ProductNatural
    <3>5. QED
      BY <2>3, <2>4, <3>3, <3>4
  <2>8. QED
    BY <2>4, <2>5, <2>6, <2>7
<1>2. Spec => []PlanDerived
  BY InitDerived, NextDerived, PTL DEF Spec
<1>3. Spec => []Climb
  BY LaunchSearches, ClimbAndCost, PTL
<1>4. Spec => []HeadroomSearch!TypeOK
  BY LaunchSearches, BracketHolds, PTL
<1>5. QED
  BY <1>1, <1>2, <1>3, <1>4, SearchedHolds, HeadroomPromised, AdmittedHolds, PTL

-----------------------------------------------------------------------------
(* The binding constraint.                                                  *)

(* The sequences that are served fit with n tokens each when that many      *)
(* tokens do: their state is set apart.                                     *)
LEMMA ServedCosts ==
  ASSUME NEW r \in Requests, Windowless(r.model.cache), ScalesWithContext(r.model.cache),
         NEW n \in Nat
  PROVE  r.seqs * n <= KvTokens(r)
           <=> r.seqs * SequenceBytes(r.model.cache, n, r.kv, r.tp)
                 <= KvBudget(r) + RecurrentState(r)
<1> DEFINE t == SequenceBytes(r.model.cache, n, r.kv, r.tp)
           f == FixedPerSequence(r)
           m == MarginalBytesPerToken(r.model.cache, r.kv, r.tp)
           s == r.seqs
           b == KvBudget(r)
<1>1. WellPosed(r)
  BY RequestsAssumption
<1>2. f \in Nat /\ s \in Nat /\ b \in Int /\ Cache(r.model.cache) /\ r.kv \in KvDtypes /\ r.tp \in Positive
  BY <1>1, Terms
<1>3. m \in Nat \ {0} /\ t = f + n * m
  <2>1. f = FixedBytesPerSequence(r.model.cache, r.kv, r.tp)
    BY DEF FixedPerSequence
  <2> HIDE DEF f, m, t
  <2>2. t = f + n * m /\ m \in Positive
    BY <1>2, <2>1, WindowlessCosts DEF t, m
  <2>3. QED
    BY <2>2 DEF Positive
<1>4. PerToken(r) = m
  BY <1>3 DEF PerToken, CacheBytesPerToken, Larger
<1>5. KvTokens(r) = b \div m /\ RecurrentState(r) = f * s
  BY <1>4 DEF KvTokens, RecurrentState
<1> HIDE DEF t, f, m, s, b
<1>6. s * n <= b \div m <=> s * n * m <= b
  <2>1. s * n \in Int
    BY <1>2
  <2>2. QED
    BY <1>2, <1>3, <2>1, Divided
<1>7. s * t = f * s + s * n * m
  <2>1. s * t = s * f + s * (n * m) /\ s * (n * m) = s * n * m /\ s * f = f * s
    BY <1>2, <1>3
  <2>2. QED
    BY <2>1
<1>8. f * s \in Nat /\ s * n * m \in Nat
  BY <1>2, <1>3, ProductNatural
<1>9. QED
  BY <1>2, <1>5, <1>6, <1>7, <1>8 DEF t, s, b

LEMMA FootprintGrows ==
  ASSUME WellPosed(request), NEW a \in Nat, NEW b \in Nat, a <= b
  PROVE  Footprint(a) \in Nat /\ Footprint(a) <= Footprint(b) /\ ForCaches \in Int
<1> DEFINE s == SequenceBytes(request.model.cache, request.length, request.kv, request.tp)
<1>1. s \in Nat
  BY Terms, CacheCosts
<1>2. Footprint(a) = a * s /\ Footprint(b) = b * s
  BY DEF Footprint
<1>3. ForCaches \in Int
  BY Terms DEF ForCaches
<1> HIDE DEF s
<1>4. a * s \in Nat /\ a * s <= b * s
  BY <1>1, ProductNatural, Multiplied
<1>5. QED
  BY <1>2, <1>3, <1>4

(* The constraint a plan names is real, for every request whose caches have *)
(* no windows, however far apart the two samples are: past whatever stops   *)
(* it but the cache the caches still fit, and a cache that stops it is full *)
(* unless the larger sample reads above the search's.                       *)
THEOREM BindingHonest == Spec => []BindingReal
<1>1. ASSUME PlanDerived, Searched, HeadroomFits, HeadroomSearch!TypeOK PROVE BindingReal
  <2> DEFINE r == request
             c == request.model.cache
             h == result
             full == SequenceBytes(c, r.maxlen, r.kv, r.tp)
  <2> SUFFICES ASSUME Fresh, Windowless(c), ScalesWithContext(c)
               PROVE  /\ plan.binding # "kv_working_set" => Footprint(r.seqs + 1) <= ForCaches
                      /\ plan.binding = "kv_working_set" =>
                           CacheStops
                             \/ (r.skew > 0 /\ WorkingSet(r) * plan.perToken > plan.kv)
                      /\ plan.binding = "compute_bound" =>
                           \E b \in plan.critical : Footprint(b) <= ForCaches
                      /\ plan.binding = "max_model_len" => r.seqs * full <= ForCaches
                      /\ CacheLimited(plan) =>
                           plan.headroom = Ceiling
                             \/ \A b \in plan.critical : Footprint(b) > ForCaches
                      /\ ~CacheLimited(plan) /\ plan.critical # {} =>
                           \E b \in plan.critical : Footprint(b) <= ForCaches
    BY DEF BindingReal
  <2>1. /\ r \in Requests /\ WellPosed(r) /\ plan.headroom = h /\ plan.binding = Binding(r, h)
        /\ plan.critical = r.gpu.critical /\ plan.kv = KvBudget(r)
        /\ plan.perToken = PerToken(r)
    BY <1>1, FreshEstimate, RequestsAssumption DEF PlanDerived
  <2>2. /\ r.seqs \in Nat /\ r.length \in Nat /\ r.maxlen \in Nat /\ r.skew \in Int
        /\ PerToken(r) \in Nat \ {0} /\ KvBudget(r) \in Int /\ KvTokens(r) \in Int
        /\ r.gpu.critical \subseteq Nat /\ h \in Nat /\ h <= Ceiling /\ Ceiling \in Nat
    <3>1. h \in Nat /\ h <= Ceiling /\ Ceiling \in Nat
      BY <1>1, PlanAssumption DEF HeadroomSearch!TypeOK, Positive
    <3>2. PerToken(r) \in Nat \ {0} /\ KvBudget(r) \in Int
      BY <2>1, Terms DEF Positive
    <3>3. KvTokens(r) \in Int
      BY <3>2 DEF KvTokens
    <3>4. QED
      BY <2>1, <3>1, <3>2, <3>3, Terms DEF WellPosed
  <2>3. Footprint(h) <= ForCaches /\ (h < Ceiling => Footprint(h + 1) > ForCaches)
    BY <1>1, <2>1 DEF HeadroomFits, Largest
  <2>4. /\ \A a, b \in Nat : a <= b => Footprint(a) \in Nat /\ Footprint(a) <= Footprint(b)
        /\ ForCaches \in Int
    BY <2>1, FootprintGrows
  <2>5. WorkingSet(r) \in Int /\ WorkingSet(r) = Larger(0, r.seqs * r.length + r.skew)
    BY <2>2 DEF WorkingSet, Larger
  <2> HIDE DEF r, h, full
  <2>9. ASSUME NEW b \in plan.critical
        PROVE  /\ b <= h => Footprint(b) <= ForCaches
               /\ h < b => h = Ceiling \/ Footprint(b) > ForCaches
    <3>1. b \in Nat
      BY <2>1, <2>2
    <3>2. CASE b <= h
      <4>1. Footprint(b) \in Nat /\ Footprint(b) <= Footprint(h) /\ Footprint(h) \in Nat
        BY <2>2, <2>4, <3>1, <3>2
      <4>2. QED
        BY <2>2, <2>3, <2>4, <3>1, <3>2, <4>1
    <3>3. CASE h < b /\ h < Ceiling
      <4>1. h + 1 \in Nat /\ h + 1 <= b
        BY <2>2, <3>1, <3>3
      <4>2. Footprint(h + 1) <= Footprint(b) /\ Footprint(b) \in Nat /\ Footprint(h + 1) \in Nat
        BY <2>4, <3>1, <4>1
      <4>3. QED
        BY <2>2, <2>3, <2>4, <3>1, <3>3, <4>2
    <3>4. QED
      BY <2>2, <3>1, <3>2, <3>3
  <2>10. CacheLimited(plan) =>
           plan.headroom = Ceiling \/ \A b \in plan.critical : Footprint(b) > ForCaches
    BY <2>1, <2>9 DEF CacheLimited
  <2>11. ~CacheLimited(plan) /\ plan.critical # {} =>
           \E b \in plan.critical : Footprint(b) <= ForCaches
    <3> SUFFICES ASSUME ~CacheLimited(plan), plan.critical # {}
                 PROVE  \E b \in plan.critical : Footprint(b) <= ForCaches
      OBVIOUS
    <3>1. PICK b \in plan.critical : ~(h < b)
      BY <2>1 DEF CacheLimited
    <3>2. b \in Nat /\ h \in Nat
      BY <2>1, <2>2
    <3>3. QED
      BY <2>9, <3>1, <3>2
  <2> SUFFICES /\ plan.binding # "kv_working_set" => Footprint(r.seqs + 1) <= ForCaches
               /\ plan.binding = "kv_working_set" =>
                    CacheStops \/ (r.skew > 0 /\ WorkingSet(r) * plan.perToken > plan.kv)
               /\ plan.binding = "compute_bound" =>
                    \E b \in plan.critical : Footprint(b) <= ForCaches
               /\ plan.binding = "max_model_len" => r.seqs * full <= ForCaches
    BY <2>10, <2>11 DEF full, r
  <2>6. CASE WorkingSet(r) > KvTokens(r) \/ h <= r.seqs
    <3>1. plan.binding = "kv_working_set"
      BY <2>1, <2>6 DEF Binding, r
    <3>2. CASE h <= r.seqs
      <4>1. CASE h = Ceiling
        BY <2>1, <3>1, <4>1 DEF CacheStops
      <4>2. CASE h < Ceiling
        <5>1. Footprint(h + 1) <= Footprint(r.seqs + 1) /\ Footprint(r.seqs + 1) \in Nat
              /\ Footprint(h + 1) \in Nat
          BY <2>2, <2>4, <3>2
        <5>2. Footprint(r.seqs + 1) > ForCaches
          BY <2>3, <2>4, <4>2, <5>1
        <5>3. QED
          BY <3>1, <5>2 DEF CacheStops, r
      <4>3. QED
        BY <2>2, <4>1, <4>2
    <3>3. CASE WorkingSet(r) > KvTokens(r) /\ r.skew > 0
      <4>1. ~(WorkingSet(r) * PerToken(r) <= KvBudget(r))
        <5>1. WorkingSet(r) * PerToken(r) <= KvBudget(r)
                <=> WorkingSet(r) <= KvBudget(r) \div PerToken(r)
          BY <2>2, <2>5, Divided
        <5>2. KvTokens(r) = KvBudget(r) \div PerToken(r)
          BY DEF KvTokens
        <5>3. QED
          BY <2>2, <2>5, <3>3, <5>1, <5>2
      <4>2. WorkingSet(r) * PerToken(r) \in Int
        BY <2>2, <2>5
      <4>3. QED
        BY <2>1, <2>2, <3>1, <3>3, <4>1, <4>2
    <3>4. CASE WorkingSet(r) > KvTokens(r) /\ ~(r.skew > 0)
      <4>1. 0 <= KvTokens(r) \/ ~(r.seqs * r.length <= KvTokens(r))
        <5>1. r.seqs * r.length \in Nat
          BY <2>2, ProductNatural
        <5>2. QED
          BY <2>2, <5>1
      <4>2. ~(r.seqs * r.length <= KvTokens(r))
        <5>1. r.seqs * r.length \in Nat
          BY <2>2, ProductNatural
        <5>2. QED
          BY <2>2, <2>5, <3>4, <4>1, <5>1 DEF Larger
      <4>3. ~(Footprint(r.seqs) <= ForCaches)
        BY <2>1, <2>2, <4>2, ServedCosts DEF Footprint, ForCaches, r
      <4>4. Footprint(r.seqs) <= Footprint(r.seqs + 1) /\ Footprint(r.seqs) \in Nat
            /\ Footprint(r.seqs + 1) \in Nat
        BY <2>2, <2>4
      <4>5. Footprint(r.seqs + 1) > ForCaches
        BY <2>4, <4>3, <4>4
      <4>6. QED
        BY <3>1, <4>5 DEF CacheStops, r
    <3>5. QED
      BY <2>6, <3>2, <3>3, <3>4
  <2>7. CASE ~(WorkingSet(r) > KvTokens(r) \/ h <= r.seqs)
    <3>1. h > r.seqs
      BY <2>2, <2>7
    <3>2. \A b \in Nat : b <= h => Footprint(b) <= ForCaches
      <4> SUFFICES ASSUME NEW b \in Nat, b <= h PROVE Footprint(b) <= ForCaches
        OBVIOUS
      <4>1. Footprint(b) \in Nat /\ Footprint(b) <= Footprint(h) /\ Footprint(h) \in Nat
        BY <2>2, <2>4
      <4>2. QED
        BY <2>3, <2>4, <4>1
    <3>3. Footprint(r.seqs + 1) <= ForCaches
      BY <2>2, <3>1, <3>2
    <3>4. CASE \E b \in r.gpu.critical : r.seqs >= b
      <4>1. plan.binding = "compute_bound"
        BY <2>1, <2>7, <3>4 DEF Binding, r
      <4>2. PICK b \in r.gpu.critical : r.seqs >= b
        BY <3>4
      <4>3. Footprint(b) <= ForCaches
        BY <2>2, <3>1, <3>2, <4>2
      <4>4. QED
        BY <2>1, <3>3, <4>1, <4>3
    <3>5. CASE /\ ~\E b \in r.gpu.critical : r.seqs >= b
               /\ r.maxlen < r.model.maxpos /\ KvTokens(r) >= r.seqs * r.maxlen
      <4>1. plan.binding = "max_model_len"
        BY <2>1, <2>7, <3>5 DEF Binding, r
      <4>2. r.seqs * r.maxlen <= KvTokens(r)
        BY <2>2, <3>5
      <4>3. r.seqs * full <= ForCaches
        BY <2>1, <2>2, <4>2, ServedCosts DEF ForCaches, r, full
      <4>4. QED
        BY <3>3, <4>1, <4>3
    <3>6. CASE /\ ~\E b \in r.gpu.critical : r.seqs >= b
               /\ ~(r.maxlen < r.model.maxpos /\ KvTokens(r) >= r.seqs * r.maxlen)
      <4>1. CASE \A b \in r.gpu.critical : h < b
        <5>1. plan.binding = "kv_working_set"
          BY <2>1, <2>7, <3>6, <4>1 DEF Binding, r
        <5>2. CASE h = Ceiling
          BY <2>1, <5>1, <5>2 DEF CacheStops
        <5>3. CASE h < Ceiling
          <6>1. ASSUME NEW b \in plan.critical PROVE Footprint(b) > ForCaches
            <7>1. b \in Nat /\ h + 1 <= b
              BY <2>1, <2>2, <4>1, <6>1
            <7>2. Footprint(h + 1) <= Footprint(b) /\ Footprint(b) \in Nat
                  /\ Footprint(h + 1) \in Nat
              BY <2>2, <2>4, <7>1
            <7>3. QED
              BY <2>3, <2>4, <5>3, <7>2
          <6>2. QED
            BY <5>1, <6>1 DEF CacheStops
        <5>4. QED
          BY <2>2, <5>2, <5>3
      <4>2. CASE ~\A b \in r.gpu.critical : h < b
        <5>1. plan.binding = "compute_bound"
          BY <2>1, <2>7, <3>6, <4>2 DEF Binding, r
        <5>2. PICK b \in r.gpu.critical : ~(h < b)
          BY <4>2
        <5>3. Footprint(b) <= ForCaches
          BY <2>2, <3>2, <5>2
        <5>4. QED
          BY <2>1, <3>3, <5>1, <5>3
      <4>3. QED
        BY <4>1, <4>2
    <3>7. QED
      BY <3>4, <3>5, <3>6
  <2>8. QED
    BY <2>6, <2>7 DEF full, r
<1>2. Spec => []PlanDerived
  BY InitDerived, NextDerived, PTL DEF Spec
<1>3. Spec => []HeadroomSearch!TypeOK
  BY LaunchSearches, BracketHolds, PTL
<1>4. QED
  BY <1>1, <1>2, <1>3, SearchedHolds, HeadroomExact, PTL

-----------------------------------------------------------------------------
(* Re-deriving for fp8.                                                     *)

(* The request that asks for fp8 instead of 16 bits: only the state and the *)
(* cost of a token change, so what there is for caches stays.               *)
LEMMA AskedInstead ==
  ASSUME NEW r, WellPosed(r), r.kv = "bf16"
  PROVE  LET q == [r EXCEPT !.kv = "fp8"]
         IN  /\ WellPosed(q) /\ q.length = r.length
             /\ PerToken(q) = CacheBytesPerToken(r.model.cache, "fp8", r.tp)
             /\ FixedPerSequence(r) = 2 * FixedPerSequence(q)
             /\ KvBudget(q) + RecurrentState(q) = KvBudget(r) + RecurrentState(r)
             /\ KvBudget(q) = KvBudget(r) + FixedPerSequence(q) * r.seqs
             /\ Latent(r.model.cache) => PerToken(q) <= PerToken(r)
<1> DEFINE q == [r EXCEPT !.kv = "fp8"]
<1>1. /\ q.model = r.model /\ q.gpu = r.gpu /\ q.length = r.length /\ q.seqs = r.seqs
      /\ q.skew = r.skew
      /\ q.maxlen = r.maxlen /\ q.tp = r.tp /\ q.eager = r.eager /\ q.kv = "fp8"
      /\ DOMAIN q = DOMAIN r
  BY DEF WellPosed
<1> HIDE DEF q
<1>2. WellPosed(q)
  BY <1>1 DEF WellPosed, KvDtypes
<1>3. Weights(q) = Weights(r) /\ Safety(q) = Safety(r) /\ Overheads(q) = Overheads(r)
  BY <1>1 DEF Weights, Safety, Overheads
<1>4. /\ FixedPerSequence(q) = FixedBytesPerSequence(r.model.cache, "fp8", r.tp)
      /\ FixedPerSequence(r) = FixedBytesPerSequence(r.model.cache, "bf16", r.tp)
      /\ PerToken(q) = CacheBytesPerToken(r.model.cache, "fp8", r.tp)
      /\ PerToken(r) = CacheBytesPerToken(r.model.cache, "bf16", r.tp)
  BY <1>1 DEF FixedPerSequence, PerToken
<1>5. /\ FixedPerSequence(r) = 2 * FixedPerSequence(q)
      /\ Latent(r.model.cache) => PerToken(q) <= PerToken(r)
  BY <1>4, Narrowed, Terms
<1> DEFINE f == FixedPerSequence(q)
           g == FixedPerSequence(r)
           k == r.gpu.usable
           t == TorchSide(Overheads(r))
<1>6. /\ f \in Nat /\ g \in Nat /\ r.seqs \in Nat /\ k \in Int /\ Weights(r) \in Int /\ Safety(r) \in Int
      /\ t \in Int
  BY <1>2, Terms DEF TorchSide
<1>7. /\ KvBudget(r) = k - (Weights(r) + t + Safety(r) + g * r.seqs)
      /\ KvBudget(q) = k - (Weights(r) + t + Safety(r) + f * r.seqs)
      /\ RecurrentState(r) = g * r.seqs
      /\ RecurrentState(q) = f * r.seqs
  BY <1>1, <1>3 DEF KvBudget, RecurrentState
<1>8. g = 2 * f
  BY <1>5
<1> HIDE DEF f, g, k, t
<1>9. g * r.seqs = f * r.seqs + f * r.seqs /\ f * r.seqs \in Nat
  BY <1>6, <1>8
<1>10. /\ KvBudget(q) + RecurrentState(q) = KvBudget(r) + RecurrentState(r)
       /\ KvBudget(q) = KvBudget(r) + f * r.seqs
  BY <1>6, <1>7, <1>9
<1>11. QED
  BY <1>1, <1>2, <1>4, <1>5, <1>10 DEF q, f

(* A concurrency that fits in 16 bits fits in 8.                            *)
LEMMA FitsInstead ==
  ASSUME NEW r, WellPosed(r), r.kv = "bf16", Latent(r.model.cache),
         NEW h \in Nat, Fits(r, h)
  PROVE  Fits([r EXCEPT !.kv = "fp8"], h)
<1> DEFINE q == [r EXCEPT !.kv = "fp8"]
           f == FixedPerSequence(q)
           p == PerToken(q)
           o == PerToken(r)
           g == FixedPerSequence(r)
           l == r.length
           x == KvBudget(r) + RecurrentState(r)
<1>1. /\ WellPosed(q) /\ q.length = l /\ g = 2 * f /\ p <= o
      /\ KvBudget(q) + RecurrentState(q) = x
  BY AskedInstead
<1>2. f \in Nat /\ g \in Nat /\ p \in Nat /\ o \in Nat /\ l \in Nat /\ x \in Int
  BY <1>1, Terms DEF Positive
<1>3. Fits(r, h) <=> h * g + h * l * o <= x
  BY DEF Fits
<1>4. Fits(q, h) <=> h * f + h * l * p <= x
  BY <1>1 DEF Fits
<1> HIDE DEF q, f, p, o, g, l, x
<1>5. h * l \in Nat /\ h * l * o \in Nat /\ h * l * p \in Nat /\ h * f \in Nat /\ h * g \in Nat
  BY <1>2, ProductNatural
<1>6. h * l * p <= h * l * o /\ h * f <= h * g
  BY <1>1, <1>2, <1>5, Multiplied
<1>7. QED
  BY <1>2, <1>3, <1>4, <1>5, <1>6 DEF q

LEMMA SwitchedEstimate ==
  ASSUME PlanDerived, Switched
  PROVE  /\ plan = WithKvDtype(EstimatePlan(request, result), request.model.cache, "fp8")
         /\ plan # None
         /\ request.kv = "bf16"
         /\ plan.kv = KvBudget(request)
         /\ plan.perToken = CacheBytesPerToken(request.model.cache, "fp8", request.tp)
<1> DEFINE e == EstimatePlan(request, result)
<1>1. e.dtype = request.kv /\ e.kv = KvBudget(request) /\ e.tp = request.tp
  BY DEF EstimatePlan
<1>2. plan = WithKvDtype(e, request.model.cache, "fp8")
  BY <1>1 DEF PlanDerived, Switched
<1>3. DOMAIN e = {"weights", "activation", "fixed", "safety", "kv", "perToken", "tp", "dtype",
                  "binding", "headroom", "critical", "ledger"}
  BY DEF EstimatePlan
<1> HIDE DEF e
<1>4. /\ plan.dtype = "fp8" /\ plan.kv = KvBudget(request)
      /\ plan.perToken = CacheBytesPerToken(request.model.cache, "fp8", request.tp)
      /\ DOMAIN plan = DOMAIN e
  BY <1>1, <1>2, <1>3 DEF WithKvDtype
<1>5. plan # None
  <2>1. "kv" \in DOMAIN plan
    BY <1>3, <1>4
  <2>2. QED
    BY <2>1 DEF None
<1>6. request.kv = "bf16"
  <2>1. request.kv \in {"bf16", "fp8"}
    BY RequestsAssumption DEF PlanDerived, WellPosed, KvDtypes
  <2>2. QED
    BY <1>4, <2>1 DEF Switched
<1>7. QED
  BY <1>2, <1>4, <1>5, <1>6 DEF e

(* with_kv_dtype promises no more than an estimate for fp8 would.  The      *)
(* latent must outweigh its 16 bytes of scales, as every published one      *)
(* does: below a rank of 16, fp8 takes more bytes for a token than 16 bits  *)
(* do, and the old headroom may not fit.                                    *)
THEOREM SwitchingSafe ==
  ASSUME \A r \in Requests : Latent(r.model.cache)
  PROVE  Spec => []SwitchSafe
<1>1. ASSUME PlanDerived, Searched, Promised, HeadroomSearch!TypeOK
      PROVE  SwitchSafe
  <2> DEFINE r == request
             q == [request EXCEPT !.kv = "fp8"]
             h == plan.headroom
             p == PerToken(q)
  <2> SUFFICES ASSUME Switched
               PROVE  /\ Reconciles
                      /\ KvBudgetTokens(plan) <= KvTokens(q)
                      /\ FixedPerSequence(q) = 0 => KvBudgetTokens(plan) = KvTokens(q)
                      /\ h > 0 => Fits(q, h)
    BY DEF SwitchSafe
  <2>1. /\ r \in Requests /\ WellPosed(r) /\ r.kv = "bf16" /\ Latent(r.model.cache)
        /\ plan # None /\ plan.kv = KvBudget(r)
    BY <1>1, SwitchedEstimate, RequestsAssumption DEF PlanDerived
  <2>2. /\ WellPosed(q) /\ KvBudget(q) = KvBudget(r) + FixedPerSequence(q) * r.seqs
        /\ plan.perToken = p
    BY <1>1, <2>1, AskedInstead, SwitchedEstimate
  <2>3. KvBudgetTokens(plan) = KvBudget(r) \div p /\ KvTokens(q) = KvBudget(q) \div p
    BY <2>1, <2>2 DEF KvBudgetTokens, KvTokens
  <2>4. /\ p \in Nat \ {0} /\ KvBudget(r) \in Int /\ KvBudget(q) \in Int
        /\ FixedPerSequence(q) \in Nat /\ r.seqs \in Nat
    BY <2>1, <2>2, Terms DEF Positive
  <2>5. h > 0 => Fits(q, h)
    <3>1. h \in Nat
      BY <1>1, <2>1, PlanAssumption DEF Searched, HeadroomSearch!TypeOK, Positive
    <3>2. h > 0 => Fits(r, h)
      BY <1>1, <2>1 DEF Promised
    <3>3. QED
      BY <2>1, <3>1, <3>2, FitsInstead
  <2> HIDE DEF p, q, h, r
  <2>6. /\ KvBudget(r) <= KvBudget(q)
        /\ FixedPerSequence(q) = 0 => KvBudget(r) = KvBudget(q)
    <3>1. FixedPerSequence(q) * r.seqs \in Nat
      BY <2>4, ProductNatural
    <3>2. QED
      BY <2>2, <2>4, <3>1
  <2>7. KvBudget(r) \div p <= KvBudget(q) \div p
    <3>1. KvBudget(r) \div p \in Int /\ (KvBudget(r) \div p) * p <= KvBudget(r)
      BY <2>4
    <3>2. (KvBudget(r) \div p) * p \in Int
      BY <2>4, <3>1
    <3>3. (KvBudget(r) \div p) * p <= KvBudget(q)
      BY <2>4, <2>6, <3>1, <3>2
    <3>4. QED
      BY <2>4, <3>1, <3>3, Divided
  <2>8. Reconciles
    BY <1>1, DerivedReconciles
  <2>9. QED
    BY <2>3, <2>5, <2>6, <2>7, <2>8
<1>2. Spec => []PlanDerived
  BY InitDerived, NextDerived, PTL DEF Spec
<1>3. Spec => []HeadroomSearch!TypeOK
  BY LaunchSearches, BracketHolds, PTL
<1>4. QED
  BY <1>1, <1>2, <1>3, SearchedHolds, HeadroomPromised, PTL

-----------------------------------------------------------------------------
(* The engine.                                                              *)

(* The flags are those of the plan for an installed engine, and what was    *)
(* booted is what that engine makes of them.                                *)
EngineDerived ==
  /\ phase \in {"compiled", "booted"} =>
       /\ plan # None
       /\ schema \in Schemas
       /\ \E o \in Options : spec = Compiled(schema, o)
  /\ phase = "booted" =>
       /\ spec.errors = {}
       /\ booted = [dtype |-> EngineDtype, kv |-> EngineKv,
                    used |-> plan.weights + EngineOverheads + EngineKv + EngineState]

LEMMA CompiledStays ==
  ASSUME plan' = plan, request' = request, NEW s, NEW o
  PROVE  Compiled(s, o)' = Compiled(s, o)
BY DEF Compiled, Lever, Flags, Errors, Warnings, Wanted, Accepted, Clamped, Fraction, CeilingOf,
       SafeCeiling, Needed

LEMMA EngineDerivedHolds == Spec => []EngineDerived
<1>1. Init => EngineDerived
  BY DEF Init, EngineDerived
<1>2. PlanDerived /\ EngineDerived /\ [Next]_vars => EngineDerived'
  <2> SUFFICES ASSUME PlanDerived, EngineDerived, [Next]_vars PROVE EngineDerived'
    OBVIOUS
  <2>1. CASE Compile
    <3>1. PICK s \in Schemas, o \in Options : spec' = Compiled(s, o) /\ schema' = s
      BY <2>1 DEF Compile
    <3>2. plan' = plan /\ request' = request /\ phase = "planned" /\ phase' = "compiled"
      BY <2>1 DEF Compile
    <3>3. plan # None
      <4> DEFINE e == EstimatePlan(request, result)
      <4>1. "weights" \in DOMAIN e
        BY DEF EstimatePlan
      <4>2. plan = e \/ plan = WithKvDtype(e, request.model.cache, "fp8")
        BY <3>2 DEF PlanDerived
      <4> HIDE DEF e
      <4>3. "weights" \in DOMAIN plan
        BY <4>1, <4>2 DEF WithKvDtype
      <4>4. QED
        BY <4>3 DEF None
    <3>4. Compiled(s, o)' = Compiled(s, o)
      BY <3>2, CompiledStays
    <3>5. spec' = Compiled(schema, o)'
      BY <3>1, <3>4 DEF Compiled, Lever, Flags, Errors, Warnings, Wanted, Accepted, Clamped,
           Fraction, CeilingOf, SafeCeiling, Needed
    <3>6. QED
      BY <3>1, <3>2, <3>3, <3>5 DEF EngineDerived
  <2>2. CASE Boot
    <3>1. phase = "compiled" /\ spec.errors = {} /\ phase' = "booted"
      BY <2>2 DEF Boot, Runnable
    <3>2. UNCHANGED <<request, plan, spec, schema>>
      BY <2>2 DEF Boot
    <3>3. booted' = [dtype |-> EngineDtype, kv |-> EngineKv,
                     used |-> plan.weights + EngineOverheads + EngineKv + EngineState]
      BY <2>2 DEF Boot
    <3>4. /\ EngineDtype' = EngineDtype /\ EngineKv' = EngineKv
          /\ EngineOverheads' = EngineOverheads /\ EngineState' = EngineState
      BY <3>2 DEF EngineDtype, EngineKv, EngineOverheads, EngineState
    <3>5. \A o : Compiled(schema, o)' = Compiled(schema, o)
      BY <3>2 DEF Compiled, Lever, Flags, Errors, Warnings, Wanted, Accepted, Clamped,
           Fraction, CeilingOf, SafeCeiling, Needed
    <3>6. QED
      BY <3>1, <3>2, <3>3, <3>4, <3>5 DEF EngineDerived
  <2>3. CASE Refuse \/ Admit \/ Search \/ Plan \/ Switch
    <3>1. phase' \notin {"compiled", "booted"}
      BY <2>3 DEF Refuse, Admit, Search, Plan, Switch
    <3>2. QED
      BY <3>1 DEF EngineDerived
  <2>4. CASE Stopped \/ UNCHANGED vars
    <3>1. UNCHANGED <<request, plan, spec, schema, booted, phase>>
      BY <2>4 DEF Stopped, vars
    <3>2. /\ EngineDtype' = EngineDtype /\ EngineKv' = EngineKv
          /\ EngineOverheads' = EngineOverheads /\ EngineState' = EngineState
      BY <3>1 DEF EngineDtype, EngineKv, EngineOverheads, EngineState
    <3>3. \A o : Compiled(schema, o)' = Compiled(schema, o)
      BY <3>1 DEF Compiled, Lever, Flags, Errors, Warnings, Wanted, Accepted, Clamped,
           Fraction, CeilingOf, SafeCeiling, Needed
    <3>4. QED
      BY <3>1, <3>2, <3>3 DEF EngineDerived
  <2>5. QED
    BY <2>1, <2>2, <2>3, <2>4 DEF Next
<1>3. Spec => []PlanDerived
  BY InitDerived, NextDerived, PTL DEF Spec
<1>4. QED
  BY <1>1, <1>2, <1>3, PTL DEF Spec

(* The terms of a plan, re-derived or not.                                  *)
LEMMA PlanTerms ==
  ASSUME PlanDerived, plan # None
  PROVE  LET r == request
             o == Overheads(r)
         IN  /\ WellPosed(r)
             /\ plan.weights = Weights(r) /\ plan.activation = o.prefill + o.logits
             /\ plan.fixed = o.graph + o.workspace + RecurrentState(r)
             /\ plan.kv = KvBudget(r) /\ plan.tp = r.tp
             /\ plan.dtype \in KvDtypes
             /\ plan.perToken = CacheBytesPerToken(r.model.cache, plan.dtype, r.tp)
<1> DEFINE r == request
           e == EstimatePlan(request, result)
<1>1. WellPosed(r)
  BY RequestsAssumption DEF PlanDerived
<1>2. r.kv \in KvDtypes /\ "fp8" \in KvDtypes
  BY <1>1, Terms DEF KvDtypes
<1>3. /\ e.weights = Weights(r) /\ e.activation = Overheads(r).prefill + Overheads(r).logits
      /\ e.fixed = Overheads(r).graph + Overheads(r).workspace + RecurrentState(r)
      /\ e.kv = KvBudget(r) /\ e.tp = r.tp /\ e.dtype = r.kv
      /\ e.perToken = CacheBytesPerToken(r.model.cache, r.kv, r.tp)
      /\ DOMAIN e = {"weights", "activation", "fixed", "safety", "kv", "perToken", "tp", "dtype",
                     "binding", "headroom", "critical", "ledger"}
  BY DEF EstimatePlan, PerToken
<1>4. plan = e \/ plan = WithKvDtype(e, r.model.cache, "fp8")
  BY DEF PlanDerived
<1> HIDE DEF e, r
<1>5. CASE plan = e
  BY <1>1, <1>2, <1>3, <1>5 DEF r
<1>6. CASE plan = WithKvDtype(e, r.model.cache, "fp8")
  <2>1. /\ plan.weights = e.weights /\ plan.activation = e.activation /\ plan.fixed = e.fixed
        /\ plan.kv = e.kv /\ plan.tp = e.tp /\ plan.dtype = "fp8"
        /\ plan.perToken = CacheBytesPerToken(r.model.cache, "fp8", e.tp)
    BY <1>3, <1>6 DEF WithKvDtype
  <2>2. QED
    BY <1>1, <1>2, <1>3, <2>1 DEF r
<1>7. QED
  BY <1>4, <1>5, <1>6

(* What rounding a fraction to a ten-thousandth, and its share to a byte,   *)
(* loses, and what it may add: the safety margin covers it from five        *)
(* percent up.                                                              *)
LEMMA Rounding ==
  ASSUME NEW n \in Nat, NEW g \in Positive, NEW v \in Nat, v >= RoundDiv(10000 * n, g)
  PROVE  LET share == RoundDiv(v * g, 10000)
         IN  /\ share \in Nat
             /\ share + CeilDiv(g, 20000) + 1 >= n
             /\ \A u \in Nat : v = RoundDiv(10000 * n, g) /\ v > 500 /\ n <= u
                  => share <= n + RoundDiv(3 * u, 100)
<1> DEFINE share == RoundDiv(v * g, 10000)
           x == v * g
<1>1. g \in Nat /\ g > 0 /\ x \in Nat
  BY ProductNatural DEF Positive
<1>2. share \in Nat /\ 10000 * share <= x + 5000 /\ x + 5000 <= 10000 * share + 9999
  <2>1. share = (x + 5000) \div 10000
    BY DEF RoundDiv
  <2> HIDE DEF x, share
  <2>2. QED
    BY <1>1, <2>1
<1> DEFINE w == RoundDiv(10000 * n, g)
           y == w * g
<1>3. w \in Int /\ y \in Int /\ y <= 10000 * n + g \div 2 /\ 10000 * n + g \div 2 < y + g
  <2>1. w = (10000 * n + g \div 2) \div g
    BY DEF RoundDiv
  <2> DEFINE a == 10000 * n + g \div 2
  <2>2. a \in Nat
    BY <1>1
  <2>3. w = a \div g
    BY <2>1
  <2> HIDE DEF w, a
  <2>4. w \in Int /\ w * g \in Int /\ w * g <= a /\ a < w * g + g
    BY <1>1, <2>2, <2>3
  <2>5. QED
    BY <2>4 DEF a
<1>4. y <= x
  BY <1>1, <1>3, Multiplied
<1>5. CeilDiv(g, 20000) \in Nat /\ 20000 * CeilDiv(g, 20000) >= g
  BY <1>1 DEF CeilDiv
<1> HIDE DEF share, x, y, w
<1>6. share + CeilDiv(g, 20000) + 1 >= n
  <2>1. 2 * (g \div 2) + 1 >= g /\ g \div 2 \in Nat
    BY <1>1
  <2>2. QED
    BY <1>1, <1>2, <1>3, <1>4, <1>5, <2>1
<1>7. ASSUME NEW u \in Nat, v = w, v > 500, n <= u
      PROVE  share <= n + RoundDiv(3 * u, 100)
  <2> DEFINE s == RoundDiv(3 * u, 100)
  <2>1. s \in Nat /\ 100 * s + 99 >= 3 * u + 50
    BY DEF RoundDiv
  <2>2. 501 * g <= x
    BY <1>1, <1>7, Multiplied DEF x
  <2>3. x = y
    BY <1>7 DEF x, y
  <2>4. 2 * (g \div 2) <= g /\ g \div 2 \in Nat
    BY <1>1
  <2> HIDE DEF s
  <2>5. 1001 * g <= 20000 * u
    BY <1>1, <1>3, <1>7, <2>2, <2>3, <2>4
  <2>6. 20000 * share <= 20000 * n + g + 10000
    BY <1>1, <1>2, <1>3, <2>3, <2>4
  <2>7. share <= n + s
    BY <1>1, <1>2, <1>7, <2>1, <2>5, <2>6
  <2>8. QED
    BY <2>7 DEF s
<1>8. QED
  BY <1>2, <1>6, <1>7 DEF share, w

(* A fraction that was not clamped is the one needed, five percent or more. *)
LEMMA Unclamped ==
  ASSUME WellPosed(request), NEW engine \in {"vllm", "sglang"}, NEW o \in Options,
         Needed(engine) \in Nat, ~Clamped(engine, o)
  PROVE  Fraction(engine, o) = Larger(500, RoundDiv(10000 * Needed(engine), request.gpu.total))
<1> DEFINE n == Needed(engine)
           g == request.gpu.total
           c == CeilingOf(engine, o)
<1>1. g \in Positive /\ g \in Nat /\ g > 0 /\ request.gpu.usable \in Nat
  BY Terms DEF Positive
<1>2. c \in Int /\ 5 * g <= c
  <2>1. MaxFraction[engine] * g \in Int /\ 5 * g <= MaxFraction[engine] * g
    BY <1>1 DEF MaxFraction
  <2>2. SafeCeiling \in Int /\ 5 * g <= SafeCeiling
    BY <1>1 DEF SafeCeiling, Larger
  <2> HIDE DEF g
  <2>3. QED
    BY <1>1, <2>1, <2>2 DEF CeilingOf, Smaller, g
<1>3. 100 * n <= c
  BY <1>2 DEF Clamped
<1>4. \A a, b \in Int : a <= b => RoundDiv(a, g) <= RoundDiv(b, g) /\ RoundDiv(a, g) \in Int
  <2> SUFFICES ASSUME NEW a \in Int, NEW b \in Int, a <= b
               PROVE  RoundDiv(a, g) <= RoundDiv(b, g) /\ RoundDiv(a, g) \in Int
    OBVIOUS
  <2> DEFINE x == a + g \div 2
             y == b + g \div 2
  <2>1. x \in Int /\ y \in Int /\ x <= y
    BY <1>1
  <2>2. RoundDiv(a, g) = x \div g /\ RoundDiv(b, g) = y \div g
    BY DEF RoundDiv
  <2> HIDE DEF x, y, g
  <2>3. x \div g \in Int /\ (x \div g) * g <= x /\ (x \div g) * g \in Int
    BY <1>1, <2>1
  <2>4. (x \div g) * g <= y
    BY <2>1, <2>3
  <2>5. x \div g <= y \div g
    BY <1>1, <2>1, <2>3, <2>4, Divided
  <2>6. QED
    BY <2>2, <2>3, <2>5
<1>5. RoundDiv(500 * g, g) = 500
  <2> HIDE DEF g
  <2>1. RoundDiv(500 * g, g) = (500 * g + g \div 2) \div g
    BY DEF RoundDiv
  <2>2. g \div 2 \in Nat /\ g \div 2 < g
    BY <1>1
  <2>3. QED
    BY <1>1, <2>1, <2>2
<1>6. 500 * g <= 100 * c /\ 10000 * n <= 100 * c /\ 500 * g \in Int /\ 100 * c \in Int /\ 10000 * n \in Int
  BY <1>1, <1>2, <1>3
<1> DEFINE top == RoundDiv(100 * c, g)
           want == RoundDiv(10000 * n, g)
<1>7. 500 <= top /\ want <= top /\ top \in Int /\ want \in Int
  BY <1>4, <1>5, <1>6
<1>8. Fraction(engine, o) = Smaller(top, Larger(500, want))
  BY DEF Fraction
<1> HIDE DEF top, want
<1>9. QED
  BY <1>7, <1>8 DEF Smaller, Larger, want

(* The engine's own overheads are those the plan counted, and a graph pool  *)
(* when the version cannot be told to do without.                           *)
LEMMA EngineCounts ==
  ASSUME WellPosed(request), NEW s \in Schemas, spec.flags = Flags(s)
  PROVE  /\ Unplanned \in Nat
         /\ EngineOverheads = TorchSide(Overheads(request)) + Unplanned
<1> DEFINE r == request
           q == [request EXCEPT !.eager = "eager" \in spec.flags]
<1>1. "eager" \in spec.flags => r.eager
  BY DEF Flags, Wanted
<1>2. EngineOverheads = TorchSide(Overheads(q))
  BY DEF EngineOverheads
<1>3. /\ Overheads(r).graph \in Nat /\ Overheads(r).workspace \in Nat
      /\ Overheads(r).prefill \in Nat /\ Overheads(r).logits \in Nat
  BY Terms
<1>4. r.eager \in BOOLEAN /\ DOMAIN r = DOMAIN q
  BY DEF WellPosed
<1>5. CASE "eager" \in spec.flags <=> r.eager
  <2>1. q.eager <=> r.eager
    BY <1>5 DEF WellPosed
  <2>2. /\ q.model = r.model /\ q.seqs = r.seqs /\ q.maxlen = r.maxlen /\ q.tp = r.tp
    BY DEF WellPosed
  <2>3. Unplanned = 0
    BY <1>5 DEF Unplanned
  <2> HIDE DEF q, r
  <2>4. Overheads(q) = Overheads(r)
    BY <2>1, <2>2 DEF Overheads
  <2>5. TorchSide(Overheads(r)) \in Nat
    BY <1>3 DEF TorchSide, r
  <2>6. QED
    BY <1>2, <2>3, <2>4, <2>5 DEF r
<1>6. CASE "eager" \notin spec.flags /\ r.eager
  <2>1. q = [r EXCEPT !.eager = FALSE]
    <3>1. ("eager" \in spec.flags) = FALSE
      BY <1>6
    <3>2. QED
      BY <3>1
  <2>2. Unplanned = Overheads(q).graph
    BY <1>6, <2>1 DEF Unplanned
  <2>3. WellPosed(q)
    <3>1. /\ q.model = r.model /\ q.gpu = r.gpu /\ q.length = r.length /\ q.skew = r.skew
          /\ q.seqs = r.seqs /\ q.maxlen = r.maxlen /\ q.tp = r.tp /\ q.kv = r.kv
          /\ q.eager = FALSE
      BY <2>1 DEF WellPosed
    <3> HIDE DEF q
    <3>2. QED
      BY <1>4, <3>1 DEF WellPosed
  <2>4. Overheads(q).graph \in Nat
    BY <2>3, Terms
  <2>5. /\ q.model = r.model /\ q.seqs = r.seqs /\ q.maxlen = r.maxlen /\ q.tp = r.tp
    BY DEF WellPosed
  <2> HIDE DEF q, r
  <2>6. /\ Overheads(q).workspace = Overheads(r).workspace
        /\ Overheads(q).prefill = Overheads(r).prefill /\ Overheads(q).logits = Overheads(r).logits
        /\ Overheads(r).graph = 0
    BY <1>6, <2>5 DEF Overheads
  <2>7. QED
    BY <1>2, <1>3, <2>2, <2>4, <2>6 DEF TorchSide, r
<1>7. QED
  BY <1>1, <1>5, <1>6 DEF r

(* A flag for the dtype is set when the plan's is 8 bits, and only then.    *)
LEMMA EngineKeepsDtype ==
  ASSUME NEW s \in Schemas, NEW o \in Options, spec = Compiled(s, o),
         spec.errors = {}, spec.warnings = {}, plan.dtype \in KvDtypes
  PROVE  EngineDtype = plan.dtype
<1>1. "kv_dtype" \in s.roles /\ Accepted(s, plan.dtype) # {}
  <2>1. Errors(s, o) = {} /\ Warnings(s, o) = {}
    BY DEF Compiled
  <2>2. "kv_dtype" \in s.roles
    BY <2>1 DEF Warnings
  <2>3. QED
    BY <2>1, <2>2 DEF Errors
<1>2. spec.flags = Flags(s)
  BY DEF Compiled
<1>3. "kv_dtype" \notin Wanted
  BY DEF Wanted
<1>4. "kv_dtype" \in spec.flags <=> plan.dtype = "fp8"
  BY <1>1, <1>2, <1>3 DEF Flags
<1>5. QED
  BY <1>4 DEF EngineDtype, KvDtypes

(* Whatever parameters an installed version has, the engine that a plan     *)
(* without warnings starts has the dtype and the cache that were planned    *)
(* and stays within usable memory, up to the graph pool of a version that   *)
(* cannot be told to do without and what the floor of five percent adds.    *)
THEOREM EngineHonours == Spec => []EngineHonoursPlan
<1>1. ASSUME PlanDerived, EngineDerived, Admitted
      PROVE  EngineHonoursPlan
  <2> DEFINE r == request
             c == request.model.cache
             k == spec.lever.kind
             v == spec.lever.value
             t == TorchSide(Overheads(request))
             rec == RecurrentState(request)
             u == request.gpu.usable
             g == request.gpu.total
             w == plan.weights
             share == RoundDiv(v * g, 10000)
  <2> SUFFICES ASSUME phase = "booted", spec.warnings = {}, Windowless(c)
               PROVE  /\ booted.dtype = plan.dtype
                      /\ ScalesWithContext(c) => booted.kv + Slack + Unplanned >= plan.kv
                      /\ booted.used <= u + Unplanned + Floor
    BY DEF EngineHonoursPlan
  <2>1. PICK o \in Options : spec = Compiled(schema, o)
    BY <1>1 DEF EngineDerived
  <2>2. /\ plan # None /\ schema \in Schemas /\ spec.errors = {} /\ spec.flags = Flags(schema)
        /\ spec.lever = Lever(schema, o) /\ Feasible(r) /\ schema.engine \in {"vllm", "sglang"}
    <3>1. plan # None /\ schema \in Schemas /\ spec.errors = {} /\ Feasible(r)
      BY <1>1 DEF EngineDerived, Admitted
    <3>2. schema.engine \in {"vllm", "sglang"}
      BY <3>1, SchemasAssumption DEF Schema
    <3>3. QED
      BY <2>1, <3>1, <3>2 DEF Compiled
  <2>3. /\ WellPosed(r) /\ w = Weights(r) /\ plan.kv = KvBudget(r) /\ plan.tp = r.tp
        /\ plan.activation = Overheads(r).prefill + Overheads(r).logits
        /\ plan.fixed = Overheads(r).graph + Overheads(r).workspace + rec
        /\ plan.dtype \in KvDtypes
        /\ plan.perToken = CacheBytesPerToken(c, plan.dtype, r.tp)
    BY <1>1, <2>2, PlanTerms
  <2>4. EngineDtype = plan.dtype /\ EngineOverheads = t + Unplanned /\ Unplanned \in Nat
    BY <2>1, <2>2, <2>3, EngineKeepsDtype, EngineCounts
  <2>5. /\ booted.dtype = plan.dtype /\ booted.kv = EngineKv
        /\ booted.used = w + (t + Unplanned) + EngineKv + EngineState
    BY <1>1, <2>4 DEF EngineDerived
  <2>6. /\ w \in Nat /\ t \in Nat /\ rec \in Nat /\ u \in Nat /\ g \in Positive /\ u <= g
        /\ plan.kv \in Nat /\ Safety(r) \in Nat
        /\ w + t + rec + Safety(r) + plan.kv = u
        /\ plan.activation + plan.fixed = t + rec
        /\ plan.activation \in Nat /\ plan.fixed \in Nat
    <3>1. /\ w \in Nat /\ rec \in Nat /\ u \in Nat /\ g \in Positive /\ u <= g
          /\ plan.kv \in Nat /\ Safety(r) \in Nat
          /\ Overheads(r).graph \in Nat /\ Overheads(r).workspace \in Nat
          /\ Overheads(r).prefill \in Nat /\ Overheads(r).logits \in Nat
      BY <2>2, <2>3, Terms DEF Feasible
    <3>2. t = Overheads(r).graph + Overheads(r).workspace + Overheads(r).prefill
                + Overheads(r).logits
      BY DEF TorchSide
    <3>3. KvBudget(r) = u - (w + t + Safety(r) + rec)
      BY <2>3 DEF KvBudget
    <3> HIDE DEF t, rec, u, g, w, r
    <3>4. QED
      BY <2>3, <3>1, <3>2, <3>3
  <2>7. k \in {"bytes", "tokens", "fraction"}
    <3>1. Lever(schema, o).kind # "none"
      BY <2>1, <2>2 DEF Compiled, Errors
    <3>2. Lever(schema, o).kind # "default"
      BY <2>1 DEF Compiled, Warnings
    <3>3. QED
      BY <2>2, <3>1, <3>2 DEF Lever
  <2>0. k # "fraction" => Floor = 0
    BY DEF Floor
  <2> HIDE DEF w, t, rec, u, g, r
  <2>8. CASE k = "bytes"
    <3>1. v = plan.kv
      BY <2>2, <2>8 DEF Lever
    <3>2. EngineKv = plan.kv /\ EngineState = rec /\ Slack = 0
      BY <2>8, <3>1 DEF EngineKv, EngineState, Slack, rec, r
    <3>3. QED
      BY <2>0, <2>4, <2>5, <2>6, <2>8, <3>2
  <2>9. CASE k = "tokens"
    <3> DEFINE p == plan.perToken
               page == PageBytes(c, plan.dtype, r.tp)
    <3>1. v = plan.kv \div p /\ EngineState = rec /\ Slack = p - 1
      BY <2>2, <2>9 DEF Lever, KvBudgetTokens, EngineState, Slack, rec, r
    <3>2. EngineKv = v * page
      BY <2>3, <2>4, <2>9 DEF EngineKv, r
    <3>3. /\ p \in Nat \ {0}
          /\ ScalesWithContext(c) => page = p
          /\ ~ScalesWithContext(c) => page = 0
      <4>1. Cache(c) /\ r.tp \in Positive
        BY <2>3, Terms DEF r
      <4>2. /\ page = MarginalBytesPerToken(c, plan.dtype, r.tp)
            /\ page \in Nat
            /\ ScalesWithContext(c) => page \in Positive
            /\ ~ScalesWithContext(c) => page = 0
        <5>1. plan.dtype \in KvDtypes
          BY <2>3
        <5>2. MarginalBytesPerToken(c, plan.dtype, r.tp) \in Nat
          BY <4>1, <5>1, CacheCosts
        <5>3. /\ page = MarginalBytesPerToken(c, plan.dtype, r.tp)
              /\ ScalesWithContext(c) => MarginalBytesPerToken(c, plan.dtype, r.tp) \in Positive
              /\ ~ScalesWithContext(c) => MarginalBytesPerToken(c, plan.dtype, r.tp) = 0
          BY <4>1, <5>1, WindowlessCosts
        <5> HIDE DEF page
        <5>4. QED
          BY <5>2, <5>3
      <4>3. p = Larger(1, page)
        BY <2>3, <4>2 DEF CacheBytesPerToken
      <4> HIDE DEF page, p
      <4>4. QED
        BY <4>2, <4>3 DEF Larger, Positive
    <3> HIDE DEF page, p
    <3>4. LET q == plan.kv \div p IN q \in Nat /\ q * p <= plan.kv /\ plan.kv <= q * p + (p - 1)
      BY <2>6, <3>3
    <3>5. CASE ScalesWithContext(c)
      <4>1. EngineKv \in Nat /\ EngineKv <= plan.kv /\ plan.kv <= EngineKv + (p - 1)
        BY <3>1, <3>2, <3>3, <3>4, <3>5
      <4>2. QED
        BY <2>0, <2>4, <2>5, <2>6, <2>9, <3>1, <3>3, <4>1
    <3>6. CASE ~ScalesWithContext(c)
      <4>1. EngineKv = 0
        BY <3>1, <3>2, <3>3, <3>4, <3>6
      <4>2. QED
        BY <2>0, <2>4, <2>5, <2>6, <2>9, <3>1, <3>6, <4>1
    <3>7. QED
      BY <3>5, <3>6
  <2>10. CASE k = "fraction"
    <3> DEFINE n == Needed(schema.engine)
               s == Safety(r)
               slack == CeilDiv(g, 20000) + 1
    <3>1. /\ v = Fraction(schema.engine, o) /\ ~Clamped(schema.engine, o)
          /\ Slack = slack
      <4>1. v = Fraction(schema.engine, o)
        BY <2>2, <2>10 DEF Lever
      <4>2. ~Clamped(schema.engine, o)
        BY <2>1, <2>2, <2>10 DEF Compiled, Warnings
      <4>3. QED
        BY <2>10, <4>1, <4>2 DEF Slack, g
    <3>2. /\ schema.engine = "vllm" => n = plan.kv + w + t + rec
          /\ schema.engine = "sglang" => n = plan.kv + w
      BY <2>6 DEF Needed, w
    <3>3. n \in Nat /\ n <= u /\ u <= g
      BY <2>2, <2>6, <3>2
    <3> DEFINE want == RoundDiv(10000 * n, g)
    <3>4. v = Larger(500, want)
      BY <2>2, <2>3, <3>1, <3>3, Unclamped DEF r, g
    <3>5. want \in Int
      <4> HIDE DEF n
      <4>1. 10000 * n + g \div 2 \in Int
        BY <2>6, <3>3 DEF Positive
      <4>2. want = (10000 * n + g \div 2) \div g
        BY DEF RoundDiv
      <4>3. \A a \in Int : a \div g \in Int
        BY <2>6 DEF Positive
      <4> HIDE DEF want
      <4>4. QED
        BY <4>1, <4>2, <4>3
    <3>6. v \in Nat /\ v >= want /\ v >= 500 /\ (v # 500 => v = want)
      <4> HIDE DEF want, v
      <4>1. QED
        BY <3>4, <3>5 DEF Larger
    <3>7. /\ share \in Nat /\ share + slack >= n /\ Floor \in Nat
          /\ share <= n + s + Floor
      <4>1. v # 500 => v > 500 /\ v = want
        <5> HIDE DEF want, v
        <5>1. QED
          BY <3>6
      <4>2. s = RoundDiv(3 * u, 100)
        BY DEF Safety, u, r
      <4>3. slack \in Int
        BY <2>6 DEF CeilDiv, Positive
      <4> HIDE DEF v, n, s
      <4>4. /\ share \in Nat
            /\ share + CeilDiv(g, 20000) + 1 >= n
            /\ \A x \in Nat : v = want /\ v > 500 /\ n <= x => share <= n + RoundDiv(3 * x, 100)
        BY <2>6, <3>3, <3>6, Rounding
      <4>5. CeilDiv(g, 20000) \in Int
        BY <2>6 DEF CeilDiv, Positive
      <4> HIDE DEF share, want
      <4>6. share + slack >= n
        BY <4>4, <4>5, <3>3
      <4>7. v # 500 => share <= n + s
        BY <2>6, <3>3, <4>1, <4>2, <4>4
      <4>8. Floor = IF v = 500 THEN Larger(0, share - n) ELSE 0
        BY <2>10 DEF Floor, share, n, v, g, r, k
      <4>9. Floor \in Nat /\ (v = 500 => share <= n + Floor) /\ (v # 500 => Floor = 0)
        BY <3>3, <4>4, <4>8 DEF Larger
      <4>10. s \in Nat
        BY <2>6 DEF s
      <4>11. QED
        BY <3>3, <4>4, <4>6, <4>7, <4>9, <4>10
    <3>8. /\ schema.engine = "vllm" => EngineKv = Larger(0, share - w - (t + Unplanned)) /\ EngineState = 0
          /\ schema.engine = "sglang" => EngineKv = Larger(0, share - w) /\ EngineState = rec
      BY <2>4, <2>10 DEF EngineKv, EngineState, w, g, r, rec
    <3>9. slack \in Nat
      BY <2>6 DEF CeilDiv, Positive
    <3> HIDE DEF n, s, slack, share, want, k, v
    <3>10. CASE schema.engine = "vllm"
      <4>1. EngineKv + slack + Unplanned >= plan.kv
        BY <2>4, <2>6, <3>2, <3>7, <3>8, <3>9, <3>10 DEF Larger
      <4>2. w + (t + Unplanned) + EngineKv + EngineState <= u + Unplanned + Floor
        BY <2>4, <2>6, <3>2, <3>7, <3>8, <3>10 DEF Larger, s
      <4>3. QED
        BY <2>5, <3>1, <4>1, <4>2
    <3>11. CASE schema.engine = "sglang"
      <4>1. EngineKv + slack + Unplanned >= plan.kv
        BY <2>4, <2>6, <3>2, <3>7, <3>8, <3>9, <3>11 DEF Larger
      <4>2. w + (t + Unplanned) + EngineKv + EngineState <= u + Unplanned + Floor
        BY <2>4, <2>6, <3>2, <3>7, <3>8, <3>11 DEF Larger, s
      <4>3. QED
        BY <2>5, <3>1, <4>1, <4>2
    <3>12. QED
      BY <2>2, <3>10, <3>11
  <2>11. QED
    BY <2>7, <2>8, <2>9, <2>10
<1>2. Spec => []PlanDerived
  BY InitDerived, NextDerived, PTL DEF Spec
<1>3. QED
  BY <1>1, <1>2, AdmittedHolds, EngineDerivedHolds, PTL
=============================================================================
