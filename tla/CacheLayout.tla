---------------------------- MODULE CacheLayout ----------------------------
(***************************************************************************)
(* What one sequence costs in the cache of one GPU, for every way a model  *)
(* keeps attention state: core/cache.py.  A cache is the sequence of its   *)
(* parts (a LayeredCacheSpec; any other spec is a sequence of one), a part *)
(* the layers that cache alike.                                            *)
(***************************************************************************)
EXTENDS Integers, SequencesExt

(* The dtypes a cache is kept in; the code knows more of 8 and 16 bits.     *)
KvDtypes == {"bf16", "fp8"}
Bits == [bf16 |-> 16, fp8 |-> 8]

CeilDiv(a, b) == (a + b - 1) \div b

BytesFor(count, dtype) == CeilDiv(count * Bits[dtype], 8)

NoWindow == 0
Attention(heads, dim, layers, window) ==
  [kind |-> "attention", heads |-> heads, dim |-> dim, layers |-> layers, window |-> window]
MLA(rank, rope, layers) ==
  [kind |-> "mla", rank |-> rank, rope |-> rope, layers |-> layers]
Recurrent(inner, groups, state, conv, layers) ==
  [kind |-> "recurrent", inner |-> inner, groups |-> groups, state |-> state,
   conv |-> conv, layers |-> layers]

(* What the constructors let a part be: counts are at least one.            *)
Positive == Nat \ {0}

Part(part) ==
  /\ part.kind \in {"attention", "mla", "recurrent"}
  /\ part.kind = "attention" =>
       {part.heads, part.dim, part.layers} \subseteq Positive /\ part.window \in Nat
  /\ part.kind = "mla" => {part.rank, part.rope, part.layers} \subseteq Positive
  /\ part.kind = "recurrent" =>
       {part.inner, part.groups, part.state, part.conv, part.layers} \subseteq Positive

(* A spec of one kind of layer, among those of several.                     *)
Single(part) == <<part>>

Windowed(part) == part.kind = "attention" /\ part.window # NoWindow
Windowless(cache) == \A i \in DOMAIN cache : ~Windowed(cache[i])
ScalesWithContext(cache) == \E i \in DOMAIN cache : cache[i].kind # "recurrent"

-----------------------------------------------------------------------------
(* Heads that do not divide over the GPUs are replicated, hence the         *)
(* ceiling; the latent of MLA is on every GPU, and keeps its rope part in   *)
(* 16 bits and 16 bytes of scales when the rest is fp8.                     *)

KvHeadsPerGpu(part, tp) == CeilDiv(part.heads, tp)

KvBytesPerToken(part, dtype, tp) ==
  CASE part.kind = "attention" ->
         BytesFor(2 * KvHeadsPerGpu(part, tp) * part.dim * part.layers, dtype)
    [] part.kind = "mla" /\ dtype = "fp8" ->
         (part.rank + 2 * part.rope + 16) * part.layers
    [] part.kind = "mla" /\ dtype # "fp8" ->
         BytesFor(part.rank + part.rope, dtype) * part.layers
    [] part.kind = "recurrent" -> 0

(* Convolution and SSM state, the inner dimension split over the GPUs.      *)
StateBytes(part, dtype, tp) ==
  LET inner  == CeilDiv(part.inner, tp)
      groups == CeilDiv(part.groups, tp)
  IN  BytesFor(((inner + 2 * groups * part.state) * part.conv + inner * part.state)
                 * part.layers, dtype)

Smaller(a, b) == IF a <= b THEN a ELSE b

(* sequence_bytes, marginal_bytes_per_token and fixed_bytes_per_sequence of *)
(* a part.                                                                  *)
PartSequence(part, n, dtype, tp) ==
  IF part.kind = "recurrent"
  THEN StateBytes(part, dtype, tp)
  ELSE (IF Windowed(part) THEN Smaller(n, part.window) ELSE n)
         * KvBytesPerToken(part, dtype, tp)

PartMarginal(part, dtype, tp) ==
  IF Windowed(part) THEN 0 ELSE KvBytesPerToken(part, dtype, tp)

PartFixed(part, dtype, tp) ==
  IF part.kind = "recurrent" THEN StateBytes(part, dtype, tp) ELSE 0

(* The same of a cache.                                                     *)
SequenceBytes(cache, n, dtype, tp) ==
  SumFunction([i \in DOMAIN cache |-> PartSequence(cache[i], n, dtype, tp)])

MarginalBytesPerToken(cache, dtype, tp) ==
  SumFunction([i \in DOMAIN cache |-> PartMarginal(cache[i], dtype, tp)])

FixedBytesPerSequence(cache, dtype, tp) ==
  SumFunction([i \in DOMAIN cache |-> PartFixed(cache[i], dtype, tp)])
=============================================================================
