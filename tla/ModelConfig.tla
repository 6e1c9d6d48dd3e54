---------------------------- MODULE ModelConfig -----------------------------
(***************************************************************************)
(* From the config.json of a model to its profile, after models/hf.py:     *)
(* which cache layout the fields mean (they co-occur, so the order of the  *)
(* questions matters), how many parameters a token passes through, and     *)
(* what of it the profile's own checks refuse (core/model.py).             *)
(*                                                                         *)
(* A config c is a record; 0 stands for a field that is missing:           *)
(*   layers, hidden, heads, headDim, kvHeads, vocab, maxpos, inner         *)
(*   rank, rope             kv_lora_rank and qk_rope_head_dim              *)
(*   pattern                hybrid_override_pattern, over "*", "M", "-"    *)
(*   types                  layer_types, over "full", "sliding", "other"   *)
(*   window, disabled       sliding_window; use_sliding_window is false    *)
(*   mamba                  [inner, groups, state, conv]                   *)
(*   moe                    [experts, topk, shared, dense, width]          *)
(***************************************************************************)
EXTENDS CacheLayout

Count(x, s) == Cardinality({i \in DOMAIN s : s[i] = x})

-----------------------------------------------------------------------------
(* build_cache_spec.                                                        *)

HeadDimUnknown(c) == c.headDim = 0 /\ c.hidden % c.heads # 0
HeadDim(c) == IF c.headDim # 0 THEN c.headDim ELSE c.hidden \div c.heads
KvHeads(c) == IF c.kvHeads # 0 THEN c.kvHeads ELSE c.heads

(* Mutant: the pattern is looked at before the latent.                      *)
LayoutPatternFirst(c) ==
  IF c.pattern # <<>> THEN "pattern"
  ELSE IF c.rank # 0 THEN "mla"
  ELSE IF c.types # <<>> THEN "types"
  ELSE IF c.window # 0 /\ ~c.disabled THEN "window"
  ELSE "plain"

(* The order of the five cases.                                             *)
Layout(c) ==
  IF c.rank # 0 THEN "mla"
  ELSE IF c.pattern # <<>> THEN "pattern"
  ELSE IF c.types # <<>> THEN "types"
  ELSE IF c.window # 0 /\ ~c.disabled THEN "window"
  ELSE "plain"

(* UnknownArchitectureError, also for a field without which nothing is said. *)
Unknown(c) ==
  \/ 0 \in {c.layers, c.hidden, c.heads, c.vocab}
  \/ HeadDimUnknown(c)
  \/ Layout(c) = "mla" /\ c.rope = 0
  \/ /\ Layout(c) = "pattern"
     /\ \/ Count("*", c.pattern) = 0 /\ Count("M", c.pattern) = 0
        \/ Count("M", c.pattern) > 0 /\ 0 \in {c.mamba.state, c.mamba.conv}
  \/ /\ Layout(c) = "types"
     /\ \/ Count("other", c.types) > 0
        \/ Count("sliding", c.types) > 0 /\ c.window = 0

Heads(c, layers, window) == Attention(KvHeads(c), HeadDim(c), layers, window)

\* _recurrent_spec
MambaInner(c) == IF c.mamba.inner # 0 THEN c.mamba.inner ELSE 2 * c.hidden
Mamba(c, layers) ==
  Recurrent(MambaInner(c), c.mamba.groups, c.mamba.state, c.mamba.conv, layers)

(* Layers there are none of add no part.                                    *)
Kept(part) == IF part.layers > 0 THEN Single(part) ELSE <<>>

CacheSpec(c) ==
  CASE Layout(c) = "mla"     -> Single(MLA(c.rank, c.rope, c.layers))
    [] Layout(c) = "pattern" -> Kept(Heads(c, Count("*", c.pattern), NoWindow))
                                  \o Kept(Mamba(c, Count("M", c.pattern)))
    [] Layout(c) = "types"   -> Kept(Heads(c, Count("full", c.types), NoWindow))
                                  \o Kept(Heads(c, Count("sliding", c.types), c.window))
    [] Layout(c) = "window"  -> Single(Heads(c, c.layers, c.window))
    [] Layout(c) = "plain"   -> Single(Heads(c, c.layers, NoWindow))

CacheLayers(cache) == FoldLeft(LAMBDA sum, part : sum + part.layers, 0, cache)

-----------------------------------------------------------------------------
(* build_moe_spec and what follows from it.                                 *)

IsMoe(c) == c.moe.experts # 0 /\ c.moe.topk # 0

(* Mutant: the leading dense layers are taken for expert layers.            *)
ActiveParamsAllLayers(c, total) ==
  LET perExpert == 3 * c.hidden * c.moe.width
      others    == total - c.layers * c.moe.experts * perExpert
      estimate  == others + c.layers * (c.moe.topk + c.moe.shared) * perExpert
  IN  IF ~IsMoe(c) \/ c.moe.width = 0 \/ others <= 0 THEN total
      ELSE IF estimate <= total THEN estimate ELSE total

\* _estimate_active_params
ActiveParams(c, total) ==
  LET perExpert == 3 * c.hidden * c.moe.width
      layers    == IF c.layers > c.moe.dense THEN c.layers - c.moe.dense ELSE 0
      others    == total - layers * c.moe.experts * perExpert
      estimate  == others + layers * (c.moe.topk + c.moe.shared) * perExpert
  IN  IF ~IsMoe(c) \/ c.moe.width = 0 \/ others <= 0 THEN total
      ELSE IF estimate <= total THEN estimate ELSE total

\* _effective_intermediate, and the profile's own default
Intermediate(c) ==
  IF IsMoe(c) /\ c.moe.width # 0 THEN c.moe.width * (c.moe.topk + c.moe.shared)
  ELSE IF c.inner # 0 THEN c.inner ELSE 4 * c.hidden

(* A ValueError of one of the constructors, after every case above.         *)
Refused(c) ==
  \/ IsMoe(c) /\ c.moe.topk > c.moe.experts
  \/ CacheLayers(CacheSpec(c)) > c.layers

\* profile_from_config, with the measurement [bytes, params] of module Weights
ProfileOf(c, measured) ==
  [ cache        |-> CacheSpec(c),
    weights      |-> measured.bytes,
    params       |-> measured.params,
    active       |-> ActiveParams(c, measured.params),
    hidden       |-> c.hidden,
    intermediate |-> Intermediate(c),
    vocab        |-> c.vocab,
    maxpos       |-> IF c.maxpos # 0 THEN c.maxpos ELSE 4096 ]
=============================================================================
