----------------------------- MODULE Roofline ------------------------------
(***************************************************************************)
(* The two-coefficient performance model of estimator/roofline.py.         *)
(*                                                                         *)
(* A setup is one model, in one weight dtype, on so many ranks of one      *)
(* device.  Times are in ticks: rates are bytes or FLOPs per tick, sizes   *)
(* are chosen so that every quotient is whole (WholeTicks), and an         *)
(* efficiency is 1/d for a natural d, so that it multiplies a time.        *)
(***************************************************************************)
EXTENDS Integers, FiniteSets

(* Setups have                                                              *)
(*   weights      bytes of the checkpoint                                   *)
(*   active       parameters one token passes through                       *)
(*   layers, hidden, bits                                                   *)
(*   kv           cache bytes per token, of the plan                        *)
(*   tp           ranks                                                     *)
(*   bandwidth    bytes per tick and rank                                   *)
(*   flops        FLOPs per tick and rank, a function on the widths that    *)
(*                the device has a figure for                               *)
(*   link         [rate, latency] of the interconnect                       *)
(*   fixed        fixed_step_overhead_s                                     *)
(* and coefficients are [mbu, mfu], each the d of its efficiency 1/d.       *)

(* Sizes and times are counts, every rate but that of a missing link is     *)
(* positive, and a device has a figure for some width (core/gpu.py).        *)
Measurable(s) ==
  /\ s.weights \in Nat /\ s.active \in Nat /\ s.kv \in Nat
  /\ s.layers \in Nat /\ s.hidden \in Nat /\ s.bits \in Nat
  /\ s.tp \in Nat \ {0} /\ s.bandwidth \in Nat \ {0} /\ s.fixed \in Nat
  /\ s.link.rate \in Nat /\ s.link.latency \in Nat
  /\ IsFiniteSet(DOMAIN s.flops) /\ DOMAIN s.flops # {}
  /\ \A width \in DOMAIN s.flops : s.flops[width] \in Nat \ {0}

Bigger(a, b) == IF a >= b THEN a ELSE b

BigFlops(s) == CHOOSE p \in {s.flops[w] : w \in DOMAIN s.flops} :
                 \A w \in DOMAIN s.flops : s.flops[w] <= p

\* _achievable_flops without the efficiency: the widest figure there is when
\* the device has none for this dtype
Peak(s) == IF s.bits \in DOMAIN s.flops THEN s.flops[s.bits] ELSE BigFlops(s)

\* communication_time: two all-reduces per layer, each over a ring
Communication(s, tokens, bits) ==
  IF s.tp = 1 \/ s.link.rate = 0 THEN 0
  ELSE LET calls == 2 * s.layers
           payload == tokens * s.hidden * (bits \div 8)
       IN  (calls * 2 * (s.tp - 1) * payload) \div (s.tp * s.link.rate)
             + calls * s.link.latency

WeightBytesPerGpu(s) == (s.weights + s.tp - 1) \div s.tp

DecodeBytes(s, batch, context) == WeightBytesPerGpu(s) + batch * context * s.kv
DecodeFlops(s, batch) == (2 * s.active * batch) \div s.tp
PrefillFlops(s, prompt) ==
  (2 * s.active * prompt + 4 * s.layers * s.hidden * prompt * prompt) \div s.tp

\* A StepBreakdown
Step(s, coef, bytes, flops, tokens) ==
  [ memory  |-> (bytes * coef.mbu) \div s.bandwidth,
    compute |-> (flops * coef.mfu) \div Peak(s),
    comm    |-> Communication(s, tokens, s.bits),
    fixed   |-> s.fixed ]

DecodeStep(s, coef, batch, context) ==
  Step(s, coef, DecodeBytes(s, batch, context), DecodeFlops(s, batch), batch)

PrefillStep(s, coef, prompt) ==
  Step(s, coef, WeightBytesPerGpu(s), PrefillFlops(s, prompt), prompt)

\* StepBreakdown.bound
Bound(step) ==
  IF step.comm > Bigger(step.memory, step.compute) THEN "communication"
  ELSE IF step.compute > step.memory THEN "compute" ELSE "memory"

\* StepBreakdown.total_s
Total(step) == Bigger(step.memory, step.compute) + step.comm + step.fixed

(* Mutant: the efficiencies change places.                                  *)
CriticalBatchSwapped(s, coef) == [num |-> Peak(s) * coef.mfu, den |-> s.bandwidth * coef.mbu]

\* critical_batch_size, a quotient: flops * mfu / (bandwidth * mbu)
CriticalBatch(s, coef) == [num |-> Peak(s) * coef.mbu, den |-> s.bandwidth * coef.mfu]

\* predict, without its intervals: both steps, and the wall it reports with them
Predict(s, coef, batch, prompt, context) ==
  LET prefill == PrefillStep(s, coef, prompt)
      decode  == DecodeStep(s, coef, batch, context)
  IN  [ ttft |-> Total(prefill), tpot |-> Total(decode),
        decodeBound |-> Bound(decode), prefillBound |-> Bound(prefill),
        critical |-> CriticalBatch(s, coef) ]

WholeTicks(s, coef, batches, contexts, prompts) ==
  \A b \in batches, c \in contexts, p \in prompts :
    /\ (DecodeBytes(s, b, c) * coef.mbu) % s.bandwidth = 0
    /\ (2 * s.active * b) % s.tp = 0
    /\ (DecodeFlops(s, b) * coef.mfu) % Peak(s) = 0
    /\ (2 * s.active * p + 4 * s.layers * s.hidden * p * p) % s.tp = 0
    /\ (PrefillFlops(s, p) * coef.mfu) % Peak(s) = 0
    /\ (WeightBytesPerGpu(s) * coef.mbu) % s.bandwidth = 0
=============================================================================
