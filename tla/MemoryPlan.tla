----------------------------- MODULE MemoryPlan -----------------------------
(***************************************************************************)
(* The memory plan of one GPU: estimate_plan in estimator/memory.py, the   *)
(* binding constraint it names, its ledger, and the record it returns      *)
(* (core/plan.py).                                                         *)
(*                                                                         *)
(* A working set is estimated twice, from two samples: of 4000 draws at    *)
(* most for max_concurrency_for_budget, and of as many as were asked for   *)
(* (8000 unless said) for _classify_binding_constraint.  The first is      *)
(* taken to be right, c requests of one length holding c times that        *)
(* length, so what a plan promises can be compared with sequence_bytes;    *)
(* the second is off by a skew.  The concurrency that                      *)
(* max_concurrency_for_budget finds (module Headroom) is a parameter h of  *)
(* what is computed from it.                                               *)
(***************************************************************************)
EXTENDS CacheLayout

CONSTANTS
  GraphBase,       (* CUDA_GRAPH_BASE_BYTES                                *)
  GraphPerHidden,  (* CUDA_GRAPH_BYTES_PER_SEQ_PER_HIDDEN                  *)
  Workspace,       (* ATTENTION_WORKSPACE_BYTES                            *)
  Ceiling          (* ceiling of max_concurrency_for_budget                *)

(* The ceiling is the default of 4096, which the search gets by doubling:   *)
(* no divisor but 1 is odd.                                                 *)
PowerOfTwo(n) == \A d, q \in 1 .. n : d * q = n => d = 1 \/ d % 2 = 0

ASSUME PlanAssumption ==
  /\ {GraphBase, GraphPerHidden, Workspace} \subseteq Nat
  /\ Ceiling \in Positive
  /\ PowerOfTwo(Ceiling)

ActivationElements == 2
LogitsBufferCopies == 3
DefaultChunk == 8192     \* prefill tokens when no budget is given

Larger(a, b) == IF a >= b THEN a ELSE b
RoundDiv(a, b) == (a + b \div 2) \div b

-----------------------------------------------------------------------------
(* A request r for a plan: r.model, r.gpu, the tokens r.length of every     *)
(* request served, the tokens r.skew by which the larger sample of max_seqs *)
(* of them reads above or below r.seqs * r.length, and the settings r.seqs, *)
(* r.maxlen, r.tp, r.kv, r.eager.  r.gpu.critical holds the critical batch  *)
(* size when there is one.                                                  *)

(* What the checks of the profiles, and the types of the settings, leave.   *)
WellPosed(r) ==
  /\ DOMAIN r = {"model", "gpu", "length", "skew", "seqs", "maxlen", "tp", "kv", "eager"}
  /\ r.model.cache \in Seq(Range(r.model.cache))
  /\ \A i \in DOMAIN r.model.cache : Part(r.model.cache[i])
  /\ {r.model.weights, r.model.hidden, r.model.intermediate, r.model.vocab} \subseteq Nat
  /\ r.gpu.total \in Positive /\ r.gpu.usable \in 1 .. r.gpu.total
  /\ r.gpu.critical \subseteq Nat
  /\ {r.length, r.seqs, r.maxlen} \subseteq Nat /\ r.skew \in Int
  /\ r.tp \in Positive /\ r.kv \in KvDtypes /\ r.eager \in BOOLEAN

(* estimate_overheads, the terms inside the engine's own budget.            *)
Overheads(r) ==
  LET hidden == Larger(1, r.model.hidden \div r.tp)
      inner  == Larger(1, r.model.intermediate \div r.tp)
  IN  [ graph     |-> IF r.eager THEN 0 ELSE GraphBase + r.seqs * hidden * GraphPerHidden,
        workspace |-> Workspace,
        prefill   |-> BytesFor(Smaller(r.maxlen, DefaultChunk) * (hidden + inner)
                                 * ActivationElements, "bf16"),
        logits    |-> r.seqs * r.model.vocab * 4 * LogitsBufferCopies ]

TorchSide(o) == o.graph + o.workspace + o.prefill + o.logits

Weights(r) == CeilDiv(r.model.weights, r.tp)
Safety(r)  == RoundDiv(3 * r.gpu.usable, 100)    \* FRAGMENTATION_FRACTION

FixedPerSequence(r) == FixedBytesPerSequence(r.model.cache, r.kv, r.tp)
RecurrentState(r)   == FixedPerSequence(r) * r.seqs

KvBudget(r) ==
  r.gpu.usable - (Weights(r) + TorchSide(Overheads(r)) + Safety(r) + RecurrentState(r))

Feasible(r) == r.tp <= r.gpu.count /\ KvBudget(r) > 0

CacheBytesPerToken(cache, dtype, tp) == Larger(1, MarginalBytesPerToken(cache, dtype, tp))

-----------------------------------------------------------------------------
(* max_concurrency_for_budget.                                              *)

PerToken(r) == CacheBytesPerToken(r.model.cache, r.kv, r.tp)

(* Mutant: the fixed state of each sequence is left out.                    *)
FitsPagedOnly(r, c) == c * r.length * PerToken(r) <= KvBudget(r) + RecurrentState(r)

Fits(r, c) ==
  c * FixedPerSequence(r) + c * r.length * PerToken(r) <= KvBudget(r) + RecurrentState(r)

-----------------------------------------------------------------------------
(* _classify_binding_constraint: the first of its returns that applies.     *)

KvTokens(r) == KvBudget(r) \div PerToken(r)

(* working.p95_tokens, an estimate apart from the one the search is made of. *)
WorkingSet(r) == Larger(0, r.seqs * r.length + r.skew)

(* Mutant: the GPU is looked at before the cache.                           *)
BindingComputeFirst(r, h) ==
  IF ~ScalesWithContext(r.model.cache) THEN "user_limit"
  ELSE IF \E b \in r.gpu.critical : r.seqs >= b THEN "compute_bound"
  ELSE IF WorkingSet(r) > KvTokens(r) \/ h <= r.seqs THEN "kv_working_set"
  ELSE IF \A b \in r.gpu.critical : h < b THEN "kv_working_set"
  ELSE "compute_bound"

Binding(r, h) ==
  IF ~ScalesWithContext(r.model.cache) THEN "user_limit"
  ELSE IF WorkingSet(r) > KvTokens(r) \/ h <= r.seqs THEN "kv_working_set"
  ELSE IF \E b \in r.gpu.critical : r.seqs >= b THEN "compute_bound"
  ELSE IF r.maxlen < r.model.maxpos /\ KvTokens(r) >= r.seqs * r.maxlen THEN "max_model_len"
  ELSE IF \A b \in r.gpu.critical : h < b THEN "kv_working_set"
  ELSE "compute_bound"

-----------------------------------------------------------------------------
(* The ledger's consumption lines by label; two of them are left out when   *)
(* they are empty.                                                          *)

(* Mutant: the state of recurrent layers has no line.                       *)
LedgerWithoutState(r) ==
  LET o == Overheads(r)
  IN  [ weights   |-> Weights(r), graph  |-> o.graph, workspace |-> o.workspace,
        prefill   |-> o.prefill,  logits |-> o.logits,
        safety    |-> Safety(r),  kv     |-> KvBudget(r) ]

Ledger(r) ==
  LET o == Overheads(r)
      lines == [ weights   |-> Weights(r), graph     |-> o.graph, workspace |-> o.workspace,
                 prefill   |-> o.prefill,  logits    |-> o.logits,
                 recurrent |-> RecurrentState(r),
                 safety    |-> Safety(r),  kv        |-> KvBudget(r) ]
      omitted == {l \in {"graph", "recurrent"} : lines[l] = 0}
  IN  Restrict(lines, DOMAIN lines \ omitted)

LedgerTotal(ledger) ==
  LET line(l) == IF l \in DOMAIN ledger THEN ledger[l] ELSE 0
  IN  line("weights") + line("graph") + line("workspace") + line("prefill")
        + line("logits") + line("recurrent") + line("safety") + line("kv")

(* The plan of a feasible request.                                          *)
EstimatePlan(r, h) ==
  LET o == Overheads(r)
  IN  [ weights    |-> Weights(r),
        activation |-> o.prefill + o.logits,
        fixed      |-> o.graph + o.workspace + RecurrentState(r),
        safety     |-> Safety(r),
        kv         |-> KvBudget(r),
        perToken   |-> PerToken(r),
        tp         |-> r.tp,
        dtype      |-> r.kv,
        binding    |-> Binding(r, h),
        headroom   |-> h,
        critical   |-> r.gpu.critical,
        ledger     |-> Ledger(r) ]

TotalAllocated(plan) ==
  plan.weights + plan.activation + plan.fixed + plan.safety + plan.kv

KvBudgetTokens(plan) == plan.kv \div plan.perToken

(* "Whether the cache runs out before the GPU saturates", when both figures *)
(* are known.                                                               *)
CacheLimited(plan) == plan.critical # {} /\ \A b \in plan.critical : plan.headroom < b

(* Mutant: fp8 takes half the bytes.                                        *)
WithKvDtypeHalves(plan, cache, dtype) ==
  [plan EXCEPT !.perToken = Larger(1, @ \div 2), !.dtype = dtype]

WithKvDtype(plan, cache, dtype) ==
  [plan EXCEPT !.perToken = CacheBytesPerToken(cache, dtype, plan.tp), !.dtype = dtype]
=============================================================================
