------------------------------- MODULE Launch -------------------------------
(***************************************************************************)
(* From a request to a running engine: a plan is estimated, possibly       *)
(* re-derived for another KV dtype, compiled by an adapter into the flags  *)
(* of the installed engine (adapters/vllm.py, adapters/sglang.py), and the *)
(* engine, which is external, sizes its cache from them.                   *)
(*                                                                         *)
(* Fractions of the device's memory are in ten-thousandths, the precision  *)
(* they are printed with.                                                  *)
(***************************************************************************)
EXTENDS MemoryPlan

CONSTANTS
  Requests,  (* what may be asked for, see MemoryPlan                       *)
  Schemas    (* engines as installed: see Schema                            *)

ASSUME RequestsAssumption == \A r \in Requests : WellPosed(r)

(* Settings other than the cache's: each is one flag, value for value.      *)
Settings == {"max_context", "max_seqs", "tensor_parallel"}

(* The parameters an installed version has, any of those the adapters know, *)
(* and the dtypes its KV parameter accepts, all of them when none is listed. *)
Schema ==
  [ engine  : {"vllm", "sglang"},
    roles   : SUBSET (Settings \cup {"memory_fraction", "eager", "kv_budget", "kv_dtype"}),
    choices : SUBSET {"auto", "fp8", "fp8_e4m3"} ]

ASSUME SchemasAssumption == Schemas \subseteq Schema

(* How compile is called: with the device's size or not, with the adapter's *)
(* own ceiling on the fraction or the one the profile command computes,     *)
(* with prefer_absolute_kv or not (SGLang only).                            *)
Options == [ sized : BOOLEAN, ceiling : {"adapter", "profile"}, absolute : BOOLEAN ]

VARIABLES
  request,
  plan,
  spec,     \* the LaunchSpec
  schema,
  booted,   \* what the engine took
  phase,
  fits, low, high, pc, result, calls   \* max_concurrency_for_budget

search == <<fits, low, high, pc, result, calls>>
vars == <<request, plan, spec, schema, booted, phase, search>>

HeadroomSearch == INSTANCE Headroom

None == [none |-> TRUE]

-----------------------------------------------------------------------------
(* invert_memory_fraction.                                                  *)

(* Mutant: SGLang's sum is used for vLLM.                                   *)
NeededStatic(engine) == plan.kv + plan.weights

(* vLLM's fraction covers everything but the safety margin, SGLang's the    *)
(* weights and the cache.                                                   *)
Needed(engine) ==
  plan.kv + plan.weights + (IF engine = "vllm" THEN plan.activation + plan.fixed ELSE 0)

(* safe_utilization_ceiling, in hundredths of a byte.                       *)
SafeCeiling == Larger(5 * request.gpu.total, 100 * request.gpu.usable - 3 * request.gpu.total)

MaxFraction == [vllm |-> 98, sglang |-> 95]    \* in percent

CeilingOf(engine, o) ==
  LET own == MaxFraction[engine] * request.gpu.total
  IN  IF o.ceiling = "profile" THEN Smaller(own, SafeCeiling) ELSE own

Clamped(engine, o) == 100 * Needed(engine) > CeilingOf(engine, o)

Fraction(engine, o) ==
  Smaller(RoundDiv(100 * CeilingOf(engine, o), request.gpu.total),
          Larger(500, RoundDiv(10000 * Needed(engine), request.gpu.total)))

-----------------------------------------------------------------------------
(* compile.                                                                 *)

(* The fraction an engine takes when it is told none.                       *)
DefaultFraction == 9000

(* The KV lever: the absolute one when the version has it, else a fraction. *)
(* emit skips a fraction the version has no parameter for, and the engine's *)
(* own applies.                                                             *)
Lever(s, o) ==
  IF "kv_budget" \in s.roles /\ (s.engine = "vllm" \/ o.absolute)
  THEN IF s.engine = "vllm"
       THEN [kind |-> "bytes", value |-> plan.kv]
       ELSE [kind |-> "tokens", value |-> KvBudgetTokens(plan)]
  ELSE IF ~o.sized THEN [kind |-> "none", value |-> 0]
  ELSE IF "memory_fraction" \in s.roles
  THEN [kind |-> "fraction", value |-> Fraction(s.engine, o)]
  ELSE [kind |-> "default", value |-> DefaultFraction]

(* KV_DTYPE_PREFERENCE; 16 bits are left to the engine's own choice.        *)
Preference(engine, dtype) ==
  IF dtype = "bf16" THEN {"auto"}
  ELSE IF engine = "vllm" THEN {"fp8_e4m3", "fp8"} ELSE {"fp8_e4m3"}

Accepted(s, dtype) ==
  {v \in Preference(s.engine, dtype) : s.choices = {} \/ v \in s.choices}

Wanted ==
  {"max_context", "max_seqs"} \cup (IF plan.tp > 1 THEN {"tensor_parallel"} ELSE {})
    \cup (IF request.eager THEN {"eager"} ELSE {})

Flags(s) ==
  (Wanted \cap s.roles)
    \cup (IF "kv_dtype" \in s.roles /\ plan.dtype = "fp8" /\ Accepted(s, "fp8") # {}
          THEN {"kv_dtype"} ELSE {})

(* An error stands for a diagnostic of severity error, a warning for one    *)
(* that says the engine will not do what was planned.  Every setting that a *)
(* version lacks is warned of by emit, but for eager: that one is dropped   *)
(* without a word.                                                          *)
Errors(s, o) ==
  (IF Lever(s, o).kind = "none" THEN {"memory_fraction"} ELSE {})
    \cup (IF "kv_dtype" \in s.roles /\ Accepted(s, plan.dtype) = {} THEN {"kv_dtype"} ELSE {})

Warnings(s, o) ==
  (IF Lever(s, o).kind = "default"
        \/ (Lever(s, o).kind = "fraction" /\ Clamped(s.engine, o))
   THEN {"memory_fraction"} ELSE {})
    \cup (Wanted \ ({"eager"} \cup s.roles))
    \cup (IF "kv_dtype" \notin s.roles THEN {"kv_dtype"} ELSE {})

Compiled(s, o) ==
  [ lever |-> Lever(s, o), flags |-> Flags(s), errors |-> Errors(s, o),
    warnings |-> Warnings(s, o) ]

Runnable == phase = "compiled" /\ spec.errors = {}

-----------------------------------------------------------------------------
(* The engine, as predict_kv_for_utilization and the adapters' comments     *)
(* describe it.                                                             *)

EngineDtype == IF "kv_dtype" \in spec.flags THEN "fp8" ELSE "bf16"

(* What the engine's own overheads are: with graphs, unless told otherwise. *)
EngineOverheads == TorchSide(Overheads([request EXCEPT !.eager = "eager" \in spec.flags]))

(* The pages of a token: every part's but the recurrent state.              *)
PageBytes(cache, dtype, tp) ==
  SumFunction([i \in DOMAIN cache |-> IF cache[i].kind = "recurrent" THEN 0
                                      ELSE PartSequence(cache[i], 1, dtype, tp)])

EngineKv ==
  LET share == RoundDiv(spec.lever.value * request.gpu.total, 10000)
  IN  CASE spec.lever.kind = "bytes"  -> spec.lever.value
        [] spec.lever.kind = "tokens" ->
             spec.lever.value * PageBytes(request.model.cache, EngineDtype, plan.tp)
        [] spec.lever.kind \in {"fraction", "default"} /\ schema.engine = "vllm" ->
             Larger(0, share - plan.weights - EngineOverheads)
        [] spec.lever.kind \in {"fraction", "default"} /\ schema.engine = "sglang" ->
             Larger(0, share - plan.weights)

(* The recurrent state is inside what a vLLM fraction leaves for the cache. *)
EngineState ==
  IF spec.lever.kind \in {"fraction", "default"} /\ schema.engine = "vllm"
  THEN 0 ELSE RecurrentState(request)

-----------------------------------------------------------------------------
Init ==
  /\ request \in Requests
  /\ plan = None
  /\ spec = None
  /\ schema = None
  /\ booted = None
  /\ phase = "asked"
  /\ fits = {c \in HeadroomSearch!Askable : Fits(request, c)}
  /\ HeadroomSearch!Init

(* InfeasibleConfigurationError.                                            *)
Refuse ==
  /\ phase = "asked"
  /\ ~Feasible(request)
  /\ phase' = "infeasible"
  /\ UNCHANGED <<request, plan, spec, schema, booted, search>>

Admit ==
  /\ phase = "asked"
  /\ Feasible(request)
  /\ phase' = "searching"
  /\ UNCHANGED <<request, plan, spec, schema, booted, search>>

Search ==
  /\ phase = "searching"
  /\ HeadroomSearch!SearchStep
  /\ UNCHANGED <<request, plan, spec, schema, booted, phase>>

Plan ==
  /\ phase = "searching"
  /\ pc = "done"
  /\ plan' = EstimatePlan(request, result)
  /\ phase' = "planned"
  /\ UNCHANGED <<request, spec, schema, booted, search>>

(* with_kv_dtype, as a plan's rendering does for fp8.                       *)
Switch ==
  /\ phase = "planned"
  /\ plan.dtype # "fp8"
  /\ plan' = WithKvDtype(plan, request.model.cache, "fp8")
  /\ UNCHANGED <<request, spec, schema, booted, phase, search>>

Compile ==
  /\ phase = "planned"
  /\ \E s \in Schemas, o \in Options :
       /\ o.ceiling = "profile" => s.engine = "vllm" /\ o.sized
       /\ s.engine = "vllm" => o.absolute
       /\ spec' = Compiled(s, o)
       /\ schema' = s
  /\ phase' = "compiled"
  /\ UNCHANGED <<request, plan, booted, search>>

Boot ==
  /\ Runnable
  /\ booted' = [dtype |-> EngineDtype, kv |-> EngineKv,
                used |-> plan.weights + EngineOverheads + EngineKv + EngineState]
  /\ phase' = "booted"
  /\ UNCHANGED <<request, plan, spec, schema, search>>

Stopped ==
  /\ phase \in {"infeasible", "booted"} \/ (phase = "compiled" /\ ~Runnable)
  /\ UNCHANGED vars

Next == Refuse \/ Admit \/ Search \/ Plan \/ Switch \/ Compile \/ Boot \/ Stopped

Spec == Init /\ [][Next]_vars

-----------------------------------------------------------------------------
(* Properties.                                                              *)

Fresh == phase = "planned" /\ plan.dtype = request.kv      \* not re-derived
Switched == phase = "planned" /\ plan.dtype # request.kv

(* "Reconciliation is asserted, not assumed": the terms of the plan, and    *)
(* the consumption lines of its ledger, account for usable memory exactly.  *)
Reconciles ==
  plan # None =>
    /\ TotalAllocated(plan) = request.gpu.usable
    /\ LedgerTotal(plan.ledger) = request.gpu.usable

(* What c sequences really take: the caches of c whole requests.            *)
Footprint(c) == c * SequenceBytes(request.model.cache, request.length, request.kv, request.tp)
ForCaches == KvBudget(request) + RecurrentState(request)

(* max_concurrency_for_budget's docstring: "Largest concurrency whose total *)
(* cache footprint fits".                                                   *)
Largest ==
  /\ Footprint(plan.headroom) <= ForCaches
  /\ plan.headroom < Ceiling => Footprint(plan.headroom + 1) > ForCaches

(* For caches without windows the headroom fits, and the GPUs together hold *)
(* its caches whole, however the heads are split; when some layer grows     *)
(* with the context, one more does not fit.                                 *)
HeadroomFits ==
  Fresh /\ Windowless(request.model.cache) =>
    /\ Footprint(plan.headroom) <= ForCaches
    /\ plan.headroom * SequenceBytes(request.model.cache, request.length, request.kv, 1)
         <= request.tp * ForCaches
    /\ ScalesWithContext(request.model.cache) => Largest

(* The docstring's claim of every cache that grows, with windows or not.    *)
LargestFits == Fresh /\ ScalesWithContext(request.model.cache) => Largest

(* What a plan says of its constraint, held against what the caches really  *)
(* take, for caches without windows: whatever stops it but the cache, one   *)
(* more sequence than was asked for fits; a GPU that saturates does so at a *)
(* batch whose caches fit; a context length could be raised when every      *)
(* sequence fits in full; and a cache that stops it is full by then, or is  *)
(* full before the GPU saturates, or the search went as far as it goes.     *)
(* The one way a cache is named that is not full is a larger sample that    *)
(* reads above the search's, and past the budget.  "Whether the cache runs  *)
(* out before the GPU saturates" is answered by the same footprints.        *)
CacheStops ==
  \/ Footprint(request.seqs + 1) > ForCaches
  \/ \A b \in plan.critical : Footprint(b) > ForCaches
  \/ plan.headroom = Ceiling

BindingReal ==
  Fresh /\ Windowless(request.model.cache) /\ ScalesWithContext(request.model.cache) =>
    /\ plan.binding # "kv_working_set" => Footprint(request.seqs + 1) <= ForCaches
    /\ plan.binding = "kv_working_set" =>
         CacheStops \/ (request.skew > 0 /\ WorkingSet(request) * plan.perToken > plan.kv)
    /\ plan.binding = "compute_bound" => \E b \in plan.critical : Footprint(b) <= ForCaches
    /\ plan.binding = "max_model_len" =>
         request.seqs * SequenceBytes(request.model.cache, request.maxlen, request.kv,
                                      request.tp) <= ForCaches
    /\ IF CacheLimited(plan)
       THEN plan.headroom = Ceiling \/ \A b \in plan.critical : Footprint(b) > ForCaches
       ELSE plan.critical # {} => \E b \in plan.critical : Footprint(b) <= ForCaches

(* "So this costs O(log n) Monte-Carlo evaluations rather than a linear     *)
(* scan": with k bits in the ceiling, at most 2k - 1 of them.               *)
SearchCheap == HeadroomSearch!LogarithmicCost

(* Re-derived for fp8, a plan promises no more than one estimated for fp8   *)
(* would: exactly as many tokens when no state is reserved by sequence, and *)
(* a headroom, which is the old one, that fp8 sustains too.                 *)
SwitchSafe ==
  LET fp8 == [request EXCEPT !.kv = "fp8"]
  IN  Switched =>
        /\ Reconciles
        /\ KvBudgetTokens(plan) <= KvTokens(fp8)
        /\ FixedPerSequence(fp8) = 0 => KvBudgetTokens(plan) = KvTokens(fp8)
        /\ plan.headroom > 0 => Fits(fp8, plan.headroom)

(* When the flags come without a warning, the engine has the dtype that was *)
(* planned, and the cache that was planned up to the rounding of the lever, *)
(* and stays within usable memory, but for two things nothing is said of.   *)
(* A version without an eager parameter captures its graphs all the same:   *)
(* what they take is missing from the cache or comes on top, and no more    *)
(* than that.  And a fraction never goes below five percent, wanted or not: *)
(* no more is taken than what that adds to the sum needed.                  *)
Slack ==
  CASE spec.lever.kind = "bytes"    -> 0
    [] spec.lever.kind = "tokens"   -> plan.perToken - 1
    [] spec.lever.kind = "fraction" -> CeilDiv(request.gpu.total, 20000) + 1

Unplanned ==
  IF request.eager /\ "eager" \notin spec.flags
  THEN Overheads([request EXCEPT !.eager = FALSE]).graph ELSE 0

Floor ==
  IF spec.lever.kind = "fraction" /\ spec.lever.value = 500
  THEN Larger(0, RoundDiv(500 * request.gpu.total, 10000) - Needed(schema.engine)) ELSE 0

EngineHonoursPlan ==
  phase = "booted" /\ spec.warnings = {} /\ Windowless(request.model.cache) =>
    /\ booted.dtype = plan.dtype
    /\ ScalesWithContext(request.model.cache) => booted.kv + Slack + Unplanned >= plan.kv
    /\ booted.used <= request.gpu.usable + Unplanned + Floor
=============================================================================
