------------------------------ MODULE Profile -------------------------------
(***************************************************************************)
(* The profile and the plan command up to the estimate (cli.py): the GPU   *)
(* comes from the spec database or from NVML, the model's config and its   *)
(* weights from the Hub, and only then is anything estimated.  What        *)
(* follows, from the plan to the engine, is module Launch; the weights are *)
(* measured by module Weights, of which only the outcome counts here.      *)
(***************************************************************************)
EXTENDS ModelConfig, Hardware

CONSTANTS
  Commands,  (* [key, gpus, tp, lengths]: key is {} (detect) or {w}, see    *)
             (* Hardware; lengths: every p95 length is above its median     *)
  Devices,   (* what NVML would find: [name, visible, free]                 *)
  Configs,   (* the configs a repository may have, see ModelConfig          *)
  Dense      (* parameters outside the routed and shared experts            *)

(* The numbers of a config are counts, and there is more than experts.      *)
ASSUME ConfigsAssumption ==
  \A c \in Configs :
    /\ c.layers \in Nat /\ c.hidden \in Nat /\ c.heads \in Nat /\ c.headDim \in Nat
    /\ c.kvHeads \in Nat /\ c.rank \in Nat /\ c.rope \in Nat /\ c.window \in Nat
    /\ c.mamba.inner \in Nat /\ c.mamba.groups \in Nat
    /\ c.mamba.state \in Nat /\ c.mamba.conv \in Nat
    /\ c.pattern \in Seq({"*", "M", "-"}) /\ c.types \in Seq({"full", "sliding", "other"})
    /\ c.moe.experts \in Nat /\ c.moe.topk \in Nat /\ c.moe.shared \in Nat
    /\ c.moe.dense \in Nat /\ c.moe.width \in Nat
ASSUME DenseAssumption == Dense \subseteq Nat \ {0}

VARIABLES
  command, device,
  session,   \* of NVML: "none", "open", or "shut" once shutdown was called
  asked,     \* how many of NVML's queries have been answered
  raised,    \* a query did not answer
  gpu, config, measured, model,
  pc

vars == <<command, device, session, asked, raised, gpu, config, measured, model, pc>>

Unset == [unset |-> TRUE]
Queries == 6    \* device count, handle, name, memory, capability, cores

(* How the command can end before there is anything to estimate.            *)
Ends == {"error", "no_gpu", "traceback", "aborted"}

Init ==
  /\ command \in Commands
  /\ device = Unset
  /\ session = "none" /\ asked = 0 /\ raised = FALSE
  /\ gpu = Unset /\ config = Unset /\ measured = Unset /\ model = Unset
  /\ pc = "gpu"

-----------------------------------------------------------------------------
(* The GPU.                                                                 *)

(* specdb.load: UnknownGPUError is caught, a bad count is not.              *)
LoadSpec ==
  /\ pc = "gpu" /\ command.key # {}
  /\ \E wanted \in command.key :
       \/ /\ Resolved(wanted) = {}
          /\ pc' = "error" /\ gpu' = gpu
       \/ \E entry \in Resolved(wanted) :
            LET found == SpecProfile(entry, command.gpus) IN
            IF Valid(found) THEN gpu' = found /\ pc' = "config"
            ELSE gpu' = gpu /\ pc' = "traceback"
  /\ UNCHANGED <<command, device, session, asked, raised, config, measured, model>>

(* discover: nvmlInit.                                                      *)
OpenNvml ==
  /\ pc = "gpu" /\ command.key = {}
  /\ device' \in Devices
  /\ \/ session' = "open" /\ pc' = "queries"
     \/ session' = session /\ pc' = "no_gpu"
  /\ raised' = (pc' = "no_gpu")
  /\ UNCHANGED <<command, asked, gpu, config, measured, model>>

Query ==
  /\ pc = "queries" /\ asked < Queries
  /\ asked = 1 => device.visible >= 1
  /\ asked' = asked + 1
  /\ UNCHANGED <<command, device, session, raised, gpu, config, measured, model, pc>>

(* Mutant: only a session that was of use is shut down.                     *)
QueryRaisesOpen ==
  /\ pc = "queries" /\ asked < Queries
  /\ raised' = TRUE /\ pc' = "no_gpu"
  /\ UNCHANGED <<command, device, session, asked, gpu, config, measured, model>>

(* A query raises, or there is no device: the session is shut down on the   *)
(* way out, and every exception ends the command as if there were no GPU.   *)
QueryRaises ==
  /\ pc = "queries" /\ asked < Queries
  /\ session' = "shut"
  /\ raised' = TRUE /\ pc' = "no_gpu"
  /\ UNCHANGED <<command, device, asked, gpu, config, measured, model>>

BuildLive ==
  /\ pc = "queries" /\ asked = Queries
  /\ session' = "shut"
  /\ IF Valid(LiveProfile(device))
     THEN gpu' = LiveProfile(device) /\ pc' = "config"
     ELSE gpu' = gpu /\ pc' = "no_gpu"
  /\ UNCHANGED <<command, device, asked, raised, config, measured, model>>

FindGpu == LoadSpec \/ OpenNvml \/ Query \/ QueryRaises \/ BuildLive

-----------------------------------------------------------------------------
(* The model: analyze.                                                      *)

(* fetch_config turns what urlopen and the parser raise into an error; a    *)
(* connection that breaks off while the body is read is not among it.       *)
FetchConfig ==
  /\ pc = "config"
  /\ \/ \E c \in Configs : config' = c /\ pc' = "weights"
     \/ config' = config /\ pc' \in {"error", "traceback"}
  /\ UNCHANGED <<command, device, session, asked, raised, gpu, measured, model>>

ExpertLayers(c) == IF c.layers > c.moe.dense THEN c.layers - c.moe.dense ELSE 0
ExpertSize(c) == 3 * c.hidden * c.moe.width

(* Every parameter of a model with this config; eight 4-bit parameters are  *)
(* packed into one element.                                                 *)
Parameters(c, dense) ==
  dense + ExpertLayers(c) * (c.moe.experts + c.moe.shared) * ExpertSize(c)
Counted(c, dense, packed) ==
  IF packed THEN 1 + Parameters(c, dense) \div 8 ELSE Parameters(c, dense)

(* measure_hub, as module Weights has it, then profile_from_config.         *)
Measure ==
  /\ pc = "weights"
  /\ \/ /\ measured' = measured /\ model' = model
        /\ pc' \in {"error", "traceback"}
     \/ \E dense \in Dense, packed \in BOOLEAN :
          LET m == [ params |-> Counted(config, dense, packed), packed |-> packed,
                     bytes  |-> 2 * Counted(config, dense, packed) ] IN
          /\ measured' = m
          /\ IF Unknown(config) THEN pc' = "error" /\ model' = model
             ELSE IF Refused(config) THEN pc' = "traceback" /\ model' = model
             ELSE pc' = "estimate" /\ model' = ProfileOf(config, m)
  /\ UNCHANGED <<command, device, session, asked, raised, gpu, config>>

(* The workload, whose ValueError nothing catches here, and the first thing *)
(* estimate_plan refuses, which is caught; what follows is module Launch.    *)
Estimate ==
  /\ pc = "estimate"
  /\ \/ ~command.lengths /\ pc' = "traceback"
     \/ command.lengths /\ command.tp > gpu.count /\ pc' = "error"
     \/ command.lengths /\ command.tp <= gpu.count /\ pc' = "ready"
  /\ UNCHANGED <<command, device, session, asked, raised, gpu, config, measured, model>>

(* Ctrl-C: no handler, but the session is shut down on the way.             *)
Interrupt ==
  /\ pc \notin Ends \cup {"ready"}
  /\ pc' = "aborted"
  /\ session' = IF session = "open" THEN "shut" ELSE session
  /\ UNCHANGED <<command, device, asked, raised, gpu, config, measured, model>>

Ended == pc \in Ends \cup {"ready"} /\ UNCHANGED vars

Next == FindGpu \/ FetchConfig \/ Measure \/ Estimate \/ Interrupt \/ Ended

Spec == Init /\ [][Next]_vars

-----------------------------------------------------------------------------
(* What layer i of the config keeps, if anything, as hf.py's opening lines  *)
(* rank the fields: one layer at a time, where the code counts kinds.       *)
LayerOf(c, i) ==
  IF c.rank # 0 THEN Single(MLA(c.rank, c.rope, 1))
  ELSE IF c.pattern # <<>> THEN
    CASE c.pattern[i] = "*" -> Single(Heads(c, 1, NoWindow))
      [] c.pattern[i] = "M" -> Single(Mamba(c, 1))
      [] OTHER              -> <<>>
  ELSE IF c.types # <<>> THEN
    Single(Heads(c, 1, IF c.types[i] = "sliding" THEN c.window ELSE NoWindow))
  ELSE Single(Heads(c, 1, IF c.disabled THEN NoWindow ELSE c.window))

LayersOf(c) ==
  IF c.rank # 0 \/ c.pattern \o c.types = <<>> THEN 1..c.layers
  ELSE IF c.pattern # <<>> THEN DOMAIN c.pattern ELSE DOMAIN c.types

(* The cache of a profile costs what its layers cost, one by one: no field  *)
(* that co-occurs with another makes the plan count layers that keep        *)
(* nothing, keep what they do not, or lack the window they have.            *)
CacheCountsEveryLayer ==
  pc = "ready" =>
    \A n \in {1, 3, 9}, dtype \in KvDtypes, tp \in {1, 2} :
      SequenceBytes(model.cache, n, dtype, tp)
        = SumFunction([i \in LayersOf(config) |-> SequenceBytes(LayerOf(config, i), n, dtype, tp)])

(* The parameters a token is said to pass through are no more than there    *)
(* are and no fewer than it does: the estimate behind the compute side of   *)
(* the roofline errs upwards.  Packed checkpoints are excepted, as the      *)
(* profile warns.                                                           *)
ActiveCovers ==
  pc = "ready" =>
    /\ model.active \in 1..model.params
    /\ ~measured.packed =>
         model.params - model.active <=
           IF IsMoe(config)
           THEN ExpertLayers(config) * (config.moe.experts - config.moe.topk) * ExpertSize(config)
           ELSE 0

(* NVML is never left open, whichever query raises or is interrupted, and   *)
(* also not while the Hub is read.                                          *)
NvmlClosed == session = "open" => pc = "queries"

(* discover's "count: Defaults to the visible device count" (nvml.py): a    *)
(* machine with devices, free memory and an answering driver has a profile. *)
MachineDetected == pc = "no_gpu" => raised \/ device.free = 0
=============================================================================
