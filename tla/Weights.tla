------------------------------ MODULE Weights ------------------------------
(***************************************************************************)
(* Measuring the weights of a checkpoint from its safetensors headers,     *)
(* models/safetensors.py: measure_hub, which reads the shards of an index  *)
(* on a pool of threads, and measure_local, the reference it must agree    *)
(* with.                                                                   *)
(*                                                                         *)
(* A tensor is its size, its dtype and whether it is an output head; a     *)
(* file is the sequence of the tensors in its header, empty for a file     *)
(* that does not exist or has none, which is an error either way.          *)
(* Elements are counted as bytes are, so n_params is left out.  Every      *)
(* fetch may fail, with the three answers _fetch_all tells apart or with   *)
(* an exception it does not catch.                                         *)
(***************************************************************************)
EXTENDS Integers, FiniteSets, SequencesExt

CONSTANTS
  Repositories,  (* what may be on the hub: see Repository                  *)
  MaxWorkers,    (* max_workers                                             *)
  MaxInterrupts  (* bound: how often Ctrl-C is pressed                      *)

(* index is what model.safetensors.index.json is: absent, not JSON, or an   *)
(* index whose weight_map names the shards, in sorted order; single is      *)
(* model.safetensors; tied is tie_word_embeddings.                          *)
Repository(Files, n) ==
  [ index  : {"absent", "garbled", "json"},
    shards : BoundedSeq(Files, n),
    single : Files,
    tied   : BOOLEAN ]

ASSUME WeightsAssumption == MaxWorkers \in Nat \ {0} /\ MaxInterrupts \in Nat
(* What a file of a repository may be.                                      *)
Measurable(file) ==
  file \in Seq(Range(file)) /\ \A i \in DOMAIN file : file[i].bytes \in Nat

ASSUME RepositoriesAssumption ==
  \A r \in Repositories :
    /\ r.index \in {"absent", "garbled", "json"}
    /\ r.shards \in Seq(Range(r.shards))
    /\ Measurable(r.single) /\ \A file \in Range(r.shards) : Measurable(file)

VARIABLES
  repo,       \* the repository
  phase,      \* where measure_hub is
  read,       \* each shard's future
  collected,  \* what pool.map has yielded so far
  result,     \* the measurement
  unreachable,\* history: an index that exists could not be fetched
  interrupts  \* history: how often Ctrl-C was pressed while the pool existed

vars == <<repo, phase, read, collected, result, unreachable, interrupts>>

Shards  == DOMAIN repo.shards
Reading == {"length", "header"}        \* between the two reads of a header
Over    == {"returned", "raised"}
InState(S) == {i \in Shards : read[i] \in S}

(* 'max(1, min(max_workers, len(shards)))'; a lone shard is read by the     *)
(* caller itself, which is a pool of one.                                   *)
Threads == IF Len(repo.shards) < MaxWorkers THEN Len(repo.shards) ELSE MaxWorkers

-----------------------------------------------------------------------------
(* _summarise.                                                              *)

(* The bytes of the tensors at the positions of S.                          *)
Bytes(tensors, S) == SumFunctionOnSet([i \in DOMAIN tensors |-> tensors[i].bytes], S)

OfType(tensors, S, d) == {i \in S : tensors[i].dtype = d}

Heads(tensors) == {i \in DOMAIN tensors : tensors[i].head}

(* Mutant: every output head is taken off.                                  *)
DedupAll(tensors, tied) == IF tied THEN Heads(tensors) ELSE {}

(* The copy of the embeddings that is not resident: the first head stored.  *)
Dedup(tensors, tied) ==
  IF tied THEN {i \in Heads(tensors) : \A j \in Heads(tensors) : i <= j} ELSE {}

Summarise(tensors, tied, shards) ==
  LET all == DOMAIN tensors
      dropped == Dedup(tensors, tied)
      resident(d) == Bytes(tensors, OfType(tensors, all, d))
                       - Bytes(tensors, OfType(tensors, dropped, d))
      dtypes == {tensors[i].dtype : i \in all}
  IN  [ raw    |-> Bytes(tensors, all),
        total  |-> Bytes(tensors, all) - Bytes(tensors, dropped),
        dtypes |-> [d \in {e \in dtypes : resident(e) > 0} |-> resident(d)],
        shards |-> shards ]

NoResult == [total |-> -1]

(* measure_local on the same files: an index that is not JSON, a missing    *)
(* file and a header without tensors raise.  An empty weight_map measures   *)
(* nothing, where measure_hub raises.                                       *)
Local ==
  CASE repo.index = "garbled" -> NoResult
    [] repo.index = "json" ->
         IF \E i \in Shards : repo.shards[i] = <<>> THEN NoResult
         ELSE Summarise(FlattenSeq(repo.shards), repo.tied, Len(repo.shards))
    [] OTHER ->
         IF repo.single = <<>> THEN NoResult
         ELSE Summarise(repo.single, repo.tied, 1)

-----------------------------------------------------------------------------
(* measure_hub.                                                             *)

Init ==
  /\ repo \in Repositories
  /\ phase = "index"
  /\ read = [i \in Shards |-> "absent"]
  /\ collected = <<>>
  /\ result = NoResult
  /\ unreachable = FALSE
  /\ interrupts = 0

(* The index arrives and names at least one shard.                          *)
FetchIndex ==
  /\ phase = "index"
  /\ repo.index = "json"
  /\ repo.shards # <<>>
  /\ phase' = "submit"
  /\ UNCHANGED <<repo, read, collected, result, unreachable, interrupts>>

(* HTTP 404: a repository of one file.                                      *)
IndexAbsent ==
  /\ phase = "index"
  /\ repo.index = "absent"
  /\ phase' = "single"
  /\ UNCHANGED <<repo, read, collected, result, unreachable, interrupts>>

Unusable == repo.index = "garbled" \/ (repo.index = "json" /\ repo.shards = <<>>)

(* Mutant: invalid JSON falls back too.                                     *)
IndexUnusableFallsBack ==
  /\ phase = "index"
  /\ Unusable
  /\ phase' = "single"
  /\ UNCHANGED <<repo, read, collected, result, unreachable, interrupts>>

(* Not JSON, or no weight_map: "refusing to fall back".                     *)
IndexUnusable ==
  /\ phase = "index"
  /\ Unusable
  /\ phase' = "raised"
  /\ UNCHANGED <<repo, read, collected, result, unreachable, interrupts>>

(* Another HTTP status or a network error is a ModelMetadataError without   *)
(* the word restricted, which the code passes over like a 404.              *)
IndexUnreachable ==
  /\ phase = "index"
  /\ unreachable' = (repo.index # "absent")
  /\ phase' = "single"
  /\ UNCHANGED <<repo, read, collected, result, interrupts>>

(* HTTP 401 or 403, or an exception that _fetch_all does not catch.         *)
IndexRaises ==
  /\ phase = "index"
  /\ phase' = "raised"
  /\ UNCHANGED <<repo, read, collected, result, unreachable, interrupts>>

ReadSingle ==
  /\ phase = "single"
  /\ repo.single # <<>>
  /\ result' = Summarise(repo.single, repo.tied, 1)
  /\ phase' = "returned"
  /\ UNCHANGED <<repo, read, collected, unreachable, interrupts>>

SingleRaises ==
  /\ phase = "single"
  /\ phase' = "raised"
  /\ UNCHANGED <<repo, read, collected, result, unreachable, interrupts>>

-----------------------------------------------------------------------------
(* read_shard, on the threads of the pool.                                  *)

(* An idle thread takes the next shard, whatever the caller is doing.       *)
StartShard(i) ==
  /\ read[i] = "queued"
  /\ \A j \in 1 .. i - 1 : read[j] # "queued"
  /\ Cardinality(InState(Reading)) < Threads
  /\ read' = [read EXCEPT ![i] = "length"]
  /\ UNCHANGED <<repo, phase, collected, result, unreachable, interrupts>>

ReadLength(i) ==
  /\ read[i] = "length"
  /\ read' = [read EXCEPT ![i] = "header"]
  /\ UNCHANGED <<repo, phase, collected, result, unreachable, interrupts>>

ReadHeader(i) ==
  /\ read[i] = "header"
  /\ repo.shards[i] # <<>>
  /\ read' = [read EXCEPT ![i] = "done"]
  /\ UNCHANGED <<repo, phase, collected, result, unreachable, interrupts>>

(* A failed or short read, a length out of bounds, a malformed header, one  *)
(* without tensors.                                                         *)
ReadFails(i) ==
  /\ read[i] \in Reading
  /\ read' = [read EXCEPT ![i] = "failed"]
  /\ UNCHANGED <<repo, phase, collected, result, unreachable, interrupts>>

Reader(i) == StartShard(i) \/ ReadLength(i) \/ ReadHeader(i) \/ ReadFails(i)

-----------------------------------------------------------------------------
(* The loop over pool.map, which submits every shard and then yields their  *)
(* results in order.                                                        *)

Submit ==
  /\ phase = "submit"
  /\ \E i \in Shards :
       /\ read[i] = "absent"
       /\ \A j \in 1 .. i - 1 : read[j] # "absent"
       /\ read' = [read EXCEPT ![i] = "queued"]
       /\ phase' = IF i = Len(repo.shards) THEN "shards" ELSE "submit"
  /\ UNCHANGED <<repo, collected, result, unreachable, interrupts>>

Awaited == Len(collected) + 1    \* the shard the loop waits for

Collect ==
  /\ phase = "shards"
  /\ Awaited \in InState({"done"})
  /\ collected' = Append(collected, repo.shards[Awaited])
  /\ UNCHANGED <<repo, phase, read, result, unreachable, interrupts>>

(* Mutant: a shard that cannot be read is skipped.                          *)
CollectSkips ==
  /\ phase = "shards"
  /\ Awaited \in InState({"failed"})
  /\ collected' = Append(collected, <<>>)
  /\ UNCHANGED <<repo, phase, read, result, unreachable, interrupts>>

(* Mutant: a shard that cannot be read is read again, without end.          *)
CollectRetries ==
  /\ phase = "shards"
  /\ Awaited \in InState({"failed"})
  /\ read' = [read EXCEPT ![Awaited] = "queued"]
  /\ UNCHANGED <<repo, phase, collected, result, unreachable, interrupts>>

(* The shard's exception comes out of the generator.                        *)
CollectRaises ==
  /\ phase = "shards"
  /\ Awaited \in InState({"failed"})
  /\ phase' = "cancelling"
  /\ UNCHANGED <<repo, read, collected, result, unreachable, interrupts>>

(* The generator cancels the shards not yet begun one by one, while threads *)
(* go on beginning them: the awaited one first, unless the exception arose  *)
(* between two results, and the others from the last backwards.             *)
CancelNext ==
  /\ phase = "cancelling"
  /\ \E i \in InState({"queued"}) :
       /\ i = Awaited \/ \A j \in InState({"queued"}) : j <= i
       /\ read' = [read EXCEPT ![i] = "cancelled"]
  /\ UNCHANGED <<repo, phase, collected, result, unreachable, interrupts>>

AllCancelled ==
  /\ phase = "cancelling"
  /\ InState({"queued"}) = {}
  /\ phase' = "raising"
  /\ UNCHANGED <<repo, read, collected, result, unreachable, interrupts>>

(* Where Ctrl-C takes the caller.  Nothing is cancelled while the shards    *)
(* are being submitted; an exception in the cancelling ends it; one in the  *)
(* join of the threads ends the call.                                       *)
Escape == [ submit  |-> "raising", shards |-> "cancelling", cancelling |-> "raising",
            raising |-> "raised" ]

(* Ctrl-C while there is a pool.  Elsewhere, a lone shard included, it ends *)
(* the call as any other exception of the caller's own fetch.               *)
Interrupt ==
  /\ phase \in DOMAIN Escape
  /\ Len(repo.shards) > 1
  /\ interrupts < MaxInterrupts
  /\ interrupts' = interrupts + 1
  /\ phase' = Escape[phase]
  /\ UNCHANGED <<repo, read, collected, result, unreachable>>

(* Mutant: the exception does not wait for the threads.                     *)
LeaveAtOnce ==
  /\ phase = "raising"
  /\ phase' = "raised"
  /\ UNCHANGED <<repo, read, collected, result, unreachable, interrupts>>

(* The end of the with block waits for the threads.                         *)
Leave ==
  /\ phase = "raising"
  /\ InState(Reading \cup {"queued"}) = {}
  /\ phase' = "raised"
  /\ UNCHANGED <<repo, read, collected, result, unreachable, interrupts>>

(* total_size of the index is compared with the sum but never enters it.    *)
Return ==
  /\ phase = "shards"
  /\ Len(collected) = Len(repo.shards)
  /\ result' = Summarise(FlattenSeq(collected), repo.tied, Len(repo.shards))
  /\ phase' = "returned"
  /\ UNCHANGED <<repo, read, collected, unreachable, interrupts>>

Terminating == phase \in Over /\ UNCHANGED vars

Caller ==
  \/ FetchIndex \/ IndexAbsent \/ IndexUnusable \/ IndexUnreachable \/ IndexRaises
  \/ ReadSingle \/ SingleRaises
  \/ Submit \/ Collect \/ CollectRaises \/ CancelNext \/ AllCancelled \/ Leave \/ Return

Next == Caller \/ Interrupt \/ (\E i \in Shards : Reader(i)) \/ Terminating

Spec == Init /\ [][Next]_vars

(* A fetch ends, at the latest by its time-out, and threads are scheduled.  *)
FairSpec == Spec /\ WF_vars(Caller) /\ WF_vars(\E i \in Shards : Reader(i))

-----------------------------------------------------------------------------
(* Properties.                                                              *)

(* All or nothing: whatever the order in which the reads end and whichever  *)
(* of them fail, a measurement that comes back is the one measure_local     *)
(* makes of the same files, unless the index could not be fetched.          *)
SameAsLocal == phase = "returned" /\ ~unreachable => result = Local

(* "Resident bytes after deduplicating tied embeddings": the bytes by dtype *)
(* add up to the total, and at most one tensor was taken off.               *)
Resident ==
  phase = "returned" =>
    /\ result.total = SumFunction(result.dtypes)
    /\ \/ result.total = result.raw
       \/ repo.tied /\ \E f \in Range(repo.shards) \cup {repo.single} :
                         \E i \in DOMAIN f : f[i].head /\ result.raw - result.total = f[i].bytes

(* The way out of a pool whose threads are still reading: an exception is   *)
(* pending, the awaited shard's or a Ctrl-C, and a further Ctrl-C breaks    *)
(* off the join.                                                            *)
TwiceDisturbed ==
  interrupts > 1 \/ (interrupts = 1 /\ Awaited \in InState({"failed"}))

(* One disturbance is not enough to leave a hundred-shard download behind   *)
(* the caller's back: after a failed shard, or after one Ctrl-C at any      *)
(* moment, no thread reads or has a shard to begin when the call is over.   *)
(* And a call that returns leaves nobody, whatever happened.                *)
NoStrayReads ==
  phase = "returned" \/ (phase = "raised" /\ ~TwiceDisturbed) =>
    InState(Reading \cup {"queued"}) = {}

(* The call ends, and a shard that failed makes it raise, though the loop   *)
(* waits for the shards before it first.                                    *)
Ends == <>(phase \in Over)
FailureSurfaces == (InState({"failed"}) # {}) ~> (phase = "raised")

(* measure_hub's docstring: "Every shard header is read and its             *)
(* data_offsets summed."                                                    *)
EveryShardSummed ==
  phase = "returned" /\ repo.index = "json" /\ repo.shards # <<>> =>
    LET summed == FlattenSeq(repo.shards) IN result.raw = Bytes(summed, DOMAIN summed)
=============================================================================
