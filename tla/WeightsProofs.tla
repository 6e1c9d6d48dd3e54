---------------------------- MODULE WeightsProofs ----------------------------
(***************************************************************************)
(* What module Weights promises, proved for every set of repositories and  *)
(* every size of the pool: a measurement that comes back is the one        *)
(* measure_local makes and adds up, and no thread outlives the call.       *)
(***************************************************************************)
EXTENDS Weights, Sums, SequenceTheorems

States == {"absent", "queued", "cancelled", "done", "failed"} \cup Reading

Underway == {"submit", "shards", "cancelling", "raising"}     \* a pool exists

(* The shape of a call: the reads belong to the shards of the repository.   *)
Shape ==
  /\ repo \in Repositories
  /\ phase \in {"index", "single"} \cup Underway \cup Over
  /\ read \in [Shards -> States]
  /\ unreachable \in BOOLEAN
  /\ interrupts \in Nat

(* No shard is submitted before all are known, a call that was interrupted  *)
(* is failing, and one that is failing knows why.                           *)
PoolBounded ==
  /\ phase \in {"index", "single"} => \A i \in Shards : read[i] = "absent"
  /\ phase \in {"index", "single", "submit", "shards"} => interrupts = 0
  /\ phase \in {"cancelling", "raising"} =>
       interrupts > 0 \/ Awaited \in InState({"failed"})

(* What was collected is a prefix of the shards, each of them read to its   *)
(* end; a shard that was read to its end has tensors.                       *)
PrefixCollected ==
  /\ \A i \in Shards : read[i] = "done" => repo.shards[i] # <<>>
  /\ collected \in Seq(Range(repo.shards))
  /\ Len(collected) <= Len(repo.shards)
  /\ \A i \in 1 .. Len(collected) :
       collected[i] = repo.shards[i] /\ read[i] = "done"

(* Which files a call in each phase measures.                               *)
SourceChosen ==
  /\ phase \in {"submit", "shards"} => repo.index = "json"
  /\ phase = "single" /\ ~unreachable => repo.index = "absent"

IInv ==
  /\ Shape /\ PoolBounded /\ PrefixCollected /\ SourceChosen
  /\ SameAsLocal /\ NoStrayReads

-----------------------------------------------------------------------------
(* The shards of a repository are a sequence.                               *)
LEMMA ShardsFacts ==
  ASSUME repo \in Repositories
  PROVE  /\ repo.shards \in Seq(Range(repo.shards))
         /\ Len(repo.shards) \in Nat
         /\ Shards = 1 .. Len(repo.shards)
<1>1. repo.shards \in Seq(Range(repo.shards))
  BY RepositoriesAssumption
<1>2. QED
  BY <1>1 DEF Shards

LEMMA InitHolds == Init => IInv
<1> SUFFICES ASSUME Init PROVE IInv
  OBVIOUS
<1>1. repo \in Repositories /\ phase = "index" /\ collected = <<>> /\ unreachable = FALSE
  BY DEF Init
<1>2. read = [i \in Shards |-> "absent"] /\ interrupts = 0
  BY DEF Init
<1>3. Shape /\ PoolBounded /\ SourceChosen
  BY <1>1, <1>2 DEF Shape, States, PoolBounded, SourceChosen, Underway, Over
<1>4. PrefixCollected
  BY <1>1, <1>2, ShardsFacts DEF PrefixCollected
<1>5. SameAsLocal /\ NoStrayReads
  BY <1>1 DEF SameAsLocal, NoStrayReads
<1>6. QED
  BY <1>3, <1>4, <1>5 DEF IInv

(* A step that only chooses the phase before any shard is read.             *)
LEMMA ChoosingKeeps ==
  ASSUME IInv,
         FetchIndex \/ IndexAbsent \/ IndexUnusable \/ IndexUnreachable \/ IndexRaises
  PROVE  IInv'
<1>1. /\ phase = "index" /\ UNCHANGED <<repo, read, collected, result, interrupts>>
      /\ phase' \in {"submit", "single", "raised"}
  BY DEF FetchIndex, IndexAbsent, IndexUnusable, IndexUnreachable, IndexRaises
<1>2. Shards' = Shards
  BY <1>1 DEF Shards
<1>3. Shape'
  BY <1>1, <1>2 DEF IInv, Shape, Underway, Over, FetchIndex, IndexAbsent, IndexUnusable,
                    IndexUnreachable, IndexRaises
<1>4. PoolBounded' /\ NoStrayReads'
  BY <1>1, <1>2 DEF IInv, PoolBounded, NoStrayReads, InState, Over, Reading
<1>5. PrefixCollected'
  BY <1>1, <1>2 DEF IInv, PrefixCollected
<1>6. SourceChosen'
  BY <1>1, RepositoriesAssumption
     DEF IInv, Shape, SourceChosen, FetchIndex, IndexAbsent, IndexUnusable,
         IndexUnreachable, IndexRaises, Over
<1>7. SameAsLocal'
  BY <1>1 DEF SameAsLocal
<1>8. QED
  BY <1>3, <1>4, <1>5, <1>6, <1>7 DEF IInv

(* The single-file path measures what measure_local measures.               *)
LEMMA SingleKeeps ==
  ASSUME IInv, ReadSingle \/ SingleRaises
  PROVE  IInv'
<1>1. /\ phase = "single" /\ UNCHANGED <<repo, read, collected, unreachable, interrupts>>
      /\ phase' \in {"returned", "raised"}
  BY DEF ReadSingle, SingleRaises
<1>2. Shards' = Shards /\ Local' = Local
  BY <1>1 DEF Shards, Local
<1>3. Shape' /\ PoolBounded' /\ PrefixCollected' /\ SourceChosen'
  BY <1>1, <1>2 DEF IInv, Shape, PoolBounded, PrefixCollected, SourceChosen, Underway, Over
<1>6. NoStrayReads'
  BY <1>1, <1>2 DEF IInv, PoolBounded, NoStrayReads, InState, Reading
<1>4. SameAsLocal'
  <2>1. CASE SingleRaises
    BY <2>1 DEF SingleRaises, SameAsLocal
  <2>2. CASE ReadSingle /\ ~unreachable
    <3>1. repo.index = "absent"
      BY <1>1, <2>2 DEF IInv, SourceChosen
    <3>2. repo.single # <<>> /\ result' = Summarise(repo.single, repo.tied, 1)
      BY <2>2 DEF ReadSingle
    <3>3. Local = Summarise(repo.single, repo.tied, 1)
      BY <3>1, <3>2 DEF Local
    <3>4. QED
      BY <1>2, <3>2, <3>3 DEF SameAsLocal
  <2>3. CASE unreachable
    BY <1>1, <2>3 DEF SameAsLocal
  <2>4. QED
    BY <2>1, <2>2, <2>3
<1>5. QED
  BY <1>3, <1>4, <1>6 DEF IInv

(* A thread moves one shard on, and one that was done stays done.           *)
LEMMA ReaderKeeps ==
  ASSUME IInv, NEW i \in Shards, Reader(i)
  PROVE  IInv'
<1>1. UNCHANGED <<repo, phase, collected, result, unreachable, interrupts>>
  BY DEF Reader, StartShard, ReadLength, ReadHeader, ReadFails
<1>2. Shards' = Shards /\ Local' = Local /\ Awaited' = Awaited
  BY <1>1 DEF Shards, Local, Awaited
<1>3. /\ read[i] \in {"queued"} \cup Reading
      /\ \E to \in {"done", "failed"} \cup Reading :
           /\ read' = [read EXCEPT ![i] = to]
           /\ to = "done" => repo.shards[i] # <<>>
  BY DEF Reader, StartShard, ReadLength, ReadHeader, ReadFails, Reading
<1>4. InState({"failed"}) \subseteq InState({"failed"})'
  BY <1>2, <1>3 DEF InState, IInv, Shape, Reading
<1>9. phase \notin {"index", "single"}
  BY <1>3 DEF IInv, PoolBounded, Reading
<1>10. NoStrayReads'
  <2>1. i \in InState(Reading \cup {"queued"})
    BY <1>3 DEF InState
  <2>2. ~(phase = "returned" \/ (phase = "raised" /\ ~TwiceDisturbed))
    BY <2>1 DEF IInv, NoStrayReads
  <2>3. TwiceDisturbed => TwiceDisturbed'
    BY <1>1, <1>2, <1>4 DEF TwiceDisturbed
  <2>4. QED
    BY <1>1, <2>2, <2>3 DEF NoStrayReads
<1>5. Shape' /\ PoolBounded' /\ SourceChosen'
  BY <1>1, <1>2, <1>3, <1>4, <1>9 DEF IInv, Shape, States, PoolBounded, SourceChosen, Reading
<1>6. PrefixCollected'
  <2>1. \A j \in 1 .. Len(collected) : j \in Shards /\ j # i
    BY <1>3, ShardsFacts DEF IInv, Shape, PrefixCollected, Reading
  <2>2. QED
    BY <1>1, <1>2, <1>3, <2>1 DEF IInv, Shape, PrefixCollected, Reading
<1>7. SameAsLocal'
  BY <1>1, <1>2 DEF IInv, SameAsLocal
<1>8. QED
  BY <1>5, <1>6, <1>7, <1>10 DEF IInv

(* Submitting or cancelling a shard concerns none that was begun.           *)
LEMMA QueueKeeps ==
  ASSUME IInv, Submit \/ CancelNext
  PROVE  IInv'
<1>1. /\ phase \in {"submit", "cancelling"} /\ phase' \in Underway
      /\ phase = "submit" => phase' \in {"submit", "shards"}
      /\ phase = "cancelling" => phase' = "cancelling"
      /\ UNCHANGED <<repo, collected, result, unreachable, interrupts>>
  BY DEF Submit, CancelNext, Underway
<1>2. Shards' = Shards /\ Awaited' = Awaited
  BY <1>1 DEF Shards, Awaited
<1>3. PICK i \in Shards, to \in {"queued", "cancelled"} :
        read[i] \in {"absent", "queued"} /\ read' = [read EXCEPT ![i] = to]
  BY DEF Submit, CancelNext, InState
<1>4. InState({"failed"})' = InState({"failed"})
  BY <1>2, <1>3 DEF InState, IInv, Shape
<1>5. Shape' /\ PoolBounded' /\ SourceChosen' /\ SameAsLocal' /\ NoStrayReads'
  BY <1>1, <1>2, <1>3, <1>4
     DEF IInv, Shape, States, PoolBounded, SourceChosen, SameAsLocal, NoStrayReads, Underway
<1>6. PrefixCollected'
  <2>1. \A j \in 1 .. Len(collected) : j \in Shards /\ j # i
    BY <1>3, ShardsFacts DEF IInv, Shape, PrefixCollected
  <2>2. QED
    BY <1>1, <1>2, <1>3, <2>1 DEF IInv, Shape, PrefixCollected
<1>7. QED
  BY <1>5, <1>6 DEF IInv

(* The loop takes the shards in their order, each when it was read.         *)
LEMMA CollectKeeps ==
  ASSUME IInv, Collect
  PROVE  IInv'
<1>1. /\ phase = "shards" /\ UNCHANGED <<repo, phase, read, result, unreachable, interrupts>>
      /\ Awaited \in Shards /\ read[Awaited] = "done"
      /\ collected' = Append(collected, repo.shards[Awaited])
  BY DEF Collect, InState
<1>2. Shards' = Shards /\ Local' = Local
  BY <1>1 DEF Shards, Local
<1>3. Shape' /\ PoolBounded' /\ SourceChosen' /\ SameAsLocal' /\ NoStrayReads'
  BY <1>1, <1>2 DEF IInv, Shape, PoolBounded, SourceChosen, SameAsLocal, NoStrayReads
<1>4. PrefixCollected'
  <2>1. repo.shards[Awaited] \in Range(repo.shards)
    BY <1>1 DEF Shards, Range
  <2>2. collected \in Seq(Range(repo.shards)) /\ Len(repo.shards) \in Nat
    BY ShardsFacts DEF IInv, Shape, PrefixCollected
  <2>3. /\ collected' \in Seq(Range(repo.shards))
        /\ Len(collected') = Awaited
        /\ collected'[Awaited] = repo.shards[Awaited]
        /\ \A j \in 1 .. Len(collected) : collected'[j] = collected[j]
    BY <1>1, <2>1, <2>2, AppendProperties DEF Awaited
  <2>4. Awaited <= Len(repo.shards)
    BY <1>1, ShardsFacts DEF IInv, Shape
  <2>5. \A j \in 1 .. Len(collected') : j = Awaited \/ j \in 1 .. Len(collected)
    BY <2>2, <2>3 DEF Awaited
  <2>6. QED
    BY <1>1, <1>2, <2>3, <2>4, <2>5 DEF IInv, PrefixCollected
<1>5. QED
  BY <1>3, <1>4 DEF IInv

(* A failing call has one exception pending when it waits for the threads,  *)
(* so that it takes a further Ctrl-C to leave without them.                 *)
LEMMA RaisingKeeps ==
  ASSUME IInv, CollectRaises \/ AllCancelled \/ Interrupt \/ Leave
  PROVE  IInv'
<1>1. /\ phase \in Underway /\ phase' \in {"cancelling", "raising", "raised"}
      /\ UNCHANGED <<repo, read, collected, result, unreachable>>
  BY DEF CollectRaises, AllCancelled, Interrupt, Leave, Escape, Underway
<1>2. /\ Shards' = Shards /\ Awaited' = Awaited
      /\ \A S : InState(S)' = InState(S)
  BY <1>1 DEF Shards, Awaited, InState
<1>3. interrupts \in Nat /\ (interrupts' = interrupts \/ interrupts' = interrupts + 1)
  BY DEF IInv, Shape, CollectRaises, AllCancelled, Interrupt, Leave
<1>4. Shape' /\ SourceChosen' /\ SameAsLocal' /\ PrefixCollected'
  BY <1>1, <1>2, <1>3
     DEF IInv, Shape, SourceChosen, SameAsLocal, PrefixCollected, Underway, Over
<1>5. PoolBounded'
  BY <1>1, <1>2, <1>3 DEF IInv, PoolBounded, CollectRaises, AllCancelled, Interrupt, Leave
<1>6. NoStrayReads'
  <2>1. CASE Leave
    BY <1>2, <2>1 DEF Leave, NoStrayReads
  <2>2. CASE Interrupt
    <3>1. phase' = Escape[phase] /\ interrupts' = interrupts + 1
      BY <2>2 DEF Interrupt
    <3>2. CASE phase = "raising"
      <4>1. interrupts > 0 \/ Awaited \in InState({"failed"})
        BY <3>2 DEF IInv, PoolBounded
      <4>2. TwiceDisturbed'
        BY <1>2, <1>3, <3>1, <4>1 DEF TwiceDisturbed
      <4>3. QED
        BY <1>1, <4>2 DEF NoStrayReads
    <3>3. CASE phase # "raising"
      <4>1. phase' \in {"cancelling", "raising"}
        BY <1>1, <3>1, <3>3 DEF Escape, Underway
      <4>2. QED
        BY <4>1 DEF NoStrayReads
    <3>4. QED
      BY <3>2, <3>3
  <2>3. CASE CollectRaises \/ AllCancelled
    BY <2>3 DEF CollectRaises, AllCancelled, NoStrayReads
  <2>4. QED
    BY <2>1, <2>2, <2>3
<1>7. QED
  BY <1>4, <1>5, <1>6 DEF IInv

(* Once every shard was collected, what was collected is the shards.        *)
LEMMA ReturnKeeps ==
  ASSUME IInv, Return
  PROVE  IInv'
<1>1. /\ phase = "shards" /\ phase' = "returned"
      /\ UNCHANGED <<repo, read, collected, unreachable, interrupts>>
      /\ Len(collected) = Len(repo.shards)
      /\ result' = Summarise(FlattenSeq(collected), repo.tied, Len(repo.shards))
  BY DEF Return
<1>2. Shards' = Shards /\ Local' = Local
  BY <1>1 DEF Shards, Local
<1>3. \A i \in Shards : read[i] = "done" /\ repo.shards[i] # <<>>
  BY <1>1, ShardsFacts DEF IInv, Shape, PrefixCollected
<1>4. Shape' /\ PoolBounded' /\ PrefixCollected' /\ SourceChosen'
  BY <1>1, <1>2, <1>3 DEF IInv, Shape, PoolBounded, PrefixCollected, SourceChosen, Over
<1>10. NoStrayReads'
  BY <1>1, <1>2, <1>3 DEF NoStrayReads, InState, Reading
<1>5. collected = repo.shards
  BY <1>1, ShardsFacts, SeqEqual DEF IInv, Shape, PrefixCollected
<1>6. repo.index = "json"
  BY <1>1 DEF IInv, SourceChosen
<1>7. Local = Summarise(FlattenSeq(repo.shards), repo.tied, Len(repo.shards))
  BY <1>3, <1>6 DEF Local
<1>8. SameAsLocal'
  BY <1>1, <1>2, <1>5, <1>7 DEF SameAsLocal
<1>9. QED
  BY <1>4, <1>8, <1>10 DEF IInv

LEMMA Inductive == Spec => []IInv
<1>1. IInv /\ [Next]_vars => IInv'
  <2> SUFFICES ASSUME IInv, [Next]_vars PROVE IInv'
    OBVIOUS
  <2>1. CASE UNCHANGED vars
    BY <2>1 DEF vars, IInv, Shape, PoolBounded, PrefixCollected, SourceChosen, SameAsLocal,
                NoStrayReads, TwiceDisturbed, Awaited, InState, Shards, Local
  <2>2. CASE Next
    BY <2>1, <2>2, ChoosingKeeps, SingleKeeps, ReaderKeeps, QueueKeeps, CollectKeeps,
       RaisingKeeps, ReturnKeeps DEF Next, Caller, Terminating
  <2>3. QED
    BY <2>1, <2>2
<1>2. QED
  BY <1>1, InitHolds, PTL DEF Spec

-----------------------------------------------------------------------------
(* Whatever the repository, the pool and the order in which reads end or    *)
(* fail, a measurement counts every shard once, as measure_local does.      *)
THEOREM MeasuredAsLocal == Spec => []SameAsLocal
BY Inductive, PTL DEF IInv

(* No thread reads on or has a shard to begin behind a call that is over,   *)
(* after a failed shard or a Ctrl-C at any moment, whatever the repository  *)
(* and the pool; leaving them takes a Ctrl-C on top of either, and no       *)
(* number of them makes a call return too early.                            *)
THEOREM StrayReadsExcluded == Spec => []NoStrayReads
BY Inductive, PTL DEF IInv

-----------------------------------------------------------------------------
(* Sums by group.                                                           *)

(* A sum with a single number in it.                                        *)
LEMMA SumLone ==
  ASSUME NEW S, IsFiniteSet(S), NEW k \in S, NEW a \in Int,
         NEW u, \A x \in S : u[x] = IF x = k THEN a ELSE 0
  PROVE  SumOf(u, S) = a
<1> DEFINE rest == S \ {k}
<1>1. IsFiniteSet(rest) /\ rest \in SUBSET S /\ \A x \in rest : u[x] = 0
  BY FS_RemoveElement
<1>2. Numbers(u, S) /\ Numbers(u, rest)
  BY <1>1 DEF Numbers
<1>3. SumOf(u, S) = u[k] + SumOf(u, rest)
  BY <1>2, SumStep
<1>4. SumOf(u, rest) = 0 * SumOf(u, rest)
  <2>1. \A x \in rest : u[x] = 0 * u[x]
    BY <1>1
  <2> HIDE DEF rest
  <2>2. QED
    BY <1>1, <1>2, <2>1, SumTimes
<1>5. SumOf(u, rest) \in Int
  <2> HIDE DEF rest
  <2>1. QED
    BY <1>1, <1>2, SumStep
<1>6. QED
  BY <1>3, <1>4, <1>5

(* What is summed group by group is what is summed at once.                 *)
LEMMA SumGrouped ==
  ASSUME NEW S, IsFiniteSet(S), NEW f, Numbers(f, S),
         NEW D, IsFiniteSet(D), NEW kind, \A x \in S : kind[x] \in D,
         NEW h, \A d \in D : h[d] = SumOf(f, {x \in S : kind[x] = d})
  PROVE  SumOf(h, D) = SumOf(f, S)
<1> DEFINE Group(s, d) == {x \in s : kind[x] = d}
           G(s) == [d \in D |-> SumOf(f, Group(s, d))]
           Good == {s \in SUBSET S : SumOf(G(s), D) = SumOf(f, s)}
<1>1. \A s \in SUBSET S : IsFiniteSet(s) /\ Numbers(f, s)
  BY FS_Subset DEF Numbers
<1>2. \A s \in SUBSET S : Numbers(G(s), D)
  <2> SUFFICES ASSUME NEW s \in SUBSET S, NEW d \in D PROVE SumOf(f, Group(s, d)) \in Int
    BY DEF Numbers
  <2>1. Group(s, d) \in SUBSET S
    OBVIOUS
  <2> HIDE DEF Group
  <2>2. QED
    BY <1>1, <2>1, SumStep
<1>3. {} \in Good
  <2>1. \A d \in D : Group({}, d) = {}
    OBVIOUS
  <2>2. \A d \in D : G({})[d] = 0 * G({})[d]
    <3>1. \A d \in D : G({})[d] = 0
      BY <2>1, SumEmpty
    <3> HIDE DEF G
    <3>2. QED
      BY <3>1
  <2>3. {} \in SUBSET S
    OBVIOUS
  <2>4. SumOf(G({}), D) = 0 * SumOf(G({}), D)
    <3> HIDE DEF G
    <3>1. QED
      BY <1>2, <2>2, <2>3, SumTimes
  <2>5. SumOf(G({}), D) \in Int
    <3> HIDE DEF G
    <3>1. QED
      BY <1>2, <2>3, SumStep
  <2>6. SumOf(G({}), D) = SumOf(f, {})
    BY <2>4, <2>5, SumEmpty
  <2> HIDE DEF G
  <2>7. QED
    BY <2>3, <2>6
<1>4. ASSUME NEW s \in SUBSET S, NEW x \in s, s \ {x} \in Good
      PROVE  s \in Good
  <2> DEFINE r == s \ {x}
             u == [d \in D |-> IF d = kind[x] THEN f[x] ELSE 0]
  <2>1. r \in SUBSET S /\ SumOf(G(r), D) = SumOf(f, r)
    BY <1>4
  <2>2. SumOf(f, s) = f[x] + SumOf(f, r) /\ f[x] \in Int /\ SumOf(f, r) \in Int
    <3>1. SumOf(f, s) = f[x] + SumOf(f, r) /\ f[x] \in Int
      BY <1>1, SumStep DEF Numbers
    <3>2. SumOf(f, r) \in Int
      <4> HIDE DEF r
      <4>1. QED
        BY <1>1, <2>1, SumStep
    <3>3. QED
      BY <3>1, <3>2
  <2>3. ASSUME NEW d \in D PROVE G(s)[d] = G(r)[d] + 1 * u[d]
    <3>1. Group(s, d) \in SUBSET S /\ Group(r, d) \in SUBSET S
      OBVIOUS
    <3>2. SumOf(f, Group(r, d)) \in Int
      <4> HIDE DEF Group, r
      <4>1. QED
        BY <1>1, <3>1, SumStep
    <3>3. CASE d = kind[x]
      <4>1. x \in Group(s, d) /\ Group(s, d) \ {x} = Group(r, d)
        BY <3>3
      <4>2. SumOf(f, Group(s, d)) = f[x] + SumOf(f, Group(r, d))
        <5> HIDE DEF Group, r
        <5>1. IsFiniteSet(Group(s, d)) /\ Numbers(f, Group(s, d))
          BY <1>1, <3>1
        <5>2. SumOf(f, Group(s, d)) = f[x] + SumOf(f, Group(s, d) \ {x})
          BY <4>1, <5>1, SumStep
        <5>3. QED
          BY <4>1, <5>2
      <4>3. G(s)[d] = SumOf(f, Group(s, d)) /\ G(r)[d] = SumOf(f, Group(r, d)) /\ u[d] = f[x]
        BY <3>3
      <4> HIDE DEF G, Group, r, u
      <4>4. QED
        BY <2>2, <3>2, <4>2, <4>3
    <3>4. CASE d # kind[x]
      <4>1. Group(s, d) = Group(r, d)
        BY <3>4
      <4>2. G(s)[d] = SumOf(f, Group(s, d)) /\ G(r)[d] = SumOf(f, Group(r, d)) /\ u[d] = 0
        BY <3>4
      <4> HIDE DEF G, Group, r, u
      <4>3. QED
        BY <3>2, <4>1, <4>2
    <3>5. QED
      BY <3>3, <3>4
  <2>4. SumOf(u, D) = f[x] /\ Numbers(u, D)
    <3>1. kind[x] \in D /\ \A d \in D : u[d] = IF d = kind[x] THEN f[x] ELSE 0
      OBVIOUS
    <3>2. Numbers(u, D)
      BY <2>2 DEF Numbers
    <3> HIDE DEF u
    <3>3. QED
      BY <2>2, <3>1, <3>2, SumLone
  <2>5. SumOf(G(s), D) = SumOf(G(r), D) + 1 * SumOf(u, D)
    <3> HIDE DEF G, r, u
    <3>1. QED
      BY <1>2, <2>1, <2>3, <2>4, SumLinear
  <2>6. SumOf(G(s), D) = SumOf(f, s)
    <3> HIDE DEF G, r, u
    <3>1. QED
      BY <2>1, <2>2, <2>4, <2>5
  <2>7. QED
    BY <2>6
<1>5. S \in Good
  <2> HIDE DEF Good
  <2>1. \A s \in SUBSET S : \A x \in s : s \ {x} \in Good => s \in Good
    BY <1>4
  <2>2. \A s \in SUBSET S : s \in Good
    BY ONLY <1>3, <2>1, SubsetInduction, IsFiniteSet(S)
  <2>3. QED
    BY <2>2
<1>6. SumOf(h, D) = SumOf(G(S), D)
  <2>1. S \in SUBSET S /\ \A d \in D : h[d] = G(S)[d]
    OBVIOUS
  <2> HIDE DEF G
  <2>2. QED
    BY <1>2, <2>1, SumAlike
<1>7. QED
  BY <1>5, <1>6

(* What is nought may be left out.                                          *)
LEMMA SumPositive ==
  ASSUME NEW D, IsFiniteSet(D), NEW h, \A d \in D : h[d] \in Nat,
         NEW P, P = {d \in D : h[d] > 0}
  PROVE  SumOf(h, P) = SumOf(h, D)
<1>0. PICK k \in Int : k = -1
  OBVIOUS
<1> DEFINE m == [d \in D |-> k * h[d]]
<1>1. P \in SUBSET D /\ IsFiniteSet(P) /\ \A d \in D \ P : h[d] = 0
  BY FS_Subset
<1>2. Numbers(h, D) /\ Numbers(h, P) /\ Numbers(m, D) /\ Numbers(m, P)
  BY <1>0, <1>1 DEF Numbers
<1>3. /\ \A d \in D : m[d] = k * h[d]
      /\ \A d \in P : m[d] = k * h[d]
      /\ \A d \in P : m[d] <= m[d] /\ h[d] <= h[d]
      /\ \A d \in D \ P : m[d] >= 0 /\ h[d] >= 0
  BY <1>0, <1>1
<1> HIDE DEF m
<1>4. SumOf(h, P) <= SumOf(h, D)
  BY <1>1, <1>2, <1>3, SumMonotone
<1>5. SumOf(m, P) <= SumOf(m, D)
  BY <1>1, <1>2, <1>3, SumMonotone
<1>6. SumOf(m, P) = k * SumOf(h, P)
  BY <1>1, <1>2, <1>3, SumTimes
<1>7. SumOf(m, D) = k * SumOf(h, D)
  BY <1>2, <1>3, SumTimes
<1>8. SumOf(h, P) \in Int /\ SumOf(h, D) \in Int
  BY <1>1, <1>2, SumStep
<1>9. QED
  BY <1>0, <1>4, <1>5, <1>6, <1>7, <1>8

(* What a finite set is mapped to is finite.                                *)
LEMMA FiniteImage ==
  ASSUME NEW S, IsFiniteSet(S), NEW f
  PROVE  IsFiniteSet({f[x] : x \in S})
<1> DEFINE To(s) == {f[x] : x \in s}
           Good == {s \in SUBSET S : IsFiniteSet(To(s))}
<1>1. {} \in Good
  <2>1. To({}) = {}
    OBVIOUS
  <2>2. QED
    BY <2>1, FS_EmptySet
<1>2. ASSUME NEW s \in SUBSET S, NEW x \in s, s \ {x} \in Good
      PROVE  s \in Good
  <2>1. To(s) = To(s \ {x}) \cup {f[x]}
    OBVIOUS
  <2>2. IsFiniteSet(To(s \ {x}))
    BY <1>2
  <2>3. IsFiniteSet(To(s))
    <3>1. PICK t, y : t = To(s \ {x}) /\ y = f[x]
      OBVIOUS
    <3>2. IsFiniteSet(t \cup {y})
      BY <2>2, <3>1, FS_AddElement
    <3> HIDE DEF To
    <3>3. QED
      BY <2>1, <3>1, <3>2
  <2>4. QED
    BY <2>3
<1>3. S \in Good
  <2> HIDE DEF Good
  <2>1. \A s \in SUBSET S : \A x \in s : s \ {x} \in Good => s \in Good
    BY <1>2
  <2>2. \A s \in SUBSET S : s \in Good
    BY ONLY <1>1, <2>1, SubsetInduction, IsFiniteSet(S)
  <2>3. QED
    BY <2>2
<1>4. QED
  BY <1>3

-----------------------------------------------------------------------------
(* What is measured.                                                        *)

(* The tensors of some files are the tensors of these files, in a row.      *)
LEMMA Flattened ==
  ASSUME NEW T, NEW s \in Seq(Seq(T))
  PROVE  FlattenSeq(s) \in Seq(T)
<1> DEFINE Flat(n, g) == g = [i \in 1 .. n |-> IF i = 1 THEN s[i] ELSE g[i - 1] \o s[i]]
           Good == {n \in Nat : n <= Len(s) =>
                      \E g : Flat(n, g) /\ \A i \in 1 .. n : g[i] \in Seq(T)}
<1>1. Len(s) \in Nat /\ \A i \in 1 .. Len(s) : s[i] \in Seq(T)
  BY ElementOfSeq, LenProperties
<1>2. 0 \in Good
  <2>1. PICK g : g = [i \in 1 .. 0 |-> <<>>]
    OBVIOUS
  <2>2. Flat(0, g)
    BY <2>1
  <2>3. \A i \in 1 .. 0 : g[i] \in Seq(T)
    OBVIOUS
  <2> HIDE DEF Flat
  <2>4. QED
    BY <2>2, <2>3
<1>3. ASSUME NEW n \in Nat, n \in Good PROVE n + 1 \in Good
  <2> SUFFICES ASSUME n + 1 <= Len(s)
               PROVE  \E g : Flat(n + 1, g) /\ \A i \in 1 .. n + 1 : g[i] \in Seq(T)
    <3> HIDE DEF Flat
    <3>1. QED
      OBVIOUS
  <2>1. PICK g : Flat(n, g) /\ \A i \in 1 .. n : g[i] \in Seq(T)
    <3> HIDE DEF Flat
    <3>1. QED
      BY <1>1, <1>3
  <2>2. \A i \in 1 .. n : g[i] = IF i = 1 THEN s[i] ELSE g[i - 1] \o s[i]
    BY <2>1
  <2>3. PICK v : v = IF n = 0 THEN s[1] ELSE g[n] \o s[n + 1]
    OBVIOUS
  <2>4. v \in Seq(T)
    <3>1. CASE n = 0
      BY <1>1, <2>3, <3>1
    <3>2. CASE n # 0
      <4>1. g[n] \in Seq(T) /\ s[n + 1] \in Seq(T)
        BY <1>1, <2>1, <3>2
      <4>2. g[n] \o s[n + 1] \in Seq(T)
        BY <4>1, ConcatProperties
      <4>3. QED
        BY <2>3, <3>2, <4>2
    <3>3. QED
      BY <3>1, <3>2
  <2>5. PICK k : k = [i \in 1 .. n + 1 |-> IF i = n + 1 THEN v ELSE g[i]]
    OBVIOUS
  <2>6. \A i \in 1 .. n + 1 : k[i] = IF i = n + 1 THEN v ELSE g[i]
    BY <2>5
  <2>7. ASSUME NEW i \in 1 .. n + 1 PROVE k[i] = IF i = 1 THEN s[i] ELSE k[i - 1] \o s[i]
    <3>1. CASE i = n + 1
      BY <2>3, <2>6, <3>1
    <3>2. CASE i # n + 1
      <4>1. i \in 1 .. n /\ (i # 1 => i - 1 \in 1 .. n)
        BY <3>2
      <4>2. k[i] = g[i] /\ (i # 1 => k[i - 1] = g[i - 1])
        BY <2>6, <4>1
      <4>3. QED
        BY <2>2, <4>1, <4>2
    <3>3. QED
      BY <3>1, <3>2
  <2>8. Flat(n + 1, k)
    BY <2>5, <2>7
  <2>9. \A i \in 1 .. n + 1 : k[i] \in Seq(T)
    <3>1. \A i \in 1 .. n + 1 : i # n + 1 => i \in 1 .. n
      OBVIOUS
    <3>2. QED
      BY <2>1, <2>4, <2>6, <3>1
  <2> HIDE DEF Flat
  <2>10. QED
    BY <2>8, <2>9
<1>4. PICK n : n = Len(s)
  OBVIOUS
<1>5. n \in Nat
  BY <1>4, LenProperties
<1>6. PICK g : Flat(n, g)
  <2>1. n \in Good
    <3> HIDE DEF Good
    <3>1. QED
      BY <1>2, <1>3, <1>5, NatInductionSet
  <2> HIDE DEF Flat
  <2>2. QED
    BY <1>4, <1>5, <2>1
<1>7. PICK h : h = CHOOSE g_ : Flat(n, g_)
  OBVIOUS
<1>8. Flat(n, h)
  <2> HIDE DEF Flat
  <2>1. QED
    BY <1>6, <1>7
<1>9. FlattenSeq(s) = IF n = 0 THEN s ELSE h[n]
  BY <1>4, <1>7 DEF FlattenSeq
<1>10. \A i \in 1 .. n : h[i] \in Seq(T)
  <2> DEFINE Fine == {i \in Nat : i \in 1 .. n => h[i] \in Seq(T)}
  <2>1. 0 \in Fine
    OBVIOUS
  <2>2. ASSUME NEW i \in Nat, i \in Fine PROVE i + 1 \in Fine
    <3> SUFFICES ASSUME i + 1 \in 1 .. n PROVE h[i + 1] \in Seq(T)
      OBVIOUS
    <3>1. h[i + 1] = IF i + 1 = 1 THEN s[i + 1] ELSE h[i] \o s[i + 1]
      <4>1. \A j \in 1 .. n : h[j] = IF j = 1 THEN s[j] ELSE h[j - 1] \o s[j]
        BY <1>8
      <4>2. (i + 1) - 1 = i
        OBVIOUS
      <4>3. QED
        BY <4>1, <4>2
    <3>2. s[i + 1] \in Seq(T)
      BY <1>1, <1>4
    <3>3. i # 0 => h[i] \in Seq(T)
      BY <1>5, <2>2
    <3>4. i # 0 => h[i] \o s[i + 1] \in Seq(T)
      BY <3>2, <3>3, ConcatProperties
    <3>5. QED
      BY <3>1, <3>2, <3>4
  <2> HIDE DEF Fine
  <2>3. \A i \in Nat : i \in Fine
    BY <2>1, <2>2, NatInductionSet
  <2>4. QED
    BY <2>3 DEF Fine
<1>11. CASE n = 0
  <2>1. s = <<>>
    BY <1>4, <1>11, EmptySeq
  <2>2. QED
    BY <1>9, <1>11, <2>1
<1>12. CASE n # 0
  BY <1>5, <1>9, <1>10, <1>12
<1>13. QED
  BY <1>11, <1>12

(* Whatever the tensors, the bytes by dtype add up to the total, and what   *)
(* is missing from the raw bytes is nothing or the one head taken off.      *)
LEMMA SummaryAddsUp ==
  ASSUME NEW T, NEW t \in Seq(T), \A i \in DOMAIN t : t[i].bytes \in Nat,
         NEW tied, NEW shards, NEW m, m = Summarise(t, tied, shards)
  PROVE  /\ m.total = SumFunction(m.dtypes)
         /\ \/ m.total = m.raw
            \/ tied /\ \E i \in DOMAIN t : t[i].head /\ m.raw - m.total = t[i].bytes
<1>1. PICK D, drop, f, kind, K :
        /\ D = DOMAIN t /\ drop = Dedup(t, tied)
        /\ f = [i \in DOMAIN t |-> t[i].bytes]
        /\ kind = [i \in DOMAIN t |-> t[i].dtype]
        /\ K = {t[i].dtype : i \in DOMAIN t}
  OBVIOUS
<1>2. IsFiniteSet(D) /\ D \subseteq Nat
  <2>1. D = 1 .. Len(t) /\ Len(t) \in Nat
    BY <1>1, LenProperties
  <2>2. IsFiniteSet(1 .. Len(t))
    BY <2>1, FS_Interval
  <2>3. QED
    BY <2>1, <2>2
<1>3. drop \in SUBSET D /\ IsFiniteSet(drop) /\ \A i, j \in drop : i = j
  <2>1. drop \in SUBSET D
    BY <1>1 DEF Dedup, Heads
  <2>2. \A i, j \in drop : i <= j /\ j <= i
    BY <1>1 DEF Dedup
  <2>3. IsFiniteSet(drop)
    BY <1>2, <2>1, FS_Subset
  <2>4. \A i, j \in drop : i \in Nat /\ j \in Nat
    BY <1>2, <2>1
  <2>5. QED
    BY <2>1, <2>2, <2>3, <2>4
<1>4. /\ \A i \in D : f[i] \in Nat /\ f[i] = t[i].bytes
      /\ \A i \in D : kind[i] \in K /\ kind[i] = t[i].dtype
      /\ IsFiniteSet(K)
  <2>1. K = {kind[i] : i \in D}
    BY <1>1
  <2>2. IsFiniteSet(K)
    BY <1>2, <2>1, FiniteImage
  <2>3. QED
    BY <1>1, <2>2
<1>5. \A S \in SUBSET D : IsFiniteSet(S) /\ Numbers(f, S)
  <2>1. \A S \in SUBSET D : IsFiniteSet(S)
    BY <1>2, FS_Subset
  <2>2. \A S \in SUBSET D : Numbers(f, S)
    BY <1>4 DEF Numbers
  <2>3. QED
    BY <2>1, <2>2
<1>6. \A S \in SUBSET D : Bytes(t, S) = SumOf(f, S)
  BY <1>1, <1>5, SumFunctionOnSetIsSum DEF Bytes
<1>7. PICK all, off, resident, P :
        /\ all = [d \in K |-> SumOf(f, OfType(t, D, d))]
        /\ off = [d \in K |-> SumOf(f, OfType(t, drop, d))]
        /\ resident = [d \in K |-> all[d] - off[d]]
        /\ P = {d \in K : resident[d] > 0}
  OBVIOUS
<1>8. \A d \in K : OfType(t, D, d) \in SUBSET D /\ OfType(t, drop, d) \in SUBSET OfType(t, D, d)
  BY <1>3 DEF OfType
<1>9. \A d \in K : all[d] \in Int /\ off[d] \in Int /\ off[d] <= all[d]
  <2> SUFFICES ASSUME NEW d \in K PROVE all[d] \in Int /\ off[d] \in Int /\ off[d] <= all[d]
    OBVIOUS
  <2>1. PICK A, B : A = OfType(t, D, d) /\ B = OfType(t, drop, d)
    OBVIOUS
  <2>2. A \in SUBSET D /\ B \in SUBSET A /\ B \in SUBSET D
    BY <1>8, <2>1
  <2>3. IsFiniteSet(A) /\ Numbers(f, A) /\ IsFiniteSet(B) /\ Numbers(f, B)
    BY <1>5, <2>2
  <2>4. (\A i \in B : f[i] <= f[i]) /\ \A i \in A \ B : f[i] >= 0
    BY <1>4, <2>2
  <2>5. SumOf(f, B) <= SumOf(f, A)
    BY <2>2, <2>3, <2>4, SumMonotone
  <2>6. SumOf(f, A) \in Int /\ SumOf(f, B) \in Int
    BY <2>3, SumStep
  <2>7. QED
    BY <1>7, <2>1, <2>5, <2>6
<1>10. SumOf(all, K) = SumOf(f, D) /\ SumOf(off, K) = SumOf(f, drop)
  <2>1. \A d \in K : all[d] = SumOf(f, {i \in D : kind[i] = d})
    <3>1. \A d \in K : OfType(t, D, d) = {i \in D : kind[i] = d}
      BY <1>4 DEF OfType
    <3>2. QED
      BY <1>7, <3>1
  <2>2. \A d \in K : off[d] = SumOf(f, {i \in drop : kind[i] = d})
    <3>1. \A d \in K : OfType(t, drop, d) = {i \in drop : kind[i] = d}
      BY <1>3, <1>4 DEF OfType
    <3>2. QED
      BY <1>7, <3>1
  <2>3. Numbers(f, D) /\ Numbers(f, drop)
    BY <1>3, <1>5
  <2>4. (\A i \in D : kind[i] \in K) /\ (\A i \in drop : kind[i] \in K)
    BY <1>3, <1>4
  <2>5. SumOf(all, K) = SumOf(f, D)
    <3>1. IsFiniteSet(D) /\ IsFiniteSet(K) /\ Numbers(f, D) /\ \A i \in D : kind[i] \in K
      BY <1>2, <1>4, <2>3, <2>4
    <3>2. PICK g, h : g = kind /\ h = all
      OBVIOUS
    <3>3. (\A i \in D : g[i] \in K) /\ \A d \in K : h[d] = SumOf(f, {i \in D : g[i] = d})
      BY <2>1, <3>1, <3>2
    <3>4. SumOf(h, K) = SumOf(f, D)
      BY ONLY <3>1, <3>3, SumGrouped
    <3>5. QED
      BY <3>2, <3>4
  <2>6. SumOf(off, K) = SumOf(f, drop)
    BY ONLY <1>3, <1>4, <2>2, <2>3, <2>4, SumGrouped
  <2>7. QED
    BY <2>5, <2>6
<1>11. SumOf(resident, K) = SumOf(f, D) - SumOf(f, drop)
  <2>1. PICK k \in Int : k = -1
    OBVIOUS
  <2>2. \A d \in K : resident[d] = all[d] + k * off[d]
    BY <1>7, <1>9, <2>1
  <2>3. Numbers(all, K) /\ Numbers(off, K)
    BY <1>9 DEF Numbers
  <2>4. SumOf(resident, K) = SumOf(all, K) + k * SumOf(off, K)
    BY <1>4, <2>2, <2>3, SumLinear
  <2>5. SumOf(all, K) \in Int /\ SumOf(off, K) \in Int
    BY <1>4, <2>3, SumStep
  <2>6. QED
    BY <1>10, <2>1, <2>4, <2>5
<1>12. SumOf(resident, P) = SumOf(resident, K)
  <2>1. \A d \in K : resident[d] \in Nat
    BY <1>7, <1>9
  <2>2. QED
    BY <1>4, <1>7, <2>1, SumPositive
<1>13. /\ m.raw = SumOf(f, D)
       /\ m.total = SumOf(f, D) - SumOf(f, drop)
       /\ m.dtypes = [d \in P |-> resident[d]]
  <2>1. \A d \in K : /\ Bytes(t, OfType(t, D, d)) = all[d]
                     /\ Bytes(t, OfType(t, drop, d)) = off[d]
    <3>1. \A d \in K : OfType(t, D, d) \in SUBSET D /\ OfType(t, drop, d) \in SUBSET D
      BY <1>8
    <3>2. QED
      BY <1>6, <1>7, <3>1
  <2>2. \A d \in K : Bytes(t, OfType(t, D, d)) - Bytes(t, OfType(t, drop, d)) = resident[d]
    BY <1>7, <2>1
  <2>3. D \in SUBSET D /\ Bytes(t, D) = SumOf(f, D) /\ Bytes(t, drop) = SumOf(f, drop)
    BY <1>3, <1>6
  <2>4. /\ m.raw = Bytes(t, D) /\ m.total = Bytes(t, D) - Bytes(t, drop)
        /\ m.dtypes = [d \in {e \in K : Bytes(t, OfType(t, D, e)) - Bytes(t, OfType(t, drop, e)) > 0} |->
                         Bytes(t, OfType(t, D, d)) - Bytes(t, OfType(t, drop, d))]
    BY <1>1 DEF Summarise
  <2>5. {e \in K : Bytes(t, OfType(t, D, e)) - Bytes(t, OfType(t, drop, e)) > 0} = P
    BY <1>7, <2>2
  <2>6. m.dtypes = [d \in P |-> resident[d]]
    <3>1. \A d \in P : d \in K
      BY <1>7
    <3>2. QED
      BY <2>2, <2>4, <2>5, <3>1
  <2>7. QED
    BY <2>3, <2>4, <2>6
<1>14. SumFunction(m.dtypes) = SumOf(resident, P)
  <2>1. PICK g : g = m.dtypes
    OBVIOUS
  <2>2. DOMAIN g = P /\ \A d \in P : g[d] = resident[d]
    BY <1>13, <2>1
  <2>3. IsFiniteSet(P) /\ Numbers(resident, P) /\ Numbers(g, P)
    <3>1. P \in SUBSET K /\ \A d \in P : resident[d] \in Int
      BY <1>7, <1>9
    <3>2. QED
      BY <1>4, <2>2, <3>1, FS_Subset DEF Numbers
  <2>4. SumFunction(g) = SumOf(g, P)
    BY <2>2, <2>3, SumFunctionIsSum
  <2>5. SumOf(g, P) = SumOf(resident, P)
    BY <2>2, <2>3, SumAlike
  <2>6. QED
    BY <2>1, <2>4, <2>5
<1>15. m.total = SumFunction(m.dtypes)
  BY <1>11, <1>12, <1>13, <1>14
<1>16. SumOf(f, D) \in Int
  <2>1. D \in SUBSET D
    OBVIOUS
  <2>2. QED
    BY <1>5, <2>1, SumStep
<1>17. CASE drop = {}
  <2>1. SumOf(f, drop) = 0
    BY <1>17, SumEmpty
  <2>2. QED
    BY <1>13, <1>15, <1>16, <2>1
<1>18. CASE drop # {}
  <2>1. PICK i \in drop : TRUE
    BY <1>18
  <2>2. drop \ {i} = {}
    BY <1>3
  <2>3. SumOf(f, drop) = f[i] + SumOf(f, drop \ {i})
    BY <1>3, <1>5, SumStep
  <2>4. SumOf(f, drop) = f[i] + 0
    BY <2>2, <2>3, SumEmpty
  <2>5. tied /\ i \in DOMAIN t /\ t[i].head
    BY <1>1, <2>1 DEF Dedup, Heads
  <2>6. m.raw - m.total = t[i].bytes
    <3>1. f[i] \in Nat /\ f[i] = t[i].bytes
      BY <1>1, <1>4, <2>5
    <3>2. PICK a, b, c : a = SumOf(f, D) /\ b = SumOf(f, drop) /\ c = f[i]
      OBVIOUS
    <3>3. m.raw = a /\ m.total = a - b /\ b = c + 0 /\ c \in Nat /\ a \in Int
      BY <1>13, <1>16, <2>4, <3>1, <3>2
    <3>4. QED
      BY <3>1, <3>2, <3>3
  <2>7. QED
    BY <1>15, <2>5, <2>6
<1>19. QED
  BY <1>17, <1>18

(* The tensors of a repository's shards: each is in one of them.            *)
LEMMA ShardTensors ==
  ASSUME repo \in Repositories
  PROVE  \E T : /\ FlattenSeq(repo.shards) \in Seq(T)
                /\ \A x \in T : /\ x.bytes \in Nat
                                /\ \E file \in Range(repo.shards) : \E i \in DOMAIN file : file[i] = x
<1>1. PICK R, T : /\ R = Range(repo.shards)
                  /\ T = UNION {Range(file) : file \in R}
  OBVIOUS
<1>2. repo.shards \in Seq(R) /\ \A file \in R : Measurable(file)
  BY <1>1, RepositoriesAssumption
<1>3. ASSUME NEW file \in R PROVE file \in Seq(T)
  <2>1. file \in Seq(Range(file)) /\ Range(file) \subseteq T
    BY <1>1, <1>2 DEF Measurable
  <2>2. QED
    BY <2>1, SeqMonotonic
<1>4. R \subseteq Seq(T)
  BY <1>3
<1>5. repo.shards \in Seq(Seq(T))
  BY <1>2, <1>4, SeqMonotonic
<1>6. FlattenSeq(repo.shards) \in Seq(T)
  BY <1>5, Flattened
<1>7. ASSUME NEW x \in T
      PROVE  x.bytes \in Nat /\ \E file \in R : \E i \in DOMAIN file : file[i] = x
  <2>1. PICK file \in R : x \in Range(file)
    BY <1>1
  <2>2. PICK i \in DOMAIN file : file[i] = x
    BY <2>1 DEF Range
  <2>3. QED
    BY <1>2, <2>2 DEF Measurable
<1>8. QED
  BY <1>1, <1>6, <1>7

LEMMA ResidentKeeps ==
  ASSUME IInv, Resident, [Next]_vars
  PROVE  Resident'
<1>1. repo \in Repositories /\ repo' = repo
  BY DEF IInv, Shape, Next, Caller, Reader, vars, FetchIndex, IndexAbsent, IndexUnusable,
         IndexUnreachable, IndexRaises, ReadSingle, SingleRaises, Submit, Collect,
         CollectRaises, CancelNext, AllCancelled, Leave, Return, Interrupt, StartShard,
         ReadLength, ReadHeader, ReadFails, Terminating
<1>2. CASE ReadSingle
  <2>1. PICK t, m : t = repo.single /\ m = result'
    OBVIOUS
  <2>2. m = Summarise(t, repo.tied, 1)
    BY <1>2, <2>1 DEF ReadSingle
  <2>3. t \in Seq(Range(t)) /\ \A i \in DOMAIN t : t[i].bytes \in Nat
    BY <1>1, <2>1, RepositoriesAssumption DEF Measurable
  <2>4. /\ m.total = SumFunction(m.dtypes)
        /\ \/ m.total = m.raw
           \/ repo.tied /\ \E i \in DOMAIN t : t[i].head /\ m.raw - m.total = t[i].bytes
    BY <2>2, <2>3, SummaryAddsUp
  <2>5. t \in Range(repo'.shards) \cup {repo'.single}
    BY <1>1, <2>1
  <2>6. QED
    BY <1>1, <2>1, <2>4, <2>5 DEF Resident
<1>3. CASE Return
  <2>1. collected = repo.shards
    BY <1>3, ShardsFacts, SeqEqual DEF IInv, Shape, PrefixCollected, Return
  <2>2. PICK t, m : t = FlattenSeq(repo.shards) /\ m = result'
    OBVIOUS
  <2>3. m = Summarise(t, repo.tied, Len(repo.shards))
    BY <1>3, <2>1, <2>2 DEF Return
  <2>4. PICK T : /\ t \in Seq(T)
                 /\ \A x \in T : /\ x.bytes \in Nat
                                 /\ \E file \in Range(repo.shards) :
                                      \E i \in DOMAIN file : file[i] = x
    BY <1>1, <2>2, ShardTensors
  <2>5. \A i \in DOMAIN t : t[i] \in T
    BY <2>4, ElementOfSeq, LenProperties
  <2>6. \A i \in DOMAIN t : t[i].bytes \in Nat
    BY <2>4, <2>5
  <2>7. /\ m.total = SumFunction(m.dtypes)
        /\ \/ m.total = m.raw
           \/ repo.tied /\ \E i \in DOMAIN t : t[i].head /\ m.raw - m.total = t[i].bytes
    BY <2>3, <2>4, <2>6, SummaryAddsUp
  <2>8. \A i \in DOMAIN t : \E file \in Range(repo.shards) :
          \E j \in DOMAIN file : file[j] = t[i]
    BY <2>4, <2>5
  <2>9. \/ m.total = m.raw
        \/ repo.tied /\ \E file \in Range(repo.shards) \cup {repo.single} :
             \E j \in DOMAIN file : file[j].head /\ m.raw - m.total = file[j].bytes
    <3>1. ASSUME NEW i \in DOMAIN t, t[i].head, m.raw - m.total = t[i].bytes
          PROVE  \E file \in Range(repo.shards) :
                   \E j \in DOMAIN file : file[j].head /\ m.raw - m.total = file[j].bytes
      BY <2>8, <3>1
    <3>2. QED
      BY <2>7, <3>1
  <2>10. QED
    BY <1>1, <2>2, <2>7, <2>9 DEF Resident
<1>4. CASE ~ReadSingle /\ ~Return
  <2>1. result' = result /\ (phase' = "returned" => phase = "returned")
    BY <1>4 DEF Next, Caller, Reader, vars, FetchIndex, IndexAbsent, IndexUnusable,
         IndexUnreachable, IndexRaises, SingleRaises, Submit, Collect, CollectRaises,
         CancelNext, AllCancelled, Leave, Interrupt, Escape, StartShard,
         ReadLength, ReadHeader, ReadFails, Terminating
  <2>2. QED
    BY <1>1, <2>1 DEF Resident
<1>5. QED
  BY <1>2, <1>3, <1>4

(* A measurement that comes back adds up: the bytes by dtype are the total, *)
(* and one tensor at most, an output head of a tied checkpoint, was taken   *)
(* off what the files hold, whatever the files.                             *)
THEOREM ResidentAddsUp == Spec => []Resident
<1>1. Init => Resident
  BY DEF Init, Resident
<1>2. IInv /\ Resident /\ [Next]_vars => Resident'
  BY ResidentKeeps
<1>3. QED
  BY <1>1, <1>2, Inductive, PTL DEF Spec
=============================================================================
