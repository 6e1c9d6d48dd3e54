--------------------------- MODULE LoadGenProofs ---------------------------
(***************************************************************************)
(* Proofs about the load generator, for every number of workers, budget    *)
(* and length of stream.                                                   *)
(***************************************************************************)
EXTENDS LoadGen, FiniteSetTheorems, TLAPS

(* The threads: main is none of the workers, and there are finitely many.   *)
LEMMA ThreadFacts ==
  /\ Main \notin Workers
  /\ Main \in Threads
  /\ Nobody \notin Threads
  /\ Workers \subseteq Threads
  /\ Workers \subseteq Nat
  /\ Workers # {}
  /\ IsFiniteSet(Workers)
<1>1. Concurrency \in Nat \ {0}
  BY ParameterAssumption
<1>2. IsFiniteSet(Workers)
  BY <1>1, FS_Interval DEF Workers
<1>3. 0 \in Workers
  BY <1>1 DEF Workers
<1>4. Workers \subseteq Nat
  BY <1>1 DEF Workers
<1>5. Main \notin Workers /\ Nobody \notin Threads
  BY <1>4 DEF Main, Nobody, Threads
<1>6. QED
  BY <1>2, <1>3, <1>4, <1>5 DEF Threads

(* What _stream_one does to a request leaves it a request.                  *)
LEMMA RequestFacts ==
  /\ Fresh \in Request
  /\ \A r \in Request, e \in BOOLEAN : [r EXCEPT !.error = e] \in Request
  /\ \A r \in Request : r.tokens \in Int
  /\ \A r \in Request :
       r.tokens < MaxTokens => [r EXCEPT !.tokens = @ + 1] \in Request
<1>1. Fresh \in Request
  BY ParameterAssumption DEF Fresh, Request
<1>2. ASSUME NEW r \in Request, NEW e \in BOOLEAN
      PROVE  [r EXCEPT !.error = e] \in Request
  BY DEF Request
<1>3. ASSUME NEW r \in Request, r.tokens < MaxTokens
      PROVE  [r EXCEPT !.tokens = @ + 1] \in Request
  <2>1. r.tokens + 1 \in 0 .. MaxTokens
    BY <1>3, ParameterAssumption DEF Request
  <2>2. QED
    BY <2>1 DEF Request
<1>4. QED
  BY <1>1, <1>2, <1>3 DEF Request

(* Where an exception takes main.                                           *)
LEMMA EscapeFacts ==
  /\ \A at \in {"warmup", "connect", "stream", "join"} : Escape[at] = "raised"
  /\ \A at \in {"submit", "cancel"} : Escape[at] = "join"
  /\ Escape["collect"] = "cancel"
  /\ \A at \in MainAt \ Left : Escape[at] \in MainAt
  /\ MainAt \ Left = {"warmup", "connect", "stream", "submit", "collect", "cancel", "join"}
BY DEF Escape, MainAt, Left

-----------------------------------------------------------------------------
(* Every variable keeps its type, whatever the constants: no action of the  *)
(* load generator writes a value of another kind.                           *)
THEOREM TypeCorrect == Spec => []TypeOK
<1> USE ParameterAssumption, ThreadFacts
<1>1. Init => TypeOK
  <2> SUFFICES ASSUME Init PROVE TypeOK
    OBVIOUS
  <2>1. /\ pc \in [Threads -> WorkerAt \cup MainAt]
        /\ \A w \in Workers : pc[w] \in WorkerAt
        /\ pc[Main] \in MainAt
    BY DEF Init, WorkerAt, MainAt
  <2>2. req \in [Threads -> Request]
    BY RequestFacts DEF Init
  <2>3. /\ cursor \in 0 .. Concurrency
        /\ warm \in 0 .. Warmups
        /\ records \in Seq(Request)
        /\ interrupts \in 0 .. MaxInterrupts
    BY DEF Init
  <2>5. /\ failing \in BOOLEAN /\ expired \in BOOLEAN
        /\ started \in Nat /\ reported \in Nat
        /\ counterLock \in Workers \cup {Nobody} /\ recordsLock \in Workers \cup {Nobody}
        /\ seen \in [Workers -> Nat] /\ late \in [Workers -> Nat]
    BY DEF Init
  <2>4. QED
    BY <2>1, <2>2, <2>3, <2>5 DEF TypeOK
<1>2. TypeOK /\ [Next]_vars => TypeOK'
  <2> SUFFICES ASSUME TypeOK, [Next]_vars PROVE TypeOK'
    OBVIOUS
  <2> USE DEF TypeOK, Goto, WorkerAt, MainAt, Left, Finished, Asking,
              pool, counter, results, clock
  <2>1. ASSUME NEW w \in Workers, WorkerStarts(w) PROVE TypeOK'
    BY <2>1 DEF WorkerStarts
  <2>2. ASSUME NEW w \in Workers, CheckDeadline(w) PROVE TypeOK'
    BY <2>2 DEF CheckDeadline
  <2>3. ASSUME NEW w \in Workers, TakeRead(w) PROVE TypeOK'
    BY <2>3 DEF TakeRead
  <2>4. ASSUME NEW w \in Workers, TakeRefused(w) PROVE TypeOK'
    BY <2>4 DEF TakeRefused
  <2>5. ASSUME NEW w \in Workers, TakeWrite(w) PROVE TypeOK'
    <3>1. req' \in [Threads -> Request]
      BY <2>5, RequestFacts DEF TakeWrite, BeginRequest
    <3>2. late' \in [Workers -> Nat]
      BY <2>5 DEF TakeWrite
    <3>3. /\ pc' = [pc EXCEPT ![w] = "connect"]
          /\ started' \in Nat
          /\ counterLock' = Nobody
          /\ seen' \in [Workers -> Nat]
      BY <2>5 DEF TakeWrite
    <3>4. UNCHANGED <<pool, results, expired>>
      BY <2>5 DEF TakeWrite
    <3>5. QED
      BY <3>1, <3>2, <3>3, <3>4
  <2>6. ASSUME NEW w \in Workers, AppendRecord(w) PROVE TypeOK'
    BY <2>6 DEF AppendRecord
  <2>7. ASSUME NEW w \in Workers, ReportProgress(w) PROVE TypeOK'
    BY <2>7 DEF ReportProgress
  <2>8. ASSUME NEW t \in Threads, Stream(t) PROVE TypeOK'
    <3>1. CASE Accepted(t)
      BY <3>1 DEF Accepted, Threads
    <3>2. CASE Token(t)
      <4>1. [req[t] EXCEPT !.tokens = @ + 1] \in Request
        BY <3>2, RequestFacts DEF Token
      <4>2. req' = [req EXCEPT ![t] = [req[t] EXCEPT !.tokens = @ + 1]]
        BY <3>2 DEF Token
      <4>3. req' \in [Threads -> Request]
        BY <4>1, <4>2
      <4>4. QED
        BY <3>2, <4>3 DEF Token
    <3>3. ASSUME NEW error \in BOOLEAN, EndRequest(t, error),
                 UNCHANGED <<pool, counter, results, clock>>
          PROVE  TypeOK'
      <4>1. [req[t] EXCEPT !.error = error] \in Request
        BY RequestFacts
      <4>2. req' = [req EXCEPT ![t] = [req[t] EXCEPT !.error = error]]
        BY <3>3 DEF EndRequest
      <4>3. req' \in [Threads -> Request]
        BY <4>1, <4>2
      <4>4. QED
        BY <3>3, <4>3 DEF EndRequest, Threads
    <3>4. CASE StreamEnds(t) \/ RequestFails(t)
      BY <3>3, <3>4 DEF StreamEnds, RequestFails
    <3>5. CASE RequestRaises(t)
      BY <3>5 DEF RequestRaises, Threads
    <3>6. QED
      BY <2>8, <3>1, <3>2, <3>4, <3>5 DEF Stream
  <2>9. CASE SendWarmup
    <3>1. req' \in [Threads -> Request]
      BY <2>9, RequestFacts DEF SendWarmup, BeginRequest
    <3>2. warm' \in 0 .. Warmups
      BY <2>9 DEF SendWarmup
    <3>3. QED
      BY <2>9, <3>1, <3>2 DEF SendWarmup
  <2>10. CASE OpenPool
    BY <2>10 DEF OpenPool
  <2>11. CASE Submit
    <3>1. cursor \in Workers
      BY <2>11 DEF Submit, Workers
    <3>2. QED
      BY <2>11, <3>1 DEF Submit
  <2>12. CASE AllSubmitted
    BY <2>12 DEF AllSubmitted
  <2>13. CASE Collect
    BY <2>13 DEF Collect
  <2>14. CASE AllCollected
    BY <2>14 DEF AllCollected
  <2>15. CASE CollectRaises \/ AllCancelled
    BY <2>15 DEF CollectRaises, AllCancelled
  <2>20. CASE CancelNext
    <3>1. PICK w \in Queued : Goto(w, "cancelled")
      BY <2>20 DEF CancelNext
    <3>2. QED
      BY <2>20, <3>1 DEF CancelNext, Queued
  <2>21. CASE Interrupt
    <3>1. Escape[pc[Main]] \in {"raised", "join", "cancel"}
      BY <2>21, EscapeFacts DEF Interrupt
    <3>2. pc' = [pc EXCEPT ![Main] = Escape[pc[Main]]] /\ interrupts' \in 0 .. MaxInterrupts
      BY <2>21 DEF Interrupt
    <3>3. QED
      BY <2>21, <3>1, <3>2 DEF Interrupt
  <2>16. CASE LeavePool
    BY <2>16 DEF LeavePool
  <2>17. CASE Expire
    BY <2>17 DEF Expire
  <2>18. CASE UNCHANGED vars
    BY <2>18 DEF vars
  <2>19. QED
    BY <2>1, <2>2, <2>3, <2>4, <2>5, <2>6, <2>7, <2>8, <2>9, <2>10, <2>11, <2>12,
       <2>13, <2>14, <2>15, <2>16, <2>17, <2>18, <2>20, <2>21
       DEF Next, Worker, MainStep, Terminating
<1>3. QED
  BY <1>1, <1>2, PTL DEF Spec

-----------------------------------------------------------------------------
(* What one step of a worker can do to the state the other threads see.     *)
LEMMA WorkerMoves ==
  ASSUME TypeOK, NEW w \in Workers, Worker(w)
  PROVE  /\ pc[w] \notin Finished \cup {"absent"}
         /\ pc'[w] \notin {"absent", "queued", "cancelled"}
         /\ pc' = [pc EXCEPT ![w] = pc'[w]]
         /\ UNCHANGED <<pool, expired>>
<1> USE ThreadFacts DEF TypeOK, Goto, Finished, Asking, pool, counter, results, clock
<1>1. CASE WorkerStarts(w) \/ CheckDeadline(w)
  BY <1>1 DEF WorkerStarts, CheckDeadline
<1>2. CASE TakeRead(w) \/ TakeRefused(w) \/ TakeWrite(w)
  BY <1>2 DEF TakeRead, TakeRefused, TakeWrite
<1>3. CASE Accepted(w) \/ Token(w)
  BY <1>3 DEF Accepted, Token
<1>4. CASE StreamEnds(w) \/ RequestFails(w) \/ RequestRaises(w)
  BY <1>4 DEF StreamEnds, RequestFails, RequestRaises, EndRequest
<1>5. CASE AppendRecord(w) \/ ReportProgress(w)
  BY <1>5 DEF AppendRecord, ReportProgress
<1>6. QED
  BY <1>1, <1>2, <1>3, <1>4, <1>5 DEF Worker, Stream

(* A step of main on its own account leaves the shared counter and list     *)
(* alone, and moves no worker except from absent to queued or from queued   *)
(* to cancelled.                                                            *)
LEMMA MainMoves ==
  ASSUME TypeOK, PhasesOrdered, MainStep \/ Interrupt
  PROVE  /\ pc[Main] \notin Left
         /\ UNCHANGED <<counter, results, expired>>
         /\ \A w \in Workers :
              \/ pc'[w] = pc[w]
              \/ pc[w] = "absent" /\ pc'[w] = "queued"
              \/ pc[w] = "queued" /\ pc'[w] = "cancelled"
<1> USE ThreadFacts DEF TypeOK, Goto, Left, Asking, pool, counter, results, clock
<1>1. CASE SendWarmup \/ OpenPool \/ AllSubmitted
  BY <1>1 DEF SendWarmup, OpenPool, AllSubmitted
<1>2. CASE Submit
  <2>1. cursor \in Workers
    BY <1>2, ParameterAssumption DEF Submit, Workers
  <2>2. pc[cursor] = "absent"
    BY <1>2, <2>1 DEF Submit, PhasesOrdered
  <2>3. QED
    BY <1>2, <2>1, <2>2 DEF Submit
<1>3. CASE Collect \/ AllCollected \/ LeavePool
  BY <1>3 DEF Collect, AllCollected, LeavePool
<1>4. CASE CollectRaises \/ AllCancelled \/ Interrupt
  BY <1>4 DEF CollectRaises, AllCancelled, Interrupt
<1>7. CASE CancelNext
  <2>1. PICK w \in Queued : Goto(w, "cancelled")
    BY <1>7 DEF CancelNext
  <2>2. QED
    BY <1>7, <2>1 DEF CancelNext, Queued
<1>5. CASE Stream(Main)
  BY <1>5 DEF Stream, Accepted, Token, StreamEnds, RequestFails, RequestRaises, EndRequest
<1>6. QED
  BY <1>1, <1>2, <1>3, <1>4, <1>5, <1>7 DEF MainStep

-----------------------------------------------------------------------------
(* The two locks: a worker between acquiring and releasing one is its only  *)
(* holder, and what it read of the counter is still true.                   *)
LEMMA LocksKept ==
  ASSUME TypeOK, TypeOK', LocksHeld, PhasesOrdered, [Next]_vars
  PROVE  LocksHeld'
<1> USE ThreadFacts, ParameterAssumption
    DEF LocksHeld, TypeOK, Goto, Finished, Left, Asking, pool, counter, results, clock
<1>1. ASSUME NEW w \in Workers, WorkerStarts(w) \/ CheckDeadline(w) PROVE LocksHeld'
  BY <1>1 DEF WorkerStarts, CheckDeadline
<1>2. ASSUME NEW w \in Workers, TakeRead(w) PROVE LocksHeld'
  BY <1>2 DEF TakeRead
<1>3. ASSUME NEW w \in Workers, TakeRefused(w) PROVE LocksHeld'
  BY <1>3 DEF TakeRefused
<1>4. ASSUME NEW w \in Workers, TakeWrite(w) PROVE LocksHeld'
  BY <1>4 DEF TakeWrite
<1>5. ASSUME NEW w \in Workers, Stream(w) PROVE LocksHeld'
  <2>1. pc[w] \in Asking /\ UNCHANGED <<counter, results>>
    BY <1>5 DEF Stream, Accepted, Token, StreamEnds, RequestFails, RequestRaises
  <2>2. pc' = pc \/ \E to \in {"stream", "append", "crashed"} : Goto(w, to)
    BY <1>5 DEF Stream, Accepted, Token, StreamEnds, RequestFails, RequestRaises, EndRequest
  <2>3. QED
    BY <2>1, <2>2
<1>6. ASSUME NEW w \in Workers, AppendRecord(w) PROVE LocksHeld'
  BY <1>6 DEF AppendRecord
<1>7. ASSUME NEW w \in Workers, ReportProgress(w) PROVE LocksHeld'
  BY <1>7 DEF ReportProgress
<1>8. CASE MainStep \/ Interrupt
  BY <1>8, MainMoves
<1>9. CASE Expire
  BY <1>9 DEF Expire
<1>10. CASE UNCHANGED vars
  BY <1>10 DEF vars
<1>11. QED
  BY <1>1, <1>2, <1>3, <1>4, <1>5, <1>6, <1>7, <1>8, <1>9, <1>10
     DEF Next, Worker, Terminating

(* The phases of main: no worker exists during the warm-up, the futures are *)
(* collected in order, and a worker retires only for lack of budget or time.*)
LEMMA PhasesKept ==
  ASSUME TypeOK, TypeOK', LocksHeld, PhasesOrdered, NoOrphanRequests, [Next]_vars
  PROVE  PhasesOrdered'
<1> USE ThreadFacts, ParameterAssumption
<1> USE DEF TypeOK, Goto, Finished, Left, Asking, pool, counter, results, clock
<1>1. ASSUME NEW w \in Workers, Worker(w) PROVE PhasesOrdered'
  <2>1. /\ pc[w] \notin Finished \cup {"absent"}
        /\ pc'[w] \notin {"absent", "queued", "cancelled"}
        /\ pc' = [pc EXCEPT ![w] = pc'[w]]
        /\ UNCHANGED <<pool, expired>>
    BY <1>1, WorkerMoves
  <2>2. pc'[w] = "retired" => expired \/ started' = Limit
    <3>1. CASE CheckDeadline(w)
      BY <3>1 DEF CheckDeadline, PhasesOrdered
    <3>2. CASE TakeRefused(w)
      BY <3>2 DEF TakeRefused, LocksHeld
    <3>3. CASE WorkerStarts(w) \/ TakeRead(w) \/ TakeWrite(w)
      BY <3>3 DEF WorkerStarts, TakeRead, TakeWrite
    <3>4. CASE Stream(w)
      BY <3>4 DEF Stream, Accepted, Token, StreamEnds, RequestFails, RequestRaises, EndRequest
    <3>5. CASE AppendRecord(w) \/ ReportProgress(w)
      BY <3>5 DEF AppendRecord, ReportProgress
    <3>6. QED
      BY <1>1, <3>1, <3>2, <3>3, <3>4, <3>5 DEF Worker
  <2>3. started = Limit => started' = started
    <3>1. ~TakeWrite(w) => started' = started
      BY <1>1 DEF Worker, WorkerStarts, CheckDeadline, TakeRead, TakeRefused, Stream,
                  Accepted, Token, StreamEnds, RequestFails, RequestRaises,
                  AppendRecord, ReportProgress
    <3>2. TakeWrite(w) => started < Limit
      BY DEF TakeWrite, LocksHeld
    <3>3. QED
      BY <3>1, <3>2
  <2>7. pc'[Main] = pc[Main]
    BY <2>1
  <2>8. warm = 0 /\ pc[Main] \notin {"warmup"} \cup Asking
    BY <2>1 DEF PhasesOrdered
  <2>9. pc[Main] # "returned" /\ (pc[Main] = "join" => failing)
    BY <2>1 DEF PhasesOrdered
  <2>4. /\ pc[Main] \in {"submit", "collect", "cancel", "join", "raised"}
        /\ pc'[Main] = pc[Main] /\ warm = 0
        /\ pc[Main] = "join" => failing
    BY <2>7, <2>8, <2>9 DEF MainAt
  <2>5. Crashed \subseteq Crashed'
    BY <2>1 DEF Crashed
  <2>6. QED
    BY <2>1, <2>2, <2>3, <2>4, <2>5 DEF PhasesOrdered
<1>2. CASE SendWarmup
  BY <1>2 DEF SendWarmup, PhasesOrdered
<1>3. CASE OpenPool
  BY <1>3 DEF OpenPool, PhasesOrdered
<1>4. CASE Submit
  <2>1. cursor \in Workers
    BY <1>4 DEF Submit, Workers
  <2>2. QED
    BY <1>4, <2>1 DEF Submit, PhasesOrdered
<1>5. CASE AllSubmitted
  BY <1>5 DEF AllSubmitted, PhasesOrdered, Workers
<1>6. CASE Collect
  BY <1>6 DEF Collect, PhasesOrdered
<1>7. CASE AllCollected
  BY <1>7 DEF AllCollected, PhasesOrdered, Workers
<1>8. CASE CollectRaises
  <2>1. cursor \in Workers /\ cursor \in Crashed
    BY <1>8 DEF CollectRaises, Workers, Crashed
  <2>2. Crashed' = Crashed
    BY <1>8 DEF CollectRaises, Crashed
  <2>3. QED
    BY <1>8, <2>1, <2>2 DEF CollectRaises, PhasesOrdered
<1>14. CASE CancelNext
  <2>1. PICK w \in Queued : Goto(w, "cancelled")
    BY <1>14 DEF CancelNext
  <2>2. Crashed' = Crashed
    BY <1>14, <2>1 DEF CancelNext, Queued, Crashed
  <2>3. QED
    BY <1>14, <2>1, <2>2 DEF CancelNext, Queued, PhasesOrdered
<1>15. CASE AllCancelled
  BY <1>15 DEF AllCancelled, PhasesOrdered, Crashed
<1>16. CASE Interrupt
  <2>1. Crashed' = Crashed
    BY <1>16 DEF Interrupt, Crashed
  <2>2. pc' = [pc EXCEPT ![Main] = Escape[pc[Main]]]
    BY <1>16 DEF Interrupt
  <2>3. CASE pc[Main] \in {"warmup", "connect", "stream", "join"}
    BY <1>16, <2>1, <2>2, <2>3, EscapeFacts DEF Interrupt, PhasesOrdered
  <2>4. CASE pc[Main] \in {"submit", "collect", "cancel"}
    BY <1>16, <2>1, <2>2, <2>4, EscapeFacts DEF Interrupt, PhasesOrdered
  <2>5. QED
    BY <1>16, <2>3, <2>4, EscapeFacts DEF Interrupt
<1>9. CASE LeavePool
  BY <1>9 DEF LeavePool, PhasesOrdered, Crashed
<1>10. CASE Stream(Main)
  BY <1>10 DEF Stream, Accepted, Token, StreamEnds, RequestFails, RequestRaises,
               EndRequest, PhasesOrdered, Crashed
<1>11. CASE Expire
  BY <1>11 DEF Expire, PhasesOrdered, Crashed
<1>12. CASE UNCHANGED vars
  BY <1>12 DEF vars, PhasesOrdered, Crashed
<1>13. QED
  BY <1>1, <1>2, <1>3, <1>4, <1>5, <1>6, <1>7, <1>8, <1>9, <1>10, <1>11, <1>12,
     <1>14, <1>15, <1>16
     DEF Next, MainStep, Terminating

(* Nothing runs once main has left, unless it was disturbed twice.  A Ctrl-C*)
(* that breaks off the join was preceded by the exception that is leaving.  *)
LEMMA OrphansKept ==
  ASSUME TypeOK, TypeOK', PhasesOrdered, NoOrphanRequests, [Next]_vars
  PROVE  NoOrphanRequests'
<1> USE ThreadFacts DEF TypeOK, Goto, Finished, Left, Asking, pool, counter, results, clock
<1>1. ASSUME NEW w \in Workers, Worker(w) PROVE NoOrphanRequests'
  <2>1. /\ ~Over(w) /\ pc' = [pc EXCEPT ![w] = pc'[w]]
        /\ interrupts' = interrupts
    BY <1>1, WorkerMoves DEF Over
  <2>2. pc'[Main] = pc[Main] /\ pc[Main] # "returned"
    BY <2>1 DEF NoOrphanRequests
  <2>3. pc[Main] = "raised" => TwiceDisturbed
    BY <2>1 DEF NoOrphanRequests
  <2>4. Crashed \subseteq Crashed'
    BY <2>1 DEF Crashed, Over
  <2>5. TwiceDisturbed => TwiceDisturbed'
    BY <2>1, <2>4 DEF TwiceDisturbed
  <2>6. QED
    BY <2>2, <2>3, <2>5 DEF NoOrphanRequests
<1>2. CASE SendWarmup \/ OpenPool \/ Submit \/ AllSubmitted \/ Collect \/ AllCollected
  BY <1>2 DEF SendWarmup, OpenPool, Submit, AllSubmitted, Collect, AllCollected,
              NoOrphanRequests, Workers
<1>3. CASE CollectRaises \/ AllCancelled
  BY <1>3 DEF CollectRaises, AllCancelled, NoOrphanRequests
<1>8. CASE CancelNext
  <2>1. PICK w \in Queued : Goto(w, "cancelled")
    BY <1>8 DEF CancelNext
  <2>2. QED
    BY <1>8, <2>1 DEF CancelNext, Queued, NoOrphanRequests
<1>9. CASE Interrupt
  <2>1. /\ pc' = [pc EXCEPT ![Main] = Escape[pc[Main]]]
        /\ interrupts' = interrupts + 1 /\ interrupts \in Nat
        /\ Crashed' = Crashed
    BY <1>9 DEF Interrupt, Crashed
  <2>2. \A w \in Workers : pc'[w] = pc[w]
    BY <2>1
  <2>3. CASE pc[Main] \in {"warmup", "connect", "stream"}
    BY <2>1, <2>2, <2>3 DEF PhasesOrdered, NoOrphanRequests, Over
  <2>4. CASE pc[Main] \in {"submit", "collect", "cancel"}
    BY <2>1, <2>4, EscapeFacts DEF NoOrphanRequests
  <2>5. CASE pc[Main] = "join"
    <3>1. pc'[Main] = "raised"
      BY <2>1, <2>5, EscapeFacts
    <3>2. CASE failing
      <4>1. TwiceDisturbed'
        BY <2>1, <3>2 DEF PhasesOrdered, TwiceDisturbed
      <4>2. QED
        BY <3>1, <4>1 DEF NoOrphanRequests
    <3>3. CASE ~failing
      BY <2>2, <2>5, <3>3 DEF PhasesOrdered, NoOrphanRequests, Over
    <3>4. QED
      BY <3>2, <3>3
  <2>6. QED
    BY <1>9, <2>3, <2>4, <2>5, EscapeFacts DEF Interrupt
<1>4. CASE LeavePool
  BY <1>4 DEF LeavePool, NoOrphanRequests, Over
<1>5. CASE Stream(Main)
  BY <1>5 DEF Stream, Accepted, Token, StreamEnds, RequestFails, RequestRaises,
              EndRequest, PhasesOrdered, NoOrphanRequests, Over
<1>6. CASE Expire \/ UNCHANGED vars
  BY <1>6 DEF Expire, vars, NoOrphanRequests, Over, TwiceDisturbed, Crashed
<1>7. QED
  BY <1>1, <1>2, <1>3, <1>4, <1>5, <1>6, <1>8, <1>9
     DEF Next, MainStep, Terminating

-----------------------------------------------------------------------------
(* Where the admitted requests are.  Each action moves at most one worker   *)
(* into or out of Open and Crashed, so the sum only changes with started.   *)
LEMMA AccountingKept ==
  ASSUME TypeOK, TypeOK', LocksHeld, PhasesOrdered, Accounting, [Next]_vars
  PROVE  Accounting'
<1> USE ThreadFacts
<1> DEFINE n == Cardinality(Open)
           m == Cardinality(Crashed)
<1>1. /\ IsFiniteSet(Open) /\ IsFiniteSet(Crashed)
      /\ n \in Nat /\ m \in Nat
      /\ Len(records) \in Nat
  <2>1. Open \subseteq Workers /\ Crashed \subseteq Workers
    BY DEF Open, Crashed
  <2>2. IsFiniteSet(Open) /\ IsFiniteSet(Crashed)
    BY <2>1, FS_Subset
  <2>3. n \in Nat /\ m \in Nat
    BY <2>2, FS_CardinalityType
  <2>4. Len(records) \in Nat
    BY DEF TypeOK
  <2>5. QED
    BY <2>2, <2>3, <2>4
<1>2. ASSUME UNCHANGED <<started, records>>, Open' = Open, Crashed' = Crashed
      PROVE  Accounting'
  BY <1>2 DEF Accounting
<1>3. ASSUME NEW w \in Workers, TakeWrite(w) PROVE Accounting'
  <2>1. started' = started + 1 /\ records' = records
    BY <1>3 DEF TakeWrite, LocksHeld, results
  <2>2. /\ w \notin Open
        /\ Open' = Open \cup {w}
        /\ Crashed' = Crashed
    <3>1. /\ pc[w] = "increment"
          /\ pc'[w] = "connect"
          /\ \A v \in Workers \ {w} : pc'[v] = pc[v]
      BY <1>3 DEF TakeWrite, Goto, TypeOK
    <3>2. QED
      BY <3>1 DEF Open, Crashed, Asking
  <2>3. Cardinality(Open') = n + 1
    BY <1>1, <2>2, FS_AddElement
  <2>4. QED
    BY <1>1, <2>1, <2>2, <2>3 DEF Accounting
<1>4. ASSUME NEW w \in Workers, AppendRecord(w) PROVE Accounting'
  <2>1. started' = started /\ Len(records') = Len(records) + 1
    BY <1>4 DEF AppendRecord, TypeOK, counter
  <2>2. /\ w \in Open
        /\ Open' = Open \ {w}
        /\ Crashed' = Crashed
    BY <1>4 DEF AppendRecord, Goto, Open, Crashed, Asking, TypeOK
  <2>3. Cardinality(Open') = n - 1
    BY <1>1, <2>2, FS_RemoveElement
  <2>4. QED
    BY <1>1, <2>1, <2>2, <2>3 DEF Accounting
<1>5. ASSUME NEW w \in Workers, RequestRaises(w) PROVE Accounting'
  <2>1. UNCHANGED <<started, records>>
    BY <1>5 DEF RequestRaises, counter, results
  <2>2. /\ w \in Open /\ w \notin Crashed
        /\ Open' = Open \ {w}
        /\ Crashed' = Crashed \cup {w}
    <3>1. /\ pc[w] \in Asking
          /\ pc'[w] = "crashed"
          /\ \A v \in Workers \ {w} : pc'[v] = pc[v]
      BY <1>5, ThreadFacts DEF RequestRaises, Goto, TypeOK
    <3>2. QED
      BY <3>1 DEF Open, Crashed, Asking
  <2>3. Cardinality(Open') = n - 1 /\ Cardinality(Crashed') = m + 1
    BY <1>1, <2>2, FS_RemoveElement, FS_AddElement
  <2>4. QED
    BY <1>1, <2>1, <2>2, <2>3 DEF Accounting
<1>6. ASSUME NEW w \in Workers,
             \/ WorkerStarts(w) \/ CheckDeadline(w) \/ TakeRead(w) \/ TakeRefused(w)
             \/ Accepted(w) \/ Token(w) \/ StreamEnds(w) \/ RequestFails(w)
             \/ ReportProgress(w)
      PROVE  Accounting'
  <2>1. UNCHANGED <<started, records>>
    BY <1>6 DEF WorkerStarts, CheckDeadline, TakeRead, TakeRefused, Accepted, Token,
                StreamEnds, RequestFails, ReportProgress, counter, results
  <2>2. Open' = Open /\ Crashed' = Crashed
    BY <1>6 DEF WorkerStarts, CheckDeadline, TakeRead, TakeRefused, Accepted, Token,
                StreamEnds, RequestFails, EndRequest, ReportProgress, Goto,
                Open, Crashed, Asking, TypeOK
  <2>3. QED
    BY <1>2, <2>1, <2>2
<1>7. CASE MainStep \/ Interrupt
  <2>1. UNCHANGED <<started, records>>
    BY <1>7, MainMoves DEF counter, results
  <2>2. Open' = Open /\ Crashed' = Crashed
    BY <1>7, MainMoves DEF Open, Crashed, Asking
  <2>3. QED
    BY <1>2, <2>1, <2>2
<1>8. CASE Expire \/ UNCHANGED vars
  BY <1>2, <1>8 DEF Expire, vars, counter, results, Open, Crashed
<1>9. QED
  BY <1>3, <1>4, <1>5, <1>6, <1>7, <1>8 DEF Next, Worker, Stream, Terminating

-----------------------------------------------------------------------------
(* The inductive invariant: every step of the load generator preserves the  *)
(* locks, the phases, the accounting and the absence of orphans together.   *)
LEMMA Inductive == Spec => [](TypeOK /\ IInv)
<1>1. Init => IInv
  <2> SUFFICES ASSUME Init PROVE IInv
    OBVIOUS
  <2>1. /\ pc[Main] = "warmup"
        /\ \A w \in Workers : pc[w] = "absent"
    BY ThreadFacts DEF Init
  <2>2. Open = {} /\ Crashed = {}
    BY <2>1 DEF Open, Crashed, Asking
  <2>3. Accounting
    BY <2>2, FS_EmptySet DEF Accounting, Init
  <2>4. LocksHeld
    BY <2>1, ThreadFacts, ParameterAssumption DEF LocksHeld, Init
  <2>5. PhasesOrdered /\ NoOrphanRequests
    BY <2>1, ParameterAssumption DEF PhasesOrdered, NoOrphanRequests, Init, Left, Asking
  <2>6. QED
    BY <2>3, <2>4, <2>5 DEF IInv
<1>2. TypeOK /\ TypeOK' /\ IInv /\ [Next]_vars => IInv'
  BY LocksKept, PhasesKept, OrphansKept, AccountingKept DEF IInv
<1>3. QED
  BY <1>1, <1>2, TypeCorrect, PTL DEF Spec

(* Every admitted request is recorded, open at a worker or lost with one,   *)
(* for any number of workers and any budget (worker, take).                 *)
THEOREM AccountingHolds == Spec => []Accounting
BY Inductive, PTL DEF IInv

(* The workers together never send more requests than the limit.            *)
THEOREM OvershootExcluded == Spec => []NoOvershoot
<1>1. IInv => NoOvershoot
  BY DEF IInv, LocksHeld, Accounting, NoOvershoot
<1>2. QED
  BY <1>1, Inductive, PTL

(* When run_at_concurrency is over no worker is still sending requests, but *)
(* for a call in which a Ctrl-C came on top of a failed worker or another   *)
(* Ctrl-C; and never after a call that returned.                            *)
THEOREM OrphansExcluded == Spec => []NoOrphanRequests
BY Inductive, PTL DEF IInv

(* Warm-up requests precede every measured one and are counted nowhere.     *)
THEOREM WarmupSeparate == Spec => []WarmupIsolated
<1>1. IInv => WarmupIsolated
  BY DEF IInv, PhasesOrdered, WarmupIsolated
<1>2. QED
  BY <1>1, Inductive, PTL

(* A returned result has one record per request, from a run no worker died  *)
(* in; one with fewer than Limit of them saw the deadline pass.             *)
THEOREM ReturnComplete == Spec => []ReturnIsComplete
<1>1. TypeOK /\ IInv => ReturnIsComplete
  <2> SUFFICES ASSUME TypeOK, IInv, pc[Main] = "returned"
               PROVE  Crashed = {} /\ Len(records) = started /\ (expired \/ started = Limit)
    BY DEF ReturnIsComplete
  <2>1. \A w \in Workers : pc[w] = "retired"
    BY DEF IInv, PhasesOrdered
  <2>2. Open = {} /\ Crashed = {}
    BY <2>1 DEF Open, Crashed, Asking
  <2>3. Len(records) = started
    BY <2>2, FS_EmptySet DEF IInv, Accounting, TypeOK
  <2>4. expired \/ started = Limit
    BY <2>1, ThreadFacts DEF IInv, PhasesOrdered
  <2>5. QED
    BY <2>2, <2>3, <2>4
<1>2. QED
  BY <1>1, Inductive, PTL

-----------------------------------------------------------------------------
(* Between two calls of progress: the last count it was given is the length *)
(* of the list, but for the one record of a worker inside the lock.         *)
Reported ==
  /\ recordsLock = Nobody => reported = Len(records)
  /\ \A w \in Workers : pc[w] = "report" => Len(records) = reported + 1

(* Only the two halves of the critical section disturb Reported.            *)
LEMMA ReportedKept ==
  ASSUME TypeOK, TypeOK', LocksHeld, PhasesOrdered, Reported, [Next]_vars
  PROVE  /\ Reported'
         /\ reported' # reported => reported' = reported + 1
<1> USE ThreadFacts DEF Reported, LocksHeld, TypeOK, Goto, Asking, pool, counter, results, clock
<1>1. ASSUME NEW w \in Workers, WorkerStarts(w) \/ CheckDeadline(w) \/ TakeRefused(w)
      PROVE  Reported' /\ reported' = reported
  BY <1>1 DEF WorkerStarts, CheckDeadline, TakeRefused
<1>2. ASSUME NEW w \in Workers, TakeRead(w) \/ TakeWrite(w)
      PROVE  Reported' /\ reported' = reported
  BY <1>2 DEF TakeRead, TakeWrite
<1>3. ASSUME NEW w \in Workers, Stream(w)
      PROVE  Reported' /\ reported' = reported
  <2>1. pc[w] \in Asking /\ UNCHANGED results
    BY <1>3 DEF Stream, Accepted, Token, StreamEnds, RequestFails, RequestRaises
  <2>2. pc' = pc \/ \E to \in {"stream", "append", "crashed"} : Goto(w, to)
    BY <1>3 DEF Stream, Accepted, Token, StreamEnds, RequestFails, RequestRaises, EndRequest
  <2>3. QED
    BY <2>1, <2>2
<1>4. ASSUME NEW w \in Workers, AppendRecord(w)
      PROVE  Reported' /\ reported' = reported
  <2>1. recordsLock = Nobody /\ recordsLock' = w /\ reported' = reported
    BY <1>4 DEF AppendRecord
  <2>2. Len(records') = reported + 1
    BY <1>4, <2>1 DEF AppendRecord
  <2>3. QED
    BY <2>1, <2>2
<1>5. ASSUME NEW w \in Workers, ReportProgress(w)
      PROVE  Reported' /\ reported' = reported + 1
  <2>1. pc[w] = "report" /\ recordsLock = w /\ records' = records
    BY <1>5 DEF ReportProgress
  <2>2. reported' = Len(records') /\ Len(records) = reported + 1
    BY <1>5, <2>1 DEF ReportProgress
  <2>3. \A v \in Workers : pc'[v] # "report"
    BY <1>5, <2>1 DEF ReportProgress
  <2>4. QED
    BY <2>1, <2>2, <2>3
<1>6. CASE MainStep \/ Interrupt
  <2>1. UNCHANGED results /\ \A w \in Workers : pc'[w] = "report" => pc[w] = "report"
    BY <1>6, MainMoves
  <2>2. QED
    BY <2>1
<1>7. CASE Expire
  BY <1>7 DEF Expire
<1>8. CASE UNCHANGED vars
  BY <1>8 DEF vars
<1>9. QED
  BY <1>1, <1>2, <1>3, <1>4, <1>5, <1>6, <1>7, <1>8 DEF Next, Worker, Terminating

(* progress is called with 1, 2, 3, ... for any number of workers.          *)
THEOREM ProgressInOrder == Spec => ProgressCountsUp
<1>1. Init => Reported
  BY ThreadFacts DEF Init, Reported
<1>2. TypeOK /\ TypeOK' /\ IInv /\ Reported /\ [Next]_vars => Reported'
  BY ReportedKept DEF IInv
<1>3. TypeOK /\ TypeOK' /\ IInv /\ Reported /\ [Next]_vars
        => [reported' # reported => reported' = reported + 1]_vars
  BY ReportedKept DEF IInv
<1>4. QED
  BY <1>1, <1>2, <1>3, TypeCorrect, Inductive, PTL DEF Spec, ProgressCountsUp

(* A worker that began a request after the deadline will see the deadline   *)
(* before it can ask for another.                                           *)
LateOnce ==
  \A w \in Workers :
    \/ late[w] = 0
    \/ late[w] = 1 /\ expired /\ pc[w] \notin {"take", "increment"}

(* Only CheckDeadline leads to take, and only before the deadline.          *)
LEMMA LateKept ==
  ASSUME TypeOK, PhasesOrdered, LateOnce, [Next]_vars
  PROVE  LateOnce'
<1> USE ThreadFacts DEF LateOnce, TypeOK, Goto, Asking, pool, counter, results, clock
<1>1. ASSUME NEW w \in Workers, WorkerStarts(w) \/ CheckDeadline(w) PROVE LateOnce'
  BY <1>1 DEF WorkerStarts, CheckDeadline
<1>2. ASSUME NEW w \in Workers, TakeRead(w) \/ TakeRefused(w) PROVE LateOnce'
  BY <1>2 DEF TakeRead, TakeRefused
<1>3. ASSUME NEW w \in Workers, TakeWrite(w) PROVE LateOnce'
  BY <1>3 DEF TakeWrite
<1>4. ASSUME NEW w \in Workers, Stream(w) PROVE LateOnce'
  <2>1. UNCHANGED clock
    BY <1>4 DEF Stream, Accepted, Token, StreamEnds, RequestFails, RequestRaises
  <2>2. pc' = pc \/ \E to \in {"stream", "append", "crashed"} : Goto(w, to)
    BY <1>4 DEF Stream, Accepted, Token, StreamEnds, RequestFails, RequestRaises, EndRequest
  <2>3. QED
    BY <2>1, <2>2
<1>5. ASSUME NEW w \in Workers, AppendRecord(w) \/ ReportProgress(w) PROVE LateOnce'
  BY <1>5 DEF AppendRecord, ReportProgress
<1>6. CASE MainStep \/ Interrupt
  <2>1. UNCHANGED late
    BY <1>6 DEF MainStep, Interrupt, SendWarmup, OpenPool, Submit, AllSubmitted,
                Collect, AllCollected, CollectRaises, CancelNext, AllCancelled, LeavePool,
                Stream, Accepted, Token, StreamEnds, RequestFails, RequestRaises
  <2>2. /\ expired' = expired
        /\ \A w \in Workers : pc'[w] = pc[w] \/ pc'[w] \in {"queued", "cancelled"}
    BY <1>6, MainMoves
  <2>3. QED
    BY <2>1, <2>2
<1>7. CASE Expire
  BY <1>7 DEF Expire
<1>8. CASE UNCHANGED vars
  BY <1>8 DEF vars
<1>9. QED
  BY <1>1, <1>2, <1>3, <1>4, <1>5, <1>6, <1>7, <1>8 DEF Next, Worker, Terminating

(* However late the deadline is noticed, a worker begins at most one        *)
(* request after it.                                                        *)
THEOREM LateRequestBound == Spec => []OneLateRequest
<1>1. Init => LateOnce
  BY DEF Init, LateOnce
<1>2. TypeOK /\ IInv /\ LateOnce /\ [Next]_vars => LateOnce'
  BY LateKept DEF IInv
<1>3. LateOnce => OneLateRequest
  BY DEF LateOnce, OneLateRequest
<1>4. QED
  BY <1>1, <1>2, <1>3, TypeCorrect, Inductive, PTL DEF Spec

-----------------------------------------------------------------------------
(* Refinement: the number of open requests, read off the workers, is the    *)
(* budget's issued - recorded - lost.                                       *)
LEMMA OpenCount ==
  ASSUME TypeOK, Accounting
  PROVE  /\ Budget!Open = Cardinality(Open)
         /\ Cardinality(Open) \in Nat
         /\ Cardinality(Crashed) \in Nat
         /\ IsFiniteSet(Open) /\ IsFiniteSet(Crashed)
         /\ \A w \in Workers \ Open : Cardinality(Open) < Concurrency
<1> USE ThreadFacts
<1>1. IsFiniteSet(Open) /\ IsFiniteSet(Crashed)
  <2>1. Open \subseteq Workers /\ Crashed \subseteq Workers
    BY DEF Open, Crashed
  <2>2. QED
    BY <2>1, FS_Subset
<1>2. Cardinality(Open) \in Nat /\ Cardinality(Crashed) \in Nat
  BY <1>1, FS_CardinalityType
<1>3. Len(records) \in Nat /\ started \in Nat
  BY DEF TypeOK
<1>4. Budget!Open = Cardinality(Open)
  BY <1>2, <1>3 DEF Budget!Open, Accounting
<1>5. Cardinality(Workers) = Concurrency
  BY ParameterAssumption, FS_Interval DEF Workers
<1>6. ASSUME NEW w \in Workers \ Open PROVE Cardinality(Open) < Concurrency
  <2>1. Open \subseteq Workers /\ Open # Workers
    BY <1>6 DEF Open
  <2>2. /\ Cardinality(Open) <= Cardinality(Workers)
        /\ Cardinality(Open) = Cardinality(Workers) => Open = Workers
    BY <2>1, FS_Subset
  <2>3. QED
    BY <1>2, <1>5, <2>1, <2>2, ParameterAssumption
<1>7. QED
  BY <1>1, <1>2, <1>4, <1>6

(* No request is open once every worker is over or never began.             *)
LEMMA NoneOpen ==
  ASSUME TypeOK, Accounting, \A w \in Workers : Over(w)
  PROVE  Budget!Open = 0
<1>1. Open = {}
  BY DEF Over, Open, Asking, Finished
<1>2. QED
  BY <1>1, OpenCount, FS_EmptySet

(* Every step of the load generator is a step of the budget or leaves the   *)
(* budget's variables alone.                                                *)
LEMMA BudgetStep ==
  ASSUME TypeOK, TypeOK', IInv, [Next]_vars
  PROVE  [Budget!Next]_(Budget!vars)
<1> USE ThreadFacts
<1> DEFINE outcome == IF pc[Main] \in Left THEN pc[Main] ELSE "running"
           lost    == Cardinality(Crashed)
<1>1. /\ Budget!Open = Cardinality(Open)
      /\ Cardinality(Open) \in Nat /\ lost \in Nat
      /\ IsFiniteSet(Open) /\ IsFiniteSet(Crashed)
      /\ \A w \in Workers \ Open : Cardinality(Open) < Concurrency
  BY OpenCount DEF IInv
<1> HIDE DEF lost
<1>15. TwiceDisturbed <=> Budget!BrokenOff
  <2>1. lost > 0 <=> Crashed # {}
    BY <1>1, FS_EmptySet DEF lost
  <2>2. QED
    BY <2>1 DEF TwiceDisturbed, Budget!BrokenOff, lost
<1>2. ASSUME NEW w \in Workers, Worker(w)
      PROVE  Budget!Active /\ UNCHANGED <<outcome, expired, interrupts>>
  <2>1. /\ ~Over(w) /\ pc' = [pc EXCEPT ![w] = pc'[w]]
        /\ UNCHANGED <<expired, interrupts>>
    BY <1>2, WorkerMoves DEF Over, pool
  <2>2. pc[Main] \notin Left \/ (pc[Main] = "raised" /\ TwiceDisturbed)
    BY <2>1 DEF IInv, NoOrphanRequests, Left
  <2>3. pc'[Main] = pc[Main]
    BY <2>1 DEF TypeOK
  <2>4. Budget!Active
    BY <1>15, <2>2 DEF Budget!Active, Left
  <2>5. QED
    BY <2>1, <2>3, <2>4
<1>3. ASSUME UNCHANGED <<started, records, expired, interrupts, outcome>>, Crashed' = Crashed
      PROVE  UNCHANGED Budget!vars
  BY <1>3 DEF Budget!vars
<1>4. ASSUME NEW w \in Workers, TakeWrite(w) PROVE Budget!Issue
  <2>1. pc[w] = "increment" /\ w \notin Open
    BY <1>4 DEF TakeWrite, Open, Asking
  <2>2. started < Limit /\ started' = started + 1 /\ records' = records
    BY <1>4, <2>1 DEF TakeWrite, IInv, LocksHeld, results
  <2>3. Crashed' = Crashed
    <3>1. pc'[w] = "connect" /\ \A v \in Workers \ {w} : pc'[v] = pc[v]
      BY <1>4 DEF TakeWrite, Goto, TypeOK
    <3>2. QED
      BY <2>1, <3>1 DEF Crashed
  <2>4. Budget!Active /\ UNCHANGED <<outcome, expired, interrupts>>
    BY <1>2, <1>4 DEF Worker
  <2>5. Budget!Open < Concurrency
    BY <1>1, <2>1
  <2>6. QED
    BY <2>2, <2>3, <2>4, <2>5 DEF Budget!Issue
<1>5. ASSUME NEW w \in Workers, AppendRecord(w) PROVE Budget!Record
  <2>1. pc[w] = "append" /\ w \in Open
    BY <1>5 DEF AppendRecord, Open
  <2>2. Budget!Open > 0
    BY <1>1, <2>1, FS_EmptySet
  <2>3. started' = started /\ Len(records') = Len(records) + 1
    BY <1>5 DEF AppendRecord, TypeOK, counter
  <2>4. Crashed' = Crashed
    <3>1. pc'[w] = "report" /\ \A v \in Workers \ {w} : pc'[v] = pc[v]
      BY <1>5 DEF AppendRecord, Goto, TypeOK
    <3>2. QED
      BY <2>1, <3>1 DEF Crashed
  <2>5. Budget!Active /\ UNCHANGED <<outcome, expired, interrupts>>
    BY <1>2, <1>5 DEF Worker
  <2>6. QED
    BY <2>2, <2>3, <2>4, <2>5 DEF Budget!Record
<1>6. ASSUME NEW w \in Workers, RequestRaises(w) PROVE Budget!Lose
  <2>1. pc[w] \in Asking /\ w \in Open /\ w \notin Crashed
    BY <1>6 DEF RequestRaises, Open, Crashed, Asking
  <2>2. Budget!Open > 0
    BY <1>1, <2>1, FS_EmptySet
  <2>3. UNCHANGED <<started, records>>
    BY <1>6 DEF RequestRaises, counter, results
  <2>4. Crashed' = Crashed \cup {w}
    <3>1. pc'[w] = "crashed" /\ \A v \in Workers \ {w} : pc'[v] = pc[v]
      BY <1>6, ThreadFacts DEF RequestRaises, Goto, TypeOK
    <3>2. QED
      BY <3>1 DEF Crashed
  <2>5. lost' = lost + 1
    BY <1>1, <2>1, <2>4, FS_AddElement DEF lost
  <2>6. Budget!Active /\ UNCHANGED <<outcome, expired, interrupts>>
    BY <1>2, <1>6 DEF Worker, Stream
  <2>7. QED
    BY <2>2, <2>3, <2>5, <2>6 DEF Budget!Lose, lost
<1>7. ASSUME NEW w \in Workers,
             \/ WorkerStarts(w) \/ CheckDeadline(w) \/ TakeRead(w) \/ TakeRefused(w)
             \/ Accepted(w) \/ Token(w) \/ StreamEnds(w) \/ RequestFails(w)
             \/ ReportProgress(w)
      PROVE  UNCHANGED Budget!vars
  <2>1. UNCHANGED <<started, records>>
    BY <1>7 DEF WorkerStarts, CheckDeadline, TakeRead, TakeRefused, Accepted, Token,
                StreamEnds, RequestFails, ReportProgress, counter, results
  <2>2. Crashed' = Crashed
    BY <1>7 DEF WorkerStarts, CheckDeadline, TakeRead, TakeRefused, Accepted, Token,
                StreamEnds, RequestFails, EndRequest, ReportProgress, Goto,
                Crashed, Asking, TypeOK
  <2>3. UNCHANGED <<outcome, expired, interrupts>>
    BY <1>2, <1>7 DEF Worker, Stream
  <2>4. QED
    BY <1>3, <2>1, <2>2, <2>3
<1>8. ASSUME MainStep \/ Interrupt
      PROVE  UNCHANGED <<started, records, expired>> /\ Crashed' = Crashed /\ outcome = "running"
  BY <1>8, MainMoves DEF IInv, counter, results, Crashed
<1>16. ASSUME MainStep PROVE interrupts' = interrupts
  BY <1>16 DEF MainStep, SendWarmup, OpenPool, Submit, AllSubmitted, Collect, AllCollected,
               CollectRaises, CancelNext, AllCancelled, LeavePool, Stream, Accepted, Token,
               StreamEnds, RequestFails, RequestRaises, pool
<1>9. ASSUME \/ SendWarmup \/ OpenPool \/ Submit \/ AllSubmitted \/ Collect
             \/ AllCollected \/ CollectRaises \/ CancelNext \/ AllCancelled
             \/ Stream(Main) /\ ~RequestRaises(Main)
      PROVE  UNCHANGED Budget!vars
  <2>1. pc'[Main] \notin Left
    <3>1. CASE Submit
      <4>1. cursor \in Workers /\ pc[Main] = "submit"
        BY <3>1, ParameterAssumption DEF Submit, Workers, TypeOK
      <4>2. QED
        BY <3>1, <4>1 DEF Submit, Goto, Left, TypeOK
    <3>2. CASE SendWarmup \/ OpenPool \/ AllSubmitted \/ Collect \/ AllCollected
      BY <3>2 DEF SendWarmup, OpenPool, AllSubmitted, Collect, AllCollected, Goto,
                  Left, TypeOK
    <3>3. CASE CollectRaises \/ AllCancelled
      BY <3>3 DEF CollectRaises, AllCancelled, Goto, Left, TypeOK
    <3>6. CASE CancelNext
      BY <3>6 DEF CancelNext, Queued, Goto, Left, TypeOK
    <3>4. CASE Stream(Main) /\ ~RequestRaises(Main)
      BY <3>4 DEF Stream, Accepted, Token, StreamEnds, RequestFails, EndRequest, Goto,
                  Asking, Left, TypeOK
    <3>5. QED
      BY <1>9, <3>1, <3>2, <3>3, <3>4, <3>6
  <2>2. /\ UNCHANGED <<started, records, expired, interrupts, outcome>>
        /\ Crashed' = Crashed
    BY <1>8, <1>9, <1>16, <2>1 DEF MainStep
  <2>3. QED
    BY <1>3, <2>2
<1>17. CASE Interrupt
  <2>1. /\ UNCHANGED <<started, records, expired>> /\ Crashed' = Crashed /\ outcome = "running"
        /\ pc[Main] \in MainAt \ Left
        /\ interrupts' = interrupts + 1 /\ pc'[Main] = Escape[pc[Main]]
        /\ interrupts \in Nat
    BY <1>8, <1>17 DEF Interrupt, Goto, TypeOK
  <2>2. CASE pc[Main] \in {"submit", "collect", "cancel"}
    <3>1. pc'[Main] \notin Left
      BY <2>1, <2>2, EscapeFacts DEF Left
    <3>2. QED
      BY <2>1, <3>1 DEF Budget!Next, Budget!Break
  <2>3. CASE pc[Main] \in {"warmup", "connect", "stream"}
    <3>1. \A w \in Workers : pc[w] = "absent"
      BY <2>3 DEF IInv, PhasesOrdered, Asking
    <3>2. Budget!Open = 0
      BY <3>1, NoneOpen DEF IInv, Over
    <3>3. outcome' = "raised"
      BY <2>1, <2>3, EscapeFacts DEF Left
    <3>4. QED
      BY <2>1, <3>2, <3>3 DEF Budget!Next, Budget!Break
  <2>4. CASE pc[Main] = "join"
    <3>1. outcome' = "raised"
      BY <2>1, <2>4, EscapeFacts DEF Left
    <3>2. CASE failing
      <4>1. interrupts > 0 \/ Crashed # {}
        BY <3>2 DEF IInv, PhasesOrdered
      <4>2. lost > 0 <=> Crashed # {}
        BY <1>1, FS_EmptySet DEF lost
      <4>3. interrupts + 1 > 1 \/ (interrupts + 1 = 1 /\ lost > 0)
        BY <2>1, <4>1, <4>2
      <4>4. lost' = lost
        BY <2>1 DEF lost
      <4>5. Budget!BrokenOff'
        BY <2>1, <4>3, <4>4 DEF Budget!BrokenOff, lost
      <4>6. QED
        BY <2>1, <3>1, <4>5 DEF Budget!Next, Budget!Break
    <3>3. CASE ~failing
      <4>1. \A w \in Workers : Over(w)
        BY <2>4, <3>3 DEF IInv, PhasesOrdered, Over, Finished
      <4>2. Budget!Open = 0
        BY <4>1, NoneOpen DEF IInv
      <4>3. QED
        BY <2>1, <3>1, <4>2 DEF Budget!Next, Budget!Break
    <3>4. QED
      BY <3>2, <3>3
  <2>5. QED
    BY <2>1, <2>2, <2>3, <2>4, EscapeFacts
<1>10. CASE LeavePool
  <2>1. /\ UNCHANGED <<started, records, expired, interrupts>>
        /\ Crashed' = Crashed /\ outcome = "running"
    BY <1>8, <1>10, <1>16 DEF MainStep
  <2>2. Budget!Open = 0
    BY <1>10, NoneOpen DEF LeavePool, IInv
  <2>3. CASE failing
    <3>1. outcome' = "raised"
      BY <1>10, <2>3 DEF LeavePool, Goto, Left, TypeOK
    <3>2. QED
      BY <2>1, <2>2, <3>1 DEF Budget!Next, Budget!Raise
  <2>4. CASE ~failing
    <3>1. outcome' = "returned"
      BY <1>10, <2>4 DEF LeavePool, Goto, Left, TypeOK
    <3>2. \A w \in Workers : pc[w] = "retired"
      BY <1>10, <2>4 DEF LeavePool, IInv, PhasesOrdered
    <3>3. lost = 0
      BY <3>2, FS_EmptySet DEF Crashed, lost
    <3>6. interrupts = 0
      BY <2>4 DEF IInv, PhasesOrdered, TypeOK
    <3>4. expired \/ started = Limit
      BY <3>2 DEF IInv, PhasesOrdered
    <3>5. QED
      BY <2>1, <2>2, <3>1, <3>3, <3>4, <3>6 DEF Budget!Next, Budget!Return, lost
  <2>5. QED
    BY <2>3, <2>4
<1>11. CASE RequestRaises(Main)
  <2>1. /\ UNCHANGED <<started, records, expired, interrupts>>
        /\ Crashed' = Crashed /\ outcome = "running"
    BY <1>8, <1>11, <1>16 DEF MainStep, Stream
  <2>2. \A w \in Workers : pc[w] = "absent"
    BY <1>11 DEF RequestRaises, IInv, PhasesOrdered, Asking
  <2>3. Budget!Open = 0
    BY <2>2, NoneOpen DEF IInv, Over
  <2>4. outcome' = "raised"
    BY <1>11 DEF RequestRaises, Goto, Left, TypeOK
  <2>5. QED
    BY <2>1, <2>3, <2>4 DEF Budget!Next, Budget!Raise
<1>12. CASE Expire
  <2>1. /\ Timed /\ ~expired /\ expired' = TRUE
        /\ UNCHANGED <<pc, started, records, interrupts>>
    BY <1>12 DEF Expire, counter, results, pool
  <2>2. Crashed' = Crashed
    BY <2>1 DEF Crashed
  <2>3. QED
    BY <2>1, <2>2 DEF Budget!Next, Budget!Expire
<1>13. CASE UNCHANGED vars
  BY <1>3, <1>13 DEF vars, Crashed
<1>14. QED
  BY <1>4, <1>5, <1>6, <1>7, <1>9, <1>10, <1>11, <1>12, <1>13, <1>17
     DEF Next, Worker, Stream, MainStep, Terminating, Budget!Next

(* The load generator, with its threads, locks and futures, implements the  *)
(* request budget: what run_at_concurrency promises its caller.             *)
THEOREM RefinesBudget == Spec => MeetsBudget
<1>1. Init => Budget!Init
  <2> SUFFICES ASSUME Init PROVE Budget!Init
    OBVIOUS
  <2>1. pc[Main] = "warmup" /\ \A w \in Workers : pc[w] = "absent"
    BY ThreadFacts DEF Init
  <2>2. Cardinality(Crashed) = 0
    BY <2>1, FS_EmptySet DEF Crashed
  <2>3. QED
    BY <2>1, <2>2 DEF Budget!Init, Init, Left
<1>2. TypeOK /\ TypeOK' /\ IInv /\ [Next]_vars => [Budget!Next]_(Budget!vars)
  BY BudgetStep
<1>3. QED
  BY <1>1, <1>2, TypeCorrect, Inductive, PTL DEF Spec, MeetsBudget, Budget!Spec
=============================================================================
