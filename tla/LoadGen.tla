------------------------------ MODULE LoadGen ------------------------------
(***************************************************************************)
(* The closed-loop load generator, bench/loadgen.py: run_at_concurrency    *)
(* and what it calls.  The main thread sends the warm-up requests itself,  *)
(* then submits Concurrency workers to a thread pool, collects their       *)
(* futures in submission order and leaves the pool, which waits for every  *)
(* thread.  The workers share a request counter and a list of records,     *)
(* each behind a lock of its own.                                          *)
(*                                                                         *)
(* Data is abstracted to what the properties tell apart.  A request is the *)
(* number of token chunks it has received and whether it ended in an       *)
(* error; ttft is set at the first token, so it is absent exactly when     *)
(* tokens = 0.  Server-sent lines that carry no text change nothing and    *)
(* are stuttering steps.  Time is the flag expired: the deadline passed.   *)
(***************************************************************************)
EXTENDS Integers, Sequences, FiniteSets

CONSTANTS
  Concurrency,   (* workers, and threads of the pool                        *)
  Limit,         (* total: n_requests, or the cap of a timed run            *)
  Timed,         (* TRUE when duration_s was given instead of n_requests    *)
  Warmups,       (* warmup_requests                                         *)
  MaxTokens,     (* bound: token chunks a server sends for one request      *)
  MaxInterrupts  (* bound: how often Ctrl-C is pressed                      *)

ASSUME ParameterAssumption ==
  /\ Concurrency \in Nat \ {0}
  /\ Limit \in Nat \ {0}
  /\ Timed \in BOOLEAN
  /\ Warmups \in Nat
  /\ MaxTokens \in Nat
  /\ MaxInterrupts \in Nat

Workers == 0 .. Concurrency - 1
Main    == -1                     \* the thread that called run_at_concurrency
Threads == Workers \cup {Main}
Nobody  == -2                     \* no holder of a lock

VARIABLES
  pc,            \* where each thread is
  cursor,        \* main: the worker it submits, or whose future it awaits
  failing,       \* main: an exception is on its way out of the call
  warm,          \* main: warm-up requests still to send
  interrupts,    \* history: how often Ctrl-C was pressed
  req,           \* the request each thread is serving, as its record will be
  started,       \* _Counters.started
  counterLock,   \* holder of _Counters.lock
  seen,          \* the value of started a worker read under that lock
  records,       \* the list of records
  recordsLock,   \* holder of records_lock
  reported,      \* the last count handed to progress
  expired,       \* perf_counter() >= deadline
  late           \* history: requests each worker began after the deadline

vars == <<pc, cursor, failing, warm, interrupts, req, started, counterLock, seen,
          records, recordsLock, reported, expired, late>>

pool    == <<cursor, failing, warm, interrupts>>
counter == <<started, counterLock, seen>>
results == <<records, recordsLock, reported>>
clock   == <<expired, late>>

Request == [tokens : 0 .. MaxTokens, error : BOOLEAN]
Fresh   == [tokens |-> 0, error |-> FALSE]

Asking    == {"connect", "stream"}                   \* inside _stream_one
Finished  == {"retired", "crashed", "cancelled"}     \* a worker that is over
Left      == {"returned", "raised"}                  \* run_at_concurrency is over

(* The worker has ended, or was never submitted.                            *)
Over(w) == pc[w] \in Finished \cup {"absent"}

Goto(t, to) == pc' = [pc EXCEPT ![t] = to]

-----------------------------------------------------------------------------
(* _stream_one, run by a worker or, for a warm-up request, by main.         *)

BeginRequest(t) == req' = [req EXCEPT ![t] = Fresh]

(* A record is ready: a worker goes on to append it, main drops it.         *)
EndRequest(t, error) ==
  /\ req' = [req EXCEPT ![t].error = error]
  /\ Goto(t, IF t = Main THEN "warmup" ELSE "append")

(* The response arrived with a status below 400.                            *)
Accepted(t) ==
  /\ pc[t] = "connect"
  /\ Goto(t, "stream")
  /\ UNCHANGED <<pool, req, counter, results, clock>>

(* A chunk with text: tokens += 1, ttft if it is the first.                 *)
Token(t) ==
  /\ pc[t] = "stream"
  /\ req[t].tokens < MaxTokens
  /\ req' = [req EXCEPT ![t].tokens = @ + 1]
  /\ UNCHANGED <<pc, pool, counter, results, clock>>

(* [DONE] or the end of the body: a record without error, whatever it holds.*)
StreamEnds(t) ==
  /\ pc[t] = "stream"
  /\ EndRequest(t, FALSE)
  /\ UNCHANGED <<pool, counter, results, clock>>

(* Status >= 400, or an OSError (time-outs too) or HTTPException anywhere:  *)
(* a record with an error and the tokens received so far.                   *)
RequestFails(t) ==
  /\ pc[t] \in Asking
  /\ EndRequest(t, TRUE)
  /\ UNCHANGED <<pool, counter, results, clock>>

(* Any other exception leaves _stream_one, a ValueError for a bad URL or an *)
(* AttributeError for a data line that is JSON but no object: there is no   *)
(* record and the caller dies of it.                                        *)
RequestRaises(t) ==
  /\ pc[t] \in Asking
  /\ Goto(t, IF t = Main THEN "raised" ELSE "crashed")
  /\ UNCHANGED <<pool, req, counter, results, clock>>

Stream(t) ==
  Accepted(t) \/ Token(t) \/ StreamEnds(t) \/ RequestFails(t) \/ RequestRaises(t)

-----------------------------------------------------------------------------
(* worker(worker_id).                                                       *)

(* A thread of the pool picks up the work item.                             *)
WorkerStarts(w) ==
  /\ pc[w] = "queued"
  /\ Goto(w, "check")
  /\ UNCHANGED <<pool, req, counter, results, clock>>

(* Mutant: the deadline is only read before the first request.              *)
CheckDeadlineOnce(w) ==
  /\ pc[w] = "check"
  /\ Goto(w, IF expired /\ req[w] = Fresh THEN "retired" ELSE "take")
  /\ UNCHANGED <<pool, req, counter, results, clock>>

(* The deadline is read first, outside any lock.                            *)
CheckDeadline(w) ==
  /\ pc[w] = "check"
  /\ Goto(w, IF expired THEN "retired" ELSE "take")
  /\ UNCHANGED <<pool, req, counter, results, clock>>

(* Mutant: take without its lock.                                           *)
TakeReadUnlocked(w) ==
  /\ pc[w] = "take"
  /\ started < Limit
  /\ counterLock' = w
  /\ seen' = [seen EXCEPT ![w] = started]
  /\ Goto(w, "increment")
  /\ UNCHANGED <<pool, req, started, results, clock>>

(* _Counters.take: with the lock, compare and read ...                      *)
TakeRead(w) ==
  /\ pc[w] = "take"
  /\ counterLock = Nobody
  /\ started < Limit
  /\ counterLock' = w
  /\ seen' = [seen EXCEPT ![w] = started]
  /\ Goto(w, "increment")
  /\ UNCHANGED <<pool, req, started, results, clock>>

(* Mutant: the last request of the budget is refused.                       *)
TakeRefusedEarly(w) ==
  /\ pc[w] = "take"
  /\ counterLock = Nobody
  /\ started >= Limit - 1
  /\ Goto(w, "retired")
  /\ UNCHANGED <<pool, req, counter, results, clock>>

(* Mutant: a refused worker asks again instead of returning.                *)
TakeRefusedRetries(w) ==
  /\ pc[w] = "take"
  /\ counterLock = Nobody
  /\ started >= Limit
  /\ Goto(w, "check")
  /\ UNCHANGED <<pool, req, counter, results, clock>>

(* The budget is spent: take returns False and the worker returns.          *)
TakeRefused(w) ==
  /\ pc[w] = "take"
  /\ counterLock = Nobody
  /\ started >= Limit
  /\ Goto(w, "retired")
  /\ UNCHANGED <<pool, req, counter, results, clock>>

(* ... then write the sum and release; the request is on its way.           *)
TakeWrite(w) ==
  /\ pc[w] = "increment"
  /\ started' = seen[w] + 1
  /\ counterLock' = Nobody
  /\ seen' = [seen EXCEPT ![w] = 0]
  /\ BeginRequest(w)
  /\ late' = IF expired THEN [late EXCEPT ![w] = @ + 1] ELSE late
  /\ Goto(w, "connect")
  /\ UNCHANGED <<pool, results, expired>>

(* Mutant: append without records_lock.                                     *)
AppendUnlocked(w) ==
  /\ pc[w] = "append"
  /\ recordsLock' = w
  /\ records' = Append(records, req[w])
  /\ Goto(w, "report")
  /\ UNCHANGED <<pool, req, counter, reported, clock>>

(* records.append(record) under records_lock ...                            *)
AppendRecord(w) ==
  /\ pc[w] = "append"
  /\ recordsLock = Nobody
  /\ recordsLock' = w
  /\ records' = Append(records, req[w])
  /\ Goto(w, "report")
  /\ UNCHANGED <<pool, req, counter, reported, clock>>

(* ... and progress(len(records)) before the lock is released.              *)
ReportProgress(w) ==
  /\ pc[w] = "report"
  /\ reported' = Len(records)
  /\ recordsLock' = Nobody
  /\ Goto(w, "check")
  /\ UNCHANGED <<pool, req, counter, records, clock>>

Worker(w) ==
  \/ WorkerStarts(w) \/ CheckDeadline(w)
  \/ TakeRead(w) \/ TakeRefused(w) \/ TakeWrite(w)
  \/ Stream(w)
  \/ AppendRecord(w) \/ ReportProgress(w)

-----------------------------------------------------------------------------
(* The main thread.                                                         *)

(* Mutant: one warm-up request too many.                                    *)
SendWarmupMore ==
  /\ pc[Main] = "warmup"
  /\ warm >= 0
  /\ warm' = warm - 1
  /\ BeginRequest(Main)
  /\ Goto(Main, "connect")
  /\ UNCHANGED <<cursor, failing, interrupts, counter, results, clock>>

(* One more warm-up request, before any worker exists; the deadline of a    *)
(* timed run is already ticking.                                            *)
SendWarmup ==
  /\ pc[Main] = "warmup"
  /\ warm > 0
  /\ warm' = warm - 1
  /\ BeginRequest(Main)
  /\ Goto(Main, "connect")
  /\ UNCHANGED <<cursor, failing, interrupts, counter, results, clock>>

(* Mutant: the pool is opened while warm-up requests remain.                *)
OpenPoolEarly ==
  /\ pc[Main] = "warmup"
  /\ Goto(Main, "submit")
  /\ UNCHANGED <<pool, req, counter, results, clock>>

(* The warm-up is over: the with block is entered.                          *)
OpenPool ==
  /\ pc[Main] = "warmup"
  /\ warm = 0
  /\ Goto(Main, "submit")
  /\ UNCHANGED <<pool, req, counter, results, clock>>

(* pool.map submits the workers one by one.                                 *)
Submit ==
  /\ pc[Main] = "submit"
  /\ cursor < Concurrency
  /\ Goto(cursor, "queued")
  /\ cursor' = cursor + 1
  /\ UNCHANGED <<failing, warm, interrupts, req, counter, results, clock>>

AllSubmitted ==
  /\ pc[Main] = "submit"
  /\ cursor = Concurrency
  /\ Goto(Main, "collect")
  /\ cursor' = 0
  /\ UNCHANGED <<failing, warm, interrupts, req, counter, results, clock>>

(* Mutant: the futures are waited for but not asked for their exception.    *)
CollectWaits ==
  /\ pc[Main] = "collect"
  /\ cursor < Concurrency
  /\ pc[cursor] \in Finished
  /\ cursor' = cursor + 1
  /\ UNCHANGED <<pc, failing, warm, interrupts, req, counter, results, clock>>

(* list() asks for the futures' results in submission order.                *)
Collect ==
  /\ pc[Main] = "collect"
  /\ cursor < Concurrency
  /\ pc[cursor] = "retired"
  /\ cursor' = cursor + 1
  /\ UNCHANGED <<pc, failing, warm, interrupts, req, counter, results, clock>>

AllCollected ==
  /\ pc[Main] = "collect"
  /\ cursor = Concurrency
  /\ Goto(Main, "join")
  /\ UNCHANGED <<pool, req, counter, results, clock>>

(* The awaited worker's exception comes out of list().                      *)
CollectRaises ==
  /\ pc[Main] = "collect"
  /\ cursor < Concurrency
  /\ pc[cursor] = "crashed"
  /\ failing' = TRUE
  /\ Goto(Main, "cancel")
  /\ UNCHANGED <<cursor, warm, interrupts, req, counter, results, clock>>

Queued == {w \in Workers : pc[w] = "queued"}

(* The finally clauses of the map cancel the futures that have not started, *)
(* one by one while threads go on starting them: the awaited one, then from *)
(* the last backwards.                                                      *)
CancelNext ==
  /\ pc[Main] = "cancel"
  /\ \E w \in Queued :
       /\ w = cursor \/ (cursor \notin Queued /\ \A v \in Queued : v <= w)
       /\ Goto(w, "cancelled")
  /\ UNCHANGED <<pool, req, counter, results, clock>>

AllCancelled ==
  /\ pc[Main] = "cancel"
  /\ Queued = {}
  /\ Goto(Main, "join")
  /\ UNCHANGED <<pool, req, counter, results, clock>>

(* Where an exception in main itself takes it.  Out of pool.map's loop of   *)
(* submissions nothing is cancelled; out of list() the futures are; the end *)
(* of the with block joins the threads, and is left at once by an exception *)
(* that breaks the join off.                                                *)
Escape ==
  [ warmup  |-> "raised", connect |-> "raised", stream |-> "raised",
    submit  |-> "join",   collect |-> "cancel", cancel |-> "join",
    join    |-> "raised" ]

(* KeyboardInterrupt, wherever main is.                                     *)
Interrupt ==
  /\ pc[Main] \notin Left
  /\ interrupts < MaxInterrupts
  /\ interrupts' = interrupts + 1
  /\ failing' = TRUE
  /\ Goto(Main, Escape[pc[Main]])
  /\ UNCHANGED <<cursor, warm, req, counter, results, clock>>

(* Mutant: an exception leaves the pool without joining its threads.        *)
LeavePoolAtOnce ==
  /\ pc[Main] = "join"
  /\ failing \/ \A w \in Workers : Over(w)
  /\ Goto(Main, IF failing THEN "raised" ELSE "returned")
  /\ UNCHANGED <<pool, req, counter, results, clock>>

(* Leaving the with block joins every thread, whether or not an exception   *)
(* is pending; only then does the function return or raise.                 *)
LeavePool ==
  /\ pc[Main] = "join"
  /\ \A w \in Workers : Over(w)
  /\ Goto(Main, IF failing THEN "raised" ELSE "returned")
  /\ UNCHANGED <<pool, req, counter, results, clock>>

MainStep ==
  \/ SendWarmup \/ OpenPool \/ Submit \/ AllSubmitted
  \/ Collect \/ AllCollected
  \/ CollectRaises \/ CancelNext \/ AllCancelled \/ LeavePool
  \/ Stream(Main)

-----------------------------------------------------------------------------
(* perf_counter() passes the deadline of a timed run.                       *)
Expire ==
  /\ Timed
  /\ ~expired
  /\ expired' = TRUE
  /\ UNCHANGED <<pc, pool, req, counter, results, late>>

Terminating ==
  /\ pc[Main] \in Left
  /\ UNCHANGED vars

Init ==
  /\ pc = [t \in Threads |-> IF t = Main THEN "warmup" ELSE "absent"]
  /\ cursor = 0
  /\ failing = FALSE
  /\ warm = Warmups
  /\ interrupts = 0
  /\ req = [t \in Threads |-> Fresh]
  /\ started = 0
  /\ counterLock = Nobody
  /\ seen = [w \in Workers |-> 0]
  /\ records = <<>>
  /\ recordsLock = Nobody
  /\ reported = 0
  /\ expired = FALSE
  /\ late = [w \in Workers |-> 0]

Next ==
  \/ \E w \in Workers : Worker(w)
  \/ MainStep
  \/ Interrupt
  \/ Expire
  \/ Terminating

Spec == Init /\ [][Next]_vars

(* Every thread of the process is scheduled, and no request hangs for ever: *)
(* max_tokens bounds the chunks a server sends and the socket time-out      *)
(* turns silence into an error.  Nothing makes an interrupt happen.         *)
Fairness ==
  /\ \A w \in Workers : WF_vars(Worker(w))
  /\ WF_vars(MainStep)

FairSpec == Spec /\ Fairness

-----------------------------------------------------------------------------
(* Properties.                                                              *)

WorkerAt == {"absent", "queued", "check", "take", "increment", "connect",
             "stream", "append", "report"} \cup Finished
MainAt   == {"warmup", "connect", "stream", "submit", "collect",
             "cancel", "join"} \cup Left

TypeOK ==
  /\ pc \in [Threads -> WorkerAt \cup MainAt]
  /\ \A w \in Workers : pc[w] \in WorkerAt
  /\ pc[Main] \in MainAt
  /\ cursor \in 0 .. Concurrency
  /\ failing \in BOOLEAN
  /\ warm \in 0 .. Warmups
  /\ interrupts \in 0 .. MaxInterrupts
  /\ req \in [Threads -> Request]
  /\ started \in Nat
  /\ counterLock \in Workers \cup {Nobody}
  /\ seen \in [Workers -> Nat]
  /\ records \in Seq(Request)
  /\ recordsLock \in Workers \cup {Nobody}
  /\ reported \in Nat
  /\ expired \in BOOLEAN
  /\ late \in [Workers -> Nat]

\* workers with a request that was counted and has no record yet
Open    == {w \in Workers : pc[w] \in Asking \cup {"append"}}
Crashed == {w \in Workers : pc[w] = "crashed"}

(* Every request the counter admitted is in one place: recorded, open at a  *)
(* worker, or lost with a worker that died of it (worker, take).            *)
Accounting == started = Len(records) + Cardinality(Open) + Cardinality(Crashed)

(* "so workers cannot collectively overshoot the target" (_Counters): the   *)
(* requests actually sent, not just the counter, stay within the limit.     *)
NoOvershoot == Len(records) + Cardinality(Open) + Cardinality(Crashed) <= Limit

(* A result comes back only from a run in which no worker died, it holds a  *)
(* record for each request that was sent, and it falls short of the limit   *)
(* only when the deadline passed, be it already during the warm-up; an      *)
(* untimed run has n_requests of them, whichever workers served them.       *)
ReturnIsComplete ==
  pc[Main] = "returned" =>
    /\ Crashed = {}
    /\ Len(records) = started
    /\ expired \/ started = Limit

(* The two ways out of a pool whose workers are still sending: an exception *)
(* is pending, of a worker or of a Ctrl-C, and a further Ctrl-C breaks off  *)
(* the join.                                                                *)
TwiceDisturbed == interrupts > 1 \/ (interrupts = 1 /\ Crashed # {})

(* One disturbance is not enough to leave a worker sending requests behind  *)
(* the caller's back: after an exception in any number of workers, or after *)
(* one Ctrl-C at any moment, the call is only over when every worker is.    *)
(* And a call that returns leaves nobody, whatever happened.                *)
NoOrphanRequests ==
  pc[Main] = "returned" \/ (pc[Main] = "raised" /\ ~TwiceDisturbed) =>
    \A w \in Workers : Over(w)

(* The deadline is checked outside the lock, so a worker may begin a        *)
(* request after it; it does so at most once.                               *)
OneLateRequest == \A w \in Workers : late[w] <= 1

(* Warm-up requests are over before the measured ones begin, and none of    *)
(* them is counted or recorded.                                             *)
WarmupIsolated ==
  warm > 0 \/ pc[Main] \in Asking =>
    /\ started = 0
    /\ records = <<>>
    /\ \A w \in Workers : pc[w] = "absent"

(* progress sees 1, 2, 3, ...: no count skipped, repeated or out of order,  *)
(* however the workers interleave.                                          *)
ProgressCountsUp == [][reported' # reported => reported' = reported + 1]_vars

(* The invariant of the proofs in LoadGenProofs: which thread may hold each *)
(* lock, what each phase of main says of the workers, why a worker retires. *)
LocksHeld ==
  /\ \A w \in Workers : pc[w] = "increment" <=> counterLock = w
  /\ \A w \in Workers : pc[w] = "increment" => seen[w] = started /\ started < Limit
  /\ \A w \in Workers : pc[w] = "report" <=> recordsLock = w
  /\ started <= Limit

PhasesOrdered ==
  /\ warm > 0 => pc[Main] \in {"warmup", "raised"} \cup Asking
  /\ warm > 0 \/ pc[Main] \in {"warmup"} \cup Asking =>
       /\ cursor = 0
       /\ started = 0
       /\ records = <<>>
       /\ \A w \in Workers : pc[w] = "absent"
  /\ pc[Main] = "submit" => \A w \in Workers : pc[w] = "absent" <=> w >= cursor
  /\ pc[Main] = "collect" => \A w \in Workers : pc[w] # "absent"
  /\ pc[Main] = "collect" => \A w \in Workers : w < cursor => pc[w] = "retired"
  /\ pc[Main] = "join" /\ ~failing => \A w \in Workers : pc[w] = "retired"
  /\ pc[Main] = "returned" => \A w \in Workers : pc[w] = "retired"
  /\ failing => pc[Main] \in {"cancel", "join", "raised"}
  /\ pc[Main] = "cancel" => failing
  /\ failing => interrupts > 0 \/ Crashed # {}
  /\ interrupts > 0 => failing
  /\ expired => Timed
  /\ \A w \in Workers : pc[w] = "retired" => expired \/ started = Limit

IInv == LocksHeld /\ PhasesOrdered /\ Accounting /\ NoOrphanRequests

(* Every call ends: no deadlock between the two locks, the futures and the  *)
(* join of the pool.  Workers that outlive an interrupted call end as well. *)
Terminates == <>[](pc[Main] \in Left /\ \A w \in Workers : Over(w))

(* An exception in any worker reaches the caller in the end, though main    *)
(* only looks at the futures in submission order.                           *)
CrashSurfaces == Crashed # {} ~> pc[Main] = "raised"

(* Each call is one run of the request budget: what the caller is promised. *)
Budget == INSTANCE RequestBudget
  WITH issued   <- started,
       recorded <- Len(records),
       lost     <- Cardinality(Crashed),
       overdue  <- expired,
       breaks   <- interrupts,
       outcome  <- IF pc[Main] \in Left THEN pc[Main] ELSE "running"

MeetsBudget == Budget!Spec
=============================================================================
