------------------------------- MODULE Store -------------------------------
(***************************************************************************)
(* The measurement store, store/sqlite.py, used by several processes on    *)
(* one database file.  Each process opens a MeasurementStore, which runs   *)
(* _init_schema, and then calls record, runs and count in any order.       *)
(*                                                                         *)
(* SQLite is external, modelled as the code uses it.  A SELECT outside a   *)
(* transaction is one read of the committed state; the first INSERT opens  *)
(* a transaction and takes the one write lock of the file, or raises once  *)
(* the busy time-out passed; close without commit rolls back; a run id is  *)
(* the next of AUTOINCREMENT, which a roll-back gives back.  The content   *)
(* of a run is the number of its points.                                   *)
(***************************************************************************)
EXTENDS Integers, Sequences, FiniteSets, Functions

CONSTANTS
  Procs,         (* processes sharing the file                              *)
  PointCounts,   (* how many points a recorded run may have                 *)
  MaxRuns        (* bound: runs recorded in the file                        *)

ASSUME StoreAssumption ==
  /\ IsFiniteSet(Procs)
  /\ PointCounts \subseteq Nat
  /\ MaxRuns \in Nat

Nobody == "nobody"

VARIABLES
  tables,    \* committed: how many tables of _SCHEMA exist
  versions,  \* committed: rows of schema_info
  runRows,   \* committed: rows of runs, by id; what each should have in points
  points,    \* committed: rows of points, by run id
  writer,    \* holder of the write lock
  pc,        \* where each process is
  plan,      \* points of the run a process is recording
  written,   \* rows of points its open transaction holds
  seen,      \* runs(), count(): what the first SELECT of the call returned
  listed,    \* runs(): points of the runs read so far
  counted    \* count(): what the last call returned

file == <<tables, versions, runRows, points>>
txn  == <<plan, written>>
reading == <<seen, listed, counted>>
vars == <<file, writer, pc, txn, reading>>

(* The two CREATE INDEX statements at its end change no answer.             *)
Schema == <<"schema_info", "runs", "points">>

Goto(p, to) == pc' = [pc EXCEPT ![p] = to]

(* The locals of a call are gone when it ends, by a return or an exception. *)
Forget(p) ==
  /\ plan' = [plan EXCEPT ![p] = 0]
  /\ written' = [written EXCEPT ![p] = 0]
  /\ seen' = [seen EXCEPT ![p] = 0]
  /\ listed' = [listed EXCEPT ![p] = <<>>]

Ids(n) == 1 .. n

Total(f, n) == SumFunctionOnSet(f, Ids(n))

Init ==
  /\ tables = 0
  /\ versions = <<>>
  /\ runRows = <<>>
  /\ points = [i \in Ids(MaxRuns) |-> 0]
  /\ writer = Nobody
  /\ pc = [p \in Procs |-> "closed"]
  /\ plan = [p \in Procs |-> 0]
  /\ written = [p \in Procs |-> 0]
  /\ seen = [p \in Procs |-> 0]
  /\ listed = [p \in Procs |-> <<>>]
  /\ counted = [p \in Procs |-> <<0, 0>>]

-----------------------------------------------------------------------------
(* MeasurementStore.__init__ and _init_schema.                              *)

Open(p) ==
  /\ pc[p] = "closed"
  /\ Goto(p, "script")
  /\ UNCHANGED <<file, writer, txn, reading>>

(* executescript commits each CREATE TABLE IF NOT EXISTS by itself.         *)
CreateTable(p) ==
  /\ pc[p] = "script"
  /\ tables < Len(Schema)
  /\ writer = Nobody
  /\ tables' = tables + 1
  /\ UNCHANGED <<versions, runRows, points, writer, pc, txn, reading>>

(* Mutant: the script is taken for done once its first table is there.      *)
ScriptEndsEarly(p) ==
  /\ pc[p] = "script"
  /\ tables > 0
  /\ Goto(p, "version")
  /\ UNCHANGED <<file, writer, txn, reading>>

ScriptEnds(p) ==
  /\ pc[p] = "script"
  /\ tables = Len(Schema)
  /\ Goto(p, "version")
  /\ UNCHANGED <<file, writer, txn, reading>>

(* SELECT version, outside a transaction: its answer can be out of date by  *)
(* the time the row is inserted.                                            *)
ReadVersion(p) ==
  /\ pc[p] = "version"
  /\ Goto(p, IF versions = <<>> THEN "stamp" ELSE "ready")
  /\ UNCHANGED <<file, writer, txn, reading>>

InsertVersion(p) ==
  /\ pc[p] = "stamp"
  /\ writer = Nobody
  /\ writer' = p
  /\ Goto(p, "stamped")
  /\ UNCHANGED <<file, txn, reading>>

CommitVersion(p) ==
  /\ pc[p] = "stamped"
  /\ versions' = Append(versions, 1)
  /\ writer' = Nobody
  /\ Goto(p, "ready")
  /\ UNCHANGED <<tables, runRows, points, txn, reading>>

-----------------------------------------------------------------------------
(* record: the row of the run, its points, commit.                          *)

(* The bound MaxRuns counts the runs being recorded too, so that it never   *)
(* stops a record that has begun.                                           *)
Recording == {p \in Procs : pc[p] \in {"insert", "points"}}

BeginRecord(p) ==
  /\ pc[p] = "ready"
  /\ Len(runRows) + Cardinality(Recording) < MaxRuns
  /\ \E n \in PointCounts : plan' = [plan EXCEPT ![p] = n]
  /\ Goto(p, "insert")
  /\ UNCHANGED <<file, writer, written, reading>>

InsertRun(p) ==
  /\ pc[p] = "insert"
  /\ writer = Nobody
  /\ writer' = p
  /\ written' = [written EXCEPT ![p] = 0]
  /\ Goto(p, "points")
  /\ UNCHANGED <<file, plan, reading>>

InsertPoint(p) ==
  /\ pc[p] = "points"
  /\ written[p] < plan[p]
  /\ written' = [written EXCEPT ![p] = @ + 1]
  /\ UNCHANGED <<file, writer, pc, plan, reading>>

(* Mutant: the run is committed before all of its points are written.       *)
CommitEarly(p) ==
  /\ pc[p] = "points"
  /\ runRows' = Append(runRows, plan[p])
  /\ points' = [points EXCEPT ![Len(runRows) + 1] = written[p]]
  /\ writer' = Nobody
  /\ Goto(p, "ready")
  /\ Forget(p)
  /\ UNCHANGED <<tables, versions, counted>>

(* Mutant: the commit waits for one row more than there are points.         *)
CommitNever(p) ==
  /\ pc[p] = "points"
  /\ written[p] > plan[p]
  /\ runRows' = Append(runRows, plan[p])
  /\ points' = [points EXCEPT ![Len(runRows) + 1] = written[p]]
  /\ writer' = Nobody
  /\ Goto(p, "ready")
  /\ Forget(p)
  /\ UNCHANGED <<tables, versions, counted>>

(* conn.commit() at the end of _connect: run and points become visible.     *)
Commit(p) ==
  /\ pc[p] = "points"
  /\ written[p] = plan[p]
  /\ runRows' = Append(runRows, plan[p])
  /\ points' = [points EXCEPT ![Len(runRows) + 1] = written[p]]
  /\ writer' = Nobody
  /\ Goto(p, "ready")
  /\ Forget(p)
  /\ UNCHANGED <<tables, versions, counted>>

-----------------------------------------------------------------------------
(* runs and count: several SELECTs, none of them in a transaction.          *)

SelectRuns(p) ==
  /\ pc[p] = "ready"
  /\ seen' = [seen EXCEPT ![p] = Len(runRows)]
  /\ listed' = [listed EXCEPT ![p] = <<>>]
  /\ Goto(p, "listing")
  /\ UNCHANGED <<file, writer, txn, counted>>

SelectPoints(p) ==
  /\ pc[p] = "listing"
  /\ Len(listed[p]) < seen[p]
  /\ listed' = [listed EXCEPT ![p] = Append(@, points[Len(@) + 1])]
  /\ UNCHANGED <<file, writer, pc, txn, seen, counted>>

ListingEnds(p) ==
  /\ pc[p] = "listing"
  /\ Len(listed[p]) = seen[p]
  /\ Goto(p, "ready")
  /\ Forget(p)
  /\ UNCHANGED <<file, writer, counted>>

CountRuns(p) ==
  /\ pc[p] = "ready"
  /\ seen' = [seen EXCEPT ![p] = Len(runRows)]
  /\ Goto(p, "counting")
  /\ UNCHANGED <<file, writer, txn, listed, counted>>

(* Mutant: the points are counted first and the runs after them.            *)
CountPointsFirst(p) ==
  /\ pc[p] = "counting"
  /\ counted' = [counted EXCEPT ![p] = <<Len(runRows), Total(points, seen[p])>>]
  /\ Goto(p, "ready")
  /\ Forget(p)
  /\ UNCHANGED <<file, writer>>

CountPoints(p) ==
  /\ pc[p] = "counting"
  /\ counted' = [counted EXCEPT ![p] = <<seen[p], Total(points, MaxRuns)>>]
  /\ Goto(p, "ready")
  /\ Forget(p)
  /\ UNCHANGED <<file, writer>>

-----------------------------------------------------------------------------
(* What can go wrong.                                                       *)

(* "database is locked": a write found the lock taken for longer than the   *)
(* busy time-out.  Opening or recording raises; nothing was written.        *)
Busy(p) ==
  /\ writer \notin {Nobody, p}
  /\ pc[p] \in {"stamp", "insert"}
  /\ Goto(p, IF pc[p] = "insert" THEN "ready" ELSE "closed")
  /\ Forget(p)
  /\ UNCHANGED <<file, writer, counted>>

Opening == {"script", "version", "stamp", "stamped"}
Called  == {"insert", "points", "listing", "counting"}

(* Mutant: conn.commit() in the finally clause of _connect.                 *)
RaiseCommits(p) ==
  /\ pc[p] = "points"
  /\ runRows' = Append(runRows, plan[p])
  /\ points' = [points EXCEPT ![Len(runRows) + 1] = written[p]]
  /\ writer' = Nobody
  /\ Goto(p, "ready")
  /\ Forget(p)
  /\ UNCHANGED <<tables, versions, counted>>

(* Any statement of a call, or its commit, raises: conn.close() in the      *)
(* finally clause rolls back what the call had written.                     *)
Raise(p) ==
  /\ pc[p] \in Opening \cup Called
  /\ writer' = IF writer = p THEN Nobody ELSE writer
  /\ Goto(p, IF pc[p] \in Called THEN "ready" ELSE "closed")
  /\ Forget(p)
  /\ UNCHANGED <<file, counted>>

(* The process dies, and may be started again.  The journal rolls back what *)
(* it had not committed.                                                    *)
Crash(p) ==
  /\ pc[p] # "closed"
  /\ writer' = IF writer = p THEN Nobody ELSE writer
  /\ Goto(p, "closed")
  /\ Forget(p)
  /\ UNCHANGED <<file, counted>>

Step(p) ==
  \/ Open(p) \/ CreateTable(p) \/ ScriptEnds(p)
  \/ ReadVersion(p) \/ InsertVersion(p) \/ CommitVersion(p)
  \/ InsertRun(p) \/ InsertPoint(p) \/ Commit(p)
  \/ SelectPoints(p) \/ ListingEnds(p) \/ CountPoints(p)
  \/ Busy(p)

Call(p) == BeginRecord(p) \/ SelectRuns(p) \/ CountRuns(p)

Fault(p) == Raise(p) \/ Crash(p)

Next == \E p \in Procs : Step(p) \/ Call(p) \/ Fault(p)

Spec == Init /\ [][Next]_vars

(* A process that runs goes on running; nobody has to call the store.       *)
FairSpec == Spec /\ \A p \in Procs : WF_vars(Step(p))

-----------------------------------------------------------------------------
(* Properties.                                                              *)

(* runs() reads the points of each run by a SELECT of its own, while others *)
(* record; still every run it has listed is listed with all its points.     *)
ListingWhole ==
  \A p \in Procs :
    pc[p] = "listing" => listed[p] = SubSeq(runRows, 1, Len(listed[p]))

(* No process works on the file before the whole schema exists, though      *)
(* executescript commits its tables one by one and may be cut short.        *)
SchemaBeforeUse ==
  /\ \A p \in Procs : pc[p] \notin {"closed", "script"} => tables = Len(Schema)
  /\ runRows # <<>> => versions # <<>>

(* count() never reports fewer points than the runs it reports have.        *)
CountCoversRuns ==
  \A p \in Procs :
    /\ counted[p][1] <= Len(runRows)
    /\ counted[p][2] >= Total(runRows, counted[p][1])

(* Opening and recording always come to an end, for whatever the others do: *)
(* the write lock is never kept by a process that went away.                *)
CallsEnd ==
  \A p \in Procs : pc[p] \in {"script", "insert"} ~> pc[p] \in {"ready", "closed"}

(* A run and its points enter the file together: whatever process dies or   *)
(* fails in the middle of record, the file is an append-only log of whole   *)
(* runs.                                                                    *)
Log == INSTANCE RunLog WITH
  log <- [i \in DOMAIN runRows |-> [measured |-> runRows[i], stored |-> points[i]]]
KeepsRunLog == Log!Spec
=============================================================================
