----------------------------- MODULE StoreProofs -----------------------------
(***************************************************************************)
(* What the measurement store promises, proved for every set of processes  *)
(* that share the file and every bound on the runs in it: the file is an   *)
(* append-only log of whole runs, a listing shows whole runs, a count covers *)
(* the runs it counts, and nobody works on a file without its schema.      *)
(***************************************************************************)
EXTENDS Store, Sums, SequenceTheorems

Working == {"ready"} \cup Called
Places  == {"closed"} \cup Opening \cup Working

(* The shape of the file and of the locals that runs depend on.             *)
Shape ==
  /\ tables \in 0 .. 3
  /\ versions \in Seq(Nat)
  /\ runRows \in Seq(Nat)
  /\ points \in [Ids(MaxRuns) -> Nat]
  /\ pc \in [Procs -> Places]
  /\ plan \in [Procs -> Nat]
  /\ written \in [Procs -> Nat]
  /\ seen \in [Procs -> Nat]
  /\ listed \in [Procs -> Seq(Nat)]

(* Room for every run being recorded, the number of its points settled.     *)
Room ==
  /\ Len(runRows) + Cardinality(Recording) <= MaxRuns
  /\ \A p \in Recording : plan[p] \in PointCounts

(* A run in the file has its points.                                        *)
Whole == \A i \in 1 .. Len(runRows) : points[i] = runRows[i]

(* The schema is there before the file is used, and the version before the  *)
(* store is.                                                                *)
Stamped ==
  /\ \A p \in Procs : pc[p] \notin {"closed", "script"} => tables = 3
  /\ \A p \in Procs : pc[p] \in Working => versions # <<>>
  /\ runRows # <<>> => versions # <<>>

(* A listing has read the points of runs that were in the file when it      *)
(* began, in the order of their ids.                                        *)
Listed ==
  \A p \in Procs : pc[p] = "listing" =>
    /\ seen[p] <= Len(runRows)
    /\ Len(listed[p]) <= seen[p]
    /\ \A i \in 1 .. Len(listed[p]) : listed[p][i] = runRows[i]

IInv == Shape /\ Room /\ Whole /\ Stamped /\ Listed

-----------------------------------------------------------------------------
LEMMA SchemaLength == Len(Schema) = 3
BY DEF Schema

LEMMA RecordingFinite ==
  /\ IsFiniteSet(Recording)
  /\ Cardinality(Recording) \in Nat
<1>1. Recording \subseteq Procs
  BY DEF Recording
<1>2. QED
  BY <1>1, StoreAssumption, FS_Subset, FS_CardinalityType

LEMMA Appended ==
  ASSUME NEW s \in Seq(Nat), NEW n \in Nat
  PROVE  /\ Append(s, n) \in Seq(Nat)
         /\ Append(s, n) # <<>>
         /\ Len(s) \in Nat
         /\ Len(Append(s, n)) = Len(s) + 1
         /\ Append(s, n)[Len(s) + 1] = n
         /\ \A i \in 1 .. Len(s) : Append(s, n)[i] = s[i]
BY AppendProperties, LenProperties

LEMMA Moved ==
  ASSUME NEW p \in Procs, NEW to \in Places, pc \in [Procs -> Places],
         pc' = [pc EXCEPT ![p] = to]
  PROVE  /\ pc' \in [Procs -> Places]
         /\ pc'[p] = to
         /\ \A q \in Procs : q # p => pc'[q] = pc[q]
OBVIOUS

LEMMA InitHolds == Init => IInv
<1> SUFFICES ASSUME Init PROVE IInv
  OBVIOUS
<1>1. Shape
  BY DEF Init, Shape, Places
<1>2. Recording = {}
  BY DEF Init, Recording
<1>3. Room
  BY <1>2, FS_EmptySet, StoreAssumption DEF Init, Room
<1>4. Whole /\ Stamped /\ Listed
  BY DEF Init, Whole, Stamped, Listed, Working, Called
<1>5. QED
  BY <1>1, <1>3, <1>4 DEF IInv

-----------------------------------------------------------------------------
(* Steps that leave the runs in the file alone.                             *)

(* The runs being recorded are as many as before, or fewer, when no process *)
(* begins one.                                                              *)
LEMMA NoneBegun ==
  ASSUME NEW p \in Procs, pc \in [Procs -> Places],
         \/ pc' = pc
         \/ \E to : pc' = [pc EXCEPT ![p] = to] /\ (to \in {"insert", "points"} => p \in Recording)
  PROVE  /\ Recording' \subseteq Recording
         /\ Cardinality(Recording') \in Nat
         /\ Cardinality(Recording') <= Cardinality(Recording)
<1>1. Recording' \subseteq Recording
  BY DEF Recording
<1>2. QED
  BY <1>1, RecordingFinite, FS_Subset, FS_CardinalityType

LEMMA RoomKept ==
  ASSUME Room, runRows \in Seq(Nat), runRows' = runRows,
         Recording' \subseteq Recording,
         Cardinality(Recording') \in Nat, Cardinality(Recording') <= Cardinality(Recording),
         \A q \in Recording' : plan'[q] = plan[q]
  PROVE  Room'
<1>1. Len(runRows) + Cardinality(Recording') <= MaxRuns
  BY LenProperties, RecordingFinite, StoreAssumption DEF Room
<1>2. \A q \in Recording' : plan'[q] \in PointCounts
  BY DEF Room
<1>3. QED
  BY <1>1, <1>2 DEF Room

(* Opening a store: the schema table by table, then its version.            *)
LEMMA OpeningKeeps ==
  ASSUME IInv, NEW p \in Procs,
         \/ Open(p) \/ CreateTable(p) \/ ScriptEnds(p)
         \/ ReadVersion(p) \/ InsertVersion(p) \/ CommitVersion(p)
  PROVE  IInv'
<1> USE SchemaLength DEF IInv, Shape, Goto, Opening, Working, Called, Places, txn, reading, file
<1>1. UNCHANGED <<runRows, points, plan, written, seen, listed>>
  BY DEF Open, CreateTable, ScriptEnds, ReadVersion, InsertVersion, CommitVersion
<1>2. /\ tables' \in tables .. 3
      /\ versions' \in Seq(Nat)
      /\ versions # <<>> => versions' # <<>>
  <2>1. CASE CommitVersion(p)
    <3>1. versions' = Append(versions, 1) /\ tables' = tables
      BY <2>1 DEF CommitVersion
    <3>2. Append(versions, 1) \in Seq(Nat) /\ Append(versions, 1) # <<>>
      BY Appended DEF IInv, Shape
    <3>3. QED
      BY <3>1, <3>2
  <2>2. CASE \/ Open(p) \/ CreateTable(p) \/ ScriptEnds(p) \/ ReadVersion(p) \/ InsertVersion(p)
    BY <2>2 DEF Open, CreateTable, ScriptEnds, ReadVersion, InsertVersion
  <2>3. QED
    BY <2>1, <2>2
<1>3. \/ pc' = pc
      \/ \E to \in {"script", "version", "stamp", "stamped", "ready"} :
           pc' = [pc EXCEPT ![p] = to] /\ p \notin Recording
  BY DEF Open, CreateTable, ScriptEnds, ReadVersion, InsertVersion, CommitVersion, Recording
<1>4. Shape'
  <2>1. pc' \in [Procs -> Places]
    BY <1>3, Moved DEF Places
  <2>2. QED
    BY <1>1, <1>2, <2>1
<1>5. Room'
  <2>1. Recording' \subseteq Recording /\ Cardinality(Recording') \in Nat
        /\ Cardinality(Recording') <= Cardinality(Recording)
    BY <1>3, NoneBegun
  <2>2. QED
    BY <1>1, <2>1, RoomKept
<1>6. Whole' /\ Listed'
  BY <1>1, <1>3 DEF Whole, Listed
<1>7. Stamped'
  <2>1. CASE Open(p)
    <3>1. /\ pc' = [pc EXCEPT ![p] = "script"]
          /\ tables' = tables /\ versions' = versions /\ runRows' = runRows
      BY <2>1 DEF Open
    <3>2. QED
      BY <3>1, Moved DEF Stamped
  <2>2. CASE CreateTable(p)
    <3>1. tables # 3 /\ pc' = pc /\ versions' = versions /\ runRows' = runRows
      BY <2>2 DEF CreateTable
    <3>2. QED
      BY <3>1 DEF Stamped
  <2>3. CASE ScriptEnds(p)
    BY <1>1, <1>2, <2>3 DEF Stamped, ScriptEnds
  <2>4. CASE ReadVersion(p) \/ InsertVersion(p)
    BY <1>1, <1>2, <2>4 DEF Stamped, ReadVersion, InsertVersion
  <2>5. CASE CommitVersion(p)
    <3>1. versions' # <<>>
      BY <2>5, Appended DEF CommitVersion
    <3>2. QED
      BY <1>1, <1>2, <2>5, <3>1 DEF Stamped, CommitVersion
  <2>6. QED
    BY <2>1, <2>2, <2>3, <2>4, <2>5
<1>8. QED
  BY <1>4, <1>5, <1>6, <1>7

(* A record before its commit: everything happens in the process.           *)
LEMMA RecordingKeeps ==
  ASSUME IInv, NEW p \in Procs, BeginRecord(p) \/ InsertRun(p) \/ InsertPoint(p)
  PROVE  IInv'
<1> USE DEF IInv, Shape, Goto, Opening, Working, Called, Places, txn, reading, file
<1>1. UNCHANGED <<tables, versions, runRows, points, seen, listed>>
  BY DEF BeginRecord, InsertRun, InsertPoint
<1>2. Shape'
  <2>1. pc' \in [Procs -> Places]
    BY Moved DEF BeginRecord, InsertRun, InsertPoint
  <2>2. plan' \in [Procs -> Nat]
    BY StoreAssumption DEF BeginRecord, InsertRun, InsertPoint
  <2>3. written' \in [Procs -> Nat]
    <3>1. \/ written' = written
          \/ \E n \in Nat : written' = [written EXCEPT ![p] = n]
      <4>1. written[p] + 1 \in Nat /\ 0 \in Nat
        OBVIOUS
      <4>2. QED
        BY <4>1 DEF BeginRecord, InsertRun, InsertPoint
    <3>2. QED
      BY <3>1
  <2>4. QED
    BY <1>1, <2>1, <2>2, <2>3
<1>3. Room'
  <2>1. CASE BeginRecord(p)
    <3>1. p \notin Recording /\ Recording' = Recording \cup {p}
      BY <2>1 DEF BeginRecord, Recording
    <3>2. Cardinality(Recording') = Cardinality(Recording) + 1
      BY <3>1, RecordingFinite, FS_AddElement
    <3>3. \A q \in Recording' : plan'[q] \in PointCounts
      BY <2>1, <3>1 DEF BeginRecord, Room, Recording
    <3>4. QED
      BY <1>1, <2>1, <3>2, <3>3, RecordingFinite, StoreAssumption DEF BeginRecord, Room
  <2>2. CASE InsertRun(p) \/ InsertPoint(p)
    <3>1. Recording' = Recording /\ plan' = plan
      BY <2>2 DEF InsertRun, InsertPoint, Recording
    <3>2. QED
      BY <1>1, <3>1 DEF Room
  <2>3. QED
    BY <2>1, <2>2
<1>4. Whole' /\ Listed' /\ Stamped'
  BY <1>1 DEF Whole, Listed, Stamped, BeginRecord, InsertRun, InsertPoint
<1>5. QED
  BY <1>2, <1>3, <1>4

(* Commit: the run and its points enter the file together.                  *)
LEMMA CommitAppends ==
  ASSUME IInv, NEW p \in Procs, Commit(p)
  PROVE  /\ plan[p] \in PointCounts
         /\ Len(runRows) + 1 <= MaxRuns
         /\ plan[p] \in Nat
         /\ runRows' \in Seq(Nat)
         /\ Len(runRows') = Len(runRows) + 1
         /\ runRows'[Len(runRows')] = plan[p]
         /\ points'[Len(runRows')] = plan[p]
         /\ \A i \in 1 .. Len(runRows) : runRows'[i] = runRows[i] /\ points'[i] = points[i]
         /\ points' \in [Ids(MaxRuns) -> Nat]
         /\ Recording' = Recording \ {p}
<1> USE DEF IInv, Shape
<1>1. pc[p] = "points" /\ p \in Recording
  BY DEF Commit, Recording
<1>2. plan[p] \in PointCounts
  BY <1>1 DEF Room
<1>3. Cardinality(Recording) # 0
  BY <1>1, RecordingFinite, FS_EmptySet
<1>4. Len(runRows) \in Nat /\ Len(runRows) + 1 <= MaxRuns
  BY <1>3, RecordingFinite, StoreAssumption DEF Room
<1>5. runRows' = Append(runRows, plan[p])
      /\ points' = [points EXCEPT ![Len(runRows) + 1] = written[p]] /\ written[p] = plan[p]
  BY DEF Commit
<1>6. /\ runRows' \in Seq(Nat)
      /\ Len(runRows') = Len(runRows) + 1
      /\ runRows'[Len(runRows) + 1] = plan[p]
      /\ \A i \in 1 .. Len(runRows) : runRows'[i] = runRows[i]
  BY <1>2, <1>5, StoreAssumption, Appended
<1>7. Len(runRows) + 1 \in Ids(MaxRuns)
  BY <1>4, StoreAssumption DEF Ids
<1>8. /\ points'[Len(runRows) + 1] = plan[p]
      /\ \A i \in 1 .. Len(runRows) : points'[i] = points[i]
      /\ points' \in [Ids(MaxRuns) -> Nat]
  BY <1>4, <1>5, <1>7 DEF Ids
<1>9. Recording' = Recording \ {p}
  BY <1>1 DEF Commit, Goto, Recording
<1>10. QED
  BY <1>2, <1>4, <1>6, <1>8, <1>9

LEMMA CommitKeeps ==
  ASSUME IInv, NEW p \in Procs, Commit(p)
  PROVE  IInv'
<1> USE DEF IInv, Shape
<1>1. /\ pc[p] = "points" /\ pc' = [pc EXCEPT ![p] = "ready"]
      /\ tables' = tables /\ versions' = versions
  BY DEF Commit, Goto
<1>2. /\ plan' = [plan EXCEPT ![p] = 0]
      /\ written' = [written EXCEPT ![p] = 0]
      /\ seen' = [seen EXCEPT ![p] = 0]
      /\ listed' = [listed EXCEPT ![p] = <<>>]
  BY DEF Commit, Forget
<1>3. pc' \in [Procs -> Places] /\ pc'[p] = "ready" /\ \A q \in Procs : q # p => pc'[q] = pc[q]
  BY <1>1, Moved DEF Places, Working
<1>4. /\ Len(runRows) \in Nat /\ Len(runRows') = Len(runRows) + 1
      /\ Len(runRows) + 1 <= MaxRuns
      /\ runRows' \in Seq(Nat) /\ points' \in [Ids(MaxRuns) -> Nat]
      /\ runRows'[Len(runRows) + 1] = plan[p] /\ points'[Len(runRows) + 1] = plan[p]
      /\ \A i \in 1 .. Len(runRows) : runRows'[i] = runRows[i] /\ points'[i] = points[i]
      /\ Recording' = Recording \ {p}
  BY CommitAppends, LenProperties
<1>5. Shape'
  BY <1>1, <1>2, <1>3, <1>4
<1>6. Room'
  <2>1. p \in Recording
    BY <1>1 DEF Recording
  <2>2. Cardinality(Recording') = Cardinality(Recording) - 1
    BY <1>4, <2>1, RecordingFinite, FS_RemoveElement
  <2>3. \A q \in Recording' : q \in Recording /\ plan'[q] = plan[q]
    BY <1>2, <1>4 DEF Recording
  <2>4. Len(runRows') + Cardinality(Recording') <= MaxRuns
    BY <1>4, <2>2, RecordingFinite, StoreAssumption DEF Room
  <2>5. QED
    BY <2>3, <2>4 DEF Room
<1>7. Whole'
  <2>1. \A i \in 1 .. Len(runRows') : i \in 1 .. Len(runRows) \/ i = Len(runRows) + 1
    BY <1>4
  <2>2. QED
    BY <1>4, <2>1 DEF Whole
<1>8. Listed'
  <2> SUFFICES ASSUME NEW q \in Procs, pc'[q] = "listing"
               PROVE  /\ seen'[q] <= Len(runRows')
                      /\ Len(listed'[q]) <= seen'[q]
                      /\ \A i \in 1 .. Len(listed'[q]) : listed'[q][i] = runRows'[i]
    BY DEF Listed
  <2>1. pc[q] = "listing" /\ seen'[q] = seen[q] /\ listed'[q] = listed[q]
    BY <1>2, <1>3
  <2>2. seen[q] \in Nat /\ Len(listed[q]) \in Nat
    BY LenProperties
  <2>3. QED
    BY <1>4, <2>1, <2>2 DEF Listed
<1>9. Stamped'
  <2>1. tables = 3 /\ versions # <<>>
    BY <1>1 DEF Stamped, Working, Called
  <2>2. QED
    BY <1>1, <2>1 DEF Stamped
<1>10. QED
  BY <1>5, <1>6, <1>7, <1>8, <1>9

(* Listing and counting only read the file.                                 *)
LEMMA ReadingKeeps ==
  ASSUME IInv, NEW p \in Procs,
         \/ SelectRuns(p) \/ SelectPoints(p) \/ ListingEnds(p)
         \/ CountRuns(p) \/ CountPoints(p)
  PROVE  IInv'
<1> USE DEF IInv, Shape
<1>1. tables' = tables /\ versions' = versions /\ runRows' = runRows /\ points' = points
  BY DEF SelectRuns, SelectPoints, ListingEnds, CountRuns, CountPoints, file
<1>2. PICK to \in {"ready", "listing", "counting"} : pc' = [pc EXCEPT ![p] = to]
  BY DEF SelectRuns, SelectPoints, ListingEnds, CountRuns, CountPoints, Goto
<1>3. pc[p] \in {"ready", "listing", "counting"}
  BY DEF SelectRuns, SelectPoints, ListingEnds, CountRuns, CountPoints
<1>4. pc' \in [Procs -> Places] /\ pc'[p] = to /\ \A q \in Procs : q # p => pc'[q] = pc[q]
  BY <1>2, Moved DEF Places, Working, Called
<1>5. \/ plan' = plan /\ written' = written
      \/ plan' = [plan EXCEPT ![p] = 0] /\ written' = [written EXCEPT ![p] = 0]
  BY DEF SelectRuns, SelectPoints, ListingEnds, CountRuns, CountPoints, Forget, txn
<1>6. Room'
  <2>1. Recording' \subseteq Recording /\ p \notin Recording'
    BY <1>4 DEF Recording
  <2>2. Cardinality(Recording') \in Nat /\ Cardinality(Recording') <= Cardinality(Recording)
    BY <2>1, RecordingFinite, FS_Subset, FS_CardinalityType
  <2>3. \A q \in Recording' : plan'[q] = plan[q]
    BY <1>5, <2>1 DEF Recording
  <2>4. QED
    BY <1>1, <2>1, <2>2, <2>3, RoomKept
<1>7. Whole' /\ Stamped'
  <2>1. pc[p] \notin {"closed", "script"} /\ pc[p] \in Working
    BY <1>3 DEF Working, Called
  <2>2. tables = 3 /\ versions # <<>>
    BY <2>1 DEF Stamped
  <2>3. QED
    BY <1>1, <2>2 DEF Whole, Stamped
<1>8. seen' \in [Procs -> Nat] /\ listed' \in [Procs -> Seq(Nat)] /\ Listed'
  <2>0. Len(runRows) \in Nat /\ \A q \in Procs : Len(listed[q]) \in Nat /\ seen[q] \in Nat
    BY LenProperties
  <2>1. CASE SelectPoints(p)
    <3> DEFINE n == Len(listed[p])
    <3>1. /\ pc[p] = "listing" /\ n < seen[p] /\ seen' = seen
          /\ listed' = [listed EXCEPT ![p] = Append(listed[p], points[n + 1])]
      BY <2>1 DEF SelectPoints
    <3>2. n + 1 \in 1 .. Len(runRows)
      BY <2>0, <3>1 DEF Listed
    <3>3. points[n + 1] = runRows[n + 1] /\ points[n + 1] \in Nat
      BY <3>2, ElementOfSeq DEF Whole
    <3>4. /\ Append(listed[p], points[n + 1]) \in Seq(Nat)
          /\ Len(Append(listed[p], points[n + 1])) = n + 1
          /\ Append(listed[p], points[n + 1])[n + 1] = runRows[n + 1]
          /\ \A i \in 1 .. n : Append(listed[p], points[n + 1])[i] = listed[p][i]
      BY <3>3, Appended
    <3> HIDE DEF n
    <3>5. listed' \in [Procs -> Seq(Nat)]
      BY <3>1, <3>4
    <3> SUFFICES ASSUME NEW q \in Procs, pc'[q] = "listing"
                 PROVE  /\ seen'[q] <= Len(runRows')
                        /\ Len(listed'[q]) <= seen'[q]
                        /\ \A i \in 1 .. Len(listed'[q]) : listed'[q][i] = runRows'[i]
      BY <3>1, <3>5 DEF Listed
    <3>6. CASE q = p
      <4>1. listed'[q] = Append(listed[p], points[n + 1]) /\ seen'[q] = seen[p]
        BY <3>1, <3>6
      <4>2. seen[p] <= Len(runRows) /\ \A i \in 1 .. n : listed[p][i] = runRows[i]
        BY <3>1 DEF Listed, n
      <4>3. \A i \in 1 .. n + 1 : i \in 1 .. n \/ i = n + 1
        BY <2>0 DEF n
      <4>4. n + 1 <= seen[p]
        BY <2>0, <3>1 DEF n
      <4>5. QED
        BY <1>1, <3>4, <4>1, <4>2, <4>3, <4>4
    <3>7. CASE q # p
      BY <1>1, <1>4, <3>1, <3>7 DEF Listed
    <3>8. QED
      BY <3>6, <3>7
  <2>2. CASE SelectRuns(p) \/ ListingEnds(p) \/ CountRuns(p) \/ CountPoints(p)
    <3>1. \/ listed' = listed /\ to # "listing"
          \/ listed' = [listed EXCEPT ![p] = <<>>]
      <4>1. CASE CountRuns(p)
        <5>1. pc' = [pc EXCEPT ![p] = "counting"] /\ listed' = listed
          BY <4>1 DEF CountRuns, Goto
        <5>2. QED
          BY <1>4, <5>1
      <4>2. CASE SelectRuns(p) \/ ListingEnds(p) \/ CountPoints(p)
        BY <4>2 DEF SelectRuns, ListingEnds, CountPoints, Forget
      <4>3. QED
        BY <2>2, <4>1, <4>2
    <3>2. PICK k \in {0, Len(runRows)} : seen' = [seen EXCEPT ![p] = k]
      BY <2>2 DEF SelectRuns, ListingEnds, CountRuns, CountPoints, Forget
    <3>3. listed' \in [Procs -> Seq(Nat)] /\ seen' \in [Procs -> Nat]
      <4>1. <<>> \in Seq(Nat) /\ k \in Nat
        BY <2>0
      <4>2. listed' \in [Procs -> Seq(Nat)]
        BY <3>1, <4>1
      <4>3. QED
        BY <3>2, <4>1, <4>2
    <3>4. \A q \in Procs : q # p => listed'[q] = listed[q] /\ seen'[q] = seen[q]
      BY <3>1, <3>2
    <3>5. to = "listing" => listed'[p] = <<>> /\ seen'[p] \in 0 .. Len(runRows)
      BY <2>0, <3>1, <3>2
    <3> SUFFICES ASSUME NEW q \in Procs, pc'[q] = "listing"
                 PROVE  /\ seen'[q] <= Len(runRows')
                        /\ Len(listed'[q]) <= seen'[q]
                        /\ \A i \in 1 .. Len(listed'[q]) : listed'[q][i] = runRows'[i]
      BY <3>3 DEF Listed
    <3>6. CASE q = p
      <4>1. listed'[q] = <<>> /\ seen'[q] \in 0 .. Len(runRows)
        BY <1>4, <3>5, <3>6
      <4>2. QED
        BY <1>1, <2>0, <4>1
    <3>7. CASE q # p
      BY <1>1, <1>4, <3>4, <3>7 DEF Listed
    <3>8. QED
      BY <3>6, <3>7
  <2>3. QED
    BY <2>1, <2>2
<1>9. Shape'
  <2>1. plan' \in [Procs -> Nat] /\ written' \in [Procs -> Nat]
    BY <1>5
  <2>2. QED
    BY <1>1, <1>4, <1>8, <2>1
<1>10. QED
  BY <1>6, <1>7, <1>8, <1>9

(* A call that raises, a time-out and a crash leave the file as it was.     *)
LEMMA FaultKeeps ==
  ASSUME IInv, NEW p \in Procs, Busy(p) \/ Raise(p) \/ Crash(p)
  PROVE  IInv'
<1> USE DEF IInv, Shape
<1>1. tables' = tables /\ versions' = versions /\ runRows' = runRows /\ points' = points
  BY DEF Busy, Raise, Crash, file
<1>2. /\ plan' = [plan EXCEPT ![p] = 0] /\ written' = [written EXCEPT ![p] = 0]
      /\ seen' = [seen EXCEPT ![p] = 0] /\ listed' = [listed EXCEPT ![p] = <<>>]
  BY DEF Busy, Raise, Crash, Forget
<1>3. PICK to \in {"closed", "ready"} :
        pc' = [pc EXCEPT ![p] = to] /\ (to = "ready" => pc[p] \in Called)
  BY DEF Busy, Raise, Crash, Goto, Called
<1>4. pc' \in [Procs -> Places] /\ pc'[p] = to /\ \A q \in Procs : q # p => pc'[q] = pc[q]
  BY <1>3, Moved DEF Places, Working
<1>5. Shape'
  <2>1. <<>> \in Seq(Nat) /\ 0 \in Nat
    OBVIOUS
  <2>2. listed' \in [Procs -> Seq(Nat)] /\ seen' \in [Procs -> Nat]
    BY <1>2, <2>1
  <2>3. plan' \in [Procs -> Nat] /\ written' \in [Procs -> Nat]
    BY <1>2, <2>1
  <2>4. QED
    BY <1>1, <1>4, <2>2, <2>3
<1>6. Room'
  <2>1. Recording' \subseteq Recording /\ p \notin Recording'
    BY <1>4 DEF Recording
  <2>2. Cardinality(Recording') \in Nat /\ Cardinality(Recording') <= Cardinality(Recording)
    BY <2>1, RecordingFinite, FS_Subset, FS_CardinalityType
  <2>3. \A q \in Recording' : plan'[q] = plan[q]
    BY <1>2, <2>1 DEF Recording
  <2>4. QED
    BY <1>1, <2>1, <2>2, <2>3, RoomKept
<1>7. Whole' /\ Listed'
  BY <1>1, <1>2, <1>4 DEF Whole, Listed
<1>8. Stamped'
  <2>1. to = "ready" => tables = 3 /\ versions # <<>>
    BY <1>3 DEF Stamped, Working, Called
  <2>2. to = "closed" => to \notin Working
    BY DEF Working, Called
  <2>3. QED
    BY <1>1, <1>4, <2>1, <2>2 DEF Stamped
<1>9. QED
  BY <1>5, <1>6, <1>7, <1>8

LEMMA Inductive == Spec => []IInv
<1>1. IInv /\ [Next]_vars => IInv'
  <2> SUFFICES ASSUME IInv, [Next]_vars PROVE IInv'
    OBVIOUS
  <2>1. CASE UNCHANGED vars
    BY <2>1 DEF vars, file, txn, reading, IInv, Shape, Room, Recording, Whole, Stamped, Listed
  <2>2. ASSUME NEW p \in Procs, Step(p) \/ Call(p) \/ Fault(p) PROVE IInv'
    BY <2>2, OpeningKeeps, RecordingKeeps, CommitKeeps, ReadingKeeps, FaultKeeps
       DEF Step, Call, Fault
  <2>3. QED
    BY <2>1, <2>2 DEF Next
<1>2. QED
  BY <1>1, InitHolds, PTL DEF Spec

-----------------------------------------------------------------------------
(* Every run a listing has read so far is in it with all its points,        *)
(* however many processes record meanwhile.                                 *)
THEOREM ListingsWhole == Spec => []ListingWhole
<1>1. IInv => ListingWhole
  <2> SUFFICES ASSUME IInv, NEW p \in Procs, pc[p] = "listing"
               PROVE  listed[p] = SubSeq(runRows, 1, Len(listed[p]))
    BY DEF ListingWhole
  <2>1. /\ listed[p] \in Seq(Nat) /\ runRows \in Seq(Nat)
        /\ Len(listed[p]) <= Len(runRows)
        /\ \A i \in 1 .. Len(listed[p]) : listed[p][i] = runRows[i]
    BY StoreAssumption DEF IInv, Shape, Listed
  <2> DEFINE n == Len(listed[p])
             first == SubSeq(runRows, 1, n)
  <2>2. n \in Nat /\ \A i \in 1 .. n : runRows[i] \in Nat
    BY <2>1, LenProperties
  <2>3. first \in Seq(Nat) /\ Len(first) = n /\ \A i \in 1 .. n : first[i] = runRows[i]
    <3>1. /\ first \in Seq(Nat)
          /\ Len(first) = IF 1 <= n THEN n - 1 + 1 ELSE 0
          /\ \A i \in 1 .. n - 1 + 1 : first[i] = runRows[1 + i - 1]
      BY <2>2, SubSeqProperties
    <3>2. QED
      BY <2>2, <3>1
  <2>4. QED
    BY <2>1, <2>2, <2>3, SeqEqual
<1>2. QED
  BY <1>1, Inductive, PTL

(* The file is worked on only after its whole schema exists.                *)
THEOREM SchemaFirst == Spec => []SchemaBeforeUse
<1>1. IInv => SchemaBeforeUse
  BY SchemaLength DEF IInv, Stamped, SchemaBeforeUse
<1>2. QED
  BY <1>1, Inductive, PTL

(* The log of whole runs that module RunLog specifies, read off the file.   *)
Runs == [i \in DOMAIN runRows |-> [measured |-> runRows[i], stored |-> points[i]]]

LEMMA RunsAppended ==
  ASSUME IInv, NEW p \in Procs, Commit(p)
  PROVE  plan[p] \in PointCounts /\ Runs' = Append(Runs, [measured |-> plan[p], stored |-> plan[p]])
<1>1. /\ plan[p] \in PointCounts
      /\ runRows' \in Seq(Nat) /\ runRows \in Seq(Nat)
      /\ Len(runRows') = Len(runRows) + 1
      /\ runRows'[Len(runRows')] = plan[p] /\ points'[Len(runRows')] = plan[p]
      /\ \A i \in 1 .. Len(runRows) : runRows'[i] = runRows[i] /\ points'[i] = points[i]
  BY CommitAppends DEF IInv, Shape
<1> DEFINE n == Len(runRows)
           run == [measured |-> plan[p], stored |-> plan[p]]
<1>2. n \in Nat /\ DOMAIN runRows = 1 .. n /\ DOMAIN runRows' = 1 .. n + 1
  BY <1>1
<1>3. Runs' = [i \in 1 .. n + 1 |-> IF i = n + 1 THEN run ELSE Runs[i]]
  BY <1>1, <1>2 DEF Runs
<1>4. Len(Runs) = n
  BY <1>2 DEF Runs
<1>5. Append(Runs, run) = [i \in 1 .. n + 1 |-> IF i = n + 1 THEN run ELSE Runs[i]]
  BY <1>2, <1>4 DEF Runs
<1>6. QED
  BY <1>1, <1>3, <1>5

(* Whatever process dies or fails in the middle of record, the file is an   *)
(* append-only log of whole runs: the store implements RunLog.              *)
THEOREM StoreKeepsRunLog == Spec => KeepsRunLog
<1>1. Init => Log!Init
  BY DEF Init, Log!Init
<1>2. IInv /\ [Next]_vars => [Log!RecordRun]_Runs
  <2> SUFFICES ASSUME IInv, [Next]_vars, Runs' # Runs PROVE Log!RecordRun
    BY DEF Runs
  <2>1. ~UNCHANGED <<runRows, points>>
    BY DEF Runs
  <2>2. PICK p \in Procs : Commit(p)
    BY <2>1 DEF Next, vars, file, Step, Call, Fault, Open, CreateTable, ScriptEnds,
                ReadVersion, InsertVersion, CommitVersion, InsertRun, InsertPoint,
                SelectPoints, ListingEnds, CountPoints, Busy, BeginRecord, SelectRuns,
                CountRuns, Raise, Crash
  <2>3. QED
    BY <2>2, RunsAppended DEF Runs, Log!RecordRun
<1>3. QED
  BY <1>1, <1>2, Inductive, PTL DEF Spec, KeepsRunLog, Log!Spec, Runs

-----------------------------------------------------------------------------
LEMMA TotalIsSum ==
  ASSUME NEW n \in Nat, NEW f, Numbers(f, Ids(n))
  PROVE  Total(f, n) = SumOf(f, Ids(n))
<1>1. IsFiniteSet(Ids(n))
  BY FS_Interval DEF Ids
<1>2. QED
  BY <1>1, SumFunctionOnSetIsSum DEF Total

(* A run, once in the file, stays what it is.                               *)
LEMMA RunsStay ==
  ASSUME IInv, [Next]_vars
  PROVE  /\ Len(runRows) \in Nat /\ Len(runRows') \in Nat
         /\ Len(runRows) <= Len(runRows')
         /\ \A i \in 1 .. Len(runRows) : runRows'[i] = runRows[i]
<1>1. Len(runRows) \in Nat
  BY LenProperties DEF IInv, Shape
<1>2. CASE runRows' = runRows
  BY <1>1, <1>2
<1>3. CASE runRows' # runRows
  <2>1. PICK p \in Procs : Commit(p)
    BY <1>3 DEF Next, vars, file, Step, Call, Fault, Open, CreateTable, ScriptEnds,
                ReadVersion, InsertVersion, CommitVersion, InsertRun, InsertPoint,
                SelectPoints, ListingEnds, CountPoints, Busy, BeginRecord, SelectRuns,
                CountRuns, Raise, Crash
  <2>2. QED
    BY <1>1, <2>1, CommitAppends
<1>4. QED
  BY <1>2, <1>3

(* A count in progress saw runs that are still there, and the last answer   *)
(* had at least the points of the runs it reported.                         *)
Counts ==
  /\ counted \in [Procs -> Nat \X Int]
  /\ \A p \in Procs : pc[p] = "counting" => seen[p] <= Len(runRows)
  /\ \A p \in Procs :
       /\ counted[p][1] <= Len(runRows)
       /\ counted[p][2] >= SumOf(runRows, Ids(counted[p][1]))

(* The last answer of a call stays right when the file grows.               *)
LEMMA CountStays ==
  ASSUME IInv, [Next]_vars, NEW n \in Nat, n <= Len(runRows)
  PROVE  n <= Len(runRows') /\ SumOf(runRows', Ids(n)) = SumOf(runRows, Ids(n))
<1>1. /\ Len(runRows) \in Nat /\ Len(runRows') \in Nat /\ Len(runRows) <= Len(runRows')
      /\ \A i \in 1 .. Len(runRows) : runRows'[i] = runRows[i]
  BY RunsStay
<1>2. IsFiniteSet(Ids(n)) /\ Ids(n) \subseteq 1 .. Len(runRows)
  BY <1>1, FS_Interval DEF Ids
<1>3. Numbers(runRows, Ids(n))
  BY <1>2 DEF Numbers, IInv, Shape
<1>4. QED
  BY <1>1, <1>2, <1>3, SumAlike

(* What a count reads: the points of every run seen before are there.       *)
LEMMA CountIsEnough ==
  ASSUME IInv, NEW n \in Nat, n <= Len(runRows)
  PROVE  /\ Total(points, MaxRuns) \in Int
         /\ Total(points, MaxRuns) >= SumOf(runRows, Ids(n))
<1>1. Len(runRows) \in Nat /\ Len(runRows) <= MaxRuns /\ MaxRuns \in Nat
  BY RecordingFinite, LenProperties, StoreAssumption DEF IInv, Shape, Room
<1>2. /\ IsFiniteSet(Ids(MaxRuns)) /\ Ids(n) \in SUBSET Ids(MaxRuns)
      /\ Ids(n) \subseteq 1 .. Len(runRows)
  <2>1. IsFiniteSet(Ids(MaxRuns))
    BY <1>1, FS_Interval DEF Ids
  <2>2. Ids(n) \in SUBSET Ids(MaxRuns) /\ Ids(n) \subseteq 1 .. Len(runRows)
    BY <1>1 DEF Ids
  <2>3. QED
    BY <2>1, <2>2
<1>3. Numbers(points, Ids(MaxRuns)) /\ \A i \in Ids(MaxRuns) : points[i] >= 0
  BY DEF Numbers, IInv, Shape
<1>4. Numbers(runRows, Ids(n)) /\ \A i \in Ids(n) : runRows[i] <= points[i]
  BY <1>2 DEF Numbers, IInv, Shape, Whole
<1>5. SumOf(runRows, Ids(n)) <= SumOf(points, Ids(MaxRuns))
  BY <1>2, <1>3, <1>4, SumMonotone
<1>6. SumOf(points, Ids(MaxRuns)) \in Int /\ SumOf(runRows, Ids(n)) \in Int
  <2>1. IsFiniteSet(Ids(n))
    BY FS_Interval DEF Ids
  <2>2. QED
    BY <1>2, <1>3, <1>4, <2>1, SumStep
<1>7. QED
  BY <1>1, <1>3, <1>5, <1>6, TotalIsSum

LEMMA CountsHold == Spec => []Counts
<1>1. Init => Counts
  <2> SUFFICES ASSUME Init PROVE Counts
    OBVIOUS
  <2>1. Ids(0) = {}
    BY DEF Ids
  <2>2. SumOf(runRows, Ids(0)) = 0
    BY <2>1, SumEmpty
  <2>3. Len(runRows) = 0 /\ \A p \in Procs : pc[p] # "counting"
    BY DEF Init
  <2>4. counted \in [Procs -> Nat \X Int]
        /\ \A p \in Procs : counted[p][1] = 0 /\ counted[p][2] = 0
    BY DEF Init
  <2>5. QED
    BY <2>2, <2>3, <2>4 DEF Counts
<1>2. IInv /\ Counts /\ [Next]_vars => Counts'
  <2> SUFFICES ASSUME IInv, Counts, [Next]_vars PROVE Counts'
    OBVIOUS
  <2> USE DEF IInv, Shape
  <2>1. Len(runRows) \in Nat /\ Len(runRows') \in Nat /\ Len(runRows) <= Len(runRows')
    BY RunsStay
  <2>2. ASSUME NEW q \in Procs, pc'[q] = "counting" PROVE seen'[q] <= Len(runRows')
    <3>1. CASE seen'[q] = Len(runRows)
      BY <2>1, <3>1
    <3>2. CASE pc[q] = "counting" /\ seen'[q] = seen[q]
      BY <2>1, <3>2 DEF Counts
    <3>3. CASE UNCHANGED vars
      BY <2>2, <3>2, <3>3 DEF vars, reading
    <3>4. ASSUME NEW p \in Procs, Step(p) \/ Call(p) \/ Fault(p)
          PROVE  seen'[q] = Len(runRows) \/ (pc[q] = "counting" /\ seen'[q] = seen[q])
      <4>1. CASE CountRuns(p)
        BY <2>2, <4>1 DEF CountRuns, Goto
      <4>2. CASE p # q
        BY <2>2, <3>4, <4>1, <4>2
           DEF Step, Call, Fault, Open, CreateTable, ScriptEnds,
               ReadVersion, InsertVersion, CommitVersion, InsertRun, InsertPoint, Commit,
               SelectPoints, ListingEnds, CountPoints, Busy, BeginRecord, SelectRuns,
               Raise, Crash, Goto, Forget, reading
      <4>3. CASE p = q /\ ~CountRuns(p)
        BY <2>2, <3>4, <4>3
           DEF Step, Call, Fault, Open, CreateTable, ScriptEnds,
               ReadVersion, InsertVersion, CommitVersion, InsertRun, InsertPoint, Commit,
               SelectPoints, ListingEnds, CountPoints, Busy, BeginRecord, SelectRuns,
               Raise, Crash, Goto, reading
      <4>4. QED
        BY <4>1, <4>2, <4>3
    <3>5. QED
      BY <3>1, <3>2, <3>3, <3>4 DEF Next
  <2>3. CASE counted' = counted
    <3>1. ASSUME NEW q \in Procs
          PROVE  /\ counted'[q][1] <= Len(runRows')
                 /\ counted'[q][2] >= SumOf(runRows', Ids(counted'[q][1]))
      <4>1. counted[q][1] \in Nat /\ counted[q][1] <= Len(runRows)
        BY DEF Counts
      <4>2. QED
        BY <2>3, <4>1, CountStays DEF Counts
    <3>2. QED
      BY <2>2, <2>3, <3>1 DEF Counts
  <2>4. CASE counted' # counted
    <3>1. PICK p \in Procs : CountPoints(p)
      BY <2>4 DEF Next, vars, reading, Step, Call, Fault, Open, CreateTable, ScriptEnds,
                ReadVersion, InsertVersion, CommitVersion, InsertRun, InsertPoint, Commit,
                SelectPoints, ListingEnds, Busy, BeginRecord, SelectRuns,
                CountRuns, Raise, Crash
    <3>2. /\ pc[p] = "counting" /\ runRows' = runRows
          /\ counted' = [counted EXCEPT ![p] = <<seen[p], Total(points, MaxRuns)>>]
      BY <3>1 DEF CountPoints, file
    <3>3. seen[p] \in Nat /\ seen[p] <= Len(runRows)
      BY <3>2 DEF Counts
    <3>4. /\ Total(points, MaxRuns) \in Int
          /\ Total(points, MaxRuns) >= SumOf(runRows, Ids(seen[p]))
      BY <3>3, CountIsEnough
    <3>5. counted' \in [Procs -> Nat \X Int]
      BY <3>2, <3>3, <3>4 DEF Counts
    <3>6. \A q \in Procs :
            /\ counted'[q][1] <= Len(runRows)
            /\ counted'[q][2] >= SumOf(runRows, Ids(counted'[q][1]))
      BY <3>2, <3>3, <3>4 DEF Counts
    <3>7. QED
      BY <2>2, <3>2, <3>5, <3>6 DEF Counts
  <2>5. QED
    BY <2>3, <2>4
<1>3. QED
  BY <1>1, <1>2, Inductive, PTL DEF Spec

(* A count never reports fewer points than the runs it reports have, though *)
(* it reads the two with two statements and others record in between.       *)
THEOREM CountsCover == Spec => []CountCoversRuns
<1>1. IInv /\ Counts => CountCoversRuns
  <2> SUFFICES ASSUME IInv, Counts, NEW p \in Procs
               PROVE  /\ counted[p][1] <= Len(runRows)
                      /\ counted[p][2] >= Total(runRows, counted[p][1])
    BY DEF CountCoversRuns
  <2>1. /\ counted[p][1] \in Nat /\ counted[p][1] <= Len(runRows)
        /\ counted[p][2] >= SumOf(runRows, Ids(counted[p][1]))
    BY DEF Counts
  <2>2. Numbers(runRows, Ids(counted[p][1]))
    <3>1. Len(runRows) \in Nat
      BY LenProperties DEF IInv, Shape
    <3>2. Ids(counted[p][1]) \subseteq 1 .. Len(runRows)
      BY <2>1, <3>1 DEF Ids
    <3>3. QED
      BY <3>2 DEF Numbers, IInv, Shape
  <2>3. QED
    BY <2>1, <2>2, TotalIsSum
<1>2. QED
  BY <1>1, Inductive, CountsHold, PTL
=============================================================================
