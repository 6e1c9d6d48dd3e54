----------------------------- MODULE Benchmark -----------------------------
(***************************************************************************)
(* The benchmark command, cli.py: it waits for a running engine            *)
(* (wait_for_endpoint in bench/loadgen.py), sweeps the ladder, and records *)
(* the sweep in a store when one was named.  The process can be killed or  *)
(* interrupted at any moment, and every call that may raise does so        *)
(* sometimes; only bad arguments and an absent engine are caught.          *)
(*                                                                         *)
(* The sweep is Sweep's, one step per rung.  The store is the log of runs  *)
(* that module Store implements: record is one step of it.                 *)
(***************************************************************************)
EXTENDS Sweep

VARIABLES
  stage,     \* where the command is
  overdue,   \* while it waits: the 120 seconds are over
  storing,   \* --store was given; FALSE until the command looks at it
  log,       \* the runs this command recorded, each a sequence of points
  exit       \* exit code; None while the process runs

session == <<stage, overdue, storing, log, exit>>
allvars == <<vars, session>>

BenchmarkInit ==
  /\ config \in Settings
  /\ curve = <<>> /\ index = 1 /\ points = <<>> /\ best = 0 /\ stop = "climbing"
  /\ stage = "asked"
  /\ overdue = FALSE
  /\ storing = FALSE
  /\ log = <<>>
  /\ exit = None

(* The process ends, and the sweep in its memory with it.                   *)
Exit(code) ==
  /\ stage' = "exited"
  /\ exit' = code
  /\ curve' = <<>> /\ index' = 1 /\ points' = <<>> /\ best' = 0
  /\ overdue' = FALSE
  /\ UNCHANGED <<config, stop, storing>>

-----------------------------------------------------------------------------
(* wait_for_endpoint.                                                       *)

(* A ValueError from the ladder, the sweep's settings or the workload.      *)
RejectArguments == stage = "asked" /\ Exit(1) /\ UNCHANGED log

AcceptArguments ==
  /\ stage = "asked"
  /\ stage' = "waiting"
  /\ UNCHANGED <<vars, overdue, storing, log, exit>>

DeadlinePasses ==
  /\ stage \in {"waiting", "polling"}
  /\ ~overdue
  /\ overdue' = TRUE
  /\ UNCHANGED <<vars, stage, storing, log, exit>>

BeginPoll ==
  /\ stage = "waiting"
  /\ ~overdue
  /\ stage' = "polling"
  /\ UNCHANGED <<vars, overdue, storing, log, exit>>

(* No connection, a broken answer or a status of 500 and more; then a pause.*)
NoAnswer ==
  /\ stage = "polling"
  /\ stage' = "waiting"
  /\ UNCHANGED <<vars, overdue, storing, log, exit>>

(* An answer counts even when it comes after the deadline.                  *)
Answer ==
  /\ stage = "polling"
  /\ stage' = "sweeping"
  /\ overdue' = FALSE
  /\ curve' \in Curves
  /\ UNCHANGED <<config, index, points, best, stop, storing, log, exit>>

GiveUp == stage = "waiting" /\ overdue /\ Exit(1) /\ UNCHANGED log

Wait ==
  \/ RejectArguments \/ AcceptArguments
  \/ DeadlinePasses \/ BeginPoll \/ NoAnswer \/ Answer \/ GiveUp

-----------------------------------------------------------------------------
(* The sweep, and what is done with it.                                     *)

Finished == stop \notin {"climbing", "raised"}

Sweeping == stage = "sweeping" /\ SweepStep /\ UNCHANGED session

SweepRaised ==
  /\ stage = "sweeping"
  /\ stop = "raised"
  /\ Exit(1)
  /\ UNCHANGED log

NothingToStore ==
  /\ stage = "sweeping"
  /\ Finished
  /\ Exit(0)
  /\ UNCHANGED log

(* Mutant: the points measured so far are saved when the sweep raises.      *)
OpenStoreAnyway ==
  /\ stage = "sweeping"
  /\ stop # "climbing" \/ points # <<>>
  /\ stage' = "recording"
  /\ storing' = TRUE
  /\ UNCHANGED <<vars, overdue, log, exit>>

(* MeasurementStore(store_path) creates the schema or checks its version.   *)
OpenStore ==
  /\ stage = "sweeping"
  /\ Finished
  /\ stage' = "recording"
  /\ storing' = TRUE
  /\ UNCHANGED <<vars, overdue, log, exit>>

(* x or None: a latency of zero is not stored, nor is a missing one.        *)
StoredPoint(p) ==
  [p EXCEPT !.ttft = IF @ = 0 THEN None ELSE @, !.tpot = IF @ = 0 THEN None ELSE @]

Record ==
  /\ stage = "recording"
  /\ log' = Append(log, [i \in DOMAIN points |-> StoredPoint(points[i])])
  /\ stage' = "counting"
  /\ UNCHANGED <<vars, overdue, storing, exit>>

(* store.count() is only there for the last line that is printed.           *)
Count == stage = "counting" /\ Exit(0) /\ UNCHANGED log

(* Mutant: an error of the store is swallowed.                              *)
StoreRaisesQuietly ==
  /\ stage \in {"sweeping", "recording", "counting"}
  /\ stage = "sweeping" => Finished
  /\ Exit(0)
  /\ UNCHANGED log

(* A locked file, a foreign schema version, a path that cannot be opened:   *)
(* none is caught.  record rolls back.                                      *)
StoreRaises ==
  /\ stage \in {"sweeping", "recording", "counting"}
  /\ stage = "sweeping" => Finished
  /\ Exit(1)
  /\ UNCHANGED log

Die == stage # "exited" /\ Exit(1) /\ UNCHANGED log

Exited == stage = "exited" /\ UNCHANGED allvars

Report ==
  \/ SweepRaised \/ NothingToStore \/ OpenStore \/ Record \/ Count \/ StoreRaises

BenchmarkNext == Wait \/ Sweeping \/ Report \/ Die \/ Exited

BenchmarkSpec == BenchmarkInit /\ [][BenchmarkNext]_allvars

-----------------------------------------------------------------------------
(* Properties.                                                              *)

(* Why a sweep ends at its last point, told from the points it stored.      *)
EndsForAReason(run) ==
  LET last == run[Len(run)] IN
  \/ Len(run) = Len(Ladder)
  \/ TooManyErrors(last)
  \/ /\ config.stopOnSaturation
     /\ \E i \in 1 .. Len(run) - 1 : NotGaining(last.throughput, run[i].throughput)
  \/ config.stopOnSla /\ ~Unconstrained /\ ~Meets(last, config.sla)

(* A run in the store is a finished sweep: the ladder from its first rung   *)
(* to one at which the harness had a reason to stop, and the stored numbers *)
(* show that reason.  A sweep that was killed, interrupted or raised leaves *)
(* nothing, and no sweep is recorded twice.                                 *)
RecordedSweepsFinished ==
  /\ Len(log) <= 1
  /\ \A run \in Range(log) :
       /\ run # <<>>
       /\ \A i \in DOMAIN run : run[i].concurrency = Sorted[i]
       /\ EndsForAReason(run)

(* Exit code 0 says that the sweep finished and, when a store was named,    *)
(* that it is in there; after any other exit it may be, if what failed was  *)
(* the count that follows.                                                  *)
ExitTellsTruth ==
  /\ exit = 0 => Finished /\ (storing <=> log # <<>>)
  /\ log # <<>> => Finished /\ storing
=============================================================================
