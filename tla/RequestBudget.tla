--------------------------- MODULE RequestBudget ---------------------------
(***************************************************************************)
(* What run_at_concurrency (bench/loadgen.py) promises its caller, without *)
(* threads or locks: requests are issued against a budget, never more than *)
(* Concurrency are open, every one that is issued ends up recorded or lost *)
(* to an exception, and the call comes back only when none is open.  It    *)
(* returns a result only if no request was lost, and with less than the    *)
(* whole budget spent only when the deadline of a timed call has passed.   *)
(* The exception is a call that is broken off while an exception is already*)
(* leaving it: what it then leaves behind still keeps to the budget.       *)
(***************************************************************************)
EXTENDS Integers

CONSTANTS Concurrency, Limit, Timed

VARIABLES
  issued,      \* requests begun
  recorded,    \* requests with a record
  lost,        \* requests that ended in an exception
  overdue,     \* the deadline has passed
  breaks,      \* how often the caller broke in
  outcome      \* "running", "returned" or "raised"

vars == <<issued, recorded, lost, overdue, breaks, outcome>>

Open == issued - recorded - lost

BrokenOff == breaks > 1 \/ (breaks = 1 /\ lost > 0)

Active == outcome = "running" \/ (outcome = "raised" /\ BrokenOff)

Init ==
  /\ issued = 0
  /\ recorded = 0
  /\ lost = 0
  /\ overdue = FALSE
  /\ breaks = 0
  /\ outcome = "running"

Issue ==
  /\ Active
  /\ issued < Limit
  /\ Open < Concurrency
  /\ issued' = issued + 1
  /\ UNCHANGED <<recorded, lost, overdue, breaks, outcome>>

Record ==
  /\ Active
  /\ Open > 0
  /\ recorded' = recorded + 1
  /\ UNCHANGED <<issued, lost, overdue, breaks, outcome>>

Lose ==
  /\ Active
  /\ Open > 0
  /\ lost' = lost + 1
  /\ UNCHANGED <<issued, recorded, overdue, breaks, outcome>>

Expire ==
  /\ Timed /\ ~overdue
  /\ overdue' = TRUE
  /\ UNCHANGED <<issued, recorded, lost, breaks, outcome>>

Return ==
  /\ outcome = "running"
  /\ Open = 0
  /\ lost = 0
  /\ breaks = 0
  /\ overdue \/ issued = Limit
  /\ outcome' = "returned"
  /\ UNCHANGED <<issued, recorded, lost, overdue, breaks>>

Raise ==
  /\ outcome = "running"
  /\ Open = 0
  /\ outcome' = "raised"
  /\ UNCHANGED <<issued, recorded, lost, overdue, breaks>>

(* The caller breaks in: the call goes on to its end, or is over at once    *)
(* when nothing is open or it was already failing.                          *)
Break ==
  /\ outcome = "running"
  /\ breaks' = breaks + 1
  /\ \/ outcome' = "running"
     \/ outcome' = "raised" /\ (Open = 0 \/ BrokenOff')
  /\ UNCHANGED <<issued, recorded, lost, overdue>>

Next == Issue \/ Record \/ Lose \/ Expire \/ Return \/ Raise \/ Break

Spec == Init /\ [][Next]_vars
=============================================================================
