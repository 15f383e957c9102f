--------------------------- MODULE LeaveRequests ----------------------------
(***************************************************************************)
(* One leave request: its dates, the number of days computed from them,    *)
(* and the decisions on it.                                                *)
(*   apps/api/src/hr/hr.service.ts                                         *)
(*                                                                         *)
(* Every operation reads the row, checks its status, and later writes by   *)
(* id what it has decided or computed from the row it read.                *)
(***************************************************************************)
EXTENDS Integers

CONSTANTS
    Request,    \* requests that can be in progress at the same time
    MaxDay      \* bound: the days are 1..MaxDay

VARIABLES
    leave,      \* status, dates, number of days and soft deletion of the row
    req         \* each request: its operation, and the dates and the number of
                \* days it writes (0: not written)

vars == <<leave, req>>

Day == 1..MaxDay
Idle == [op |-> "idle", first |-> 0, last |-> 0, days |-> 0]

Finish(q) == req' = [req EXCEPT ![q] = Idle]

(* totalDays *)
DaysOf(first, last) == last - first + 1

Allowed(op) ==
    CASE op \in {"approve", "reject"} -> {"PENDING"}
      [] op = "cancel" -> {"PENDING", "APPROVED"}
      [] op = "delete" -> {"PENDING", "APPROVED", "REJECTED", "CANCELLED"}
Written(op) ==
    CASE op = "approve" -> "APPROVED"
      [] op = "reject"  -> "REJECTED"
      [] op = "cancel"  -> "CANCELLED"
      [] op = "delete"  -> leave.status

-----------------------------------------------------------------------------
CreateLeave(first, last) ==
    /\ leave.status = "NONE"
    /\ first <= last
    /\ leave' = [status |-> "PENDING", first |-> first, last |-> last,
                 days |-> DaysOf(first, last), deleted |-> FALSE]
    /\ UNCHANGED req

(* getLeaveRequest and the check of the status; the cancellation of a leave*)
(* that has begun is refused, which may happen at any time.                *)
ReadLeave(q, op) ==
    /\ req[q] = Idle
    /\ ~leave.deleted /\ leave.status \in Allowed(op)
    /\ req' = [req EXCEPT ![q].op = op]
    /\ UNCHANGED leave

Decide(q) ==
    /\ req[q].op \notin {"idle", "update"}
    /\ leave' = [leave EXCEPT !.status = Written(req[q].op),
                              !.deleted = @ \/ req[q].op = "delete"]
    /\ Finish(q)

(* Variant with a defect: only the dates that are given are written, with  *)
(* the number of days between them and those that were read.               *)
ReadDates_Given(q, first, last) ==
    LET f == IF first = 0 THEN leave.first ELSE first
        l == IF last = 0 THEN leave.last ELSE last
    IN
    /\ req[q] = Idle
    /\ ~leave.deleted /\ leave.status = "PENDING"
    /\ f <= l
    /\ req' = [req EXCEPT ![q] = [op |-> "update", first |-> first, last |-> last,
                                  days |-> IF {first, last} = {0} THEN 0 ELSE DaysOf(f, l)]]
    /\ UNCHANGED leave

(* updateLeaveRequest: of the dates, the one that is not given (0) is the  *)
(* one it has read, and both are written; neither is if neither is given.  *)
ReadDates(q, first, last) ==
    LET f == IF first = 0 THEN leave.first ELSE first
        l == IF last = 0 THEN leave.last ELSE last
    IN
    /\ req[q] = Idle
    /\ ~leave.deleted /\ leave.status = "PENDING"
    /\ f <= l
    /\ req' = [req EXCEPT ![q] =
         IF {first, last} = {0} THEN [Idle EXCEPT !.op = "update"]
         ELSE [op |-> "update", first |-> f, last |-> l, days |-> DaysOf(f, l)]]
    /\ UNCHANGED leave

UpdateLeave(q) == LET x == req[q] IN
    /\ x.op = "update"
    /\ leave' = [leave EXCEPT !.first = IF x.first = 0 THEN @ ELSE x.first,
                              !.last  = IF x.last = 0 THEN @ ELSE x.last,
                              !.days  = IF x.days = 0 THEN @ ELSE x.days]
    /\ Finish(q)

(* A request fails, or its process stops, before it writes.                *)
Abandon(q) ==
    /\ req[q] # Idle
    /\ Finish(q)
    /\ UNCHANGED leave

-----------------------------------------------------------------------------
Init ==
    /\ leave = [status |-> "NONE", first |-> 0, last |-> 0, days |-> 0, deleted |-> FALSE]
    /\ req = [q \in Request |-> Idle]

Next ==
    \/ \E first, last \in Day : CreateLeave(first, last)
    \/ \E q \in Request :
         \/ \E op \in {"approve", "reject", "cancel", "delete"} : ReadLeave(q, op)
         \/ \E first, last \in {0} \cup Day : ReadDates(q, first, last)
         \/ Decide(q) \/ UpdateLeave(q) \/ Abandon(q)

Spec == Init /\ [][Next]_vars

-----------------------------------------------------------------------------
TypeOK ==
    /\ leave \in [status : {"NONE", "PENDING", "APPROVED", "REJECTED", "CANCELLED"},
                  first : {0} \cup Day, last : {0} \cup Day, days : {0} \cup Day,
                  deleted : BOOLEAN]
    /\ req \in [Request -> [op : {"idle", "update", "approve", "reject", "cancel", "delete"},
                            first : {0} \cup Day, last : {0} \cup Day, days : {0} \cup Day]]

(* The dates of a leave are in order and its number of days is theirs,     *)
(* however partial updates that have read different dates overwrite one    *)
(* another, before and after a decision (updateLeaveRequest).              *)
DaysMatchDates ==
    leave.status # "NONE" =>
        leave.first <= leave.last /\ leave.days = DaysOf(leave.first, leave.last)
=============================================================================
