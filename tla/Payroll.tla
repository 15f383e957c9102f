------------------------------ MODULE Payroll -------------------------------
(***************************************************************************)
(* One payroll period: its status, the run and the payslip of each         *)
(* employee, and the requests that calculate, approve, pay, close, cancel  *)
(* and delete it.                                                          *)
(*   apps/api/src/payroll/payroll.service.ts                               *)
(*   apps/api/src/payroll/payroll-calculation.service.ts                   *)
(*                                                                         *)
(* Every statement outside the transaction that pays the runs commits by   *)
(* itself: it is an action of its own.  A request reads a status, checks   *)
(* it, and later writes by id.  Amounts are left out; what is kept of them *)
(* is how many sets of items, one per calculation, a run has.              *)
(***************************************************************************)
EXTENDS Integers, FiniteSets

CONSTANTS
    Employee,   \* the employees who may be paid
    Request,    \* requests that can be in progress at the same time
    None        \* no employee

VARIABLES
    period,     \* status and soft deletion of the period
    run,        \* status of each employee's run of the period, "NONE" without
    items,      \* sets of items each run has
    slip,       \* employees whose run has a payslip
    req,        \* the state of each request
    torn,       \* history: employees whose items a calculation that failed or
                \* overlapped another one has left incomplete or doubled
    half,       \* history: the statuses of the period its runs were not given,
                \* by a request that failed
    overtaken   \* history: a write was made after what had been read before it
                \* had changed

vars == <<period, run, items, slip, req, torn, half, overtaken>>

Idle == [at |-> "idle", op |-> "none", from |-> "none", todo |-> {}, emp |-> None]

Runs == {e \in Employee : run[e] # "NONE"}

Goto(q, a) == req' = [req EXCEPT ![q].at = a]
Finish(q) == req' = [req EXCEPT ![q] = Idle]

(* The statuses in which each operation is refused or allowed, and the     *)
(* status it writes.                                                       *)
Statuses == {"DRAFT", "OPEN", "CALCULATED", "APPROVED", "PAID", "CLOSED", "CANCELLED"}
Allowed(op) ==
    CASE op = "open"    -> {"DRAFT"}
      [] op = "approve" -> {"CALCULATED"}
      [] op = "pay"     -> {"APPROVED"}
      [] op = "close"   -> {"PAID"}
      [] op = "cancel"  -> Statuses \ {"PAID", "CLOSED"}
      [] op = "delete"  -> Statuses \ {"APPROVED", "PAID", "CLOSED"}
Written(op) ==
    CASE op = "open"    -> "OPEN"
      [] op = "approve" -> "APPROVED"
      [] op = "pay"     -> "PAID"
      [] op = "close"   -> "CLOSED"
      [] op = "cancel"  -> "CANCELLED"
      [] op = "delete"  -> period.status
Operations == {"open", "approve", "pay", "close", "cancel", "delete"}

-----------------------------------------------------------------------------
(* calculatePeriod: the period is found by its id, deleted or not.  S are  *)
(* the employees who are ACTIVE at that moment.                            *)
StartCalculation(q, S) ==
    /\ req[q] = Idle
    /\ period.status = "OPEN"
    /\ req' = [req EXCEPT ![q].at = "next", ![q].op = "calculate", ![q].todo = S]
    /\ UNCHANGED <<period, run, items, slip, torn, half, overtaken>>

(* calculateEmployeeRun *)
FindRun(q, e) ==
    /\ req[q].at = "next"
    /\ e \in req[q].todo
    /\ req' = [req EXCEPT ![q].at = IF run[e] = "NONE" THEN "create" ELSE "clear",
                          ![q].todo = @ \ {e}, ![q].emp = e]
    /\ UNCHANGED <<period, run, items, slip, torn, half, overtaken>>

(* Between the deletion of a run's items and their creation.               *)
Rewriting(q, e) == req[q].at = "write" /\ req[q].emp = e

(* Variant with a defect: the items of a run are not deleted first.        *)
ClearItems_Kept(q) ==
    /\ req[q].at = "clear"
    /\ Goto(q, "write")
    /\ UNCHANGED <<period, run, items, slip, torn, half, overtaken>>

ClearItems(q) == LET e == req[q].emp IN
    /\ req[q].at = "clear"
    /\ items' = [items EXCEPT ![e] = 0]
    /\ torn' = IF \E r \in Request : Rewriting(r, e) THEN torn ELSE torn \ {e}
    /\ Goto(q, "write")
    /\ UNCHANGED <<period, run, slip, half, overtaken>>

(* The update of a run, or its creation: the run and its items at once.    *)
WriteRun(q) == LET e == req[q].emp IN
    /\ req[q].at = "write"
    /\ run' = [run EXCEPT ![e] = "CALCULATED"]
    /\ items' = [items EXCEPT ![e] = @ + 1]
    /\ torn' = IF \E r \in Request \ {q} : Rewriting(r, e) THEN torn \cup {e} ELSE torn
    /\ overtaken' = (overtaken \/ period.status \notin {"OPEN", "CALCULATED"})
    /\ Goto(q, "next")
    /\ UNCHANGED <<period, slip, half>>

(* (periodId, employeeId) is unique: a second creation fails the request.  *)
CreateRun(q) == LET e == req[q].emp IN
    /\ req[q].at = "create"
    /\ IF run[e] # "NONE"
       THEN Finish(q) /\ UNCHANGED <<run, items, overtaken>>
       ELSE /\ run' = [run EXCEPT ![e] = "CALCULATED"]
            /\ items' = [items EXCEPT ![e] = 1]
            /\ overtaken' = (overtaken \/ period.status \notin {"OPEN", "CALCULATED"})
            /\ Goto(q, "next")
    /\ UNCHANGED <<period, slip, torn, half>>

FinishCalculation(q) ==
    /\ req[q].at = "next"
    /\ req[q].todo = {}
    /\ period' = [period EXCEPT !.status = "CALCULATED"]
    /\ overtaken' = (overtaken \/ period.status \notin {"OPEN", "CALCULATED"})
    /\ Finish(q)
    /\ UNCHANGED <<run, items, slip, torn, half>>

-----------------------------------------------------------------------------
(* The other operations read the period, check its status, ...             *)
ReadPeriod(q, op) ==
    /\ req[q] = Idle
    /\ ~period.deleted
    /\ period.status \in Allowed(op)
    /\ req' = [req EXCEPT ![q].at = "period", ![q].op = op, ![q].from = period.status]
    /\ UNCHANGED <<period, run, items, slip, torn, half, overtaken>>

(* ... and update it by id.  An approval and a payment go on to the runs.  *)
WritePeriod(q) == LET op == req[q].op IN
    /\ req[q].at = "period"
    /\ period' = [status |-> Written(op), deleted |-> period.deleted \/ op = "delete"]
    /\ overtaken' = (overtaken \/ period.status # req[q].from)
    /\ IF op \in {"approve", "pay"} THEN Goto(q, op) ELSE Finish(q)
    /\ UNCHANGED <<run, items, slip, torn, half>>

ApproveRuns(q) ==
    /\ req[q].at = "approve"
    /\ run' = [e \in Employee |-> IF e \in Runs THEN "APPROVED" ELSE "NONE"]
    /\ overtaken' = (overtaken \/ period.status # "APPROVED")
    /\ Finish(q)
    /\ UNCHANGED <<period, items, slip, torn, half>>

ReadRuns(q) ==
    /\ req[q].at = "pay"
    /\ req' = [req EXCEPT ![q].at = "payslips", ![q].todo = Runs]
    /\ UNCHANGED <<period, run, items, slip, torn, half, overtaken>>

(* Variant with a defect: runs that are not APPROVED are skipped.          *)
PayRuns_OnlyApproved(q) ==
    /\ req[q].at = "payslips"
    /\ run' = [e \in Employee |-> IF e \in req[q].todo /\ run[e] = "APPROVED" THEN "PAID" ELSE run[e]]
    /\ slip' = slip \cup req[q].todo
    /\ overtaken' = (overtaken \/ period.status \notin {"PAID", "CLOSED"})
    /\ Finish(q)
    /\ UNCHANGED <<period, items, torn, half>>

(* One transaction pays the runs that were read and creates the payslips   *)
(* they do not have.                                                       *)
PayRuns(q) ==
    /\ req[q].at = "payslips"
    /\ run' = [e \in Employee |-> IF e \in req[q].todo THEN "PAID" ELSE run[e]]
    /\ slip' = slip \cup req[q].todo
    /\ overtaken' = (overtaken \/ period.status \notin {"PAID", "CLOSED"})
    /\ Finish(q)
    /\ UNCHANGED <<period, items, torn, half>>

-----------------------------------------------------------------------------
(* markPayslipPaid: a payslip, of a run and a period in any status, is     *)
(* written PAID, which every payslip already is, ...                       *)
MarkPayslip(q, e) ==
    /\ req[q] = Idle
    /\ e \in slip
    /\ req' = [req EXCEPT ![q].at = "mark", ![q].op = "mark", ![q].emp = e]
    /\ UNCHANGED <<period, run, items, slip, torn, half, overtaken>>

(* ... then its run, ...                                                   *)
MarkRun(q) ==
    /\ req[q].at = "mark"
    /\ run' = [run EXCEPT ![req[q].emp] = "PAID"]
    /\ Goto(q, "unpaid")
    /\ UNCHANGED <<period, items, slip, torn, half, overtaken>>

(* ... and, when no run of the period is unpaid, ...                       *)
CountUnpaid(q) ==
    /\ req[q].at = "unpaid"
    /\ IF \A e \in Runs : run[e] = "PAID" THEN Goto(q, "markPeriod") ELSE Finish(q)
    /\ UNCHANGED <<period, run, items, slip, torn, half, overtaken>>

(* ... the period, even one that is CLOSED.                                *)
MarkPeriod(q) ==
    /\ req[q].at = "markPeriod"
    /\ period' = [period EXCEPT !.status = "PAID"]
    /\ Finish(q)
    /\ UNCHANGED <<run, items, slip, torn, half, overtaken>>

(* A request fails, or its process stops, before any of its statements.    *)
Abandon(q) ==
    /\ req[q] # Idle
    /\ torn' = torn \cup {e \in Employee : Rewriting(q, e)}
    /\ half' = half \cup (CASE req[q].at = "approve"             -> {"APPROVED"}
                            [] req[q].at \in {"pay", "payslips"} -> {"PAID"}
                            [] OTHER                             -> {})
    /\ Finish(q)
    /\ UNCHANGED <<period, run, items, slip, overtaken>>

-----------------------------------------------------------------------------
Init ==
    /\ period = [status |-> "DRAFT", deleted |-> FALSE]
    /\ run = [e \in Employee |-> "NONE"]
    /\ items = [e \in Employee |-> 0]
    /\ slip = {}
    /\ req = [q \in Request |-> Idle]
    /\ torn = {} /\ half = {} /\ overtaken = FALSE

Calculate(q) ==
    \/ \E S \in SUBSET Employee : StartCalculation(q, S)
    \/ \E e \in Employee : FindRun(q, e)
    \/ ClearItems(q)
    \/ WriteRun(q)
    \/ CreateRun(q)
    \/ FinishCalculation(q)

ChangePeriod(q) ==
    \/ \E op \in Operations : ReadPeriod(q, op)
    \/ WritePeriod(q)
    \/ ApproveRuns(q)
    \/ ReadRuns(q)
    \/ PayRuns(q)

MarkPaid(q) ==
    \/ \E e \in Employee : MarkPayslip(q, e)
    \/ MarkRun(q)
    \/ CountUnpaid(q)
    \/ MarkPeriod(q)

Next == \E q \in Request : Calculate(q) \/ ChangePeriod(q) \/ MarkPaid(q) \/ Abandon(q)

Spec == Init /\ [][Next]_vars

-----------------------------------------------------------------------------
TypeOK ==
    /\ period \in [status : Statuses, deleted : BOOLEAN]
    /\ run \in [Employee -> {"NONE", "CALCULATED", "APPROVED", "PAID"}]
    /\ items \in [Employee -> 0..Cardinality(Request)]
    /\ slip \subseteq Runs
    /\ \A q \in Request :
         /\ req[q].at \in {"idle", "next", "clear", "write", "create", "period", "approve",
                           "pay", "payslips", "mark", "unpaid", "markPeriod"}
         /\ req[q].op \in Operations \cup {"none", "calculate", "mark"}
         /\ req[q].from \in Statuses \cup {"none"}
         /\ req[q].todo \subseteq Employee
         /\ req[q].emp \in Employee \cup {None}
    /\ torn \subseteq Employee
    /\ half \subseteq {"APPROVED", "PAID"}
    /\ overtaken \in BOOLEAN

(* A run has the items of exactly one calculation, however often the       *)
(* period was calculated and whichever calculations failed halfway, unless *)
(* the last rewriting of its items failed or overlapped another one        *)
(* (calculateEmployeeRun deletes, then creates, in two statements).        *)
ItemsOfOneCalculation ==
    \A e \in Runs \ torn : (\E q \in Request : Rewriting(q, e)) \/ items[e] = 1

(* When an approval or a payment has ended, every run has followed the     *)
(* period: APPROVED with it; PAID and with a payslip once it is PAID or    *)
(* CLOSED.  The exceptions are named: a request that failed between the    *)
(* period and its runs, and writes after what they rest on had changed.    *)
RunsFollowPeriod ==
    \/ overtaken
    \/ \E q \in Request : req[q].at \in {"approve", "pay", "payslips"}
    \/ /\ period.status = "APPROVED" /\ "APPROVED" \notin half
            => \A e \in Runs : run[e] = "APPROVED"
       /\ period.status \in {"PAID", "CLOSED"} /\ "PAID" \notin half
            => \A e \in Runs : run[e] = "PAID" /\ e \in slip
=============================================================================
