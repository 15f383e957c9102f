---------------------------- MODULE OfficeProofs ----------------------------
(***************************************************************************)
(* Theorems about the components of Office that run the administration:    *)
(* payroll, inventory, leave, roles, announcements and portal accounts;    *)
(* and about Office as a whole.                                            *)
(***************************************************************************)
EXTENDS SchoolProofs, AuthSessionProofs

-----------------------------------------------------------------------------
(* Payroll.  The items of a run are counted with the calculations that are *)
(* still to rewrite them, and what a request that approves or pays has yet *)
(* to do is named: a run that lags behind the period is on the list of     *)
(* such a request.                                                         *)

PayRequest == [at : {"idle", "next", "clear", "write", "create", "period", "approve",
                     "pay", "payslips", "mark", "unpaid", "markPeriod"},
               op : Pay!Operations \cup {"none", "calculate", "mark"},
               from : Pay!Statuses \cup {"none"}, todo : SUBSET Employee,
               emp : Employee \cup {None}]

PayTypes ==
    /\ period \in [status : Pay!Statuses, deleted : BOOLEAN]
    /\ run \in [Employee -> {"NONE", "CALCULATED", "APPROVED", "PAID"}]
    /\ items \in [Employee -> Nat]
    /\ slip \subseteq Pay!Runs
    /\ payReq \in [Worker -> PayRequest]
    /\ torn \subseteq Employee
    /\ half \subseteq {"APPROVED", "PAID"}
    /\ overtaken \in BOOLEAN

(* What a request has read still holds of the rows, which stay.            *)
PayReads ==
    \A q \in Worker :
        /\ payReq[q].at \in {"clear", "write", "create"} => payReq[q].emp \in Employee
        /\ payReq[q].at \in {"clear", "write"} => run[payReq[q].emp] # "NONE"
        /\ payReq[q].at = "period" => payReq[q].op \in Pay!Operations /\ payReq[q].from \in Pay!Allowed(payReq[q].op)
        /\ payReq[q].at \in {"mark", "unpaid", "markPeriod"} => payReq[q].emp \in slip
        /\ payReq[q].at = "payslips" => payReq[q].todo \subseteq Pay!Runs

Rewriters(e) == {q \in Worker : Pay!Rewriting(q, e)}

ItemsCounted ==
    \A e \in Employee : items[e] + Cardinality(Rewriters(e)) <= Cardinality(Worker)

(* While the items of a run that is not torn are rewritten there are none. *)
ItemsAreWhole ==
    \A e \in Pay!Runs \ torn : items[e] = IF Rewriters(e) # {} THEN 0 ELSE 1

(* Payslips and payments follow the payment of the period.                 *)
PaymentsFollow ==
    ~overtaken =>
        /\ slip # {} => period.status \in {"PAID", "CLOSED"}
        /\ \A q \in Worker :
             /\ payReq[q].at \in {"pay", "payslips"} => period.status \in {"PAID", "CLOSED"}
             /\ payReq[q].at = "payslips" => payReq[q].todo = Pay!Runs
ApprovedFollow ==
    ~overtaken /\ period.status = "APPROVED" /\ "APPROVED" \notin half
               /\ (\A q \in Worker : payReq[q].at # "approve")
        => \A e \in Pay!Runs : run[e] = "APPROVED"
PaidFollow ==
    ~overtaken /\ period.status \in {"PAID", "CLOSED"} /\ "PAID" \notin half
               /\ (\A q \in Worker : payReq[q].at \notin {"pay", "payslips"})
        => \A e \in Pay!Runs : run[e] = "PAID" /\ e \in slip

PayInv ==
    /\ PayTypes /\ PayReads
    /\ ItemsCounted /\ ItemsAreWhole
    /\ PaymentsFollow /\ ApprovedFollow /\ PaidFollow

LEMMA PayCounts == \A S : Pay!Cardinality(S) = Cardinality(S)
  BY DEF Pay!Cardinality, Cardinality

LEMMA PayIdle ==
  /\ Pay!Idle.at = "idle" /\ Pay!Idle.op = "none" /\ Pay!Idle.from = "none" /\ Pay!Idle.todo = {} /\ Pay!Idle.emp = None
  /\ Pay!Idle \in PayRequest
  BY DEF Pay!Idle, PayRequest

LEMMA PayAllowed ==
  /\ Pay!Allowed("open") = {"DRAFT"} /\ Pay!Allowed("approve") = {"CALCULATED"}
  /\ Pay!Allowed("pay") = {"APPROVED"} /\ Pay!Allowed("close") = {"PAID"}
  /\ Pay!Allowed("cancel") = Pay!Statuses \ {"PAID", "CLOSED"}
  /\ Pay!Allowed("delete") = Pay!Statuses \ {"APPROVED", "PAID", "CLOSED"}
  BY DEF Pay!Allowed
LEMMA PayWritten ==
  /\ Pay!Written("open") = "OPEN" /\ Pay!Written("approve") = "APPROVED"
  /\ Pay!Written("pay") = "PAID" /\ Pay!Written("close") = "CLOSED"
  /\ Pay!Written("cancel") = "CANCELLED" /\ Pay!Written("delete") = period.status
  BY DEF Pay!Written

LEMMA PayRuns1 == PayTypes => Pay!Runs = {e \in Employee : run[e] \in {"CALCULATED", "APPROVED", "PAID"}}
  BY DEF PayTypes, Pay!Runs

LEMMA PayCount ==
  ASSUME NEW e \in Employee
  PROVE  /\ Rewriters(e) \in SUBSET Worker /\ IsFiniteSet(Rewriters(e))
         /\ Cardinality(Rewriters(e)) \in Nat /\ Cardinality(Worker) \in Nat
         /\ Cardinality(Rewriters(e)) <= Cardinality(Worker)
  <1>1. Rewriters(e) \in SUBSET Worker BY DEF Rewriters
  <1> QED BY <1>1, WorkerAssumption, FS_Subset, FS_CardinalityType

LEMMA PayTypeCorrect == PayInv => Pay!TypeOK
  <1> SUFFICES ASSUME PayInv PROVE Pay!TypeOK
    OBVIOUS
  <1>1. ASSUME NEW e \in Employee PROVE items[e] \in 0..Cardinality(Worker)
    <2>1. items[e] \in Nat /\ items[e] + Cardinality(Rewriters(e)) <= Cardinality(Worker)
      BY DEF PayInv, PayTypes, ItemsCounted
    <2> QED BY <2>1, PayCount
  <1>2. items \in [Employee -> 0..Cardinality(Worker)]
    BY <1>1 DEF PayInv, PayTypes
  <1> QED BY <1>2, PayCounts DEF PayInv, PayTypes, PayRequest, Pay!TypeOK

LEMMA PayCorrect == PayInv => Pay!ItemsOfOneCalculation /\ Pay!RunsFollowPeriod
  <1>1. PayInv => Pay!ItemsOfOneCalculation
    BY DEF PayInv, ItemsAreWhole, Pay!ItemsOfOneCalculation, Rewriters
  <1>2. PayInv => Pay!RunsFollowPeriod
    BY DEF PayInv, ApprovedFollow, PaidFollow, Pay!RunsFollowPeriod
  <1> QED BY <1>1, <1>2

LEMMA PayInit == Pay!Init => PayInv
  <1> SUFFICES ASSUME Pay!Init PROVE PayInv
    OBVIOUS
  <1>1. /\ \A q \in Worker : payReq[q] = Pay!Idle
        /\ payReq \in [Worker -> PayRequest]
        /\ \A e \in Employee : run[e] = "NONE" /\ items[e] = 0
        /\ run \in [Employee -> {"NONE", "CALCULATED", "APPROVED", "PAID"}]
        /\ items \in [Employee -> Nat]
        /\ slip = {} /\ torn = {} /\ half = {} /\ overtaken = FALSE
    <2>1. payReq = [q \in Worker |-> Pay!Idle] BY DEF Pay!Init
    <2>2. run = [e \in Employee |-> "NONE"] BY DEF Pay!Init
    <2>3. items = [e \in Employee |-> 0] BY DEF Pay!Init
    <2> QED BY <2>1, <2>2, <2>3, PayIdle DEF Pay!Init
  <1>2. period.status = "DRAFT" /\ period \in [status : Pay!Statuses, deleted : BOOLEAN]
    BY DEF Pay!Init, Pay!Statuses
  <1>3. Pay!Runs = {} BY <1>1 DEF Pay!Runs
  <1>4. \A e \in Employee : Rewriters(e) = {}
    BY <1>1, PayIdle DEF Rewriters, Pay!Rewriting
  <1>5. ItemsCounted
    <2>1. \A e \in Employee : Cardinality(Rewriters(e)) = 0
      BY <1>4, FS_EmptySet
    <2> QED BY <1>1, <2>1, WorkerAssumption, FS_CardinalityType DEF ItemsCounted
  <1>6. PayTypes BY <1>1, <1>2 DEF PayTypes
  <1>7. PayReads BY <1>1, PayIdle DEF PayReads
  <1>8. ItemsAreWhole BY <1>3 DEF ItemsAreWhole
  <1>9. PaymentsFollow /\ ApprovedFollow /\ PaidFollow
    BY <1>1, <1>2, <1>3, PayIdle DEF PaymentsFollow, ApprovedFollow, PaidFollow
  <1> QED BY <1>5, <1>6, <1>7, <1>8, <1>9 DEF PayInv

-----------------------------------------------------------------------------
(* One request moves on, to any place of the code that it may get to.      *)
LEMMA PayMoves ==
  ASSUME PayTypes, NEW q \in Worker, NEW x \in PayRequest, payReq' = [payReq EXCEPT ![q] = x]
  PROVE  /\ payReq' \in [Worker -> PayRequest] /\ payReq'[q] = x
         /\ \A r \in Worker \ {q} : payReq'[r] = payReq[r]
  BY DEF PayTypes

LEMMA PayGoto ==
  ASSUME PayTypes, NEW q \in Worker,
         NEW a \in {"idle", "next", "clear", "write", "create", "period", "approve",
                    "pay", "payslips", "mark", "unpaid", "markPeriod"},
         Pay!Goto(q, a)
  PROVE  /\ payReq' \in [Worker -> PayRequest]
         /\ payReq'[q].at = a /\ payReq'[q].op = payReq[q].op /\ payReq'[q].from = payReq[q].from
         /\ payReq'[q].todo = payReq[q].todo /\ payReq'[q].emp = payReq[q].emp
         /\ \A r \in Worker \ {q} : payReq'[r] = payReq[r]
  <1> DEFINE x == [payReq[q] EXCEPT !.at = a]
  <1>1. /\ x \in PayRequest
        /\ x.at = a /\ x.op = payReq[q].op /\ x.from = payReq[q].from
        /\ x.todo = payReq[q].todo /\ x.emp = payReq[q].emp
    BY DEF PayTypes, PayRequest
  <1>2. payReq' = [payReq EXCEPT ![q] = x]
    BY DEF Pay!Goto
  <1> HIDE DEF x
  <1> QED BY <1>1, <1>2, PayMoves

LEMMA PayFinish ==
  ASSUME PayTypes, NEW q \in Worker, Pay!Finish(q)
  PROVE  /\ payReq' \in [Worker -> PayRequest] /\ payReq'[q] = Pay!Idle
         /\ \A r \in Worker \ {q} : payReq'[r] = payReq[r]
  BY PayMoves, PayIdle DEF Pay!Finish

(* The items stay as they are where nobody begins or ends to rewrite them. *)
LEMMA ItemsFrame ==
  ASSUME PayInv, UNCHANGED <<items, torn>>, Pay!Runs' = Pay!Runs,
         NEW q \in Worker, payReq[q].at # "write", payReq'[q].at # "write",
         \A r \in Worker \ {q} : payReq'[r] = payReq[r]
  PROVE  ItemsCounted' /\ ItemsAreWhole'
  <1>1. \A e \in Employee : Rewriters(e)' = Rewriters(e)
    BY DEF Rewriters, Pay!Rewriting
  <1>2. ItemsCounted' BY <1>1 DEF PayInv, ItemsCounted
  <1>3. ItemsAreWhole'
    BY <1>1 DEF PayInv, ItemsAreWhole, Pay!Runs
  <1> QED BY <1>2, <1>3

(* The runs follow the period as before if neither changes, and nobody     *)
(* begins or ends to write them.                                           *)
LEMMA FollowFrame ==
  ASSUME PayInv, UNCHANGED <<run, slip, half, overtaken, period>>,
         NEW q \in Worker,
         payReq[q].at \notin {"approve", "pay", "payslips"},
         payReq'[q].at \notin {"pay", "payslips"},
         \A r \in Worker \ {q} : payReq'[r] = payReq[r]
  PROVE  PaymentsFollow' /\ ApprovedFollow' /\ PaidFollow'
  <1>1. Pay!Runs' = Pay!Runs BY DEF Pay!Runs
  <1>2. PaymentsFollow' BY <1>1 DEF PayInv, PaymentsFollow
  <1>3. ApprovedFollow' BY <1>1 DEF PayInv, ApprovedFollow
  <1>4. PaidFollow' BY <1>1 DEF PayInv, PaidFollow
  <1> QED BY <1>2, <1>3, <1>4

LEMMA PayStartCalculation ==
  ASSUME PayInv, NEW q \in Worker, NEW S \in SUBSET Employee, Pay!StartCalculation(q, S)
  PROVE  PayInv'
  <1>1. UNCHANGED <<period, run, items, slip, torn, half, overtaken>> /\ payReq[q] = Pay!Idle
    BY DEF Pay!StartCalculation
  <1> DEFINE x == [Pay!Idle EXCEPT !.at = "next", !.op = "calculate", !.todo = S]
  <1>2. x \in PayRequest /\ x.at = "next"
    BY PayIdle DEF PayRequest
  <1>3. payReq' = [payReq EXCEPT ![q] = x]
    BY DEF Pay!StartCalculation, PayInv, PayTypes
  <1> HIDE DEF x
  <1>4. /\ payReq' \in [Worker -> PayRequest] /\ payReq'[q].at = "next"
        /\ \A r \in Worker \ {q} : payReq'[r] = payReq[r]
    BY <1>2, <1>3, PayMoves DEF PayInv
  <1>5. Pay!Runs' = Pay!Runs BY <1>1 DEF Pay!Runs
  <1>6. PayTypes' BY <1>1, <1>4, <1>5 DEF PayInv, PayTypes
  <1>7. PayReads' BY <1>1, <1>4, <1>5 DEF PayInv, PayReads, Pay!Allowed
  <1>8. ItemsCounted' /\ ItemsAreWhole'
    BY <1>1, <1>4, <1>5, PayIdle, ItemsFrame
  <1>9. PaymentsFollow' /\ ApprovedFollow' /\ PaidFollow'
    BY <1>1, <1>4, PayIdle, FollowFrame
  <1> QED BY <1>6, <1>7, <1>8, <1>9 DEF PayInv

LEMMA PayFindRun ==
  ASSUME PayInv, NEW q \in Worker, NEW e \in Employee, Pay!FindRun(q, e)
  PROVE  PayInv'
  <1>1. UNCHANGED <<period, run, items, slip, torn, half, overtaken>> /\ payReq[q].at = "next"
    BY DEF Pay!FindRun
  <1> DEFINE a == IF run[e] = "NONE" THEN "create" ELSE "clear"
             x == [payReq[q] EXCEPT !.at = a, !.todo = @ \ {e}, !.emp = e]
  <1>2. x \in PayRequest /\ x.at = a /\ x.emp = e
    BY DEF PayRequest, PayInv, PayTypes
  <1>3. payReq' = [payReq EXCEPT ![q] = x]
    BY DEF Pay!FindRun, PayInv, PayTypes
  <1> HIDE DEF x
  <1>4. /\ payReq' \in [Worker -> PayRequest] /\ payReq'[q].at = a /\ payReq'[q].emp = e
        /\ \A r \in Worker \ {q} : payReq'[r] = payReq[r]
    BY <1>2, <1>3, PayMoves DEF PayInv
  <1>5. Pay!Runs' = Pay!Runs BY <1>1 DEF Pay!Runs
  <1>6. PayTypes' BY <1>1, <1>4, <1>5 DEF PayInv, PayTypes
  <1>7. PayReads' BY <1>1, <1>4, <1>5 DEF PayInv, PayReads, Pay!Allowed
  <1>8. ItemsCounted' /\ ItemsAreWhole'
    BY <1>1, <1>4, <1>5, ItemsFrame
  <1>9. PaymentsFollow' /\ ApprovedFollow' /\ PaidFollow'
    BY <1>1, <1>4, FollowFrame
  <1> QED BY <1>6, <1>7, <1>8, <1>9 DEF PayInv

LEMMA PayClearItems ==
  ASSUME PayInv, NEW q \in Worker, Pay!ClearItems(q)
  PROVE  PayInv'
  <1>0. PICK e \in Employee : e = payReq[q].emp
    BY DEF Pay!ClearItems, PayInv, PayReads
  <1>1. /\ UNCHANGED <<period, run, slip, half, overtaken>> /\ payReq[q].at = "clear"
        /\ items' = [items EXCEPT ![e] = 0]
        /\ torn' = IF Rewriters(e) # {} THEN torn ELSE torn \ {e}
        /\ Pay!Goto(q, "write")
    BY <1>0 DEF Pay!ClearItems, Rewriters
  <1>2. e \in Employee /\ run[e] # "NONE"
    BY <1>0, <1>1 DEF PayInv, PayReads
  <1>3. /\ payReq' \in [Worker -> PayRequest]
        /\ payReq'[q].at = "write" /\ payReq'[q].emp = e
        /\ \A r \in Worker \ {q} : payReq'[r] = payReq[r]
    BY <1>0, <1>1, PayGoto DEF PayInv
  <1>4. /\ items' \in [Employee -> Nat] /\ items'[e] = 0
        /\ \A f \in Employee \ {e} : items'[f] = items[f]
    BY <1>1, <1>2 DEF PayInv, PayTypes
  <1>5. Pay!Runs' = Pay!Runs BY <1>1 DEF Pay!Runs
  <1>6. PayTypes' BY <1>1, <1>3, <1>4, <1>5 DEF PayInv, PayTypes
  <1>7. PayReads' BY <1>1, <1>2, <1>3, <1>5 DEF PayInv, PayReads, Pay!Allowed
  <1>8. /\ Rewriters(e)' = Rewriters(e) \cup {q}
        /\ \A f \in Employee \ {e} : Rewriters(f)' = Rewriters(f)
    BY <1>0, <1>1, <1>3 DEF Rewriters, Pay!Rewriting
  <1>9. ItemsCounted'
    <2> SUFFICES ASSUME NEW f \in Employee
                 PROVE  items'[f] + Cardinality(Rewriters(f)') <= Cardinality(Worker)
      BY DEF ItemsCounted
    <2>1. CASE f = e
      <3>1. Rewriters(e)' \in SUBSET Worker BY DEF Rewriters
      <3>2. /\ Cardinality(Rewriters(e)') <= Cardinality(Worker)
            /\ Cardinality(Rewriters(e)') \in Nat /\ Cardinality(Worker) \in Nat
        BY <3>1, WorkerAssumption, FS_Subset, FS_CardinalityType
      <3> QED BY <1>4, <2>1, <3>2
    <2>2. CASE f # e BY <1>4, <1>8, <2>2 DEF PayInv, ItemsCounted
    <2> QED BY <2>1, <2>2
  <1>10. ItemsAreWhole'
    BY <1>1, <1>4, <1>5, <1>8 DEF PayInv, ItemsAreWhole, Pay!Runs
  <1>11. PaymentsFollow' /\ ApprovedFollow' /\ PaidFollow'
    BY <1>1, <1>3, FollowFrame
  <1> QED BY <1>6, <1>7, <1>9, <1>10, <1>11 DEF PayInv

LEMMA PayWriteRun ==
  ASSUME PayInv, NEW q \in Worker, Pay!WriteRun(q)
  PROVE  PayInv'
  <1>0. PICK e \in Employee : e = payReq[q].emp
    BY DEF Pay!WriteRun, PayInv, PayReads
  <1>1. /\ UNCHANGED <<period, slip, half>> /\ payReq[q].at = "write"
        /\ run' = [run EXCEPT ![e] = "CALCULATED"]
        /\ items' = [items EXCEPT ![e] = @ + 1]
        /\ torn' = IF \E r \in Worker \ {q} : Pay!Rewriting(r, e) THEN torn \cup {e} ELSE torn
        /\ overtaken' = (overtaken \/ period.status \notin {"OPEN", "CALCULATED"})
        /\ Pay!Goto(q, "next")
    BY <1>0 DEF Pay!WriteRun
  <1>2. e \in Employee /\ run[e] # "NONE"
    BY <1>0, <1>1 DEF PayInv, PayReads
  <1>3. /\ payReq' \in [Worker -> PayRequest]
        /\ payReq'[q].at = "next" /\ payReq'[q].emp = e
        /\ \A r \in Worker \ {q} : payReq'[r] = payReq[r]
    BY <1>0, <1>1, PayGoto DEF PayInv
  <1>4. /\ items' \in [Employee -> Nat] /\ items'[e] = items[e] + 1
        /\ \A f \in Employee \ {e} : items'[f] = items[f]
    BY <1>1, <1>2 DEF PayInv, PayTypes
  <1>5. /\ run' \in [Employee -> {"NONE", "CALCULATED", "APPROVED", "PAID"}]
        /\ \A f \in Employee : run'[f] = "NONE" <=> run[f] = "NONE"
    BY <1>1, <1>2 DEF PayInv, PayTypes
  <1>6. Pay!Runs' = Pay!Runs BY <1>5 DEF Pay!Runs
  <1>7. overtaken' \in BOOLEAN BY <1>1
  <1>8. torn' \subseteq Employee BY <1>1, <1>2 DEF PayInv, PayTypes
  <1>9. PayTypes' BY <1>1, <1>3, <1>4, <1>5, <1>6, <1>7, <1>8 DEF PayInv, PayTypes
  <1>10. PayReads'
    <2>1. \A r \in Worker : payReq[r].at \in {"clear", "write"} => payReq[r].emp \in Employee /\ run'[payReq[r].emp] # "NONE"
      BY <1>5 DEF PayInv, PayReads
    <2> QED BY <1>1, <1>3, <1>6, <2>1 DEF PayInv, PayReads, Pay!Allowed
  <1>11. /\ Rewriters(e)' = Rewriters(e) \ {q} /\ q \in Rewriters(e)
         /\ \A f \in Employee \ {e} : Rewriters(f)' = Rewriters(f)
    BY <1>0, <1>1, <1>3 DEF Rewriters, Pay!Rewriting
  <1>12. ItemsCounted'
    <2> SUFFICES ASSUME NEW f \in Employee
                 PROVE  items'[f] + Cardinality(Rewriters(f)') <= Cardinality(Worker)
      BY DEF ItemsCounted
    <2>1. CASE f = e
      <3>1. Cardinality(Rewriters(e)') = Cardinality(Rewriters(e)) - 1
        BY <1>2, <1>11, PayCount, FS_RemoveElement
      <3>2. items[e] \in Nat /\ items[e] + Cardinality(Rewriters(e)) <= Cardinality(Worker)
        BY <1>2 DEF PayInv, ItemsCounted, PayTypes
      <3> QED BY <1>2, <1>4, <2>1, <3>1, <3>2, PayCount
    <2>2. CASE f # e BY <1>4, <1>11, <2>2 DEF PayInv, ItemsCounted
    <2> QED BY <2>1, <2>2
  <1>13. ItemsAreWhole'
    <2> SUFFICES ASSUME NEW f \in Pay!Runs \ torn'
                 PROVE  items'[f] = IF Rewriters(f)' # {} THEN 0 ELSE 1
      BY <1>6 DEF ItemsAreWhole
    <2>1. CASE f = e
      <3>1. torn' = torn /\ Rewriters(e) = {q}
        BY <1>1, <1>11, <2>1 DEF Rewriters
      <3>2. items[e] = 0 BY <2>1, <3>1 DEF PayInv, ItemsAreWhole
      <3> QED BY <1>4, <1>11, <2>1, <3>1, <3>2
    <2>2. CASE f # e
      <3>1. f \in Employee /\ f \in Pay!Runs \ torn BY <1>1, <2>2 DEF Pay!Runs
      <3> QED BY <1>4, <1>11, <2>2, <3>1 DEF PayInv, ItemsAreWhole
    <2> QED BY <2>1, <2>2
  <1>14. PaymentsFollow' /\ ApprovedFollow' /\ PaidFollow'
    <2>1. ~overtaken' => ~overtaken /\ period.status \in {"OPEN", "CALCULATED"} BY <1>1
    <2>2. PaymentsFollow'
      BY <1>1, <1>3, <1>6, <2>1 DEF PayInv, PaymentsFollow
    <2>3. ApprovedFollow' /\ PaidFollow'
      BY <1>1, <2>1 DEF ApprovedFollow, PaidFollow
    <2> QED BY <2>2, <2>3
  <1> QED BY <1>9, <1>10, <1>12, <1>13, <1>14 DEF PayInv

LEMMA PayAbandon ==
  ASSUME PayInv, NEW q \in Worker, Pay!Finish(q),
         UNCHANGED <<period, run, items, slip, overtaken>>,
         torn' = torn \cup {e \in Employee : Pay!Rewriting(q, e)},
         half' \subseteq {"APPROVED", "PAID"}, half \subseteq half',
         payReq[q].at = "approve" => "APPROVED" \in half',
         payReq[q].at \in {"pay", "payslips"} => "PAID" \in half'
  PROVE  PayInv'
  <1>1. /\ payReq' \in [Worker -> PayRequest] /\ payReq'[q] = Pay!Idle
        /\ \A r \in Worker \ {q} : payReq'[r] = payReq[r]
    BY PayFinish DEF PayInv
  <1>2. Pay!Runs' = Pay!Runs BY DEF Pay!Runs
  <1>3. PayTypes' BY <1>1, <1>2 DEF PayInv, PayTypes
  <1>4. PayReads' BY <1>1, <1>2, PayIdle DEF PayInv, PayReads, Pay!Allowed
  <1>5. \A e \in Employee : Rewriters(e)' = Rewriters(e) \ {q}
    BY <1>1, PayIdle DEF Rewriters, Pay!Rewriting
  <1>6. ItemsCounted'
    <2> SUFFICES ASSUME NEW e \in Employee
                 PROVE  items[e] + Cardinality(Rewriters(e)') <= Cardinality(Worker)
      BY DEF ItemsCounted
    <2>1. Rewriters(e)' \in SUBSET Rewriters(e) BY <1>5
    <2>3. Cardinality(Rewriters(e)') \in Nat /\ Cardinality(Rewriters(e)') <= Cardinality(Rewriters(e))
      BY <2>1, PayCount, FS_Subset, FS_CardinalityType
    <2>2. items[e] \in Nat /\ items[e] + Cardinality(Rewriters(e)) <= Cardinality(Worker)
      BY DEF PayInv, ItemsCounted, PayTypes
    <2> QED BY <2>2, <2>3, PayCount
  <1>7. ItemsAreWhole'
    <2> SUFFICES ASSUME NEW e \in Pay!Runs \ torn'
                 PROVE  items[e] = IF Rewriters(e)' # {} THEN 0 ELSE 1
      BY <1>2 DEF ItemsAreWhole
    <2>1. e \in Employee /\ e \notin torn /\ q \notin Rewriters(e)
      BY DEF Pay!Runs, Rewriters
    <2>2. Rewriters(e)' = Rewriters(e) BY <1>5, <2>1
    <2> QED BY <2>1, <2>2 DEF PayInv, ItemsAreWhole
  <1>8. PaymentsFollow' BY <1>1, <1>2, PayIdle DEF PayInv, PaymentsFollow
  <1>9. ApprovedFollow' BY <1>1, <1>2, PayIdle DEF PayInv, ApprovedFollow
  <1>10. PaidFollow' BY <1>1, <1>2, PayIdle DEF PayInv, PaidFollow
  <1> QED BY <1>3, <1>4, <1>6, <1>7, <1>8, <1>9, <1>10 DEF PayInv

LEMMA PayCreateRun ==
  ASSUME PayInv, NEW q \in Worker, Pay!CreateRun(q)
  PROVE  PayInv'
  <1> DEFINE e == payReq[q].emp
  <1>1. /\ payReq[q].at = "create" /\ UNCHANGED <<period, slip, torn, half>> /\ e \in Employee
    BY DEF Pay!CreateRun, PayInv, PayReads
  <1>2. CASE run[e] # "NONE"
    <2>1. Pay!Finish(q) /\ UNCHANGED <<run, items, overtaken>>
      BY <1>2 DEF Pay!CreateRun
    <2>2. {f \in Employee : Pay!Rewriting(q, f)} = {} BY <1>1 DEF Pay!Rewriting
    <2> QED BY <1>1, <2>1, <2>2, PayAbandon DEF PayInv, PayTypes
  <1>3. CASE run[e] = "NONE"
    <2>1. /\ run' = [run EXCEPT ![e] = "CALCULATED"]
          /\ items' = [items EXCEPT ![e] = 1]
          /\ overtaken' = (overtaken \/ period.status \notin {"OPEN", "CALCULATED"})
          /\ Pay!Goto(q, "next")
      BY <1>3 DEF Pay!CreateRun
    <2>2. /\ payReq' \in [Worker -> PayRequest]
          /\ payReq'[q].at = "next" /\ payReq'[q].emp = e
          /\ \A r \in Worker \ {q} : payReq'[r] = payReq[r]
      BY <2>1, PayGoto DEF PayInv
    <2> HIDE DEF e
    <2>3. /\ items' \in [Employee -> Nat] /\ items'[e] = 1
          /\ \A f \in Employee \ {e} : items'[f] = items[f]
      BY <1>1, <2>1 DEF PayInv, PayTypes
    <2>4. /\ run' \in [Employee -> {"NONE", "CALCULATED", "APPROVED", "PAID"}]
          /\ run'[e] = "CALCULATED"
          /\ \A f \in Employee \ {e} : run'[f] = run[f]
      BY <1>1, <2>1 DEF PayInv, PayTypes
    <2>5. Pay!Runs' = Pay!Runs \cup {e} BY <1>1, <2>4 DEF Pay!Runs
    <2>6. overtaken' \in BOOLEAN BY <2>1
    <2>7. PayTypes' BY <1>1, <2>2, <2>3, <2>4, <2>5, <2>6 DEF PayInv, PayTypes
    <2>8. PayReads'
      <3>1. \A r \in Worker : payReq[r].at \in {"clear", "write"} => payReq[r].emp \in Employee /\ run'[payReq[r].emp] # "NONE"
        BY <1>1, <2>4 DEF PayInv, PayReads
      <3> QED BY <1>1, <2>2, <2>5, <3>1 DEF PayInv, PayReads, Pay!Allowed
    <2>9. \A f \in Employee : Rewriters(f)' = Rewriters(f)
      BY <1>1, <2>2 DEF Rewriters, Pay!Rewriting
    <2>10. Rewriters(e) = {}
      BY <1>1, <1>3 DEF Rewriters, Pay!Rewriting, PayInv, PayReads
    <2>11. ItemsCounted'
      <3> SUFFICES ASSUME NEW f \in Employee
                   PROVE  items'[f] + Cardinality(Rewriters(f)) <= Cardinality(Worker)
        BY <2>9 DEF ItemsCounted
      <3>1. CASE f = e
        <4>1. Cardinality(Rewriters(e)) = 0 BY <2>10, FS_EmptySet
        <4>2. Cardinality(Worker) # 0
          BY WorkerAssumption, FS_EmptySet
        <4> QED BY <1>1, <2>3, <3>1, <4>1, <4>2, PayCount
      <3>2. CASE f # e BY <2>3, <3>2 DEF PayInv, ItemsCounted
      <3> QED BY <3>1, <3>2
    <2>12. ItemsAreWhole'
      <3> SUFFICES ASSUME NEW f \in Pay!Runs' \ torn
                   PROVE  items'[f] = IF Rewriters(f) # {} THEN 0 ELSE 1
        BY <1>1, <2>9, <2>5 DEF ItemsAreWhole, Pay!Runs
      <3>1. CASE f = e BY <2>3, <2>10, <3>1
      <3>2. CASE f # e
        <4>1. f \in Pay!Runs \ torn /\ f \in Employee BY <2>5, <3>2 DEF Pay!Runs
        <4> QED BY <2>3, <3>2, <4>1 DEF PayInv, ItemsAreWhole
      <3> QED BY <3>1, <3>2
    <2>13. PaymentsFollow' /\ ApprovedFollow' /\ PaidFollow'
      <3>1. ~overtaken' => ~overtaken /\ period.status \in {"OPEN", "CALCULATED"} BY <2>1
      <3>2. PaymentsFollow'
        BY <1>1, <2>2, <3>1 DEF PayInv, PaymentsFollow
      <3>3. ApprovedFollow' /\ PaidFollow'
        BY <1>1, <3>1 DEF ApprovedFollow, PaidFollow
      <3> QED BY <3>2, <3>3
    <2> QED BY <2>7, <2>8, <2>11, <2>12, <2>13 DEF PayInv
  <1> QED BY <1>2, <1>3

LEMMA PayFinishCalculation ==
  ASSUME PayInv, NEW q \in Worker, Pay!FinishCalculation(q)
  PROVE  PayInv'
  <1>1. /\ UNCHANGED <<run, items, slip, torn, half>> /\ payReq[q].at = "next"
        /\ period' = [period EXCEPT !.status = "CALCULATED"]
        /\ overtaken' = (overtaken \/ period.status \notin {"OPEN", "CALCULATED"})
        /\ Pay!Finish(q)
    BY DEF Pay!FinishCalculation
  <1>2. /\ payReq' \in [Worker -> PayRequest] /\ payReq'[q] = Pay!Idle
        /\ \A r \in Worker \ {q} : payReq'[r] = payReq[r]
    BY <1>1, PayFinish DEF PayInv
  <1>3. period' \in [status : Pay!Statuses, deleted : BOOLEAN] /\ period'.status = "CALCULATED"
    BY <1>1 DEF PayInv, PayTypes, Pay!Statuses
  <1>4. Pay!Runs' = Pay!Runs /\ overtaken' \in BOOLEAN BY <1>1 DEF Pay!Runs
  <1>5. PayTypes' BY <1>1, <1>2, <1>3, <1>4 DEF PayInv, PayTypes
  <1>6. PayReads' BY <1>1, <1>2, <1>4, PayIdle DEF PayInv, PayReads, Pay!Allowed
  <1>7. ItemsCounted' /\ ItemsAreWhole' BY <1>1, <1>2, <1>4, PayIdle, ItemsFrame
  <1>8. ~overtaken' => ~overtaken /\ period.status \in {"OPEN", "CALCULATED"} BY <1>1
  <1>9. PaymentsFollow' BY <1>1, <1>2, <1>8, PayIdle DEF PayInv, PaymentsFollow
  <1>10. ApprovedFollow' /\ PaidFollow' BY <1>3 DEF ApprovedFollow, PaidFollow
  <1> QED BY <1>5, <1>6, <1>7, <1>9, <1>10 DEF PayInv

LEMMA PayReadPeriod ==
  ASSUME PayInv, NEW q \in Worker, NEW op \in Pay!Operations, Pay!ReadPeriod(q, op)
  PROVE  PayInv'
  <1>1. /\ UNCHANGED <<period, run, items, slip, torn, half, overtaken>> /\ payReq[q] = Pay!Idle
        /\ period.status \in Pay!Allowed(op) /\ period.status \in Pay!Statuses
    BY DEF Pay!ReadPeriod, PayInv, PayTypes
  <1> DEFINE x == [Pay!Idle EXCEPT !.at = "period", !.op = op, !.from = period.status]
  <1>2. x \in PayRequest /\ x.at = "period" /\ x.op = op /\ x.from = period.status
    BY <1>1, PayIdle DEF PayRequest
  <1>3. payReq' = [payReq EXCEPT ![q] = x]
    BY DEF Pay!ReadPeriod, PayInv, PayTypes
  <1> HIDE DEF x
  <1>4. /\ payReq' \in [Worker -> PayRequest] /\ payReq'[q] = x
        /\ \A r \in Worker \ {q} : payReq'[r] = payReq[r]
    BY <1>2, <1>3, PayMoves DEF PayInv
  <1>5. Pay!Runs' = Pay!Runs BY <1>1 DEF Pay!Runs
  <1>6. PayTypes' BY <1>1, <1>4, <1>5 DEF PayInv, PayTypes
  <1>7. PayReads' BY <1>1, <1>2, <1>4, <1>5 DEF PayInv, PayReads, Pay!Allowed
  <1>8. ItemsCounted' /\ ItemsAreWhole' BY <1>1, <1>2, <1>4, <1>5, PayIdle, ItemsFrame
  <1>9. PaymentsFollow' /\ ApprovedFollow' /\ PaidFollow'
    BY <1>1, <1>2, <1>4, PayIdle, FollowFrame
  <1> QED BY <1>6, <1>7, <1>8, <1>9 DEF PayInv

(* The status a period is given follows the one the request has read, if   *)
(* the request was not overtaken.                                          *)
LEMMA PayWritePeriod ==
  ASSUME PayInv, NEW q \in Worker, Pay!WritePeriod(q)
  PROVE  PayInv'
  <1>0. PICK op \in Pay!Operations : op = payReq[q].op /\ payReq[q].from \in Pay!Allowed(op)
    BY DEF Pay!WritePeriod, PayInv, PayReads
  <1>1. /\ UNCHANGED <<run, items, slip, torn, half>> /\ payReq[q].at = "period"
        /\ period' = [status |-> Pay!Written(op), deleted |-> period.deleted \/ op = "delete"]
        /\ overtaken' = (overtaken \/ period.status # payReq[q].from)
        /\ IF op \in {"approve", "pay"} THEN Pay!Goto(q, op) ELSE Pay!Finish(q)
    BY <1>0 DEF Pay!WritePeriod
  <1>2. /\ payReq' \in [Worker -> PayRequest]
        /\ payReq'[q].at = IF op \in {"approve", "pay"} THEN op ELSE "idle"
        /\ \A r \in Worker \ {q} : payReq'[r] = payReq[r]
    <2>1. CASE op \in {"approve", "pay"}
      <3>1. Pay!Goto(q, op) BY <1>1, <2>1
      <3> QED BY <2>1, <3>1, PayGoto DEF PayInv
    <2>2. CASE op \notin {"approve", "pay"}
      <3>1. Pay!Finish(q) BY <1>1, <2>2
      <3> QED BY <2>2, <3>1, PayFinish, PayIdle DEF PayInv
    <2> QED BY <2>1, <2>2
  <1>3. Pay!Written(op) \in Pay!Statuses
    BY <1>0, PayWritten DEF PayInv, PayTypes, Pay!Statuses, Pay!Operations
  <1>4. /\ period'.status = Pay!Written(op) /\ period' \in [status : Pay!Statuses, deleted : BOOLEAN]
    <2>1. (period.deleted \/ op = "delete") \in BOOLEAN OBVIOUS
    <2> QED BY <1>1, <1>3, <2>1
  <1>5. Pay!Runs' = Pay!Runs /\ overtaken' \in BOOLEAN BY <1>1 DEF Pay!Runs
  <1>6. PayTypes' BY <1>1, <1>2, <1>4, <1>5 DEF PayInv, PayTypes
  <1>7. PayReads' BY <1>1, <1>2, <1>5 DEF PayInv, PayReads, Pay!Allowed
  <1>8. ItemsCounted' /\ ItemsAreWhole' BY <1>1, <1>2, <1>5, ItemsFrame
  <1>9. ~overtaken' => ~overtaken /\ period.status \in Pay!Allowed(op) BY <1>0, <1>1
  <1>10. ~overtaken' =>
            \/ op = "open" /\ period.status = "DRAFT" /\ period'.status = "OPEN"
            \/ op = "approve" /\ period.status = "CALCULATED" /\ period'.status = "APPROVED"
            \/ op = "pay" /\ period.status = "APPROVED" /\ period'.status = "PAID"
            \/ op = "close" /\ period.status = "PAID" /\ period'.status = "CLOSED"
            \/ op = "cancel" /\ period.status \notin {"PAID", "CLOSED"} /\ period'.status = "CANCELLED"
            \/ /\ op = "delete" /\ period.status \notin {"APPROVED", "PAID", "CLOSED"}
               /\ period'.status = period.status
    BY <1>4, <1>9, PayAllowed, PayWritten DEF Pay!Operations
  <1>11. PaymentsFollow'
    <2> SUFFICES ASSUME ~overtaken' PROVE PaymentsFollow'
      BY DEF PaymentsFollow
    <2>1. /\ slip # {} => period.status \in {"PAID", "CLOSED"}
          /\ \A r \in Worker : payReq[r].at \in {"pay", "payslips"} => period.status \in {"PAID", "CLOSED"}
          /\ \A r \in Worker : payReq[r].at = "payslips" => payReq[r].todo = Pay!Runs
      BY <1>9 DEF PayInv, PaymentsFollow
    <2>2. period.status \in {"PAID", "CLOSED"} => period'.status \in {"PAID", "CLOSED"}
      BY <1>10
    <2>3. slip' # {} => period'.status \in {"PAID", "CLOSED"}
      BY <1>1, <2>1, <2>2
    <2>4. payReq'[q].at = "pay" => period'.status \in {"PAID", "CLOSED"}
      BY <1>2, <1>10
    <2>5. \A r \in Worker : payReq'[r].at \in {"pay", "payslips"} => period'.status \in {"PAID", "CLOSED"}
      BY <1>2, <2>1, <2>2, <2>4
    <2>6. \A r \in Worker : payReq'[r].at = "payslips" => payReq'[r].todo = Pay!Runs
      BY <1>2, <2>1
    <2> QED BY <1>5, <2>3, <2>5, <2>6 DEF PaymentsFollow
  <1>12. ApprovedFollow'
    <2> SUFFICES ASSUME ~overtaken', period'.status = "APPROVED", payReq'[q].at # "approve"
                 PROVE  FALSE
      BY DEF ApprovedFollow
    <2> QED BY <1>2, <1>10
  <1>13. PaidFollow'
    <2> SUFFICES ASSUME ~overtaken', period'.status \in {"PAID", "CLOSED"}, "PAID" \notin half,
                        \A r \in Worker : payReq'[r].at \notin {"pay", "payslips"}
                 PROVE  \A e \in Pay!Runs : run[e] = "PAID" /\ e \in slip
      BY <1>1, <1>5 DEF PaidFollow
    <2>1. period.status = "PAID"
      BY <1>2, <1>10
    <2>2. \A r \in Worker : payReq[r].at \notin {"pay", "payslips"}
      BY <1>1, <1>2
    <2> QED BY <1>9, <2>1, <2>2 DEF PayInv, PaidFollow
  <1> QED BY <1>6, <1>7, <1>8, <1>11, <1>12, <1>13 DEF PayInv

LEMMA PayApproveRuns ==
  ASSUME PayInv, NEW q \in Worker, Pay!ApproveRuns(q)
  PROVE  PayInv'
  <1>1. /\ UNCHANGED <<period, items, slip, torn, half>> /\ payReq[q].at = "approve"
        /\ run' = [e \in Employee |-> IF e \in Pay!Runs THEN "APPROVED" ELSE "NONE"]
        /\ overtaken' = (overtaken \/ period.status # "APPROVED")
        /\ Pay!Finish(q)
    BY DEF Pay!ApproveRuns
  <1>2. /\ payReq' \in [Worker -> PayRequest] /\ payReq'[q] = Pay!Idle
        /\ \A r \in Worker \ {q} : payReq'[r] = payReq[r]
    BY <1>1, PayFinish DEF PayInv
  <1>3. /\ run' \in [Employee -> {"NONE", "CALCULATED", "APPROVED", "PAID"}]
        /\ \A e \in Employee : run'[e] = IF e \in Pay!Runs THEN "APPROVED" ELSE "NONE"
    BY <1>1
  <1>4. Pay!Runs' = Pay!Runs /\ overtaken' \in BOOLEAN BY <1>1, <1>3 DEF Pay!Runs
  <1>5. PayTypes' BY <1>1, <1>2, <1>3, <1>4 DEF PayInv, PayTypes
  <1>6. PayReads'
    <2>1. \A r \in Worker : payReq[r].at \in {"clear", "write"} => payReq[r].emp \in Employee /\ run'[payReq[r].emp] # "NONE"
      BY <1>3 DEF PayInv, PayReads, Pay!Runs
    <2> QED BY <1>1, <1>2, <1>4, <2>1, PayIdle DEF PayInv, PayReads, Pay!Allowed
  <1>7. ItemsCounted' /\ ItemsAreWhole' BY <1>1, <1>2, <1>4, PayIdle, ItemsFrame
  <1>8. ~overtaken' => ~overtaken /\ period.status = "APPROVED" BY <1>1
  <1>9. PaymentsFollow' BY <1>1, <1>2, <1>4, <1>8, PayIdle DEF PayInv, PaymentsFollow
  <1>10. ApprovedFollow'
    <2>1. \A e \in Pay!Runs : run'[e] = "APPROVED" BY <1>3 DEF Pay!Runs
    <2> QED BY <1>4, <2>1 DEF ApprovedFollow
  <1>11. PaidFollow' BY <1>1, <1>8 DEF PaidFollow
  <1> QED BY <1>5, <1>6, <1>7, <1>9, <1>10, <1>11 DEF PayInv

LEMMA PayReadRuns ==
  ASSUME PayInv, NEW q \in Worker, Pay!ReadRuns(q)
  PROVE  PayInv'
  <1>1. UNCHANGED <<period, run, items, slip, torn, half, overtaken>> /\ payReq[q].at = "pay"
    BY DEF Pay!ReadRuns
  <1>2. Pay!Runs' = Pay!Runs /\ Pay!Runs \subseteq Employee BY <1>1 DEF Pay!Runs
  <1> DEFINE x == [payReq[q] EXCEPT !.at = "payslips", !.todo = Pay!Runs]
  <1>3. x \in PayRequest /\ x.at = "payslips" /\ x.todo = Pay!Runs
    BY <1>2 DEF PayRequest, PayInv, PayTypes
  <1>4. payReq' = [payReq EXCEPT ![q] = x]
    BY DEF Pay!ReadRuns, PayInv, PayTypes
  <1> HIDE DEF x
  <1>5. /\ payReq' \in [Worker -> PayRequest] /\ payReq'[q] = x
        /\ \A r \in Worker \ {q} : payReq'[r] = payReq[r]
    BY <1>3, <1>4, PayMoves DEF PayInv
  <1>6. PayTypes' BY <1>1, <1>2, <1>5 DEF PayInv, PayTypes
  <1>7. PayReads' BY <1>1, <1>2, <1>3, <1>5 DEF PayInv, PayReads, Pay!Allowed
  <1>8. ItemsCounted' /\ ItemsAreWhole' BY <1>1, <1>2, <1>3, <1>5, ItemsFrame
  <1>9. PaymentsFollow' BY <1>1, <1>2, <1>3, <1>5 DEF PayInv, PaymentsFollow
  <1>10. ApprovedFollow' BY <1>1, <1>2, <1>3, <1>5 DEF PayInv, ApprovedFollow
  <1>11. PaidFollow' BY <1>3, <1>5 DEF PaidFollow
  <1> QED BY <1>6, <1>7, <1>8, <1>9, <1>10, <1>11 DEF PayInv

LEMMA PayPayRuns ==
  ASSUME PayInv, NEW q \in Worker, Pay!PayRuns(q)
  PROVE  PayInv'
  <1>1. /\ UNCHANGED <<period, items, torn, half>> /\ payReq[q].at = "payslips"
        /\ run' = [e \in Employee |-> IF e \in payReq[q].todo THEN "PAID" ELSE run[e]]
        /\ slip' = slip \cup payReq[q].todo
        /\ overtaken' = (overtaken \/ period.status \notin {"PAID", "CLOSED"})
        /\ Pay!Finish(q)
        /\ payReq[q].todo \subseteq Pay!Runs
    BY DEF Pay!PayRuns, PayInv, PayReads
  <1>2. /\ payReq' \in [Worker -> PayRequest] /\ payReq'[q] = Pay!Idle
        /\ \A r \in Worker \ {q} : payReq'[r] = payReq[r]
    BY <1>1, PayFinish DEF PayInv
  <1>3. /\ run' \in [Employee -> {"NONE", "CALCULATED", "APPROVED", "PAID"}]
        /\ \A e \in Employee : run'[e] = IF e \in payReq[q].todo THEN "PAID" ELSE run[e]
    BY <1>1 DEF PayInv, PayTypes
  <1>4. Pay!Runs' = Pay!Runs /\ overtaken' \in BOOLEAN BY <1>1, <1>3 DEF Pay!Runs
  <1>5. slip' \subseteq Pay!Runs BY <1>1 DEF PayInv, PayTypes
  <1>6. PayTypes' BY <1>1, <1>2, <1>3, <1>4, <1>5 DEF PayInv, PayTypes
  <1>7. PayReads'
    <2>1. \A r \in Worker : payReq[r].at \in {"clear", "write"} => payReq[r].emp \in Employee /\ run'[payReq[r].emp] # "NONE"
      BY <1>3 DEF PayInv, PayReads
    <2> QED BY <1>1, <1>2, <1>4, <2>1, PayIdle DEF PayInv, PayReads, Pay!Allowed
  <1>8. ItemsCounted' /\ ItemsAreWhole' BY <1>1, <1>2, <1>4, PayIdle, ItemsFrame
  <1>9. ~overtaken' => ~overtaken /\ period.status \in {"PAID", "CLOSED"} /\ payReq[q].todo = Pay!Runs
    BY <1>1 DEF PayInv, PaymentsFollow
  <1>10. PaymentsFollow' BY <1>1, <1>2, <1>4, <1>9, PayIdle DEF PayInv, PaymentsFollow
  <1>11. ApprovedFollow' BY <1>1, <1>9 DEF ApprovedFollow
  <1>12. PaidFollow'
    <2> SUFFICES ASSUME ~overtaken' PROVE \A e \in Pay!Runs : run'[e] = "PAID" /\ e \in slip'
      BY <1>4 DEF PaidFollow
    <2> QED BY <1>1, <1>3, <1>9 DEF Pay!Runs
  <1> QED BY <1>6, <1>7, <1>8, <1>10, <1>11, <1>12 DEF PayInv

LEMMA PayMarkPayslip ==
  ASSUME PayInv, NEW q \in Worker, NEW e \in Employee, Pay!MarkPayslip(q, e)
  PROVE  PayInv'
  <1>1. /\ UNCHANGED <<period, run, items, slip, torn, half, overtaken>> /\ payReq[q] = Pay!Idle
        /\ e \in slip
    BY DEF Pay!MarkPayslip
  <1> DEFINE x == [Pay!Idle EXCEPT !.at = "mark", !.op = "mark", !.emp = e]
  <1>2. x \in PayRequest /\ x.at = "mark" /\ x.emp = e
    BY PayIdle DEF PayRequest
  <1>3. payReq' = [payReq EXCEPT ![q] = x]
    BY DEF Pay!MarkPayslip, PayInv, PayTypes
  <1> HIDE DEF x
  <1>4. /\ payReq' \in [Worker -> PayRequest] /\ payReq'[q] = x
        /\ \A r \in Worker \ {q} : payReq'[r] = payReq[r]
    BY <1>2, <1>3, PayMoves DEF PayInv
  <1>5. Pay!Runs' = Pay!Runs BY <1>1 DEF Pay!Runs
  <1>6. PayTypes' BY <1>1, <1>4, <1>5 DEF PayInv, PayTypes
  <1>7. PayReads' BY <1>1, <1>2, <1>4, <1>5 DEF PayInv, PayReads, Pay!Allowed
  <1>8. ItemsCounted' /\ ItemsAreWhole' BY <1>1, <1>2, <1>4, <1>5, PayIdle, ItemsFrame
  <1>9. PaymentsFollow' /\ ApprovedFollow' /\ PaidFollow'
    BY <1>1, <1>2, <1>4, PayIdle, FollowFrame
  <1> QED BY <1>6, <1>7, <1>8, <1>9 DEF PayInv

LEMMA PayMarkRun ==
  ASSUME PayInv, NEW q \in Worker, Pay!MarkRun(q)
  PROVE  PayInv'
  <1>0. PICK e \in slip : e = payReq[q].emp
    BY DEF Pay!MarkRun, PayInv, PayReads
  <1>1. /\ UNCHANGED <<period, items, slip, torn, half, overtaken>> /\ payReq[q].at = "mark"
        /\ run' = [run EXCEPT ![e] = "PAID"]
        /\ Pay!Goto(q, "unpaid")
    BY <1>0 DEF Pay!MarkRun
  <1>2. e \in Pay!Runs /\ e \in Employee BY DEF PayInv, PayTypes, Pay!Runs
  <1>3. /\ payReq' \in [Worker -> PayRequest] /\ payReq'[q].at = "unpaid" /\ payReq'[q].emp = e
        /\ \A r \in Worker \ {q} : payReq'[r] = payReq[r]
    BY <1>0, <1>1, PayGoto DEF PayInv
  <1>4. /\ run' \in [Employee -> {"NONE", "CALCULATED", "APPROVED", "PAID"}]
        /\ \A f \in Employee : run'[f] = IF f = e THEN "PAID" ELSE run[f]
    BY <1>1, <1>2 DEF PayInv, PayTypes
  <1>5. Pay!Runs' = Pay!Runs BY <1>2, <1>4 DEF Pay!Runs
  <1>6. PayTypes' BY <1>1, <1>3, <1>4, <1>5 DEF PayInv, PayTypes
  <1>7. PayReads'
    <2>1. \A r \in Worker : payReq[r].at \in {"clear", "write"} => payReq[r].emp \in Employee /\ run'[payReq[r].emp] # "NONE"
      BY <1>4 DEF PayInv, PayReads
    <2> QED BY <1>0, <1>1, <1>3, <1>5, <2>1 DEF PayInv, PayReads, Pay!Allowed
  <1>8. ItemsCounted' /\ ItemsAreWhole' BY <1>1, <1>3, <1>5, ItemsFrame
  <1>9. ~overtaken => period.status \in {"PAID", "CLOSED"}
    BY <1>0 DEF PayInv, PaymentsFollow
  <1>10. PaymentsFollow' BY <1>1, <1>3, <1>5 DEF PayInv, PaymentsFollow
  <1>11. ApprovedFollow' BY <1>1, <1>9 DEF ApprovedFollow
  <1>12. PaidFollow' BY <1>1, <1>2, <1>3, <1>4, <1>5 DEF PayInv, PaidFollow, Pay!Runs
  <1> QED BY <1>6, <1>7, <1>8, <1>10, <1>11, <1>12 DEF PayInv

LEMMA PayCountUnpaid ==
  ASSUME PayInv, NEW q \in Worker, Pay!CountUnpaid(q)
  PROVE  PayInv'
  <1>1. /\ UNCHANGED <<period, run, items, slip, torn, half, overtaken>> /\ payReq[q].at = "unpaid"
        /\ Pay!Goto(q, "markPeriod") \/ Pay!Finish(q)
    BY DEF Pay!CountUnpaid
  <1>2. /\ payReq' \in [Worker -> PayRequest]
        /\ payReq'[q].at = "idle" \/ (payReq'[q].at = "markPeriod" /\ payReq'[q].emp = payReq[q].emp)
        /\ \A r \in Worker \ {q} : payReq'[r] = payReq[r]
    <2>1. CASE Pay!Goto(q, "markPeriod") BY <2>1, PayGoto DEF PayInv
    <2>2. CASE Pay!Finish(q) BY <2>2, PayFinish, PayIdle DEF PayInv
    <2> QED BY <1>1, <2>1, <2>2
  <1>3. Pay!Runs' = Pay!Runs BY <1>1 DEF Pay!Runs
  <1>4. PayTypes' BY <1>1, <1>2, <1>3 DEF PayInv, PayTypes
  <1>5. PayReads' BY <1>1, <1>2, <1>3 DEF PayInv, PayReads, Pay!Allowed
  <1>6. ItemsCounted' /\ ItemsAreWhole' BY <1>1, <1>2, <1>3, ItemsFrame
  <1>7. PaymentsFollow' /\ ApprovedFollow' /\ PaidFollow' BY <1>1, <1>2, FollowFrame
  <1> QED BY <1>4, <1>5, <1>6, <1>7 DEF PayInv

LEMMA PayMarkPeriod ==
  ASSUME PayInv, NEW q \in Worker, Pay!MarkPeriod(q)
  PROVE  PayInv'
  <1>1. /\ UNCHANGED <<run, items, slip, torn, half, overtaken>> /\ payReq[q].at = "markPeriod"
        /\ period' = [period EXCEPT !.status = "PAID"]
        /\ Pay!Finish(q) /\ slip # {}
    BY DEF Pay!MarkPeriod, PayInv, PayReads
  <1>2. /\ payReq' \in [Worker -> PayRequest] /\ payReq'[q] = Pay!Idle
        /\ \A r \in Worker \ {q} : payReq'[r] = payReq[r]
    BY <1>1, PayFinish DEF PayInv
  <1>3. period' \in [status : Pay!Statuses, deleted : BOOLEAN] /\ period'.status = "PAID"
    BY <1>1 DEF PayInv, PayTypes, Pay!Statuses
  <1>4. Pay!Runs' = Pay!Runs BY <1>1 DEF Pay!Runs
  <1>5. PayTypes' BY <1>1, <1>2, <1>3, <1>4 DEF PayInv, PayTypes
  <1>6. PayReads' BY <1>1, <1>2, <1>4, PayIdle DEF PayInv, PayReads, Pay!Allowed
  <1>7. ItemsCounted' /\ ItemsAreWhole' BY <1>1, <1>2, <1>4, PayIdle, ItemsFrame
  <1>8. ~overtaken => period.status \in {"PAID", "CLOSED"} BY <1>1 DEF PayInv, PaymentsFollow
  <1>9. PaymentsFollow' BY <1>1, <1>2, <1>3, <1>4, PayIdle DEF PayInv, PaymentsFollow
  <1>10. ApprovedFollow' BY <1>3 DEF ApprovedFollow
  <1>11. PaidFollow' BY <1>1, <1>2, <1>4, <1>8, PayIdle DEF PayInv, PaidFollow
  <1> QED BY <1>5, <1>6, <1>7, <1>9, <1>10, <1>11 DEF PayInv

LEMMA PayStep == PayInv /\ [Pay!Next]_(Pay!vars) => PayInv'
  <1> SUFFICES ASSUME PayInv, [Pay!Next]_(Pay!vars) PROVE PayInv'
    OBVIOUS
  <1>1. ASSUME NEW q \in Worker, Pay!Abandon(q) PROVE PayInv'
    <2>1. half' = half \cup (CASE payReq[q].at = "approve"             -> {"APPROVED"}
                            [] payReq[q].at \in {"pay", "payslips"} -> {"PAID"}
                            [] OTHER                             -> {})
      BY <1>1 DEF Pay!Abandon
    <2>2. /\ half' \subseteq {"APPROVED", "PAID"} /\ half \subseteq half'
          /\ payReq[q].at = "approve" => "APPROVED" \in half'
          /\ payReq[q].at \in {"pay", "payslips"} => "PAID" \in half'
      BY <2>1 DEF PayInv, PayTypes
    <2> QED BY <1>1, <2>2, PayAbandon DEF Pay!Abandon
  <1>2. CASE UNCHANGED Pay!vars
    <2>1. UNCHANGED <<period, run, items, slip, payReq, torn, half, overtaken>> BY <1>2 DEF Pay!vars
    <2>2. Pay!Runs' = Pay!Runs BY <2>1 DEF Pay!Runs
    <2>3. \A e \in Employee : Rewriters(e)' = Rewriters(e) BY <2>1 DEF Rewriters, Pay!Rewriting
    <2>4. PayTypes' BY <2>1, <2>2 DEF PayInv, PayTypes
    <2>5. PayReads' BY <2>1, <2>2 DEF PayInv, PayReads, Pay!Allowed
    <2>6. ItemsCounted' BY <2>1, <2>3 DEF PayInv, ItemsCounted
    <2>7. ItemsAreWhole' BY <2>1, <2>2, <2>3 DEF PayInv, ItemsAreWhole, Pay!Runs
    <2>8. PaymentsFollow' /\ ApprovedFollow' /\ PaidFollow'
      BY <2>1, <2>2 DEF PayInv, PaymentsFollow, ApprovedFollow, PaidFollow
    <2> QED BY <2>4, <2>5, <2>6, <2>7, <2>8 DEF PayInv
  <1> QED
    BY <1>1, <1>2, PayStartCalculation, PayFindRun, PayClearItems, PayWriteRun, PayCreateRun,
       PayFinishCalculation, PayReadPeriod, PayWritePeriod, PayApproveRuns, PayReadRuns, PayPayRuns,
       PayMarkPayslip, PayMarkRun, PayCountUnpaid, PayMarkPeriod
       DEF Pay!Next, Pay!Calculate, Pay!ChangePeriod, Pay!MarkPaid

LEMMA PayMeaning == PayInv => Pay!TypeOK /\ Pay!ItemsOfOneCalculation /\ Pay!RunsFollowPeriod
  BY PayTypeCorrect, PayCorrect

(* Payroll: a run has the items of one calculation, and follows its        *)
(* period, for any number of employees and of requests                     *)
(* (calculateEmployeeRun, updatePeriodStatus).                             *)
THEOREM PaySafe ==
    Pay!Spec => [](Pay!TypeOK /\ Pay!ItemsOfOneCalculation /\ Pay!RunsFollowPeriod)
  BY PayInit, PayStep, PayMeaning, PTL DEF Pay!Spec

-----------------------------------------------------------------------------
(* InventoryStock.  One request at most moves a loan; the shortage is      *)
(* counted by the requests that are past the check of the quantity.        *)

LEMMA StockMaxIsLargest ==
  ASSUME NEW T, NEW m \in T, \A n \in T : m >= n
  PROVE  Stock!Max(T) \in T /\ \A n \in T : Stock!Max(T) >= n
BY DEF Stock!Max
Total(a, S) == Stock!MapThenSumSet(LAMBDA l : a[l].quantity, S)
Any(s) == CHOOSE x \in s : TRUE
SumAt(a, g, s) == g[s] = IF s = {} THEN 0 ELSE a[Any(s)].quantity + g[s \ {Any(s)}]
Sums(a, S, g) == \A s \in SUBSET S : SumAt(a, g, s)
Iter(a, S) == CHOOSE g : g = [s \in SUBSET S |-> IF s = {} THEN 0
                                   ELSE a[Any(s)].quantity + g[s \ {Any(s)}]]

LEMMA TotalIter == \A a, S : Total(a, S) = Iter(a, S)[S]
  BY DEF Total, Iter, Stock!MapThenSumSet, Stock!MapThenFoldSet, Any

LEMMA AnyIn == \A s : s # {} => Any(s) \in s
  BY DEF Any

(* Of some subsets of a finite set, one has no other in it.                *)
LEMMA SmallestSet ==
  ASSUME NEW S, IsFiniteSet(S), NEW B \in SUBSET (SUBSET S), B # {}
  PROVE  \E s \in B : \A t \in B : t \subseteq s => t = s
  <1>1. B \subseteq FiniteSubsetsOf(S) BY FS_Subset DEF FiniteSubsetsOf
  <1>2. PICK s \in B : \A t \in B : <<t, s>> \notin StrictSubsetOrdering(S)
    BY <1>1, FS_StrictSubsetOrderingWellFounded, WFMin
  <1>3. \A t \in B : t \subseteq s => t = s BY <1>2 DEF StrictSubsetOrdering
  <1> QED BY <1>3

(* Sums of the quantities up to any number of loans exist, ...             *)
LEMMA SumsUpTo ==
  ASSUME NEW a, NEW S, IsFiniteSet(S), \A l \in S : a[l].quantity \in Int
  PROVE  \A n \in Nat : \E g \in [SUBSET S -> Int] : \A s \in SUBSET S :
            Cardinality(s) <= n => SumAt(a, g, s)
  <1> DEFINE P(n) == \E g \in [SUBSET S -> Int] : \A s \in SUBSET S :
                       Cardinality(s) <= n => SumAt(a, g, s)
             Bad == {n \in Nat : ~P(n)}
  <1>0. \A s \in SUBSET S : IsFiniteSet(s) /\ Cardinality(s) \in Nat
    BY FS_Subset, FS_CardinalityType
  <1>1. P(0)
    <2> DEFINE g == [s \in SUBSET S |-> 0]
    <2>1. \A s \in SUBSET S : Cardinality(s) <= 0 => SumAt(a, g, s)
      <3> SUFFICES ASSUME NEW s \in SUBSET S, Cardinality(s) <= 0 PROVE SumAt(a, g, s)
        OBVIOUS
      <3>1. Cardinality(s) = 0 BY <1>0
      <3>2. s = {} BY <1>0, <3>1, FS_EmptySet
      <3> QED BY <3>2 DEF SumAt
    <2>2. g \in [SUBSET S -> Int] OBVIOUS
    <2> QED BY <2>1, <2>2
  <1>2. ASSUME NEW n \in Nat, P(n) PROVE P(n + 1)
    <2>1. PICK g \in [SUBSET S -> Int] : \A s \in SUBSET S : Cardinality(s) <= n => SumAt(a, g, s)
      BY <1>2
    <2> DEFINE h == [s \in SUBSET S |-> IF s = {} THEN 0
                                        ELSE a[Any(s)].quantity + g[s \ {Any(s)}]]
    <2>2. h \in [SUBSET S -> Int]
      <3> SUFFICES ASSUME NEW s \in SUBSET S, s # {}
                   PROVE  a[Any(s)].quantity + g[s \ {Any(s)}] \in Int
        OBVIOUS
      <3>1. Any(s) \in S /\ s \ {Any(s)} \in SUBSET S BY AnyIn
      <3>2. a[Any(s)].quantity \in Int /\ g[s \ {Any(s)}] \in Int BY <3>1
      <3> QED BY <3>2
    <2>3. ASSUME NEW s \in SUBSET S, Cardinality(s) <= n + 1 PROVE SumAt(a, h, s)
      <3>1. CASE s = {} BY <3>1 DEF SumAt
      <3>2. CASE s # {}
        <4> DEFINE t == s \ {Any(s)}
        <4>1. Any(s) \in s BY <3>2, AnyIn
        <4>2. t \in SUBSET S /\ Cardinality(t) = Cardinality(s) - 1
          BY <1>0, <4>1, FS_RemoveElement
        <4>3. Cardinality(t) <= n BY <1>0, <2>3, <4>2
        <4>4. SumAt(a, g, t) BY <2>1, <4>2, <4>3
        <4>5. h[t] = g[t] BY <4>2, <4>4 DEF SumAt
        <4> QED BY <3>2, <4>5 DEF SumAt
      <3> QED BY <3>1, <3>2
    <2> HIDE DEF h
    <2> QED BY <2>2, <2>3
  <1> HIDE DEF P
  <1>3. Bad = {}
    <2> SUFFICES ASSUME Bad # {} PROVE FALSE
      OBVIOUS
    <2>1. PICK m \in Bad : \A n \in Bad : m <= n BY LeastNatural
    <2>2. m \in Nat /\ ~P(m) /\ m # 0 BY <1>1
    <2>3. m - 1 \in Nat /\ m - 1 \notin Bad BY <2>1, <2>2
    <2>4. P((m - 1) + 1) BY <1>2, <2>3
    <2>5. (m - 1) + 1 = m BY <2>2
    <2> QED BY <2>2, <2>4, <2>5
  <1>4. \A n \in Nat : P(n) BY <1>3
  <1> QED BY <1>4 DEF P

(* ... hence those that MapThenSumSet goes by.                             *)
LEMMA IterSums ==
  ASSUME NEW a, NEW S, IsFiniteSet(S), \A l \in S : a[l].quantity \in Int
  PROVE  Sums(a, S, Iter(a, S))
  <1>1. \A s \in SUBSET S : Cardinality(s) <= Cardinality(S) /\ Cardinality(S) \in Nat
    BY FS_Subset, FS_CardinalityType
  <1>2. PICK g \in [SUBSET S -> Int] : \A s \in SUBSET S :
            Cardinality(s) <= Cardinality(S) => SumAt(a, g, s)
    <2>1. Cardinality(S) \in Nat BY FS_CardinalityType
    <2> QED BY <2>1, SumsUpTo
  <1>3. g = [s \in SUBSET S |-> IF s = {} THEN 0
                                ELSE a[Any(s)].quantity + g[s \ {Any(s)}]]
    BY <1>1, <1>2 DEF SumAt
  <1>4. Iter(a, S) = [s \in SUBSET S |-> IF s = {} THEN 0
                                ELSE a[Any(s)].quantity + Iter(a, S)[s \ {Any(s)}]]
    BY <1>3 DEF Iter
  <1> HIDE DEF Iter
  <1> DEFINE i == Iter(a, S)
  <1>5. i = [s \in SUBSET S |-> IF s = {} THEN 0 ELSE a[Any(s)].quantity + i[s \ {Any(s)}]]
    BY <1>4
  <1> HIDE DEF i
  <1>6. Sums(a, S, i) BY <1>5 DEF Sums, SumAt
  <1> QED BY <1>6 DEF i

(* Two such sums agree on what they have in common.                        *)
LEMMA SumsAgree ==
  ASSUME NEW a, NEW b, NEW S, NEW g, NEW h, NEW T \in SUBSET S, IsFiniteSet(S),
         Sums(a, S, g), Sums(b, T, h), \A l \in T : a[l].quantity = b[l].quantity
  PROVE  \A s \in SUBSET T : g[s] = h[s]
  <1> DEFINE Bad == {s \in SUBSET T : g[s] # h[s]}
  <1> SUFFICES ASSUME Bad # {} PROVE FALSE
    OBVIOUS
  <1>1. IsFiniteSet(T) BY FS_Subset
  <1>2. PICK s \in Bad : \A t \in Bad : t \subseteq s => t = s
    <2>1. Bad \in SUBSET (SUBSET T) OBVIOUS
    <2> HIDE DEF Bad
    <2> QED BY <1>1, <2>1, SmallestSet
  <1>3. /\ g[s] = IF s = {} THEN 0 ELSE a[Any(s)].quantity + g[s \ {Any(s)}]
        /\ h[s] = IF s = {} THEN 0 ELSE b[Any(s)].quantity + h[s \ {Any(s)}]
    BY DEF Sums, SumAt
  <1>4. s # {} BY <1>3
  <1>5. Any(s) \in s /\ Any(s) \in T /\ s \ {Any(s)} \in SUBSET T BY <1>4, AnyIn
  <1>6. s \ {Any(s)} \notin Bad BY <1>2, <1>5
  <1>7. g[s \ {Any(s)}] = h[s \ {Any(s)}] BY <1>5, <1>6
  <1>8. a[Any(s)].quantity = b[Any(s)].quantity BY <1>5
  <1> QED BY <1>3, <1>4, <1>7, <1>8

LEMMA SumsType ==
  ASSUME NEW a, NEW S, NEW g, IsFiniteSet(S), Sums(a, S, g), \A l \in S : a[l].quantity \in Int
  PROVE  \A s \in SUBSET S : g[s] \in Int
  <1> DEFINE Bad == {s \in SUBSET S : g[s] \notin Int}
  <1> SUFFICES ASSUME Bad # {} PROVE FALSE
    OBVIOUS
  <1>2. PICK s \in Bad : \A t \in Bad : t \subseteq s => t = s
    <2>1. Bad \in SUBSET (SUBSET S) OBVIOUS
    <2> HIDE DEF Bad
    <2> QED BY <2>1, SmallestSet
  <1>3. g[s] = IF s = {} THEN 0 ELSE a[Any(s)].quantity + g[s \ {Any(s)}]
    BY DEF Sums, SumAt
  <1>4. s # {} BY <1>3
  <1>5. Any(s) \in s /\ Any(s) \in S /\ s \ {Any(s)} \in SUBSET S BY <1>4, AnyIn
  <1>6. s \ {Any(s)} \notin Bad BY <1>2, <1>5
  <1>7. g[s \ {Any(s)}] \in Int BY <1>5, <1>6
  <1>8. a[Any(s)].quantity \in Int BY <1>5
  <1> QED BY <1>3, <1>4, <1>7, <1>8

(* The order does not matter: any loan may be taken out first.             *)
LEMMA SumsRemove ==
  ASSUME NEW a, NEW S, NEW g, IsFiniteSet(S), Sums(a, S, g), \A l \in S : a[l].quantity \in Int
  PROVE  \A s \in SUBSET S : \A l \in s : g[s] = a[l].quantity + g[s \ {l}]
  <1> DEFINE Bad == {s \in SUBSET S : \E l \in s : g[s] # a[l].quantity + g[s \ {l}]}
  <1> SUFFICES ASSUME Bad # {} PROVE FALSE
    OBVIOUS
  <1>1. PICK s \in Bad : \A t \in Bad : t \subseteq s => t = s
    <2>1. Bad \in SUBSET (SUBSET S) OBVIOUS
    <2> HIDE DEF Bad
    <2> QED BY <2>1, SmallestSet
  <1>2. PICK l \in s : g[s] # a[l].quantity + g[s \ {l}] OBVIOUS
  <1>3. PICK x \in s : x = Any(s) BY AnyIn
  <1>4. g[s] = a[x].quantity + g[s \ {x}] BY <1>3 DEF Sums, SumAt
  <1>5. x # l BY <1>2, <1>4
  <1>6. s \ {x} \notin Bad /\ s \ {l} \notin Bad BY <1>1
  <1>7. s \ {x} \in SUBSET S /\ s \ {l} \in SUBSET S /\ l \in s \ {x} /\ x \in s \ {l}
    BY <1>5
  <1>8. g[s \ {x}] = a[l].quantity + g[(s \ {x}) \ {l}]
    BY <1>6, <1>7
  <1>9. g[s \ {l}] = a[x].quantity + g[(s \ {l}) \ {x}]
    BY <1>6, <1>7
  <1>10. (s \ {x}) \ {l} = (s \ {l}) \ {x} /\ (s \ {l}) \ {x} \in SUBSET S OBVIOUS
  <1>11. g[(s \ {l}) \ {x}] \in Int /\ a[l].quantity \in Int /\ a[x].quantity \in Int
    BY <1>10, SumsType
  <1>12. PICK u \in Int, v \in Int, w \in Int :
            u = g[(s \ {l}) \ {x}] /\ v = a[l].quantity /\ w = a[x].quantity
    BY <1>11
  <1>13. g[s] = w + (v + u) /\ g[s \ {l}] = w + u
    BY <1>4, <1>8, <1>9, <1>10, <1>12
  <1>14. w + (v + u) = v + (w + u) OBVIOUS
  <1>15. g[s] = a[l].quantity + g[s \ {l}] BY <1>12, <1>13, <1>14
  <1> QED BY <1>2, <1>15

LEMMA TotalRemove ==
  ASSUME NEW a, NEW S, IsFiniteSet(S), \A l \in S : a[l].quantity \in Int
  PROVE  /\ Total(a, S) \in Int
         /\ \A l \in S : Total(a, S) = a[l].quantity + Total(a, S \ {l})
  <1>1. Sums(a, S, Iter(a, S)) BY IterSums
  <1>2. Total(a, S) = Iter(a, S)[S] BY TotalIter
  <1>3. Total(a, S) \in Int BY <1>1, <1>2, SumsType
  <1>4. ASSUME NEW l \in S PROVE Total(a, S) = a[l].quantity + Total(a, S \ {l})
    <2> DEFINE T == S \ {l}
    <2>1. T \in SUBSET S /\ IsFiniteSet(T) BY FS_Subset
    <2>2. Sums(a, T, Iter(a, T)) BY <2>1, IterSums
    <2>3. Iter(a, S)[T] = Iter(a, T)[T] BY <1>1, <2>1, <2>2, SumsAgree
    <2>4. Total(a, T) = Iter(a, T)[T] BY TotalIter
    <2>5. Iter(a, S)[S] = a[l].quantity + Iter(a, S)[T] BY <1>1, SumsRemove
    <2> QED BY <1>2, <2>3, <2>4, <2>5
  <1> QED BY <1>3, <1>4

LEMMA TotalEmpty == \A a : Total(a, {}) = 0
  <1> TAKE a
  <1>1. Sums(a, {}, Iter(a, {})) BY IterSums, FS_EmptySet
  <1>2. Iter(a, {})[{}] = 0 BY <1>1 DEF Sums, SumAt
  <1> QED BY <1>2, TotalIter

LEMMA TotalSame ==
  ASSUME NEW a, NEW b, NEW S, IsFiniteSet(S), \A l \in S : a[l].quantity \in Int,
         \A l \in S : a[l].quantity = b[l].quantity
  PROVE  Total(a, S) = Total(b, S)
  <1>1. Sums(a, S, Iter(a, S)) /\ Sums(b, S, Iter(b, S)) BY IterSums
  <1>2. Iter(a, S)[S] = Iter(b, S)[S] BY <1>1, SumsAgree
  <1> QED BY <1>2, TotalIter

LoanRow == [status : {"NONE", "REQUESTED", "APPROVED", "REJECTED", "BORROWED", "RETURNED",
                      "CANCELLED"}, quantity : Quantities \cup {0}, deleted : BOOLEAN]

StockRequest == [at : {"idle", "item", "move", "status", "delete"},
                 op : {"none", "move", "approve", "reject", "borrow", "return", "cancel",
                       "delete"},
                 loan : Loan \cup {None}, delta : Int]

Most == Stock!Max(Quantities)

(* What an operation in progress is about.                                 *)
Asked(x) ==
    /\ x.at \in {"item", "move"} => x.op \in {"move", "borrow", "return"}
    /\ x.at = "status" => x.op \in {"approve", "reject", "borrow", "return", "cancel"}
    /\ x.at \in {"item", "move"} /\ x.op = "move" => x.loan = None /\ x.delta \in (-Most)..Most
    /\ x.at \in {"item", "move", "status"} /\ x.op # "move" =>
          x.loan \in Loan /\ loan[x.loan].status # "NONE"
    /\ x.at \in {"item", "move"} /\ x.op = "borrow" => x.delta = -loan[x.loan].quantity
    /\ x.at \in {"item", "move"} /\ x.op = "return" => x.delta = loan[x.loan].quantity

Moved(x) == x.at = "status" /\ x.op \in Stock!Moving

(* One request at a time has moved a loan's stock, and a loan that is being*)
(* taken back is BORROWED until then.                                      *)
OneMover ==
    astray = {} => \A q \in Worker : Moved(itemReq[q]) =>
        /\ \A r \in Worker \ {q} : ~(Moved(itemReq[r]) /\ itemReq[r].loan = itemReq[q].loan)
        /\ itemReq[q].op = "return" => loan[itemReq[q].loan].status = "BORROWED"

(* Each request that is between its check and its transaction takes no more*)
(* than Most, and the last one to check has found enough for itself.       *)
Takers == {q \in Worker : itemReq[q].at = "move" /\ itemReq[q].delta < 0}
Shortage ==
    IF Takers = {} THEN item.quantity >= (1 - Cardinality(Worker)) * Most
    ELSE \E q \in Takers :
           item.quantity + itemReq[q].delta >= (Cardinality(Takers) - Cardinality(Worker)) * Most

StockInv ==
    /\ Stock!TypeOK
    /\ \A q \in Worker : Asked(itemReq[q])
    /\ OneMover
    /\ Shortage
    /\ Stock!StockConserved

LEMMA StockQuantities == \A k \in Quantities \cup {0} : k \in Nat /\ k \in Int
  BY QuantityAssumption

LEMMA StockMost == Most \in Nat /\ Most > 0 /\ \A k \in Quantities : k <= Most
  <1>1. \A k \in Quantities : k \in Nat BY StockQuantities
  <1>2. \E m \in Quantities : \A k \in Quantities : m >= k
    <2> DEFINE B == {{k \in Quantities : k >= m} : m \in Quantities}
    <2>1. B \in SUBSET (SUBSET Quantities) /\ B # {} BY QuantityAssumption
    <2>2. PICK s \in B : \A t \in B : t \subseteq s => t = s
      <3>1. IsFiniteSet(Quantities) BY QuantityAssumption
      <3> HIDE DEF B
      <3> QED BY <2>1, <3>1, SmallestSet
    <2>3. PICK m \in Quantities : s = {k \in Quantities : k >= m} OBVIOUS
    <2>4. ASSUME NEW n \in Quantities, ~(m >= n) PROVE FALSE
      <3> DEFINE t == {k \in Quantities : k >= n}
      <3>1. t \in B OBVIOUS
      <3>2. t \subseteq s BY <1>1, <2>3, <2>4
      <3>3. m \in s /\ m \notin t BY <1>1, <2>3, <2>4
      <3> QED BY <2>2, <3>1, <3>2, <3>3
    <2> QED BY <2>4
  <1>3. Most \in Quantities /\ \A k \in Quantities : Most >= k
    BY <1>2, StockMaxIsLargest DEF Most
  <1> QED BY <1>1, <1>3, QuantityAssumption

LEMMA StockTimes ==
  \A a, b \in Int : /\ a * Most \in Int
                    /\ (a - 1) * Most = a * Most - Most
                    /\ a <= b => a * Most <= b * Most
                    /\ (1 - a) * Most = -(a - 1) * Most
  <1> TAKE a, b \in Int
  <1>1. PICK m \in Nat : m = Most BY StockMost
  <1>2. a * m \in Int /\ (a - 1) * m = a * m - m /\ (1 - a) * m = -(a - 1) * m OBVIOUS
  <1>3. a <= b => a * m <= b * m
    <2>1. SUFFICES ASSUME a <= b PROVE a * m <= b * m
      OBVIOUS
    <2>2. b - a \in Nat BY <2>1
    <2>3. (b - a) * m >= 0 BY <2>2
    <2>4. (b - a) * m = b * m - a * m /\ b * m \in Int OBVIOUS
    <2> QED BY <1>2, <2>3, <2>4
  <1> QED BY <1>1, <1>2, <1>3

LEMMA StockRequests == Cardinality(Worker) \in Nat /\ Cardinality(Worker) >= 1
  <1>1. Cardinality(Worker) \in Nat /\ Cardinality(Worker) # 0
    BY WorkerAssumption, FS_CardinalityType, FS_EmptySet
  <1> QED BY <1>1

LEMMA StockCounts == \A S : Stock!Cardinality(S) = Cardinality(S)
  BY DEF Stock!Cardinality, Cardinality

LEMMA StockIdle == /\ Stock!Idle \in StockRequest /\ Stock!Idle.at = "idle" /\ Stock!Idle.op = "none"
                   /\ Stock!Idle.loan = None /\ Stock!Idle.delta = 0
  BY DEF Stock!Idle, StockRequest

LEMMA StockMoves ==
  ASSUME itemReq \in [Worker -> StockRequest], NEW q \in Worker, NEW x \in StockRequest,
         itemReq' = [itemReq EXCEPT ![q] = x]
  PROVE  /\ itemReq' \in [Worker -> StockRequest] /\ itemReq'[q] = x
         /\ \A r \in Worker \ {q} : itemReq'[r] = itemReq[r]
  OBVIOUS

LEMMA StockTypes ==
  Stock!TypeOK => /\ item \in [quantity : Int, deleted : BOOLEAN] /\ item.quantity \in Int
                  /\ loan \in [Loan -> LoanRow] /\ itemReq \in [Worker -> StockRequest]
                  /\ booked \in Int /\ astray \subseteq Loan
                  /\ \A l \in Loan : loan[l].quantity \in Quantities \cup {0}
                  /\ \A q \in Worker : itemReq[q].delta \in Int
  BY DEF Stock!TypeOK, LoanRow, StockRequest

LEMMA StockTotal ==
  Stock!StockConserved <=> (astray = {} => item.quantity + Total(loan, Stock!OutOnLoan) = booked)
  BY DEF Stock!StockConserved, Stock!Units, Total, Stock!MapThenSumSet, Stock!MapThenFoldSet

LEMMA StockTotalNext ==
  Stock!StockConserved' <=> (astray' = {} => item'.quantity + Total(loan', Stock!OutOnLoan') = booked')
  BY DEF Stock!StockConserved, Stock!Units, Total, Stock!MapThenSumSet, Stock!MapThenFoldSet

LEMMA StockOut == Stock!TypeOK => /\ IsFiniteSet(Stock!OutOnLoan) /\ Stock!OutOnLoan \subseteq Loan
                                  /\ \A l \in Stock!OutOnLoan : loan[l].quantity \in Int
                                  /\ \A l \in Loan : loan[l].quantity \in Int
  <1>1. Stock!OutOnLoan \subseteq Loan BY DEF Stock!OutOnLoan
  <1>2. IsFiniteSet(Stock!OutOnLoan) BY <1>1, LoanAssumption, FS_Subset
  <1> QED BY <1>1, <1>2, StockTypes, StockQuantities

(* What a request takes is no more than Most.                              *)
LEMMA StockDelta ==
  ASSUME Stock!TypeOK, NEW q \in Worker, Asked(itemReq[q]), itemReq[q].at \in {"item", "move"}
  PROVE  itemReq[q].delta >= -Most
  <1>1. CASE itemReq[q].op = "move" BY <1>1, StockMost DEF Asked
  <1>2. CASE itemReq[q].op # "move"
    <2>1. /\ itemReq[q].loan \in Loan
          /\ \/ itemReq[q].delta = -loan[itemReq[q].loan].quantity
             \/ itemReq[q].delta = loan[itemReq[q].loan].quantity
      BY <1>2 DEF Asked
    <2>2. loan[itemReq[q].loan].quantity \in Quantities \cup {0} BY <2>1, StockTypes
    <2>3. loan[itemReq[q].loan].quantity \in Nat /\ loan[itemReq[q].loan].quantity <= Most
      BY <2>2, StockMost, StockQuantities
    <2> QED BY <2>1, <2>3, StockMost
  <1> QED BY <1>1, <1>2

LEMMA StockInit == Stock!Init => StockInv
  <1> SUFFICES ASSUME Stock!Init PROVE StockInv
    OBVIOUS
  <1>1. /\ item = [quantity |-> Opening, deleted |-> FALSE] /\ loan = [l \in Loan |-> Stock!NoLoan]
        /\ itemReq = [q \in Worker |-> Stock!Idle] /\ booked = Opening /\ astray = {}
    BY DEF Stock!Init
  <1>2. Stock!NoLoan \in LoanRow /\ Stock!NoLoan.status = "NONE" BY DEF Stock!NoLoan, LoanRow
  <1>3. item.quantity = Opening /\ Opening \in Nat BY <1>1, OpeningAssumption
  <1>4. Stock!TypeOK
    <2>1. item \in [quantity : Int, deleted : BOOLEAN] BY <1>1, <1>3
    <2>2. loan \in [Loan -> LoanRow] /\ itemReq \in [Worker -> StockRequest]
      BY <1>1, <1>2, StockIdle
    <2>3. booked \in Int BY <1>1, <1>3
    <2> QED BY <1>1, <2>1, <2>2, <2>3 DEF Stock!TypeOK, LoanRow, StockRequest
  <1>5. \A q \in Worker : Asked(itemReq[q]) BY <1>1, StockIdle DEF Asked
  <1>6. OneMover BY <1>1, StockIdle DEF OneMover, Moved
  <1>7. Shortage
    <2>1. Takers = {} BY <1>1, StockIdle DEF Takers
    <2>2. (1 - Cardinality(Worker)) * Most <= 0 * Most
      BY StockRequests, StockTimes
    <2>3. 0 * Most = 0 BY StockMost
    <2>4. (1 - Cardinality(Worker)) * Most \in Int BY StockRequests, StockTimes
    <2> QED BY <1>3, <2>1, <2>2, <2>3, <2>4 DEF Shortage
  <1>8. Stock!StockConserved
    <2>1. Stock!OutOnLoan = {} BY <1>1, <1>2, StockIdle DEF Stock!OutOnLoan, Stock!Lent, Stock!HasMoved
    <2>2. Total(loan, Stock!OutOnLoan) = 0 BY <2>1, TotalEmpty
    <2> QED BY <1>1, <1>3, <2>2, StockTotal
  <1> QED BY <1>4, <1>5, <1>6, <1>7, <1>8 DEF StockInv

(* A step of one request after which it takes nothing.                     *)
LEMMA StockShort ==
  ASSUME StockInv, NEW q \in Worker, \A r \in Worker \ {q} : itemReq'[r] = itemReq[r],
         ~(itemReq'[q].at = "move" /\ itemReq'[q].delta < 0), item'.quantity \in Int,
         item'.quantity >= item.quantity + (IF q \in Takers THEN itemReq[q].delta ELSE 0)
  PROVE  Shortage'
  <1> DEFINE n == Cardinality(Worker)
             k == Cardinality(Takers)
  <1>1. Takers' = Takers \ {q} BY DEF Takers
  <1>2. IsFiniteSet(Takers) /\ k \in Nat /\ n \in Nat
    <2>1. Takers \subseteq Worker BY DEF Takers
    <2> QED BY <2>1, WorkerAssumption, FS_Subset, FS_CardinalityType
  <1>3. \A r \in Takers : /\ itemReq[r].delta \in Int /\ itemReq[r].delta < 0
                          /\ itemReq[r].delta >= -Most
    BY StockTypes, StockDelta DEF Takers, StockInv
  <1>4. item.quantity \in Int BY StockTypes DEF StockInv
  <1>5. CASE q \notin Takers
    <2>1. Takers' = Takers /\ item'.quantity >= item.quantity BY <1>1, <1>5, <1>4
    <2>2. \A r \in Takers : itemReq'[r] = itemReq[r] BY <1>5 DEF Takers
    <2>3. /\ (1 - n) * Most \in Int /\ (k - n) * Most \in Int
      <3>1. 1 - n \in Int /\ k - n \in Int BY <1>2
      <3> QED BY <3>1, StockTimes
    <2>4. CASE Takers = {}
      <3>1. item.quantity >= (1 - n) * Most BY <2>4 DEF StockInv, Shortage
      <3>2. item'.quantity >= (1 - n) * Most BY <1>4, <2>1, <2>3, <3>1
      <3> QED BY <2>1, <2>4, <3>2 DEF Shortage
    <2>5. CASE Takers # {}
      <3>1. PICK r \in Takers : item.quantity + itemReq[r].delta >= (k - n) * Most
        BY <2>5 DEF StockInv, Shortage
      <3>2. item'.quantity + itemReq'[r].delta >= (k - n) * Most
        BY <1>3, <1>4, <2>1, <2>2, <2>3, <3>1
      <3> QED BY <2>1, <2>5, <3>2 DEF Shortage
    <2> QED BY <2>4, <2>5
  <1>6. CASE q \in Takers
    <2>1. PICK r \in Takers : item.quantity + itemReq[r].delta >= (k - n) * Most
      BY <1>6 DEF StockInv, Shortage
    <2>2. item'.quantity >= item.quantity + itemReq[q].delta BY <1>6
    <2>3. Cardinality(Takers') = k - 1 BY <1>1, <1>2, <1>6, FS_RemoveElement
    <2>4. \A t \in Takers' : t \in Takers /\ itemReq'[t] = itemReq[t] BY <1>1 DEF Takers
    <2>5. /\ (k - n) * Most \in Int /\ (1 - n) * Most \in Int
          /\ ((k - n) - 1) * Most = (k - n) * Most - Most
          /\ 1 <= k => (1 - n) * Most <= (k - n) * Most
      <3>1. k - n \in Int /\ 1 - n \in Int /\ (1 <= k => 1 - n <= k - n) BY <1>2
      <3> QED BY <3>1, StockTimes
    <2>6. k >= 1
      <3>1. k # 0 BY <1>2, <1>6, FS_EmptySet
      <3> QED BY <1>2, <3>1
    <2>7. (k - n) - 1 = (k - 1) - n BY <1>2
    <2> HIDE DEF k, n
    <2>8. CASE Takers' = {}
      <3>1. r = q BY <1>1, <2>8
      <3>2. item'.quantity >= (1 - n) * Most
        BY <1>3, <1>4, <1>6, <2>1, <2>2, <2>5, <2>6, <3>1
      <3> QED BY <2>8, <3>2 DEF Shortage, n
    <2>9. CASE Takers' # {}
      <3>1. \E t \in Takers' : item'.quantity + itemReq[t].delta >= ((k - n) - 1) * Most
        <4>1. CASE r # q
          <5>1. r \in Takers' BY <1>1, <4>1
          <5>2. item'.quantity + itemReq[r].delta >= ((k - n) - 1) * Most
            BY <1>3, <1>4, <1>6, <2>1, <2>2, <2>5, StockMost
          <5> QED BY <5>1, <5>2
        <4>2. CASE r = q
          <5>1. PICK t \in Takers' : TRUE BY <2>9
          <5>2. t \in Takers BY <2>4
          <5>3. item'.quantity + itemReq[t].delta >= ((k - n) - 1) * Most
            BY <1>3, <1>4, <2>1, <2>2, <2>5, <4>2, <5>2, StockMost
          <5> QED BY <5>1, <5>3
        <4> QED BY <4>1, <4>2
      <3>2. \E t \in Takers' : item'.quantity + itemReq'[t].delta >= ((k - 1) - n) * Most
        BY <2>4, <2>7, <3>1
      <3> QED BY <2>3, <2>9, <3>2 DEF Shortage, n
    <2> QED BY <2>8, <2>9
  <1> QED BY <1>5, <1>6

LEMMA StockHere ==
  ASSUME StockInv, NEW q \in Worker
  PROVE  /\ Stock!TypeOK /\ Asked(itemReq[q]) /\ itemReq[q] \in StockRequest
         /\ \A l : Stock!HasMoved(q, l) <=> Moved(itemReq[q]) /\ itemReq[q].loan = l
  BY StockTypes DEF StockInv, Stock!HasMoved, Moved

LEMMA StockTyped ==
  ASSUME item' \in [quantity : Int, deleted : BOOLEAN], loan' \in [Loan -> LoanRow],
         itemReq' \in [Worker -> StockRequest], booked' \in Int, astray' \subseteq Loan
  PROVE  Stock!TypeOK'
  BY DEF Stock!TypeOK, LoanRow, StockRequest

(* A step of one request that moves nothing of a loan.                     *)
LEMMA StockOnly ==
  ASSUME StockInv, NEW q \in Worker, NEW x \in StockRequest,
         itemReq' = [itemReq EXCEPT ![q] = x], Asked(x), ~Moved(x), UNCHANGED loan,
         item' \in [quantity : Int, deleted : BOOLEAN], booked' \in Int,
         item'.quantity - booked' = item.quantity - booked,
         astray' \subseteq Loan, astray' = {} => astray = {} /\ ~Moved(itemReq[q])
  PROVE  /\ Stock!TypeOK' /\ (\A r \in Worker : Asked(itemReq[r])') /\ OneMover' /\ Stock!StockConserved'
         /\ itemReq'[q] = x /\ \A r \in Worker \ {q} : itemReq'[r] = itemReq[r]
  <1>1. /\ itemReq' \in [Worker -> StockRequest] /\ itemReq'[q] = x
        /\ \A r \in Worker \ {q} : itemReq'[r] = itemReq[r]
    BY StockMoves, StockTypes DEF StockInv
  <1>2. Stock!TypeOK' BY <1>1, StockTyped, StockTypes DEF StockInv
  <1>3. \A r \in Worker : Asked(itemReq[r])'
    <2> SUFFICES ASSUME NEW r \in Worker PROVE Asked(itemReq[r])'
      OBVIOUS
    <2>1. CASE r = q BY <1>1, <2>1 DEF Asked
    <2>2. CASE r # q BY <1>1, <2>2 DEF StockInv, Asked
    <2> QED BY <2>1, <2>2
  <1>4. OneMover' BY <1>1 DEF StockInv, OneMover, Moved
  <1>5. Stock!StockConserved'
    <2>1. SUFFICES ASSUME astray' = {}
                   PROVE  item'.quantity + Total(loan', Stock!OutOnLoan') = booked'
      BY StockTotalNext
    <2>2. ~Moved(itemReq[q]) /\ ~Moved(itemReq'[q]) BY <1>1, <2>1
    <2>3. ASSUME NEW r \in Worker, NEW l \in Loan
          PROVE  /\ Stock!HasMoved(r, l)' <=> Stock!HasMoved(r, l)
                 /\ Stock!HasMoved(r, l) => itemReq'[r].op = itemReq[r].op
      BY <1>1, <2>2 DEF Stock!HasMoved, Moved
    <2>4. Stock!Lent' = Stock!Lent BY DEF Stock!Lent
    <2>5. Stock!OutOnLoan' = Stock!OutOnLoan
      <3>1. \A l \in Loan : l \in Stock!OutOnLoan' <=> l \in Stock!OutOnLoan
        BY <2>3, <2>4 DEF Stock!OutOnLoan
      <3>2. Stock!OutOnLoan \subseteq Loan /\ Stock!OutOnLoan' \subseteq Loan BY DEF Stock!OutOnLoan
      <3> QED BY <3>1, <3>2
    <2>6. item.quantity + Total(loan, Stock!OutOnLoan) = booked
      BY <2>1, StockTotal DEF StockInv
    <2>7. /\ item.quantity \in Int /\ booked \in Int /\ item'.quantity \in Int
          /\ Total(loan, Stock!OutOnLoan) \in Int
      BY StockTypes, StockOut, TotalRemove DEF StockInv
    <2> QED BY <2>5, <2>6, <2>7
  <1> QED BY <1>1, <1>2, <1>3, <1>4, <1>5

LEMMA StockSame ==
  StockInv => /\ item \in [quantity : Int, deleted : BOOLEAN] /\ booked \in Int
              /\ astray \subseteq Loan /\ item.quantity \in Int
  BY StockTypes DEF StockInv

LEMMA StockStart ==
  ASSUME StockInv, NEW q \in Worker, NEW j \in Quantities, NEW k \in {j, -j},
         Stock!StartMovement(q, k)
  PROVE  StockInv'
  <1> DEFINE x == [itemReq[q] EXCEPT !.at = "item", !.op = "move", !.delta = k]
  <1>1. /\ UNCHANGED <<item, loan, booked, astray>> /\ itemReq[q] = Stock!Idle
        /\ itemReq' = [itemReq EXCEPT ![q] = x]
    BY DEF Stock!StartMovement
  <1>2. k \in (-Most)..Most
    <2>1. j \in Nat /\ j <= Most /\ Most \in Nat BY StockMost, StockQuantities
    <2> QED BY <2>1
  <1>3. /\ x \in StockRequest /\ x.at = "item" /\ x.op = "move" /\ x.loan = None /\ x.delta = k
    <2>1. k \in Int BY <1>2, StockMost
    <2> QED BY <1>1, <2>1, StockIdle DEF StockRequest
  <1> HIDE DEF x
  <1>4. Asked(x) /\ ~Moved(x) BY <1>2, <1>3 DEF Asked, Moved
  <1>5. ~Moved(itemReq[q]) /\ q \notin Takers BY <1>1, StockIdle DEF Moved, Takers
  <1>6. /\ Stock!TypeOK' /\ (\A r \in Worker : Asked(itemReq[r])') /\ OneMover' /\ Stock!StockConserved'
        /\ itemReq'[q] = x /\ \A r \in Worker \ {q} : itemReq'[r] = itemReq[r]
    BY <1>1, <1>3, <1>4, <1>5, StockOnly, StockSame
  <1>7. Shortage' BY <1>1, <1>3, <1>5, <1>6, StockShort, StockSame
  <1> QED BY <1>6, <1>7 DEF StockInv

(* A request that has moved nothing and ends.                              *)
LEMMA StockFinish ==
  ASSUME StockInv, NEW q \in Worker, Stock!Finish(q), UNCHANGED <<loan, booked>>,
         item' \in [quantity : Int, deleted : BOOLEAN], item'.quantity = item.quantity,
         astray' \subseteq Loan, astray' = {} => astray = {} /\ ~Moved(itemReq[q])
  PROVE  StockInv'
  <1>1. itemReq' = [itemReq EXCEPT ![q] = Stock!Idle] BY DEF Stock!Finish
  <1>2. Asked(Stock!Idle) /\ ~Moved(Stock!Idle) BY StockIdle DEF Asked, Moved
  <1>3. item'.quantity - booked' = item.quantity - booked /\ booked' \in Int
    BY StockSame
  <1>4. /\ Stock!TypeOK' /\ (\A r \in Worker : Asked(itemReq[r])') /\ OneMover' /\ Stock!StockConserved'
        /\ itemReq'[q] = Stock!Idle /\ \A r \in Worker \ {q} : itemReq'[r] = itemReq[r]
    BY <1>1, <1>2, <1>3, StockIdle, StockOnly
  <1>5. Shortage'
    <2>1. item'.quantity >= item.quantity + (IF q \in Takers THEN itemReq[q].delta ELSE 0)
      <3>1. q \in Takers => itemReq[q].delta \in Int /\ itemReq[q].delta < 0
        BY StockTypes DEF Takers, StockInv
      <3> QED BY <3>1, StockSame
    <2> QED BY <1>4, <2>1, StockIdle, StockShort, StockSame
  <1> QED BY <1>4, <1>5 DEF StockInv

LEMMA StockCheck ==
  ASSUME StockInv, NEW q \in Worker, Stock!CheckQuantity(q)
  PROVE  StockInv'
  <1> DEFINE x == [itemReq[q] EXCEPT !.at = "move"]
  <1>1. /\ UNCHANGED <<item, loan, booked, astray>> /\ itemReq[q].at = "item" /\ ~Moved(itemReq[q])
    BY DEF Stock!CheckQuantity, Moved
  <1>2. CASE Stock!Finish(q)
    BY <1>1, <1>2, StockFinish, StockSame
  <1>3. CASE /\ itemReq' = [itemReq EXCEPT ![q] = x]
             /\ itemReq[q].delta > 0 \/ item.quantity >= -itemReq[q].delta
    <2>1. /\ x \in StockRequest /\ x.at = "move" /\ x.op = itemReq[q].op /\ x.loan = itemReq[q].loan
          /\ x.delta = itemReq[q].delta
      BY StockHere DEF StockRequest
    <2> HIDE DEF x
    <2>2. Asked(x) /\ ~Moved(x) BY <1>1, <2>1, StockHere DEF Asked, Moved
    <2>3. /\ Stock!TypeOK' /\ (\A r \in Worker : Asked(itemReq[r])') /\ OneMover' /\ Stock!StockConserved'
          /\ itemReq'[q] = x /\ \A r \in Worker \ {q} : itemReq'[r] = itemReq[r]
      BY <1>1, <1>3, <2>1, <2>2, StockOnly, StockSame
    <2>4. itemReq[q].delta \in Int BY StockHere DEF StockRequest
    <2>5. CASE itemReq[q].delta >= 0
      <3>1. q \notin Takers BY <1>1 DEF Takers
      <3>2. ~(itemReq'[q].at = "move" /\ itemReq'[q].delta < 0) BY <2>1, <2>3, <2>4, <2>5
      <3>3. Shortage' BY <1>1, <2>3, <3>1, <3>2, StockShort, StockSame
      <3> QED BY <2>3, <3>3 DEF StockInv
    <2>6. CASE itemReq[q].delta < 0
      <3>1. q \in Takers' BY <2>1, <2>3, <2>6 DEF Takers
      <3>2. item.quantity + itemReq[q].delta >= 0 BY <1>3, <2>4, <2>6, StockSame
      <3>3. Cardinality(Takers') <= Cardinality(Worker) /\ Cardinality(Takers') \in Nat
        <4>1. Takers' \subseteq Worker BY DEF Takers
        <4> QED BY <4>1, WorkerAssumption, FS_Subset, FS_CardinalityType
      <3>4. (Cardinality(Takers') - Cardinality(Worker)) * Most <= 0
        <4>1. Cardinality(Takers') - Cardinality(Worker) <= 0
              /\ Cardinality(Takers') - Cardinality(Worker) \in Int
          BY <3>3, StockRequests
        <4>2. 0 * Most = 0 BY StockMost
        <4> QED BY <4>1, <4>2, StockTimes
      <3>5. (Cardinality(Takers') - Cardinality(Worker)) * Most \in Int
        <4>1. Cardinality(Takers') - Cardinality(Worker) \in Int BY <3>3, StockRequests
        <4> QED BY <4>1, StockTimes
      <3>6. item'.quantity + itemReq'[q].delta
               >= (Cardinality(Takers') - Cardinality(Worker)) * Most
        BY <1>1, <2>1, <2>3, <2>4, <3>2, <3>4, <3>5, StockSame
      <3>7. Shortage' BY <3>1, <3>6 DEF Shortage
      <3> QED BY <2>3, <3>7 DEF StockInv
    <2> QED BY <2>4, <2>5, <2>6
  <1> QED BY <1>2, <1>3 DEF Stock!CheckQuantity, Stock!Goto

(* A movement by hand is booked when it is applied.                        *)
LEMMA StockApplyByHand ==
  ASSUME StockInv, NEW q \in Worker, Stock!ApplyMovement(q), itemReq[q].loan = None
  PROVE  StockInv'
  <1> DEFINE i == [item EXCEPT !.quantity = @ + itemReq[q].delta]
  <1>1. /\ UNCHANGED <<loan, astray>> /\ itemReq[q].at = "move" /\ ~Moved(itemReq[q]) /\ item' = i
        /\ booked' = booked + itemReq[q].delta /\ itemReq' = [itemReq EXCEPT ![q] = Stock!Idle]
    BY DEF Stock!ApplyMovement, Stock!Finish, Moved
  <1>2. itemReq[q].delta \in Int BY StockHere DEF StockRequest
  <1>3. /\ i \in [quantity : Int, deleted : BOOLEAN]
        /\ i.quantity = item.quantity + itemReq[q].delta
    BY <1>2, StockSame
  <1> HIDE DEF i
  <1>4. booked' \in Int /\ item'.quantity - booked' = item.quantity - booked
    BY <1>1, <1>2, <1>3, StockSame
  <1>5. Asked(Stock!Idle) /\ ~Moved(Stock!Idle) BY StockIdle DEF Asked, Moved
  <1>6. /\ Stock!TypeOK' /\ (\A r \in Worker : Asked(itemReq[r])') /\ OneMover' /\ Stock!StockConserved'
        /\ itemReq'[q] = Stock!Idle /\ \A r \in Worker \ {q} : itemReq'[r] = itemReq[r]
    BY <1>1, <1>3, <1>4, <1>5, StockIdle, StockOnly, StockSame
  <1>7. item'.quantity >= item.quantity + (IF q \in Takers THEN itemReq[q].delta ELSE 0)
    BY <1>1, <1>2, <1>3, StockSame DEF Takers
  <1>8. Shortage' BY <1>1, <1>3, <1>6, <1>7, StockIdle, StockShort
  <1> QED BY <1>6, <1>8 DEF StockInv

LEMMA StockAllowed ==
  /\ Stock!Allowed("borrow") = {"APPROVED"} /\ Stock!Allowed("return") = {"BORROWED", "OVERDUE"}
  /\ Stock!Written("approve") = "APPROVED" /\ Stock!Written("reject") = "REJECTED"
  /\ Stock!Written("borrow") = "BORROWED" /\ Stock!Written("return") = "RETURNED"
  /\ Stock!Written("cancel") = "CANCELLED"
  /\ \A op \in {"approve", "reject", "borrow", "return", "cancel"} : "NONE" \notin Stock!Allowed(op)
  BY DEF Stock!Allowed, Stock!Written

(* The units of a loan leave the shelf, or come back to it.                *)
LEMMA StockApplyLoan ==
  ASSUME StockInv, NEW q \in Worker, Stock!ApplyMovement(q), itemReq[q].loan # None
  PROVE  StockInv'
  <1> DEFINE i == [item EXCEPT !.quantity = @ + itemReq[q].delta]
             x == [itemReq[q] EXCEPT !.at = "status"]
  <1>0. PICK l \in Loan : l = itemReq[q].loan BY StockHere DEF StockRequest
  <1>1. /\ UNCHANGED <<loan, booked>> /\ itemReq[q].at = "move" /\ ~Moved(itemReq[q]) /\ item' = i
        /\ astray' = IF \/ loan[l].status \notin Stock!Allowed(itemReq[q].op)
                        \/ \E r \in Worker : Stock!HasMoved(r, l)
                     THEN astray \cup {l} ELSE astray
        /\ itemReq' = [itemReq EXCEPT ![q] = x]
    BY <1>0 DEF Stock!ApplyMovement, Stock!Goto, Moved
  <1>2. /\ itemReq[q].delta \in Int /\ itemReq[q].op \in {"borrow", "return"}
        /\ loan[l].status # "NONE"
        /\ itemReq[q].op = "borrow" => itemReq[q].delta = -loan[l].quantity
        /\ itemReq[q].op = "return" => itemReq[q].delta = loan[l].quantity
    BY <1>0, <1>1, StockHere DEF StockRequest, Asked
  <1>3. /\ i \in [quantity : Int, deleted : BOOLEAN]
        /\ i.quantity = item.quantity + itemReq[q].delta
    BY <1>2, StockSame
  <1>4. /\ x \in StockRequest /\ x.at = "status" /\ x.op = itemReq[q].op /\ x.loan = l
    BY <1>0, StockHere DEF StockRequest
  <1> HIDE DEF i, x
  <1>5. /\ itemReq' \in [Worker -> StockRequest] /\ itemReq'[q] = x
        /\ \A r \in Worker \ {q} : itemReq'[r] = itemReq[r]
    BY <1>1, <1>4, StockMoves, StockTypes DEF StockInv
  <1>6. Stock!TypeOK' BY <1>1, <1>3, <1>5, StockTyped, StockTypes DEF StockInv
  <1>7. \A r \in Worker : Asked(itemReq[r])'
    <2> SUFFICES ASSUME NEW r \in Worker PROVE Asked(itemReq[r])'
      OBVIOUS
    <2>1. CASE r = q BY <1>1, <1>2, <1>4, <1>5, <2>1 DEF Asked
    <2>2. CASE r # q BY <1>1, <1>5, <2>2 DEF StockInv, Asked
    <2> QED BY <2>1, <2>2
  <1>8. Shortage'
    <2>1. item'.quantity >= item.quantity + (IF q \in Takers THEN itemReq[q].delta ELSE 0)
      <3>1. q \notin Takers => itemReq[q].delta >= 0 BY <1>1, <1>2 DEF Takers
      <3> QED BY <1>1, <1>2, <1>3, <3>1, StockSame
    <2> QED BY <1>1, <1>3, <1>4, <1>5, <2>1, StockShort
  <1>9. ASSUME astray' = {}
        PROVE  /\ astray = {} /\ loan[l].status \in Stock!Allowed(itemReq[q].op)
               /\ \A r \in Worker : ~(Moved(itemReq[r]) /\ itemReq[r].loan = l)
    BY <1>1, <1>9, StockHere
  <1>10. OneMover'
    <2> SUFFICES ASSUME astray' = {}, NEW r \in Worker, Moved(itemReq'[r])
                 PROVE  /\ \A t \in Worker \ {r} : ~(Moved(itemReq'[t]) /\ itemReq'[t].loan = itemReq'[r].loan)
                        /\ itemReq'[r].op = "return" => loan'[itemReq'[r].loan].status = "BORROWED"
      BY DEF OneMover, Moved
    <2>1. CASE r = q
      <3>1. \A t \in Worker \ {r} : ~(Moved(itemReq'[t]) /\ itemReq'[t].loan = l)
        BY <1>5, <1>9, <2>1
      <3>2. itemReq[q].op = "return" => loan[l].status = "BORROWED"
        <4>1. loan[l].status # "OVERDUE" BY StockTypes DEF StockInv, LoanRow
        <4> QED BY <1>9, <4>1, StockAllowed
      <3> QED BY <1>1, <1>4, <1>5, <2>1, <3>1, <3>2
    <2>2. CASE r # q
      <3>1. Moved(itemReq[r]) /\ itemReq'[r] = itemReq[r] /\ itemReq[r].loan # l BY <1>5, <1>9, <2>2
      <3> QED BY <1>1, <1>4, <1>5, <1>9, <2>2, <3>1 DEF StockInv, OneMover
    <2> QED BY <2>1, <2>2
  <1>11. Stock!StockConserved'
    <2>1. SUFFICES ASSUME astray' = {}
                   PROVE  item'.quantity + Total(loan', Stock!OutOnLoan') = booked'
      BY StockTotalNext
    <2>2. item.quantity + Total(loan, Stock!OutOnLoan) = booked
      BY <1>9, <2>1, StockTotal DEF StockInv
    <2>3. \A r \in Worker : ~Stock!HasMoved(r, l) BY <1>9, <2>1, StockHere
    <2>4. ASSUME NEW m \in Loan \ {l} PROVE m \in Stock!OutOnLoan' <=> m \in Stock!OutOnLoan
      <3>1. \A r \in Worker : /\ Stock!HasMoved(r, m)' <=> Stock!HasMoved(r, m)
                              /\ Stock!HasMoved(r, m) => itemReq'[r].op = itemReq[r].op
        BY <1>0, <1>4, <1>5 DEF Stock!HasMoved
      <3> QED BY <1>1, <3>1 DEF Stock!OutOnLoan, Stock!Lent
    <2>5. Stock!HasMoved(q, l)' /\ \A r \in Worker \ {q} : ~Stock!HasMoved(r, l)'
      BY <1>2, <1>4, <1>5, <2>3 DEF Stock!HasMoved, Stock!Moving
    <2>6. Stock!OutOnLoan \subseteq Loan /\ Stock!OutOnLoan' \subseteq Loan BY DEF Stock!OutOnLoan
    <2>7. /\ IsFiniteSet(Stock!OutOnLoan) /\ \A m \in Loan : loan[m].quantity \in Int
          /\ item.quantity \in Int /\ booked \in Int
      BY StockOut, StockSame DEF StockInv
    <2>8. CASE itemReq[q].op = "borrow"
      <3>1. loan[l].status = "APPROVED" BY <1>9, <2>1, <2>8, StockAllowed
      <3>2. l \notin Stock!OutOnLoan BY <2>3, <3>1 DEF Stock!OutOnLoan, Stock!Lent
      <3>3. l \in Stock!OutOnLoan' BY <1>4, <1>5, <2>5, <2>8 DEF Stock!OutOnLoan
      <3>4. Stock!OutOnLoan' \ {l} = Stock!OutOnLoan BY <2>4, <2>6, <3>2
      <3>5. IsFiniteSet(Stock!OutOnLoan')
        <4>1. Stock!OutOnLoan' = Stock!OutOnLoan \cup {l} BY <3>3, <3>4
        <4> QED BY <2>7, <4>1, FS_AddElement
      <3>6. Total(loan, Stock!OutOnLoan') = loan[l].quantity + Total(loan, Stock!OutOnLoan)
        BY <2>6, <2>7, <3>3, <3>4, <3>5, TotalRemove
      <3>7. Total(loan, Stock!OutOnLoan) \in Int BY <2>6, <2>7, TotalRemove
      <3> QED BY <1>1, <1>2, <1>3, <2>2, <2>7, <2>8, <3>6, <3>7
    <2>9. CASE itemReq[q].op = "return"
      <3>1. loan[l].status = "BORROWED"
        <4>1. loan[l].status # "OVERDUE" BY StockTypes DEF StockInv, LoanRow
        <4> QED BY <1>9, <2>1, <2>9, <4>1, StockAllowed
      <3>2. l \in Stock!OutOnLoan BY <2>3, <3>1 DEF Stock!OutOnLoan, Stock!Lent
      <3>3. l \notin Stock!OutOnLoan'
        <4>1. itemReq'[q].op = "return" BY <1>4, <1>5, <2>9
        <4> QED BY <2>5, <4>1 DEF Stock!OutOnLoan
      <3>4. Stock!OutOnLoan' = Stock!OutOnLoan \ {l} BY <2>4, <2>6, <3>3
      <3>5. Total(loan, Stock!OutOnLoan) = loan[l].quantity + Total(loan, Stock!OutOnLoan \ {l})
        BY <2>6, <2>7, <3>2, TotalRemove
      <3>6. Total(loan, Stock!OutOnLoan \ {l}) \in Int
        <4>1. IsFiniteSet(Stock!OutOnLoan \ {l}) BY <2>7, FS_Subset
        <4> QED BY <2>6, <2>7, <4>1, TotalRemove
      <3> QED BY <1>1, <1>2, <1>3, <2>2, <2>7, <2>9, <3>4, <3>5, <3>6
    <2> QED BY <1>2, <2>8, <2>9
  <1> QED BY <1>6, <1>7, <1>8, <1>10, <1>11 DEF StockInv

LEMMA StockTotalSame ==
  ASSUME Stock!TypeOK, \A m \in Stock!OutOnLoan : loan'[m].quantity = loan[m].quantity
  PROVE  Total(loan, Stock!OutOnLoan) = Total(loan', Stock!OutOnLoan)
  BY StockOut, TotalSame

(* A step that writes one loan, whose units stay where they are.           *)
LEMMA StockLoan ==
  ASSUME StockInv, NEW l \in Loan, NEW written \in LoanRow, loan' = [loan EXCEPT ![l] = written],
         UNCHANGED <<item, itemReq, booked, astray>>,
         loan[l].status # "NONE" => written.status # "NONE",
         written.status = "BORROWED" <=> loan[l].status = "BORROWED",
         written.quantity = loan[l].quantity \/ loan[l].status = "NONE"
  PROVE  StockInv'
  <1>1. /\ loan' \in [Loan -> LoanRow] /\ loan'[l] = written
        /\ \A m \in Loan \ {l} : loan'[m] = loan[m]
    BY StockTypes DEF StockInv
  <1>2. Stock!TypeOK' BY <1>1, StockTyped, StockTypes DEF StockInv
  <1>3. ASSUME NEW r \in Worker, Moved(itemReq[r]) \/ itemReq[r].at \in {"item", "move", "status"},
               itemReq[r].op # "move"
        PROVE  /\ itemReq[r].loan \in Loan /\ loan[itemReq[r].loan].status # "NONE"
               /\ loan'[itemReq[r].loan].status # "NONE"
               /\ loan'[itemReq[r].loan].quantity = loan[itemReq[r].loan].quantity
    <2>1. itemReq[r].loan \in Loan /\ loan[itemReq[r].loan].status # "NONE"
      BY <1>3, StockHere DEF Asked, Moved
    <2> QED BY <1>1, <2>1
  <1>4. \A r \in Worker : Asked(itemReq[r])' BY <1>3 DEF StockInv, Asked
  <1>5. \A m \in Loan : loan'[m].status = "BORROWED" <=> loan[m].status = "BORROWED"
    BY <1>1
  <1>6. OneMover'
    <2>1. \A r \in Worker : Moved(itemReq[r]) => itemReq[r].loan \in Loan
      <3> SUFFICES ASSUME NEW r \in Worker, Moved(itemReq[r]) PROVE itemReq[r].loan \in Loan
        OBVIOUS
      <3>1. itemReq[r].op # "move" BY DEF Moved, Stock!Moving
      <3> QED BY <1>3, <3>1
    <2> QED BY <1>5, <2>1 DEF StockInv, OneMover, Moved
  <1>7. Shortage' BY DEF StockInv, Shortage, Takers
  <1>8. Stock!StockConserved'
    <2>1. SUFFICES ASSUME astray = {}
                   PROVE  item.quantity + Total(loan', Stock!OutOnLoan') = booked
      BY StockTotalNext
    <2>2. Stock!OutOnLoan' = Stock!OutOnLoan
      <3>1. Stock!Lent' = Stock!Lent BY <1>5 DEF Stock!Lent
      <3> QED BY <3>1 DEF Stock!OutOnLoan, Stock!HasMoved
    <2>3. ASSUME NEW m \in Stock!OutOnLoan PROVE loan'[m].quantity = loan[m].quantity
      <3>1. m \in Loan BY DEF Stock!OutOnLoan
      <3>2. loan[m].status # "NONE"
        <4>1. CASE m \in Stock!Lent BY <4>1 DEF Stock!Lent
        <4>2. CASE \E r \in Worker : Stock!HasMoved(r, m) /\ itemReq[r].op = "borrow"
          <5>1. PICK r \in Worker : Stock!HasMoved(r, m) /\ itemReq[r].op = "borrow" BY <4>2
          <5> QED BY <1>3, <5>1 DEF Stock!HasMoved
        <4> QED BY <4>1, <4>2 DEF Stock!OutOnLoan
      <3> QED BY <1>1, <3>1, <3>2
    <2>4. Total(loan, Stock!OutOnLoan) = Total(loan', Stock!OutOnLoan)
      BY <2>3, StockTotalSame DEF StockInv
    <2> QED BY <2>1, <2>2, <2>4, StockTotal DEF StockInv
  <1> QED BY <1>2, <1>4, <1>6, <1>7, <1>8 DEF StockInv

LEMMA StockCreateLoan ==
  ASSUME StockInv, NEW l \in Loan, NEW k \in Quantities, Stock!CreateLoan(l, k)
  PROVE  StockInv'
  <1> DEFINE written == [status |-> "REQUESTED", quantity |-> k, deleted |-> FALSE]
  <1>1. /\ loan' = [loan EXCEPT ![l] = written] /\ UNCHANGED <<item, itemReq, booked, astray>>
        /\ loan[l].status = "NONE"
    BY DEF Stock!CreateLoan, Stock!NoLoan
  <1>2. written \in LoanRow /\ written.status = "REQUESTED" BY DEF LoanRow
  <1> HIDE DEF written
  <1> QED BY <1>1, <1>2, StockLoan

LEMMA StockDeleteLoan ==
  ASSUME StockInv, NEW l \in Loan, Stock!DeleteLoan(l)
  PROVE  StockInv'
  <1> DEFINE written == [loan[l] EXCEPT !.deleted = TRUE]
  <1>1. /\ loan' = [loan EXCEPT ![l] = written] /\ UNCHANGED <<item, itemReq, booked, astray>>
        /\ loan[l] # Stock!NoLoan /\ loan[l] \in LoanRow
    BY StockTypes DEF Stock!DeleteLoan, StockInv
  <1>2. /\ written \in LoanRow /\ written.status = loan[l].status /\ written.quantity = loan[l].quantity
    BY <1>1 DEF LoanRow
  <1> HIDE DEF written
  <1> QED BY <1>1, <1>2, StockLoan

LEMMA StockReadLoan ==
  ASSUME StockInv, NEW q \in Worker, NEW l \in Loan,
         NEW op \in {"approve", "reject", "borrow", "return", "cancel"}, Stock!ReadLoan(q, l, op)
  PROVE  StockInv'
  <1> DEFINE d == CASE op = "borrow" -> -loan[l].quantity
                    [] op = "return" -> loan[l].quantity
                    [] OTHER         -> 0
             a == IF op \in Stock!Moving THEN "item" ELSE "status"
             x == [at |-> a, op |-> op, loan |-> l, delta |-> d]
  <1>1. /\ UNCHANGED <<item, loan, booked, astray>> /\ itemReq[q] = Stock!Idle
        /\ itemReq' = [itemReq EXCEPT ![q] = x] /\ loan[l].status \in Stock!Allowed(op)
    BY DEF Stock!ReadLoan
  <1>2. /\ d \in Int
        /\ op = "borrow" => d = -loan[l].quantity
        /\ op = "return" => d = loan[l].quantity
    <2>1. loan[l].quantity \in Int BY StockOut DEF StockInv
    <2> QED BY <2>1
  <1>3. a \in {"item", "status"} /\ (a = "item" <=> op \in {"borrow", "return"})
    BY DEF Stock!Moving
  <1> HIDE DEF d, a
  <1>4. /\ x \in StockRequest /\ x.at = a /\ x.op = op /\ x.loan = l /\ x.delta = d
    <2>1. /\ x.at = a /\ x.op = op /\ x.loan = l /\ x.delta = d
      OBVIOUS
    <2>2. a \in {"idle", "item", "move", "status", "delete"} BY <1>3
    <2>3. op \in {"none", "move", "approve", "reject", "borrow", "return", "cancel", "delete"}
          /\ l \in Loan \cup {None}
      OBVIOUS
    <2>4. x \in StockRequest BY <1>2, <2>2, <2>3 DEF StockRequest
    <2> QED BY <2>1, <2>4
  <1> HIDE DEF x
  <1>5. loan[l].status # "NONE" BY <1>1, StockAllowed
  <1>6. Asked(x) /\ ~Moved(x)
    <2>1. CASE op \in {"borrow", "return"}
      <3>1. x.at = "item" BY <1>3, <1>4, <2>1
      <3>2. CASE op = "borrow"
        <4>1. x.delta = -loan[l].quantity BY <1>2, <1>4, <3>2
        <4> QED BY <1>4, <1>5, <3>1, <3>2, <4>1 DEF Asked, Moved
      <3>3. CASE op = "return"
        <4>1. x.delta = loan[l].quantity BY <1>2, <1>4, <3>3
        <4> QED BY <1>4, <1>5, <3>1, <3>3, <4>1 DEF Asked, Moved
      <3> QED BY <2>1, <3>2, <3>3
    <2>2. CASE op \notin {"borrow", "return"}
      <3>1. x.at = "status" BY <1>3, <1>4, <2>2
      <3> QED BY <1>4, <1>5, <2>2, <3>1 DEF Asked, Moved, Stock!Moving
    <2> QED BY <2>1, <2>2
  <1>7. ~Moved(itemReq[q]) /\ q \notin Takers BY <1>1, StockIdle DEF Moved, Takers
  <1>8. /\ Stock!TypeOK' /\ (\A r \in Worker : Asked(itemReq[r])') /\ OneMover' /\ Stock!StockConserved'
        /\ itemReq'[q] = x /\ \A r \in Worker \ {q} : itemReq'[r] = itemReq[r]
    BY <1>1, <1>4, <1>6, <1>7, StockOnly, StockSame
  <1>9. Shortage' BY <1>1, <1>3, <1>4, <1>7, <1>8, StockShort, StockSame
  <1> QED BY <1>8, <1>9 DEF StockInv

(* What was moved is what the new status says.                             *)
LEMMA StockWriteLoan ==
  ASSUME StockInv, NEW q \in Worker, Stock!WriteLoan(q)
  PROVE  StockInv'
  <1>0. PICK l \in Loan : l = itemReq[q].loan
    BY StockHere DEF Stock!WriteLoan, Asked, Moved
  <1> DEFINE written == [loan[l] EXCEPT !.status = Stock!Written(itemReq[q].op)]
  <1>1. /\ UNCHANGED <<item, booked>> /\ itemReq[q].at = "status"
        /\ loan' = [loan EXCEPT ![l] = written] /\ itemReq' = [itemReq EXCEPT ![q] = Stock!Idle]
        /\ astray' = IF itemReq[q].op \notin Stock!Moving /\ loan[l].status = "BORROWED"
                     THEN astray \cup {l} ELSE astray
    BY <1>0 DEF Stock!WriteLoan, Stock!Finish
  <1>2. /\ itemReq[q].op \in {"approve", "reject", "borrow", "return", "cancel"}
        /\ l \in Loan /\ loan[l].status # "NONE"
    BY <1>0, <1>1, StockHere DEF Asked
  <1>3. /\ written \in LoanRow /\ written.status = Stock!Written(itemReq[q].op) /\ written.status # "NONE"
        /\ written.quantity = loan[l].quantity
    BY <1>2, StockTypes, StockAllowed DEF StockInv, LoanRow
  <1>4. written.status = "BORROWED" <=> itemReq[q].op = "borrow"
    BY <1>2, <1>3, StockAllowed
  <1> HIDE DEF written
  <1>5. /\ itemReq' \in [Worker -> StockRequest] /\ itemReq'[q] = Stock!Idle
        /\ \A r \in Worker \ {q} : itemReq'[r] = itemReq[r]
    BY <1>1, StockIdle, StockMoves, StockTypes DEF StockInv
  <1>6. /\ loan' \in [Loan -> LoanRow] /\ loan'[l] = written
        /\ \A m \in Loan \ {l} : loan'[m] = loan[m]
        /\ \A m \in Loan : loan'[m].quantity = loan[m].quantity
    BY <1>1, <1>2, <1>3, StockTypes DEF StockInv
  <1>7. Stock!TypeOK'
    <2>1. astray' \subseteq Loan BY <1>1, <1>2, StockSame
    <2> QED BY <1>1, <1>5, <1>6, <2>1, StockTyped, StockSame
  <1>8. \A r \in Worker : Asked(itemReq[r])'
    <2> SUFFICES ASSUME NEW r \in Worker PROVE Asked(itemReq[r])'
      OBVIOUS
    <2>1. CASE r = q BY <1>5, <2>1, StockIdle DEF Asked
    <2>2. CASE r # q
      <3>1. Asked(itemReq[r]) /\ itemReq'[r] = itemReq[r] BY <1>5, <2>2 DEF StockInv
      <3>2. \A m \in Loan : loan[m].status # "NONE" => loan'[m].status # "NONE"
        BY <1>3, <1>6
      <3> QED BY <1>6, <3>1, <3>2 DEF Asked
    <2> QED BY <2>1, <2>2
  <1>9. ASSUME astray' = {}
        PROVE  /\ astray = {}
               /\ itemReq[q].op \in Stock!Moving \/ loan[l].status # "BORROWED"
               /\ itemReq[q].op \in Stock!Moving =>
                     \A r \in Worker \ {q} : ~(Moved(itemReq[r]) /\ itemReq[r].loan = l)
    BY <1>0, <1>1, <1>9 DEF StockInv, OneMover, Moved
  <1>10. OneMover'
    <2> SUFFICES ASSUME astray' = {}, NEW r \in Worker, Moved(itemReq'[r])
                 PROVE  /\ \A t \in Worker \ {r} : ~(Moved(itemReq'[t]) /\ itemReq'[t].loan = itemReq'[r].loan)
                        /\ itemReq'[r].op = "return" => loan'[itemReq'[r].loan].status = "BORROWED"
      BY DEF OneMover, Moved
    <2>1. r # q /\ Moved(itemReq[r]) /\ itemReq'[r] = itemReq[r]
      <3>1. ~Moved(Stock!Idle) BY StockIdle DEF Moved
      <3> QED BY <1>5, <3>1
    <2>2. /\ \A t \in Worker \ {r} : ~(Moved(itemReq[t]) /\ itemReq[t].loan = itemReq[r].loan)
          /\ itemReq[r].op = "return" => loan[itemReq[r].loan].status = "BORROWED"
      BY <1>9, <2>1 DEF StockInv, OneMover
    <2>3. \A t \in Worker \ {r} : ~(Moved(itemReq'[t]) /\ itemReq'[t].loan = itemReq'[r].loan)
      <3> SUFFICES ASSUME NEW t \in Worker \ {r} 
                   PROVE  ~(Moved(itemReq'[t]) /\ itemReq'[t].loan = itemReq'[r].loan)
        OBVIOUS
      <3>1. CASE t = q BY <1>5, <3>1, StockIdle DEF Moved
      <3>2. CASE t # q BY <1>5, <2>1, <2>2, <3>2
      <3> QED BY <3>1, <3>2
    <2>4. ASSUME itemReq'[r].op = "return" PROVE loan'[itemReq'[r].loan].status = "BORROWED"
      <3>1. loan[itemReq[r].loan].status = "BORROWED" BY <2>1, <2>2, <2>4
      <3>2. itemReq[r].loan \in Loan
        <4>1. Asked(itemReq[r]) BY DEF StockInv
        <4> QED BY <2>1, <4>1 DEF Asked, Moved, Stock!Moving
      <3>3. itemReq[r].loan # l BY <1>9, <2>1, <3>1
      <3> QED BY <1>6, <2>1, <3>1, <3>2, <3>3
    <2> QED BY <2>3, <2>4
  <1>11. Stock!StockConserved'
    <2>1. SUFFICES ASSUME astray' = {}
                   PROVE  item.quantity + Total(loan', Stock!OutOnLoan') = booked
      BY <1>1, StockTotalNext
    <2>2. ASSUME NEW m \in Loan \ {l} PROVE m \in Stock!OutOnLoan' <=> m \in Stock!OutOnLoan
      <3>1. \A r \in Worker : /\ Stock!HasMoved(r, m)' <=> Stock!HasMoved(r, m)
                              /\ Stock!HasMoved(r, m) => itemReq'[r].op = itemReq[r].op
        BY <1>0, <1>5, StockIdle DEF Stock!HasMoved
      <3>2. m \in Stock!Lent' <=> m \in Stock!Lent BY <1>6 DEF Stock!Lent
      <3> QED BY <3>1, <3>2 DEF Stock!OutOnLoan
    <2>3. l \in Stock!OutOnLoan' <=> l \in Stock!OutOnLoan
      <3>1. ~Stock!HasMoved(q, l)' BY <1>5, StockIdle DEF Stock!HasMoved
      <3>2. l \in Stock!Lent' <=> itemReq[q].op = "borrow"
        BY <1>2, <1>4, <1>6 DEF Stock!Lent
      <3>3. CASE itemReq[q].op \in Stock!Moving
        <4>1. \A r \in Worker \ {q} : ~Stock!HasMoved(r, l) /\ ~Stock!HasMoved(r, l)'
          BY <1>5, <1>9, <2>1, <3>3 DEF Stock!HasMoved, Moved
        <4>2. Stock!HasMoved(q, l) BY <1>0, <1>1, <3>3 DEF Stock!HasMoved
        <4>3. l \in Stock!OutOnLoan <=> itemReq[q].op = "borrow"
          BY <1>2, <3>3, <4>1, <4>2 DEF Stock!OutOnLoan, Stock!Moving
        <4>4. l \in Stock!OutOnLoan' <=> l \in Stock!Lent' BY <1>2, <3>1, <4>1 DEF Stock!OutOnLoan
        <4> QED BY <3>2, <4>3, <4>4
      <3>4. CASE itemReq[q].op \notin Stock!Moving
        <4>1. l \notin Stock!Lent /\ l \notin Stock!Lent'
          BY <1>9, <2>1, <3>2, <3>4 DEF Stock!Lent, Stock!Moving
        <4>2. \A r \in Worker : /\ Stock!HasMoved(r, l)' <=> Stock!HasMoved(r, l)
                                /\ Stock!HasMoved(r, l) => itemReq'[r].op = itemReq[r].op
          <5> SUFFICES ASSUME NEW r \in Worker
                       PROVE  /\ Stock!HasMoved(r, l)' <=> Stock!HasMoved(r, l)
                              /\ Stock!HasMoved(r, l) => itemReq'[r].op = itemReq[r].op
            OBVIOUS
          <5>1. CASE r = q BY <3>1, <3>4, <5>1 DEF Stock!HasMoved
          <5>2. CASE r # q
            <6>1. itemReq'[r] = itemReq[r] BY <1>5, <5>2
            <6>2. itemReq'[q].at = "idle" BY <1>5, StockIdle
            <6> QED BY <1>1, <5>2, <6>1 DEF Stock!HasMoved
          <5> QED BY <5>1, <5>2
        <4> QED BY <1>2, <4>1, <4>2 DEF Stock!OutOnLoan
      <3> QED BY <3>3, <3>4
    <2>4. Stock!OutOnLoan' = Stock!OutOnLoan
      <3>1. Stock!OutOnLoan \subseteq Loan /\ Stock!OutOnLoan' \subseteq Loan BY DEF Stock!OutOnLoan
      <3> QED BY <2>2, <2>3, <3>1
    <2>5. /\ IsFiniteSet(Stock!OutOnLoan) /\ Stock!OutOnLoan \subseteq Loan
          /\ \A m \in Stock!OutOnLoan : loan[m].quantity \in Int
      BY StockOut DEF StockInv
    <2>6. \A m \in Stock!OutOnLoan : loan[m].quantity = loan'[m].quantity BY <1>6, <2>5
    <2>7. Total(loan, Stock!OutOnLoan) = Total(loan', Stock!OutOnLoan)
      BY <2>6, StockTotalSame DEF StockInv
    <2>8. item.quantity + Total(loan, Stock!OutOnLoan) = booked
      BY <1>9, <2>1, StockTotal DEF StockInv
    <2> QED BY <2>4, <2>7, <2>8
  <1>12. Shortage'
    <2>1. q \notin Takers BY <1>1 DEF Takers
    <2> QED BY <1>1, <1>5, <2>1, StockIdle, StockShort, StockSame
  <1> QED BY <1>7, <1>8, <1>10, <1>11, <1>12 DEF StockInv

LEMMA StockCountLent ==
  ASSUME StockInv, NEW q \in Worker, Stock!CountLent(q)
  PROVE  StockInv'
  <1> DEFINE x == [itemReq[q] EXCEPT !.at = "delete", !.op = "delete"]
  <1>1. /\ UNCHANGED <<item, loan, booked, astray>> /\ itemReq[q] = Stock!Idle
        /\ itemReq' = [itemReq EXCEPT ![q] = x]
    BY DEF Stock!CountLent
  <1>2. x \in StockRequest /\ x.at = "delete" BY <1>1, StockIdle DEF StockRequest
  <1> HIDE DEF x
  <1>3. Asked(x) /\ ~Moved(x) BY <1>2 DEF Asked, Moved
  <1>4. ~Moved(itemReq[q]) /\ q \notin Takers BY <1>1, StockIdle DEF Moved, Takers
  <1>5. /\ Stock!TypeOK' /\ (\A r \in Worker : Asked(itemReq[r])') /\ OneMover' /\ Stock!StockConserved'
        /\ itemReq'[q] = x /\ \A r \in Worker \ {q} : itemReq'[r] = itemReq[r]
    BY <1>1, <1>2, <1>3, <1>4, StockOnly, StockSame
  <1>6. Shortage' BY <1>1, <1>2, <1>4, <1>5, StockShort, StockSame
  <1> QED BY <1>5, <1>6 DEF StockInv

LEMMA StockDeleteItem ==
  ASSUME StockInv, NEW q \in Worker, Stock!DeleteItem(q)
  PROVE  StockInv'
  <1> DEFINE i == [item EXCEPT !.deleted = TRUE]
  <1>1. /\ item' = i /\ Stock!Finish(q) /\ UNCHANGED <<loan, booked, astray>> /\ ~Moved(itemReq[q])
    BY DEF Stock!DeleteItem, Moved
  <1>2. i \in [quantity : Int, deleted : BOOLEAN] /\ i.quantity = item.quantity
    BY StockSame
  <1> HIDE DEF i
  <1> QED BY <1>1, <1>2, StockFinish, StockSame

(* A request that ends after it moved a loan's stock leaves it astray.     *)
LEMMA StockAbandon ==
  ASSUME StockInv, NEW q \in Worker, Stock!Abandon(q)
  PROVE  StockInv'
  <1>1. /\ Stock!Finish(q) /\ UNCHANGED <<item, loan, booked>>
        /\ astray' = astray \cup {l \in Loan : Stock!HasMoved(q, l)}
    BY DEF Stock!Abandon
  <1>2. astray' \subseteq Loan BY <1>1, StockSame
  <1>3. Moved(itemReq[q]) => itemReq[q].loan \in Loan /\ Stock!HasMoved(q, itemReq[q].loan)
    BY StockHere DEF Asked, Moved, Stock!Moving
  <1>4. astray' = {} => astray = {} /\ ~Moved(itemReq[q]) BY <1>1, <1>3
  <1> QED BY <1>1, <1>2, <1>4, StockFinish, StockSame

LEMMA StockStep == StockInv /\ [Stock!Next]_(Stock!vars) => StockInv'
  <1> SUFFICES ASSUME StockInv, [Stock!Next]_(Stock!vars) PROVE StockInv'
    OBVIOUS
  <1>1. CASE UNCHANGED Stock!vars
    <2>1. UNCHANGED <<item, loan, itemReq, booked, astray>> BY <1>1 DEF Stock!vars
    <2>2. UNCHANGED Stock!Units(Stock!OutOnLoan)
      BY <2>1 DEF Stock!Units, Stock!OutOnLoan, Stock!Lent, Stock!HasMoved, Stock!MapThenSumSet,
                  Stock!MapThenFoldSet
    <2> QED BY <2>1, <2>2 DEF StockInv, Stock!TypeOK, Asked, OneMover, Moved, Shortage, Takers,
                  Stock!StockConserved
  <1>2. CASE \E l \in Loan, k \in Quantities : Stock!CreateLoan(l, k)
    BY <1>2, StockCreateLoan
  <1>3. CASE \E l \in Loan : Stock!DeleteLoan(l) BY <1>3, StockDeleteLoan
  <1>4. ASSUME NEW q \in Worker, Stock!Move(q) PROVE StockInv'
    <2>1. CASE \E k \in Quantities : Stock!StartMovement(q, k) \/ Stock!StartMovement(q, -k)
      BY <2>1, StockStart
    <2>2. CASE Stock!CheckQuantity(q) BY <2>2, StockCheck
    <2>3. CASE Stock!ApplyMovement(q) BY <2>3, StockApplyByHand, StockApplyLoan
    <2> QED BY <1>4, <2>1, <2>2, <2>3 DEF Stock!Move
  <1>5. ASSUME NEW q \in Worker, Stock!Lend(q) PROVE StockInv'
    BY <1>5, StockReadLoan, StockWriteLoan DEF Stock!Lend
  <1>6. ASSUME NEW q \in Worker, Stock!Delete(q) PROVE StockInv'
    BY <1>6, StockCountLent, StockDeleteItem DEF Stock!Delete
  <1>7. ASSUME NEW q \in Worker, Stock!Abandon(q) PROVE StockInv'
    BY <1>7, StockAbandon
  <1> QED BY <1>1, <1>2, <1>3, <1>4, <1>5, <1>6, <1>7 DEF Stock!Next

LEMMA StockShortage == StockInv => Stock!ShortageBounded
  <1> SUFFICES ASSUME StockInv PROVE Stock!ShortageBounded
    OBVIOUS
  <1> DEFINE n == Cardinality(Worker)
             k == Cardinality(Takers)
  <1>1. n \in Int /\ n >= 1 /\ item.quantity \in Int BY StockRequests, StockSame
  <1>2. (1 - n) * Most = -(n - 1) * Most /\ (1 - n) * Most \in Int
    <2>1. 1 - n \in Int BY <1>1
    <2> QED BY <1>1, <2>1, StockTimes
  <1>3. item.quantity >= (1 - n) * Most
    <2>1. CASE Takers = {} BY <2>1 DEF StockInv, Shortage
    <2>2. CASE Takers # {}
      <3>1. PICK q \in Takers : item.quantity + itemReq[q].delta >= (k - n) * Most
        BY <2>2 DEF StockInv, Shortage
      <3>2. itemReq[q].delta \in Int /\ itemReq[q].delta < 0
        BY StockTypes DEF Takers, StockInv
      <3>3. k \in Nat /\ k >= 1
        <4>1. Takers \subseteq Worker BY DEF Takers
        <4>2. IsFiniteSet(Takers) BY <4>1, WorkerAssumption, FS_Subset
        <4>3. k \in Nat /\ k # 0 BY <2>2, <4>2, FS_CardinalityType, FS_EmptySet
        <4> QED BY <4>3
      <3> HIDE DEF k, n
      <3>4. (1 - n) * Most <= (k - n) * Most /\ (k - n) * Most \in Int
        <4>1. 1 - n \in Int /\ k - n \in Int /\ 1 - n <= k - n BY <1>1, <3>3
        <4> QED BY <4>1, StockTimes
      <3> QED BY <1>1, <1>2, <3>1, <3>2, <3>4
    <2> QED BY <2>1, <2>2
  <1> QED BY <1>2, <1>3, StockCounts DEF Stock!ShortageBounded, Most

LEMMA StockMeaning == StockInv => Stock!TypeOK /\ Stock!StockConserved /\ Stock!ShortageBounded
  BY StockShortage DEF StockInv

(* InventoryStock: every unit is accounted for, and the quantity falls     *)
(* below zero by no more than the requests that raced took                 *)
(* (createMovement), for any quantities and number of loans.               *)
THEOREM StockSafe ==
    Stock!Spec => [](Stock!TypeOK /\ Stock!StockConserved /\ Stock!ShortageBounded)
  BY StockInit, StockStep, StockMeaning, PTL DEF Stock!Spec

-----------------------------------------------------------------------------
(* LeaveRequests.  What an update has read are dates that matched at that  *)
(* moment, or none.                                                        *)

LeaveStatus == {"NONE", "PENDING", "APPROVED", "REJECTED", "CANCELLED"}

UpdatesAreWhole ==
    \A q \in Worker : leaveReq[q].op # "idle" =>
        /\ leave.status # "NONE"
        /\ \/ leaveReq[q].first = 0 /\ leaveReq[q].last = 0 /\ leaveReq[q].days = 0
           \/ /\ leaveReq[q].first \in 1..MaxDay /\ leaveReq[q].last \in 1..MaxDay
              /\ leaveReq[q].first <= leaveReq[q].last
              /\ leaveReq[q].days = Absence!DaysOf(leaveReq[q].first, leaveReq[q].last)

DatesAreDays == leave.status # "NONE" => leave.first \in 1..MaxDay /\ leave.last \in 1..MaxDay

LeaveInv ==
    /\ Absence!TypeOK /\ Absence!DaysMatchDates /\ UpdatesAreWhole
    /\ DatesAreDays

LEMMA LeaveInit == Absence!Init => LeaveInv
  BY MaxDayAssumption DEF Absence!Init, LeaveInv, DatesAreDays, Absence!TypeOK,
                          Absence!DaysMatchDates, UpdatesAreWhole, Absence!Idle

LEMMA LeaveStep == LeaveInv /\ [Absence!Next]_(Absence!vars) => LeaveInv'
  <1> SUFFICES ASSUME LeaveInv, [Absence!Next]_(Absence!vars) PROVE LeaveInv'
    OBVIOUS
  <1> USE MaxDayAssumption DEF LeaveInv, DatesAreDays, Absence!TypeOK, Absence!DaysMatchDates, UpdatesAreWhole, Absence!Idle, Absence!Day, Absence!DaysOf
  <1>1. ASSUME NEW first \in Absence!Day, NEW last \in Absence!Day, Absence!CreateLeave(first, last)
        PROVE  LeaveInv'
    BY <1>1 DEF Absence!CreateLeave
  <1>2. ASSUME NEW q \in Worker, NEW op \in {"approve", "reject", "cancel", "delete"}, Absence!ReadLeave(q, op)
        PROVE  LeaveInv'
    BY <1>2 DEF Absence!ReadLeave, Absence!Allowed
  <1>3. ASSUME NEW q \in Worker, NEW first \in {0} \cup Absence!Day, NEW last \in {0} \cup Absence!Day,
               Absence!ReadDates(q, first, last)
        PROVE  LeaveInv'
    <2>1. CASE first = 0 /\ last = 0
      BY <1>3, <2>1 DEF Absence!ReadDates
    <2>2. CASE ~(first = 0 /\ last = 0)
      <3>1. {first, last} # {0} BY <2>2
      <3> QED BY <1>3, <3>1 DEF Absence!ReadDates
    <2> QED BY <2>1, <2>2
  <1>4. ASSUME NEW q \in Worker, Absence!Decide(q)
        PROVE  LeaveInv'
    BY <1>4 DEF Absence!Decide, Absence!Finish, Absence!Written
  <1>5. ASSUME NEW q \in Worker, Absence!UpdateLeave(q)
        PROVE  LeaveInv'
    <2>1. /\ leave'.status = leave.status /\ leave'.deleted = leave.deleted
          /\ leave'.first = IF leaveReq[q].first = 0 THEN leave.first ELSE leaveReq[q].first
          /\ leave'.last = IF leaveReq[q].last = 0 THEN leave.last ELSE leaveReq[q].last
          /\ leave'.days = IF leaveReq[q].days = 0 THEN leave.days ELSE leaveReq[q].days
      BY <1>5 DEF Absence!UpdateLeave
    <2>2. leaveReq' = [leaveReq EXCEPT ![q] = Absence!Idle] /\ leaveReq[q].op # "idle"
      BY <1>5 DEF Absence!UpdateLeave, Absence!Finish
    <2>3. Absence!TypeOK'
      BY <1>5, <2>2 DEF Absence!UpdateLeave
    <2>4. Absence!DaysMatchDates' /\ UpdatesAreWhole' /\ DatesAreDays'
      BY <2>1, <2>2
    <2> QED BY <2>3, <2>4
  <1>6. ASSUME NEW q \in Worker, Absence!Abandon(q)
        PROVE  LeaveInv'
    BY <1>6 DEF Absence!Abandon, Absence!Finish
  <1>7. CASE UNCHANGED Absence!vars
    BY <1>7 DEF Absence!vars
  <1> QED BY <1>1, <1>2, <1>3, <1>4, <1>5, <1>6, <1>7 DEF Absence!Next

LEMMA LeaveMeaning == LeaveInv => Absence!TypeOK /\ Absence!DaysMatchDates
  BY DEF LeaveInv

(* LeaveRequests: the days are those of the dates, however updates overlap *)
(* (updateLeaveRequest).                                                   *)
THEOREM LeaveSafe ==
    Absence!Spec => [](Absence!TypeOK /\ Absence!DaysMatchDates)
  BY LeaveInit, LeaveStep, LeaveMeaning, PTL DEF Absence!Spec

-----------------------------------------------------------------------------
(* RoleAssignments.  Who replaces the rows of an owner has deleted those   *)
(* it looked for, unless it looked before another replacement committed.   *)

RoleRequest == [at : {"idle", "replace", "delete", "insert"}, owner : Roles!Owner \cup {None},
                want : SUBSET (Role \cup Permission), rows : SUBSET (Role \cup Permission),
                behind : BOOLEAN]

RoleTypes ==
    /\ role \subseteq Role
    /\ rows \in [Roles!Owner -> SUBSET (Role \cup Permission)]
    /\ given \in [Roles!Owner -> SUBSET (Role \cup Permission)]
    /\ \A o \in Roles!Owner : rows[o] \subseteq Roles!ItemsOf(o) /\ given[o] \subseteq Roles!ItemsOf(o)
    /\ mixed \subseteq Roles!Owner
    /\ roleReq \in [Worker -> RoleRequest]

(* A request has the owner and the items of its replacement, and one that  *)
(* is not behind has found every row there is.                             *)
Replacing ==
    \A q \in Worker : roleReq[q].at # "idle" =>
        /\ roleReq[q].owner \in Roles!Owner
        /\ roleReq[q].want \subseteq Roles!ItemsOf(roleReq[q].owner)
        /\ roleReq[q].rows \subseteq Roles!ItemsOf(roleReq[q].owner)
        /\ roleReq[q].at \in {"delete", "insert"} /\ ~roleReq[q].behind =>
              rows[roleReq[q].owner] \subseteq roleReq[q].rows

RoleInv == RoleTypes /\ Replacing /\ Roles!AssignedAsGiven

LEMMA RoleIdle ==
    /\ Roles!Idle \in RoleRequest /\ Roles!Idle.at = "idle" /\ Roles!Idle.want = {} /\ Roles!Idle.rows = {}
    /\ Roles!Idle.behind = FALSE
  BY DEF Roles!Idle, RoleRequest

LEMMA RoleMoves ==
  ASSUME roleReq \in [Worker -> RoleRequest], NEW q \in Worker, NEW x \in RoleRequest,
         roleReq' = [roleReq EXCEPT ![q] = x]
  PROVE  /\ roleReq' \in [Worker -> RoleRequest] /\ roleReq'[q] = x
         /\ \A r \in Worker \ {q} : roleReq'[r] = roleReq[r]
  OBVIOUS

LEMMA RoleItems ==
  \A o \in Roles!Owner : /\ Roles!ItemsOf(o) \subseteq Role \cup Permission
                         /\ o \in User => Roles!ItemsOf(o) = Role
                         /\ o \in Role => o \notin User /\ Roles!ItemsOf(o) = Permission
  BY OwnerAssumption DEF Roles!ItemsOf, Roles!Owner

LEMMA RoleInit == Roles!Init => RoleInv
  <1> SUFFICES ASSUME Roles!Init PROVE RoleInv
    OBVIOUS
  <1>1. /\ role = Role /\ rows = [o \in Roles!Owner |-> {}] /\ given = [o \in Roles!Owner |-> {}]
        /\ mixed = {} /\ roleReq = [q \in Worker |-> Roles!Idle]
    BY DEF Roles!Init
  <1>2. RoleTypes BY <1>1, RoleIdle DEF RoleTypes
  <1>3. Replacing BY <1>1, RoleIdle DEF Replacing
  <1>4. Roles!AssignedAsGiven BY <1>1 DEF Roles!AssignedAsGiven
  <1> QED BY <1>2, <1>3, <1>4 DEF RoleInv

(* A step of one request that writes nothing.                              *)
LEMMA RoleOnly ==
  ASSUME RoleInv, NEW q \in Worker, NEW x \in RoleRequest,
         UNCHANGED <<role, rows, given, mixed>>, roleReq' = [roleReq EXCEPT ![q] = x],
         x.at # "idle" => /\ x.owner \in Roles!Owner
                          /\ x.want \subseteq Roles!ItemsOf(x.owner)
                          /\ x.rows \subseteq Roles!ItemsOf(x.owner)
                          /\ x.at \in {"delete", "insert"} /\ ~x.behind =>
                                rows[x.owner] \subseteq x.rows
  PROVE  RoleInv'
  <1>1. /\ roleReq' \in [Worker -> RoleRequest] /\ roleReq'[q] = x
        /\ \A r \in Worker \ {q} : roleReq'[r] = roleReq[r]
    BY RoleMoves DEF RoleInv, RoleTypes
  <1>2. RoleTypes' BY <1>1 DEF RoleInv, RoleTypes
  <1>3. Replacing' BY <1>1 DEF RoleInv, Replacing
  <1>4. Roles!AssignedAsGiven' BY DEF RoleInv, Roles!AssignedAsGiven
  <1> QED BY <1>2, <1>3, <1>4 DEF RoleInv

LEMMA RoleUpdate ==
  ASSUME RoleInv, NEW q \in Worker, NEW o \in Roles!Owner, NEW S \in SUBSET Roles!ItemsOf(o),
         roleReq[q] = Roles!Idle, UNCHANGED <<role, rows, given, mixed>>,
         roleReq' = [roleReq EXCEPT ![q].at = "replace", ![q].owner = o, ![q].want = S]
  PROVE  RoleInv'
  <1> DEFINE x == [roleReq[q] EXCEPT !.at = "replace", !.owner = o, !.want = S]
  <1>1. roleReq[q] \in RoleRequest /\ S \in SUBSET (Role \cup Permission)
    BY RoleItems DEF RoleInv, RoleTypes
  <1>2. /\ x \in RoleRequest /\ x.at = "replace" /\ x.owner = o /\ x.want = S
        /\ x.rows = roleReq[q].rows
    BY <1>1 DEF RoleRequest
  <1>3. roleReq' = [roleReq EXCEPT ![q] = x] OBVIOUS
  <1> HIDE DEF x
  <1> QED BY <1>2, <1>3, RoleOnly, RoleIdle

LEMMA RoleFind ==
  ASSUME RoleInv, NEW q \in Worker, Roles!FindRows(q)
  PROVE  RoleInv'
  <1>0. /\ roleReq[q].at = "replace" /\ UNCHANGED <<role, rows, given, mixed>>
        /\ roleReq[q] \in RoleRequest /\ roleReq[q].owner \in Roles!Owner
        /\ roleReq[q].want \subseteq Roles!ItemsOf(roleReq[q].owner)
    BY DEF Roles!FindRows, RoleInv, RoleTypes, Replacing
  <1> DEFINE x == [roleReq[q] EXCEPT !.at = "delete", !.rows = rows[roleReq[q].owner]]
  <1>1. rows[roleReq[q].owner] \in SUBSET (Role \cup Permission)
        /\ rows[roleReq[q].owner] \subseteq Roles!ItemsOf(roleReq[q].owner)
    BY <1>0 DEF RoleInv, RoleTypes
  <1>2. /\ x \in RoleRequest /\ x.at = "delete" /\ x.owner = roleReq[q].owner
        /\ x.want = roleReq[q].want /\ x.rows = rows[roleReq[q].owner]
    BY <1>0, <1>1 DEF RoleRequest
  <1>3. roleReq' = [roleReq EXCEPT ![q] = x] BY DEF Roles!FindRows
  <1> HIDE DEF x
  <1> QED BY <1>0, <1>1, <1>2, <1>3, RoleOnly

LEMMA RoleDelete ==
  ASSUME RoleInv, NEW q \in Worker, Roles!DeleteRows(q)
  PROVE  RoleInv'
  <1>0. /\ roleReq[q].at = "delete" /\ UNCHANGED <<role, rows, given, mixed>>
        /\ roleReq[q] \in RoleRequest /\ roleReq[q].owner \in Roles!Owner
        /\ roleReq[q].want \subseteq Roles!ItemsOf(roleReq[q].owner)
        /\ roleReq[q].rows \subseteq Roles!ItemsOf(roleReq[q].owner)
        /\ ~roleReq[q].behind => rows[roleReq[q].owner] \subseteq roleReq[q].rows
    BY DEF Roles!DeleteRows, RoleInv, RoleTypes, Replacing
  <1> DEFINE x == [roleReq[q] EXCEPT !.at = "insert", !.rows = @ \cap rows[roleReq[q].owner]]
  <1>2. /\ x \in RoleRequest /\ x.at = "insert" /\ x.owner = roleReq[q].owner
        /\ x.want = roleReq[q].want /\ x.rows = roleReq[q].rows \cap rows[roleReq[q].owner]
        /\ x.behind = roleReq[q].behind
    BY <1>0 DEF RoleRequest
  <1>3. roleReq' = [roleReq EXCEPT ![q] = x] BY DEF Roles!DeleteRows
  <1> HIDE DEF x
  <1> QED BY <1>0, <1>2, <1>3, RoleOnly

LEMMA RoleAbandon ==
  ASSUME RoleInv, NEW q \in Worker, Roles!Finish(q), UNCHANGED <<role, rows, given, mixed>>
  PROVE  RoleInv'
  BY RoleIdle, RoleOnly DEF Roles!Finish

LEMMA RoleInsert ==
  ASSUME RoleInv, NEW q \in Worker, Roles!InsertRows(q)
  PROVE  RoleInv'
  <1>0. PICK o \in Roles!Owner : o = roleReq[q].owner /\ roleReq[q].at = "insert"
    BY DEF Roles!InsertRows, RoleInv, Replacing
  <1>1. /\ roleReq[q] \in RoleRequest /\ roleReq[q].want \subseteq Roles!ItemsOf(o)
        /\ roleReq[q].rows \subseteq Roles!ItemsOf(o)
        /\ ~roleReq[q].behind => rows[o] \subseteq roleReq[q].rows
        /\ UNCHANGED role
    BY <1>0 DEF Roles!InsertRows, RoleInv, RoleTypes, Replacing
  <1>2. CASE ~Roles!Referenced(q)
    BY <1>2, <1>1, RoleAbandon DEF Roles!InsertRows
  <1>3. CASE Roles!Referenced(q)
    <2> DEFINE behind(r) == [roleReq[r] EXCEPT !.behind = TRUE, !.rows = @ \ roleReq[q].rows]
    <2>1. /\ rows' = [rows EXCEPT ![o] = (@ \ roleReq[q].rows) \cup roleReq[q].want]
          /\ given' = [given EXCEPT ![o] = roleReq[q].want]
          /\ mixed' = IF roleReq[q].behind THEN mixed \cup {o} ELSE mixed \ {o}
          /\ roleReq' = [r \in Worker |->
               IF r = q THEN Roles!Idle
               ELSE IF roleReq[r].owner = o /\ roleReq[r].at \in {"delete", "insert"}
               THEN behind(r) ELSE roleReq[r]]
      BY <1>0, <1>3 DEF Roles!InsertRows
    <2>2. \A r \in Worker : /\ behind(r) \in RoleRequest /\ behind(r).at = roleReq[r].at
                            /\ behind(r).owner = roleReq[r].owner /\ behind(r).want = roleReq[r].want
                            /\ behind(r).rows \subseteq roleReq[r].rows /\ behind(r).behind = TRUE
      BY DEF RoleInv, RoleTypes, RoleRequest
    <2> HIDE DEF behind
    <2>3. /\ roleReq' \in [Worker -> RoleRequest] /\ roleReq'[q] = Roles!Idle
          /\ \A r \in Worker \ {q} :
               roleReq'[r] = IF roleReq[r].owner = o /\ roleReq[r].at \in {"delete", "insert"}
                             THEN behind(r) ELSE roleReq[r]
      BY <2>1, <2>2, RoleIdle DEF RoleInv, RoleTypes
    <2>4. /\ rows' \in [Roles!Owner -> SUBSET (Role \cup Permission)]
          /\ given' \in [Roles!Owner -> SUBSET (Role \cup Permission)]
          /\ rows'[o] = (rows[o] \ roleReq[q].rows) \cup roleReq[q].want /\ given'[o] = roleReq[q].want
          /\ \A p \in Roles!Owner \ {o} : rows'[p] = rows[p] /\ given'[p] = given[p]
      BY <1>1, <2>1, RoleItems DEF RoleInv, RoleTypes
    <2>5. \A p \in Roles!Owner : rows[p] \subseteq Roles!ItemsOf(p) /\ given[p] \subseteq Roles!ItemsOf(p)
      BY DEF RoleInv, RoleTypes
    <2>6. \A p \in Roles!Owner : rows'[p] \subseteq Roles!ItemsOf(p) /\ given'[p] \subseteq Roles!ItemsOf(p)
      BY <1>1, <2>4, <2>5
    <2>7. RoleTypes' BY <1>1, <2>1, <2>3, <2>4, <2>6 DEF RoleInv, RoleTypes
    <2>8. Replacing'
      <3> SUFFICES ASSUME NEW r \in Worker, roleReq'[r].at # "idle"
                   PROVE  /\ roleReq'[r].owner \in Roles!Owner
                          /\ roleReq'[r].want \subseteq Roles!ItemsOf(roleReq'[r].owner)
                          /\ roleReq'[r].rows \subseteq Roles!ItemsOf(roleReq'[r].owner)
                          /\ roleReq'[r].at \in {"delete", "insert"} /\ ~roleReq'[r].behind =>
                                rows'[roleReq'[r].owner] \subseteq roleReq'[r].rows
        BY DEF Replacing
      <3>1. r # q BY <2>3, RoleIdle
      <3>2. /\ roleReq[r].at # "idle" /\ roleReq'[r].at = roleReq[r].at /\ roleReq'[r].owner = roleReq[r].owner
            /\ roleReq'[r].want = roleReq[r].want /\ roleReq'[r].rows \subseteq roleReq[r].rows
        BY <2>2, <2>3, <3>1
      <3>3. /\ roleReq[r].owner \in Roles!Owner
            /\ roleReq[r].want \subseteq Roles!ItemsOf(roleReq[r].owner)
            /\ roleReq[r].rows \subseteq Roles!ItemsOf(roleReq[r].owner)
            /\ roleReq[r].at \in {"delete", "insert"} /\ ~roleReq[r].behind =>
                  rows[roleReq[r].owner] \subseteq roleReq[r].rows
        BY <3>2 DEF RoleInv, Replacing
      <3>4. CASE roleReq[r].owner = o /\ roleReq[r].at \in {"delete", "insert"}
        BY <2>2, <2>3, <3>1, <3>2, <3>3, <3>4
      <3>5. CASE ~(roleReq[r].owner = o /\ roleReq[r].at \in {"delete", "insert"})
        BY <2>3, <2>4, <3>1, <3>2, <3>3, <3>5
      <3> QED BY <3>4, <3>5
    <2>9. Roles!AssignedAsGiven'
      <3>1. \A p \in Roles!Owner : given'[p] \subseteq rows'[p]
        BY <2>4 DEF RoleInv, Roles!AssignedAsGiven
      <3>2. \A p \in Roles!Owner \ mixed' : rows'[p] = given'[p]
        BY <1>1, <2>1, <2>4 DEF RoleInv, Roles!AssignedAsGiven
      <3>3. \A p \in Roles!Owner : rows'[p] # {} => IF p \in User THEN rows'[p] \subseteq role ELSE p \in role
        BY <1>0, <1>3, <2>4 DEF RoleInv, Roles!AssignedAsGiven, Roles!Referenced
      <3> QED BY <1>1, <3>1, <3>2, <3>3 DEF Roles!AssignedAsGiven
    <2> QED BY <2>7, <2>8, <2>9 DEF RoleInv
  <1> QED BY <1>2, <1>3

LEMMA RoleDeleteRole ==
  ASSUME RoleInv, NEW d \in Role, Roles!DeleteRole(d)
  PROVE  RoleInv'
  <1>1. /\ role' = role \ {d} /\ UNCHANGED <<roleReq, mixed>>
        /\ rows' = [o \in Roles!Owner |-> IF o = d THEN {} ELSE rows[o] \ {d}]
        /\ given' = [o \in Roles!Owner |-> IF o = d THEN {} ELSE given[o] \ {d}]
    BY DEF Roles!DeleteRole
  <1>2. \A o \in Roles!Owner : /\ rows'[o] = IF o = d THEN {} ELSE rows[o] \ {d}
                               /\ given'[o] = IF o = d THEN {} ELSE given[o] \ {d}
    BY <1>1
  <1>3. \A o \in Roles!Owner : /\ rows[o] \subseteq Roles!ItemsOf(o) /\ given[o] \subseteq Roles!ItemsOf(o)
                               /\ rows[o] \subseteq Role \cup Permission
                               /\ given[o] \subseteq Role \cup Permission
    BY DEF RoleInv, RoleTypes
  <1>4. rows' = [o \in Roles!Owner |-> rows'[o]] /\ given' = [o \in Roles!Owner |-> given'[o]]
    BY <1>1
  <1>5. /\ rows' \in [Roles!Owner -> SUBSET (Role \cup Permission)]
        /\ given' \in [Roles!Owner -> SUBSET (Role \cup Permission)]
    BY <1>2, <1>3, <1>4
  <1>6. RoleTypes' BY <1>1, <1>2, <1>3, <1>5 DEF RoleInv, RoleTypes
  <1>7. Replacing'
    <2>1. \A o \in Roles!Owner : rows'[o] \subseteq rows[o] BY <1>2
    <2> QED BY <1>1, <2>1 DEF RoleInv, Replacing
  <1>8. Roles!AssignedAsGiven'
    BY <1>1, <1>2, RoleItems DEF RoleInv, Roles!AssignedAsGiven
  <1> QED BY <1>6, <1>7, <1>8 DEF RoleInv

LEMMA RoleStep == RoleInv /\ [Roles!Next]_(Roles!vars) => RoleInv'
  <1> SUFFICES ASSUME RoleInv, [Roles!Next]_(Roles!vars) PROVE RoleInv'
    OBVIOUS
  <1>1. CASE UNCHANGED Roles!vars
    <2>1. UNCHANGED <<role, rows, roleReq, given, mixed>> BY <1>1 DEF Roles!vars
    <2> QED BY <2>1 DEF RoleInv, RoleTypes, Replacing, Roles!AssignedAsGiven
  <1>2. ASSUME NEW q \in Worker, NEW u \in User, NEW S \in SUBSET Role, Roles!UpdateUser(q, u, S)
        PROVE  RoleInv'
    <2>1. u \in Roles!Owner /\ S \in SUBSET Roles!ItemsOf(u) BY <1>2, RoleItems DEF Roles!Owner
    <2> QED BY <1>2, <2>1, RoleUpdate DEF Roles!UpdateUser
  <1>3. ASSUME NEW q \in Worker, NEW d \in Role, NEW S \in SUBSET Permission, Roles!UpdateRole(q, d, S)
        PROVE  RoleInv'
    <2>1. d \in Roles!Owner /\ S \in SUBSET Roles!ItemsOf(d) BY <1>3, RoleItems DEF Roles!Owner
    <2> QED BY <1>3, <2>1, RoleUpdate DEF Roles!UpdateRole
  <1>4. ASSUME NEW q \in Worker, Roles!Abandon(q) PROVE RoleInv'
    BY <1>4, RoleAbandon DEF Roles!Abandon
  <1> QED BY <1>1, <1>2, <1>3, <1>4, RoleFind, RoleDelete, RoleInsert, RoleDeleteRole DEF Roles!Next

LEMMA RoleMeaning == RoleInv => Roles!TypeOK /\ Roles!AssignedAsGiven
  <1>1. RoleInv => Roles!TypeOK /\ Roles!AssignedAsGiven
    <2> SUFFICES ASSUME RoleInv PROVE Roles!TypeOK
      BY DEF RoleInv
    <2>1. \A q \in Worker : /\ roleReq[q].at \in {"idle", "replace", "delete", "insert"}
                            /\ roleReq[q].owner \in Roles!Owner \cup {None} /\ roleReq[q].behind \in BOOLEAN
      BY DEF RoleInv, RoleTypes, RoleRequest
    <2> QED BY <2>1 DEF RoleInv, RoleTypes, Replacing, Roles!TypeOK
  <1> QED BY <1>1

(* RoleAssignments: an owner has what the last replacement gave, and       *)
(* nothing of a deleted role (replaceUserRoles, replaceRolePermissions).   *)
THEOREM RoleSafe ==
    Roles!Spec => [](Roles!TypeOK /\ Roles!AssignedAsGiven)
  BY RoleInit, RoleStep, RoleMeaning, PTL DEF Roles!Spec

-----------------------------------------------------------------------------
(* Announcements.  The notifications of a user are counted with the        *)
(* requests that are about to create one; while an announcement is         *)
(* published, everyone it promises one has it, or is on the list of a      *)
(* request that is notifying.                                              *)

NoticeStatus == {"NONE", "DRAFT", "PUBLISHED", "ARCHIVED"}

NoticeItem == [status : NoticeStatus, deleted : BOOLEAN, audience : Notice!Audience]

NoticeRequest == [at : {"idle", "write", "resolve", "select", "find", "create"},
                  to : NoticeStatus, audience : Notice!Audience \cup {"NONE"},
                  deletes : BOOLEAN, foundPublished : BOOLEAN, todo : SUBSET Reader,
                  next : Reader \cup {None}]

NoticeTypes ==
    /\ notice \in NoticeItem
    /\ working \subseteq Reader /\ teachers \subseteq Reader
    /\ altered \subseteq Reader /\ added \subseteq Reader /\ Reader \ working \subseteq altered
    /\ inbox \in [Reader -> 0..MaxInbox]
    /\ noticeReq \in [Worker -> NoticeRequest]
    /\ broken \in BOOLEAN
    /\ \A q \in Worker : /\ noticeReq[q].at = "create" => noticeReq[q].next \in noticeReq[q].todo
                         /\ noticeReq[q].at = "find" => noticeReq[q].todo # {}
                         /\ noticeReq[q].at = "resolve" => noticeReq[q].audience \in Notice!Audience
                         /\ noticeReq[q].at = "write" => notice.status # "NONE"

(* The requests about to create a notification of a user.                  *)
Posting(u) == {q \in Worker : noticeReq[q].at = "create" /\ noticeReq[q].next = u}

NotTooMany == \A u \in Reader : inbox[u] + Cardinality(Posting(u)) <= Cardinality(Worker)

(* A request that can still notify a user, and those who need none.        *)
Covers(q, u) == \/ noticeReq[q].at = "resolve" /\ u \in Notice!AudienceUsers(noticeReq[q].audience)
                \/ noticeReq[q].at \in {"select", "find", "create"} /\ u \in noticeReq[q].todo

Reached(u) == inbox[u] > 0 \/ \E q \in Worker : Covers(q, u)

(* The users who are promised a notification.                              *)
Due == Notice!AudienceUsers(notice.audience) \ (altered \cup added)

(* While it is PUBLISHED, or was when an operation in progress read it.    *)
Published == \/ notice.status = "PUBLISHED"
             \/ \E q \in Worker : noticeReq[q].at = "write" /\ noticeReq[q].foundPublished

AllReached == Published => broken \/ \A u \in Due : Reached(u)

NoticeInv == NoticeTypes /\ NotTooMany /\ AllReached

LEMMA NoticeCounts == \A S : Notice!Cardinality(S) = Cardinality(S)
  BY DEF Notice!Cardinality, Cardinality

LEMMA NoticeIdle ==
    /\ Notice!Idle \in NoticeRequest /\ Notice!Idle.at = "idle" /\ Notice!Idle.todo = {}
  BY DEF Notice!Idle, NoticeRequest, NoticeStatus

LEMMA NoticeMoves ==
  ASSUME noticeReq \in [Worker -> NoticeRequest], NEW q \in Worker, NEW x \in NoticeRequest,
         noticeReq' = [noticeReq EXCEPT ![q] = x]
  PROVE  /\ noticeReq' \in [Worker -> NoticeRequest] /\ noticeReq'[q] = x
         /\ \A r \in Worker \ {q} : noticeReq'[r] = noticeReq[r]
  OBVIOUS

LEMMA NoticeCreating ==
  \A u : /\ IsFiniteSet(Posting(u)) /\ Cardinality(Posting(u)) \in Nat
         /\ Cardinality(Posting(u)) <= Cardinality(Worker) /\ Cardinality(Worker) \in Nat
  <1> TAKE u
  <1>1. Posting(u) \subseteq Worker BY DEF Posting
  <1> QED BY <1>1, WorkerAssumption, FS_Subset, FS_CardinalityType

LEMMA NoticeInit == Notice!Init => NoticeInv
  <1> SUFFICES ASSUME Notice!Init PROVE NoticeInv
    OBVIOUS
  <1>1. /\ notice = [status |-> "NONE", deleted |-> FALSE, audience |-> "ALL"] /\ working = Reader
        /\ inbox = [u \in Reader |-> 0] /\ noticeReq = [q \in Worker |-> Notice!Idle]
        /\ teachers \subseteq Reader /\ altered = {} /\ added = {} /\ broken = FALSE
    BY DEF Notice!Init
  <1>2. notice.status = "NONE" /\ notice \in NoticeItem
    BY <1>1 DEF NoticeStatus, NoticeItem, Notice!Audience
  <1>3. NoticeTypes
    <2>1. inbox \in [Reader -> 0..MaxInbox] BY <1>1, MaxInboxAssumption
    <2>2. \A q \in Worker : noticeReq[q] = Notice!Idle BY <1>1
    <2>3. noticeReq \in [Worker -> NoticeRequest] BY <1>1, NoticeIdle
    <2> QED BY <1>1, <1>2, <2>1, <2>2, <2>3, NoticeIdle DEF NoticeTypes
  <1>4. NotTooMany
    <2>1. \A u \in Reader : inbox[u] = 0 BY <1>1
    <2> QED BY <2>1, NoticeCreating DEF NotTooMany
  <1>5. AllReached BY <1>1, <1>2, NoticeIdle DEF AllReached, Published
  <1> QED BY <1>3, <1>4, <1>5 DEF NoticeInv

(* A step of one request that creates no notification.                     *)
LEMMA NoticeOnly ==
  ASSUME NoticeInv, NEW q \in Worker, NEW x \in NoticeRequest,
         UNCHANGED <<working, teachers, inbox, altered>>, noticeReq' = [noticeReq EXCEPT ![q] = x],
         notice' \in NoticeItem, broken' \in BOOLEAN, added' \subseteq Reader,
         notice'.status = "NONE" => notice.status = "NONE" /\ x.at # "write",
         x.at = "create" => x.next \in x.todo /\ (inbox[x.next] = 0 \/ q \in Posting(x.next)),
         x.at = "find" => x.todo # {},
         x.at = "resolve" => x.audience \in Notice!Audience
  PROVE  /\ NoticeTypes' /\ NotTooMany'
         /\ noticeReq'[q] = x /\ \A r \in Worker \ {q} : noticeReq'[r] = noticeReq[r]
  <1>1. /\ noticeReq' \in [Worker -> NoticeRequest] /\ noticeReq'[q] = x
        /\ \A r \in Worker \ {q} : noticeReq'[r] = noticeReq[r]
    BY NoticeMoves DEF NoticeInv, NoticeTypes
  <1>2. NoticeTypes' BY <1>1 DEF NoticeInv, NoticeTypes
  <1>3. ASSUME NEW u \in Reader
        PROVE  inbox[u] + Cardinality(Posting(u)') <= Cardinality(Worker)
    <2>1. /\ IsFiniteSet(Posting(u)') /\ Cardinality(Posting(u)') \in Nat
          /\ Cardinality(Posting(u)') <= Cardinality(Worker)
      <3>1. Posting(u)' \subseteq Worker BY DEF Posting
      <3> QED BY <3>1, WorkerAssumption, FS_Subset, FS_CardinalityType
    <2>2. inbox[u] \in Nat /\ inbox[u] + Cardinality(Posting(u)) <= Cardinality(Worker)
      BY DEF NoticeInv, NoticeTypes, NotTooMany
    <2>3. CASE Posting(u)' \subseteq Posting(u)
      <3>1. Cardinality(Posting(u)') <= Cardinality(Posting(u))
        BY <2>3, NoticeCreating, FS_Subset
      <3> QED BY <2>1, <2>2, <3>1, NoticeCreating
    <2>4. CASE ~(Posting(u)' \subseteq Posting(u))
      <3>1. x.at = "create" /\ x.next = u /\ q \notin Posting(u)
        BY <1>1, <2>4 DEF Posting
      <3>2. inbox[u] = 0 BY <3>1
      <3> QED BY <2>1, <3>2, NoticeCreating
    <2> QED BY <2>3, <2>4
  <1>4. NotTooMany' BY <1>3 DEF NotTooMany
  <1> QED BY <1>1, <1>2, <1>4

LEMMA NoticeCreate ==
  ASSUME NoticeInv, NEW q \in Worker, NEW status \in {"DRAFT", "PUBLISHED", "ARCHIVED"},
         NEW a \in Notice!Audience, Notice!CreateAnnouncement(q, status, a)
  PROVE  NoticeInv'
  <1> DEFINE x == [Notice!Idle EXCEPT !.at = "resolve", !.audience = a]
             i == [notice EXCEPT !.status = status, !.audience = a]
  <1>1. /\ UNCHANGED <<working, teachers, inbox, altered, added, broken>> /\ notice' = i
        /\ noticeReq' = IF status = "PUBLISHED" THEN [noticeReq EXCEPT ![q] = x] ELSE noticeReq
        /\ notice.status = "NONE"
    BY DEF Notice!CreateAnnouncement
  <1>2. x \in NoticeRequest /\ x.at = "resolve" /\ x.audience = a
    BY DEF NoticeRequest, Notice!Idle, NoticeStatus
  <1>3. i \in NoticeItem /\ i.status = status /\ i.audience = a
    BY DEF NoticeInv, NoticeTypes, NoticeStatus, NoticeItem
  <1> HIDE DEF x, i
  <1>4. broken' \in BOOLEAN /\ added' \subseteq Reader BY <1>1 DEF NoticeInv, NoticeTypes
  <1>5. CASE status = "PUBLISHED"
    <2>1. /\ NoticeTypes' /\ NotTooMany' /\ noticeReq'[q] = x
      BY <1>1, <1>2, <1>3, <1>4, <1>5, NoticeOnly
    <2>2. \A u \in Due' : Covers(q, u)'
      BY <1>1, <1>2, <1>3, <2>1 DEF Due, Covers, Notice!AudienceUsers
    <2>3. AllReached' BY <2>2 DEF AllReached, Reached
    <2> QED BY <2>1, <2>3 DEF NoticeInv
  <1>6. CASE status # "PUBLISHED"
    <2>1. noticeReq' = noticeReq /\ \A r \in Worker : noticeReq[r].at # "write"
      BY <1>1, <1>6 DEF NoticeInv, NoticeTypes
    <2>2. NoticeTypes' BY <1>1, <1>3, <2>1 DEF NoticeInv, NoticeTypes
    <2>3. \A u \in Reader : Posting(u)' = Posting(u) BY <2>1 DEF Posting
    <2>4. NotTooMany' BY <1>1, <2>3 DEF NoticeInv, NotTooMany
    <2>5. AllReached' BY <1>1, <1>3, <1>6, <2>1 DEF AllReached, Published
    <2> QED BY <2>2, <2>4, <2>5 DEF NoticeInv
  <1> QED BY <1>5, <1>6

LEMMA NoticeRead ==
  ASSUME NoticeInv, NEW q \in Worker, NEW op \in DOMAIN Notice!Writes, NEW to \in Notice!Writes[op],
         NEW a \in Notice!Audience \cup {"NONE"}, Notice!Read(q, op, to, a)
  PROVE  NoticeInv'
  <1> DEFINE published == notice.status = "PUBLISHED"
             x == [Notice!Idle EXCEPT !.at = "write", !.to = to, !.audience = a,
                                      !.deletes = (op = "delete"), !.foundPublished = published]
  <1>1. to \in NoticeStatus BY DEF Notice!Writes, NoticeStatus
  <1>2. notice \in NoticeItem /\ broken \in BOOLEAN /\ added \subseteq Reader
    BY DEF NoticeInv, NoticeTypes
  <1>3. published \in BOOLEAN /\ (op = "delete") \in BOOLEAN OBVIOUS
  <1>4. /\ noticeReq[q] = Notice!Idle /\ notice.status # "NONE"
        /\ UNCHANGED <<notice, working, teachers, inbox, altered, added, broken>>
        /\ noticeReq' = [noticeReq EXCEPT ![q] = x]
    BY DEF Notice!Read
  <1> HIDE DEF published
  <1>5. /\ x \in NoticeRequest /\ x.at = "write" /\ x.foundPublished = published
    BY <1>1, <1>3 DEF NoticeRequest, Notice!Idle, NoticeStatus
  <1> HIDE DEF x
  <1>6. /\ NoticeTypes' /\ NotTooMany' /\ noticeReq'[q] = x
        /\ \A r \in Worker \ {q} : noticeReq'[r] = noticeReq[r]
    BY <1>2, <1>4, <1>5, NoticeOnly
  <1>7. Published' => Published
    BY <1>4, <1>5, <1>6 DEF Published, published
  <1>8. (\A r \in Worker, u \in Reader : Covers(r, u) => Covers(r, u)') /\ Due' = Due /\ Due \subseteq Reader
    BY <1>4, <1>6, NoticeIdle DEF Covers, Due, Notice!AudienceUsers, NoticeInv, NoticeTypes
  <1>9. AllReached' BY <1>4, <1>7, <1>8 DEF NoticeInv, AllReached, Reached
  <1> QED BY <1>6, <1>9 DEF NoticeInv

LEMMA NoticeWrite ==
  ASSUME NoticeInv, NEW q \in Worker, Notice!Write(q)
  PROVE  NoticeInv'
  <1> DEFINE z == noticeReq[q]
             i == [status |-> IF z.to = "NONE" THEN notice.status ELSE z.to,
                   deleted |-> notice.deleted \/ z.deletes,
                   audience |-> IF z.audience = "NONE" THEN notice.audience ELSE z.audience]
             x == [Notice!Idle EXCEPT !.at = "resolve", !.audience = notice'.audience]
             tells == notice'.status = "PUBLISHED" /\ ~z.foundPublished
  <1>1. /\ z.at = "write" /\ notice' = i /\ UNCHANGED <<working, teachers, inbox, altered>>
        /\ IF tells
           THEN noticeReq' = [noticeReq EXCEPT ![q] = x] /\ added' = {} /\ broken' = FALSE
           ELSE /\ noticeReq' = [noticeReq EXCEPT ![q] = Notice!Idle] /\ UNCHANGED broken
                /\ added' = added \cup (Notice!AudienceUsers(notice'.audience)
                                          \ Notice!AudienceUsers(notice.audience))
    BY DEF Notice!Write, Notice!Finish
  <1>2. /\ z \in NoticeRequest /\ broken \in BOOLEAN /\ notice \in NoticeItem /\ added \subseteq Reader
        /\ teachers \subseteq Reader /\ notice.status # "NONE"
    BY <1>1 DEF NoticeInv, NoticeTypes
  <1>3. i \in NoticeItem /\ i.status # "NONE"
    <2>1. (notice.deleted \/ z.deletes) \in BOOLEAN OBVIOUS
    <2> QED BY <1>2, <2>1 DEF NoticeRequest, NoticeItem
  <1>4. notice' \in NoticeItem /\ notice'.status # "NONE" BY <1>1, <1>3
  <1>5. x \in NoticeRequest /\ x.at = "resolve" /\ x.audience = notice'.audience
        /\ notice'.audience \in Notice!Audience
    BY <1>4 DEF Notice!Idle, NoticeRequest, NoticeStatus, NoticeItem
  <1> HIDE DEF x, i
  <1>6. CASE tells
    <2>1. NoticeTypes' /\ NotTooMany' /\ noticeReq'[q] = x
      BY <1>1, <1>4, <1>5, <1>6, NoticeOnly
    <2>2. \A u \in Due' : Covers(q, u)'
      BY <1>5, <2>1 DEF Due, Covers, Notice!AudienceUsers
    <2>3. AllReached' BY <2>2 DEF AllReached, Reached
    <2> QED BY <2>1, <2>3 DEF NoticeInv
  <1>7. CASE ~tells
    <2>1. added' \subseteq Reader BY <1>1, <1>2, <1>7 DEF Notice!AudienceUsers
    <2>2. /\ NoticeTypes' /\ NotTooMany' /\ noticeReq'[q] = Notice!Idle
          /\ \A r \in Worker \ {q} : noticeReq'[r] = noticeReq[r]
      BY <1>1, <1>2, <1>4, <1>7, <2>1, NoticeIdle, NoticeOnly
    <2>3. notice'.status = "PUBLISHED" => Published BY <1>1, <1>7 DEF Published
    <2>4. Published' => Published BY <2>2, <2>3, NoticeIdle DEF Published
    <2>5. \A r \in Worker, u \in Reader : Covers(r, u) => Covers(r, u)'
      BY <1>1, <2>2 DEF Covers, Notice!AudienceUsers
    <2>6. Due' \subseteq Due /\ Due \subseteq Reader
      BY <1>1, <1>2, <1>7 DEF Due, Notice!AudienceUsers
    <2>7. AllReached' BY <1>1, <1>7, <2>4, <2>5, <2>6 DEF NoticeInv, AllReached, Reached
    <2> QED BY <2>2, <2>7 DEF NoticeInv
  <1> QED BY <1>6, <1>7

(* A step of a request that notifies, and after which it covers those it   *)
(* did who are not altered and have no notification.                       *)
LEMMA NoticeNotifies ==
  ASSUME NoticeInv, NEW q \in Worker, NEW x \in NoticeRequest,
         UNCHANGED <<notice, working, teachers, inbox, altered, added, broken>>,
         noticeReq' = [noticeReq EXCEPT ![q] = x],
         x.at = "create" => x.next \in x.todo /\ (inbox[x.next] = 0 \/ q \in Posting(x.next)),
         x.at = "find" => x.todo # {}, x.at \notin {"write", "resolve"},
         \A u \in Reader \ altered : Covers(q, u) =>
            inbox[u] > 0 \/ (x.at \in {"select", "find", "create"} /\ u \in x.todo)
  PROVE  NoticeInv'
  <1>1. notice \in NoticeItem /\ broken \in BOOLEAN /\ added \subseteq Reader /\ teachers \subseteq Reader
    BY DEF NoticeInv, NoticeTypes
  <1>2. /\ NoticeTypes' /\ NotTooMany' /\ noticeReq'[q] = x
        /\ \A r \in Worker \ {q} : noticeReq'[r] = noticeReq[r]
    BY <1>1, NoticeOnly
  <1>3. Published' => Published BY <1>2 DEF Published
  <1>4. ASSUME NEW u \in Reader \ altered, Reached(u) PROVE Reached(u)'
    BY <1>2, <1>4 DEF Reached, Covers, Notice!AudienceUsers
  <1>5. Due' = Due /\ Due \subseteq Reader \ altered BY <1>1 DEF Due, Notice!AudienceUsers
  <1>6. AllReached' BY <1>3, <1>4, <1>5 DEF NoticeInv, AllReached
  <1> QED BY <1>2, <1>6 DEF NoticeInv

LEMMA NoticeRequests ==
  ASSUME NoticeInv, NEW q \in Worker
  PROVE  /\ noticeReq[q] \in NoticeRequest
         /\ noticeReq[q].at = "create" => noticeReq[q].next \in noticeReq[q].todo
  BY DEF NoticeInv, NoticeTypes

LEMMA NoticeResolve ==
  ASSUME NoticeInv, NEW q \in Worker, Notice!Resolve(q)
  PROVE  NoticeInv'
  <1> DEFINE users == working \cap Notice!AudienceUsers(noticeReq[q].audience)
             x == [Notice!Idle EXCEPT !.at = "select", !.todo = users]
  <1>1. /\ UNCHANGED <<notice, working, teachers, inbox, altered, added, broken>>
        /\ noticeReq' = [noticeReq EXCEPT ![q] = x] /\ noticeReq[q].at = "resolve"
        /\ working \subseteq Reader /\ Reader \ working \subseteq altered
    BY DEF Notice!Resolve, NoticeInv, NoticeTypes
  <1>2. \A u \in Reader \ altered : Covers(q, u) => u \in users
    BY <1>1 DEF Covers
  <1>3. users \subseteq Reader BY <1>1
  <1> HIDE DEF users
  <1>4. x \in NoticeRequest /\ x.at = "select" /\ x.todo = users
    BY <1>3 DEF NoticeRequest, Notice!Idle, NoticeStatus
  <1> HIDE DEF x
  <1> QED BY <1>1, <1>2, <1>4, NoticeNotifies

LEMMA NoticeSelect ==
  ASSUME NoticeInv, NEW q \in Worker, Notice!SelectActive(q)
  PROVE  NoticeInv'
  <1> DEFINE x == [noticeReq[q] EXCEPT !.at = "find", !.todo = @ \cap working]
  <1>1. /\ UNCHANGED <<notice, working, teachers, inbox, altered, added, broken>> /\ noticeReq[q].at = "select"
        /\ noticeReq' = [noticeReq EXCEPT ![q] = IF noticeReq[q].todo \cap working = {} THEN Notice!Idle ELSE x]
        /\ working \subseteq Reader /\ Reader \ working \subseteq altered
    BY DEF Notice!SelectActive, NoticeInv, NoticeTypes
  <1>2. /\ x \in NoticeRequest /\ x.at = "find" /\ x.todo = noticeReq[q].todo \cap working
    BY <1>1, NoticeRequests DEF NoticeRequest
  <1> HIDE DEF x
  <1>3. \A u \in Reader \ altered : Covers(q, u) => u \in noticeReq[q].todo \cap working
    BY <1>1 DEF Covers
  <1>4. CASE noticeReq[q].todo \cap working = {}
    BY <1>1, <1>3, <1>4, NoticeIdle, NoticeNotifies
  <1>5. CASE noticeReq[q].todo \cap working # {}
    BY <1>1, <1>2, <1>3, <1>5, NoticeRequests, NoticeNotifies
  <1> QED BY <1>4, <1>5

LEMMA NoticeFind ==
  ASSUME NoticeInv, NEW q \in Worker, NEW v \in Reader, Notice!FindNotification(q, v)
  PROVE  NoticeInv'
  <1> DEFINE x == [noticeReq[q] EXCEPT !.at = "create", !.next = v]
             y == [noticeReq[q] EXCEPT !.todo = @ \ {v}]
  <1>1. /\ UNCHANGED <<notice, working, teachers, inbox, altered, added, broken>> /\ noticeReq[q].at = "find"
        /\ v \in noticeReq[q].todo
        /\ noticeReq' = [noticeReq EXCEPT ![q] = IF inbox[v] = 0 THEN x
                                                 ELSE IF noticeReq[q].todo = {v} THEN Notice!Idle ELSE y]
    BY DEF Notice!FindNotification
  <1>2. /\ x \in NoticeRequest /\ x.at = "create" /\ x.todo = noticeReq[q].todo /\ x.next = v
    BY <1>1, NoticeRequests DEF NoticeRequest
  <1>3. /\ y \in NoticeRequest /\ y.at = "find" /\ y.todo = noticeReq[q].todo \ {v}
    BY <1>1, NoticeRequests DEF NoticeRequest
  <1> HIDE DEF x, y
  <1>4. inbox[v] \in Nat BY DEF NoticeInv, NoticeTypes
  <1>5. \A u \in Reader : Covers(q, u) => u \in noticeReq[q].todo
    BY <1>1 DEF Covers
  <1>6. CASE inbox[v] = 0
    BY <1>1, <1>2, <1>5, <1>6, NoticeRequests, NoticeNotifies
  <1>7. CASE inbox[v] # 0 /\ noticeReq[q].todo = {v}
    <2>1. noticeReq' = [noticeReq EXCEPT ![q] = Notice!Idle] BY <1>1, <1>7
    <2>2. inbox[v] > 0 BY <1>4, <1>7
    <2> QED BY <1>1, <1>5, <1>7, <2>1, <2>2, NoticeIdle, NoticeNotifies
  <1>8. CASE inbox[v] # 0 /\ noticeReq[q].todo # {v}
    <2>1. noticeReq' = [noticeReq EXCEPT ![q] = y] BY <1>1, <1>8
    <2>2. inbox[v] > 0 BY <1>4, <1>8
    <2>3. y.todo # {} BY <1>1, <1>3, <1>8
    <2> QED BY <1>1, <1>3, <1>5, <2>1, <2>2, <2>3, NoticeRequests, NoticeNotifies
  <1> QED BY <1>6, <1>7, <1>8

LEMMA NoticeNew ==
  ASSUME NoticeInv, NEW q \in Worker, Notice!CreateNotification(q)
  PROVE  NoticeInv'
  <1>0. noticeReq[q].at = "create" /\ noticeReq[q].next \in noticeReq[q].todo /\ noticeReq[q].todo \subseteq Reader
    BY NoticeRequests DEF Notice!CreateNotification, NoticeRequest
  <1>1. PICK v \in Reader : v = noticeReq[q].next BY <1>0
  <1> DEFINE x == [noticeReq[q] EXCEPT !.at = "find", !.todo = @ \ {v}, !.next = None]
             y == IF noticeReq[q].todo = {v} THEN Notice!Idle ELSE x
  <1>2. /\ UNCHANGED <<notice, working, teachers, altered, added, broken>> /\ inbox[v] < MaxInbox
        /\ inbox' = [inbox EXCEPT ![v] = @ + 1]
        /\ noticeReq' = [noticeReq EXCEPT ![q] = y]
    BY <1>1 DEF Notice!CreateNotification
  <1>3. /\ x \in NoticeRequest /\ x.at = "find" /\ x.todo = noticeReq[q].todo \ {v}
    BY <1>0, NoticeRequests DEF NoticeRequest
  <1> HIDE DEF x
  <1>4. /\ y \in NoticeRequest /\ y.at \in {"find", "idle"}
        /\ y.at = "find" => y.todo # {}
        /\ \A u \in noticeReq[q].todo \ {v} : y.at = "find" /\ u \in y.todo
    BY <1>0, <1>1, <1>3, NoticeIdle, NoticeRequests
  <1> HIDE DEF y
  <1>5. /\ noticeReq' \in [Worker -> NoticeRequest] /\ noticeReq'[q] = y
        /\ \A r \in Worker \ {q} : noticeReq'[r] = noticeReq[r]
    BY <1>2, <1>4, NoticeMoves DEF NoticeInv, NoticeTypes
  <1>6. inbox[v] \in Nat /\ inbox' \in [Reader -> 0..MaxInbox]
    BY <1>2, MaxInboxAssumption DEF NoticeInv, NoticeTypes
  <1>7. /\ inbox'[v] = inbox[v] + 1 /\ \A u \in Reader \ {v} : inbox'[u] = inbox[u]
    BY <1>2 DEF NoticeInv, NoticeTypes
  <1>8. NoticeTypes' BY <1>2, <1>4, <1>5, <1>6 DEF NoticeInv, NoticeTypes
  <1>9. NotTooMany'
    <2> SUFFICES ASSUME NEW u \in Reader
                 PROVE  inbox'[u] + Cardinality(Posting(u)') <= Cardinality(Worker)
      BY DEF NotTooMany
    <2>1. inbox[u] \in Nat /\ inbox[u] + Cardinality(Posting(u)) <= Cardinality(Worker)
      BY DEF NoticeInv, NoticeTypes, NotTooMany
    <2>2. CASE u = v
      <3>1. Posting(v)' = Posting(v) \ {q} /\ q \in Posting(v)
        BY <1>0, <1>1, <1>4, <1>5 DEF Posting
      <3>2. Cardinality(Posting(v)') = Cardinality(Posting(v)) - 1
        BY <3>1, NoticeCreating, FS_RemoveElement
      <3> QED BY <1>7, <2>1, <2>2, <3>2, NoticeCreating
    <2>3. CASE u # v
      <3>1. Posting(u)' = Posting(u) BY <1>0, <1>1, <1>4, <1>5, <2>3 DEF Posting
      <3> QED BY <1>7, <2>1, <2>3, <3>1
    <2> QED BY <2>2, <2>3
  <1>10. Published' => Published BY <1>2, <1>4, <1>5 DEF Published
  <1>11. ASSUME NEW u \in Reader \ altered, Reached(u) PROVE Reached(u)'
    <2>1. CASE u = v BY <1>6, <1>7, <2>1 DEF Reached
    <2>2. CASE u # v
      <3>1. CASE inbox[u] > 0 BY <1>7, <2>2, <3>1 DEF Reached
      <3>2. ASSUME NEW r \in Worker, Covers(r, u) PROVE Covers(r, u)'
        <4>1. CASE r # q BY <1>2, <1>5, <3>2, <4>1 DEF Covers, Notice!AudienceUsers
        <4>2. CASE r = q
          <5>1. u \in noticeReq[q].todo \ {v} BY <1>0, <2>2, <3>2, <4>2 DEF Covers
          <5> QED BY <1>4, <1>5, <4>2, <5>1 DEF Covers
        <4> QED BY <4>1, <4>2
      <3> QED BY <1>11, <3>1, <3>2 DEF Reached
    <2> QED BY <2>1, <2>2
  <1>12. Due' = Due /\ Due \subseteq Reader \ altered
    BY <1>2 DEF Due, Notice!AudienceUsers, NoticeInv, NoticeTypes
  <1>13. AllReached' BY <1>2, <1>10, <1>11, <1>12 DEF NoticeInv, AllReached
  <1> QED BY <1>8, <1>9, <1>13 DEF NoticeInv

LEMMA NoticeAbandon ==
  ASSUME NoticeInv, NEW q \in Worker, Notice!Abandon(q)
  PROVE  NoticeInv'
  <1>1. /\ UNCHANGED <<notice, working, teachers, inbox, altered, added>> /\ noticeReq' = [noticeReq EXCEPT ![q] = Notice!Idle]
        /\ broken' = (broken \/ Notice!Notifying(q))
    BY DEF Notice!Abandon, Notice!Finish
  <1>2. /\ notice' \in NoticeItem /\ broken' \in BOOLEAN /\ added' \subseteq Reader
        /\ Due' = Due /\ Due \subseteq Reader
    BY <1>1 DEF NoticeInv, NoticeTypes, Due, Notice!AudienceUsers
  <1>3. /\ NoticeTypes' /\ NotTooMany' /\ noticeReq'[q] = Notice!Idle
        /\ \A r \in Worker \ {q} : noticeReq'[r] = noticeReq[r]
    BY <1>1, <1>2, NoticeIdle, NoticeOnly
  <1>4. AllReached'
    <2>1. CASE Notice!Notifying(q) BY <1>1, <2>1 DEF AllReached
    <2>2. CASE ~Notice!Notifying(q)
      <3>1. Published' => Published BY <1>1, <1>3, NoticeIdle DEF Published
      <3>2. \A r \in Worker, u \in Reader : Covers(r, u) => Covers(r, u)'
        BY <1>1, <1>3, <2>2 DEF Covers, Notice!Notifying, Notice!AudienceUsers
      <3> QED BY <1>1, <1>2, <3>1, <3>2 DEF NoticeInv, AllReached, Reached
    <2> QED BY <2>1, <2>2
  <1> QED BY <1>3, <1>4 DEF NoticeInv

(* A user whose account or roles change is promised nothing any more.      *)
LEMMA NoticeAlters ==
  ASSUME NoticeInv, NEW v \in Reader, altered' = altered \cup {v},
         UNCHANGED <<notice, inbox, noticeReq, added, broken>>,
         working' \subseteq Reader, teachers' \subseteq Reader,
         working' \ {v} = working \ {v}, teachers' \ {v} = teachers \ {v}
  PROVE  NoticeInv'
  <1>1. NoticeTypes' BY DEF NoticeInv, NoticeTypes
  <1>2. \A u \in Reader : Posting(u)' = Posting(u) BY DEF Posting
  <1>3. NotTooMany' BY <1>2 DEF NoticeInv, NotTooMany
  <1>4. \A a : Notice!AudienceUsers(a)' \ {v} = Notice!AudienceUsers(a) \ {v}
    BY DEF Notice!AudienceUsers
  <1>5. Due' \subseteq Due \ {v} BY <1>4 DEF Due
  <1>6. \A r \in Worker : \A u : u # v /\ Covers(r, u) => Covers(r, u)' BY <1>4 DEF Covers
  <1>7. (Published' <=> Published) /\ \A u : u # v /\ Reached(u) => Reached(u)'
    BY <1>6 DEF Published, Reached
  <1>8. AllReached' BY <1>5, <1>7 DEF NoticeInv, AllReached
  <1> QED BY <1>1, <1>3, <1>8 DEF NoticeInv

LEMMA NoticeSetActive ==
  ASSUME NoticeInv, NEW v \in Reader, Notice!SetActive(v) \/ Notice!SetRoles(v)
  PROVE  NoticeInv'
  <1>1. working \subseteq Reader /\ teachers \subseteq Reader BY DEF NoticeInv, NoticeTypes
  <1>2. CASE Notice!SetActive(v)
    BY <1>1, <1>2, NoticeAlters DEF Notice!SetActive
  <1>3. CASE Notice!SetRoles(v)
    BY <1>1, <1>3, NoticeAlters DEF Notice!SetRoles
  <1> QED BY <1>2, <1>3

LEMMA NoticeStep == NoticeInv /\ [Notice!Next]_(Notice!vars) => NoticeInv'
  <1> SUFFICES ASSUME NoticeInv, [Notice!Next]_(Notice!vars) PROVE NoticeInv'
    OBVIOUS
  <1>1. CASE UNCHANGED Notice!vars
    <2>1. UNCHANGED <<notice, working, teachers, inbox, noticeReq, altered, added, broken>> BY <1>1 DEF Notice!vars
    <2>2. NoticeTypes' BY <2>1 DEF NoticeInv, NoticeTypes
    <2>3. \A u \in Reader : Posting(u)' = Posting(u) BY <2>1 DEF Posting
    <2>4. NotTooMany' BY <2>1, <2>3 DEF NoticeInv, NotTooMany
    <2>5. (Published' <=> Published) /\ Due' = Due /\ \A u : Reached(u) => Reached(u)'
      BY <2>1 DEF Published, Reached, Covers, Due, Notice!AudienceUsers
    <2>6. AllReached' BY <2>1, <2>5 DEF NoticeInv, AllReached
    <2> QED BY <2>2, <2>4, <2>6 DEF NoticeInv
  <1> QED
    BY <1>1, NoticeCreate, NoticeRead, NoticeWrite, NoticeResolve, NoticeSelect, NoticeFind,
       NoticeNew, NoticeAbandon, NoticeSetActive DEF Notice!Next, Notice!Notify

LEMMA NoticeMeaning == NoticeInv => Notice!TypeOK /\ Notice!AnnouncedOnce
  <1>1. NoticeInv => Notice!TypeOK
    <2> SUFFICES ASSUME NoticeInv PROVE Notice!TypeOK
      OBVIOUS
    <2>1. \A q \in Worker : /\ noticeReq[q].at \in {"idle", "write", "resolve", "select", "find",
                                                   "create"}
                            /\ noticeReq[q].todo \subseteq Reader /\ noticeReq[q].next \in Reader \cup {None}
                            /\ noticeReq[q].at = "resolve" => noticeReq[q].audience \in Notice!Audience
      BY DEF NoticeInv, NoticeTypes, NoticeRequest
    <2> QED BY <2>1 DEF NoticeInv, NoticeTypes, NoticeStatus, NoticeItem, Notice!TypeOK
  <1>2. NoticeInv => Notice!AnnouncedOnce
    <2> SUFFICES ASSUME NoticeInv PROVE Notice!AnnouncedOnce
      OBVIOUS
    <2>1. \A u \in Reader : inbox[u] \in Nat BY DEF NoticeInv, NoticeTypes
    <2>2. \A u \in Reader : inbox[u] <= Cardinality(Worker)
      BY <2>1, NoticeCreating DEF NoticeInv, NotTooMany
    <2>3. ASSUME notice.status = "PUBLISHED", ~broken, \A q \in Worker : ~Notice!Notifying(q),
                 NEW u \in Due
          PROVE  inbox[u] > 0
      BY <2>3 DEF NoticeInv, AllReached, Published, Reached, Covers, Notice!Notifying
    <2> QED BY <2>2, <2>3, NoticeCounts DEF Notice!AnnouncedOnce, Due
  <1> QED BY <1>1, <1>2

(* Announcements: nobody is notified more often than requests notified at  *)
(* once, and everyone of the audience is unless one of them failed or an   *)
(* edit of the published announcement added them (publish, update,         *)
(* notifyUsers).                                                           *)
THEOREM NoticeSafe ==
    Notice!Spec => [](Notice!TypeOK /\ Notice!AnnouncedOnce)
  BY NoticeInit, NoticeStep, NoticeMeaning, PTL DEF Notice!Spec

-----------------------------------------------------------------------------
(* PortalAccounts.  The accounts of a student are counted with the         *)
(* requests that can still create one.                                     *)

PortRequest == [at : {"idle", "email", "create", "link", "reset"},
                student : Student \cup {None}, email : Email \cup {None}]

(* The requests that can still create an account of a student.             *)
Pending(s) == {q \in Worker : /\ portalReq[q].student = s
                              /\ portalReq[q].at \in {"email", "create", "link"}}

(* A user created and not committed is of an e-mail that nobody has, and   *)
(* what a reset writes is still the student's account unless that raced.   *)
Promised ==
    \A q \in Worker : portalReq[q].at # "idle" =>
        /\ portalReq[q].student \in Student
        /\ portalReq[q].email \in Email
        /\ portalReq[q].at = "link" =>
              /\ portal[portalReq[q].email] = None
              /\ \A r \in Worker \ {q} : ~Portal!Holds(r, portalReq[q].email)
        /\ portalReq[q].at = "reset" =>
              /\ link[portalReq[q].student] # None
              /\ portalReq[q].student \in relinked \/ link[portalReq[q].student] = portalReq[q].email

Owns(s) ==
    /\ Portal!AccountsOf(s) # {} \/ link[s] # None => link[s] \in Portal!AccountsOf(s)
    /\ IsFiniteSet(Portal!AccountsOf(s))
    /\ Cardinality(Portal!AccountsOf(s)) + Cardinality(Pending(s)) <= Cardinality(Worker)
    /\ s \notin relinked => Cardinality(Portal!AccountsOf(s)) <= 1

(* The password of a student whose provisionings did not race opens the    *)
(* linked account while its user is not deleted; an e-mail is a user's     *)
(* before that.                                                            *)
Opened ==
    /\ \A s \in Student \ relinked : opens[s] = IF link[s] \in gone THEN None ELSE link[s]
    /\ \A e \in Email \cap gone : portal[e] # None

PortInv == Portal!TypeOK /\ Promised /\ Opened /\ \A s \in Student : Owns(s)

LEMMA PortalCounts == \A S : Portal!Cardinality(S) = Cardinality(S)
  BY DEF Portal!Cardinality, Cardinality

LEMMA PortIdle ==
    /\ Portal!Idle \in PortRequest /\ Portal!Idle.at = "idle" /\ Portal!Idle.student = None
  BY DEF Portal!Idle, PortRequest

LEMMA PortMoves ==
  ASSUME portalReq \in [Worker -> PortRequest], NEW q \in Worker, NEW x \in PortRequest,
         portalReq' = [portalReq EXCEPT ![q] = x]
  PROVE  /\ portalReq' \in [Worker -> PortRequest] /\ portalReq'[q] = x
         /\ \A r \in Worker \ {q} : portalReq'[r] = portalReq[r]
  OBVIOUS

LEMMA PortPending ==
  \A s : /\ IsFiniteSet(Pending(s)) /\ Cardinality(Pending(s)) \in Nat
         /\ Cardinality(Pending(s)) <= Cardinality(Worker) /\ Cardinality(Worker) \in Nat
  <1> TAKE s
  <1>1. Pending(s) \subseteq Worker BY DEF Pending
  <1> QED BY <1>1, WorkerAssumption, FS_Subset, FS_CardinalityType

LEMMA PortInit == Portal!Init => PortInv
  <1> SUFFICES ASSUME Portal!Init PROVE PortInv
    OBVIOUS
  <1>1. /\ portal = [e \in Email |-> None] /\ link = [s \in Student |-> None]
        /\ gone = {} /\ portalReq = [q \in Worker |-> Portal!Idle] /\ opens = [s \in Student |-> None]
        /\ relinked = {}
    BY DEF Portal!Init
  <1>2. Portal!TypeOK BY <1>1, PortIdle DEF Portal!TypeOK, PortRequest
  <1>3. Promised /\ Opened BY <1>1, PortIdle DEF Promised, Opened
  <1>4. ASSUME NEW s \in Student PROVE Owns(s)
    <2>1. Portal!AccountsOf(s) = {} BY <1>1, HolderAssumption DEF Portal!AccountsOf
    <2>2. IsFiniteSet(Portal!AccountsOf(s)) /\ Cardinality(Portal!AccountsOf(s)) = 0
      BY <2>1, FS_EmptySet
    <2>3. link[s] = None /\ opens[s] = None BY <1>1
    <2> QED BY <2>1, <2>2, <2>3, PortPending DEF Owns
  <1> QED BY <1>2, <1>3, <1>4 DEF PortInv

(* A step of one request that links nobody.                                *)
LEMMA PortOnly ==
  ASSUME PortInv, NEW q \in Worker, NEW x \in PortRequest,
         UNCHANGED <<portal, link, relinked>>, portalReq' = [portalReq EXCEPT ![q] = x],
         gone' \subseteq Student \cup Email, opens' \in [Student -> Email \cup {None}], Opened',
         x.at # "idle" =>
            /\ x.student \in Student
            /\ x.email \in Email
            /\ x.at = "link" => /\ portal[x.email] = None
                                /\ \A r \in Worker : ~Portal!Holds(r, x.email)
            /\ x.at = "reset" => /\ link[x.student] # None
                                 /\ x.student \in relinked \/ link[x.student] = x.email,
         x.at \in {"email", "create", "link"} =>
            link[x.student] = None \/ q \in Pending(x.student)
  PROVE  PortInv'
  <1>1. /\ portalReq' \in [Worker -> PortRequest] /\ portalReq'[q] = x
        /\ \A r \in Worker \ {q} : portalReq'[r] = portalReq[r]
    BY PortMoves DEF PortInv, Portal!TypeOK, PortRequest
  <1>2. Portal!TypeOK' BY <1>1 DEF PortInv, Portal!TypeOK, PortRequest
  <1>3. Promised' BY <1>1 DEF PortInv, Promised, Portal!Holds
  <1>4. ASSUME NEW s \in Student PROVE Owns(s)'
    <2>1. Portal!AccountsOf(s)' = Portal!AccountsOf(s) BY DEF Portal!AccountsOf
    <2>2. Owns(s) BY DEF PortInv
    <2>3. IsFiniteSet(Pending(s)') /\ Cardinality(Pending(s)') \in Nat
          /\ Cardinality(Pending(s)') <= Cardinality(Worker)
      <3>1. Pending(s)' \subseteq Worker BY DEF Pending
      <3> QED BY <3>1, WorkerAssumption, FS_Subset, FS_CardinalityType
    <2>4. Cardinality(Portal!AccountsOf(s)) + Cardinality(Pending(s)') <= Cardinality(Worker)
      <3>1. CASE Pending(s)' \subseteq Pending(s)
        <4>1. Cardinality(Pending(s)') <= Cardinality(Pending(s))
          BY <3>1, PortPending, FS_Subset
        <4>2. Cardinality(Portal!AccountsOf(s)) \in Nat BY <2>2, FS_CardinalityType DEF Owns
        <4> QED BY <2>2, <2>3, <4>1, <4>2, PortPending DEF Owns
      <3>2. CASE ~(Pending(s)' \subseteq Pending(s))
        <4>1. x.student = s /\ x.at \in {"email", "create", "link"} /\ q \notin Pending(s)
          BY <1>1, <3>2 DEF Pending
        <4>2. link[s] = None BY <4>1
        <4>3. link[s] \notin Portal!AccountsOf(s) BY <4>2, HolderAssumption DEF Portal!AccountsOf
        <4>4. Portal!AccountsOf(s) = {} BY <2>2, <4>3 DEF Owns
        <4>5. Cardinality(Portal!AccountsOf(s)) = 0 BY <4>4, FS_EmptySet
        <4> QED BY <2>3, <4>5, PortPending
      <3> QED BY <3>1, <3>2
    <2> QED BY <2>1, <2>2, <2>4 DEF Owns
  <1> QED BY <1>2, <1>3, <1>4 DEF PortInv

LEMMA PortSame ==
  PortInv => /\ gone \subseteq Student \cup Email /\ opens \in [Student -> Email \cup {None}]
             /\ portalReq \in [Worker -> PortRequest]
             /\ (UNCHANGED <<portal, link, gone, opens, relinked>> => Opened')
  BY DEF PortInv, Portal!TypeOK, Opened, PortRequest

LEMMA PortFinish ==
  ASSUME PortInv, NEW q \in Worker, Portal!Finish(q), UNCHANGED <<portal, link, gone, relinked>>,
         opens' \in [Student -> Email \cup {None}], Opened'
  PROVE  PortInv'
  <1>1. gone' \subseteq Student \cup Email BY PortSame
  <1>2. portalReq' = [portalReq EXCEPT ![q] = Portal!Idle] BY DEF Portal!Finish
  <1> QED BY <1>1, <1>2, PortIdle, PortOnly

LEMMA PortReadStudent ==
  ASSUME PortInv, NEW q \in Worker, NEW s \in Student, NEW e \in Email, Portal!ReadStudent(q, s, e)
  PROVE  PortInv'
  <1> DEFINE x == [at |-> "email", student |-> s, email |-> e]
  <1>1. x \in PortRequest /\ x.at = "email" /\ x.student = s /\ x.email = e BY DEF PortRequest
  <1>2. /\ portalReq' = [portalReq EXCEPT ![q] = x] /\ link[s] = None
        /\ UNCHANGED <<portal, link, gone, opens, relinked>>
    BY DEF Portal!ReadStudent
  <1> HIDE DEF x
  <1> QED BY <1>1, <1>2, PortOnly, PortSame

LEMMA PortCheckEmail ==
  ASSUME PortInv, NEW q \in Worker, Portal!CheckEmail(q)
  PROVE  PortInv'
  <1>1. portalReq[q].at = "email" /\ UNCHANGED <<portal, link, gone, opens, relinked>>
    BY DEF Portal!CheckEmail
  <1>2. CASE Portal!Finish(q) BY <1>1, <1>2, PortFinish, PortSame
  <1>3. CASE portalReq' = [portalReq EXCEPT ![q].at = "create"]
    <2> DEFINE x == [portalReq[q] EXCEPT !.at = "create"]
    <2>1. portalReq[q].student \in Student /\ portalReq[q].email \in Email /\ portalReq[q] \in PortRequest
      BY <1>1, PortSame DEF PortInv, Promised
    <2>2. /\ x \in PortRequest /\ x.at = "create" /\ x.student = portalReq[q].student
          /\ x.email = portalReq[q].email
      BY <2>1 DEF PortRequest
    <2>3. portalReq' = [portalReq EXCEPT ![q] = x] BY <1>3
    <2>4. q \in Pending(portalReq[q].student) BY <1>1 DEF Pending
    <2> HIDE DEF x
    <2> QED BY <1>1, <2>1, <2>2, <2>3, <2>4, PortOnly, PortSame
  <1> QED BY <1>2, <1>3 DEF Portal!CheckEmail

LEMMA PortCreateUser ==
  ASSUME PortInv, NEW q \in Worker, Portal!CreateUser(q)
  PROVE  PortInv'
  <1>1. /\ portalReq[q].at = "create" /\ UNCHANGED <<portal, link, gone, opens, relinked>>
        /\ \A r \in Worker : ~Portal!Holds(r, portalReq[q].email)
    BY DEF Portal!CreateUser
  <1>2. CASE Portal!Finish(q) BY <1>1, <1>2, PortFinish, PortSame
  <1>3. CASE portal[portalReq[q].email] = None /\ portalReq' = [portalReq EXCEPT ![q].at = "link"]
    <2> DEFINE x == [portalReq[q] EXCEPT !.at = "link"]
    <2>1. portalReq[q].student \in Student /\ portalReq[q].email \in Email /\ portalReq[q] \in PortRequest
      BY <1>1, PortSame DEF PortInv, Promised
    <2>2. /\ x \in PortRequest /\ x.at = "link" /\ x.student = portalReq[q].student
          /\ x.email = portalReq[q].email
      BY <2>1 DEF PortRequest
    <2>3. portalReq' = [portalReq EXCEPT ![q] = x] BY <1>3
    <2>4. q \in Pending(portalReq[q].student) BY <1>1 DEF Pending
    <2> HIDE DEF x
    <2> QED BY <1>1, <1>3, <2>1, <2>2, <2>3, <2>4, PortOnly, PortSame
  <1> QED BY <1>2, <1>3 DEF Portal!CreateUser

LEMMA PortLink ==
  ASSUME PortInv, NEW q \in Worker, Portal!LinkStudent(q)
  PROVE  PortInv'
  <1>0. portalReq[q].at = "link" /\ portalReq[q].student \in Student /\ portalReq[q].email \in Email
    BY DEF Portal!LinkStudent, PortInv, Promised
  <1>1. PICK s \in Student, e \in Email : s = portalReq[q].student /\ e = portalReq[q].email
    BY <1>0
  <1>2. /\ portal' = [portal EXCEPT ![e] = s] /\ link' = [link EXCEPT ![s] = e]
        /\ opens' = [opens EXCEPT ![s] = e] /\ gone' = gone
        /\ relinked' = IF link[s] = None THEN relinked ELSE relinked \cup {s}
        /\ portalReq' = [portalReq EXCEPT ![q] = Portal!Idle]
    BY <1>1 DEF Portal!LinkStudent, Portal!Finish
  <1>3. portal[e] = None /\ \A r \in Worker \ {q} : ~Portal!Holds(r, e)
    BY <1>0, <1>1 DEF PortInv, Promised
  <1>4. /\ portalReq' \in [Worker -> PortRequest] /\ portalReq'[q] = Portal!Idle
        /\ \A r \in Worker \ {q} : portalReq'[r] = portalReq[r]
    BY <1>2, PortMoves, PortIdle, PortSame
  <1>5. /\ portal' \in [Email -> Student \cup {None}] /\ portal'[e] = s
        /\ \A d \in Email \ {e} : portal'[d] = portal[d]
        /\ link' \in [Student -> Email \cup {None}] /\ link'[s] = e
        /\ opens' \in [Student -> Email \cup {None}] /\ opens'[s] = e
        /\ \A t \in Student \ {s} : link'[t] = link[t] /\ opens'[t] = opens[t]
        /\ relinked' \subseteq Student
    BY <1>2 DEF PortInv, Portal!TypeOK
  <1>6. Portal!TypeOK' BY <1>2, <1>4, <1>5 DEF PortInv, Portal!TypeOK, PortRequest
  <1>7. Promised'
    <2> SUFFICES ASSUME NEW r \in Worker, portalReq'[r].at # "idle"
                 PROVE  /\ portalReq'[r].student \in Student
                        /\ portalReq'[r].email \in Email
                        /\ portalReq'[r].at = "link" =>
                              /\ portal'[portalReq'[r].email] = None
                              /\ \A t \in Worker \ {r} :
                                    ~(portalReq'[t].at = "link" /\ portalReq'[t].email = portalReq'[r].email)
                        /\ portalReq'[r].at = "reset" =>
                              /\ link'[portalReq'[r].student] # None
                              /\ \/ portalReq'[r].student \in relinked'
                                 \/ link'[portalReq'[r].student] = portalReq'[r].email
      BY DEF Promised, Portal!Holds
    <2>1. r # q /\ portalReq'[r] = portalReq[r] BY <1>4, PortIdle
    <2>2. portalReq[r].student \in Student /\ portalReq[r].email \in Email
      BY <2>1 DEF PortInv, Promised
    <2>3. ASSUME portalReq[r].at = "link"
          PROVE  /\ portal'[portalReq[r].email] = None
                 /\ \A t \in Worker \ {r} :
                       ~(portalReq'[t].at = "link" /\ portalReq'[t].email = portalReq[r].email)
      <3>1. /\ portal[portalReq[r].email] = None
            /\ \A t \in Worker \ {r} : ~Portal!Holds(t, portalReq[r].email)
        BY <2>1, <2>3 DEF PortInv, Promised
      <3>2. portalReq[r].email # e BY <1>3, <2>1, <2>3 DEF Portal!Holds
      <3>3. \A t \in Worker \ {r} :
                       ~(portalReq'[t].at = "link" /\ portalReq'[t].email = portalReq[r].email)
        BY <1>4, <2>1, <3>1, PortIdle DEF Portal!Holds
      <3> QED BY <1>5, <2>2, <3>1, <3>2, <3>3
    <2>4. ASSUME portalReq[r].at = "reset"
          PROVE  /\ link'[portalReq[r].student] # None
                 /\ portalReq[r].student \in relinked' \/ link'[portalReq[r].student] = portalReq[r].email
      <3>1. /\ link[portalReq[r].student] # None
            /\ portalReq[r].student \in relinked \/ link[portalReq[r].student] = portalReq[r].email
        BY <2>1, <2>4 DEF PortInv, Promised
      <3> QED BY <1>2, <1>5, <2>2, <3>1, HolderAssumption
    <2> QED BY <2>1, <2>2, <2>3, <2>4
  <1>10. Opened'
    <2>1. e \notin gone BY <1>3 DEF PortInv, Opened
    <2>2. \A t \in Student \ relinked' :
             opens'[t] = IF link'[t] \in gone THEN None ELSE link'[t]
      BY <1>2, <1>5, <2>1 DEF PortInv, Opened
    <2>3. \A d \in Email \cap gone : portal'[d] # None
      BY <1>5, <2>1 DEF PortInv, Opened
    <2> QED BY <1>2, <2>2, <2>3 DEF Opened
  <1>8. ASSUME NEW t \in Student \ {s} PROVE Owns(t)'
    <2>1. Portal!AccountsOf(t)' = Portal!AccountsOf(t) BY <1>3, <1>5, HolderAssumption DEF Portal!AccountsOf
    <2>2. Pending(t)' = Pending(t)
      BY <1>1, <1>4, PortIdle DEF Pending
    <2>3. Owns(t) BY DEF PortInv
    <2> QED BY <1>2, <1>5, <2>1, <2>2, <2>3 DEF Owns
  <1>9. Owns(s)'
    <2>0. Owns(s) BY DEF PortInv
    <2>1. Portal!AccountsOf(s)' = Portal!AccountsOf(s) \cup {e} BY <1>5 DEF Portal!AccountsOf
    <2>2. e \notin Portal!AccountsOf(s) BY <1>3, HolderAssumption DEF Portal!AccountsOf
    <2>3. /\ IsFiniteSet(Portal!AccountsOf(s) \cup {e})
          /\ Cardinality(Portal!AccountsOf(s) \cup {e}) = Cardinality(Portal!AccountsOf(s)) + 1
      BY <2>0, <2>2, FS_AddElement DEF Owns
    <2>4. Pending(s)' = Pending(s) \ {q} /\ q \in Pending(s)
      BY <1>0, <1>1, <1>4, PortIdle DEF Pending
    <2>5. Cardinality(Pending(s) \ {q}) = Cardinality(Pending(s)) - 1
      BY <2>4, PortPending, FS_RemoveElement
    <2>6. Cardinality(Portal!AccountsOf(s)) \in Nat BY <2>0, FS_CardinalityType DEF Owns
    <2>7. Cardinality(Portal!AccountsOf(s) \cup {e}) + Cardinality(Pending(s) \ {q})
             <= Cardinality(Worker)
      BY <2>0, <2>3, <2>5, <2>6, PortPending DEF Owns
    <2>8. s \notin relinked' => Cardinality(Portal!AccountsOf(s) \cup {e}) <= 1
      <3>1. SUFFICES ASSUME s \notin relinked' PROVE Cardinality(Portal!AccountsOf(s)) = 0
        BY <2>3, <2>6
      <3>2. link[s] = None BY <1>2, <3>1
      <3>3. Portal!AccountsOf(s) = {} BY <2>0, <3>2, HolderAssumption DEF Owns, Portal!AccountsOf
      <3> QED BY <3>3, FS_EmptySet
    <2> QED BY <1>5, <2>1, <2>3, <2>4, <2>7, <2>8 DEF Owns
  <1> QED BY <1>6, <1>7, <1>8, <1>9, <1>10 DEF PortInv

LEMMA PortReadAccount ==
  ASSUME PortInv, NEW q \in Worker, NEW s \in Student, Portal!ReadAccount(q, s)
  PROVE  PortInv'
  <1> DEFINE x == [at |-> "reset", student |-> s, email |-> link[s]]
  <1>1. link[s] \in Email /\ link[s] # None
    BY DEF Portal!ReadAccount, PortInv, Portal!TypeOK
  <1>2. x \in PortRequest /\ x.at = "reset" /\ x.student = s /\ x.email = link[s]
    BY <1>1 DEF PortRequest
  <1>3. /\ portalReq' = [portalReq EXCEPT ![q] = x] /\ UNCHANGED <<portal, link, gone, opens, relinked>>
    BY DEF Portal!ReadAccount
  <1> HIDE DEF x
  <1> QED BY <1>1, <1>2, <1>3, PortOnly, PortSame

LEMMA PortReset ==
  ASSUME PortInv, NEW q \in Worker, Portal!ResetPassword(q)
  PROVE  PortInv'
  <1> DEFINE e == portalReq[q].email
  <1>1. /\ portalReq[q].at = "reset" /\ Portal!Finish(q) /\ UNCHANGED <<portal, link, gone, relinked>>
        /\ opens' = [opens EXCEPT ![portalReq[q].student] = IF e \in gone THEN None ELSE e]
    BY DEF Portal!ResetPassword
  <1>2. /\ portalReq[q].student \in Student /\ e \in Email
        /\ portalReq[q].student \in relinked \/ link[portalReq[q].student] = e
    BY <1>1 DEF PortInv, Promised
  <1>3. opens' \in [Student -> Email \cup {None}] BY <1>1, <1>2, PortSame
  <1>4. \A s \in Student \ relinked : opens'[s] = IF link[s] \in gone THEN None ELSE link[s]
    BY <1>1, <1>2, PortSame DEF PortInv, Opened
  <1>5. Opened' BY <1>1, <1>4 DEF PortInv, Opened
  <1> QED BY <1>1, <1>3, <1>5, PortFinish

LEMMA PortDelete ==
  ASSUME PortInv, UNCHANGED <<portal, link, portalReq, relinked>>, Opened',
         gone' \subseteq Student \cup Email, opens' \in [Student -> Email \cup {None}]
  PROVE  PortInv'
  <1>1. Portal!TypeOK' BY DEF PortInv, Portal!TypeOK
  <1>2. Promised' BY DEF PortInv, Promised, Portal!Holds
  <1>3. \A s \in Student : Portal!AccountsOf(s)' = Portal!AccountsOf(s) /\ Pending(s)' = Pending(s)
    BY DEF Portal!AccountsOf, Pending
  <1>4. \A s \in Student : Owns(s)' BY <1>3 DEF PortInv, Owns
  <1> QED BY <1>1, <1>2, <1>4 DEF PortInv

LEMMA PortStep == PortInv /\ [Portal!Next]_(Portal!vars) => PortInv'
  <1> SUFFICES ASSUME PortInv, [Portal!Next]_(Portal!vars) PROVE PortInv'
    OBVIOUS
  <1>1. CASE UNCHANGED Portal!vars
    <2>1. UNCHANGED <<portal, link, gone, portalReq, opens, relinked>> BY <1>1 DEF Portal!vars
    <2> QED BY <2>1, PortDelete, PortSame
  <1>2. ASSUME NEW s \in Student, Portal!DeleteStudent(s) PROVE PortInv'
    <2>1. gone' = gone \cup {s} /\ UNCHANGED <<portal, link, portalReq, opens, relinked>>
      BY <1>2 DEF Portal!DeleteStudent
    <2>2. \A t \in Student : link[t] # s
      BY HolderAssumption DEF PortInv, Portal!TypeOK
    <2>3. \A t \in Student \ relinked : opens[t] = IF link[t] \in gone' THEN None ELSE link[t]
      BY <2>1, <2>2 DEF PortInv, Opened
    <2>4. Opened' BY <2>1, <2>3, HolderAssumption DEF PortInv, Opened
    <2> QED BY <2>1, <2>4, PortDelete, PortSame
  <1>3. ASSUME NEW e \in Email, Portal!DeleteUser(e) PROVE PortInv'
    <2>1. /\ gone' = gone \cup {e} /\ portal[e] # None /\ e \notin gone
          /\ opens' = [s \in Student |-> IF opens[s] = e THEN None ELSE opens[s]]
          /\ UNCHANGED <<portal, link, portalReq, relinked>>
      BY <1>3 DEF Portal!DeleteUser
    <2>2. \A s \in Student \ relinked : opens'[s] = IF link[s] \in gone' THEN None ELSE link[s]
      <3> SUFFICES ASSUME NEW s \in Student \ relinked
                   PROVE  opens'[s] = IF link[s] \in gone' THEN None ELSE link[s]
        OBVIOUS
      <3>1. opens'[s] = IF opens[s] = e THEN None ELSE opens[s] BY <2>1
      <3>2. opens[s] = IF link[s] \in gone THEN None ELSE link[s] BY DEF PortInv, Opened
      <3> QED BY <2>1, <3>1, <3>2, HolderAssumption
    <2>3. \A d \in Email \cap gone' : portal[d] # None BY <2>1 DEF PortInv, Opened
    <2>4. Opened' BY <2>1, <2>2, <2>3 DEF Opened
    <2>5. opens' \in [Student -> Email \cup {None}] BY <2>1, PortSame
    <2> QED BY <2>1, <2>4, <2>5, PortDelete, PortSame
  <1>4. ASSUME NEW q \in Worker, Portal!Abandon(q) PROVE PortInv'
    BY <1>4, PortFinish, PortSame DEF Portal!Abandon
  <1> QED
    BY <1>1, <1>2, <1>3, <1>4, PortReadAccount, PortReadStudent, PortCheckEmail,
       PortCreateUser, PortLink, PortReset DEF Portal!Next

LEMMA PortMeaning == PortInv => Portal!TypeOK /\ Portal!AccountIsLinked
  <1>1. PortInv => Portal!TypeOK /\ Portal!AccountIsLinked
    <2> SUFFICES ASSUME PortInv, NEW s \in Student
                 PROVE  Cardinality(Portal!AccountsOf(s)) <=
                          IF s \in relinked THEN Cardinality(Worker) ELSE 1
      BY PortalCounts DEF PortInv, Portal!AccountIsLinked, Owns, Opened
    <2>1. Owns(s) BY DEF PortInv
    <2>2. Cardinality(Portal!AccountsOf(s)) \in Nat BY <2>1, FS_CardinalityType DEF Owns
    <2> QED BY <2>1, <2>2, PortPending DEF Owns
  <1> QED BY <1>1

(* PortalAccounts: an account is linked to its student, who has one, and   *)
(* the password set last opens it until its user is deleted, unless        *)
(* provisionings raced (provisionStudentPortalInTransaction,               *)
(* resetStudentPortalPassword).                                            *)
THEOREM PortSafe ==
    Portal!Spec => [](Portal!TypeOK /\ Portal!AccountIsLinked)
  BY PortInit, PortStep, PortMeaning, PTL DEF Portal!Spec

-----------------------------------------------------------------------------
(* Office as a whole.  A component whose turn it is takes its own steps, and*)
(* the others keep their rows.                                             *)

(* The inductive invariant: that of the component that acts.               *)
OfficeInv ==
    /\ part = "terms" => TermInv
    /\ part = "payroll" => PayInv
    /\ part = "stock" => StockInv
    /\ part = "grades" => GradeInv
    /\ part = "timetable" => LessonInv
    /\ part = "exams" => ExamInv
    /\ part = "internships" => InternInv
    /\ part = "leave" => LeaveInv
    /\ part = "attendance" => AttendInv
    /\ part = "roles" => RoleInv
    /\ part = "announcements" => NoticeInv
    /\ part = "portal" => PortInv
    /\ IF part = "client" THEN ClientInv ELSE replayed = {}

LEMMA PartInit == OfficeInit => OfficeInv
  <1> SUFFICES ASSUME OfficeInit PROVE OfficeInv
    OBVIOUS
  <1>1. part = "terms" => TermInv
    BY TermInit DEF OfficeInit
  <1>2. part = "payroll" => PayInv
    BY PayInit DEF OfficeInit
  <1>3. part = "stock" => StockInv
    BY StockInit DEF OfficeInit
  <1>4. part = "grades" => GradeInv
    BY GradeInit DEF OfficeInit
  <1>5. part = "timetable" => LessonInv
    BY LessonInit DEF OfficeInit
  <1>6. part = "exams" => ExamInv
    BY ExamInit DEF OfficeInit
  <1>7. part = "internships" => InternInv
    BY InternInit DEF OfficeInit
  <1>8. part = "leave" => LeaveInv
    BY LeaveInit DEF OfficeInit
  <1>9. part = "attendance" => AttendInv
    BY AttendInit DEF OfficeInit
  <1>10. part = "roles" => RoleInv
    BY RoleInit DEF OfficeInit
  <1>11. part = "announcements" => NoticeInv
    BY NoticeInit DEF OfficeInit
  <1>12. part = "portal" => PortInv
    BY PortInit DEF OfficeInit
  <1>13. IF part = "client" THEN ClientInv ELSE replayed = {}
    BY SessionsInit, BrowserInit DEF OfficeInit, ClientInv
  <1> QED BY <1>1, <1>2, <1>3, <1>4, <1>5, <1>6, <1>7, <1>8, <1>9, <1>10, <1>11, <1>12, <1>13
          DEF OfficeInv

(* A step of Office is a step of the component whose turn it is.            *)
LEMMA PartStep ==
    ASSUME [OfficeNext]_officeVars
    PROVE  /\ part' = part
           /\ part = "terms" => [Terms!Next]_(Terms!vars)
           /\ part = "payroll" => [Pay!Next]_(Pay!vars)
           /\ part = "stock" => [Stock!Next]_(Stock!vars)
           /\ part = "grades" => [Marks!Next]_(Marks!vars)
           /\ part = "timetable" => [Lessons!Next]_(Lessons!vars)
           /\ part = "exams" => [Exam!Next]_(Exam!vars)
           /\ part = "internships" => [Intern!Next]_(Intern!vars)
           /\ part = "leave" => [Absence!Next]_(Absence!vars)
           /\ part = "attendance" => [Attend!Next]_(Attend!vars)
           /\ part = "roles" => [Roles!Next]_(Roles!vars)
           /\ part = "announcements" => [Notice!Next]_(Notice!vars)
           /\ part = "portal" => [Portal!Next]_(Portal!vars)
           /\ part = "client" => [ClientNext]_allVars
           /\ part # "client" => replayed' = replayed
  <1>1. CASE UNCHANGED officeVars
    <2>1. UNCHANGED <<part, allVars>> /\ replayed' = replayed
      BY <1>1 DEF officeVars, allVars, vars
    <2>2. UNCHANGED Terms!vars
      BY <1>1 DEF officeVars, termVars, Terms!vars
    <2>3. UNCHANGED Pay!vars
      BY <1>1 DEF officeVars, payVars, Pay!vars
    <2>4. UNCHANGED Stock!vars
      BY <1>1 DEF officeVars, stockVars, Stock!vars
    <2>5. UNCHANGED Marks!vars
      BY <1>1 DEF officeVars, gradeVars, Marks!vars
    <2>6. UNCHANGED Lessons!vars
      BY <1>1 DEF officeVars, lessonVars, Lessons!vars
    <2>7. UNCHANGED Exam!vars
      BY <1>1 DEF officeVars, examVars, Exam!vars
    <2>8. UNCHANGED Intern!vars
      BY <1>1 DEF officeVars, internVars, Intern!vars
    <2>9. UNCHANGED Absence!vars
      BY <1>1 DEF officeVars, leaveVars, Absence!vars
    <2>10. UNCHANGED Attend!vars
      BY <1>1 DEF officeVars, attendVars, Attend!vars
    <2>11. UNCHANGED Roles!vars
      BY <1>1 DEF officeVars, roleVars, Roles!vars
    <2>12. UNCHANGED Notice!vars
      BY <1>1 DEF officeVars, noticeVars, Notice!vars
    <2>13. UNCHANGED Portal!vars
      BY <1>1 DEF officeVars, portalVars, Portal!vars
    <2> QED BY <2>1, <2>2, <2>3, <2>4, <2>5, <2>6, <2>7, <2>8, <2>9, <2>10, <2>11, <2>12, <2>13
  <1>2. CASE Others("terms") /\ Terms!Next
    BY <1>2 DEF Others, allVars, vars
  <1>3. CASE Others("payroll") /\ Pay!Next
    BY <1>3 DEF Others, allVars, vars
  <1>4. CASE Others("stock") /\ Stock!Next
    BY <1>4 DEF Others, allVars, vars
  <1>5. CASE Others("grades") /\ Marks!Next
    BY <1>5 DEF Others, allVars, vars
  <1>6. CASE Others("timetable") /\ Lessons!Next
    BY <1>6 DEF Others, allVars, vars
  <1>7. CASE Others("exams") /\ Exam!Next
    BY <1>7 DEF Others, allVars, vars
  <1>8. CASE Others("internships") /\ Intern!Next
    BY <1>8 DEF Others, allVars, vars
  <1>9. CASE Others("leave") /\ Absence!Next
    BY <1>9 DEF Others, allVars, vars
  <1>10. CASE Others("attendance") /\ Attend!Next
    BY <1>10 DEF Others, allVars, vars
  <1>11. CASE Others("roles") /\ Roles!Next
    BY <1>11 DEF Others, allVars, vars
  <1>12. CASE Others("announcements") /\ Notice!Next
    BY <1>12 DEF Others, allVars, vars
  <1>13. CASE Others("portal") /\ Portal!Next
    BY <1>13 DEF Others, allVars, vars
  <1>14. CASE Others("client") /\ ClientNext
    BY <1>14 DEF Others
  <1> QED BY <1>1, <1>2, <1>3, <1>4, <1>5, <1>6, <1>7, <1>8, <1>9, <1>10, <1>11, <1>12, <1>13, <1>14
          DEF OfficeNext

LEMMA OfficeStep == OfficeInv /\ [OfficeNext]_officeVars => OfficeInv'
  <1> SUFFICES ASSUME OfficeInv, [OfficeNext]_officeVars PROVE OfficeInv'
    OBVIOUS
  <1>1. part = "terms" => TermInv'
    BY PartStep, TermStep DEF OfficeInv
  <1>2. part = "payroll" => PayInv'
    BY PartStep, PayStep DEF OfficeInv
  <1>3. part = "stock" => StockInv'
    BY PartStep, StockStep DEF OfficeInv
  <1>4. part = "grades" => GradeInv'
    BY PartStep, GradeStep DEF OfficeInv
  <1>5. part = "timetable" => LessonInv'
    BY PartStep, LessonStep DEF OfficeInv
  <1>6. part = "exams" => ExamInv'
    BY PartStep, ExamStep DEF OfficeInv
  <1>7. part = "internships" => InternInv'
    BY PartStep, InternStep DEF OfficeInv
  <1>8. part = "leave" => LeaveInv'
    BY PartStep, LeaveStep DEF OfficeInv
  <1>9. part = "attendance" => AttendInv'
    BY PartStep, AttendStep DEF OfficeInv
  <1>10. part = "roles" => RoleInv'
    BY PartStep, RoleStep DEF OfficeInv
  <1>11. part = "announcements" => NoticeInv'
    BY PartStep, NoticeStep DEF OfficeInv
  <1>12. part = "portal" => PortInv'
    BY PartStep, PortStep DEF OfficeInv
  <1>13. IF part = "client" THEN ClientInv' ELSE replayed' = {}
    BY PartStep, ClientStep DEF OfficeInv
  <1> QED BY PartStep, <1>1, <1>2, <1>3, <1>4, <1>5, <1>6, <1>7, <1>8, <1>9, <1>10, <1>11, <1>12, <1>13
          DEF OfficeInv

LEMMA OfficeInvariance == OfficeSpec => []OfficeInv
  BY PartInit, OfficeStep, PTL DEF OfficeSpec

(* Every component's variables have the values its module says they have.   *)
THEOREM OfficeTypeCorrect == OfficeSpec => []OfficeTypeOK
  <1>1. OfficeInv => OfficeTypeOK
    <2> SUFFICES ASSUME OfficeInv PROVE OfficeTypeOK
      OBVIOUS
    <2> QED BY TermMeaning, PayMeaning, StockMeaning, GradeMeaning, LessonMeaning, ExamMeaning,
               InternMeaning, LeaveMeaning, AttendMeaning, RoleMeaning, NoticeMeaning, PortMeaning,
               ClientMeaning DEF OfficeInv, OfficeTypeOK
  <1> QED BY <1>1, OfficeInvariance, PTL

(* At most one academic year or semester is active once no request is      *)
(* between its two statements (enforceSingleActive).                       *)
THEOREM OneTermIsActive == OfficeSpec => []OneActive
  <1>1. OfficeInv => OneActive
    BY TermMeaning DEF OfficeInv, OneActive
  <1> QED BY <1>1, OfficeInvariance, PTL

(* A payroll run has the items of exactly one calculation, however often   *)
(* its period was calculated and whichever calculations failed halfway     *)
(* (calculateEmployeeRun).                                                 *)
THEOREM RunsAreOfOneCalculation == OfficeSpec => []ItemsOfOneCalculation
  <1>1. OfficeInv => ItemsOfOneCalculation
    BY PayMeaning DEF OfficeInv, ItemsOfOneCalculation
  <1> QED BY <1>1, OfficeInvariance, PTL

(* The runs and payslips follow the status of their period once no request *)
(* is between the two (updatePeriodStatus, markRunPaid), but for the       *)
(* failures and overlaps named, for any number of employees.               *)
THEOREM RunsFollowThePeriod == OfficeSpec => []RunsFollowPeriod
  <1>1. OfficeInv => RunsFollowPeriod
    BY PayMeaning DEF OfficeInv, RunsFollowPeriod
  <1> QED BY <1>1, OfficeInvariance, PTL

(* The shelf and the loans account for every unit of an item, for any      *)
(* number of loans and any quantities (markLoanBorrowed, returnLoan).      *)
THEOREM StockIsConserved == OfficeSpec => []StockConserved
  <1>1. OfficeInv => StockConserved
    BY StockMeaning DEF OfficeInv, StockConserved
  <1> QED BY <1>1, OfficeInvariance, PTL

(* The quantity is overdrawn by racing requests only, and by no more than  *)
(* all of them but one can take (createMovement).                          *)
THEOREM ShortageIsBounded == OfficeSpec => []ShortageBounded
  <1>1. OfficeInv => ShortageBounded
    BY StockMeaning DEF OfficeInv, ShortageBounded
  <1> QED BY <1>1, OfficeInvariance, PTL

(* Students whose grade is approved have a notification of that status     *)
(* once no approval is in progress, but for those the approval had not read*)
(* or could not reach, or whose notification failed (approveScores,        *)
(* studentUser, notifyUsers).                                              *)
THEOREM ApprovedStudentsAreTold == OfficeSpec => []ApprovedAreTold
  <1>1. OfficeInv => ApprovedAreTold
    BY GradeMeaning DEF OfficeInv, ApprovedAreTold
  <1> QED BY <1>1, OfficeInvariance, PTL

(* No room, teacher or classroom has two lessons in a slot                 *)
(* (validateConflicts), for any number of lessons.                         *)
THEOREM NobodyIsDoubleBooked == OfficeSpec => []NoDoubleBooking
  <1>1. OfficeInv => NoDoubleBooking
    BY LessonMeaning DEF OfficeInv, NoDoubleBooking
  <1> QED BY <1>1, OfficeInvariance, PTL

(* The participants of an exam are numbered without gaps or repetitions,   *)
(* unless additions raced (addParticipant, addParticipantsBulk).           *)
THEOREM NumbersHaveNoHoles == OfficeSpec => []NumbersAreConsecutive
  <1>1. OfficeInv => NumbersAreConsecutive
    BY ExamMeaning DEF OfficeInv, NumbersAreConsecutive
  <1> QED BY <1>1, OfficeInvariance, PTL

(* A participant has one result for a question, unless submissions raced   *)
(* or one listed it twice (submitParticipantResults).                      *)
THEOREM ResultsAreUnique == OfficeSpec => []OneResultEach
  <1>1. OfficeInv => OneResultEach
    BY ExamMeaning DEF OfficeInv, OneResultEach
  <1> QED BY <1>1, OfficeInvariance, PTL

(* The final score of an internship is that of its score, unless a         *)
(* completion was overtaken (complete, score).                             *)
THEOREM FinalScoresAgree == OfficeSpec => []FinalScoreIsTheScore
  <1>1. OfficeInv => FinalScoreIsTheScore
    BY InternMeaning DEF OfficeInv, FinalScoreIsTheScore
  <1> QED BY <1>1, OfficeInvariance, PTL

(* The number of days of a leave is that of its dates, however updates     *)
(* overlap (updateLeaveRequest).                                           *)
THEOREM LeaveDaysMatch == OfficeSpec => []DaysMatchDates
  <1>1. OfficeInv => DaysMatchDates
    BY LeaveMeaning DEF OfficeInv, DaysMatchDates
  <1> QED BY <1>1, OfficeInvariance, PTL

(* Recordings of the same students do not mix (recordAttendance), however  *)
(* many overlap.                                                           *)
THEOREM OverlappingRecordingsDoNotMix == OfficeSpec => []RecordingsDoNotMix
  <1>1. OfficeInv => RecordingsDoNotMix
    BY AttendMeaning DEF OfficeInv, RecordingsDoNotMix
  <1> QED BY <1>1, OfficeInvariance, PTL

(* An owner has the roles or permissions that the last replacement gave,   *)
(* and none that was deleted (replaceUserRoles, replaceRolePermissions).   *)
THEOREM ReplacementsAreWhole == OfficeSpec => []AssignedAsGiven
  <1>1. OfficeInv => AssignedAsGiven
    BY RoleMeaning DEF OfficeInv, AssignedAsGiven
  <1> QED BY <1>1, OfficeInvariance, PTL

(* Everyone of its audience is notified of a published announcement, unless*)
(* a request failed while it notified or an edit that notifies nobody added*)
(* them, and nobody more often than requests can notify at once (publish,  *)
(* update, notifyUsers).                                                   *)
THEOREM AnnouncementsReachEveryone == OfficeSpec => []AnnouncedOnce
  <1>1. OfficeInv => AnnouncedOnce
    BY NoticeMeaning DEF OfficeInv, AnnouncedOnce
  <1> QED BY <1>1, OfficeInvariance, PTL

(* A student with an account is linked to one of its own; unless           *)
(* provisionings overlapped there is no other, and the password set last   *)
(* opens it until its user is deleted (provisionStudentPortalInTransaction,*)
(* resetStudentPortalPassword).                                            *)
THEOREM AccountsAreLinked == OfficeSpec => []AccountIsLinked
  <1>1. OfficeInv => AccountIsLinked
    BY PortMeaning DEF OfficeInv, AccountIsLinked
  <1> QED BY <1>1, OfficeInvariance, PTL

(* The server takes a refresh of the browser for theft only if requests    *)
(* with its cookie crossed, an answer was lost, or a session was revoked   *)
(* while the browser kept the cookie (performCookieRefresh, refresh).      *)
THEOREM BrowserIsNotAThief == OfficeSpec => []OwnReplayExplained
  <1>1. OfficeInv => OwnReplayExplained
    BY ClientMeaning DEF OfficeInv, OwnReplayExplained
  <1> QED BY <1>1, OfficeInvariance, PTL
=============================================================================
