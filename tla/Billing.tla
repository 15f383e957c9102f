------------------------------ MODULE Billing ------------------------------
(***************************************************************************)
(* Invoices and payments of the school-fee ledger:                         *)
(*   apps/api/src/invoices/invoices.service.ts                             *)
(*   apps/api/src/invoices/invoice-overdue.service.ts                      *)
(*   apps/api/src/payments/payments.service.ts                             *)
(*                                                                         *)
(* Every HTTP request is served by a Handler.  A handler is a record whose *)
(* field "at" is the next database statement it is going to execute, so    *)
(* the statements of two requests interleave as PostgreSQL at READ         *)
(* COMMITTED lets them.  invStatus, total, paid, ... hold the committed    *)
(* rows.  A transaction's writes become visible in its last step; the rows *)
(* it has locked are derived from the program counters of the handlers     *)
(* (InvoiceLocked, PaymentLocked).                                         *)
(*                                                                         *)
(* invoiceNumber and paymentNumber are left out: no operation depends on   *)
(* them.                                                                   *)
(***************************************************************************)
EXTENDS Integers, Functions

CONSTANTS
    Invoice,    \* ids of the rows of table invoices
    Payment,    \* ids of the rows of table payments
    Handler,    \* requests that can be in progress at the same time
    Amount,     \* the amount of each payment, which no operation changes
    Totals,     \* the values subtotal - discount + penalty can take
    None        \* no invoice, no payment

ASSUME AmountAssumption == Amount \in [Payment -> Nat \ {0}]
ASSUME TotalsAssumption == Totals \subseteq Int
ASSUME NoneAssumption == None \notin Invoice /\ None \notin Payment

VARIABLES
    invStatus,  \* invoices.status, "NONE" while the row does not exist
    total,      \* invoices.total
    paid,       \* invoices.paidAmount
    deleted,    \* invoices.deletedAt is set
    pastDue,    \* invoices.dueDate is set and is before now()
    payStatus,  \* payments.status, "NONE" while the row does not exist
    payInvoice, \* payments.invoiceId
    h,          \* the state of each handler
    overruled,  \* history: payments that a rejection took out of VERIFIED
    lateEdit    \* history: invoices written by a request whose guard no
                \* longer held when its write was executed

invoiceVars == <<invStatus, total, paid, deleted, pastDue>>
paymentVars == <<payStatus, payInvoice>>
vars == <<invStatus, total, paid, deleted, pastDue, payStatus, payInvoice,
          h, overruled, lateEdit>>

InvoiceStatus ==
    {"NONE", "DRAFT", "ISSUED", "PARTIAL", "PAID", "OVERDUE", "CANCELLED"}
PaymentStatus == {"NONE", "PENDING", "VERIFIED", "REJECTED", "CANCELLED"}
Statement == {"idle", "write", "count", "insert", "payWrite",
              "lock", "claim", "sum", "commit"}
Operation == {"none", "update", "delete", "issue", "cancelInvoice",
              "createPayment", "reject", "verify", "cancelPayment"}

AmountOf(S) == SumFunctionOnSet(Amount, S)
Sums == {AmountOf(S) : S \in SUBSET Payment}

HandlerState == [at : Statement, op : Operation, inv : Invoice \cup {None},
                 pay : Payment \cup {None}, seen : PaymentStatus, sum : Sums]

Idle == [at |-> "idle", op |-> "none", inv |-> None, pay |-> None,
         seen |-> "NONE", sum |-> AmountOf({})]

VerifiedOf(i) ==
    {p \in Payment : payStatus[p] = "VERIFIED" /\ payInvoice[p] = i}

-----------------------------------------------------------------------------
(* Row locks.  SELECT ... FOR UPDATE holds the invoice from the step that  *)
(* acquires it to the commit; the conditional update of the payment holds  *)
(* the payment from that statement to the commit.                          *)

Transactional == {"verify", "cancelPayment"}
HoldsInvoice(r) == h[r].at \in {"claim", "sum", "commit"}
HoldsPayment(r) == h[r].at \in {"sum", "commit"}
InvoiceLocked(i) == \E r \in Handler : HoldsInvoice(r) /\ h[r].inv = i
PaymentLocked(p) == \E r \in Handler : HoldsPayment(r) /\ h[r].pay = p

Goto(r, s) == h' = [h EXCEPT ![r].at = s]
Finish(r) == h' = [h EXCEPT ![r] = Idle]

-----------------------------------------------------------------------------
(* invoices.service.ts                                                     *)

(* create: one INSERT of a DRAFT with nothing paid.                        *)
CreateInvoice(i, t, due) ==
    /\ invStatus[i] = "NONE"
    /\ invStatus' = [invStatus EXCEPT ![i] = "DRAFT"]
    /\ total' = [total EXCEPT ![i] = t]
    /\ paid' = [paid EXCEPT ![i] = AmountOf({})]
    /\ pastDue' = [pastDue EXCEPT ![i] = due]
    /\ UNCHANGED <<deleted, paymentVars, h, overruled, lateEdit>>

(* update, delete and issue first read the invoice and refuse any status   *)
(* but DRAFT ...                                                           *)
ReadDraft(r, i, op) ==
    /\ h[r].at = "idle"
    /\ op \in {"update", "delete", "issue"}
    /\ ~deleted[i] /\ invStatus[i] = "DRAFT"
    /\ h' = [h EXCEPT ![r] = [Idle EXCEPT !.at = "write", !.op = op, !.inv = i]]
    /\ UNCHANGED <<invoiceVars, paymentVars, overruled, lateEdit>>

(* ... and then write the row by its id alone.  The UPDATE waits for the   *)
(* row lock, and does not look at the status again.                        *)
WritesInvoice(r, i, op) ==
    /\ h[r].at = "write" /\ h[r].op = op /\ h[r].inv = i
    /\ ~InvoiceLocked(i)
    /\ Finish(r)
    /\ UNCHANGED <<paymentVars, overruled>>

IsDraft(i) == ~deleted[i] /\ invStatus[i] = "DRAFT"
RecordLate(i, guard) ==
    lateEdit' = IF guard THEN lateEdit ELSE lateEdit \cup {i}

UpdateInvoice(r, i, t, due) ==
    /\ WritesInvoice(r, i, "update")
    /\ total' = [total EXCEPT ![i] = t]
    /\ pastDue' = [pastDue EXCEPT ![i] = due]
    /\ RecordLate(i, IsDraft(i))
    /\ UNCHANGED <<invStatus, paid, deleted>>

DeleteInvoice(r, i) ==
    /\ WritesInvoice(r, i, "delete")
    /\ deleted' = [deleted EXCEPT ![i] = TRUE]
    /\ RecordLate(i, IsDraft(i))
    /\ UNCHANGED <<invStatus, total, paid, pastDue>>

IssueInvoice(r, i) ==
    /\ WritesInvoice(r, i, "issue")
    /\ invStatus' = [invStatus EXCEPT ![i] = "ISSUED"]
    /\ RecordLate(i, IsDraft(i))
    /\ UNCHANGED <<total, paid, deleted, pastDue>>

(* cancel: the status is read, then the verified payments are counted, then*)
(* the row is written; three statements outside any transaction.           *)
Cancellable(i) == ~deleted[i] /\ invStatus[i] \notin {"NONE", "PAID", "CANCELLED"}

CancelInvoiceRead(r, i) ==
    /\ h[r].at = "idle"
    /\ Cancellable(i)
    /\ h' = [h EXCEPT ![r] =
               [Idle EXCEPT !.at = "count", !.op = "cancelInvoice", !.inv = i]]
    /\ UNCHANGED <<invoiceVars, paymentVars, overruled, lateEdit>>

CancelInvoiceCount(r, i) ==
    /\ h[r].at = "count" /\ h[r].inv = i
    /\ IF VerifiedOf(i) = {} THEN Goto(r, "write") ELSE Finish(r)
    /\ UNCHANGED <<invoiceVars, paymentVars, overruled, lateEdit>>

CancelInvoice(r, i) ==
    /\ WritesInvoice(r, i, "cancelInvoice")
    /\ invStatus' = [invStatus EXCEPT ![i] = "CANCELLED"]
    /\ RecordLate(i, Cancellable(i) /\ VerifiedOf(i) = {})
    /\ UNCHANGED <<total, paid, deleted, pastDue>>

(* invoice-overdue.service.ts: the nightly cron and every invoice listing  *)
(* run one UPDATE over all rows; its effect on one row is one step.        *)
Overdue(i) ==
    /\ ~deleted[i] /\ pastDue[i]
    /\ invStatus[i] \in {"ISSUED", "PARTIAL"}

(* Variant with a defect: only ISSUED invoices are swept. *)
SyncOverdueInvoice_IssuedOnly(i) ==
    /\ Overdue(i) /\ invStatus[i] = "ISSUED"
    /\ ~InvoiceLocked(i)
    /\ invStatus' = [invStatus EXCEPT ![i] = "OVERDUE"]
    /\ UNCHANGED <<total, paid, deleted, pastDue, paymentVars, h, overruled, lateEdit>>

SyncOverdueInvoice(i) ==
    /\ Overdue(i)
    /\ ~InvoiceLocked(i)
    /\ invStatus' = [invStatus EXCEPT ![i] = "OVERDUE"]
    /\ UNCHANGED <<total, paid, deleted, pastDue, paymentVars, h, overruled, lateEdit>>

(* Time passes the due date. *)
DueDatePasses(i) ==
    /\ invStatus[i] # "NONE" /\ ~pastDue[i]
    /\ pastDue' = [pastDue EXCEPT ![i] = TRUE]
    /\ UNCHANGED <<invStatus, total, paid, deleted, paymentVars, h, overruled, lateEdit>>

-----------------------------------------------------------------------------
(* payments.service.ts                                                     *)

(* create: reads the invoice, then inserts a PENDING payment.  The foreign *)
(* key makes the INSERT wait for a FOR UPDATE lock on the invoice.         *)
CreatePaymentRead(r, i) ==
    /\ h[r].at = "idle"
    /\ ~deleted[i] /\ invStatus[i] \notin {"NONE", "CANCELLED", "PAID"}
    /\ h' = [h EXCEPT ![r] =
               [Idle EXCEPT !.at = "insert", !.op = "createPayment", !.inv = i]]
    /\ UNCHANGED <<invoiceVars, paymentVars, overruled, lateEdit>>

CreatePayment(r, i, p) ==
    /\ h[r].at = "insert" /\ h[r].inv = i
    /\ ~InvoiceLocked(i)
    /\ payStatus[p] = "NONE"
    /\ payStatus' = [payStatus EXCEPT ![p] = "PENDING"]
    /\ payInvoice' = [payInvoice EXCEPT ![p] = i]
    /\ Finish(r)
    /\ UNCHANGED <<invoiceVars, overruled, lateEdit>>

(* A transaction on payment p and its invoice begins by reading p.         *)
Begin(r, p, op, seen, statement) ==
    h' = [h EXCEPT ![r] = [Idle EXCEPT !.at = statement, !.op = op,
                             !.inv = payInvoice[p], !.pay = p, !.seen = seen]]

VerifyPaymentRead(r, p) ==
    /\ h[r].at = "idle"
    /\ payStatus[p] # "NONE"
    /\ Begin(r, p, "verify", "PENDING", "lock")
    /\ UNCHANGED <<invoiceVars, paymentVars, overruled, lateEdit>>

(* Variant with a defect: the status read does not choose the branch.      *)
CancelPaymentRead_Unlocked(r, p) ==
    /\ h[r].at = "idle"
    /\ payStatus[p] \notin {"NONE", "CANCELLED"}
    /\ Begin(r, p, "cancelPayment", payStatus[p], "payWrite")
    /\ UNCHANGED <<invoiceVars, paymentVars, overruled, lateEdit>>

(* cancel: a VERIFIED payment is cancelled under the invoice's lock, any   *)
(* other by one UPDATE conditional on the status that was read.            *)
CancelPaymentRead(r, p) ==
    /\ h[r].at = "idle"
    /\ payStatus[p] \notin {"NONE", "CANCELLED"}
    /\ Begin(r, p, "cancelPayment", payStatus[p],
             IF payStatus[p] = "VERIFIED" THEN "lock" ELSE "payWrite")
    /\ UNCHANGED <<invoiceVars, paymentVars, overruled, lateEdit>>

CancelUnverifiedPayment(r, p) ==
    /\ h[r].at = "payWrite" /\ h[r].op = "cancelPayment" /\ h[r].pay = p
    /\ ~PaymentLocked(p)
    /\ IF payStatus[p] = h[r].seen
       THEN payStatus' = [payStatus EXCEPT ![p] = "CANCELLED"]
       ELSE UNCHANGED payStatus
    /\ Finish(r)
    /\ UNCHANGED <<invoiceVars, payInvoice, overruled, lateEdit>>

(* SELECT id FROM invoices WHERE id = ... FOR UPDATE *)
LockInvoice(r) ==
    /\ h[r].at = "lock"
    /\ ~InvoiceLocked(h[r].inv)
    /\ Goto(r, "claim")
    /\ UNCHANGED <<invoiceVars, paymentVars, overruled, lateEdit>>

(* UPDATE payments SET status = ... WHERE id = ... AND status = seen: when *)
(* no row matches the transaction is rolled back.  The claim itself is     *)
(* visible to others only at the commit.                                   *)
ClaimPayment(r) ==
    /\ h[r].at = "claim"
    /\ ~PaymentLocked(h[r].pay)
    /\ IF payStatus[h[r].pay] = h[r].seen THEN Goto(r, "sum") ELSE Finish(r)
    /\ UNCHANGED <<invoiceVars, paymentVars, overruled, lateEdit>>

(* Variant with a defect: the sum is taken before the payment's own update.*)
SeenVerified_WithoutOwn(r) == VerifiedOf(h[r].inv)

(* The verified payments as the transaction itself sees them. *)
SeenVerified(r) ==
    IF h[r].op = "verify" THEN VerifiedOf(h[r].inv) \cup {h[r].pay}
                          ELSE VerifiedOf(h[r].inv) \ {h[r].pay}

(* Variant with a defect: the total is compared with the stored balance. *)
Acceptable_StoredBalance(r) ==
    LET i == h[r].inv IN
    /\ ~deleted[i]
    /\ invStatus[i] # "CANCELLED"
    /\ paid[i] <= total[i]

(* Variant with a defect: a cancelled invoice is not refused.              *)
Acceptable_Cancelled(r) ==
    LET i == h[r].inv IN
    /\ ~deleted[i]
    /\ AmountOf(SeenVerified(r)) <= total[i]

(* The invoice is read again and the payments are summed up.  Only a       *)
(* verification checks the result.                                         *)
Acceptable(r) ==
    LET i == h[r].inv IN
    /\ ~deleted[i]
    /\ invStatus[i] # "CANCELLED"
    /\ AmountOf(SeenVerified(r)) <= total[i]

SumPayments(r) ==
    /\ h[r].at = "sum"
    /\ IF h[r].op = "verify" /\ ~Acceptable(r)
       THEN Finish(r)
       ELSE h' = [h EXCEPT ![r].at = "commit", ![r].sum = AmountOf(SeenVerified(r))]
    /\ UNCHANGED <<invoiceVars, paymentVars, overruled, lateEdit>>

(* Variant with a defect: > for >=. *)
StatusAfterVerification_Strict(i, sum) ==
    IF sum > total[i] THEN "PAID"
    ELSE IF sum > 0 THEN "PARTIAL" ELSE invStatus[i]

StatusAfterVerification(i, sum) ==
    IF sum >= total[i] THEN "PAID"
    ELSE IF sum > 0 THEN "PARTIAL" ELSE invStatus[i]

(* resolveInvoiceStatusAfterCancellation *)
StatusAfterCancellation(i, sum) ==
    IF sum <= 0 THEN "ISSUED" ELSE IF sum < total[i] THEN "PARTIAL" ELSE "PAID"

VerifyPaymentCommit(r, i, p) ==
    /\ h[r].at = "commit" /\ h[r].op = "verify" /\ h[r].inv = i /\ h[r].pay = p
    /\ payStatus' = [payStatus EXCEPT ![p] = "VERIFIED"]
    /\ paid' = [paid EXCEPT ![i] = h[r].sum]
    /\ invStatus' = [invStatus EXCEPT ![i] = StatusAfterVerification(i, h[r].sum)]
    /\ Finish(r)
    /\ UNCHANGED <<total, deleted, pastDue, payInvoice, overruled, lateEdit>>

CancelPaymentCommit(r, i, p) ==
    /\ h[r].at = "commit" /\ h[r].op = "cancelPayment" /\ h[r].inv = i /\ h[r].pay = p
    /\ payStatus' = [payStatus EXCEPT ![p] = "CANCELLED"]
    /\ paid' = [paid EXCEPT ![i] = h[r].sum]
    /\ invStatus' = [invStatus EXCEPT ![i] = StatusAfterCancellation(i, h[r].sum)]
    /\ Finish(r)
    /\ UNCHANGED <<total, deleted, pastDue, payInvoice, overruled, lateEdit>>

(* reject: reads the payment, refuses any status but PENDING, and writes   *)
(* REJECTED by id alone, without the invoice's lock.                       *)
RejectPaymentRead(r, p) ==
    /\ h[r].at = "idle"
    /\ payStatus[p] = "PENDING"
    /\ Begin(r, p, "reject", "PENDING", "payWrite")
    /\ UNCHANGED <<invoiceVars, paymentVars, overruled, lateEdit>>

RejectPayment(r, p) ==
    /\ h[r].at = "payWrite" /\ h[r].op = "reject" /\ h[r].pay = p
    /\ ~PaymentLocked(p)
    /\ payStatus' = [payStatus EXCEPT ![p] = "REJECTED"]
    /\ overruled' = IF payStatus[p] = "VERIFIED" THEN overruled \cup {p} ELSE overruled
    /\ Finish(r)
    /\ UNCHANGED <<invoiceVars, payInvoice, lateEdit>>

(* The process stops, the connection is lost or the transaction times out: *)
(* nothing of the running request is committed.                            *)
Abandon(r) ==
    /\ h[r].at # "idle"
    /\ Finish(r)
    /\ UNCHANGED <<invoiceVars, paymentVars, overruled, lateEdit>>

-----------------------------------------------------------------------------
Init ==
    /\ invStatus = [i \in Invoice |-> "NONE"]
    /\ total = [i \in Invoice |-> 0]
    /\ paid = [i \in Invoice |-> AmountOf({})]
    /\ deleted = [i \in Invoice |-> FALSE]
    /\ pastDue = [i \in Invoice |-> FALSE]
    /\ payStatus = [p \in Payment |-> "NONE"]
    /\ payInvoice = [p \in Payment |-> None]
    /\ h = [r \in Handler |-> Idle]
    /\ overruled = {}
    /\ lateEdit = {}

(* The statements of the transactions of verify and cancel. *)
Transact(r) ==
    \/ LockInvoice(r)
    \/ ClaimPayment(r)
    \/ SumPayments(r)
    \/ \E i \in Invoice, p \in Payment :
          VerifyPaymentCommit(r, i, p) \/ CancelPaymentCommit(r, i, p)

InvoiceRequest(r, i) ==
    \/ \E op \in {"update", "delete", "issue"} : ReadDraft(r, i, op)
    \/ \E t \in Totals, due \in BOOLEAN : UpdateInvoice(r, i, t, due)
    \/ DeleteInvoice(r, i)
    \/ IssueInvoice(r, i)
    \/ CancelInvoiceRead(r, i)
    \/ CancelInvoiceCount(r, i)
    \/ CancelInvoice(r, i)

PaymentRequest(r, p) ==
    \/ VerifyPaymentRead(r, p)
    \/ CancelPaymentRead(r, p)
    \/ CancelUnverifiedPayment(r, p)
    \/ RejectPaymentRead(r, p)
    \/ RejectPayment(r, p)

Next ==
    \/ \E i \in Invoice, t \in Totals, due \in BOOLEAN : CreateInvoice(i, t, due)
    \/ \E r \in Handler, i \in Invoice : InvoiceRequest(r, i)
    \/ \E i \in Invoice : SyncOverdueInvoice(i)
    \/ \E i \in Invoice : DueDatePasses(i)
    \/ \E r \in Handler, i \in Invoice : CreatePaymentRead(r, i)
    \/ \E r \in Handler, i \in Invoice, p \in Payment : CreatePayment(r, i, p)
    \/ \E r \in Handler, p \in Payment : PaymentRequest(r, p)
    \/ \E r \in Handler : Transact(r)
    \/ \E r \in Handler : Abandon(r)

Spec == Init /\ [][Next]_vars

(* The cron fires every night and PostgreSQL queues lock requests in order:*)
(* the overdue UPDATE and a waiting FOR UPDATE get their turn (strong      *)
(* fairness); a transaction that holds its locks runs on (weak fairness).  *)
(* No request is ever forced to be made.                                   *)
Fairness ==
    /\ \A i \in Invoice : SF_vars(SyncOverdueInvoice(i))
    /\ \A r \in Handler : SF_vars(LockInvoice(r)) /\ WF_vars(Transact(r))

FairSpec == Spec /\ Fairness

-----------------------------------------------------------------------------
(* Every variable holds a value of its column; paidAmount and the sums of  *)
(* the handlers are always the sum of some set of payments.                *)
TypeOK ==
    /\ invStatus \in [Invoice -> InvoiceStatus]
    /\ total \in [Invoice -> Totals \cup {0}]
    /\ paid \in [Invoice -> Sums]
    /\ deleted \in [Invoice -> BOOLEAN]
    /\ pastDue \in [Invoice -> BOOLEAN]
    /\ payStatus \in [Payment -> PaymentStatus]
    /\ payInvoice \in [Payment -> Invoice \cup {None}]
    /\ h \in [Handler -> HandlerState]
    /\ overruled \subseteq Payment
    /\ lateEdit \subseteq Invoice

(* Two verifications or cancellations never work on the same invoice at the*)
(* same time (payments.service.ts: "Lock the invoice row so concurrent     *)
(* verifications/cancellations serialize").                                *)
LockExclusion ==
    \A r, s \in Handler :
        HoldsInvoice(r) /\ HoldsInvoice(s) /\ h[r].inv = h[s].inv => r = s

(* paidAmount is the sum of the verified payments of the invoice, whatever *)
(* requests interleave and stop half way, unless a rejection has overruled *)
(* a verification on this invoice.                                         *)
Undisturbed(i) == \A p \in overruled : payInvoice[p] # i

BalanceExact ==
    \A i \in Invoice : Undisturbed(i) => paid[i] = AmountOf(VerifiedOf(i))

(* The status says what has been paid, on every invoice that no late write *)
(* and no late rejection has touched: PAID means paid in full and to the   *)
(* cent, PARTIAL some of it, DRAFT and ISSUED and CANCELLED nothing.       *)
SettlementMatchesBalance ==
    \A i \in Invoice \ lateEdit :
        Undisturbed(i) =>
            /\ invStatus[i] = "PAID" => paid[i] = total[i]
            /\ invStatus[i] = "PARTIAL" => 0 < paid[i] /\ paid[i] < total[i]
            /\ invStatus[i] \in {"DRAFT", "ISSUED", "CANCELLED"} => paid[i] = 0
            /\ invStatus[i] = "OVERDUE" => paid[i] = 0 \/ paid[i] < total[i]

(* The balance of an invoice only grows within its total, and only while   *)
(* the invoice is neither cancelled nor deleted ("Payment would exceed     *)
(* invoice total", checked under the lock).                                *)
BalanceGrowsWithinTotal ==
    [][\A i \in Invoice :
          paid'[i] > paid[i] =>
              paid'[i] <= total[i] /\ invStatus[i] # "CANCELLED" /\ ~deleted[i]]_vars

(* A payment is verified once: VERIFIED is entered from PENDING only, also *)
(* when two verifications, a rejection and a cancellation of it race       *)
(* ("Conditional update: only one concurrent verify ... can win").         *)
OnlyPendingIsVerified ==
    [][\A p \in Payment :
          payStatus'[p] = "VERIFIED" => payStatus[p] \in {"PENDING", "VERIFIED"}]_vars

(* An invoice that was cancelled is collected again in two ways only: a    *)
(* verified payment that is stranded on it is cancelled (payments.service. *)
(* ts:230), or it is issued by a request that had read the draft it once   *)
(* was.  No verification resurrects it ("A payment must never resurrect or *)
(* mutate an invoice that is no longer collectable"), nor an edit or the   *)
(* sync of overdue invoices, whether or not payments are stranded on it.   *)
CancelledReopens ==
    [][\A i \in Invoice :
          invStatus[i] = "CANCELLED" /\ invStatus'[i] # "CANCELLED" =>
              \/ \E p \in VerifiedOf(i) : payStatus'[p] = "CANCELLED"
              \/ \E r \in Handler : IssueInvoice(r, i)]_vars

(* An invoice past its due date does not stay ISSUED or PARTIAL.           *)
OverdueIsMarked == \A i \in Invoice : Overdue(i) ~> ~Overdue(i)

(* The statements of verify, cancel and reject, interleaved, lock by lock, *)
(* behave as the one-step operations of PaymentLedger: a settlement or a   *)
(* reversal and its effect on the balance are never seen apart, each       *)
(* payment is settled at most once, within the total, and never after it   *)
(* was rejected or cancelled.                                              *)
Book == [p \in Payment |-> IF payStatus[p] = "VERIFIED" THEN payInvoice[p] ELSE None]
Closed == {p \in Payment : payStatus[p] \in {"REJECTED", "CANCELLED"}}
Disturbed == {payInvoice[p] : p \in overruled}

Ledger == INSTANCE PaymentLedger WITH
    book <- Book, closed <- Closed, balance <- paid, limit <- total, disturbed <- Disturbed

ImplementsLedger == Ledger!Spec

-----------------------------------------------------------------------------
(* What the code's comments and errors say, and a run refutes.             *)

(* invoices.service.ts:192 "otherwise verified payments would be stranded  *)
(* on a cancelled invoice".                                                *)
NoStrandedPayments ==
    \A i \in Invoice : invStatus[i] = "CANCELLED" => VerifiedOf(i) = {}
=============================================================================
