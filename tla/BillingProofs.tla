--------------------------- MODULE BillingProofs ---------------------------
(***************************************************************************)
(* Theorems about Billing, for every set of invoices, payments, handlers,  *)
(* totals and amounts: type correctness, mutual exclusion of the           *)
(* transactions of one invoice, the exactness of paidAmount, that only a   *)
(* PENDING payment becomes VERIFIED, that a balance grows within its       *)
(* total, that a cancelled invoice is not resurrected, that the status     *)
(* tells the balance, and that Billing implements PaymentLedger.           *)
(***************************************************************************)
EXTENDS Billing, FiniteSetTheorems, TLAPS

(* What a handler that is under way knows: the invoice and the payment it  *)
(* works on exist and belong together; the status it has claimed still     *)
(* stands; and the sum it is about to commit is the sum of the payments    *)
(* that its own commit leaves verified.                                    *)
HandlerKnows(r) ==
    /\ h[r].at # "idle" => h[r].inv \in Invoice /\ invStatus[h[r].inv] # "NONE"
    /\ h[r].at \in {"payWrite", "lock", "claim", "sum", "commit"} =>
          /\ h[r].pay \in Payment
          /\ payStatus[h[r].pay] # "NONE"
          /\ payInvoice[h[r].pay] = h[r].inv
    /\ h[r].at = "payWrite" => h[r].seen # "VERIFIED" /\ h[r].seen # "NONE"
    /\ h[r].at \in {"lock", "claim", "sum", "commit"} =>
          \/ h[r].op = "verify" /\ h[r].seen = "PENDING"
          \/ h[r].op = "cancelPayment" /\ h[r].seen = "VERIFIED"
    /\ h[r].at \in {"sum", "commit"} => payStatus[h[r].pay] = h[r].seen
    /\ h[r].at = "commit" /\ Undisturbed(h[r].inv) => h[r].sum = AmountOf(SeenVerified(r))

RowsExist ==
    /\ \A p \in Payment : payStatus[p] # "NONE" =>
          payInvoice[p] \in Invoice /\ invStatus[payInvoice[p]] # "NONE"
    /\ \A p \in overruled : payStatus[p] # "NONE"

(* The inductive invariant. *)
IInv ==
    /\ TypeOK
    /\ LockExclusion
    /\ RowsExist
    /\ \A r \in Handler : HandlerKnows(r)
    /\ BalanceExact

-----------------------------------------------------------------------------
(* A sum over payments is one of the Sums, the empty one included. *)
LEMMA SumsType ==
    /\ \A S \in SUBSET Payment : AmountOf(S) \in Sums
    /\ AmountOf({}) \in Sums
  BY DEF Sums

(* Every assignment the actions make to a handler is well typed. *)
LEMMA HandlerType ==
    ASSUME TypeOK, NEW r \in Handler
    PROVE  /\ Idle \in HandlerState
           /\ Finish(r) => h' \in [Handler -> HandlerState]
           /\ \A s \in Statement : Goto(r, s) => h' \in [Handler -> HandlerState]
           /\ \A p \in Payment, op \in Operation, seen \in PaymentStatus, s \in Statement :
                 Begin(r, p, op, seen, s) => h' \in [Handler -> HandlerState]
  <1>1. Idle \in HandlerState
    BY SumsType DEF Idle, HandlerState, Statement, Operation, PaymentStatus
  <1>2. ASSUME NEW s \in Statement, Goto(r, s) PROVE h' \in [Handler -> HandlerState]
    BY <1>2 DEF TypeOK, Goto, HandlerState
  <1>3. ASSUME NEW p \in Payment, NEW op \in Operation, NEW seen \in PaymentStatus,
               NEW s \in Statement, Begin(r, p, op, seen, s)
        PROVE  h' \in [Handler -> HandlerState]
    <2>1. [Idle EXCEPT !.at = s, !.op = op, !.inv = payInvoice[p], !.pay = p, !.seen = seen]
             \in HandlerState
      BY <1>1 DEF TypeOK, HandlerState
    <2> QED BY <1>3, <2>1 DEF Begin, TypeOK
  <1> QED BY <1>1, <1>2, <1>3 DEF Finish, TypeOK

(* A step that changes nothing but one handler keeps TypeOK. *)
LEMMA OnlyHandlerType ==
    ASSUME TypeOK, UNCHANGED <<invoiceVars, paymentVars, overruled, lateEdit>>,
           h' \in [Handler -> HandlerState]
    PROVE  TypeOK'
  BY DEF TypeOK, invoiceVars, paymentVars

(* The writes of an invoice by its id keep TypeOK. *)
LEMMA InvoiceWriteType ==
    ASSUME TypeOK, NEW r \in Handler, NEW i \in Invoice,
           Finish(r), UNCHANGED <<paid, paymentVars, overruled>>,
           invStatus' \in [Invoice -> InvoiceStatus],
           total' \in [Invoice -> Totals \cup {0}],
           deleted' \in [Invoice -> BOOLEAN],
           pastDue' \in [Invoice -> BOOLEAN],
           lateEdit' \in {lateEdit, lateEdit \cup {i}}
    PROVE  TypeOK'
  BY HandlerType DEF TypeOK, paymentVars

LEMMA InvoiceRequestType ==
    ASSUME TypeOK, NEW r \in Handler, NEW i \in Invoice, InvoiceRequest(r, i)
    PROVE  TypeOK'
  <1>1. ASSUME NEW op \in {"update", "delete", "issue"}, ReadDraft(r, i, op)
        PROVE  TypeOK'
    <2>1. [Idle EXCEPT !.at = "write", !.op = op, !.inv = i] \in HandlerState
      BY HandlerType DEF HandlerState, Statement, Operation
    <2> QED BY <1>1, <2>1, OnlyHandlerType DEF ReadDraft, TypeOK
  <1>2. ASSUME NEW t \in Totals, NEW due \in BOOLEAN, UpdateInvoice(r, i, t, due)
        PROVE  TypeOK'
    BY <1>2, InvoiceWriteType DEF UpdateInvoice, WritesInvoice, RecordLate, TypeOK
  <1>3. CASE DeleteInvoice(r, i)
    BY <1>3, InvoiceWriteType DEF DeleteInvoice, WritesInvoice, RecordLate, TypeOK
  <1>4. CASE IssueInvoice(r, i)
    BY <1>4, InvoiceWriteType DEF IssueInvoice, WritesInvoice, RecordLate, TypeOK, InvoiceStatus
  <1>5. CASE CancelInvoiceRead(r, i)
    <2>1. [Idle EXCEPT !.at = "count", !.op = "cancelInvoice", !.inv = i] \in HandlerState
      BY HandlerType DEF HandlerState, Statement, Operation
    <2> QED BY <1>5, <2>1, OnlyHandlerType DEF CancelInvoiceRead, TypeOK
  <1>6. CASE CancelInvoiceCount(r, i)
    BY <1>6, HandlerType, OnlyHandlerType DEF CancelInvoiceCount, Statement
  <1>7. CASE CancelInvoice(r, i)
    BY <1>7, InvoiceWriteType DEF CancelInvoice, WritesInvoice, RecordLate, TypeOK, InvoiceStatus
  <1> QED BY <1>1, <1>2, <1>3, <1>4, <1>5, <1>6, <1>7 DEF InvoiceRequest

LEMMA PaymentRequestType ==
    ASSUME TypeOK, NEW r \in Handler, NEW p \in Payment, PaymentRequest(r, p)
    PROVE  TypeOK'
  <1>1. CASE VerifyPaymentRead(r, p)
    <2>1. Begin(r, p, "verify", "PENDING", "lock")
      BY <1>1 DEF VerifyPaymentRead
    <2>2. h' \in [Handler -> HandlerState]
      BY <2>1, HandlerType DEF Statement, Operation, PaymentStatus
    <2> QED BY <1>1, <2>2, OnlyHandlerType DEF VerifyPaymentRead
  <1>2. CASE CancelPaymentRead(r, p)
    <2>1. PICK s \in {"lock", "payWrite"} : Begin(r, p, "cancelPayment", payStatus[p], s)
      BY <1>2 DEF CancelPaymentRead
    <2>2. h' \in [Handler -> HandlerState]
      BY <2>1, HandlerType DEF Statement, Operation, TypeOK
    <2> QED BY <1>2, <2>2, OnlyHandlerType DEF CancelPaymentRead
  <1>3. CASE CancelUnverifiedPayment(r, p)
    BY <1>3, HandlerType DEF CancelUnverifiedPayment, TypeOK, invoiceVars, PaymentStatus
  <1>4. CASE RejectPaymentRead(r, p)
    <2>1. Begin(r, p, "reject", "PENDING", "payWrite")
      BY <1>4 DEF RejectPaymentRead
    <2>2. h' \in [Handler -> HandlerState]
      BY <2>1, HandlerType DEF Statement, Operation, PaymentStatus
    <2> QED BY <1>4, <2>2, OnlyHandlerType DEF RejectPaymentRead
  <1>5. CASE RejectPayment(r, p)
    BY <1>5, HandlerType DEF RejectPayment, TypeOK, invoiceVars, PaymentStatus
  <1> QED BY <1>1, <1>2, <1>3, <1>4, <1>5 DEF PaymentRequest

LEMMA TransactType ==
    ASSUME TypeOK, NEW r \in Handler, HandlerKnows(r), Transact(r)
    PROVE  TypeOK'
  <1>1. CASE LockInvoice(r)
    BY <1>1, HandlerType, OnlyHandlerType DEF LockInvoice, Statement
  <1>2. CASE ClaimPayment(r)
    BY <1>2, HandlerType, OnlyHandlerType DEF ClaimPayment, Statement
  <1>3. CASE SumPayments(r)
    <2>1. SeenVerified(r) \in SUBSET Payment
      BY <1>3 DEF SeenVerified, VerifiedOf, SumPayments, HandlerKnows
    <2>2. AmountOf(SeenVerified(r)) \in Sums
      BY <2>1, SumsType
    <2>3. [h EXCEPT ![r].at = "commit", ![r].sum = AmountOf(SeenVerified(r))]
             \in [Handler -> HandlerState]
      BY <2>2 DEF TypeOK, HandlerState, Statement
    <2>4. h' \in [Handler -> HandlerState]
      BY <1>3, <2>3, HandlerType DEF SumPayments
    <2> QED BY <1>3, <2>4, OnlyHandlerType DEF SumPayments
  <1>4. ASSUME NEW i \in Invoice, NEW p \in Payment,
               VerifyPaymentCommit(r, i, p) \/ CancelPaymentCommit(r, i, p)
        PROVE  TypeOK'
    <2>1. h[r].sum \in Sums
      BY DEF TypeOK, HandlerState
    <2>2. StatusAfterVerification(i, h[r].sum) \in InvoiceStatus
      BY DEF StatusAfterVerification, TypeOK, InvoiceStatus
    <2>3. StatusAfterCancellation(i, h[r].sum) \in InvoiceStatus
      BY DEF StatusAfterCancellation, InvoiceStatus
    <2>4. h' \in [Handler -> HandlerState]
      BY <1>4, HandlerType DEF VerifyPaymentCommit, CancelPaymentCommit
    <2> QED BY <1>4, <2>1, <2>2, <2>3, <2>4
            DEF VerifyPaymentCommit, CancelPaymentCommit, TypeOK, PaymentStatus
  <1> QED BY <1>1, <1>2, <1>3, <1>4 DEF Transact

(* TypeOK is inductive but for the sum of a verification, which needs that *)
(* the handler works on an existing payment.                               *)
LEMMA TypeStep == IInv /\ [Next]_vars => TypeOK'
  <1> SUFFICES ASSUME IInv, [Next]_vars PROVE TypeOK'
    OBVIOUS
  <1>a. TypeOK /\ \A r \in Handler : HandlerKnows(r)
    BY DEF IInv
  <1>1. ASSUME NEW i \in Invoice, NEW t \in Totals, NEW due \in BOOLEAN, CreateInvoice(i, t, due)
        PROVE  TypeOK'
    BY <1>a, <1>1, SumsType DEF TypeOK, CreateInvoice, paymentVars, InvoiceStatus
  <1>2. ASSUME NEW r \in Handler, NEW i \in Invoice, InvoiceRequest(r, i)
        PROVE  TypeOK'
    BY <1>a, <1>2, InvoiceRequestType
  <1>3. ASSUME NEW i \in Invoice, SyncOverdueInvoice(i) \/ DueDatePasses(i)
        PROVE  TypeOK'
    BY <1>a, <1>3 DEF TypeOK, SyncOverdueInvoice, DueDatePasses, paymentVars, InvoiceStatus
  <1>4. ASSUME NEW r \in Handler, NEW i \in Invoice, CreatePaymentRead(r, i)
        PROVE  TypeOK'
    <2>1. [Idle EXCEPT !.at = "insert", !.op = "createPayment", !.inv = i] \in HandlerState
      BY <1>a, HandlerType DEF HandlerState, Statement, Operation
    <2> QED BY <1>a, <1>4, <2>1, OnlyHandlerType DEF CreatePaymentRead, TypeOK
  <1>5. ASSUME NEW r \in Handler, NEW i \in Invoice, NEW p \in Payment, CreatePayment(r, i, p)
        PROVE  TypeOK'
    BY <1>a, <1>5, HandlerType DEF CreatePayment, TypeOK, invoiceVars, PaymentStatus
  <1>6. ASSUME NEW r \in Handler, NEW p \in Payment, PaymentRequest(r, p)
        PROVE  TypeOK'
    BY <1>a, <1>6, PaymentRequestType
  <1>7. ASSUME NEW r \in Handler, Transact(r)
        PROVE  TypeOK'
    BY <1>a, <1>7, TransactType
  <1>8. ASSUME NEW r \in Handler, Abandon(r)
        PROVE  TypeOK'
    BY <1>a, <1>8, HandlerType, OnlyHandlerType DEF Abandon
  <1>9. CASE UNCHANGED vars
    BY <1>a, <1>9 DEF TypeOK, vars
  <1> QED BY <1>1, <1>2, <1>3, <1>4, <1>5, <1>6, <1>7, <1>8, <1>9 DEF Next

-----------------------------------------------------------------------------
(* Rows are never removed: what exists and whom it belongs to stays. *)
RowsStay ==
    /\ \A i \in Invoice : invStatus[i] # "NONE" => invStatus'[i] # "NONE"
    /\ \A p \in Payment : payStatus[p] # "NONE" =>
          payStatus'[p] # "NONE" /\ payInvoice'[p] = payInvoice[p]
    /\ overruled \subseteq overruled'

(* A step by others leaves alone what handler s has claimed and summed up. *)
LeavesAlone(s) ==
    /\ h[s].at \in {"sum", "commit"} => payStatus'[h[s].pay] = payStatus[h[s].pay]
    /\ \A i \in Invoice : h[s].at = "commit" /\ h[s].inv = i /\ Undisturbed(i)' =>
          VerifiedOf(i)' = VerifiedOf(i)

(* An invoice that is undisturbed after the step was so before. *)
LEMMA UndisturbedBefore ==
    ASSUME RowsExist, RowsStay, TypeOK, NEW i, Undisturbed(i)'
    PROVE  Undisturbed(i)
  BY DEF RowsExist, RowsStay, Undisturbed, TypeOK

(* Non-interference: a handler that did not move still knows what it knew. *)
LEMMA StillKnows ==
    ASSUME IInv, RowsStay, NEW s \in Handler, h'[s] = h[s], LeavesAlone(s)
    PROVE  HandlerKnows(s)'
  <1>1. HandlerKnows(s) /\ RowsExist /\ TypeOK
    BY DEF IInv
  <1>2. ASSUME h[s].at = "commit", NEW i \in Invoice, i = h[s].inv, Undisturbed(i)'
        PROVE  h[s].sum = AmountOf(SeenVerified(s))'
    <2>1. Undisturbed(i)
      BY <1>1, <1>2, UndisturbedBefore
    <2>2. h[s].sum = AmountOf(SeenVerified(s))
      BY <1>1, <1>2, <2>1 DEF HandlerKnows
    <2>3. VerifiedOf(i)' = VerifiedOf(i)
      BY <1>2 DEF LeavesAlone
    <2>4. SeenVerified(s)' = SeenVerified(s)
      BY <1>2, <2>3 DEF SeenVerified
    <2> QED BY <2>2, <2>4 DEF AmountOf
  <1>3. h[s].at = "commit" => h[s].inv \in Invoice
    BY <1>1 DEF HandlerKnows
  <1>4. h'[s].at = "commit" /\ Undisturbed(h[s].inv)' => h'[s].sum = AmountOf(SeenVerified(s))'
    BY <1>2, <1>3
  <1> QED BY <1>1, <1>4 DEF HandlerKnows, RowsStay, LeavesAlone

(* A step of handler r preserves the invariant if it keeps to the          *)
(* discipline above and acquires no lock that is taken.                    *)
LEMMA DisciplinedStep ==
    ASSUME IInv, TypeOK', BalanceExact', RowsStay, RowsExist', NEW r \in Handler,
           \A s \in Handler \ {r} : h'[s] = h[s] /\ LeavesAlone(s),
           HandlerKnows(r)',
           HoldsInvoice(r)' => /\ h'[r].inv = h[r].inv
                               /\ HoldsInvoice(r) \/ ~InvoiceLocked(h[r].inv)
    PROVE  IInv'
  <1>1. \A s \in Handler : HandlerKnows(s)'
    BY StillKnows
  <1>2. LockExclusion'
    BY DEF LockExclusion, IInv, HoldsInvoice, InvoiceLocked
  <1> QED BY <1>1, <1>2 DEF IInv

(* So does a step of the environment that moves no handler. *)
LEMMA EnvironmentStep ==
    ASSUME IInv, TypeOK', BalanceExact', RowsStay, RowsExist',
           \A s \in Handler : h'[s] = h[s] /\ LeavesAlone(s)
    PROVE  IInv'
  <1>1. \A s \in Handler : HandlerKnows(s)'
    BY StillKnows
  <1>2. LockExclusion'
    BY DEF LockExclusion, IInv, HoldsInvoice
  <1> QED BY <1>1, <1>2 DEF IInv

(* The idle handler knows nothing and holds nothing. *)
LEMMA FinishKnows ==
    ASSUME TypeOK, NEW r \in Handler, Finish(r)
    PROVE  /\ HandlerKnows(r)'
           /\ ~HoldsInvoice(r)'
           /\ h'[r] = Idle
           /\ \A s \in Handler \ {r} : h'[s] = h[s]
  <1>1. h'[r] = Idle /\ h'[r].at = "idle" /\ \A s \in Handler \ {r} : h'[s] = h[s]
    BY DEF Finish, TypeOK, Idle
  <1> QED BY <1>1 DEF HandlerKnows, HoldsInvoice

(* Steps that write no payment and no balance. *)
LEMMA PaymentsUntouched ==
    ASSUME IInv, UNCHANGED <<payStatus, payInvoice, overruled, paid>>,
           \A i \in Invoice : invStatus[i] # "NONE" => invStatus'[i] # "NONE"
    PROVE  /\ RowsStay /\ RowsExist' /\ BalanceExact'
           /\ \A s \in Handler : LeavesAlone(s)
  <1>1. \A i : VerifiedOf(i)' = VerifiedOf(i) /\ (Undisturbed(i)' <=> Undisturbed(i))
    BY DEF VerifiedOf, Undisturbed
  <1>2. BalanceExact'
    BY <1>1 DEF IInv, BalanceExact, AmountOf
  <1>3. RowsStay /\ RowsExist'
    BY DEF IInv, RowsStay, RowsExist
  <1>4. \A s \in Handler : LeavesAlone(s)
    BY <1>1 DEF LeavesAlone
  <1> QED BY <1>2, <1>3, <1>4

(* A step that ends a request, whatever rows it writes. *)
LEMMA FinishStep ==
    ASSUME IInv, TypeOK', BalanceExact', RowsStay, RowsExist',
           NEW r \in Handler, Finish(r), \A s \in Handler \ {r} : LeavesAlone(s)
    PROVE  IInv'
  <1>1. TypeOK
    BY DEF IInv
  <1>2. /\ HandlerKnows(r)' /\ ~HoldsInvoice(r)'
        /\ \A s \in Handler \ {r} : h'[s] = h[s]
    BY <1>1, FinishKnows
  <1> QED BY <1>2, DisciplinedStep

(* A step that writes no row and moves one handler, without acquiring a    *)
(* lock that is taken.                                                     *)
LEMMA MoveStep ==
    ASSUME IInv, TypeOK', UNCHANGED <<invoiceVars, paymentVars, overruled, lateEdit>>,
           NEW r \in Handler, NEW state, h' = [h EXCEPT ![r] = state],
           HandlerKnows(r)',
           HoldsInvoice(r)' => /\ h'[r].inv = h[r].inv
                               /\ HoldsInvoice(r) \/ ~InvoiceLocked(h[r].inv)
    PROVE  IInv'
  <1>1. \A s \in Handler \ {r} : h'[s] = h[s]
    BY DEF IInv, TypeOK
  <1>2. /\ RowsStay /\ RowsExist' /\ BalanceExact'
        /\ \A s \in Handler : LeavesAlone(s)
    BY PaymentsUntouched DEF invoiceVars, paymentVars
  <1> QED BY <1>1, <1>2, DisciplinedStep

-----------------------------------------------------------------------------
(* The operations on invoices. *)

LEMMA CreateInvoiceStep ==
    ASSUME IInv, TypeOK', NEW i \in Invoice, NEW t, NEW due, CreateInvoice(i, t, due)
    PROVE  IInv'
  <1> USE DEF IInv
  <1>1. RowsStay /\ RowsExist'
    BY DEF CreateInvoice, RowsStay, RowsExist, paymentVars, TypeOK
  <1>2. \A j : VerifiedOf(j)' = VerifiedOf(j) /\ (Undisturbed(j)' <=> Undisturbed(j))
    BY DEF CreateInvoice, VerifiedOf, Undisturbed, paymentVars
  <1>3. VerifiedOf(i) = {}
    BY DEF CreateInvoice, VerifiedOf, RowsExist
  <1>4. paid' = [paid EXCEPT ![i] = AmountOf({})]
    BY DEF CreateInvoice
  <1>5. BalanceExact'
    BY <1>2, <1>3, <1>4 DEF BalanceExact, AmountOf, TypeOK
  <1>6. \A s \in Handler : h'[s] = h[s] /\ LeavesAlone(s)
    BY <1>2 DEF LeavesAlone, CreateInvoice, paymentVars
  <1> QED BY <1>1, <1>5, <1>6, EnvironmentStep

(* Writes of an invoice row that end the request. *)
LEMMA InvoiceWriteStep ==
    ASSUME IInv, TypeOK', NEW r \in Handler, Finish(r),
           UNCHANGED <<paid, paymentVars, overruled>>,
           \A j \in Invoice : invStatus[j] # "NONE" => invStatus'[j] # "NONE"
    PROVE  IInv'
  BY PaymentsUntouched, FinishStep DEF paymentVars

LEMMA InvoiceRequestStep ==
    ASSUME IInv, TypeOK', NEW r \in Handler, NEW i \in Invoice, InvoiceRequest(r, i)
    PROVE  IInv'
  <1>1. TypeOK /\ HandlerKnows(r)
    BY DEF IInv
  <1>2. ASSUME NEW op \in {"update", "delete", "issue"}, ReadDraft(r, i, op)
        PROVE  IInv'
    <2>1. h'[r].at = "write" /\ h'[r].inv = i /\ invStatus'[i] # "NONE"
      BY <1>1, <1>2 DEF ReadDraft, TypeOK, invoiceVars, Idle
    <2>2. HandlerKnows(r)' /\ ~HoldsInvoice(r)'
      BY <2>1 DEF HandlerKnows, HoldsInvoice
    <2> QED BY <1>2, <2>2, MoveStep DEF ReadDraft
  <1>3. ASSUME NEW t, NEW due, UpdateInvoice(r, i, t, due)
        PROVE  IInv'
    BY <1>3, InvoiceWriteStep DEF UpdateInvoice, WritesInvoice
  <1>4. CASE DeleteInvoice(r, i)
    BY <1>4, InvoiceWriteStep DEF DeleteInvoice, WritesInvoice
  <1>5. CASE IssueInvoice(r, i)
    BY <1>1, <1>5, InvoiceWriteStep DEF IssueInvoice, WritesInvoice, TypeOK
  <1>6. CASE CancelInvoice(r, i)
    BY <1>1, <1>6, InvoiceWriteStep DEF CancelInvoice, WritesInvoice, TypeOK
  <1>7. CASE CancelInvoiceRead(r, i)
    <2>1. h'[r].at = "count" /\ h'[r].inv = i /\ invStatus'[i] # "NONE"
      BY <1>1, <1>7 DEF CancelInvoiceRead, Cancellable, TypeOK, invoiceVars, Idle
    <2>2. HandlerKnows(r)' /\ ~HoldsInvoice(r)'
      BY <2>1 DEF HandlerKnows, HoldsInvoice
    <2> QED BY <1>7, <2>2, MoveStep DEF CancelInvoiceRead
  <1>8. CASE CancelInvoiceCount(r, i)
    <2>1. CASE Goto(r, "write")
      <3>1. h'[r].at = "write" /\ h'[r].inv = i /\ invStatus'[i] # "NONE"
        BY <1>1, <1>8, <2>1
        DEF CancelInvoiceCount, Goto, HandlerKnows, TypeOK, HandlerState, invoiceVars
      <3>2. HandlerKnows(r)' /\ ~HoldsInvoice(r)'
        BY <3>1 DEF HandlerKnows, HoldsInvoice
      <3> QED BY <1>8, <2>1, <3>2, MoveStep DEF CancelInvoiceCount, Goto
    <2>2. CASE Finish(r)
      BY <1>8, <2>2, InvoiceWriteStep DEF CancelInvoiceCount, invoiceVars, paymentVars
    <2> QED BY <1>8, <2>1, <2>2 DEF CancelInvoiceCount
  <1> QED BY <1>2, <1>3, <1>4, <1>5, <1>6, <1>7, <1>8 DEF InvoiceRequest

LEMMA OverdueStep ==
    ASSUME IInv, TypeOK', NEW i \in Invoice, SyncOverdueInvoice(i) \/ DueDatePasses(i)
    PROVE  IInv'
  <1>1. UNCHANGED <<payStatus, payInvoice, overruled, paid, h>>
    BY DEF SyncOverdueInvoice, DueDatePasses, paymentVars
  <1>2. \A j \in Invoice : invStatus[j] # "NONE" => invStatus'[j] # "NONE"
    BY DEF SyncOverdueInvoice, DueDatePasses, IInv, TypeOK
  <1>3. /\ RowsStay /\ RowsExist' /\ BalanceExact'
        /\ \A s \in Handler : h'[s] = h[s] /\ LeavesAlone(s)
    BY <1>1, <1>2, PaymentsUntouched
  <1> QED BY <1>3, EnvironmentStep

-----------------------------------------------------------------------------
(* The operations on payments. *)

LEMMA CreatePaymentStep ==
    ASSUME IInv, TypeOK', NEW r \in Handler, NEW i \in Invoice, NEW p \in Payment,
           CreatePayment(r, i, p)
    PROVE  IInv'
  <1>1. TypeOK /\ RowsExist /\ HandlerKnows(r) /\ \A s \in Handler : HandlerKnows(s)
    BY DEF IInv
  <1>2. Finish(r) /\ payStatus[p] = "NONE" /\ invStatus[i] # "NONE"
    BY <1>1 DEF CreatePayment, HandlerKnows
  <1>3. payStatus' = [payStatus EXCEPT ![p] = "PENDING"]
        /\ payInvoice' = [payInvoice EXCEPT ![p] = i]
        /\ UNCHANGED <<invStatus, total, paid, overruled>>
    BY DEF CreatePayment, invoiceVars
  <1>4. \A j : VerifiedOf(j)' = VerifiedOf(j)
    BY <1>1, <1>2, <1>3 DEF VerifiedOf, TypeOK
  <1>5. RowsStay /\ RowsExist'
    BY <1>1, <1>2, <1>3 DEF RowsStay, RowsExist, TypeOK
  <1>6. \A s \in Handler : LeavesAlone(s)
    BY <1>1, <1>2, <1>3, <1>4 DEF LeavesAlone, HandlerKnows, TypeOK
  <1>7. BalanceExact'
    <2>1. SUFFICES ASSUME NEW j \in Invoice, Undisturbed(j)'
                   PROVE  paid'[j] = AmountOf(VerifiedOf(j))'
      BY DEF BalanceExact
    <2>2. Undisturbed(j)
      BY <1>1, <1>5, <2>1, UndisturbedBefore
    <2> QED BY <1>3, <1>4, <2>2 DEF BalanceExact, IInv, AmountOf
  <1> QED BY <1>2, <1>5, <1>6, <1>7, FinishStep

(* An uncontrolled write of payment p's status: only one that takes p out  *)
(* of VERIFIED disturbs the invoice, and then p is recorded as overruled.  *)
LEMMA PaymentWriteStep ==
    ASSUME IInv, TypeOK', NEW r \in Handler, NEW p \in Payment, Finish(r),
           ~PaymentLocked(p), payStatus[p] # "NONE",
           NEW status \in PaymentStatus, status # "VERIFIED", status # "NONE",
           payStatus' = [payStatus EXCEPT ![p] = status],
           UNCHANGED <<invoiceVars, payInvoice>>,
           overruled' = IF payStatus[p] = "VERIFIED" THEN overruled \cup {p} ELSE overruled
    PROVE  IInv'
  <1>1. TypeOK /\ RowsExist /\ \A s \in Handler : HandlerKnows(s)
    BY DEF IInv
  <1>2. RowsStay /\ RowsExist'
    BY <1>1 DEF RowsStay, RowsExist, TypeOK, invoiceVars
  <1>3. ASSUME NEW j \in Invoice, Undisturbed(j)'
        PROVE  Undisturbed(j) /\ VerifiedOf(j)' = VerifiedOf(j)
    <2>1. Undisturbed(j)
      BY <1>1, <1>2, <1>3, UndisturbedBefore
    <2>2. payStatus[p] = "VERIFIED" => payInvoice[p] # j
      BY <1>3 DEF Undisturbed
    <2> QED BY <1>1, <2>1, <2>2 DEF VerifiedOf, TypeOK
  <1>4. \A s \in Handler : LeavesAlone(s)
    BY <1>1, <1>3 DEF LeavesAlone, PaymentLocked, HoldsPayment, TypeOK
  <1>5. BalanceExact'
    BY <1>3 DEF BalanceExact, IInv, AmountOf, invoiceVars
  <1> QED BY <1>2, <1>4, <1>5, FinishStep

LEMMA PaymentRequestStep ==
    ASSUME IInv, TypeOK', NEW r \in Handler, NEW p \in Payment, PaymentRequest(r, p)
    PROVE  IInv'
  <1>1. TypeOK /\ RowsExist /\ HandlerKnows(r)
    BY DEF IInv
  <1>2. ASSUME NEW op, NEW seen, NEW s, Begin(r, p, op, seen, s),
               UNCHANGED <<invoiceVars, paymentVars, overruled, lateEdit>>,
               payStatus[p] # "NONE",
               \/ s = "payWrite" /\ seen # "VERIFIED" /\ seen # "NONE"
               \/ s = "lock" /\ op = "verify" /\ seen = "PENDING"
               \/ s = "lock" /\ op = "cancelPayment" /\ seen = "VERIFIED"
        PROVE  IInv'
    <2>1. /\ h'[r].at = s /\ h'[r].op = op /\ h'[r].seen = seen
          /\ h'[r].pay = p /\ h'[r].inv = payInvoice[p]
      BY <1>1, <1>2 DEF Begin, TypeOK, Idle
    <2>2. HandlerKnows(r)' /\ ~HoldsInvoice(r)'
      BY <1>1, <1>2, <2>1 DEF HandlerKnows, HoldsInvoice, RowsExist, invoiceVars, paymentVars
    <2> QED BY <1>2, <2>2, MoveStep DEF Begin
  <1>3. CASE VerifyPaymentRead(r, p)
    BY <1>2, <1>3 DEF VerifyPaymentRead
  <1>4. CASE CancelPaymentRead(r, p)
    <2>1. CASE payStatus[p] = "VERIFIED"
      BY <1>2, <1>4, <2>1 DEF CancelPaymentRead
    <2>2. CASE payStatus[p] # "VERIFIED"
      BY <1>2, <1>4, <2>2 DEF CancelPaymentRead
    <2> QED BY <2>1, <2>2
  <1>5. CASE RejectPaymentRead(r, p)
    BY <1>2, <1>5 DEF RejectPaymentRead
  <1>6. CASE CancelUnverifiedPayment(r, p)
    <2>1. CASE payStatus[p] = h[r].seen
      <3>1. payStatus[p] # "VERIFIED" /\ payStatus[p] # "NONE"
        BY <1>1, <1>6, <2>1 DEF CancelUnverifiedPayment, HandlerKnows
      <3> QED BY <1>6, <2>1, <3>1, PaymentWriteStep DEF CancelUnverifiedPayment, PaymentStatus
    <2>2. CASE payStatus[p] # h[r].seen
      BY <1>6, <2>2, InvoiceWriteStep DEF CancelUnverifiedPayment, invoiceVars, paymentVars
    <2> QED BY <2>1, <2>2
  <1>7. CASE RejectPayment(r, p)
    <2>1. payStatus[p] # "NONE"
      BY <1>1, <1>7 DEF RejectPayment, HandlerKnows
    <2> QED BY <1>7, <2>1, PaymentWriteStep DEF RejectPayment, PaymentStatus
  <1> QED BY <1>3, <1>4, <1>5, <1>6, <1>7 DEF PaymentRequest

-----------------------------------------------------------------------------
(* The transactions of verify and cancel. *)

LEMMA LockStep ==
    ASSUME IInv, TypeOK', NEW r \in Handler, LockInvoice(r)
    PROVE  IInv'
  <1>1. TypeOK /\ HandlerKnows(r)
    BY DEF IInv
  <1>2. h'[r] = [h[r] EXCEPT !.at = "claim"] /\ h' = [h EXCEPT ![r] = h'[r]]
    BY <1>1 DEF LockInvoice, Goto, TypeOK, HandlerState
  <1>3. HandlerKnows(r)'
    BY <1>1, <1>2 DEF LockInvoice, HandlerKnows, TypeOK, HandlerState, invoiceVars, paymentVars
  <1>4. h'[r].inv = h[r].inv /\ ~InvoiceLocked(h[r].inv)
    BY <1>1, <1>2 DEF LockInvoice, TypeOK, HandlerState
  <1> QED BY <1>2, <1>3, <1>4, MoveStep DEF LockInvoice

LEMMA ClaimStep ==
    ASSUME IInv, TypeOK', NEW r \in Handler, ClaimPayment(r)
    PROVE  IInv'
  <1>1. TypeOK /\ HandlerKnows(r)
    BY DEF IInv
  <1>2. CASE payStatus[h[r].pay] = h[r].seen
    <2>1. h'[r] = [h[r] EXCEPT !.at = "sum"] /\ h' = [h EXCEPT ![r] = h'[r]]
      BY <1>1, <1>2 DEF ClaimPayment, Goto, TypeOK, HandlerState
    <2>2. HandlerKnows(r)'
      BY <1>1, <1>2, <2>1
      DEF ClaimPayment, HandlerKnows, TypeOK, HandlerState, invoiceVars, paymentVars
    <2>3. h'[r].inv = h[r].inv /\ HoldsInvoice(r)
      BY <1>1, <2>1 DEF ClaimPayment, HoldsInvoice, TypeOK, HandlerState
    <2> QED BY <2>1, <2>2, <2>3, MoveStep DEF ClaimPayment
  <1>3. CASE payStatus[h[r].pay] # h[r].seen
    BY <1>3, InvoiceWriteStep DEF ClaimPayment, invoiceVars, paymentVars
  <1> QED BY <1>2, <1>3

LEMMA SumStep ==
    ASSUME IInv, TypeOK', NEW r \in Handler, SumPayments(r)
    PROVE  IInv'
  <1>1. TypeOK /\ HandlerKnows(r)
    BY DEF IInv
  <1>2. CASE Finish(r)
    BY <1>2, InvoiceWriteStep DEF SumPayments, invoiceVars, paymentVars
  <1>3. CASE h' = [h EXCEPT ![r].at = "commit", ![r].sum = AmountOf(SeenVerified(r))]
    <2>1. /\ h'[r] = [h[r] EXCEPT !.at = "commit", !.sum = AmountOf(SeenVerified(r))]
          /\ h' = [h EXCEPT ![r] = h'[r]]
      BY <1>1, <1>3 DEF TypeOK, HandlerState
    <2>2. /\ h'[r].at = "commit" /\ h'[r].inv = h[r].inv /\ h'[r].pay = h[r].pay
          /\ h'[r].op = h[r].op /\ h'[r].seen = h[r].seen
          /\ h'[r].sum = AmountOf(SeenVerified(r))
      BY <1>1, <2>1 DEF TypeOK, HandlerState
    <2>3. UNCHANGED <<invStatus, payStatus, payInvoice>>
      BY DEF SumPayments, invoiceVars, paymentVars
    <2>4. VerifiedOf(h[r].inv) = {p \in Payment : payStatus'[p] = "VERIFIED" /\ payInvoice'[p] = h'[r].inv}
      BY <2>2, <2>3 DEF VerifiedOf
    <2>5. SeenVerified(r)' = SeenVerified(r)
      BY <2>2, <2>3, <2>4 DEF SeenVerified, VerifiedOf
    <2>6. AmountOf(SeenVerified(r))' = AmountOf(SeenVerified(r))
      BY <2>5 DEF AmountOf
    <2>7. HandlerKnows(r)'
      BY <1>1, <2>2, <2>3, <2>6 DEF SumPayments, HandlerKnows
    <2>8. HoldsInvoice(r)
      BY DEF SumPayments, HoldsInvoice
    <2> QED BY <2>1, <2>2, <2>7, <2>8, MoveStep DEF SumPayments
  <1> QED BY <1>2, <1>3 DEF SumPayments

LEMMA CommitStep ==
    ASSUME IInv, TypeOK', NEW r \in Handler, NEW i \in Invoice, NEW p \in Payment,
           VerifyPaymentCommit(r, i, p) \/ CancelPaymentCommit(r, i, p)
    PROVE  IInv'
  <1>1. TypeOK /\ RowsExist /\ LockExclusion /\ HandlerKnows(r)
        /\ \A s \in Handler : HandlerKnows(s)
    BY DEF IInv
  <1>2. /\ h[r].at = "commit" /\ h[r].inv = i /\ h[r].pay = p /\ Finish(r)
        /\ paid' = [paid EXCEPT ![i] = h[r].sum]
        /\ UNCHANGED <<payInvoice, overruled>>
    BY DEF VerifyPaymentCommit, CancelPaymentCommit
  <1>3. payInvoice[p] = i /\ payStatus[p] # "NONE" /\ invStatus[i] # "NONE"
    BY <1>1, <1>2 DEF HandlerKnows
  <1>4. \A j \in Invoice : invStatus[j] # "NONE" => invStatus'[j] # "NONE"
    BY <1>1 DEF VerifyPaymentCommit, CancelPaymentCommit, StatusAfterVerification,
                StatusAfterCancellation, TypeOK
  <1>5. /\ \A q \in Payment : q # p => payStatus'[q] = payStatus[q]
        /\ payStatus'[p] = IF h[r].op = "verify" THEN "VERIFIED" ELSE "CANCELLED"
    <2>1. CASE VerifyPaymentCommit(r, i, p)
      BY <1>1, <2>1 DEF VerifyPaymentCommit, TypeOK
    <2>2. CASE CancelPaymentCommit(r, i, p)
      BY <1>1, <2>2 DEF CancelPaymentCommit, TypeOK
    <2> QED BY <2>1, <2>2
  <1>6. RowsStay /\ RowsExist'
    <2>1. \A q \in Payment : payStatus[q] # "NONE" <=> payStatus'[q] # "NONE"
      BY <1>3, <1>5
    <2>2. RowsStay
      BY <1>2, <1>4, <2>1 DEF RowsStay
    <2>3. \A q \in overruled' : payStatus'[q] # "NONE"
      BY <1>1, <1>2, <2>1 DEF RowsExist, TypeOK
    <2>4. \A q \in Payment : payStatus'[q] # "NONE" =>
             payInvoice'[q] \in Invoice /\ invStatus'[payInvoice'[q]] # "NONE"
      BY <1>1, <1>2, <1>4, <2>1 DEF RowsExist
    <2> QED BY <2>2, <2>3, <2>4 DEF RowsExist
  <1>7. VerifiedOf(i)' = SeenVerified(r)
    BY <1>2, <1>3, <1>5 DEF VerifiedOf, SeenVerified
  <1>8. \A j \in Invoice : j # i => VerifiedOf(j)' = VerifiedOf(j)
    BY <1>2, <1>3, <1>5 DEF VerifiedOf
  <1>9. \A j : Undisturbed(j)' <=> Undisturbed(j)
    BY <1>2 DEF Undisturbed
  <1>10. BalanceExact'
    <2>1. Undisturbed(i) => paid'[i] = AmountOf(VerifiedOf(i))'
      BY <1>1, <1>2, <1>7 DEF HandlerKnows, TypeOK, AmountOf
    <2>2. \A j \in Invoice : j # i /\ Undisturbed(j) => paid'[j] = AmountOf(VerifiedOf(j))'
      BY <1>1, <1>2, <1>8 DEF BalanceExact, IInv, TypeOK, AmountOf
    <2> QED BY <1>9, <2>1, <2>2 DEF BalanceExact
  <1>11. ASSUME NEW s \in Handler \ {r} PROVE LeavesAlone(s)
    <2>1. h[s].at \in {"sum", "commit"} => h[s].inv # i /\ h[s].pay # p
      BY <1>1, <1>2, <1>3 DEF LockExclusion, HoldsInvoice, HandlerKnows
    <2> QED BY <1>1, <1>5, <1>8, <2>1 DEF LeavesAlone, HandlerKnows
  <1> QED BY <1>2, <1>6, <1>10, <1>11, FinishStep

LEMMA TransactStep ==
    ASSUME IInv, TypeOK', NEW r \in Handler, Transact(r)
    PROVE  IInv'
  BY LockStep, ClaimStep, SumStep, CommitStep DEF Transact

-----------------------------------------------------------------------------
(* The initial states satisfy the invariant. *)
LEMMA InitInv == Init => IInv
  <1> SUFFICES ASSUME Init PROVE IInv
    OBVIOUS
  <1>1. TypeOK
    <2>1. Idle \in HandlerState
      BY SumsType DEF Idle, HandlerState, Statement, Operation, PaymentStatus
    <2> QED BY <2>1, SumsType DEF Init, TypeOK, InvoiceStatus, PaymentStatus
  <1>2. \A r \in Handler : h[r].at = "idle"
    BY DEF Init, Idle
  <1>3. LockExclusion /\ \A r \in Handler : HandlerKnows(r)
    BY <1>2 DEF LockExclusion, HoldsInvoice, HandlerKnows
  <1>4. RowsExist
    BY DEF Init, RowsExist
  <1>5. \A i : VerifiedOf(i) = {}
    BY DEF Init, VerifiedOf
  <1>6. BalanceExact
    BY <1>5 DEF Init, BalanceExact
  <1> QED BY <1>1, <1>3, <1>4, <1>6 DEF IInv

(* Every step preserves it. *)
LEMMA InvStep == IInv /\ [Next]_vars => IInv'
  <1> SUFFICES ASSUME IInv, [Next]_vars PROVE IInv'
    OBVIOUS
  <1>1. TypeOK /\ TypeOK'
    BY TypeStep DEF IInv
  <1>2. ASSUME NEW i \in Invoice, NEW t \in Totals, NEW due \in BOOLEAN, CreateInvoice(i, t, due)
        PROVE  IInv'
    BY <1>1, <1>2, CreateInvoiceStep
  <1>3. ASSUME NEW r \in Handler, NEW i \in Invoice, InvoiceRequest(r, i)
        PROVE  IInv'
    BY <1>1, <1>3, InvoiceRequestStep
  <1>4. ASSUME NEW i \in Invoice, SyncOverdueInvoice(i) \/ DueDatePasses(i)
        PROVE  IInv'
    BY <1>1, <1>4, OverdueStep
  <1>5. ASSUME NEW r \in Handler, NEW i \in Invoice, CreatePaymentRead(r, i)
        PROVE  IInv'
    <2>1. h'[r].at = "insert" /\ h'[r].inv = i /\ invStatus'[i] # "NONE"
      BY <1>1, <1>5 DEF CreatePaymentRead, TypeOK, invoiceVars, Idle
    <2>2. HandlerKnows(r)' /\ ~HoldsInvoice(r)'
      BY <2>1 DEF HandlerKnows, HoldsInvoice
    <2> QED BY <1>1, <1>5, <2>2, MoveStep DEF CreatePaymentRead
  <1>6. ASSUME NEW r \in Handler, NEW i \in Invoice, NEW p \in Payment, CreatePayment(r, i, p)
        PROVE  IInv'
    BY <1>1, <1>6, CreatePaymentStep
  <1>7. ASSUME NEW r \in Handler, NEW p \in Payment, PaymentRequest(r, p)
        PROVE  IInv'
    BY <1>1, <1>7, PaymentRequestStep
  <1>8. ASSUME NEW r \in Handler, Transact(r)
        PROVE  IInv'
    BY <1>1, <1>8, TransactStep
  <1>9. ASSUME NEW r \in Handler, Abandon(r)
        PROVE  IInv'
    BY <1>1, <1>9, InvoiceWriteStep DEF Abandon, invoiceVars, paymentVars
  <1>10. CASE UNCHANGED vars
    <2>1. UNCHANGED <<payStatus, payInvoice, overruled, paid, invStatus, h>>
      BY <1>10 DEF vars
    <2> QED BY <1>1, <2>1, PaymentsUntouched, EnvironmentStep
  <1> QED BY <1>2, <1>3, <1>4, <1>5, <1>6, <1>7, <1>8, <1>9, <1>10 DEF Next

LEMMA Invariance == Spec => []IInv
  BY InitInv, InvStep, PTL DEF Spec

(* Type correctness of every reachable state. *)
THEOREM TypeCorrect == Spec => []TypeOK
  BY Invariance, PTL DEF IInv

(* Verifications and cancellations of payments of one invoice serialize,   *)
(* for any number of concurrent requests.                                  *)
THEOREM TransactionsExclude == Spec => []LockExclusion
  BY Invariance, PTL DEF IInv

(* paidAmount is the sum of the verified payments of an invoice in every   *)
(* reachable state in which no rejection has overruled a verification.     *)
THEOREM BalanceIsExact == Spec => []BalanceExact
  BY Invariance, PTL DEF IInv

(* VERIFIED is entered from PENDING only: the claim of a verification still*)
(* stands when the transaction commits, because the row is locked.         *)
THEOREM VerifiedOnce == Spec => OnlyPendingIsVerified
  <1>1. IInv /\ [Next]_vars =>
          [\A p \in Payment :
              payStatus'[p] = "VERIFIED" => payStatus[p] \in {"PENDING", "VERIFIED"}]_vars
    <2> SUFFICES ASSUME IInv, Next, NEW p \in Payment, payStatus'[p] = "VERIFIED",
                        payStatus[p] # "VERIFIED"
                 PROVE  payStatus[p] = "PENDING"
      OBVIOUS
    <2>1. TypeOK
      BY DEF IInv
    <2>2. ASSUME NEW r \in Handler, NEW i \in Invoice, InvoiceRequest(r, i) PROVE FALSE
      BY <2>2
      DEF InvoiceRequest, ReadDraft, UpdateInvoice, DeleteInvoice, IssueInvoice,
          CancelInvoiceRead, CancelInvoiceCount, CancelInvoice, WritesInvoice, paymentVars
    <2>3. ASSUME NEW r \in Handler, NEW q \in Payment, PaymentRequest(r, q) PROVE FALSE
      BY <2>1, <2>3
      DEF TypeOK, PaymentRequest, VerifyPaymentRead, CancelPaymentRead, RejectPaymentRead,
          CancelUnverifiedPayment, RejectPayment, paymentVars
    <2>4. ASSUME NEW r \in Handler, NEW i \in Invoice, NEW q \in Payment, CreatePayment(r, i, q)
          PROVE  FALSE
      BY <2>1, <2>4 DEF TypeOK, CreatePayment
    <2>5. ASSUME NEW r \in Handler, LockInvoice(r) \/ ClaimPayment(r) \/ SumPayments(r) \/ Abandon(r)
          PROVE  FALSE
      BY <2>5 DEF LockInvoice, ClaimPayment, SumPayments, Abandon, paymentVars
    <2>6. ASSUME NEW r \in Handler, NEW i \in Invoice, NEW q \in Payment,
                 CancelPaymentCommit(r, i, q)
          PROVE  FALSE
      BY <2>1, <2>6 DEF TypeOK, CancelPaymentCommit
    <2>7. ASSUME NEW r \in Handler, NEW i \in Invoice, NEW q \in Payment,
                 VerifyPaymentCommit(r, i, q)
          PROVE  payStatus[p] = "PENDING"
      BY <2>1, <2>7 DEF TypeOK, VerifyPaymentCommit, IInv, HandlerKnows
    <2>8. ASSUME NEW r \in Handler, Transact(r) PROVE payStatus[p] = "PENDING"
      BY <2>5, <2>6, <2>7, <2>8 DEF Transact
    <2>9. ASSUME NEW i \in Invoice, NEW t, NEW due, NEW r,
                 \/ CreateInvoice(i, t, due) \/ SyncOverdueInvoice(i)
                 \/ DueDatePasses(i) \/ CreatePaymentRead(r, i)
          PROVE  FALSE
      BY <2>9 DEF CreateInvoice, SyncOverdueInvoice, DueDatePasses, CreatePaymentRead, paymentVars
    <2> QED BY <2>2, <2>3, <2>4, <2>5, <2>8, <2>9 DEF Next
  <1> QED BY <1>1, Invariance, PTL DEF Spec, OnlyPendingIsVerified

-----------------------------------------------------------------------------
(* Billing implements PaymentLedger.  The invariant says why the balance   *)
(* that a commit writes is exact; VerifyWithin says why it is within the   *)
(* total, which no request can change while the row is locked.             *)
VerifyWithin ==
    \A r \in Handler :
        h[r].at = "commit" /\ h[r].op = "verify" => h[r].sum <= total[h[r].inv]

-----------------------------------------------------------------------------
(* A step that moves one handler, and not to a commit, and leaves the      *)
(* totals alone keeps the bound.                                           *)
LEMMA WithinUnlessCommit ==
    ASSUME TypeOK, TypeOK', VerifyWithin, total' = total, NEW r \in Handler,
           \A s \in Handler \ {r} : h'[s] = h[s],
           h'[r].at # "commit"
    PROVE  VerifyWithin'
  BY DEF VerifyWithin, TypeOK

LEMMA GotoMoves ==
    ASSUME TypeOK, NEW r \in Handler, NEW s \in Statement, Goto(r, s) \/ Finish(r)
    PROVE  /\ \A q \in Handler \ {r} : h'[q] = h[q]
           /\ h'[r].at \in {s, "idle"}
  BY DEF TypeOK, Goto, Finish, Idle, HandlerState

LEMMA BeginMoves ==
    ASSUME TypeOK, NEW r \in Handler, NEW p, NEW op, NEW seen, NEW s,
           Begin(r, p, op, seen, s)
    PROVE  /\ \A q \in Handler \ {r} : h'[q] = h[q]
           /\ h'[r].at = s
  BY DEF TypeOK, Begin, Idle

LEMMA WithinInvoiceRequest ==
    ASSUME TypeOK, TypeOK', VerifyWithin, NEW r \in Handler, NEW i \in Invoice,
           InvoiceRequest(r, i)
    PROVE  VerifyWithin'
  <1>1. ASSUME NEW op \in {"update", "delete", "issue"}, ReadDraft(r, i, op)
        PROVE  VerifyWithin'
    BY <1>1, WithinUnlessCommit DEF ReadDraft, invoiceVars, Idle, TypeOK
  <1>2. ASSUME NEW t \in Totals, NEW due \in BOOLEAN, UpdateInvoice(r, i, t, due)
        PROVE  VerifyWithin'
    <2>1. Finish(r) /\ ~InvoiceLocked(i) /\ total' = [total EXCEPT ![i] = t]
      BY <1>2 DEF UpdateInvoice, WritesInvoice
    <2>2. \A s \in Handler : h'[s].at = "commit" => h'[s] = h[s] /\ h[s].inv # i
      BY <2>1 DEF TypeOK, Finish, Idle, InvoiceLocked, HoldsInvoice
    <2> QED BY <2>1, <2>2 DEF VerifyWithin, TypeOK
  <1>3. CASE DeleteInvoice(r, i) \/ IssueInvoice(r, i) \/ CancelInvoice(r, i)
    <2>1. Finish(r) /\ total' = total
      BY <1>3 DEF DeleteInvoice, IssueInvoice, CancelInvoice, WritesInvoice
    <2> QED BY <2>1, WithinUnlessCommit DEF TypeOK, Finish, Idle
  <1>4. CASE CancelInvoiceRead(r, i)
    BY <1>4, WithinUnlessCommit DEF CancelInvoiceRead, invoiceVars, Idle, TypeOK
  <1>5. CASE CancelInvoiceCount(r, i)
    <2>1. Goto(r, "write") \/ Finish(r)
      BY <1>5 DEF CancelInvoiceCount
    <2>2. /\ \A q \in Handler \ {r} : h'[q] = h[q]
          /\ h'[r].at \in {"write", "idle"}
      BY <2>1, GotoMoves DEF Statement
    <2> QED BY <1>5, <2>2, WithinUnlessCommit DEF CancelInvoiceCount, invoiceVars
  <1> QED BY <1>1, <1>2, <1>3, <1>4, <1>5 DEF InvoiceRequest

LEMMA WithinPaymentRequest ==
    ASSUME TypeOK, TypeOK', VerifyWithin, NEW r \in Handler, NEW p \in Payment,
           PaymentRequest(r, p)
    PROVE  VerifyWithin'
  <1>1. total' = total
    BY DEF PaymentRequest, VerifyPaymentRead, CancelPaymentRead, RejectPaymentRead,
           CancelUnverifiedPayment, RejectPayment, invoiceVars
  <1>2. \/ Finish(r)
        \/ \E op, seen : \E s \in {"lock", "payWrite"} : Begin(r, p, op, seen, s)
    BY DEF PaymentRequest, VerifyPaymentRead, CancelPaymentRead, RejectPaymentRead,
           CancelUnverifiedPayment, RejectPayment
  <1>3. /\ \A q \in Handler \ {r} : h'[q] = h[q]
        /\ h'[r].at # "commit"
    <2>1. CASE Finish(r)
      BY <2>1 DEF Finish, Idle, TypeOK
    <2>2. ASSUME NEW op, NEW seen, NEW s \in {"lock", "payWrite"}, Begin(r, p, op, seen, s)
          PROVE  <1>3!1 /\ <1>3!2
      BY <2>2, BeginMoves
    <2> QED BY <1>2, <2>1, <2>2
  <1> QED BY <1>1, <1>3, WithinUnlessCommit

LEMMA WithinTransact ==
    ASSUME TypeOK, TypeOK', VerifyWithin, NEW r \in Handler, Transact(r)
    PROVE  VerifyWithin'
  <1>1. total' = total
    BY DEF Transact, LockInvoice, ClaimPayment, SumPayments, VerifyPaymentCommit,
           CancelPaymentCommit, invoiceVars
  <1>2. CASE LockInvoice(r) \/ ClaimPayment(r)
    <2>1. \E s \in {"claim", "sum"} : Goto(r, s) \/ Finish(r)
      BY <1>2 DEF LockInvoice, ClaimPayment
    <2>2. /\ \A q \in Handler \ {r} : h'[q] = h[q]
          /\ h'[r].at # "commit"
      BY <2>1, GotoMoves DEF Statement
    <2> QED BY <1>1, <2>2, WithinUnlessCommit
  <1>3. ASSUME NEW i \in Invoice, NEW p \in Payment,
               VerifyPaymentCommit(r, i, p) \/ CancelPaymentCommit(r, i, p)
        PROVE  VerifyWithin'
    BY <1>1, <1>3, WithinUnlessCommit
    DEF VerifyPaymentCommit, CancelPaymentCommit, Finish, Idle, TypeOK
  <1>4. CASE SumPayments(r)
    <2>1. CASE Finish(r)
      BY <1>1, <2>1, WithinUnlessCommit DEF Finish, Idle, TypeOK
    <2>2. CASE ~(h[r].op = "verify" /\ ~Acceptable(r))
      <3>1. h' = [h EXCEPT ![r].at = "commit", ![r].sum = AmountOf(SeenVerified(r))]
        BY <1>4, <2>2 DEF SumPayments
      <3>2. h[r].op = "verify" => AmountOf(SeenVerified(r)) <= total[h[r].inv]
        BY <2>2 DEF Acceptable
      <3>3. /\ \A q \in Handler \ {r} : h'[q] = h[q]
            /\ h'[r].op = h[r].op /\ h'[r].inv = h[r].inv
            /\ h'[r].sum = AmountOf(SeenVerified(r))
        BY <3>1 DEF TypeOK, HandlerState
      <3> HIDE DEF SeenVerified
      <3> QED BY <1>1, <3>2, <3>3 DEF VerifyWithin
    <2> QED BY <1>4, <2>1, <2>2 DEF SumPayments
  <1> QED BY <1>2, <1>3, <1>4 DEF Transact

LEMMA WithinStep == IInv /\ TypeOK' /\ VerifyWithin /\ [Next]_vars => VerifyWithin'
  <1> SUFFICES ASSUME IInv, TypeOK', VerifyWithin, [Next]_vars PROVE VerifyWithin'
    OBVIOUS
  <1>1. TypeOK /\ \A r \in Handler : HandlerKnows(r)
    BY DEF IInv
  <1>2. ASSUME NEW i \in Invoice, NEW t, NEW due, CreateInvoice(i, t, due)
        PROVE  VerifyWithin'
    BY <1>1, <1>2 DEF CreateInvoice, VerifyWithin, HandlerKnows, TypeOK
  <1>3. ASSUME NEW i \in Invoice, SyncOverdueInvoice(i) \/ DueDatePasses(i)
        PROVE  VerifyWithin'
    BY <1>3 DEF SyncOverdueInvoice, DueDatePasses, VerifyWithin
  <1>4. ASSUME NEW r \in Handler, NEW i \in Invoice, CreatePaymentRead(r, i)
        PROVE  VerifyWithin'
    BY <1>1, <1>4, WithinUnlessCommit DEF CreatePaymentRead, invoiceVars, Idle, TypeOK
  <1>5. ASSUME NEW r \in Handler, NEW i \in Invoice, NEW p \in Payment, CreatePayment(r, i, p)
        PROVE  VerifyWithin'
    BY <1>1, <1>5, WithinUnlessCommit DEF CreatePayment, Finish, invoiceVars, Idle, TypeOK
  <1>6. ASSUME NEW r \in Handler, Abandon(r) PROVE VerifyWithin'
    BY <1>1, <1>6, WithinUnlessCommit DEF Abandon, Finish, invoiceVars, Idle, TypeOK
  <1>7. CASE UNCHANGED vars
    BY <1>7 DEF vars, VerifyWithin
  <1> QED
    BY <1>1, <1>2, <1>3, <1>4, <1>5, <1>6, <1>7, WithinInvoiceRequest, WithinPaymentRequest,
       WithinTransact DEF Next

-----------------------------------------------------------------------------
(* Steps of the ledger.                                                    *)

(* Payments and invoices that keep what the ledger sees of them: a stutter.*)
LEMMA LedgerStutters ==
    ASSUME UNCHANGED <<payStatus, payInvoice, paid, total, overruled>>
    PROVE  UNCHANGED Ledger!vars
  BY DEF Ledger!vars, Book, Closed, Disturbed

LEMMA LedgerCharges ==
    ASSUME TypeOK, NEW i \in Invoice, NEW t, total' = [total EXCEPT ![i] = t],
           UNCHANGED <<payStatus, payInvoice, paid, overruled>>
    PROVE  Ledger!Next
  <1>1. Ledger!Charge(i)
    BY DEF TypeOK, Ledger!Charge, Book, Closed, Disturbed
  <1> QED BY <1>1 DEF Ledger!Next

(* A payment that is not verified is rejected or cancelled. *)
LEMMA LedgerCloses ==
    ASSUME TypeOK, NEW p \in Payment, payStatus[p] # "VERIFIED",
           NEW status \in {"REJECTED", "CANCELLED"},
           payStatus' = [payStatus EXCEPT ![p] = status],
           UNCHANGED <<payInvoice, paid, total, overruled>>
    PROVE  Ledger!Next
  <1>1. Book' = Book /\ Disturbed' = Disturbed
    BY DEF TypeOK, Book, Disturbed
  <1>2. Closed' = Closed \cup {p}
    BY DEF TypeOK, Closed
  <1>3. Book[p] = None
    BY DEF Book
  <1>4. Ledger!Close(p)
    BY <1>1, <1>2, <1>3 DEF Ledger!Close
  <1> QED BY <1>4 DEF Ledger!Next

LEMMA LedgerStrikes ==
    ASSUME TypeOK, RowsExist, NEW p \in Payment, payStatus[p] = "VERIFIED",
           payStatus' = [payStatus EXCEPT ![p] = "REJECTED"],
           overruled' = overruled \cup {p},
           UNCHANGED <<payInvoice, paid, total>>
    PROVE  Ledger!Next
  <1> DEFINE i == payInvoice[p]
  <1>1. i \in Invoice
    BY DEF RowsExist
  <1>2. Book[p] = i /\ Book' = [Book EXCEPT ![p] = None]
    BY DEF TypeOK, Book
  <1>3. Closed' = Closed \cup {p}
    BY DEF TypeOK, Closed
  <1>4. Disturbed' = Disturbed \cup {i}
    BY DEF Disturbed
  <1>5. Ledger!Strike(i, p)
    BY <1>2, <1>3, <1>4 DEF Ledger!Strike
  <1> QED BY <1>1, <1>5 DEF Ledger!Next

(* What the ledger calls settled and disturbed. *)
LEMMA SettledIsVerified ==
    ASSUME NEW i \in Invoice
    PROVE  /\ Ledger!Settled(i) = VerifiedOf(i)
           /\ i \notin Disturbed <=> Undisturbed(i)
  BY NoneAssumption DEF Ledger!Settled, VerifiedOf, Book, Disturbed, Undisturbed

(* The balance a commit leaves is exact, because BalanceExact holds of the *)
(* next state.                                                             *)
LEMMA LedgerRebalances ==
    ASSUME TypeOK, BalanceExact', NEW i \in Invoice, NEW sum,
           paid' = [paid EXCEPT ![i] = sum], UNCHANGED <<payInvoice, overruled>>
    PROVE  Ledger!Rebalance(i)
  <1>1. Ledger!Settled(i)' = VerifiedOf(i)'
    BY NoneAssumption DEF Ledger!Settled, VerifiedOf, Book
  <1>2. i \notin Disturbed => Undisturbed(i)'
    BY DEF Disturbed, Undisturbed
  <1>3. i \notin Disturbed => paid'[i] = AmountOf(VerifiedOf(i))'
    BY <1>2 DEF BalanceExact
  <1>4. i \notin Disturbed => paid'[i] = AmountOf(Ledger!Settled(i)')
    BY <1>1, <1>3 DEF AmountOf
  <1>5. paid' = [paid EXCEPT ![i] = paid'[i]]
    BY DEF TypeOK
  <1> QED BY <1>4, <1>5 DEF Ledger!Rebalance

LEMMA LedgerSettles ==
    ASSUME IInv, IInv', VerifyWithin, NEW r \in Handler, NEW i \in Invoice,
           NEW p \in Payment, VerifyPaymentCommit(r, i, p)
    PROVE  Ledger!Next
  <1>1. TypeOK /\ BalanceExact' /\ HandlerKnows(r)
    BY DEF IInv
  <1>2. payInvoice[p] = i /\ payStatus[p] = "PENDING" /\ h[r].sum <= total[i]
    BY <1>1 DEF VerifyPaymentCommit, HandlerKnows, VerifyWithin
  <1>3. Book[p] = None /\ p \notin Closed
    BY <1>2 DEF Book, Closed
  <1>4. Book' = [Book EXCEPT ![p] = i]
    BY <1>1, <1>2 DEF VerifyPaymentCommit, TypeOK, Book
  <1>5. Closed' = Closed /\ total' = total /\ Disturbed' = Disturbed
    BY <1>1, <1>2 DEF VerifyPaymentCommit, TypeOK, Closed, Disturbed
  <1>6. Ledger!Rebalance(i)
    BY <1>1, LedgerRebalances DEF VerifyPaymentCommit
  <1>7. paid'[i] <= total[i]
    BY <1>1, <1>2 DEF VerifyPaymentCommit, TypeOK
  <1>8. Ledger!Settle(i, p)
    BY <1>3, <1>4, <1>5, <1>6, <1>7 DEF Ledger!Settle
  <1> QED BY <1>8 DEF Ledger!Next

LEMMA LedgerReverses ==
    ASSUME IInv, IInv', NEW r \in Handler, NEW i \in Invoice,
           NEW p \in Payment, CancelPaymentCommit(r, i, p)
    PROVE  Ledger!Next
  <1>1. TypeOK /\ BalanceExact' /\ HandlerKnows(r)
    BY DEF IInv
  <1>2. payInvoice[p] = i /\ payStatus[p] = "VERIFIED"
    BY <1>1 DEF CancelPaymentCommit, HandlerKnows
  <1>3. Book[p] = i
    BY <1>2 DEF Book
  <1>4. Book' = [Book EXCEPT ![p] = None]
    BY <1>1, <1>2 DEF CancelPaymentCommit, TypeOK, Book
  <1>5. Closed' = Closed \cup {p} /\ total' = total /\ Disturbed' = Disturbed
    BY <1>1, <1>2 DEF CancelPaymentCommit, TypeOK, Closed, Disturbed
  <1>6. Ledger!Rebalance(i)
    BY <1>1, LedgerRebalances DEF CancelPaymentCommit
  <1>7. Ledger!Reverse(i, p)
    BY <1>3, <1>4, <1>5, <1>6 DEF Ledger!Reverse
  <1> QED BY <1>7 DEF Ledger!Next

-----------------------------------------------------------------------------
(* Each request's steps.                                                   *)

LEMMA RefineInvoiceRequest ==
    ASSUME TypeOK, NEW r \in Handler, NEW i \in Invoice, InvoiceRequest(r, i)
    PROVE  [Ledger!Next]_(Ledger!vars)
  <1>1. ASSUME NEW t \in Totals, NEW due \in BOOLEAN, UpdateInvoice(r, i, t, due)
        PROVE  Ledger!Next
    BY <1>1, LedgerCharges DEF UpdateInvoice, WritesInvoice, paymentVars
  <1>2. CASE \/ \E op \in {"update", "delete", "issue"} : ReadDraft(r, i, op)
             \/ CancelInvoiceRead(r, i) \/ CancelInvoiceCount(r, i)
    BY <1>2, LedgerStutters
    DEF ReadDraft, CancelInvoiceRead, CancelInvoiceCount, invoiceVars, paymentVars
  <1>3. CASE DeleteInvoice(r, i) \/ IssueInvoice(r, i) \/ CancelInvoice(r, i)
    BY <1>3, LedgerStutters
    DEF DeleteInvoice, IssueInvoice, CancelInvoice, WritesInvoice, paymentVars
  <1> QED BY <1>1, <1>2, <1>3 DEF InvoiceRequest

LEMMA RefinePaymentRequest ==
    ASSUME IInv, NEW r \in Handler, NEW p \in Payment, PaymentRequest(r, p)
    PROVE  [Ledger!Next]_(Ledger!vars)
  <1>1. TypeOK /\ RowsExist /\ HandlerKnows(r)
    BY DEF IInv
  <1>2. CASE VerifyPaymentRead(r, p) \/ CancelPaymentRead(r, p) \/ RejectPaymentRead(r, p)
    BY <1>2, LedgerStutters
    DEF VerifyPaymentRead, CancelPaymentRead, RejectPaymentRead, invoiceVars, paymentVars
  <1>3. CASE CancelUnverifiedPayment(r, p)
    <2>1. UNCHANGED <<payInvoice, paid, total, overruled>>
      BY <1>3 DEF CancelUnverifiedPayment, invoiceVars
    <2>2. CASE payStatus' = payStatus
      BY <2>1, <2>2, LedgerStutters
    <2>3. CASE payStatus[p] = h[r].seen /\ payStatus' = [payStatus EXCEPT ![p] = "CANCELLED"]
      <3>1. payStatus[p] # "VERIFIED"
        BY <1>1, <1>3, <2>3 DEF HandlerKnows, CancelUnverifiedPayment
      <3> QED BY <1>1, <2>1, <2>3, <3>1, LedgerCloses
    <2> QED BY <1>3, <2>2, <2>3 DEF CancelUnverifiedPayment
  <1>4. CASE RejectPayment(r, p)
    <2>1. UNCHANGED <<payInvoice, paid, total>>
      BY <1>4 DEF RejectPayment, invoiceVars
    <2>2. CASE payStatus[p] = "VERIFIED"
      BY <1>1, <1>4, <2>1, <2>2, LedgerStrikes DEF RejectPayment
    <2>3. CASE payStatus[p] # "VERIFIED"
      BY <1>1, <1>4, <2>1, <2>3, LedgerCloses DEF RejectPayment
    <2> QED BY <2>2, <2>3
  <1> QED BY <1>2, <1>3, <1>4 DEF PaymentRequest

(* Creating an invoice finds nothing paid on it. *)
LEMMA CreationPaysNothing ==
    ASSUME IInv, NEW i \in Invoice, NEW t, NEW due, CreateInvoice(i, t, due)
    PROVE  paid' = paid
  <1>1. TypeOK /\ RowsExist /\ BalanceExact
    BY DEF IInv
  <1>2. VerifiedOf(i) = {} /\ Undisturbed(i)
    BY <1>1 DEF RowsExist, VerifiedOf, Undisturbed, CreateInvoice, TypeOK
  <1>3. paid[i] = AmountOf({})
    BY <1>1, <1>2 DEF BalanceExact
  <1> QED BY <1>1, <1>3 DEF CreateInvoice, TypeOK

(* Creating an invoice changes its total, and no balance. *)
LEMMA RefineCreateInvoice ==
    ASSUME IInv, NEW i \in Invoice, NEW t, NEW due, CreateInvoice(i, t, due)
    PROVE  Ledger!Next
  BY CreationPaysNothing, LedgerCharges DEF CreateInvoice, IInv, paymentVars

(* A new payment is neither verified nor closed, and none was overruled    *)
(* before it existed.                                                      *)
LEMMA RefineCreatePayment ==
    ASSUME IInv, NEW r \in Handler, NEW i \in Invoice, NEW p \in Payment,
           CreatePayment(r, i, p)
    PROVE  UNCHANGED Ledger!vars
  <1>1. TypeOK /\ RowsExist
    BY DEF IInv
  <1>2. p \notin overruled
    BY <1>1 DEF RowsExist, CreatePayment
  <1>3. Book' = Book /\ Closed' = Closed
    BY <1>1 DEF TypeOK, CreatePayment, Book, Closed
  <1>4. overruled' = overruled /\ \A q \in overruled : payInvoice'[q] = payInvoice[q]
    BY <1>1, <1>2 DEF TypeOK, CreatePayment
  <1>5. Disturbed' = Disturbed
    BY <1>4 DEF Disturbed
  <1> QED BY <1>3, <1>5 DEF CreatePayment, invoiceVars, Ledger!vars

LEMMA RefineTransact ==
    ASSUME IInv, IInv', VerifyWithin, NEW r \in Handler, Transact(r)
    PROVE  [Ledger!Next]_(Ledger!vars)
  <1>1. CASE LockInvoice(r) \/ ClaimPayment(r) \/ SumPayments(r)
    BY <1>1, LedgerStutters DEF LockInvoice, ClaimPayment, SumPayments, invoiceVars, paymentVars
  <1> QED BY <1>1, LedgerSettles, LedgerReverses DEF Transact

LEMMA RefineStep ==
    IInv /\ IInv' /\ VerifyWithin /\ [Next]_vars => [Ledger!Next]_(Ledger!vars)
  <1> SUFFICES ASSUME IInv, IInv', VerifyWithin, [Next]_vars
               PROVE  [Ledger!Next]_(Ledger!vars)
    OBVIOUS
  <1>1. TypeOK
    BY DEF IInv
  <1>2. ASSUME NEW i \in Invoice, SyncOverdueInvoice(i) \/ DueDatePasses(i)
        PROVE  UNCHANGED Ledger!vars
    BY <1>2, LedgerStutters DEF SyncOverdueInvoice, DueDatePasses, paymentVars
  <1>3. ASSUME NEW r \in Handler, Abandon(r) \/ \E i \in Invoice : CreatePaymentRead(r, i)
        PROVE  UNCHANGED Ledger!vars
    BY <1>3, LedgerStutters DEF Abandon, CreatePaymentRead, invoiceVars, paymentVars
  <1>4. CASE UNCHANGED vars
    BY <1>4, LedgerStutters DEF vars
  <1> QED
    BY <1>1, <1>2, <1>3, <1>4, RefineCreateInvoice, RefineInvoiceRequest, RefineCreatePayment,
       RefinePaymentRequest, RefineTransact DEF Next

LEMMA RefineInit == Init => VerifyWithin /\ Ledger!Init
  <1> SUFFICES ASSUME Init PROVE VerifyWithin /\ Ledger!Init
    OBVIOUS
  <1>1. VerifyWithin
    BY DEF Init, VerifyWithin, Idle
  <1>2. Ledger!Init
    BY DEF Init, Ledger!Init, Book, Closed, Disturbed
  <1> QED BY <1>1, <1>2

(* Every behaviour of the requests is one of the ledger. *)
THEOREM LedgerImplemented == Spec => ImplementsLedger
  <1>1. IInv => TypeOK
    BY DEF IInv
  <1> QED
    BY <1>1, InitInv, InvStep, RefineInit, WithinStep, RefineStep, PTL
    DEF Spec, ImplementsLedger, Ledger!Spec

-----------------------------------------------------------------------------
(* CancelledReopens.                                                       *)

(* No verification is about to commit on a cancelled invoice: it has seen  *)
(* under the lock that the invoice is not, and CANCELLED is written only   *)
(* while nobody holds the lock.                                            *)
VerifyCollectable ==
    \A r \in Handler :
        h[r].at = "commit" /\ h[r].op = "verify" => invStatus[h[r].inv] # "CANCELLED"

(* What a step may do to the status of an invoice.                         *)
LEMMA CancelledUnlocked ==
    ASSUME TypeOK, Next, NEW i \in Invoice, invStatus'[i] = "CANCELLED", invStatus[i] # "CANCELLED"
    PROVE  ~InvoiceLocked(i)
  <1>1. ASSUME NEW r \in Handler, NEW j \in Invoice, InvoiceRequest(r, j)
        PROVE  ~InvoiceLocked(i)
    BY <1>1
    DEF TypeOK, InvoiceRequest, ReadDraft, UpdateInvoice, DeleteInvoice, IssueInvoice,
        CancelInvoiceRead, CancelInvoiceCount, CancelInvoice, WritesInvoice, invoiceVars
  <1>2. ASSUME NEW j \in Invoice, NEW t, NEW due,
               CreateInvoice(j, t, due) \/ SyncOverdueInvoice(j) \/ DueDatePasses(j)
        PROVE  FALSE
    BY <1>2 DEF TypeOK, CreateInvoice, SyncOverdueInvoice, DueDatePasses
  <1>3. ASSUME NEW r \in Handler, NEW j \in Invoice, NEW p \in Payment,
               VerifyPaymentCommit(r, j, p) \/ CancelPaymentCommit(r, j, p)
        PROVE  FALSE
    BY <1>3
    DEF TypeOK, VerifyPaymentCommit, CancelPaymentCommit, StatusAfterVerification,
        StatusAfterCancellation
  <1>4. ASSUME NEW r \in Handler,
               \/ LockInvoice(r) \/ ClaimPayment(r) \/ SumPayments(r) \/ Abandon(r)
               \/ \E j \in Invoice : CreatePaymentRead(r, j)
               \/ \E j \in Invoice, p \in Payment : CreatePayment(r, j, p)
               \/ \E p \in Payment : PaymentRequest(r, p)
        PROVE  FALSE
    BY <1>4
    DEF LockInvoice, ClaimPayment, SumPayments, Abandon, CreatePaymentRead, CreatePayment,
        PaymentRequest, VerifyPaymentRead, CancelPaymentRead, RejectPaymentRead,
        CancelUnverifiedPayment, RejectPayment, invoiceVars
  <1>5. \A r \in Handler : ~Transact(r)
    BY <1>3, <1>4 DEF Transact
  <1> QED BY <1>1, <1>2, <1>4, <1>5 DEF Next

(* A verification comes to its commit only by finding the payment          *)
(* acceptable.                                                             *)
LEMMA CommitsAcceptable ==
    ASSUME TypeOK, Next, NEW r \in Handler, h'[r].at = "commit", h'[r].op = "verify",
           h[r] # h'[r]
    PROVE  /\ invStatus[h[r].inv] # "CANCELLED" /\ invStatus' = invStatus
           /\ h'[r].inv = h[r].inv
  <1>1. ASSUME NEW q \in Handler, \A s \in Handler \ {q} : h'[s] = h[s], h'[q].at # "commit"
        PROVE  FALSE
    BY <1>1
  <1>2. ASSUME NEW q \in Handler, Finish(q) PROVE FALSE
    BY <1>1, <1>2 DEF TypeOK, Finish, Idle
  <1>3. ASSUME NEW q \in Handler, NEW s \in Statement \ {"commit"}, Goto(q, s) PROVE FALSE
    <2>1. Goto(q, s) \/ Finish(q)
      BY <1>3
    <2>2. (\A t \in Handler \ {q} : h'[t] = h[t]) /\ h'[q].at \in {s, "idle"}
      BY <2>1, GotoMoves
    <2> QED BY <1>1, <2>2
  <1>4. ASSUME NEW q \in Handler, NEW i \in Invoice, InvoiceRequest(q, i)
        PROVE  FALSE
    <2>1. CASE CancelInvoiceCount(q, i)
      BY <1>2, <1>3, <2>1 DEF CancelInvoiceCount, Statement
    <2>2. ASSUME CancelInvoiceRead(q, i) \/ \E op \in {"update", "delete", "issue"} : ReadDraft(q, i, op)
          PROVE  FALSE
      BY <1>1, <2>2 DEF CancelInvoiceRead, ReadDraft, Idle, TypeOK
    <2> QED
      BY <1>2, <1>4, <2>1, <2>2
      DEF InvoiceRequest, UpdateInvoice, DeleteInvoice, IssueInvoice, CancelInvoice, WritesInvoice
  <1>5. ASSUME NEW i \in Invoice, NEW t, NEW due,
               CreateInvoice(i, t, due) \/ SyncOverdueInvoice(i) \/ DueDatePasses(i)
        PROVE  FALSE
    BY <1>5 DEF CreateInvoice, SyncOverdueInvoice, DueDatePasses
  <1>6. ASSUME NEW q \in Handler, NEW p \in Payment, PaymentRequest(q, p)
        PROVE  FALSE
    <2>1. \/ Finish(q)
          \/ \E op, seen : \E s \in {"lock", "payWrite"} : Begin(q, p, op, seen, s)
      BY <1>6 DEF PaymentRequest, VerifyPaymentRead, CancelPaymentRead, RejectPaymentRead,
                  CancelUnverifiedPayment, RejectPayment
    <2>2. ASSUME NEW op, NEW seen, NEW s \in {"lock", "payWrite"}, Begin(q, p, op, seen, s)
          PROVE  FALSE
      <3>1. (\A t \in Handler \ {q} : h'[t] = h[t]) /\ h'[q].at = s
        BY <2>2, BeginMoves
      <3> QED BY <1>1, <3>1
    <2> QED BY <1>2, <2>1, <2>2
  <1>7. ASSUME NEW q \in Handler, NEW i \in Invoice, CreatePaymentRead(q, i)
        PROVE  FALSE
    BY <1>1, <1>7 DEF CreatePaymentRead, Idle, TypeOK
  <1>8. ASSUME NEW q \in Handler, NEW i \in Invoice, NEW p \in Payment,
               \/ CreatePayment(q, i, p) \/ Abandon(q)
               \/ VerifyPaymentCommit(q, i, p) \/ CancelPaymentCommit(q, i, p)
        PROVE  FALSE
    BY <1>2, <1>8 DEF CreatePayment, Abandon, VerifyPaymentCommit, CancelPaymentCommit
  <1>9. ASSUME NEW q \in Handler, Abandon(q) PROVE FALSE
    BY <1>2, <1>9 DEF Abandon
  <1>10. ASSUME NEW q \in Handler, LockInvoice(q) \/ ClaimPayment(q) PROVE FALSE
    BY <1>2, <1>3, <1>10 DEF LockInvoice, ClaimPayment, Statement
  <1>11. ASSUME NEW q \in Handler, SumPayments(q), ~Finish(q)
         PROVE  /\ invStatus[h[r].inv] # "CANCELLED" /\ invStatus' = invStatus
                /\ h'[r].inv = h[r].inv
    <2>1. /\ ~(h[q].op = "verify" /\ ~Acceptable(q))
          /\ h' = [h EXCEPT ![q].at = "commit", ![q].sum = AmountOf(SeenVerified(q))]
      BY <1>11 DEF SumPayments
    <2> HIDE DEF SeenVerified
    <2>2. q = r /\ h'[r].op = h[r].op /\ h'[r].inv = h[r].inv
      BY <2>1 DEF TypeOK, HandlerState
    <2> QED BY <1>11, <2>1, <2>2 DEF SumPayments, Acceptable, invoiceVars
  <1>12. ASSUME NEW q \in Handler, Transact(q)
         PROVE  /\ invStatus[h[r].inv] # "CANCELLED" /\ invStatus' = invStatus
                /\ h'[r].inv = h[r].inv
    BY <1>2, <1>8, <1>10, <1>11, <1>12 DEF Transact
  <1> QED BY <1>4, <1>5, <1>6, <1>7, <1>8, <1>9, <1>12 DEF Next

LEMMA CollectableStep ==
    ASSUME IInv, IInv', VerifyCollectable, [Next]_vars
    PROVE  VerifyCollectable'
  <1> SUFFICES ASSUME Next, NEW r \in Handler, h'[r].at = "commit", h'[r].op = "verify",
                      invStatus'[h'[r].inv] = "CANCELLED"
               PROVE  FALSE
    BY DEF VerifyCollectable, vars
  <1>1. TypeOK /\ HandlerKnows(r)
    BY DEF IInv
  <1>2. h[r] = h'[r]
    BY <1>1, CommitsAcceptable
  <1>3. h[r].inv \in Invoice /\ invStatus[h[r].inv] # "CANCELLED"
    BY <1>1, <1>2 DEF VerifyCollectable, HandlerKnows
  <1>4. ~InvoiceLocked(h[r].inv)
    BY <1>1, <1>2, <1>3, CancelledUnlocked
  <1> QED BY <1>2, <1>4 DEF InvoiceLocked, HoldsInvoice

(* No verification resurrects a cancelled invoice, nor does the sync of    *)
(* overdue invoices: it is collected again only when a payment stranded on *)
(* it is cancelled, or when it is issued by a request that had read the    *)
(* draft it once was.                                                      *)
THEOREM CancelledIsNotResurrected == Spec => CancelledReopens
  <1>1. Init => VerifyCollectable
    BY DEF Init, VerifyCollectable, Idle
  <1>2. IInv /\ VerifyCollectable /\ [Next]_vars =>
          [\A i \in Invoice :
              invStatus[i] = "CANCELLED" /\ invStatus'[i] # "CANCELLED" =>
                  \/ \E p \in VerifiedOf(i) : payStatus'[p] = "CANCELLED"
                  \/ \E r \in Handler : IssueInvoice(r, i)]_vars
    <2> SUFFICES ASSUME IInv, VerifyCollectable, Next, NEW i \in Invoice,
                        invStatus[i] = "CANCELLED", invStatus'[i] # "CANCELLED"
                 PROVE  \/ \E p \in VerifiedOf(i) : payStatus'[p] = "CANCELLED"
                        \/ \E r \in Handler : IssueInvoice(r, i)
      OBVIOUS
    <2>1. TypeOK
      BY DEF IInv
    <2>2. ASSUME NEW r \in Handler, NEW j \in Invoice, InvoiceRequest(r, j)
          PROVE  IssueInvoice(r, i)
      <3>1. CASE IssueInvoice(r, j)
        <4>1. i = j
          BY <2>1, <3>1 DEF TypeOK, IssueInvoice
        <4> QED BY <3>1, <4>1
      <3>2. CASE ~IssueInvoice(r, j)
        BY <2>1, <2>2, <3>2
        DEF TypeOK, InvoiceRequest, ReadDraft, UpdateInvoice, DeleteInvoice, CancelInvoiceRead,
            CancelInvoiceCount, CancelInvoice, WritesInvoice, invoiceVars
      <3> QED BY <3>1, <3>2
    <2>3. ASSUME NEW j \in Invoice, NEW t, NEW due,
                 CreateInvoice(j, t, due) \/ SyncOverdueInvoice(j) \/ DueDatePasses(j)
          PROVE  FALSE
      BY <2>1, <2>3 DEF TypeOK, CreateInvoice, SyncOverdueInvoice, DueDatePasses, Overdue
    <2>4. ASSUME NEW r \in Handler,
                 \/ LockInvoice(r) \/ ClaimPayment(r) \/ SumPayments(r) \/ Abandon(r)
                 \/ \E j \in Invoice : CreatePaymentRead(r, j)
                 \/ \E j \in Invoice, p \in Payment : CreatePayment(r, j, p)
                 \/ \E p \in Payment : PaymentRequest(r, p)
          PROVE  FALSE
      BY <2>4
      DEF LockInvoice, ClaimPayment, SumPayments, Abandon, CreatePaymentRead, CreatePayment,
          PaymentRequest, VerifyPaymentRead, CancelPaymentRead, RejectPaymentRead,
          CancelUnverifiedPayment, RejectPayment, invoiceVars
    <2>5. ASSUME NEW r \in Handler, NEW j \in Invoice, NEW p \in Payment,
                 VerifyPaymentCommit(r, j, p)
          PROVE  FALSE
      BY <2>1, <2>5 DEF TypeOK, VerifyPaymentCommit, VerifyCollectable
    <2>6. ASSUME NEW r \in Handler, NEW j \in Invoice, NEW p \in Payment,
                 CancelPaymentCommit(r, j, p)
          PROVE  \E q \in VerifiedOf(i) : payStatus'[q] = "CANCELLED"
      <3>1. i = j /\ h[r].inv = i /\ h[r].pay = p /\ payStatus'[p] = "CANCELLED"
        BY <2>1, <2>6 DEF TypeOK, CancelPaymentCommit
      <3>2. payStatus[p] = "VERIFIED" /\ payInvoice[p] = i
        BY <2>6, <3>1 DEF IInv, HandlerKnows, CancelPaymentCommit
      <3> QED BY <3>1, <3>2 DEF VerifiedOf
    <2>7. ASSUME NEW r \in Handler, Transact(r)
          PROVE  \E q \in VerifiedOf(i) : payStatus'[q] = "CANCELLED"
      BY <2>4, <2>5, <2>6, <2>7 DEF Transact
    <2> QED BY <2>2, <2>3, <2>4, <2>7 DEF Next
  <1>3. IInv /\ IInv' /\ VerifyCollectable /\ [Next]_vars => VerifyCollectable'
    BY CollectableStep
  <1> QED BY <1>1, <1>2, <1>3, InitInv, InvStep, PTL DEF Spec, CancelledReopens

-----------------------------------------------------------------------------
(* What AmountOf computes.  SumFunctionOnSet adds the amounts up in an     *)
(* order of its own; that the order does not matter for a finite set of    *)
(* payments is what AmountRemove says.                                     *)
Any(s) == CHOOSE x \in s : TRUE
AddsAt(g, s) == g[s] = IF s = {} THEN 0 ELSE Amount[Any(s)] + g[s \ {Any(s)}]
Adds(g, S) == \A s \in SUBSET S : AddsAt(g, s)
Iter(S) == CHOOSE g : g = [s \in SUBSET S |-> IF s = {} THEN 0
                                              ELSE Amount[Any(s)] + g[s \ {Any(s)}]]

LEMMA AmountIter == \A S : AmountOf(S) = Iter(S)[S]
  BY DEF AmountOf, Iter, SumFunctionOnSet, FoldFunctionOnSet, MapThenFoldSet, Any

LEMMA AnyIn == \A s : s # {} => Any(s) \in s
  BY DEF Any

(* A set of natural numbers has a least one. *)
LEMMA LeastNatural ==
    ASSUME NEW T \in SUBSET Nat, T # {}
    PROVE  \E m \in T : \A n \in T : m <= n
  <1> DEFINE F == {0..n : n \in T}
  <1>1. F \subseteq FiniteSubsetsOf(Nat) /\ F # {}
    <2>1. \A n \in T : 0..n \in SUBSET Nat /\ IsFiniteSet(0..n)
      BY FS_Interval
    <2> QED BY <2>1 DEF FiniteSubsetsOf
  <1>2. PICK X \in F : \A Y \in F : <<Y, X>> \notin StrictSubsetOrdering(Nat)
    <2> HIDE DEF F
    <2> QED BY <1>1, FS_StrictSubsetOrderingWellFounded, WFMin
  <1>3. PICK m \in T : X = 0..m
    OBVIOUS
  <1>4. ASSUME NEW n \in T, n < m PROVE FALSE
    <2>1. m \in Nat /\ n \in Nat
      OBVIOUS
    <2>2. 0..n \subseteq 0..m /\ 0..n # 0..m /\ 0..n \in SUBSET Nat /\ 0..m \in SUBSET Nat
      <3>1. m \in 0..m /\ m \notin 0..n
        BY <1>4, <2>1
      <3>2. \A x \in 0..n : x \in 0..m
        BY <1>4, <2>1
      <3> QED BY <2>1, <3>1, <3>2
    <2>3. <<0..n, 0..m>> \in StrictSubsetOrdering(Nat)
      BY <2>2 DEF StrictSubsetOrdering
    <2> QED BY <1>2, <1>3, <2>3
  <1> QED BY <1>4

(* Of some subsets of a finite set, one has no other in it. *)
LEMMA SmallestSet ==
    ASSUME NEW S, IsFiniteSet(S), NEW B \in SUBSET (SUBSET S), B # {}
    PROVE  \E s \in B : \A t \in B : t \subseteq s => t = s
  <1>1. B \subseteq FiniteSubsetsOf(S)
    BY FS_Subset DEF FiniteSubsetsOf
  <1>2. PICK s \in B : \A t \in B : <<t, s>> \notin StrictSubsetOrdering(S)
    BY <1>1, FS_StrictSubsetOrderingWellFounded, WFMin
  <1>3. \A t \in B : t \subseteq s => t = s
    BY <1>2 DEF StrictSubsetOrdering
  <1> QED BY <1>3

(* Sums of up to any number of payments exist, ... *)
LEMMA AddsUpTo ==
    ASSUME NEW S \in SUBSET Payment, IsFiniteSet(S)
    PROVE  \A n \in Nat : \E g \in [SUBSET S -> Nat] : \A s \in SUBSET S :
              Cardinality(s) <= n => AddsAt(g, s)
  <1> DEFINE P(n) == \E g \in [SUBSET S -> Nat] : \A s \in SUBSET S :
                       Cardinality(s) <= n => AddsAt(g, s)
             Bad == {n \in Nat : ~P(n)}
  <1>0. \A s \in SUBSET S : IsFiniteSet(s) /\ Cardinality(s) \in Nat
    BY FS_Subset, FS_CardinalityType
  <1>1. P(0)
    <2> DEFINE g == [s \in SUBSET S |-> 0]
    <2>1. \A s \in SUBSET S : Cardinality(s) <= 0 => AddsAt(g, s)
      <3> SUFFICES ASSUME NEW s \in SUBSET S, Cardinality(s) <= 0 PROVE AddsAt(g, s)
        OBVIOUS
      <3>1. Cardinality(s) = 0
        BY <1>0
      <3>2. s = {}
        BY <1>0, <3>1, FS_EmptySet
      <3> QED BY <3>2 DEF AddsAt
    <2>2. g \in [SUBSET S -> Nat]
      OBVIOUS
    <2> QED BY <2>1, <2>2
  <1>2. ASSUME NEW n \in Nat, P(n) PROVE P(n + 1)
    <2>1. PICK g \in [SUBSET S -> Nat] : \A s \in SUBSET S : Cardinality(s) <= n => AddsAt(g, s)
      BY <1>2
    <2> DEFINE f == [s \in SUBSET S |-> IF s = {} THEN 0 ELSE Amount[Any(s)] + g[s \ {Any(s)}]]
    <2>2. f \in [SUBSET S -> Nat]
      <3> SUFFICES ASSUME NEW s \in SUBSET S, s # {}
                   PROVE  Amount[Any(s)] + g[s \ {Any(s)}] \in Nat
        OBVIOUS
      <3>1. Any(s) \in S /\ s \ {Any(s)} \in SUBSET S
        BY AnyIn
      <3>2. Amount[Any(s)] \in Nat /\ g[s \ {Any(s)}] \in Nat
        BY <3>1, AmountAssumption
      <3> QED BY <3>2
    <2>3. ASSUME NEW s \in SUBSET S, Cardinality(s) <= n + 1 PROVE AddsAt(f, s)
      <3>1. CASE s = {}
        BY <3>1 DEF AddsAt
      <3>2. CASE s # {}
        <4> DEFINE t == s \ {Any(s)}
        <4>1. Any(s) \in s
          BY <3>2, AnyIn
        <4>2. t \in SUBSET S /\ Cardinality(t) = Cardinality(s) - 1
          BY <1>0, <4>1, FS_RemoveElement
        <4>3. Cardinality(t) <= n
          BY <1>0, <2>3, <4>2
        <4>4. AddsAt(g, t)
          BY <2>1, <4>2, <4>3
        <4>5. f[t] = g[t]
          BY <4>2, <4>4 DEF AddsAt
        <4> QED BY <3>2, <4>5 DEF AddsAt
      <3> QED BY <3>1, <3>2
    <2> HIDE DEF f
    <2> QED BY <2>2, <2>3
  <1> HIDE DEF P
  <1>3. Bad = {}
    <2> SUFFICES ASSUME Bad # {} PROVE FALSE
      OBVIOUS
    <2>1. PICK m \in Bad : \A n \in Bad : m <= n
      BY LeastNatural
    <2>2. m \in Nat /\ ~P(m) /\ m # 0
      BY <1>1
    <2>3. m - 1 \in Nat /\ m - 1 \notin Bad
      BY <2>1, <2>2
    <2>4. P((m - 1) + 1)
      BY <1>2, <2>3
    <2>5. (m - 1) + 1 = m
      BY <2>2
    <2> QED BY <2>2, <2>4, <2>5
  <1>4. \A n \in Nat : P(n)
    BY <1>3
  <1> QED BY <1>4 DEF P

(* ... hence the one that SumFunctionOnSet goes by. *)
LEMMA IterAdds ==
    ASSUME NEW S \in SUBSET Payment, IsFiniteSet(S)
    PROVE  Adds(Iter(S), S) /\ Iter(S) \in [SUBSET S -> Nat]
  <1>1. \A s \in SUBSET S : Cardinality(s) <= Cardinality(S) /\ Cardinality(S) \in Nat
    BY FS_Subset, FS_CardinalityType
  <1>2. PICK g \in [SUBSET S -> Nat] : \A s \in SUBSET S :
            Cardinality(s) <= Cardinality(S) => AddsAt(g, s)
    <2>1. Cardinality(S) \in Nat
      BY FS_CardinalityType
    <2> QED BY <2>1, AddsUpTo
  <1>3. g = [s \in SUBSET S |-> IF s = {} THEN 0 ELSE Amount[Any(s)] + g[s \ {Any(s)}]]
    BY <1>1, <1>2 DEF AddsAt
  <1>4. Iter(S) = [s \in SUBSET S |-> IF s = {} THEN 0
                                      ELSE Amount[Any(s)] + Iter(S)[s \ {Any(s)}]]
    BY <1>3 DEF Iter
  <1> HIDE DEF Iter
  <1> DEFINE i == Iter(S)
  <1>5. i = [s \in SUBSET S |-> IF s = {} THEN 0 ELSE Amount[Any(s)] + i[s \ {Any(s)}]]
    BY <1>4
  <1> HIDE DEF i
  <1>6. Adds(i, S)
    BY <1>5 DEF Adds, AddsAt
  <1>7. \A s \in SUBSET S : i[s] = g[s]
    <2> DEFINE Bad == {s \in SUBSET S : i[s] # g[s]}
    <2> SUFFICES ASSUME Bad # {} PROVE FALSE
      OBVIOUS
    <2>1. PICK s \in Bad : \A t \in Bad : t \subseteq s => t = s
      <3>1. Bad \in SUBSET (SUBSET S)
        OBVIOUS
      <3> HIDE DEF Bad
      <3> QED BY <3>1, SmallestSet
    <2>2. AddsAt(i, s) /\ AddsAt(g, s)
      BY <1>1, <1>2, <1>6 DEF Adds
    <2>3. s # {}
      BY <2>2 DEF AddsAt
    <2>4. Any(s) \in s /\ s \ {Any(s)} \in SUBSET S
      BY <2>3, AnyIn
    <2>5. i[s \ {Any(s)}] = g[s \ {Any(s)}]
      BY <2>1, <2>4
    <2> QED BY <2>2, <2>5 DEF AddsAt
  <1>8. i \in [SUBSET S -> Nat]
    <2>1. i = [s \in SUBSET S |-> i[s]]
      BY <1>5
    <2> QED BY <1>7, <2>1
  <1> QED BY <1>6, <1>8 DEF i

(* Two such sums agree on what they have in common. *)
LEMMA IterAgree ==
    ASSUME NEW S \in SUBSET Payment, IsFiniteSet(S), NEW T \in SUBSET S
    PROVE  \A s \in SUBSET T : Iter(S)[s] = Iter(T)[s]
  <1>1. IsFiniteSet(T) /\ Adds(Iter(S), S) /\ Adds(Iter(T), T)
    BY FS_Subset, IterAdds
  <1> HIDE DEF Iter
  <1> DEFINE Bad == {s \in SUBSET T : Iter(S)[s] # Iter(T)[s]}
  <1> SUFFICES ASSUME Bad # {} PROVE FALSE
    OBVIOUS
  <1>2. PICK s \in Bad : \A t \in Bad : t \subseteq s => t = s
    <2>1. Bad \in SUBSET (SUBSET T)
      OBVIOUS
    <2> HIDE DEF Bad
    <2> QED BY <1>1, <2>1, SmallestSet
  <1>3. AddsAt(Iter(S), s) /\ AddsAt(Iter(T), s)
    BY <1>1 DEF Adds
  <1>4. s # {}
    BY <1>3 DEF AddsAt
  <1>5. Any(s) \in s /\ s \ {Any(s)} \in SUBSET T
    BY <1>4, AnyIn
  <1>6. Iter(S)[s \ {Any(s)}] = Iter(T)[s \ {Any(s)}]
    BY <1>2, <1>5
  <1> QED BY <1>3, <1>6 DEF AddsAt

(* The order does not matter: any payment may be taken out first. *)
LEMMA IterRemove ==
    ASSUME NEW S \in SUBSET Payment, IsFiniteSet(S)
    PROVE  \A s \in SUBSET S : \A p \in s : Iter(S)[s] = Amount[p] + Iter(S)[s \ {p}]
  <1> DEFINE g == Iter(S)
  <1>0. Adds(g, S) /\ g \in [SUBSET S -> Nat]
    BY IterAdds
  <1> HIDE DEF g
  <1> DEFINE Bad == {s \in SUBSET S : \E p \in s : g[s] # Amount[p] + g[s \ {p}]}
  <1> SUFFICES ASSUME Bad # {} PROVE FALSE
    BY DEF g
  <1>1. PICK s \in Bad : \A t \in Bad : t \subseteq s => t = s
    <2>1. Bad \in SUBSET (SUBSET S)
      OBVIOUS
    <2> HIDE DEF Bad
    <2> QED BY <2>1, SmallestSet
  <1>2. PICK p \in s : g[s] # Amount[p] + g[s \ {p}]
    OBVIOUS
  <1>3. PICK x \in s : x = Any(s)
    BY AnyIn
  <1>4. g[s] = Amount[x] + g[s \ {x}]
    BY <1>0, <1>3 DEF Adds, AddsAt
  <1>5. x # p
    BY <1>2, <1>4
  <1>6. s \ {x} \notin Bad /\ s \ {p} \notin Bad
    BY <1>1
  <1>7. s \ {x} \in SUBSET S /\ s \ {p} \in SUBSET S /\ p \in s \ {x} /\ x \in s \ {p}
    BY <1>5
  <1>8. g[s \ {x}] = Amount[p] + g[(s \ {x}) \ {p}]
    BY <1>6, <1>7
  <1>9. g[s \ {p}] = Amount[x] + g[(s \ {p}) \ {x}]
    BY <1>6, <1>7
  <1>10. (s \ {x}) \ {p} = (s \ {p}) \ {x} /\ (s \ {p}) \ {x} \in SUBSET S
    OBVIOUS
  <1>11. g[(s \ {p}) \ {x}] \in Nat /\ Amount[p] \in Nat /\ Amount[x] \in Nat
    BY <1>0, <1>10, AmountAssumption
  <1>12. PICK u \in Nat, v \in Nat, w \in Nat :
            u = g[(s \ {p}) \ {x}] /\ v = Amount[p] /\ w = Amount[x]
    BY <1>11
  <1>13. g[s] = w + (v + u) /\ g[s \ {p}] = w + u
    BY <1>4, <1>8, <1>9, <1>10, <1>12
  <1>14. w + (v + u) = v + (w + u)
    OBVIOUS
  <1>15. g[s] = Amount[p] + g[s \ {p}]
    BY <1>12, <1>13, <1>14
  <1> QED BY <1>2, <1>15

(* AmountOf is a sum: a natural number, 0 for no payments, and made of any *)
(* payment of the set and what the others are worth.                       *)
LEMMA AmountRemove ==
    ASSUME NEW S \in SUBSET Payment, IsFiniteSet(S)
    PROVE  /\ AmountOf(S) \in Nat
           /\ \A p \in S : AmountOf(S) = Amount[p] + AmountOf(S \ {p})
  <1>1. AmountOf(S) = Iter(S)[S]
    BY AmountIter
  <1>2. AmountOf(S) \in Nat
    <2>1. S \in SUBSET S /\ Iter(S) \in [SUBSET S -> Nat]
      BY IterAdds
    <2> QED BY <1>1, <2>1
  <1>3. ASSUME NEW p \in S PROVE AmountOf(S) = Amount[p] + AmountOf(S \ {p})
    <2>1. Iter(S)[S] = Amount[p] + Iter(S)[S \ {p}]
      BY IterRemove
    <2>2. Iter(S)[S \ {p}] = Iter(S \ {p})[S \ {p}]
      BY IterAgree
    <2>3. AmountOf(S \ {p}) = Iter(S \ {p})[S \ {p}]
      BY AmountIter
    <2> QED BY <1>1, <2>1, <2>2, <2>3
  <1> QED BY <1>2, <1>3

LEMMA AmountOfNone == AmountOf({}) = 0
  <1>1. Adds(Iter({}), {})
    BY IterAdds, FS_EmptySet
  <1>2. Iter({})[{}] = 0
    BY <1>1 DEF Adds, AddsAt
  <1> QED BY <1>2, AmountIter

-----------------------------------------------------------------------------
(* How the balance is bounded, also on an invoice a rejection has          *)
(* disturbed: it covers what is verified.  A cancellation commits no more  *)
(* than the balance it replaces, a verification on an invoice that is not  *)
(* deleted.  Only finitely many payments exist, so that what they are worth*)
(* is a sum.                                                               *)
Recorded == {p \in Payment : payStatus[p] # "NONE"}

BalanceCovers ==
    \A i \in Invoice : paid[i] \in Nat /\ AmountOf(VerifiedOf(i)) <= paid[i]

CommitCovers ==
    \A r \in Handler : h[r].at = "commit" =>
        /\ h[r].sum \in Nat /\ AmountOf(SeenVerified(r)) <= h[r].sum
        /\ h[r].op = "cancelPayment" => h[r].sum <= paid[h[r].inv]
        /\ h[r].op = "verify" => ~deleted[h[r].inv]

CoverInv ==
    /\ IsFiniteSet(Recorded)
    /\ BalanceCovers
    /\ CommitCovers

LEMMA VerifiedFinite ==
    ASSUME IsFiniteSet(Recorded)
    PROVE  /\ \A i : VerifiedOf(i) \in SUBSET Payment /\ IsFiniteSet(VerifiedOf(i))
           /\ \A r \in Handler : h[r].pay \in Payment =>
                 SeenVerified(r) \in SUBSET Payment /\ IsFiniteSet(SeenVerified(r))
  <1>1. \A i : VerifiedOf(i) \in SUBSET Payment /\ IsFiniteSet(VerifiedOf(i))
    <2> TAKE i
    <2>1. VerifiedOf(i) \in SUBSET Recorded /\ VerifiedOf(i) \in SUBSET Payment
      BY DEF VerifiedOf, Recorded
    <2> QED BY <2>1, FS_Subset
  <1>2. ASSUME NEW r \in Handler, h[r].pay \in Payment
        PROVE  SeenVerified(r) \in SUBSET Payment /\ IsFiniteSet(SeenVerified(r))
    <2> DEFINE V == VerifiedOf(h[r].inv)
    <2>1. V \in SUBSET Payment /\ IsFiniteSet(V)
      BY <1>1
    <2> HIDE DEF V
    <2>2. IsFiniteSet(V \cup {h[r].pay})
      BY <2>1, FS_AddElement
    <2>3. IsFiniteSet(V \ {h[r].pay})
      BY <2>1, FS_RemoveElement
    <2>4. SeenVerified(r) \in {V \cup {h[r].pay}, V \ {h[r].pay}}
      BY DEF SeenVerified, V
    <2> QED BY <1>2, <2>1, <2>2, <2>3, <2>4
  <1> QED BY <1>1, <1>2

(* Taking out a payment, or none, makes a set worth no more. *)
LEMMA AmountShrinks ==
    ASSUME NEW S \in SUBSET Payment, IsFiniteSet(S), NEW p
    PROVE  /\ AmountOf(S) \in Nat /\ AmountOf(S \ {p}) \in Nat
           /\ AmountOf(S \ {p}) <= AmountOf(S)
           /\ p \in S => AmountOf(S \ {p}) < AmountOf(S)
  <1>1. AmountOf(S) \in Nat
    BY AmountRemove
  <1>2. S \ {p} \in SUBSET Payment /\ IsFiniteSet(S \ {p})
    BY FS_RemoveElement
  <1>3. AmountOf(S \ {p}) \in Nat
    BY <1>2, AmountRemove
  <1>4. CASE p \in S
    <2>1. AmountOf(S) = Amount[p] + AmountOf(S \ {p})
      BY <1>4, AmountRemove
    <2>2. Amount[p] \in Nat \ {0}
      BY <1>4, AmountAssumption
    <2> QED BY <1>1, <1>3, <2>1, <2>2
  <1>5. CASE p \notin S
    <2>1. S \ {p} = S
      BY <1>5
    <2> QED BY <1>1, <1>5, <2>1
  <1> QED BY <1>4, <1>5

-----------------------------------------------------------------------------
(* A step that writes no balance and no verified payment, deletes no       *)
(* locked invoice, and moves handlers not to a commit.                     *)
LEMMA CoverUntouched ==
    ASSUME IInv, CoverInv, IsFiniteSet(Recorded)',
           \A i \in Invoice : paid'[i] = paid[i] /\ VerifiedOf(i)' = VerifiedOf(i),
           \A r \in Handler : h'[r].at = "commit" => h'[r] = h[r],
           \A i \in Invoice : InvoiceLocked(i) => deleted'[i] = deleted[i]
    PROVE  CoverInv'
  <1>1. BalanceCovers'
    BY DEF CoverInv, BalanceCovers, AmountOf
  <1>2. ASSUME NEW r \in Handler, h'[r].at = "commit"
        PROVE  /\ h'[r].sum \in Nat /\ AmountOf(SeenVerified(r))' <= h'[r].sum
               /\ h'[r].op = "cancelPayment" => h'[r].sum <= paid'[h'[r].inv]
               /\ h'[r].op = "verify" => ~deleted'[h'[r].inv]
    <2>1. h'[r] = h[r] /\ h[r].at = "commit" /\ h[r].inv \in Invoice
      BY <1>2 DEF IInv, HandlerKnows
    <2>2. /\ h[r].sum \in Nat /\ AmountOf(SeenVerified(r)) <= h[r].sum
          /\ h[r].op = "cancelPayment" => h[r].sum <= paid[h[r].inv]
          /\ h[r].op = "verify" => ~deleted[h[r].inv]
      BY <2>1 DEF CoverInv, CommitCovers
    <2>3. SeenVerified(r)' = SeenVerified(r)
      BY <2>1 DEF SeenVerified
    <2>4. AmountOf(SeenVerified(r))' = AmountOf(SeenVerified(r))
      BY <2>3 DEF AmountOf
    <2>5. InvoiceLocked(h[r].inv)
      BY <2>1 DEF InvoiceLocked, HoldsInvoice
    <2> QED BY <2>1, <2>2, <2>4, <2>5
  <1>3. CommitCovers'
    BY <1>2 DEF CommitCovers
  <1> QED BY <1>1, <1>3 DEF CoverInv

(* A payment that is taken out of VERIFIED without its invoice only leaves *)
(* the balances too high.                                                  *)
LEMMA CoverPaymentWrite ==
    ASSUME IInv, CoverInv, NEW r \in Handler, NEW p \in Payment, Finish(r),
           ~PaymentLocked(p), payStatus[p] # "NONE",
           NEW status, status # "VERIFIED", status # "NONE",
           payStatus' = [payStatus EXCEPT ![p] = status],
           UNCHANGED <<invoiceVars, payInvoice>>
    PROVE  CoverInv'
  <1>1. TypeOK /\ \A s \in Handler : HandlerKnows(s)
    BY DEF IInv
  <1>2. Recorded' = Recorded
    BY <1>1 DEF Recorded, TypeOK
  <1>3. \A i : VerifiedOf(i)' = VerifiedOf(i) \ {p}
    BY <1>1 DEF VerifiedOf, TypeOK
  <1>4. IsFiniteSet(Recorded)
    BY DEF CoverInv
  <1>5. BalanceCovers'
    <2> SUFFICES ASSUME NEW i \in Invoice
                 PROVE  paid'[i] \in Nat /\ AmountOf(VerifiedOf(i))' <= paid'[i]
      BY DEF BalanceCovers
    <2>1. paid'[i] = paid[i] /\ paid[i] \in Nat /\ AmountOf(VerifiedOf(i)) <= paid[i]
      BY DEF CoverInv, BalanceCovers, invoiceVars
    <2>2. AmountOf(VerifiedOf(i))' = AmountOf(VerifiedOf(i) \ {p})
      BY <1>3 DEF AmountOf
    <2>3. /\ AmountOf(VerifiedOf(i)) \in Nat /\ AmountOf(VerifiedOf(i) \ {p}) \in Nat
          /\ AmountOf(VerifiedOf(i) \ {p}) <= AmountOf(VerifiedOf(i))
      BY <1>4, VerifiedFinite, AmountShrinks
    <2> QED BY <2>1, <2>2, <2>3
  <1>6. CommitCovers'
    <2> SUFFICES ASSUME NEW s \in Handler, h'[s].at = "commit"
                 PROVE  /\ h'[s].sum \in Nat /\ AmountOf(SeenVerified(s))' <= h'[s].sum
                        /\ h'[s].op = "cancelPayment" => h'[s].sum <= paid'[h'[s].inv]
                        /\ h'[s].op = "verify" => ~deleted'[h'[s].inv]
      BY DEF CommitCovers
    <2>1. s # r /\ h'[s] = h[s]
      BY <1>1, FinishKnows DEF Idle
    <2>2. h[s].pay # p /\ h[s].pay \in Payment
      BY <1>1, <2>1 DEF PaymentLocked, HoldsPayment, HandlerKnows
    <2>3. /\ h[s].sum \in Nat /\ AmountOf(SeenVerified(s)) <= h[s].sum
          /\ h[s].op = "cancelPayment" => h[s].sum <= paid[h[s].inv]
          /\ h[s].op = "verify" => ~deleted[h[s].inv]
      BY <2>1 DEF CoverInv, CommitCovers
    <2>4. SeenVerified(s)' = SeenVerified(s) \ {p}
      BY <1>3, <2>1, <2>2 DEF SeenVerified
    <2>5. AmountOf(SeenVerified(s))' = AmountOf(SeenVerified(s) \ {p})
      BY <2>4 DEF AmountOf
    <2>6. /\ AmountOf(SeenVerified(s)) \in Nat /\ AmountOf(SeenVerified(s) \ {p}) \in Nat
          /\ AmountOf(SeenVerified(s) \ {p}) <= AmountOf(SeenVerified(s))
      BY <1>4, <2>2, VerifiedFinite, AmountShrinks
    <2>7. /\ h'[s].op = "cancelPayment" => h'[s].sum <= paid'[h'[s].inv]
          /\ h'[s].op = "verify" => ~deleted'[h'[s].inv]
      BY <2>1, <2>3 DEF invoiceVars
    <2> QED BY <2>1, <2>3, <2>5, <2>6, <2>7
  <1> QED BY <1>2, <1>4, <1>5, <1>6 DEF CoverInv

(* The sum a transaction takes under the locks. *)
LEMMA CoverSum ==
    ASSUME IInv, CoverInv, NEW r \in Handler, SumPayments(r)
    PROVE  CoverInv'
  <1>1. TypeOK /\ HandlerKnows(r) /\ IsFiniteSet(Recorded)
    BY DEF IInv, CoverInv
  <1>2. UNCHANGED <<invoiceVars, paymentVars>>
    BY DEF SumPayments
  <1>3. Recorded' = Recorded /\ \A i : VerifiedOf(i)' = VerifiedOf(i)
    BY <1>2 DEF Recorded, VerifiedOf, paymentVars
  <1>4. CASE Finish(r)
    <2>1. \A s \in Handler : h'[s].at = "commit" => h'[s] = h[s]
      BY <1>1, <1>4, FinishKnows DEF Idle
    <2> QED BY <1>1, <1>2, <1>3, <2>1, CoverUntouched DEF invoiceVars
  <1>5. CASE ~Finish(r)
    <2>1. /\ ~(h[r].op = "verify" /\ ~Acceptable(r))
          /\ h' = [h EXCEPT ![r].at = "commit", ![r].sum = AmountOf(SeenVerified(r))]
          /\ h[r].at = "sum"
      BY <1>5 DEF SumPayments
    <2> DEFINE seen == SeenVerified(r)
    <2> HIDE DEF seen
    <2>2. /\ h'[r].inv = h[r].inv /\ h'[r].pay = h[r].pay /\ h'[r].op = h[r].op
          /\ h'[r].sum = AmountOf(seen)
          /\ \A s \in Handler \ {r} : h'[s] = h[s]
      BY <1>1, <2>1 DEF TypeOK, HandlerState, seen
    <2>3. h[r].inv \in Invoice /\ h[r].pay \in Payment
      BY <1>1, <2>1 DEF HandlerKnows
    <2>4. seen \in SUBSET Payment /\ IsFiniteSet(seen)
      BY <1>1, <2>3, VerifiedFinite DEF seen
    <2>5. AmountOf(seen) \in Nat
      BY <2>4, AmountRemove
    <2>6. SeenVerified(r)' = seen
      BY <1>3, <2>2 DEF SeenVerified, seen
    <2>7. AmountOf(SeenVerified(r))' = AmountOf(seen)
      BY <2>6 DEF AmountOf
    <2>8. h[r].op = "cancelPayment" => AmountOf(seen) <= paid[h[r].inv]
      <3> SUFFICES ASSUME h[r].op = "cancelPayment" PROVE AmountOf(seen) <= paid[h[r].inv]
        OBVIOUS
      <3> DEFINE V == VerifiedOf(h[r].inv)
      <3>1. seen = V \ {h[r].pay}
        BY DEF seen, SeenVerified
      <3>2. paid[h[r].inv] \in Nat /\ AmountOf(V) <= paid[h[r].inv]
        BY <2>3 DEF CoverInv, BalanceCovers
      <3>3. V \in SUBSET Payment /\ IsFiniteSet(V)
        BY <1>1, VerifiedFinite
      <3> HIDE DEF V
      <3>4. AmountOf(V) \in Nat /\ AmountOf(V \ {h[r].pay}) <= AmountOf(V)
        BY <3>3, AmountShrinks
      <3>5. AmountOf(seen) <= AmountOf(V)
        BY <3>1, <3>4
      <3> QED BY <2>5, <3>2, <3>4, <3>5
    <2>9. h[r].op = "verify" => ~deleted[h[r].inv]
      BY <2>1 DEF Acceptable
    <2>10. ASSUME NEW s \in Handler \ {r}, h'[s].at = "commit"
           PROVE  /\ h'[s].sum \in Nat /\ AmountOf(SeenVerified(s))' <= h'[s].sum
                  /\ h'[s].op = "cancelPayment" => h'[s].sum <= paid'[h'[s].inv]
                  /\ h'[s].op = "verify" => ~deleted'[h'[s].inv]
      <3>1. h'[s] = h[s]
        BY <2>2
      <3>2. SeenVerified(s)' = SeenVerified(s)
        BY <1>3, <3>1 DEF SeenVerified
      <3>3. AmountOf(SeenVerified(s))' = AmountOf(SeenVerified(s))
        BY <3>2 DEF AmountOf
      <3> QED BY <1>2, <2>10, <3>1, <3>3 DEF CoverInv, CommitCovers, invoiceVars
    <2>11. CommitCovers'
      <3>1. /\ h'[r].sum \in Nat /\ AmountOf(SeenVerified(r))' <= h'[r].sum
            /\ h'[r].op = "cancelPayment" => h'[r].sum <= paid'[h'[r].inv]
            /\ h'[r].op = "verify" => ~deleted'[h'[r].inv]
        BY <1>2, <2>2, <2>5, <2>7, <2>8, <2>9 DEF invoiceVars
      <3> QED BY <2>10, <3>1 DEF CommitCovers
    <2>12. BalanceCovers'
      BY <1>2, <1>3 DEF CoverInv, BalanceCovers, AmountOf, invoiceVars
    <2> QED BY <1>1, <1>3, <2>11, <2>12 DEF CoverInv
  <1> QED BY <1>4, <1>5

(* A commit writes the balance its handler has summed up; nobody else is   *)
(* about to commit on the invoice.                                         *)
LEMMA CoverCommit ==
    ASSUME IInv, CoverInv, NEW r \in Handler, NEW i \in Invoice, NEW p \in Payment,
           VerifyPaymentCommit(r, i, p) \/ CancelPaymentCommit(r, i, p)
    PROVE  CoverInv'
  <1>1. TypeOK /\ LockExclusion /\ \A s \in Handler : HandlerKnows(s)
    BY DEF IInv
  <1>2. /\ h[r].at = "commit" /\ h[r].inv = i /\ h[r].pay = p /\ Finish(r)
        /\ paid' = [paid EXCEPT ![i] = h[r].sum]
        /\ UNCHANGED <<payInvoice, deleted>>
    BY DEF VerifyPaymentCommit, CancelPaymentCommit
  <1>3. payInvoice[p] = i /\ payStatus[p] # "NONE"
    BY <1>1, <1>2 DEF HandlerKnows
  <1>4. /\ \A q \in Payment : q # p => payStatus'[q] = payStatus[q]
        /\ payStatus'[p] = IF h[r].op = "verify" THEN "VERIFIED" ELSE "CANCELLED"
    <2>1. CASE VerifyPaymentCommit(r, i, p)
      BY <1>1, <2>1 DEF VerifyPaymentCommit, TypeOK
    <2>2. CASE CancelPaymentCommit(r, i, p)
      BY <1>1, <2>2 DEF CancelPaymentCommit, TypeOK
    <2> QED BY <2>1, <2>2
  <1>5. Recorded' = Recorded /\ IsFiniteSet(Recorded)
    BY <1>3, <1>4 DEF Recorded, CoverInv
  <1>6. VerifiedOf(i)' = SeenVerified(r)
    BY <1>2, <1>3, <1>4 DEF VerifiedOf, SeenVerified
  <1>7. \A j \in Invoice : j # i => VerifiedOf(j)' = VerifiedOf(j)
    BY <1>2, <1>3, <1>4 DEF VerifiedOf
  <1>8. h[r].sum \in Nat /\ AmountOf(SeenVerified(r)) <= h[r].sum
    BY <1>2 DEF CoverInv, CommitCovers
  <1>9. BalanceCovers'
    <2>1. paid'[i] \in Nat /\ AmountOf(VerifiedOf(i))' <= paid'[i]
      BY <1>1, <1>2, <1>6, <1>8 DEF TypeOK, AmountOf
    <2>2. \A j \in Invoice : j # i => paid'[j] \in Nat /\ AmountOf(VerifiedOf(j))' <= paid'[j]
      BY <1>1, <1>2, <1>7 DEF TypeOK, AmountOf, CoverInv, BalanceCovers
    <2> QED BY <2>1, <2>2 DEF BalanceCovers
  <1>10. ASSUME NEW s \in Handler, h'[s].at = "commit"
         PROVE  /\ h'[s].sum \in Nat /\ AmountOf(SeenVerified(s))' <= h'[s].sum
                /\ h'[s].op = "cancelPayment" => h'[s].sum <= paid'[h'[s].inv]
                /\ h'[s].op = "verify" => ~deleted'[h'[s].inv]
    <2>1. s # r /\ h'[s] = h[s]
      BY <1>1, <1>2, <1>10, FinishKnows DEF Idle
    <2>2. h[s].inv \in Invoice /\ h[s].inv # i
      BY <1>1, <1>2, <1>10, <2>1 DEF LockExclusion, HoldsInvoice, HandlerKnows
    <2>3. SeenVerified(s)' = SeenVerified(s) /\ paid'[h[s].inv] = paid[h[s].inv]
      BY <1>1, <1>2, <1>7, <2>1, <2>2 DEF SeenVerified, TypeOK
    <2>4. AmountOf(SeenVerified(s))' = AmountOf(SeenVerified(s))
      BY <2>3 DEF AmountOf
    <2> QED BY <1>2, <1>10, <2>1, <2>3, <2>4 DEF CoverInv, CommitCovers
  <1>11. CommitCovers'
    BY <1>10 DEF CommitCovers
  <1> QED BY <1>5, <1>9, <1>11 DEF CoverInv

LEMMA CoverInvoiceRequest ==
    ASSUME IInv, CoverInv, NEW r \in Handler, NEW i \in Invoice, InvoiceRequest(r, i)
    PROVE  CoverInv'
  <1>1. TypeOK
    BY DEF IInv
  <1>2. UNCHANGED <<paid, payStatus, payInvoice>>
    BY DEF InvoiceRequest, ReadDraft, UpdateInvoice, DeleteInvoice, IssueInvoice,
           CancelInvoiceRead, CancelInvoiceCount, CancelInvoice, WritesInvoice, invoiceVars,
           paymentVars
  <1>3. \A j \in Invoice : InvoiceLocked(j) => deleted'[j] = deleted[j]
    BY <1>1
    DEF InvoiceRequest, ReadDraft, UpdateInvoice, DeleteInvoice, IssueInvoice,
        CancelInvoiceRead, CancelInvoiceCount, CancelInvoice, WritesInvoice, invoiceVars, TypeOK
  <1>4. \A s \in Handler : h'[s].at = "commit" => h'[s] = h[s]
    <2>1. ASSUME Finish(r) \/ Goto(r, "write")
          PROVE  \A s \in Handler : h'[s].at = "commit" => h'[s] = h[s]
      <3>1. (\A q \in Handler \ {r} : h'[q] = h[q]) /\ h'[r].at \in {"write", "idle"}
        BY <1>1, <2>1, GotoMoves DEF Statement
      <3> QED BY <3>1
    <2>2. ASSUME CancelInvoiceRead(r, i) \/ \E op \in {"update", "delete", "issue"} : ReadDraft(r, i, op)
          PROVE  \A s \in Handler : h'[s].at = "commit" => h'[s] = h[s]
      BY <1>1, <2>2 DEF CancelInvoiceRead, ReadDraft, Idle, TypeOK
    <2> QED BY <2>1, <2>2
            DEF InvoiceRequest, UpdateInvoice, DeleteInvoice, IssueInvoice, CancelInvoiceCount,
                CancelInvoice, WritesInvoice
  <1>5. Recorded' = Recorded /\ \A j : VerifiedOf(j)' = VerifiedOf(j)
    BY <1>2 DEF Recorded, VerifiedOf
  <1> QED BY <1>2, <1>3, <1>4, <1>5, CoverUntouched DEF CoverInv

LEMMA CoverPaymentRequest ==
    ASSUME IInv, CoverInv, NEW r \in Handler, NEW p \in Payment, PaymentRequest(r, p)
    PROVE  CoverInv'
  <1>1. TypeOK /\ HandlerKnows(r) /\ IsFiniteSet(Recorded)
    BY DEF IInv, CoverInv
  <1>2. ASSUME UNCHANGED <<invoiceVars, paymentVars>>,
               \A s \in Handler : h'[s].at = "commit" => h'[s] = h[s]
        PROVE  CoverInv'
    <2>1. Recorded' = Recorded /\ \A j : VerifiedOf(j)' = VerifiedOf(j)
      BY <1>2 DEF Recorded, VerifiedOf, paymentVars
    <2> QED BY <1>1, <1>2, <2>1, CoverUntouched DEF invoiceVars
  <1>3. CASE VerifyPaymentRead(r, p) \/ CancelPaymentRead(r, p) \/ RejectPaymentRead(r, p)
    <2>1. \E op, seen : \E s \in {"lock", "payWrite"} : Begin(r, p, op, seen, s)
      BY <1>3 DEF VerifyPaymentRead, CancelPaymentRead, RejectPaymentRead
    <2>2. (\A q \in Handler \ {r} : h'[q] = h[q]) /\ h'[r].at # "commit"
      BY <1>1, <2>1, BeginMoves
    <2>3. UNCHANGED <<invoiceVars, paymentVars>>
      BY <1>3 DEF VerifyPaymentRead, CancelPaymentRead, RejectPaymentRead
    <2> QED BY <1>2, <2>2, <2>3
  <1>4. CASE CancelUnverifiedPayment(r, p)
    <2>1. CASE payStatus[p] = h[r].seen
      <3>1. payStatus[p] # "NONE"
        BY <1>1, <1>4, <2>1 DEF CancelUnverifiedPayment, HandlerKnows
      <3> QED BY <1>4, <2>1, <3>1, CoverPaymentWrite DEF CancelUnverifiedPayment
    <2>2. CASE payStatus[p] # h[r].seen
      <3>1. Finish(r) /\ UNCHANGED <<invoiceVars, paymentVars>>
        BY <1>4, <2>2 DEF CancelUnverifiedPayment, paymentVars
      <3>2. \A s \in Handler : h'[s].at = "commit" => h'[s] = h[s]
        BY <1>1, <3>1, FinishKnows DEF Idle
      <3> QED BY <1>2, <3>1, <3>2
    <2> QED BY <2>1, <2>2
  <1>5. CASE RejectPayment(r, p)
    <2>1. payStatus[p] # "NONE"
      BY <1>1, <1>5 DEF RejectPayment, HandlerKnows
    <2> QED BY <1>5, <2>1, CoverPaymentWrite DEF RejectPayment
  <1> QED BY <1>3, <1>4, <1>5 DEF PaymentRequest

LEMMA CoverTransact ==
    ASSUME IInv, CoverInv, NEW r \in Handler, Transact(r)
    PROVE  CoverInv'
  <1>1. CASE LockInvoice(r) \/ ClaimPayment(r)
    <2>1. PICK s \in {"claim", "sum"} : Goto(r, s) \/ Finish(r)
      BY <1>1 DEF LockInvoice, ClaimPayment
    <2>2. (\A q \in Handler \ {r} : h'[q] = h[q]) /\ h'[r].at \in {s, "idle"}
      BY <2>1, GotoMoves DEF Statement, IInv
    <2>3. \A q \in Handler : h'[q].at = "commit" => h'[q] = h[q]
      BY <2>2
    <2>4. UNCHANGED <<invoiceVars, paymentVars>>
      BY <1>1 DEF LockInvoice, ClaimPayment
    <2>5. Recorded' = Recorded /\ \A j : VerifiedOf(j)' = VerifiedOf(j)
      BY <2>4 DEF Recorded, VerifiedOf, paymentVars
    <2> QED BY <2>3, <2>4, <2>5, CoverUntouched DEF invoiceVars, CoverInv
  <1> QED BY <1>1, CoverSum, CoverCommit DEF Transact

LEMMA CoverStep == IInv /\ CoverInv /\ [Next]_vars => CoverInv'
  <1> SUFFICES ASSUME IInv, CoverInv, [Next]_vars PROVE CoverInv'
    OBVIOUS
  <1>1. TypeOK /\ RowsExist /\ IsFiniteSet(Recorded)
    BY DEF IInv, CoverInv
  <1>2. ASSUME UNCHANGED <<payStatus, payInvoice, deleted>>, paid' = paid,
               \A s \in Handler : h'[s].at = "commit" => h'[s] = h[s]
        PROVE  CoverInv'
    <2>1. Recorded' = Recorded /\ \A j : VerifiedOf(j)' = VerifiedOf(j)
      BY <1>2 DEF Recorded, VerifiedOf
    <2> QED BY <1>1, <1>2, <2>1, CoverUntouched
  <1>3. ASSUME NEW i \in Invoice, NEW t, NEW due, CreateInvoice(i, t, due)
        PROVE  CoverInv'
    BY <1>2, <1>3, CreationPaysNothing DEF CreateInvoice, paymentVars
  <1>4. ASSUME NEW i \in Invoice, SyncOverdueInvoice(i) \/ DueDatePasses(i)
        PROVE  CoverInv'
    BY <1>2, <1>4 DEF SyncOverdueInvoice, DueDatePasses, paymentVars
  <1>5. ASSUME NEW r \in Handler, NEW i \in Invoice, CreatePaymentRead(r, i)
        PROVE  CoverInv'
    BY <1>1, <1>2, <1>5 DEF CreatePaymentRead, invoiceVars, paymentVars, Idle, TypeOK
  <1>6. ASSUME NEW r \in Handler, NEW i \in Invoice, NEW p \in Payment, CreatePayment(r, i, p)
        PROVE  CoverInv'
    <2>1. /\ payStatus[p] = "NONE" /\ payStatus' = [payStatus EXCEPT ![p] = "PENDING"]
          /\ payInvoice' = [payInvoice EXCEPT ![p] = i] /\ Finish(r)
          /\ UNCHANGED invoiceVars
      BY <1>6 DEF CreatePayment
    <2>2. Recorded' = Recorded \cup {p} /\ \A j : VerifiedOf(j)' = VerifiedOf(j)
      BY <1>1, <2>1 DEF Recorded, VerifiedOf, TypeOK
    <2>3. IsFiniteSet(Recorded)'
      BY <1>1, <2>2, FS_AddElement
    <2>4. \A s \in Handler : h'[s].at = "commit" => h'[s] = h[s]
      BY <1>1, <2>1, FinishKnows DEF Idle
    <2> QED BY <2>1, <2>2, <2>3, <2>4, CoverUntouched DEF invoiceVars
  <1>7. ASSUME NEW r \in Handler, Abandon(r) PROVE CoverInv'
    <2>1. \A s \in Handler : h'[s].at = "commit" => h'[s] = h[s]
      BY <1>1, <1>7, FinishKnows DEF Abandon, Idle
    <2> QED BY <1>2, <1>7, <2>1 DEF Abandon, invoiceVars, paymentVars
  <1>8. CASE UNCHANGED vars
    BY <1>2, <1>8 DEF vars
  <1> QED
    BY <1>3, <1>4, <1>5, <1>6, <1>7, <1>8, CoverInvoiceRequest, CoverPaymentRequest,
       CoverTransact DEF Next

LEMMA CoverInit == Init => CoverInv
  <1> SUFFICES ASSUME Init PROVE CoverInv
    OBVIOUS
  <1>1. Recorded = {} /\ \A i : VerifiedOf(i) = {}
    BY DEF Init, Recorded, VerifiedOf
  <1>2. BalanceCovers
    BY <1>1, AmountOfNone DEF Init, BalanceCovers
  <1>3. CommitCovers
    BY DEF Init, CommitCovers, Idle
  <1> QED BY <1>1, <1>2, <1>3, FS_EmptySet DEF CoverInv

(* A balance grows by a verification alone, which under the lock has found *)
(* the sum within the total and the invoice neither cancelled nor deleted. *)
THEOREM BalanceIsBounded == Spec => BalanceGrowsWithinTotal
  <1>1. IInv /\ VerifyWithin /\ VerifyCollectable /\ CoverInv /\ [Next]_vars =>
          [\A i \in Invoice :
              paid'[i] > paid[i] =>
                  paid'[i] <= total[i] /\ invStatus[i] # "CANCELLED" /\ ~deleted[i]]_vars
    <2> SUFFICES ASSUME IInv, VerifyWithin, VerifyCollectable, CoverInv, Next,
                        NEW i \in Invoice, paid'[i] > paid[i]
                 PROVE  paid'[i] <= total[i] /\ invStatus[i] # "CANCELLED" /\ ~deleted[i]
      OBVIOUS
    <2>1. TypeOK /\ paid[i] \in Nat
      BY DEF IInv, CoverInv, BalanceCovers
    <2>2. paid' # paid
      BY <2>1
    <2>3. ASSUME NEW j \in Invoice, NEW t, NEW due, CreateInvoice(j, t, due) PROVE FALSE
      BY <2>2, <2>3, CreationPaysNothing
    <2>4. ASSUME NEW r \in Handler, NEW j \in Invoice,
                 InvoiceRequest(r, j) \/ CreatePaymentRead(r, j)
          PROVE  FALSE
      BY <2>2, <2>4
      DEF InvoiceRequest, ReadDraft, UpdateInvoice, DeleteInvoice, IssueInvoice,
          CancelInvoiceRead, CancelInvoiceCount, CancelInvoice, WritesInvoice,
          CreatePaymentRead, invoiceVars
    <2>5. ASSUME NEW j \in Invoice, SyncOverdueInvoice(j) \/ DueDatePasses(j) PROVE FALSE
      BY <2>2, <2>5 DEF SyncOverdueInvoice, DueDatePasses
    <2>6. ASSUME NEW r \in Handler, NEW j \in Invoice, NEW p \in Payment,
                 CreatePayment(r, j, p)
          PROVE  FALSE
      BY <2>2, <2>6 DEF CreatePayment, invoiceVars
    <2>10. ASSUME NEW r \in Handler, NEW p \in Payment, PaymentRequest(r, p) PROVE FALSE
      BY <2>2, <2>10
      DEF PaymentRequest, VerifyPaymentRead, CancelPaymentRead,
          RejectPaymentRead, CancelUnverifiedPayment, RejectPayment, invoiceVars
    <2>7. ASSUME NEW r \in Handler,
                 LockInvoice(r) \/ ClaimPayment(r) \/ SumPayments(r) \/ Abandon(r)
          PROVE  FALSE
      BY <2>2, <2>7 DEF LockInvoice, ClaimPayment, SumPayments, Abandon, invoiceVars
    <2>8. ASSUME NEW r \in Handler, NEW j \in Invoice, NEW p \in Payment,
                 CancelPaymentCommit(r, j, p)
          PROVE  FALSE
      <3>1. j = i /\ paid'[i] = h[r].sum /\ h[r].at = "commit" /\ h[r].inv = i
            /\ h[r].op = "cancelPayment"
        BY <2>1, <2>8 DEF CancelPaymentCommit, TypeOK
      <3>2. h[r].sum \in Nat /\ h[r].sum <= paid[i]
        BY <3>1 DEF CoverInv, CommitCovers
      <3> QED BY <2>1, <3>1, <3>2
    <2>9. ASSUME NEW r \in Handler, NEW j \in Invoice, NEW p \in Payment,
                 VerifyPaymentCommit(r, j, p)
          PROVE  paid'[i] <= total[i] /\ invStatus[i] # "CANCELLED" /\ ~deleted[i]
      <3>1. j = i /\ paid'[i] = h[r].sum /\ h[r].at = "commit" /\ h[r].inv = i
            /\ h[r].op = "verify"
        BY <2>1, <2>9 DEF VerifyPaymentCommit, TypeOK
      <3> QED BY <3>1 DEF VerifyWithin, VerifyCollectable, CoverInv, CommitCovers
    <2>11. ASSUME NEW r \in Handler, Transact(r)
           PROVE  paid'[i] <= total[i] /\ invStatus[i] # "CANCELLED" /\ ~deleted[i]
      BY <2>7, <2>8, <2>9, <2>11 DEF Transact
    <2> QED BY <2>3, <2>4, <2>5, <2>6, <2>7, <2>10, <2>11 DEF Next
  <1>2. IInv => TypeOK
    BY DEF IInv
  <1>3. Init => VerifyCollectable
    BY DEF Init, VerifyCollectable, Idle
  <1>4. IInv /\ IInv' /\ VerifyCollectable /\ [Next]_vars => VerifyCollectable'
    BY CollectableStep
  <1> QED
    BY <1>1, <1>2, <1>3, <1>4, InitInv, InvStep, RefineInit, WithinStep, CoverInit, CoverStep, PTL
    DEF Spec, BalanceGrowsWithinTotal

-----------------------------------------------------------------------------
(* The status of an invoice tells its balance: SettlementMatchesBalance of *)
(* one invoice.                                                            *)
Settled(i) ==
    /\ invStatus[i] = "PAID" => paid[i] = total[i]
    /\ invStatus[i] = "PARTIAL" => 0 < paid[i] /\ paid[i] < total[i]
    /\ invStatus[i] \in {"DRAFT", "ISSUED", "CANCELLED"} => paid[i] = 0
    /\ invStatus[i] = "OVERDUE" => paid[i] = 0 \/ paid[i] < total[i]

LEMMA TotalsAreIntegers == TypeOK => \A i \in Invoice : total[i] \in Int
  <1> SUFFICES ASSUME TypeOK, NEW i \in Invoice PROVE total[i] \in Int
    OBVIOUS
  <1>1. total[i] \in Totals \cup {0}
    BY DEF TypeOK
  <1>2. CASE total[i] \in Totals
    BY <1>2, TotalsAssumption
  <1>3. CASE total[i] = 0
    BY <1>3
  <1> QED BY <1>1, <1>2, <1>3

LEMMA SettledInvoiceRequest ==
    ASSUME IInv, CoverInv, SettlementMatchesBalance, NEW r \in Handler, NEW j \in Invoice,
           InvoiceRequest(r, j)
    PROVE  SettlementMatchesBalance'
  <1> SUFFICES ASSUME NEW i \in Invoice, i \notin lateEdit', Undisturbed(i)' PROVE Settled(i)'
    BY DEF SettlementMatchesBalance, Settled
  <1>1. TypeOK /\ BalanceExact
    BY DEF IInv
  <1>2. paid' = paid /\ UNCHANGED paymentVars /\ overruled' = overruled /\ lateEdit \subseteq lateEdit'
    BY DEF InvoiceRequest, ReadDraft, UpdateInvoice, DeleteInvoice, IssueInvoice,
           CancelInvoiceRead, CancelInvoiceCount, CancelInvoice, WritesInvoice, invoiceVars, RecordLate
  <1>3. i \notin lateEdit /\ Undisturbed(i)
    BY <1>2 DEF Undisturbed, paymentVars
  <1>4. Settled(i) /\ paid[i] = AmountOf(VerifiedOf(i))
    BY <1>1, <1>3 DEF SettlementMatchesBalance, Settled, BalanceExact
  <1>5. ASSUME UNCHANGED <<invStatus, total>> PROVE Settled(i)'
    BY <1>2, <1>4, <1>5 DEF Settled
  <1>6. CASE \/ \E op \in {"update", "delete", "issue"} : ReadDraft(r, j, op)
             \/ CancelInvoiceRead(r, j) \/ CancelInvoiceCount(r, j) \/ DeleteInvoice(r, j)
    BY <1>5, <1>6 DEF ReadDraft, CancelInvoiceRead, CancelInvoiceCount, DeleteInvoice, invoiceVars
  <1>7. ASSUME NEW t \in Totals, NEW due \in BOOLEAN, UpdateInvoice(r, j, t, due)
        PROVE  Settled(i)'
    <2>1. CASE i = j
      <3>1. invStatus[i] = "DRAFT" /\ invStatus' = invStatus
        BY <1>7, <2>1 DEF UpdateInvoice, RecordLate, IsDraft
      <3> QED BY <1>2, <1>4, <3>1 DEF Settled
    <2>2. CASE i # j
      BY <1>1, <1>2, <1>4, <1>7, <2>2 DEF UpdateInvoice, TypeOK, Settled
    <2> QED BY <2>1, <2>2
  <1>8. CASE IssueInvoice(r, j)
    <2>1. CASE i = j
      <3>1. invStatus[i] = "DRAFT" /\ invStatus'[i] = "ISSUED"
        BY <1>1, <1>8, <2>1 DEF IssueInvoice, RecordLate, IsDraft, TypeOK
      <3> QED BY <1>2, <1>4, <3>1 DEF Settled
    <2>2. CASE i # j
      BY <1>1, <1>2, <1>4, <1>8, <2>2 DEF IssueInvoice, TypeOK, Settled
    <2> QED BY <2>1, <2>2
  <1>9. CASE CancelInvoice(r, j)
    <2>1. CASE i = j
      <3>1. VerifiedOf(i) = {} /\ invStatus'[i] = "CANCELLED"
        BY <1>1, <1>9, <2>1 DEF CancelInvoice, RecordLate, TypeOK
      <3>2. paid[i] = 0
        BY <1>4, <3>1, AmountOfNone
      <3> QED BY <1>2, <3>1, <3>2 DEF Settled
    <2>2. CASE i # j
      BY <1>1, <1>2, <1>4, <1>9, <2>2 DEF CancelInvoice, TypeOK, Settled
    <2> QED BY <2>1, <2>2
  <1> QED BY <1>6, <1>7, <1>8, <1>9 DEF InvoiceRequest

(* A verification settles the invoice it commits on: the sum it has found  *)
(* within the total contains its own payment, so it is not 0.              *)
LEMMA SettledVerify ==
    ASSUME IInv, CoverInv, VerifyWithin, SettlementMatchesBalance, NEW r \in Handler,
           NEW j \in Invoice, NEW p \in Payment, VerifyPaymentCommit(r, j, p)
    PROVE  SettlementMatchesBalance'
  <1> SUFFICES ASSUME NEW i \in Invoice, i \notin lateEdit', Undisturbed(i)' PROVE Settled(i)'
    BY DEF SettlementMatchesBalance, Settled
  <1>1. TypeOK /\ HandlerKnows(r) /\ IsFiniteSet(Recorded)
    BY DEF IInv, CoverInv
  <1>2. i \notin lateEdit /\ Undisturbed(i)
    BY DEF VerifyPaymentCommit, Undisturbed
  <1>3. Settled(i)
    BY <1>2 DEF SettlementMatchesBalance, Settled
  <1>4. CASE i # j
    BY <1>1, <1>3, <1>4 DEF VerifyPaymentCommit, TypeOK, Settled
  <1>5. CASE i = j
    <2>1. /\ h[r].at = "commit" /\ h[r].op = "verify" /\ h[r].inv = i /\ h[r].pay = p
          /\ paid'[i] = h[r].sum /\ total' = total
          /\ invStatus'[i] = StatusAfterVerification(i, h[r].sum)
      BY <1>1, <1>5 DEF VerifyPaymentCommit, TypeOK
    <2>2. h[r].sum = AmountOf(SeenVerified(r)) /\ h[r].sum <= total[i]
      BY <1>1, <1>2, <2>1 DEF HandlerKnows, VerifyWithin
    <2>3. SeenVerified(r) \in SUBSET Payment /\ IsFiniteSet(SeenVerified(r)) /\ p \in SeenVerified(r)
      BY <1>1, <2>1, VerifiedFinite DEF SeenVerified
    <2>4. AmountOf(SeenVerified(r)) \in Nat /\ AmountOf(SeenVerified(r)) > 0
      <3> DEFINE S == SeenVerified(r)
      <3>1. S \in SUBSET Payment /\ IsFiniteSet(S) /\ p \in S
        BY <2>3
      <3> HIDE DEF S
      <3>2. /\ AmountOf(S) \in Nat /\ AmountOf(S \ {p}) \in Nat
            /\ AmountOf(S \ {p}) < AmountOf(S)
        BY <3>1, AmountShrinks
      <3>3. AmountOf(S) > 0
        BY <3>2
      <3> QED BY <3>2, <3>3 DEF S
    <2>5. PICK s \in Nat : s = h[r].sum /\ s > 0 /\ s <= total[i]
      BY <2>2, <2>4
    <2>6. total[i] \in Int
      BY <1>1, TotalsAreIntegers
    <2>7. /\ s = total[i] => invStatus'[i] = "PAID"
          /\ s # total[i] => invStatus'[i] = "PARTIAL"
      BY <2>1, <2>5, <2>6 DEF StatusAfterVerification
    <2> QED BY <2>1, <2>5, <2>6, <2>7 DEF Settled
  <1> QED BY <1>4, <1>5

(* A cancellation takes a payment out of a balance that was within the     *)
(* total, so that what is left is below it.                                *)
LEMMA SettledCancel ==
    ASSUME IInv, CoverInv, SettlementMatchesBalance, NEW r \in Handler,
           NEW j \in Invoice, NEW p \in Payment, CancelPaymentCommit(r, j, p)
    PROVE  SettlementMatchesBalance'
  <1> SUFFICES ASSUME NEW i \in Invoice, i \notin lateEdit', Undisturbed(i)' PROVE Settled(i)'
    BY DEF SettlementMatchesBalance, Settled
  <1>1. TypeOK /\ HandlerKnows(r) /\ BalanceExact /\ IsFiniteSet(Recorded)
    BY DEF IInv, CoverInv
  <1>2. i \notin lateEdit /\ Undisturbed(i)
    BY DEF CancelPaymentCommit, Undisturbed
  <1>3. Settled(i)
    BY <1>2 DEF SettlementMatchesBalance, Settled
  <1>4. CASE i # j
    BY <1>1, <1>3, <1>4 DEF CancelPaymentCommit, TypeOK, Settled
  <1>5. CASE i = j
    <2>1. /\ h[r].at = "commit" /\ h[r].op = "cancelPayment" /\ h[r].inv = i /\ h[r].pay = p
          /\ paid'[i] = h[r].sum /\ total' = total
          /\ invStatus'[i] = StatusAfterCancellation(i, h[r].sum)
      BY <1>1, <1>5 DEF CancelPaymentCommit, TypeOK
    <2> DEFINE V == VerifiedOf(i)
    <2>2. p \in V /\ V \in SUBSET Payment /\ IsFiniteSet(V)
      BY <1>1, <2>1, VerifiedFinite DEF HandlerKnows, VerifiedOf
    <2>3. h[r].sum = AmountOf(V \ {p}) /\ paid[i] = AmountOf(V)
      BY <1>1, <1>2, <2>1 DEF HandlerKnows, SeenVerified, BalanceExact
    <2> HIDE DEF V
    <2>4. PICK s \in Nat, b \in Nat : s = h[r].sum /\ b = paid[i] /\ s < b
      BY <2>2, <2>3, AmountShrinks
    <2>5. invStatus[i] \in {"PAID", "PARTIAL", "OVERDUE"}
      <3>1. invStatus[i] \in InvoiceStatus /\ invStatus[i] # "NONE"
        BY <1>1, <2>1 DEF TypeOK, HandlerKnows
      <3>2. paid[i] # 0
        BY <2>4
      <3> QED BY <1>3, <3>1, <3>2 DEF Settled, InvoiceStatus
    <2>6. total[i] \in Int
      BY <1>1, TotalsAreIntegers
    <2>7. b <= total[i]
      BY <1>3, <2>4, <2>5, <2>6 DEF Settled
    <2>8. /\ s = 0 => invStatus'[i] = "ISSUED"
          /\ s # 0 => invStatus'[i] = "PARTIAL"
      BY <2>1, <2>4, <2>6, <2>7 DEF StatusAfterCancellation
    <2> QED BY <2>1, <2>4, <2>6, <2>7, <2>8 DEF Settled
  <1> QED BY <1>4, <1>5

LEMMA SettledStep ==
    IInv /\ IInv' /\ CoverInv /\ VerifyWithin /\ SettlementMatchesBalance /\ [Next]_vars
        => SettlementMatchesBalance'
  <1> SUFFICES ASSUME IInv, IInv', CoverInv, VerifyWithin, SettlementMatchesBalance, [Next]_vars
               PROVE  SettlementMatchesBalance'
    OBVIOUS
  <1>1. TypeOK /\ RowsExist /\ RowsExist' /\ TypeOK'
    BY DEF IInv
  <1>2. ASSUME UNCHANGED <<invStatus, total, paid, lateEdit>>,
               \A i : Undisturbed(i)' => Undisturbed(i)
        PROVE  SettlementMatchesBalance'
    BY <1>2 DEF SettlementMatchesBalance
  <1>3. ASSUME UNCHANGED <<invStatus, total, paid, lateEdit, payInvoice>>,
               overruled \subseteq overruled'
        PROVE  SettlementMatchesBalance'
    BY <1>2, <1>3 DEF Undisturbed
  <1>4. ASSUME NEW i \in Invoice, NEW t \in Totals, NEW due \in BOOLEAN, CreateInvoice(i, t, due)
        PROVE  SettlementMatchesBalance'
    <2> SUFFICES ASSUME NEW j \in Invoice, j \notin lateEdit', Undisturbed(j)' PROVE Settled(j)'
      BY DEF SettlementMatchesBalance, Settled
    <2>1. j \notin lateEdit /\ Undisturbed(j)
      BY <1>4 DEF CreateInvoice, Undisturbed, paymentVars
    <2>2. Settled(j)
      BY <2>1 DEF SettlementMatchesBalance, Settled
    <2>3. CASE j # i
      BY <1>1, <1>4, <2>2, <2>3 DEF CreateInvoice, TypeOK, Settled
    <2>4. CASE j = i
      BY <1>1, <1>4, <2>4, AmountOfNone DEF CreateInvoice, TypeOK, Settled
    <2> QED BY <2>3, <2>4
  <1>5. ASSUME NEW i \in Invoice, SyncOverdueInvoice(i) PROVE SettlementMatchesBalance'
    <2> SUFFICES ASSUME NEW j \in Invoice, j \notin lateEdit', Undisturbed(j)' PROVE Settled(j)'
      BY DEF SettlementMatchesBalance, Settled
    <2>1. j \notin lateEdit /\ Undisturbed(j)
      BY <1>5 DEF SyncOverdueInvoice, Undisturbed, paymentVars
    <2>2. Settled(j)
      BY <2>1 DEF SettlementMatchesBalance, Settled
    <2> QED BY <1>1, <1>5, <2>2 DEF SyncOverdueInvoice, Overdue, TypeOK, Settled
  <1>6. ASSUME NEW i \in Invoice, DueDatePasses(i) PROVE SettlementMatchesBalance'
    BY <1>3, <1>6 DEF DueDatePasses, paymentVars
  <1>7. ASSUME NEW r \in Handler, NEW i \in Invoice, CreatePaymentRead(r, i)
        PROVE  SettlementMatchesBalance'
    BY <1>3, <1>7 DEF CreatePaymentRead, invoiceVars, paymentVars
  <1>8. ASSUME NEW r \in Handler, NEW i \in Invoice, NEW p \in Payment, CreatePayment(r, i, p)
        PROVE  SettlementMatchesBalance'
    <2>1. payStatus[p] = "NONE" /\ payInvoice' = [payInvoice EXCEPT ![p] = i]
          /\ UNCHANGED <<invoiceVars, overruled, lateEdit>>
      BY <1>8 DEF CreatePayment
    <2>2. \A j : Undisturbed(j)' => Undisturbed(j)
      BY <1>1, <2>1 DEF Undisturbed, RowsExist, TypeOK
    <2> QED BY <1>2, <2>1, <2>2 DEF invoiceVars
  <1>9. ASSUME NEW r \in Handler, NEW p \in Payment, PaymentRequest(r, p)
        PROVE  SettlementMatchesBalance'
    BY <1>3, <1>9
    DEF PaymentRequest, VerifyPaymentRead, CancelPaymentRead, RejectPaymentRead,
        CancelUnverifiedPayment, RejectPayment, invoiceVars, paymentVars
  <1>10. ASSUME NEW r \in Handler,
                LockInvoice(r) \/ ClaimPayment(r) \/ SumPayments(r) \/ Abandon(r)
         PROVE  SettlementMatchesBalance'
    BY <1>3, <1>10 DEF LockInvoice, ClaimPayment, SumPayments, Abandon, invoiceVars, paymentVars
  <1>11. ASSUME NEW r \in Handler, Transact(r) PROVE SettlementMatchesBalance'
    BY <1>10, <1>11, SettledVerify, SettledCancel DEF Transact
  <1>12. CASE UNCHANGED vars
    BY <1>3, <1>12 DEF vars
  <1> QED
    BY <1>4, <1>5, <1>6, <1>7, <1>8, <1>9, <1>10, <1>11, <1>12, SettledInvoiceRequest DEF Next

(* The status of an invoice tells what has been paid on it, in every       *)
(* reachable state, on every invoice that no late write and no overruling  *)
(* rejection has touched.                                                  *)
THEOREM StatusTellsBalance == Spec => []SettlementMatchesBalance
  <1>1. Init => SettlementMatchesBalance
    BY DEF Init, SettlementMatchesBalance
  <1>2. IInv => TypeOK
    BY DEF IInv
  <1> QED
    BY <1>1, <1>2, InitInv, InvStep, RefineInit, WithinStep, CoverInit, CoverStep, SettledStep, PTL
    DEF Spec
=============================================================================
