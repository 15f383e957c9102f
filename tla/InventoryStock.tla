--------------------------- MODULE InventoryStock ---------------------------
(***************************************************************************)
(* The stock of one inventory item: movements made by hand, loans of the   *)
(* item, and its deletion.                                                 *)
(*   apps/api/src/inventory/inventory-items.service.ts                     *)
(*   apps/api/src/inventory/inventory-loans.service.ts                     *)
(*                                                                         *)
(* A movement checks the quantity before the transaction that records it   *)
(* and adds it up.  Lending a loan and taking it back are a movement and,  *)
(* in a statement of its own, the loan's new status.  The status of the    *)
(* item, which every one of these writes, and maintenance, which writes    *)
(* only that, are left out: no operation reads it.                         *)
(***************************************************************************)
EXTENDS Integers, FiniteSets, FiniteSetsExt

CONSTANTS
    Loan,       \* ids of the rows of inventory_loans
    Request,    \* requests that can be in progress at the same time
    Quantities, \* the quantities of a loan or of a movement
    Opening,    \* the quantity the item is created with
    MaxStock,   \* bound: nothing is added to the quantity beyond it, and
                \* movements by hand are begun within 0..MaxStock
    None        \* no loan

VARIABLES
    item,       \* quantity and soft deletion of the item
    loan,       \* status, quantity and soft deletion of each loan
    req,        \* the state of each request
    booked,     \* history: the opening quantity and the movements by hand
    astray      \* history: loans whose stock and status were parted by a
                \* request that failed between them or overlapped another one

vars == <<item, loan, req, booked, astray>>

NoLoan == [status |-> "NONE", quantity |-> 0, deleted |-> FALSE]
Idle == [at |-> "idle", op |-> "none", loan |-> None, delta |-> 0]

Goto(q, a) == req' = [req EXCEPT ![q].at = a]
Finish(q) == req' = [req EXCEPT ![q] = Idle]

(* Variant with a defect: a loan is taken back as often as it is asked for.*)
Allowed_ReturnTwice(op) ==
    CASE op \in {"approve", "reject"} -> {"REQUESTED"}
      [] op = "borrow" -> {"APPROVED"}
      [] op = "return" -> {"BORROWED", "OVERDUE", "RETURNED"}
      [] op = "cancel" -> {"REQUESTED", "APPROVED", "REJECTED", "CANCELLED", "OVERDUE"}

(* The statuses in which each operation on a loan is allowed; OVERDUE is   *)
(* read by returnLoan and written by nothing.                              *)
Allowed(op) ==
    CASE op \in {"approve", "reject"} -> {"REQUESTED"}
      [] op = "borrow" -> {"APPROVED"}
      [] op = "return" -> {"BORROWED", "OVERDUE"}
      [] op = "cancel" -> {"REQUESTED", "APPROVED", "REJECTED", "CANCELLED", "OVERDUE"}
Written(op) ==
    CASE op = "approve" -> "APPROVED"
      [] op = "reject"  -> "REJECTED"
      [] op = "borrow"  -> "BORROWED"
      [] op = "return"  -> "RETURNED"
      [] op = "cancel"  -> "CANCELLED"
Moving == {"borrow", "return"}

(* The stock of a loan has been moved, its status is not written yet.      *)
HasMoved(q, l) == req[q].at = "status" /\ req[q].op \in Moving /\ req[q].loan = l

-----------------------------------------------------------------------------
(* createMovement by hand: IN and RETURN add, OUT, BORROW and DISPOSAL     *)
(* subtract; TRANSFER and ADJUSTMENT do not touch the quantity.            *)
StartMovement(q, k) ==
    /\ req[q] = Idle
    /\ k \in Quantities \/ (-k \in Quantities)
    /\ booked + k \in 0..MaxStock
    /\ req' = [req EXCEPT ![q].at = "item", ![q].op = "move", ![q].delta = k]
    /\ UNCHANGED <<item, loan, booked, astray>>

(* Variant with a defect: the quantity is not looked at.                   *)
CheckQuantity_Unchecked(q) ==
    /\ req[q].at = "item"
    /\ IF ~item.deleted THEN Goto(q, "move") ELSE Finish(q)
    /\ UNCHANGED <<item, loan, booked, astray>>

(* getItem, and the check that the quantity suffices.                      *)
CheckQuantity(q) ==
    /\ req[q].at = "item"
    /\ IF ~item.deleted /\ (req[q].delta > 0 \/ item.quantity >= -req[q].delta)
       THEN Goto(q, "move")
       ELSE Finish(q)
    /\ UNCHANGED <<item, loan, booked, astray>>

(* One transaction records the movement and adds it to the quantity the    *)
(* item has now.  A loan goes on to its status.                            *)
ApplyMovement(q) == LET l == req[q].loan IN
    /\ req[q].at = "move"
    /\ item.quantity + req[q].delta <= MaxStock
    /\ item' = [item EXCEPT !.quantity = @ + req[q].delta]
    /\ IF l = None
       THEN /\ booked' = booked + req[q].delta
            /\ Finish(q)
            /\ UNCHANGED astray
       ELSE /\ astray' = IF \/ loan[l].status \notin Allowed(req[q].op)
                            \/ \E r \in Request : HasMoved(r, l)
                         THEN astray \cup {l} ELSE astray
            /\ Goto(q, "status")
            /\ UNCHANGED booked
    /\ UNCHANGED loan

-----------------------------------------------------------------------------
CreateLoan(l, k) ==
    /\ loan[l] = NoLoan
    /\ loan' = [loan EXCEPT ![l] = [status |-> "REQUESTED", quantity |-> k, deleted |-> FALSE]]
    /\ UNCHANGED <<item, req, booked, astray>>

(* approveLoan, rejectLoan, markLoanBorrowed, returnLoan and cancelLoan    *)
(* read the loan and check its status, ...                                 *)
ReadLoan(q, l, op) ==
    /\ req[q] = Idle
    /\ ~loan[l].deleted
    /\ loan[l].status \in Allowed(op)
    /\ req' = [req EXCEPT ![q] =
         [at    |-> IF op \in Moving THEN "item" ELSE "status", op |-> op, loan |-> l,
          delta |-> CASE op = "borrow" -> -loan[l].quantity
                      [] op = "return" -> loan[l].quantity
                      [] OTHER         -> 0]]
    /\ UNCHANGED <<item, loan, booked, astray>>

(* ... and write its new status by id, last.                               *)
WriteLoan(q) == LET l == req[q].loan IN
    /\ req[q].at = "status"
    /\ loan' = [loan EXCEPT ![l].status = Written(req[q].op)]
    /\ astray' = IF req[q].op \notin Moving /\ loan[l].status = "BORROWED"
                 THEN astray \cup {l} ELSE astray
    /\ Finish(q)
    /\ UNCHANGED <<item, booked>>

(* deleteLoan refuses nothing, not even a loan that is BORROWED.           *)
DeleteLoan(l) ==
    /\ loan[l] # NoLoan
    /\ loan' = [loan EXCEPT ![l].deleted = TRUE]
    /\ UNCHANGED <<item, req, booked, astray>>

Lent == {l \in Loan : loan[l].status = "BORROWED"}

(* deleteItem counts the loans that are BORROWED, ...                      *)
CountLent(q) ==
    /\ req[q] = Idle
    /\ Lent = {}
    /\ req' = [req EXCEPT ![q].at = "delete", ![q].op = "delete"]
    /\ UNCHANGED <<item, loan, booked, astray>>

(* ... and then deletes the item.                                          *)
DeleteItem(q) ==
    /\ req[q].at = "delete"
    /\ item' = [item EXCEPT !.deleted = TRUE]
    /\ Finish(q)
    /\ UNCHANGED <<loan, booked, astray>>

(* A request fails, or its process stops, before any of its statements.    *)
Abandon(q) ==
    /\ req[q] # Idle
    /\ astray' = astray \cup {l \in Loan : HasMoved(q, l)}
    /\ Finish(q)
    /\ UNCHANGED <<item, loan, booked>>

-----------------------------------------------------------------------------
Init ==
    /\ item = [quantity |-> Opening, deleted |-> FALSE]
    /\ loan = [l \in Loan |-> NoLoan]
    /\ req = [q \in Request |-> Idle]
    /\ booked = Opening
    /\ astray = {}

Move(q) ==
    \/ \E k \in Quantities : StartMovement(q, k) \/ StartMovement(q, -k)
    \/ CheckQuantity(q)
    \/ ApplyMovement(q)

Lend(q) ==
    \/ \E l \in Loan, op \in {"approve", "reject", "borrow", "return", "cancel"} :
         ReadLoan(q, l, op)
    \/ WriteLoan(q)

Delete(q) == CountLent(q) \/ DeleteItem(q)

Next ==
    \/ \E l \in Loan, k \in Quantities : CreateLoan(l, k)
    \/ \E l \in Loan : DeleteLoan(l)
    \/ \E q \in Request : Move(q) \/ Lend(q) \/ Delete(q) \/ Abandon(q)

Spec == Init /\ [][Next]_vars

-----------------------------------------------------------------------------
TypeOK ==
    /\ item \in [quantity : Int, deleted : BOOLEAN]
    /\ loan \in [Loan -> [status : {"NONE", "REQUESTED", "APPROVED", "REJECTED", "BORROWED",
                                    "RETURNED", "CANCELLED"},
                          quantity : Quantities \cup {0}, deleted : BOOLEAN]]
    /\ req \in [Request -> [at : {"idle", "item", "move", "status", "delete"},
                            op : {"none", "move", "approve", "reject", "borrow", "return",
                                  "cancel", "delete"},
                            loan : Loan \cup {None}, delta : Int]]
    /\ booked \in Int
    /\ astray \subseteq Loan

(* The loans whose units are out, as far as the quantity knows, and what   *)
(* they come to.                                                           *)
OutOnLoan ==
    {l \in Loan : \/ l \in Lent /\ ~\E q \in Request : HasMoved(q, l) /\ req[q].op = "return"
                 \/ \E q \in Request : HasMoved(q, l) /\ req[q].op = "borrow"}
Units(S) == MapThenSumSet(LAMBDA l : loan[l].quantity, S)

(* The quantity of an item and its loans account for all that was put in   *)
(* and taken out by hand: no unit is lost, or lent and on the shelf at the *)
(* same time, through any sequence of requests that did not leave a loan   *)
(* astray (markLoanBorrowed and returnLoan: movement and status apart).    *)
StockConserved == astray = {} => item.quantity + Units(OutOnLoan) = booked

(* The quantity is checked before the transaction that subtracts from it:  *)
(* it may become negative, but by no more than the requests that can have  *)
(* been between the check and the transaction (createMovement).            *)
ShortageBounded ==
    item.quantity >= -(Cardinality(Request) - 1) * Max(Quantities)
=============================================================================
