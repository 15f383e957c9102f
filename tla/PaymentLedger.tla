--------------------------- MODULE PaymentLedger ----------------------------
(***************************************************************************)
(* What payments and invoices promise together, without requests, locks or *)
(* statuses: a ledger in which a payment is settled on its invoice, or     *)
(* reversed, in one step that also sets the balance.  Module Billing       *)
(* implements it (Billing!ImplementsLedger).                               *)
(*                                                                         *)
(* The one thing the code cannot keep is in the ledger too: a rejection    *)
(* may strike a settled payment without setting the balance.  From then on *)
(* the balance of that invoice is disturbed, and not promised to be exact. *)
(***************************************************************************)
EXTENDS Integers

CONSTANTS
    Invoice, Payment, None,
    AmountOf(_)   \* what a set of payments is worth

VARIABLES
    book,       \* the invoice each payment is settled on, or None
    closed,     \* payments that will not be settled (again)
    balance,    \* what has been paid on each invoice
    limit,      \* what may be paid on each invoice
    disturbed   \* invoices a settled payment of which was struck

vars == <<book, closed, balance, limit, disturbed>>

Settled(i) == {p \in Payment : book[p] = i}

Init ==
    /\ book = [p \in Payment |-> None]
    /\ closed = {}
    /\ balance = [i \in Invoice |-> AmountOf({})]
    /\ limit = [i \in Invoice |-> 0]
    /\ disturbed = {}

(* The balance of i, and of no other invoice, is made that of its payments.*)
Rebalance(i) ==
    /\ balance' = [balance EXCEPT ![i] = balance'[i]]
    /\ i \notin disturbed => balance'[i] = AmountOf(Settled(i)')

Settle(i, p) ==
    /\ book[p] = None /\ p \notin closed
    /\ book' = [book EXCEPT ![p] = i]
    /\ Rebalance(i)
    /\ balance'[i] <= limit[i]
    /\ UNCHANGED <<closed, limit, disturbed>>

Reverse(i, p) ==
    /\ book[p] = i
    /\ book' = [book EXCEPT ![p] = None]
    /\ closed' = closed \cup {p}
    /\ Rebalance(i)
    /\ UNCHANGED <<limit, disturbed>>

(* An unsettled payment is rejected or withdrawn. *)
Close(p) ==
    /\ book[p] = None
    /\ closed' = closed \cup {p}
    /\ UNCHANGED <<book, balance, limit, disturbed>>

Strike(i, p) ==
    /\ book[p] = i
    /\ book' = [book EXCEPT ![p] = None]
    /\ closed' = closed \cup {p}
    /\ disturbed' = disturbed \cup {i}
    /\ UNCHANGED <<balance, limit>>

Charge(i) ==
    /\ limit' = [limit EXCEPT ![i] = limit'[i]]
    /\ UNCHANGED <<book, closed, balance, disturbed>>

Next ==
    \/ \E i \in Invoice, p \in Payment : Settle(i, p) \/ Reverse(i, p) \/ Strike(i, p)
    \/ \E p \in Payment : Close(p)
    \/ \E i \in Invoice : Charge(i)

Spec == Init /\ [][Next]_vars
=============================================================================
