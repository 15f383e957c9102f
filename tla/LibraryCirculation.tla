------------------------- MODULE LibraryCirculation -------------------------
(***************************************************************************)
(* Lending of book copies: loans, their return, loss and cancellation,     *)
(* fines, and the edits of copies and members that interfere with them.    *)
(*   apps/api/src/library/library-circulation.service.ts                   *)
(*   apps/api/src/library/library-catalog.service.ts  (copies)             *)
(*   apps/api/src/library/library-members.service.ts                       *)
(*                                                                         *)
(* Each action of a Request is one SQL statement with the computation that *)
(* follows it.  The statements of a transaction take row locks, which its  *)
(* place implies (see HoldsMember, ...), and have their effect at commit:  *)
(* READ COMMITTED shows nobody else what is not committed.                 *)
(* A copy that is RESERVED, DAMAGED, in MAINTENANCE or INACTIVE is "OTHER".*)
(* Nothing sets a loan to OVERDUE; lateness is a matter of the due date.   *)
(***************************************************************************)
EXTENDS Integers, FiniteSets

CONSTANTS
    Loan,       \* ids of the rows of library_loans
    Copy,       \* ids of the rows of library_book_copies
    Member,     \* ids of the rows of library_members
    Request,    \* requests that can be in progress at the same time
    Limits,     \* the values maxLoan may be given
    Edits,      \* the statuses a librarian gives to copies by hand
    None        \* no loan, copy or member

ASSUME LimitsAssumption == Limits \subseteq Nat /\ Limits # {}
ASSUME EditsAssumption == Edits \subseteq {"AVAILABLE", "OTHER"}
ASSUME FiniteAssumption == IsFiniteSet(Loan) /\ IsFiniteSet(Request)
ASSUME NoneAssumption == None \notin Loan \cup Copy \cup Member

VARIABLES
    loan,       \* each loan: status, member, copy, and whether it is late
    fines,      \* number of fines for a late return of each loan
    copy,       \* each copy: status and deletedAt
    member,     \* each member: status, deletedAt and maxLoan
    req,        \* the state of each request
    highest,    \* history: the highest maxLoan a member has had
    disturbed   \* history: copies whose status was edited by hand, or that a
                \* request gave back whose loan had been closed already

vars == <<loan, fines, copy, member, req, highest, disturbed>>

NoLoan == [status |-> "NONE", member |-> None, copy |-> None, late |-> FALSE]
Idle == [at |-> "idle", loan |-> None, copy |-> None, member |-> None, max |-> 0,
         to |-> "NONE", late |-> FALSE]

Closed == {"RETURNED", "LOST", "CANCELLED"}
Active == {l \in Loan : loan[l].status = "BORROWED"}
LoansOf(m) == {l \in Active : loan[l].member = m}
LoansOn(c) == {l \in Active : loan[l].copy = c}

(* SELECT ... FOR UPDATE of the member, and the row locks of updates.      *)
HoldsMember(q) == req[q].at \in {"claim", "count", "insert"}
HoldsLoan(q) == req[q].at \in {"copy", "fine"}
HoldsCopy(q) == req[q].at \in {"count", "insert", "fine"}

MemberFree(m) == \A q \in Request : HoldsMember(q) => req[q].member # m
LoanFree(l) == \A q \in Request : HoldsLoan(q) => req[q].loan # l
CopyFree(c) == \A q \in Request : HoldsCopy(q) => req[q].copy # c

Goto(q, a) == req' = [req EXCEPT ![q].at = a]
Finish(q) == req' = [req EXCEPT ![q] = Idle]

-----------------------------------------------------------------------------
(* library-circulation.service.ts: createLoan                              *)

(* Bound: as many loans are in progress as there are ids left for them. *)
IdLeft ==
    Cardinality({q \in Request : req[q].at \in {"lock", "claim", "count", "insert"}})
        < Cardinality({l \in Loan : loan[l] = NoLoan})

(* The copy and the member are read, and what was read of the member is    *)
(* what counts below.                                                      *)
BorrowRead(q, m, c) ==
    /\ req[q] = Idle
    /\ IdLeft
    /\ ~copy[c].deleted
    /\ member[m].active /\ ~member[m].deleted
    /\ req' = [req EXCEPT ![q] = [Idle EXCEPT !.at = "lock", !.member = m, !.copy = c,
                                              !.max = member[m].max]]
    /\ UNCHANGED <<loan, fines, copy, member, highest, disturbed>>

(* Variant with a defect: the member is read without FOR UPDATE. *)
LockMember_PlainSelect(q) ==
    /\ req[q].at = "lock"
    /\ Goto(q, "claim")
    /\ UNCHANGED <<loan, fines, copy, member, highest, disturbed>>

(* A fine that is being inserted for the member also holds on to its row,  *)
(* but it commits in the same step.                                        *)
LockMember(q) ==
    /\ req[q].at = "lock"
    /\ MemberFree(req[q].member)
    /\ Goto(q, "claim")
    /\ UNCHANGED <<loan, fines, copy, member, highest, disturbed>>

(* Variant with a defect: the copy is claimed by id, whatever its status. *)
ClaimCopy_ById(q) ==
    /\ req[q].at = "claim"
    /\ CopyFree(req[q].copy)
    /\ Goto(q, "count")
    /\ UNCHANGED <<loan, fines, copy, member, highest, disturbed>>

(* UPDATE ... SET status = BORROWED WHERE id = ... AND status = AVAILABLE, *)
(* or "Copy is not available".                                             *)
ClaimCopy(q) ==
    /\ req[q].at = "claim"
    /\ CopyFree(req[q].copy)
    /\ IF copy[req[q].copy].status = "AVAILABLE" THEN Goto(q, "count") ELSE Finish(q)
    /\ UNCHANGED <<loan, fines, copy, member, highest, disturbed>>

CountLoans(q) ==
    /\ req[q].at = "count"
    /\ IF Cardinality(LoansOf(req[q].member)) < req[q].max THEN Goto(q, "insert") ELSE Finish(q)
    /\ UNCHANGED <<loan, fines, copy, member, highest, disturbed>>

CreateLoan(q, l) ==
    /\ req[q].at = "insert"
    /\ loan[l] = NoLoan
    /\ loan' = [loan EXCEPT ![l] = [status |-> "BORROWED", member |-> req[q].member,
                                    copy |-> req[q].copy, late |-> FALSE]]
    /\ copy' = [copy EXCEPT ![req[q].copy].status = "BORROWED"]
    /\ Finish(q)
    /\ UNCHANGED <<fines, member, highest, disturbed>>

-----------------------------------------------------------------------------
(* returnLoan, markLostLoan and cancelLoan                                 *)

DueDatePasses(l) ==
    /\ l \in Active
    /\ ~loan[l].late
    /\ loan' = [loan EXCEPT ![l].late = TRUE]
    /\ UNCHANGED <<fines, copy, member, req, highest, disturbed>>

(* The loan is read, and the amount of the fine follows from what was read.*)
CloseRead(q, l, to) ==
    /\ req[q] = Idle
    /\ l \in Active
    /\ req' = [req EXCEPT ![q] = [at |-> "close", loan |-> l, copy |-> loan[l].copy,
                                  member |-> loan[l].member, max |-> 0, to |-> to,
                                  late |-> to = "RETURNED" /\ loan[l].late]]
    /\ UNCHANGED <<loan, fines, copy, member, highest, disturbed>>

(* First the loan is updated by id, ... *)
CloseLoan(q) ==
    /\ req[q].at = "close"
    /\ LoanFree(req[q].loan)
    /\ Goto(q, "copy")
    /\ UNCHANGED <<loan, fines, copy, member, highest, disturbed>>

(* ... then its copy ... *)
CloseCopy(q) ==
    /\ req[q].at = "copy"
    /\ CopyFree(req[q].copy)
    /\ Goto(q, "fine")
    /\ UNCHANGED <<loan, fines, copy, member, highest, disturbed>>

StatusOfCopy(to) == IF to = "LOST" THEN "LOST" ELSE "AVAILABLE"

(* ... and a fine is inserted, whose foreign key needs the member's row.   *)
CloseCommit(q) ==
    /\ req[q].at = "fine"
    /\ req[q].late => MemberFree(req[q].member)
    /\ loan' = [loan EXCEPT ![req[q].loan].status = req[q].to]
    /\ copy' = [copy EXCEPT ![req[q].copy].status = StatusOfCopy(req[q].to)]
    /\ fines' = IF req[q].late THEN [fines EXCEPT ![req[q].loan] = @ + 1] ELSE fines
    /\ disturbed' = IF req[q].loan \in Active THEN disturbed ELSE disturbed \cup {req[q].copy}
    /\ Finish(q)
    /\ UNCHANGED <<member, highest>>

-----------------------------------------------------------------------------
(* Editing                                                                 *)

(* updateCopy by a librarian; the read before it only looks at the code. *)
UpdateCopy(c, status) ==
    /\ ~copy[c].deleted
    /\ CopyFree(c)
    /\ copy' = [copy EXCEPT ![c].status = status]
    /\ disturbed' = disturbed \cup {c}
    /\ UNCHANGED <<loan, fines, member, req, highest>>

DeleteCopyRead(q, c) ==
    /\ req[q] = Idle
    /\ ~copy[c].deleted
    /\ LoansOn(c) = {}
    /\ req' = [req EXCEPT ![q] = [Idle EXCEPT !.at = "deleteCopy", !.copy = c]]
    /\ UNCHANGED <<loan, fines, copy, member, highest, disturbed>>

DeleteCopy(q) ==
    /\ req[q].at = "deleteCopy"
    /\ CopyFree(req[q].copy)
    /\ copy' = [copy EXCEPT ![req[q].copy].deleted = TRUE]
    /\ Finish(q)
    /\ UNCHANGED <<loan, fines, member, highest, disturbed>>

UpdateMember(m, active, max) ==
    /\ ~member[m].deleted
    /\ MemberFree(m)
    /\ member' = [member EXCEPT ![m].active = active, ![m].max = max]
    /\ highest' = [highest EXCEPT ![m] = IF max > @ THEN max ELSE @]
    /\ UNCHANGED <<loan, fines, copy, req, disturbed>>

DeleteMemberRead(q, m) ==
    /\ req[q] = Idle
    /\ ~member[m].deleted
    /\ LoansOf(m) = {}
    /\ req' = [req EXCEPT ![q] = [Idle EXCEPT !.at = "deleteMember", !.member = m]]
    /\ UNCHANGED <<loan, fines, copy, member, highest, disturbed>>

DeleteMember(q) ==
    /\ req[q].at = "deleteMember"
    /\ MemberFree(req[q].member)
    /\ member' = [member EXCEPT ![req[q].member].deleted = TRUE]
    /\ Finish(q)
    /\ UNCHANGED <<loan, fines, copy, highest, disturbed>>

(* Who waits for whose lock. *)
WaitsFor(q, r) ==
    /\ q # r
    /\ \/ req[q].at = "lock" /\ HoldsMember(r) /\ req[r].member = req[q].member
       \/ req[q].at = "claim" /\ HoldsCopy(r) /\ req[r].copy = req[q].copy
       \/ req[q].at = "close" /\ HoldsLoan(r) /\ req[r].loan = req[q].loan
       \/ req[q].at = "copy" /\ HoldsCopy(r) /\ req[r].copy = req[q].copy
       \/ req[q].at = "fine" /\ req[q].late /\ HoldsMember(r) /\ req[r].member = req[q].member

(* PostgreSQL rolls back one of two transactions that wait for each other: *)
(* a loan that waits for the copy a late return of its member is about to  *)
(* give back, and that return, which waits for the member.                 *)
DeadlockVictim(q) ==
    /\ \E r \in Request : WaitsFor(q, r) /\ WaitsFor(r, q)
    /\ Finish(q)
    /\ UNCHANGED <<loan, fines, copy, member, highest, disturbed>>

(* The process or the connection fails, and a transaction is rolled back. *)
Abandon(q) ==
    /\ req[q] # Idle
    /\ Finish(q)
    /\ UNCHANGED <<loan, fines, copy, member, highest, disturbed>>

-----------------------------------------------------------------------------
Init ==
    /\ loan = [l \in Loan |-> NoLoan]
    /\ fines = [l \in Loan |-> 0]
    /\ copy = [c \in Copy |-> [status |-> "AVAILABLE", deleted |-> FALSE]]
    /\ member \in [Member -> [active : {TRUE}, deleted : {FALSE}, max : Limits]]
    /\ req = [q \in Request |-> Idle]
    /\ highest = [m \in Member |-> member[m].max]
    /\ disturbed = {}

Borrow(q) ==
    \/ \E m \in Member, c \in Copy : BorrowRead(q, m, c)
    \/ LockMember(q) \/ ClaimCopy(q) \/ CountLoans(q)
    \/ \E l \in Loan : CreateLoan(q, l)

Close(q) ==
    \/ \E l \in Loan, to \in Closed : CloseRead(q, l, to)
    \/ CloseLoan(q) \/ CloseCopy(q) \/ CloseCommit(q)

Delete(q) ==
    \/ \E c \in Copy : DeleteCopyRead(q, c)
    \/ \E m \in Member : DeleteMemberRead(q, m)
    \/ DeleteCopy(q) \/ DeleteMember(q)

Next ==
    \/ \E q \in Request : Borrow(q) \/ Close(q) \/ Delete(q) \/ DeadlockVictim(q) \/ Abandon(q)
    \/ \E l \in Loan : DueDatePasses(l)
    \/ \E c \in Copy, s \in Edits : UpdateCopy(c, s)
    \/ \E m \in Member, active \in BOOLEAN, max \in Limits : UpdateMember(m, active, max)

Spec == Init /\ [][Next]_vars

-----------------------------------------------------------------------------
(* Every variable holds a value of its type. *)
TypeOK ==
    /\ loan \in [Loan -> [status : {"NONE", "BORROWED"} \cup Closed, member : Member \cup {None},
                          copy : Copy \cup {None}, late : BOOLEAN]]
    /\ fines \in [Loan -> Nat]
    /\ copy \in [Copy -> [status : {"AVAILABLE", "BORROWED", "LOST", "OTHER"}, deleted : BOOLEAN]]
    /\ member \in [Member -> [active : BOOLEAN, deleted : BOOLEAN, max : Limits]]
    /\ req \in [Request -> [at : {"idle", "lock", "claim", "count", "insert", "close", "copy", "fine",
                                  "deleteCopy", "deleteMember"},
                            loan : Loan \cup {None}, copy : Copy \cup {None},
                            member : Member \cup {None}, max : Nat,
                            to : {"NONE"} \cup Closed, late : BOOLEAN]]
    /\ highest \in [Member -> Nat]
    /\ disturbed \subseteq Copy

(* A member never has more loans than it was ever allowed, although the    *)
(* limit is checked by a count that a second request might make at the     *)
(* same time: that is what the member's row is locked for.                 *)
LoanLimitHeld ==
    \A m \in Member : Cardinality(LoansOf(m)) <= highest[m]

(* A copy is BORROWED exactly while it is on loan, to one member, and a    *)
(* loan is fined once; unless somebody edited the status of the copy, or   *)
(* closed a loan of it a second time.                                      *)
LentOnce ==
    \A c \in Copy \ disturbed :
        /\ \A k, l \in LoansOn(c) : k = l
        /\ copy[c].status = "BORROWED" <=> LoansOn(c) # {}
        /\ \A l \in Loan : loan[l].copy = c => fines[l] <= 1

-----------------------------------------------------------------------------
(* What error messages of the code say, and a run refutes.                 *)

(* library-circulation.service.ts:84 "Copy is not available": as long as   *)
(* nobody edits copies, a copy that is on loan is not lent again.          *)
NotLentTwice ==
    \A c \in Copy : \A k, l \in LoansOn(c) : k = l
=============================================================================
