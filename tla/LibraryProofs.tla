--------------------------- MODULE LibraryProofs ----------------------------
(***************************************************************************)
(* Theorems about LibraryCirculation, for any number of copies, members,   *)
(* loans and requests and any limits: type correctness, the loan limit,    *)
(* and the agreement of a copy with its loans and fines.                   *)
(***************************************************************************)
EXTENDS LibraryCirculation, FiniteSetTheorems, TLAPS

USE LimitsAssumption, EditsAssumption, FiniteAssumption, NoneAssumption

Borrowing(q) == req[q].at \in {"lock", "claim", "count", "insert"}
Closing(q) == req[q].at \in {"close", "copy", "fine"}

(* What a request works on exists, and is what it was read as.             *)
RequestsAgree ==
    \A q \in Request :
        /\ Borrowing(q) => /\ req[q].member \in Member /\ req[q].copy \in Copy
                           /\ req[q].max <= highest[req[q].member]
        /\ Closing(q) => /\ req[q].loan \in Loan /\ req[q].copy \in Copy /\ req[q].to \in Closed
                         /\ loan[req[q].loan].status # "NONE"
                         /\ loan[req[q].loan].copy = req[q].copy
        /\ req[q].at = "deleteCopy" => req[q].copy \in Copy
        /\ req[q].at = "deleteMember" => req[q].member \in Member

LoansAgree ==
    \A l \in Loan :
        /\ loan[l].status # "NONE" => loan[l].copy \in Copy
        /\ loan[l].status \in {"NONE", "BORROWED"} => fines[l] = 0

(* One request at most holds a member, and one that is about to insert a   *)
(* loan has counted fewer than the limit it has read.                      *)
MemberExclusive ==
    /\ \A q, r \in Request :
          HoldsMember(q) /\ HoldsMember(r) /\ req[q].member = req[r].member => q = r
    /\ \A q \in Request : req[q].at = "insert" => Cardinality(LoansOf(req[q].member)) < req[q].max

(* One request at most holds a copy, and one that has claimed it found it  *)
(* AVAILABLE, as it still is for everybody else.                           *)
CopyExclusive ==
    /\ \A q, r \in Request :
          HoldsCopy(q) /\ HoldsCopy(r) /\ req[q].copy = req[r].copy => q = r
    /\ \A q \in Request : req[q].at \in {"count", "insert"} => copy[req[q].copy].status = "AVAILABLE"

(* The highest limit of a member is not below the present one.             *)
HighestIsHighest == \A m \in Member : member[m].max <= highest[m]

IInv ==
    /\ TypeOK /\ RequestsAgree /\ LoansAgree /\ HighestIsHighest
    /\ MemberExclusive /\ LoanLimitHeld
    /\ CopyExclusive /\ LentOnce

-----------------------------------------------------------------------------
(* The steps                                                               *)

(* The steps of a request that write nothing that others see.              *)
RequestStep(q) ==
    \/ \E m \in Member, c \in Copy : BorrowRead(q, m, c)
    \/ LockMember(q) \/ ClaimCopy(q) \/ CountLoans(q)
    \/ \E l \in Loan, to \in Closed : CloseRead(q, l, to)
    \/ CloseLoan(q) \/ CloseCopy(q)
    \/ \E c \in Copy : DeleteCopyRead(q, c)
    \/ \E m \in Member : DeleteMemberRead(q, m)
    \/ DeadlockVictim(q) \/ Abandon(q)

LEMMA NextCases ==
    ASSUME [Next]_vars
    PROVE  \/ \E q \in Request : RequestStep(q)
           \/ \E q \in Request, l \in Loan : CreateLoan(q, l)
           \/ \E q \in Request : CloseCommit(q)
           \/ \E q \in Request : DeleteCopy(q)
           \/ \E q \in Request : DeleteMember(q)
           \/ \E l \in Loan : DueDatePasses(l)
           \/ \E c \in Copy, s \in Edits : UpdateCopy(c, s)
           \/ \E m \in Member, active \in BOOLEAN, max \in Limits : UpdateMember(m, active, max)
           \/ UNCHANGED vars
  BY DEF Next, Borrow, Close, Delete, RequestStep

RequestState ==
    [at : {"idle", "lock", "claim", "count", "insert", "close", "copy", "fine",
           "deleteCopy", "deleteMember"},
     loan : Loan \cup {None}, copy : Copy \cup {None}, member : Member \cup {None},
     max : Nat, to : {"NONE"} \cup Closed, late : BOOLEAN]

LoanState == [status : {"NONE", "BORROWED"} \cup Closed, member : Member \cup {None},
              copy : Copy \cup {None}, late : BOOLEAN]
CopyState == [status : {"AVAILABLE", "BORROWED", "LOST", "OTHER"}, deleted : BOOLEAN]
MemberState == [active : BOOLEAN, deleted : BOOLEAN, max : Limits]

LEMMA StateTypes ==
    TypeOK <=> /\ loan \in [Loan -> LoanState] /\ fines \in [Loan -> Nat]
               /\ copy \in [Copy -> CopyState] /\ member \in [Member -> MemberState]
               /\ req \in [Request -> RequestState]
               /\ highest \in [Member -> Nat] /\ disturbed \subseteq Copy
  BY DEF TypeOK, LoanState, CopyState, MemberState, RequestState

(* An edit of one field leaves a row of its type.                          *)
LEMMA RowEdits ==
    /\ \A x \in LoanState : /\ \A s \in Closed : [x EXCEPT !.status = s] \in LoanState
                            /\ [x EXCEPT !.late = TRUE] \in LoanState
    /\ \A x \in CopyState :
          /\ \A s \in {"AVAILABLE", "BORROWED", "LOST", "OTHER"} :
                [x EXCEPT !.status = s] \in CopyState
          /\ [x EXCEPT !.deleted = TRUE] \in CopyState
    /\ \A x \in MemberState :
          /\ [x EXCEPT !.deleted = TRUE] \in MemberState
          /\ \A active \in BOOLEAN, max \in Limits :
                [x EXCEPT !.active = active, !.max = max] \in MemberState
  BY DEF LoanState, CopyState, MemberState

LEMMA RequestType ==
    ASSUME TypeOK
    PROVE  req \in [Request -> RequestState] /\ Idle \in RequestState
  BY DEF TypeOK, RequestState, Idle, Closed

LEMMA RequestStepFrame ==
    ASSUME TypeOK, NEW q \in Request, RequestStep(q)
    PROVE  /\ UNCHANGED <<loan, fines, copy, member, highest, disturbed>>
           /\ \A r \in Request \ {q} : req'[r] = req[r]
           /\ req' \in [Request -> RequestState]
<1>1. req \in [Request -> RequestState] /\ Idle \in RequestState
  BY RequestType
<1>2. ASSUME NEW m \in Member, NEW c \in Copy, BorrowRead(q, m, c)
      PROVE  /\ UNCHANGED <<loan, fines, copy, member, highest, disturbed>>
             /\ \A r \in Request \ {q} : req'[r] = req[r]
             /\ req' \in [Request -> RequestState]
  <2>1. member[m].max \in Nat
    BY DEF TypeOK
  <2>2. [Idle EXCEPT !.at = "lock", !.member = m, !.copy = c, !.max = member[m].max]
           \in RequestState
    BY <1>1, <2>1 DEF RequestState, Idle
  <2> QED
    BY <1>1, <1>2, <2>2 DEF BorrowRead
<1>3. ASSUME NEW s \in {"claim", "count", "insert", "copy", "fine"}, Goto(q, s)
      PROVE  /\ \A r \in Request \ {q} : req'[r] = req[r]
             /\ req' \in [Request -> RequestState]
  <2>1. [req[q] EXCEPT !.at = s] \in RequestState
    BY <1>1 DEF RequestState
  <2> QED
    BY <1>1, <1>3, <2>1 DEF Goto
<1>4. ASSUME Finish(q)
      PROVE  /\ \A r \in Request \ {q} : req'[r] = req[r]
             /\ req' \in [Request -> RequestState]
  BY <1>1, <1>4 DEF Finish
<1>5. CASE LockMember(q) \/ ClaimCopy(q) \/ CountLoans(q) \/ CloseLoan(q) \/ CloseCopy(q)
  BY <1>3, <1>4, <1>5 DEF LockMember, ClaimCopy, CountLoans, CloseLoan, CloseCopy
<1>6. ASSUME NEW l \in Loan, NEW to \in Closed, CloseRead(q, l, to)
      PROVE  /\ UNCHANGED <<loan, fines, copy, member, highest, disturbed>>
             /\ \A r \in Request \ {q} : req'[r] = req[r]
             /\ req' \in [Request -> RequestState]
  <2>1. /\ loan[l].copy \in Copy \cup {None} /\ loan[l].member \in Member \cup {None}
        /\ loan[l].late \in BOOLEAN
    BY DEF TypeOK
  <2>2. [at |-> "close", loan |-> l, copy |-> loan[l].copy, member |-> loan[l].member,
         max |-> 0, to |-> to, late |-> to = "RETURNED" /\ loan[l].late] \in RequestState
    BY <2>1 DEF RequestState
  <2> QED
    BY <1>1, <1>6, <2>2 DEF CloseRead
<1>7. ASSUME NEW c \in Copy, DeleteCopyRead(q, c)
      PROVE  /\ UNCHANGED <<loan, fines, copy, member, highest, disturbed>>
             /\ \A r \in Request \ {q} : req'[r] = req[r]
             /\ req' \in [Request -> RequestState]
  <2>1. [Idle EXCEPT !.at = "deleteCopy", !.copy = c] \in RequestState
    BY <1>1 DEF RequestState
  <2> QED
    BY <1>1, <1>7, <2>1 DEF DeleteCopyRead
<1>8. ASSUME NEW m \in Member, DeleteMemberRead(q, m)
      PROVE  /\ UNCHANGED <<loan, fines, copy, member, highest, disturbed>>
             /\ \A r \in Request \ {q} : req'[r] = req[r]
             /\ req' \in [Request -> RequestState]
  <2>1. [Idle EXCEPT !.at = "deleteMember", !.member = m] \in RequestState
    BY <1>1 DEF RequestState
  <2> QED
    BY <1>1, <1>8, <2>1 DEF DeleteMemberRead
<1>9. CASE DeadlockVictim(q) \/ Abandon(q)
  BY <1>4, <1>9 DEF DeadlockVictim, Abandon
<1> QED
  BY <1>2, <1>5, <1>6, <1>7, <1>8, <1>9 DEF RequestStep

(* What a request is after such a step, where the invariants ask.          *)
LEMMA RequestStepMoves ==
    ASSUME TypeOK, RequestsAgree, LoansAgree, NEW q \in Request, RequestStep(q)
    PROVE  /\ Borrowing(q)' => /\ req'[q].member \in Member /\ req'[q].copy \in Copy
                               /\ \/ req'[q].max <= highest[req'[q].member]
                                  \/ req'[q].max = member[req'[q].member].max
           /\ Closing(q)' => /\ req'[q].loan \in Loan /\ req'[q].copy \in Copy
                             /\ req'[q].to \in Closed
                             /\ loan[req'[q].loan].status # "NONE"
                             /\ loan[req'[q].loan].copy = req'[q].copy
           /\ req'[q].at = "deleteCopy" => req'[q].copy \in Copy
           /\ req'[q].at = "deleteMember" => req'[q].member \in Member
           /\ HoldsMember(q)' => \/ HoldsMember(q) /\ req'[q].member = req[q].member
                                 \/ MemberFree(req'[q].member)
           /\ HoldsCopy(q)' => \/ HoldsCopy(q) /\ req'[q].copy = req[q].copy
                               \/ CopyFree(req'[q].copy)
           /\ req'[q].at = "insert" => Cardinality(LoansOf(req'[q].member)) < req'[q].max
           /\ req'[q].at \in {"count", "insert"} =>
                 \/ copy[req'[q].copy].status = "AVAILABLE"
                 \/ req[q].at = "count" /\ req'[q].copy = req[q].copy
<1> USE DEF Borrowing, Closing, HoldsMember, HoldsCopy
<1>1. ASSUME NEW m \in Member, NEW c \in Copy, BorrowRead(q, m, c)
      PROVE  /\ req'[q].at = "lock" /\ req'[q].member = m /\ req'[q].copy = c
             /\ req'[q].max = member[m].max
  BY <1>1 DEF TypeOK, BorrowRead, Idle
<1>2. ASSUME Finish(q) PROVE req'[q].at = "idle"
  BY <1>2 DEF TypeOK, Finish, Idle
<1>3. ASSUME NEW s, Goto(q, s)
      PROVE  /\ req'[q].at = s /\ req'[q].member = req[q].member /\ req'[q].copy = req[q].copy
             /\ req'[q].max = req[q].max /\ req'[q].loan = req[q].loan /\ req'[q].to = req[q].to
  BY <1>3 DEF TypeOK, Goto
<1>4. ASSUME NEW l \in Loan, NEW to \in Closed, CloseRead(q, l, to)
      PROVE  /\ req'[q].at = "close" /\ req'[q].loan = l /\ req'[q].copy = loan[l].copy
             /\ req'[q].to = to /\ loan[l].status = "BORROWED" /\ loan[l].copy \in Copy
  BY <1>4 DEF TypeOK, CloseRead, LoansAgree, Active
<1>5. ASSUME NEW c \in Copy, DeleteCopyRead(q, c)
      PROVE  req'[q].at = "deleteCopy" /\ req'[q].copy = c
  BY <1>5 DEF TypeOK, DeleteCopyRead, Idle
<1>6. ASSUME NEW m \in Member, DeleteMemberRead(q, m)
      PROVE  req'[q].at = "deleteMember" /\ req'[q].member = m
  BY <1>6 DEF TypeOK, DeleteMemberRead, Idle
<1>7. CASE LockMember(q)
  BY <1>3, <1>7 DEF LockMember, RequestsAgree
<1>8. CASE ClaimCopy(q)
  BY <1>2, <1>3, <1>8 DEF ClaimCopy, RequestsAgree
<1>9. CASE CountLoans(q)
  BY <1>2, <1>3, <1>9 DEF CountLoans, RequestsAgree
<1>10. CASE CloseLoan(q)
  BY <1>3, <1>10 DEF CloseLoan, RequestsAgree
<1>11. CASE CloseCopy(q)
  BY <1>3, <1>11 DEF CloseCopy, RequestsAgree
<1>12. CASE DeadlockVictim(q) \/ Abandon(q)
  BY <1>2, <1>12 DEF DeadlockVictim, Abandon
<1> QED
  BY <1>1, <1>4, <1>5, <1>6, <1>7, <1>8, <1>9, <1>10, <1>11, <1>12 DEF RequestStep

(* The end of a request: it is idle, and the others are as they were.      *)
LEMMA Finishes ==
    ASSUME TypeOK, NEW q \in Request, Finish(q)
    PROVE  /\ req' \in [Request -> RequestState] /\ req'[q].at = "idle"
           /\ \A r \in Request \ {q} : req'[r] = req[r]
<1>1. req' = [req EXCEPT ![q] = Idle]
  BY DEF Finish
<1>2. Idle.at = "idle"
  BY DEF Idle
<1> QED
  BY <1>1, <1>2, RequestType

LEMMA ActiveFinite ==
    ASSUME NEW S \in SUBSET Loan
    PROVE  IsFiniteSet(S) /\ Cardinality(S) \in Nat
  BY FS_Subset, FS_CardinalityType

(* A new loan is one of its member and of its copy, and no other changes.  *)
LEMMA Lends ==
    ASSUME TypeOK, RequestsAgree, NEW q \in Request, NEW l \in Loan, CreateLoan(q, l)
    PROVE  /\ l \notin Active /\ req[q].member \in Member /\ req[q].copy \in Copy
           /\ loan[l].status = "NONE"
           /\ loan'[l] = [status |-> "BORROWED", member |-> req[q].member,
                          copy |-> req[q].copy, late |-> FALSE]
           /\ \A k \in Loan \ {l} : loan'[k] = loan[k]
           /\ \A c \in Copy \ {req[q].copy} : copy'[c] = copy[c]
           /\ copy'[req[q].copy].status = "BORROWED"
<1>1. req[q].member \in Member /\ req[q].copy \in Copy
  BY DEF RequestsAgree, Borrowing, CreateLoan
<1>2. /\ loan[l] = NoLoan
      /\ loan'[l] = [status |-> "BORROWED", member |-> req[q].member,
                     copy |-> req[q].copy, late |-> FALSE]
      /\ \A k \in Loan \ {l} : loan'[k] = loan[k]
  BY DEF TypeOK, CreateLoan
<1>3. /\ \A c \in Copy \ {req[q].copy} : copy'[c] = copy[c]
      /\ copy'[req[q].copy].status = "BORROWED"
  BY <1>1 DEF TypeOK, CreateLoan
<1>4. loan[l].status = "NONE" /\ l \notin Active /\ Active' = Active \cup {l}
  BY <1>2 DEF NoLoan, Active
<1> QED
  BY <1>1, <1>2, <1>3, <1>4

LEMMA LentLoans ==
    ASSUME TypeOK, RequestsAgree, NEW q \in Request, NEW l \in Loan, CreateLoan(q, l)
    PROVE  /\ \A m \in Member : \/ m = req[q].member /\ LoansOf(m)' = LoansOf(m) \cup {l}
                                \/ m # req[q].member /\ LoansOf(m)' = LoansOf(m)
           /\ \A c \in Copy : \/ c = req[q].copy /\ LoansOn(c)' = LoansOn(c) \cup {l}
                              \/ c # req[q].copy /\ LoansOn(c)' = LoansOn(c)
<1>1. /\ loan[l].status = "NONE" /\ \A k \in Loan \ {l} : loan'[k] = loan[k]
      /\ loan'[l] = [status |-> "BORROWED", member |-> req[q].member,
                     copy |-> req[q].copy, late |-> FALSE]
  BY Lends
<1>2. Active' = Active \cup {l} /\ \A k \in Active : loan'[k] = loan[k]
  BY <1>1 DEF Active
<1>3. ASSUME NEW m \in Member
      PROVE  \/ m = req[q].member /\ LoansOf(m)' = LoansOf(m) \cup {l}
             \/ m # req[q].member /\ LoansOf(m)' = LoansOf(m)
  <2>1. LoansOf(m)' = {k \in Active \cup {l} : loan'[k].member = m}
    BY <1>2 DEF LoansOf
  <2> QED
    BY <1>1, <1>2, <2>1 DEF LoansOf
<1>4. ASSUME NEW c \in Copy
      PROVE  \/ c = req[q].copy /\ LoansOn(c)' = LoansOn(c) \cup {l}
             \/ c # req[q].copy /\ LoansOn(c)' = LoansOn(c)
  <2>1. LoansOn(c)' = {k \in Active \cup {l} : loan'[k].copy = c}
    BY <1>2 DEF LoansOn
  <2> QED
    BY <1>1, <1>2, <2>1 DEF LoansOn
<1> QED
  BY <1>3, <1>4

(* Closing a loan takes it, and no other, off its member and its copy.     *)
LEMMA Closes ==
    ASSUME TypeOK, RequestsAgree, NEW q \in Request, CloseCommit(q)
    PROVE  /\ req[q].loan \in Loan /\ req[q].copy \in Copy /\ req[q].to \in Closed
           /\ loan[req[q].loan].status # "NONE" /\ loan[req[q].loan].copy = req[q].copy
           /\ loan'[req[q].loan].status = req[q].to
           /\ \A k \in Loan : loan'[k].copy = loan[k].copy /\ loan'[k].member = loan[k].member
           /\ \A k \in Loan \ {req[q].loan} : loan'[k] = loan[k]
           /\ \A c \in Copy \ {req[q].copy} : copy'[c] = copy[c]
           /\ copy'[req[q].copy].status \in {"AVAILABLE", "LOST"}
           /\ Active' = Active \ {req[q].loan}
           /\ \A k \in Loan : fines'[k] = fines[k] \/ (k = req[q].loan /\ fines'[k] = fines[k] + 1)
<1>1. /\ req[q].loan \in Loan /\ req[q].copy \in Copy /\ req[q].to \in Closed
      /\ loan[req[q].loan].status # "NONE" /\ loan[req[q].loan].copy = req[q].copy
  BY DEF RequestsAgree, Closing, CloseCommit
<1>2. /\ loan'[req[q].loan].status = req[q].to
      /\ \A k \in Loan : loan'[k].copy = loan[k].copy /\ loan'[k].member = loan[k].member
      /\ \A k \in Loan \ {req[q].loan} : loan'[k] = loan[k]
  BY <1>1 DEF TypeOK, CloseCommit
<1>3. /\ \A c \in Copy \ {req[q].copy} : copy'[c] = copy[c]
      /\ copy'[req[q].copy].status \in {"AVAILABLE", "LOST"}
  BY <1>1 DEF TypeOK, CloseCommit, StatusOfCopy
<1>4. Active' = Active \ {req[q].loan}
  <2>1. loan'[req[q].loan].status # "BORROWED"
    BY <1>1, <1>2 DEF Closed
  <2>2. \A k \in Loan : loan'[k].status = "BORROWED"
                         <=> loan[k].status = "BORROWED" /\ k # req[q].loan
    BY <1>2, <2>1
  <2> QED
    BY <2>2 DEF Active
<1>5. \A k \in Loan : fines'[k] = fines[k] \/ (k = req[q].loan /\ fines'[k] = fines[k] + 1)
  BY <1>1 DEF TypeOK, CloseCommit
<1> QED
  BY <1>1, <1>2, <1>3, <1>4, <1>5

-----------------------------------------------------------------------------
(* Type correctness                                                        *)

LEMMA InitTypeOK == Init => TypeOK
<1> SUFFICES ASSUME Init PROVE TypeOK
  OBVIOUS
<1>1. NoLoan \in [status : {"NONE", "BORROWED"} \cup Closed, member : Member \cup {None},
                  copy : Copy \cup {None}, late : BOOLEAN]
  BY DEF NoLoan
<1>2. Idle \in RequestState
  BY DEF Idle, RequestState
<1>3. /\ member \in [Member -> [active : BOOLEAN, deleted : BOOLEAN, max : Limits]]
      /\ highest \in [Member -> Nat]
  BY DEF Init
<1>4. copy \in [Copy -> [status : {"AVAILABLE", "BORROWED", "LOST", "OTHER"}, deleted : BOOLEAN]]
  BY DEF Init
<1> QED
  BY <1>1, <1>2, <1>3, <1>4 DEF Init, TypeOK, RequestState

LEMMA NextTypeOK == TypeOK /\ RequestsAgree /\ [Next]_vars => TypeOK'
<1> SUFFICES ASSUME TypeOK, RequestsAgree, [Next]_vars PROVE TypeOK'
  OBVIOUS
<1>0. /\ loan \in [Loan -> LoanState] /\ fines \in [Loan -> Nat]
      /\ copy \in [Copy -> CopyState] /\ member \in [Member -> MemberState]
      /\ req \in [Request -> RequestState]
      /\ highest \in [Member -> Nat] /\ disturbed \subseteq Copy
  BY StateTypes
<1> SUFFICES /\ loan' \in [Loan -> LoanState] /\ fines' \in [Loan -> Nat]
             /\ copy' \in [Copy -> CopyState] /\ member' \in [Member -> MemberState]
             /\ req' \in [Request -> RequestState]
             /\ highest' \in [Member -> Nat] /\ disturbed' \subseteq Copy
  BY DEF TypeOK, LoanState, CopyState, MemberState, RequestState
<1>1. CASE \E q \in Request : RequestStep(q)
  BY <1>0, <1>1, RequestStepFrame
<1>2. ASSUME NEW q \in Request, NEW l \in Loan, CreateLoan(q, l)
      PROVE  /\ loan' \in [Loan -> LoanState] /\ copy' \in [Copy -> CopyState]
             /\ req' \in [Request -> RequestState]
             /\ UNCHANGED <<fines, member, highest, disturbed>>
  <2>1. req' \in [Request -> RequestState] /\ UNCHANGED <<fines, member, highest, disturbed>>
    BY <1>2, Finishes DEF CreateLoan
  <2>2. req[q].member \in Member /\ req[q].copy \in Copy
    BY <1>2, Lends
  <2>3. [status |-> "BORROWED", member |-> req[q].member, copy |-> req[q].copy, late |-> FALSE]
           \in LoanState
    BY <2>2 DEF LoanState
  <2>4. [copy[req[q].copy] EXCEPT !.status = "BORROWED"] \in CopyState
    BY <1>0, <2>2, RowEdits
  <2> QED
    BY <1>0, <1>2, <2>1, <2>3, <2>4 DEF CreateLoan
<1>3. ASSUME NEW q \in Request, CloseCommit(q)
      PROVE  /\ loan' \in [Loan -> LoanState] /\ copy' \in [Copy -> CopyState]
             /\ req' \in [Request -> RequestState]
             /\ fines' \in [Loan -> Nat] /\ disturbed' \subseteq Copy
             /\ UNCHANGED <<member, highest>>
  <2>0. req[q].loan \in Loan /\ req[q].copy \in Copy /\ req[q].to \in Closed
    BY <1>3, Closes
  <2>1. req' \in [Request -> RequestState] /\ UNCHANGED <<member, highest>>
    BY <1>3, Finishes DEF CloseCommit
  <2>2. [loan[req[q].loan] EXCEPT !.status = req[q].to] \in LoanState
    BY <1>0, <2>0, RowEdits
  <2>3. StatusOfCopy(req[q].to) \in {"AVAILABLE", "BORROWED", "LOST", "OTHER"}
    BY DEF StatusOfCopy
  <2>4. [copy[req[q].copy] EXCEPT !.status = StatusOfCopy(req[q].to)] \in CopyState
    BY <1>0, <2>0, <2>3, RowEdits
  <2>5. fines' \in [Loan -> Nat] /\ disturbed' \subseteq Copy
    BY <1>0, <1>3, <2>0 DEF CloseCommit
  <2> QED
    BY <1>0, <1>3, <2>1, <2>2, <2>4, <2>5 DEF CloseCommit
<1>4. ASSUME NEW q \in Request, DeleteCopy(q)
      PROVE  /\ copy' \in [Copy -> CopyState] /\ req' \in [Request -> RequestState]
             /\ UNCHANGED <<loan, fines, member, highest, disturbed>>
  <2>1. req[q].copy \in Copy
    BY <1>4 DEF RequestsAgree, DeleteCopy
  <2>2. [copy[req[q].copy] EXCEPT !.deleted = TRUE] \in CopyState
    BY <1>0, <2>1, RowEdits
  <2> QED
    BY <1>0, <1>4, <2>2, Finishes DEF DeleteCopy
<1>5. ASSUME NEW q \in Request, DeleteMember(q)
      PROVE  /\ member' \in [Member -> MemberState] /\ req' \in [Request -> RequestState]
             /\ UNCHANGED <<loan, fines, copy, highest, disturbed>>
  <2>1. req[q].member \in Member
    BY <1>5 DEF RequestsAgree, DeleteMember
  <2>2. [member[req[q].member] EXCEPT !.deleted = TRUE] \in MemberState
    BY <1>0, <2>1, RowEdits
  <2> QED
    BY <1>0, <1>5, <2>2, Finishes DEF DeleteMember
<1>6. ASSUME NEW l \in Loan, DueDatePasses(l)
      PROVE  loan' \in [Loan -> LoanState] /\ UNCHANGED <<fines, copy, member, req, highest, disturbed>>
  <2>1. [loan[l] EXCEPT !.late = TRUE] \in LoanState
    BY <1>0, RowEdits
  <2> QED
    BY <1>0, <1>6, <2>1 DEF DueDatePasses
<1>7. ASSUME NEW c \in Copy, NEW s \in Edits, UpdateCopy(c, s)
      PROVE  /\ copy' \in [Copy -> CopyState] /\ disturbed' \subseteq Copy
             /\ UNCHANGED <<loan, fines, member, req, highest>>
  <2>1. [copy[c] EXCEPT !.status = s] \in CopyState
    BY <1>0, RowEdits
  <2> QED
    BY <1>0, <1>7, <2>1 DEF UpdateCopy
<1>8. ASSUME NEW m \in Member, NEW active \in BOOLEAN, NEW max \in Limits,
             UpdateMember(m, active, max)
      PROVE  /\ member' \in [Member -> MemberState] /\ highest' \in [Member -> Nat]
             /\ UNCHANGED <<loan, fines, copy, req, disturbed>>
  <2>1. [member[m] EXCEPT !.active = active, !.max = max] \in MemberState
    BY <1>0, RowEdits
  <2>2. member' = [member EXCEPT ![m] = [member[m] EXCEPT !.active = active, !.max = max]]
    BY <1>0, <1>8 DEF UpdateMember, MemberState
  <2> QED
    BY <1>0, <1>8, <2>1, <2>2 DEF UpdateMember
<1>9. CASE UNCHANGED vars
  BY <1>0, <1>9 DEF vars
<1> QED
  BY <1>0, <1>1, <1>2, <1>3, <1>4, <1>5, <1>6, <1>7, <1>8, <1>9, NextCases

-----------------------------------------------------------------------------
(* What requests work on, and what rows keep                               *)

(* A loan that was made stays made, of its copy, and no highest limit of a *)
(* member goes down.                                                       *)
LEMMA RowsPersist ==
    ASSUME TypeOK, RequestsAgree, [Next]_vars
    PROVE  /\ \A l \in Loan : loan[l].status # "NONE" =>
                 loan'[l].status # "NONE" /\ loan'[l].copy = loan[l].copy
           /\ \A m \in Member : highest'[m] \in Nat /\ highest[m] <= highest'[m]
<1>0. \A m \in Member : highest[m] \in Nat
  BY DEF TypeOK
<1>1. CASE \E q \in Request : RequestStep(q)
  BY <1>0, <1>1, RequestStepFrame
<1>2. ASSUME NEW q \in Request, NEW k \in Loan, CreateLoan(q, k)
      PROVE  /\ \A l \in Loan : loan[l].status # "NONE" => loan'[l] = loan[l]
             /\ UNCHANGED highest
  <2>1. loan[k].status = "NONE" /\ \A l \in Loan \ {k} : loan'[l] = loan[l]
    BY <1>2, Lends
  <2> QED
    BY <1>2, <2>1 DEF CreateLoan
<1>3. ASSUME NEW q \in Request, CloseCommit(q)
      PROVE  /\ \A l \in Loan : loan[l].status # "NONE" =>
                   loan'[l].status # "NONE" /\ loan'[l].copy = loan[l].copy
             /\ UNCHANGED highest
  <2>1. req[q].to # "NONE"
    BY <1>3, Closes DEF Closed
  <2> QED
    BY <1>3, <2>1, Closes DEF CloseCommit
<1>4. CASE \E q \in Request : DeleteCopy(q) \/ DeleteMember(q)
  BY <1>0, <1>4 DEF DeleteCopy, DeleteMember
<1>5. CASE \E l \in Loan : DueDatePasses(l)
  BY <1>0, <1>5 DEF TypeOK, DueDatePasses
<1>6. CASE \E c \in Copy, s \in Edits : UpdateCopy(c, s)
  BY <1>0, <1>6 DEF UpdateCopy
<1>7. ASSUME NEW m \in Member, NEW active \in BOOLEAN, NEW max \in Limits,
             UpdateMember(m, active, max)
      PROVE  /\ UNCHANGED loan
             /\ \A k \in Member : highest'[k] \in Nat /\ highest[k] <= highest'[k]
  <2>1. max \in Nat
    OBVIOUS
  <2>2. highest' = [highest EXCEPT ![m] = IF max > highest[m] THEN max ELSE highest[m]]
    BY <1>7 DEF UpdateMember
  <2>3. highest \in [Member -> Nat]
    BY DEF TypeOK
  <2> QED
    BY <1>7, <2>1, <2>2, <2>3 DEF UpdateMember
<1>8. CASE UNCHANGED vars
  BY <1>0, <1>8 DEF vars
<1> QED
  BY <1>0, <1>1, <1>2, <1>3, <1>4, <1>5, <1>6, <1>7, <1>8, NextCases

(* A request is as it was, has ended, or has taken a step of its own.      *)
LEMMA RequestCases ==
    ASSUME TypeOK, [Next]_vars, NEW r \in Request
    PROVE  req'[r] = req[r] \/ req'[r].at = "idle" \/ RequestStep(r)
<1>1. ASSUME NEW q \in Request, RequestStep(q)
      PROVE  req'[r] = req[r] \/ RequestStep(r)
  BY <1>1, RequestStepFrame
<1>2. ASSUME NEW q \in Request, Finish(q)
      PROVE  req'[r] = req[r] \/ req'[r].at = "idle"
  BY <1>2, Finishes
<1>3. CASE \E q \in Request : \/ \E l \in Loan : CreateLoan(q, l)
                              \/ CloseCommit(q) \/ DeleteCopy(q) \/ DeleteMember(q)
  BY <1>2, <1>3 DEF CreateLoan, CloseCommit, DeleteCopy, DeleteMember
<1>4. CASE UNCHANGED req
  BY <1>4
<1> QED
  BY <1>1, <1>3, <1>4, NextCases DEF DueDatePasses, UpdateCopy, UpdateMember, vars

LEMMA NextRequestsAgree ==
    TypeOK /\ RequestsAgree /\ LoansAgree /\ HighestIsHighest /\ [Next]_vars => RequestsAgree'
<1> SUFFICES ASSUME TypeOK, RequestsAgree, LoansAgree, HighestIsHighest, [Next]_vars,
                    NEW r \in Request
             PROVE  /\ Borrowing(r)' => /\ req'[r].member \in Member /\ req'[r].copy \in Copy
                                        /\ req'[r].max <= highest'[req'[r].member]
                    /\ Closing(r)' => /\ req'[r].loan \in Loan /\ req'[r].copy \in Copy
                                      /\ req'[r].to \in Closed
                                      /\ loan'[req'[r].loan].status # "NONE"
                                      /\ loan'[req'[r].loan].copy = req'[r].copy
                    /\ req'[r].at = "deleteCopy" => req'[r].copy \in Copy
                    /\ req'[r].at = "deleteMember" => req'[r].member \in Member
  BY DEF RequestsAgree
<1>1. CASE req'[r] = req[r]
  <2>1. req[r].max \in Nat /\ \A m \in Member : highest[m] \in Nat
    BY DEF TypeOK
  <2> QED
    BY <1>1, <2>1, RowsPersist DEF RequestsAgree, Borrowing, Closing
<1>2. CASE req'[r].at = "idle"
  BY <1>2 DEF Borrowing, Closing
<1>3. CASE RequestStep(r)
  <2>1. UNCHANGED <<loan, highest>>
    BY <1>3, RequestStepFrame
  <2>2. \A m \in Member : member[m].max <= highest[m]
    BY DEF HighestIsHighest
  <2> QED
    BY <1>3, <2>1, <2>2, RequestStepMoves
<1> QED
  BY <1>1, <1>2, <1>3, RequestCases

LEMMA NextLoansAgree ==
    TypeOK /\ RequestsAgree /\ LoansAgree /\ [Next]_vars => LoansAgree'
<1> SUFFICES ASSUME TypeOK, RequestsAgree, LoansAgree, [Next]_vars, NEW l \in Loan
             PROVE  /\ loan'[l].status # "NONE" => loan'[l].copy \in Copy
                    /\ loan'[l].status \in {"NONE", "BORROWED"} => fines'[l] = 0
  BY DEF LoansAgree
<1>1. CASE \E q \in Request : RequestStep(q)
  BY <1>1, RequestStepFrame DEF LoansAgree
<1>2. ASSUME NEW q \in Request, NEW k \in Loan, CreateLoan(q, k)
      PROVE  /\ loan'[l].status # "NONE" => loan'[l].copy \in Copy
             /\ loan'[l].status \in {"NONE", "BORROWED"} => fines'[l] = 0
  <2>1. UNCHANGED fines
    BY <1>2 DEF CreateLoan
  <2>2. /\ loan[k].status = "NONE" /\ \A j \in Loan \ {k} : loan'[j] = loan[j]
        /\ req[q].copy \in Copy
        /\ loan'[k] = [status |-> "BORROWED", member |-> req[q].member,
                       copy |-> req[q].copy, late |-> FALSE]
    BY <1>2, Lends
  <2> QED
    BY <2>1, <2>2 DEF LoansAgree
<1>3. ASSUME NEW q \in Request, CloseCommit(q)
      PROVE  /\ loan'[l].status # "NONE" => loan'[l].copy \in Copy
             /\ loan'[l].status \in {"NONE", "BORROWED"} => fines'[l] = 0
  <2>1. CASE l = req[q].loan
    <3>1. req[q].to \notin {"NONE", "BORROWED"}
      BY <1>3, Closes DEF Closed
    <3> QED
      BY <1>3, <2>1, <3>1, Closes
  <2>2. CASE l # req[q].loan
    BY <1>3, <2>2, Closes DEF LoansAgree
  <2> QED
    BY <2>1, <2>2
<1>4. CASE \E k \in Loan : DueDatePasses(k)
  BY <1>4 DEF TypeOK, DueDatePasses, LoansAgree
<1>5. CASE UNCHANGED <<loan, fines>>
  BY <1>5 DEF LoansAgree
<1> QED
  BY <1>1, <1>2, <1>3, <1>4, <1>5, NextCases
  DEF DeleteCopy, DeleteMember, UpdateCopy, UpdateMember, vars

LEMMA NextHighest ==
    TypeOK /\ RequestsAgree /\ HighestIsHighest /\ [Next]_vars => HighestIsHighest'
<1> SUFFICES ASSUME TypeOK, RequestsAgree, HighestIsHighest, [Next]_vars, NEW m \in Member
             PROVE  member'[m].max <= highest'[m]
  BY DEF HighestIsHighest
<1>1. CASE UNCHANGED <<member, highest>>
  BY <1>1 DEF HighestIsHighest
<1>2. ASSUME NEW q \in Request, DeleteMember(q)
      PROVE  member'[m].max = member[m].max /\ UNCHANGED highest
  BY <1>2 DEF TypeOK, DeleteMember
<1>3. ASSUME NEW k \in Member, NEW active \in BOOLEAN, NEW max \in Limits, UpdateMember(k, active, max)
      PROVE  member'[m].max <= highest'[m]
  <2>1. /\ member'[k].max = max
        /\ highest'[k] = IF max > highest[k] THEN max ELSE highest[k]
        /\ k # m => member'[m] = member[m] /\ highest'[m] = highest[m]
    BY <1>3 DEF TypeOK, UpdateMember
  <2>2. max \in Nat /\ highest[m] \in Nat
    BY DEF TypeOK
  <2> QED
    BY <2>1, <2>2 DEF HighestIsHighest
<1> QED
  BY <1>1, <1>2, <1>3, NextCases, RequestStepFrame
  DEF HighestIsHighest, CreateLoan, CloseCommit, DeleteCopy, DueDatePasses, UpdateCopy, vars

-----------------------------------------------------------------------------
(* The loans of members and of copies                                      *)

LEMMA ClosedLoans ==
    ASSUME TypeOK, RequestsAgree, NEW q \in Request, CloseCommit(q)
    PROVE  /\ \A m \in Member : LoansOf(m)' = LoansOf(m) \ {req[q].loan}
           /\ \A c \in Copy : LoansOn(c)' = LoansOn(c) \ {req[q].loan}
<1>1. Active' = Active \ {req[q].loan}
  BY Closes
<1>2. \A k \in Active : loan'[k].copy = loan[k].copy /\ loan'[k].member = loan[k].member
  BY Closes DEF Active
<1>3. ASSUME NEW m \in Member PROVE LoansOf(m)' = LoansOf(m) \ {req[q].loan}
  <2>1. LoansOf(m)' = {k \in Active \ {req[q].loan} : loan'[k].member = m}
    BY <1>1 DEF LoansOf
  <2> QED
    BY <1>2, <2>1 DEF LoansOf
<1>4. ASSUME NEW c \in Copy PROVE LoansOn(c)' = LoansOn(c) \ {req[q].loan}
  <2>1. LoansOn(c)' = {k \in Active \ {req[q].loan} : loan'[k].copy = c}
    BY <1>1 DEF LoansOn
  <2> QED
    BY <1>2, <2>1 DEF LoansOn
<1> QED
  BY <1>3, <1>4

(* The other steps neither make nor end a loan, and fine nobody.           *)
LEMMA LoansKept ==
    ASSUME TypeOK, [Next]_vars
    PROVE  \/ \E q \in Request, l \in Loan : CreateLoan(q, l)
           \/ \E q \in Request : CloseCommit(q)
           \/ /\ \A m \in Member : LoansOf(m)' = LoansOf(m)
              /\ \A c \in Copy : LoansOn(c)' = LoansOn(c)
              /\ \A l \in Loan : loan'[l].copy = loan[l].copy
              /\ UNCHANGED fines
<1>1. ASSUME NEW l \in Loan, DueDatePasses(l)
      PROVE  /\ \A m \in Member : LoansOf(m)' = LoansOf(m)
             /\ \A c \in Copy : LoansOn(c)' = LoansOn(c)
             /\ \A k \in Loan : loan'[k].copy = loan[k].copy
             /\ UNCHANGED fines
  <2>1. \A k \in Loan : /\ loan'[k].status = loan[k].status
                        /\ loan'[k].member = loan[k].member
                        /\ loan'[k].copy = loan[k].copy
    BY <1>1 DEF TypeOK, DueDatePasses
  <2>2. Active' = Active
    BY <2>1 DEF Active
  <2>3. \A k \in Active : k \in Loan
    BY DEF Active
  <2>4. ASSUME NEW m \in Member PROVE LoansOf(m)' = LoansOf(m)
    BY <2>1, <2>2, <2>3 DEF LoansOf
  <2>5. ASSUME NEW c \in Copy PROVE LoansOn(c)' = LoansOn(c)
    BY <2>1, <2>2, <2>3 DEF LoansOn
  <2> QED
    BY <1>1, <2>1, <2>4, <2>5 DEF DueDatePasses
<1>2. CASE UNCHANGED <<loan, fines>>
  BY <1>2 DEF LoansOf, LoansOn, Active
<1>3. \/ \E q \in Request, l \in Loan : CreateLoan(q, l)
      \/ \E q \in Request : CloseCommit(q)
      \/ \E l \in Loan : DueDatePasses(l)
      \/ UNCHANGED <<loan, fines>>
  BY NextCases, RequestStepFrame
  DEF DeleteCopy, DeleteMember, UpdateCopy, UpdateMember, vars
<1> QED
  BY <1>1, <1>2, <1>3

LEMMA LoansOfFinite ==
    ASSUME NEW m \in Member
    PROVE  LoansOf(m) \subseteq Loan /\ IsFiniteSet(LoansOf(m)) /\ Cardinality(LoansOf(m)) \in Nat
<1>1. LoansOf(m) \subseteq Loan
  BY DEF LoansOf, Active
<1> QED
  BY <1>1, ActiveFinite

-----------------------------------------------------------------------------
(* The loan limit                                                          *)

(* Only the request that holds a member gives the member a loan.           *)
LEMMA LoansOfStep ==
    ASSUME TypeOK, RequestsAgree, [Next]_vars, NEW m \in Member
    PROVE  \/ Cardinality(LoansOf(m)') <= Cardinality(LoansOf(m))
           \/ /\ \E q \in Request : /\ req[q].at = "insert" /\ req[q].member = m
                                    /\ req'[q].at = "idle"
              /\ Cardinality(LoansOf(m)') = Cardinality(LoansOf(m)) + 1
<1>0. IsFiniteSet(LoansOf(m)) /\ Cardinality(LoansOf(m)) \in Nat
  BY LoansOfFinite
<1>1. ASSUME NEW q \in Request, NEW l \in Loan, CreateLoan(q, l)
      PROVE  \/ LoansOf(m)' = LoansOf(m)
             \/ /\ req[q].at = "insert" /\ req[q].member = m /\ req'[q].at = "idle"
                /\ Cardinality(LoansOf(m)') = Cardinality(LoansOf(m)) + 1
  <2>1. (m = req[q].member /\ LoansOf(m)' = LoansOf(m) \cup {l}) \/ LoansOf(m)' = LoansOf(m)
    BY <1>1, LentLoans
  <2>2. l \notin LoansOf(m)
    BY <1>1, Lends DEF LoansOf
  <2>3. Cardinality(LoansOf(m) \cup {l}) = Cardinality(LoansOf(m)) + 1
    BY <1>0, <2>2, FS_AddElement
  <2>4. req[q].at = "insert" /\ req'[q].at = "idle"
    BY <1>1, Finishes DEF CreateLoan
  <2> QED
    BY <2>1, <2>3, <2>4
<1>2. ASSUME NEW q \in Request, CloseCommit(q)
      PROVE  Cardinality(LoansOf(m)') <= Cardinality(LoansOf(m))
  <2>1. LoansOf(m)' \subseteq LoansOf(m)
    BY <1>2, ClosedLoans
  <2> QED
    BY <1>0, <2>1, FS_Subset
<1> QED
  BY <1>0, <1>1, <1>2, LoansKept

LEMMA NextMemberExclusive ==
    ASSUME TypeOK, RequestsAgree, LoansAgree, HighestIsHighest, MemberExclusive, [Next]_vars
    PROVE  MemberExclusive'
<1>1. ASSUME NEW q \in Request, NEW r \in Request,
             HoldsMember(q)', HoldsMember(r)', req'[q].member = req'[r].member
      PROVE  q = r
  <2>1. ASSUME NEW p \in Request, HoldsMember(p)'
        PROVE  \/ HoldsMember(p) /\ req'[p].member = req[p].member
               \/ RequestStep(p) /\ MemberFree(req'[p].member)
    BY <2>1, RequestCases, RequestStepMoves DEF HoldsMember
  <2>2. ASSUME NEW p \in Request, RequestStep(p), NEW o \in Request \ {p}
        PROVE  req'[o] = req[o]
    BY <2>2, RequestStepFrame
  <2> QED
    BY <1>1, <2>1, <2>2 DEF MemberExclusive, MemberFree, HoldsMember
<1>2. ASSUME NEW q \in Request, req'[q].at = "insert", NEW m \in Member, req'[q].member = m
      PROVE  Cardinality(LoansOf(m)') < req'[q].max
  <2>1. CASE RequestStep(q)
    <3>1. UNCHANGED loan
      BY <2>1, RequestStepFrame
    <3>2. Cardinality(LoansOf(m)) < req'[q].max
      BY <1>2, <2>1, RequestStepMoves
    <3> QED
      BY <3>1, <3>2 DEF LoansOf, Active
  <2>2. CASE req'[q] = req[q]
    <3>1. req[q].max \in Nat /\ Cardinality(LoansOf(m)) < req[q].max
      BY <1>2, <2>2 DEF MemberExclusive, TypeOK
    <3>2. Cardinality(LoansOf(m)') <= Cardinality(LoansOf(m))
      <4>1. ASSUME NEW p \in Request, req[p].at = "insert", req[p].member = m, req'[p].at = "idle"
            PROVE  FALSE
        <5>1. p = q
          BY <1>2, <2>2, <4>1 DEF MemberExclusive, HoldsMember
        <5> QED
          BY <1>2, <4>1, <5>1
      <4> QED
        BY <4>1, LoansOfStep
    <3>3. Cardinality(LoansOf(m)) \in Nat /\ Cardinality(LoansOf(m)') \in Nat
      <4>1. LoansOf(m)' \subseteq Loan
        BY DEF LoansOf, Active
      <4> QED
        BY <4>1, LoansOfFinite, ActiveFinite
    <3> QED
      BY <2>2, <3>1, <3>2, <3>3
  <2> QED
    BY <1>2, <2>1, <2>2, RequestCases
<1>3. \A q \in Request : req'[q].at = "insert" => req'[q].member \in Member
  BY NextRequestsAgree DEF RequestsAgree, Borrowing
<1> QED
  BY <1>1, <1>2, <1>3 DEF MemberExclusive, LoansOf

(* The request that gives a member a loan has counted fewer than the limit *)
(* it read, which is not above the highest the member has had.             *)
LEMMA NextLoanLimitHeld ==
    ASSUME TypeOK, RequestsAgree, MemberExclusive, LoanLimitHeld, [Next]_vars
    PROVE  LoanLimitHeld'
<1> SUFFICES ASSUME NEW m \in Member PROVE Cardinality(LoansOf(m)') <= highest'[m]
  BY DEF LoanLimitHeld
<1>1. /\ Cardinality(LoansOf(m)) \in Nat /\ highest[m] \in Nat /\ highest'[m] \in Nat
      /\ highest[m] <= highest'[m] /\ Cardinality(LoansOf(m)) <= highest[m]
  BY LoansOfFinite, RowsPersist DEF LoanLimitHeld, TypeOK
<1>2. Cardinality(LoansOf(m)') \in Nat
  <2>1. LoansOf(m)' \subseteq Loan
    BY DEF LoansOf, Active
  <2> QED
    BY <2>1, ActiveFinite
<1>3. CASE Cardinality(LoansOf(m)') <= Cardinality(LoansOf(m))
  BY <1>1, <1>2, <1>3
<1>4. ASSUME NEW q \in Request, req[q].at = "insert", req[q].member = m,
             Cardinality(LoansOf(m)') = Cardinality(LoansOf(m)) + 1
      PROVE  Cardinality(LoansOf(m)') <= highest'[m]
  <2>1. Cardinality(LoansOf(m)) < req[q].max
    BY <1>4 DEF MemberExclusive
  <2>2. req[q].max <= highest[m] /\ req[q].max \in Nat
    BY <1>4 DEF RequestsAgree, Borrowing, TypeOK
  <2> QED
    BY <1>1, <1>2, <1>4, <2>1, <2>2
<1> QED
  BY <1>3, <1>4, LoansOfStep

-----------------------------------------------------------------------------
(* A copy and its loans                                                    *)

(* Only who holds a copy, or finds it free, writes its status.             *)
LEMMA CopyStep ==
    ASSUME TypeOK, RequestsAgree, [Next]_vars, NEW c \in Copy
    PROVE  \/ copy'[c].status = copy[c].status
           \/ CopyFree(c)
           \/ \E q \in Request : HoldsCopy(q) /\ req[q].copy = c /\ req'[q].at = "idle"
<1>1. CASE UNCHANGED copy
  BY <1>1
<1>2. ASSUME NEW q \in Request, NEW l \in Loan, CreateLoan(q, l)
      PROVE  \/ copy'[c].status = copy[c].status
             \/ HoldsCopy(q) /\ req[q].copy = c /\ req'[q].at = "idle"
  <2>1. req'[q].at = "idle" /\ HoldsCopy(q)
    BY <1>2, Finishes DEF CreateLoan, HoldsCopy
  <2>2. \A k \in Copy \ {req[q].copy} : copy'[k] = copy[k]
    BY <1>2, Lends
  <2> QED
    BY <2>1, <2>2
<1>3. ASSUME NEW q \in Request, CloseCommit(q)
      PROVE  \/ copy'[c].status = copy[c].status
             \/ HoldsCopy(q) /\ req[q].copy = c /\ req'[q].at = "idle"
  <2>1. req'[q].at = "idle" /\ HoldsCopy(q)
    BY <1>3, Finishes DEF CloseCommit, HoldsCopy
  <2>2. \A k \in Copy \ {req[q].copy} : copy'[k] = copy[k]
    BY <1>3, Closes
  <2> QED
    BY <2>1, <2>2
<1>4. ASSUME NEW q \in Request, DeleteCopy(q)
      PROVE  copy'[c].status = copy[c].status
  BY <1>4 DEF TypeOK, DeleteCopy
<1>5. ASSUME NEW k \in Copy, NEW s \in Edits, UpdateCopy(k, s)
      PROVE  copy'[c].status = copy[c].status \/ CopyFree(c)
  BY <1>5 DEF TypeOK, UpdateCopy
<1> QED
  BY <1>1, <1>2, <1>3, <1>4, <1>5, NextCases, RequestStepFrame
  DEF DeleteMember, DueDatePasses, UpdateMember, vars

LEMMA NextCopyExclusive ==
    ASSUME TypeOK, RequestsAgree, LoansAgree, CopyExclusive, [Next]_vars
    PROVE  CopyExclusive'
<1>1. ASSUME NEW q \in Request, NEW r \in Request,
             HoldsCopy(q)', HoldsCopy(r)', req'[q].copy = req'[r].copy
      PROVE  q = r
  <2>1. ASSUME NEW p \in Request, HoldsCopy(p)'
        PROVE  \/ HoldsCopy(p) /\ req'[p].copy = req[p].copy
               \/ RequestStep(p) /\ CopyFree(req'[p].copy)
    BY <2>1, RequestCases, RequestStepMoves DEF HoldsCopy
  <2>2. ASSUME NEW p \in Request, RequestStep(p), NEW o \in Request \ {p}
        PROVE  req'[o] = req[o]
    BY <2>2, RequestStepFrame
  <2> QED
    BY <1>1, <2>1, <2>2 DEF CopyExclusive, CopyFree, HoldsCopy
<1>2. ASSUME NEW q \in Request, req'[q].at \in {"count", "insert"}
      PROVE  copy'[req'[q].copy].status = "AVAILABLE"
  <2>1. CASE RequestStep(q)
    <3>1. UNCHANGED copy
      BY <2>1, RequestStepFrame
    <3>2. \/ copy[req'[q].copy].status = "AVAILABLE"
          \/ req[q].at = "count" /\ req'[q].copy = req[q].copy
      BY <1>2, <2>1, RequestStepMoves
    <3> QED
      BY <3>1, <3>2 DEF CopyExclusive
  <2>2. CASE req'[q] = req[q]
    <3> DEFINE c == req[q].copy
    <3>1. c \in Copy /\ copy[c].status = "AVAILABLE" /\ HoldsCopy(q) /\ ~CopyFree(c)
      BY <1>2, <2>2 DEF RequestsAgree, Borrowing, CopyExclusive, HoldsCopy, CopyFree
    <3>2. ASSUME NEW p \in Request, HoldsCopy(p), req[p].copy = c, req'[p].at = "idle"
          PROVE  FALSE
      <4>1. p = q
        BY <3>1, <3>2 DEF CopyExclusive
      <4> QED
        BY <1>2, <3>2, <4>1
    <3>3. copy'[c].status = copy[c].status
      BY <3>1, <3>2, CopyStep
    <3> QED
      BY <2>2, <3>1, <3>3
  <2> QED
    BY <1>2, <2>1, <2>2, RequestCases
<1> QED
  BY <1>1, <1>2 DEF CopyExclusive

LEMMA NextLentOnce ==
    ASSUME TypeOK, RequestsAgree, LoansAgree, CopyExclusive, LentOnce, [Next]_vars
    PROVE  LentOnce'
<1> DEFINE Lent(c) == /\ \A k, l \in LoansOn(c) : k = l
                      /\ copy[c].status = "BORROWED" <=> LoansOn(c) # {}
                      /\ \A l \in Loan : loan[l].copy = c => fines[l] <= 1
<1> SUFFICES ASSUME NEW c \in Copy \ disturbed' PROVE Lent(c)'
  BY DEF LentOnce
<1>1. ASSUME NEW q \in Request, NEW l \in Loan, CreateLoan(q, l), c \notin disturbed
      PROVE  Lent(c)'
  <2>1. Lent(c) /\ UNCHANGED fines
    BY <1>1 DEF LentOnce, CreateLoan
  <2>2. /\ loan[l].status = "NONE" /\ \A k \in Loan \ {l} : loan'[k] = loan[k]
        /\ \A k \in Copy \ {req[q].copy} : copy'[k] = copy[k]
        /\ copy'[req[q].copy].status = "BORROWED"
    BY <1>1, Lends
  <2>3. fines[l] = 0
    BY <2>2 DEF LoansAgree
  <2>4. \A k \in Loan : loan'[k].copy = c => fines'[k] <= 1
    BY <2>1, <2>2, <2>3
  <2>5. CASE c = req[q].copy
    <3>1. copy[c].status = "AVAILABLE"
      BY <1>1, <2>5 DEF CopyExclusive, CreateLoan
    <3>2. LoansOn(c)' = {l}
      BY <1>1, <2>1, <2>5, <3>1, LentLoans
    <3> QED
      BY <2>2, <2>4, <2>5, <3>2
  <2>6. CASE c # req[q].copy
    <3>1. LoansOn(c)' = LoansOn(c)
      BY <1>1, <2>6, LentLoans
    <3> QED
      BY <2>1, <2>2, <2>4, <2>6, <3>1
  <2> QED
    BY <2>5, <2>6
<1>2. ASSUME NEW q \in Request, CloseCommit(q), c \notin disturbed
      PROVE  Lent(c)'
  <2> DEFINE o == req[q].loan
  <2>1. Lent(c)
    BY <1>2 DEF LentOnce
  <2>2. /\ o \in Loan /\ loan[o].copy = req[q].copy
        /\ \A k \in Loan : loan'[k].copy = loan[k].copy
        /\ \A k \in Copy \ {req[q].copy} : copy'[k] = copy[k]
        /\ copy'[req[q].copy].status \in {"AVAILABLE", "LOST"}
        /\ \A k \in Loan : fines'[k] = fines[k] \/ (k = o /\ fines'[k] = fines[k] + 1)
    BY <1>2, Closes
  <2>3. LoansOn(c)' = LoansOn(c) \ {o}
    BY <1>2, ClosedLoans
  <2>4. CASE c = req[q].copy
    <3>1. o \in Active
      BY <1>2, <2>4 DEF CloseCommit
    <3>2. LoansOn(c) = {o}
      BY <2>1, <2>2, <2>4, <3>1 DEF LoansOn
    <3>3. fines[o] = 0
      BY <2>2, <3>1 DEF LoansAgree, Active
    <3>4. \A k \in Loan : loan'[k].copy = c => fines'[k] <= 1
      BY <2>1, <2>2, <3>3
    <3>5. copy'[c].status # "BORROWED" /\ LoansOn(c)' = {}
      BY <2>2, <2>3, <2>4, <3>2
    <3> QED
      BY <3>4, <3>5
  <2>5. CASE c # req[q].copy
    <3>1. o \notin LoansOn(c)
      BY <2>2, <2>5 DEF LoansOn
    <3>2. LoansOn(c)' = LoansOn(c)
      BY <2>3, <3>1
    <3>3. \A k \in Loan : loan'[k].copy = c => fines'[k] <= 1
      BY <2>1, <2>2, <2>5
    <3> QED
      BY <2>1, <2>2, <2>5, <3>2, <3>3
  <2> QED
    BY <2>4, <2>5
<1>3. ASSUME LoansOn(c)' = LoansOn(c), \A l \in Loan : loan'[l].copy = loan[l].copy,
             UNCHANGED fines, copy'[c].status = copy[c].status, c \notin disturbed
      PROVE  Lent(c)'
  <2>1. Lent(c)
    BY <1>3 DEF LentOnce
  <2> QED
    BY <1>3, <2>1
<1>4. c \notin disturbed
  BY NextCases, RequestStepFrame
  DEF CreateLoan, CloseCommit, DeleteCopy, DeleteMember, DueDatePasses, UpdateCopy, UpdateMember, vars
<1>5. \/ \E q \in Request, l \in Loan : CreateLoan(q, l)
      \/ \E q \in Request : CloseCommit(q)
      \/ copy'[c].status = copy[c].status
  <2>1. ASSUME NEW q \in Request, DeleteCopy(q)
        PROVE  copy'[c].status = copy[c].status
    BY <2>1 DEF TypeOK, DeleteCopy
  <2>2. ASSUME NEW k \in Copy, NEW s \in Edits, UpdateCopy(k, s)
        PROVE  copy'[c].status = copy[c].status
    BY <2>2 DEF TypeOK, UpdateCopy
  <2> QED
    BY <2>1, <2>2, NextCases, RequestStepFrame
    DEF DeleteMember, DueDatePasses, UpdateMember, vars
<1> QED
  BY <1>1, <1>2, <1>3, <1>4, <1>5, LoansKept

-----------------------------------------------------------------------------
(* The theorems                                                            *)

LEMMA InitIInv == Init => IInv
<1> SUFFICES ASSUME Init PROVE IInv
  OBVIOUS
<1>1. Active = {}
  BY DEF Init, NoLoan, Active
<1>2. (\A m \in Member : LoansOf(m) = {}) /\ (\A c \in Copy : LoansOn(c) = {})
  BY <1>1 DEF LoansOf, LoansOn
<1>3. RequestsAgree /\ MemberExclusive /\ CopyExclusive
  BY DEF Init, Idle, RequestsAgree, Borrowing, Closing, MemberExclusive, CopyExclusive,
         HoldsMember, HoldsCopy
<1>4. LoansAgree
  BY DEF Init, NoLoan, LoansAgree
<1>5. HighestIsHighest /\ \A m \in Member : highest[m] \in Nat
  <2>1. \A m \in Member : member[m].max \in Nat
    BY DEF Init
  <2> QED
    BY <2>1 DEF Init, HighestIsHighest
<1>6. LoanLimitHeld
  BY <1>2, <1>5, FS_EmptySet DEF LoanLimitHeld
<1>7. LentOnce
  BY <1>2 DEF Init, LentOnce
<1> QED
  BY <1>3, <1>4, <1>5, <1>6, <1>7, InitTypeOK DEF IInv

LEMMA NextIInv == IInv /\ [Next]_vars => IInv'
  BY NextTypeOK, NextRequestsAgree, NextLoansAgree, NextHighest, NextMemberExclusive,
     NextLoanLimitHeld, NextCopyExclusive, NextLentOnce DEF IInv

(* The invariant the theorems below rest on.                               *)
THEOREM Invariance == Spec => []IInv
  BY InitIInv, NextIInv, PTL DEF Spec

(* Every variable of the library holds a value of its type.                *)
THEOREM TypeCorrect == Spec => []TypeOK
<1>1. IInv => TypeOK
  BY DEF IInv
<1> QED
  BY <1>1, Invariance, PTL

(* However many loans of one member are asked for at the same time, the    *)
(* member never has more than its limit ever was: counting the loans under *)
(* the lock of the member's row, as createLoan does, is enough.            *)
THEOREM LimitIsHeld == Spec => []LoanLimitHeld
<1>1. IInv => LoanLimitHeld
  BY DEF IInv
<1> QED
  BY <1>1, Invariance, PTL

(* A copy nobody has edited by hand or given back twice is BORROWED exactly*)
(* while one loan of it is open, and a loan of it is fined once.           *)
THEOREM CopyAgreesWithLoans == Spec => []LentOnce
<1>1. IInv => LentOnce
  BY DEF IInv
<1> QED
  BY <1>1, Invariance, PTL

=============================================================================
