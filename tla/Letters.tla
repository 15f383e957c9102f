------------------------------ MODULE Letters -------------------------------
(***************************************************************************)
(* Official letters: drafting, submission, approval, numbering, issue.     *)
(*   apps/api/src/letters/letters.service.ts                               *)
(*   apps/api/src/letters/letter-number.service.ts                         *)
(*                                                                         *)
(* Most operations read the letter, check its status and then write it by  *)
(* id: Read is the first half of each.  issueLetter and generateNumber     *)
(* read inside their transaction, which at READ COMMITTED is no better.    *)
(* A transaction has its effect at commit; the rows it has locked until    *)
(* then are those of Holds and Clears.  The row of the letter itself is    *)
(* always written last, so nobody is seen to hold it.                      *)
(***************************************************************************)
EXTENDS Integers, FiniteSets

CONSTANTS
    Letter,     \* ids of the rows of letters
    Series,     \* rows of letter_number_sequences: a category in a month
    Decider,    \* users with the permission to approve and reject
    Approver,   \* those of them who have the role "approver"
    Approval,   \* ids of the rows of letter_approvals
    Request,    \* requests that can be in progress at the same time
    MaxNumber,  \* bound: numbers of a series
    None        \* no letter, user, row or number

ASSUME ApproverAssumption == Approver \subseteq Decider
ASSUME MaxNumberAssumption == MaxNumber \in Nat
ASSUME NoneAssumption ==
    /\ None \notin Letter \cup Decider \cup Approval \cup Series
    /\ None \notin Series \X Nat

VARIABLES
    letter,     \* each letter: status, letterNumber, whether its template
                \* requires approval, approvedById and deletedAt
    approval,   \* each row of letter_approvals: letter, approver and status
    sequence,   \* currentNumber of each series
    req,        \* the state of each request
    agreed,     \* history: letters that have been approved as they are
    lost        \* history: numbers that were replaced by another number

vars == <<letter, approval, sequence, req, agreed, lost>>

NoLetter == [status |-> "NONE", number |-> None, requires |-> FALSE, approvedBy |-> None,
             deleted |-> FALSE]
NoApproval == [letter |-> None, approver |-> None, status |-> "NONE"]
Idle == [at |-> "idle", letter |-> None, who |-> None, row |-> None, rows |-> {},
         number |-> None, series |-> None]

(* The statuses from which each operation starts.  A letter that has been  *)
(* cancelled is reopened by super admins only, others reopen rejected ones.*)
Allowed ==
    [update |-> {"DRAFT"}, submit |-> {"DRAFT"}, archive |-> {"ISSUED"},
     approve |-> {"SUBMITTED"}, reject |-> {"SUBMITTED"},
     delete |-> {"DRAFT", "REJECTED", "CANCELLED"}, reopen |-> {"REJECTED", "CANCELLED"},
     cancel |-> {"DRAFT", "SUBMITTED", "APPROVED", "REJECTED", "ISSUED"}]

(* From which a letter can be issued, by whether it requires approval.     *)
Issuable(requires) ==
    IF requires THEN {"APPROVED"} ELSE {"DRAFT", "SUBMITTED", "APPROVED"}

Exists(l) == letter[l].status # "NONE" /\ ~letter[l].deleted
Pending(l) == {a \in Approval : approval[a].letter = l /\ approval[a].status = "PENDING"}

(* Rows locked by transactions in progress: the sequence from next() to the*)
(* commit, and the approvals that a submission is deleting.                *)
Holds(q, s) == req[q].series = s
Clears(q, a) == a \in req[q].rows

Finish(q) == req' = [req EXCEPT ![q] = Idle]

-----------------------------------------------------------------------------
CreateLetter(l, requires) ==
    /\ letter[l] = NoLetter
    /\ letter' = [letter EXCEPT ![l] = [NoLetter EXCEPT !.status = "DRAFT",
                                                        !.requires = requires]]
    /\ UNCHANGED <<approval, sequence, req, agreed, lost>>

(* getLetter and the check of the status. *)
Read(q, l, op, who) ==
    /\ req[q] = Idle
    /\ Exists(l)
    /\ letter[l].status \in Allowed[op]
    /\ req' = [req EXCEPT ![q] = [Idle EXCEPT !.at = op, !.letter = l, !.who = who]]
    /\ UNCHANGED <<letter, approval, sequence, agreed, lost>>

(* The content changes, and perhaps the template. *)
UpdateLetter(q, requires) ==
    /\ req[q].at = "update"
    /\ letter' = [letter EXCEPT ![req[q].letter].requires = requires]
    /\ agreed' = agreed \ {req[q].letter}
    /\ Finish(q)
    /\ UNCHANGED <<approval, sequence, lost>>

DeleteLetter(q) ==
    /\ req[q].at = "delete"
    /\ letter' = [letter EXCEPT ![req[q].letter].deleted = TRUE]
    /\ Finish(q)
    /\ UNCHANGED <<approval, sequence, agreed, lost>>

-----------------------------------------------------------------------------
(* Submission and approval                                                 *)

(* The transaction deletes what is pending, ... *)
SubmitClear(q) ==
    /\ req[q].at = "submit"
    /\ \A r \in Request, a \in Pending(req[q].letter) : ~Clears(r, a)
    /\ req' = [req EXCEPT ![q].at = "ask", ![q].rows = Pending(req[q].letter)]
    /\ UNCHANGED <<letter, approval, sequence, agreed, lost>>

(* ... and creates a row for each approver, whose id is rows[approver].    *)
SubmitLetter(q, rows) ==
    /\ req[q].at = "ask"
    /\ \A p \in Approver : approval[rows[p]] = NoApproval
    /\ \A p, r \in Approver : rows[p] = rows[r] => p = r
    /\ approval' = [a \in Approval |->
          IF a \in req[q].rows THEN [approval[a] EXCEPT !.status = "DELETED"]
          ELSE IF \E p \in Approver : rows[p] = a
          THEN [letter |-> req[q].letter, status |-> "PENDING",
                approver |-> CHOOSE p \in Approver : rows[p] = a]
          ELSE approval[a]]
    /\ letter' = [letter EXCEPT ![req[q].letter].status = "SUBMITTED"]
    /\ Finish(q)
    /\ UNCHANGED <<sequence, agreed, lost>>

(* markApproval looks for a pending row of the user who decides. *)
FindApproval(q, a) ==
    /\ req[q].at \in {"approve", "reject"}
    /\ LET own == {b \in Pending(req[q].letter) : approval[b].approver = req[q].who}
       IN IF own = {} THEN a = None ELSE a \in own
    /\ req' = [req EXCEPT ![q].at = IF @ = "approve" THEN "approving" ELSE "rejecting",
                          ![q].row = a]
    /\ UNCHANGED <<letter, approval, sequence, agreed, lost>>

(* Variant with a defect: a decision without a pending row is not recorded.*)
MarkApproval_OnlyListed(q, new, status) ==
    IF req[q].row = None
    THEN approval' = approval
    ELSE /\ approval[req[q].row].status # "DELETED"
         /\ \A r \in Request : ~Clears(r, req[q].row)
         /\ approval' = [approval EXCEPT ![req[q].row].status = status]

(* That row is updated, or a new one created.  The row may be gone: then   *)
(* the update throws and the transaction is rolled back (Abandon).         *)
MarkApproval(q, new, status) ==
    IF req[q].row = None
    THEN /\ approval[new] = NoApproval
         /\ approval' = [approval EXCEPT ![new] = [letter |-> req[q].letter, status |-> status,
                                                   approver |-> req[q].who]]
    ELSE /\ approval[req[q].row].status # "DELETED"
         /\ \A r \in Request : ~Clears(r, req[q].row)
         /\ approval' = [approval EXCEPT ![req[q].row].status = status]

ApproveLetter(q, new) ==
    /\ req[q].at = "approving"
    /\ MarkApproval(q, new, "APPROVED")
    /\ letter' = [letter EXCEPT ![req[q].letter].status = "APPROVED",
                                ![req[q].letter].approvedBy = req[q].who]
    /\ agreed' = agreed \cup {req[q].letter}
    /\ Finish(q)
    /\ UNCHANGED <<sequence, lost>>

RejectLetter(q, new) ==
    /\ req[q].at = "rejecting"
    /\ MarkApproval(q, new, "REJECTED")
    /\ letter' = [letter EXCEPT ![req[q].letter].status = "REJECTED"]
    /\ Finish(q)
    /\ UNCHANGED <<sequence, agreed, lost>>

-----------------------------------------------------------------------------
(* Numbering and issue                                                     *)

IssueRead(q, l) ==
    /\ req[q] = Idle
    /\ Exists(l)
    /\ letter[l].status \in Issuable(letter[l].requires)
    /\ req' = [req EXCEPT ![q] = [Idle EXCEPT !.letter = l, !.number = letter[l].number,
                  !.at = IF letter[l].number = None THEN "issueNext" ELSE "issue"]]
    /\ UNCHANGED <<letter, approval, sequence, agreed, lost>>

GenerateRead(q, l) ==
    /\ req[q] = Idle
    /\ Exists(l)
    /\ letter[l].number = None
    /\ letter[l].status # "CANCELLED"
    /\ req' = [req EXCEPT ![q] = [Idle EXCEPT !.letter = l, !.at = "generateNext"]]
    /\ UNCHANGED <<letter, approval, sequence, agreed, lost>>

(* Variant with a defect: the sequence is read without locking its row. *)
NextNumber_NoLock(q, s) ==
    /\ req[q].at \in {"issueNext", "generateNext"}
    /\ sequence[s] < MaxNumber
    /\ req' = [req EXCEPT ![q].at = IF @ = "issueNext" THEN "issue" ELSE "generate",
                          ![q].number = <<s, sequence[s] + 1>>, ![q].series = s]
    /\ UNCHANGED <<letter, approval, sequence, agreed, lost>>

(* Variant with a defect: next() runs on its own connection, and commits.  *)
NextNumber_OwnTransaction(q, s) ==
    /\ req[q].at \in {"issueNext", "generateNext"}
    /\ sequence[s] < MaxNumber
    /\ \A r \in Request : ~Holds(r, s)
    /\ sequence' = [sequence EXCEPT ![s] = @ + 1]
    /\ req' = [req EXCEPT ![q].at = IF @ = "issueNext" THEN "issue" ELSE "generate",
                          ![q].number = <<s, sequence[s] + 1>>]
    /\ UNCHANGED <<letter, approval, agreed, lost>>

(* letterNumber.next: the row of the sequence is incremented by an upsert, *)
(* which another transaction waits for.                                    *)
NextNumber(q, s) ==
    /\ req[q].at \in {"issueNext", "generateNext"}
    /\ sequence[s] < MaxNumber
    /\ \A r \in Request : ~Holds(r, s)
    /\ req' = [req EXCEPT ![q].at = IF @ = "issueNext" THEN "issue" ELSE "generate",
                          ![q].number = <<s, sequence[s] + 1>>, ![q].series = s]
    /\ UNCHANGED <<letter, approval, sequence, agreed, lost>>

(* The commit of a transaction that has, or has not, called next().        *)
CommitNumber(q) ==
    /\ sequence' = IF req[q].series = None THEN sequence
                   ELSE [sequence EXCEPT ![req[q].series] = req[q].number[2]]
    /\ lost' = lost \cup ({letter[req[q].letter].number} \ {None, req[q].number})

IssueLetter(q) ==
    /\ req[q].at = "issue"
    /\ letter' = [letter EXCEPT ![req[q].letter].status = "ISSUED",
                                ![req[q].letter].number = req[q].number]
    /\ CommitNumber(q)
    /\ Finish(q)
    /\ UNCHANGED <<approval, agreed>>

GenerateNumber(q) ==
    /\ req[q].at = "generate"
    /\ letter' = [letter EXCEPT ![req[q].letter].number = req[q].number]
    /\ CommitNumber(q)
    /\ Finish(q)
    /\ UNCHANGED <<approval, agreed>>

ArchiveLetter(q) ==
    /\ req[q].at = "archive"
    /\ letter' = [letter EXCEPT ![req[q].letter].status = "ARCHIVED"]
    /\ Finish(q)
    /\ UNCHANGED <<approval, sequence, agreed, lost>>

CancelLetter(q) ==
    /\ req[q].at = "cancel"
    /\ letter' = [letter EXCEPT ![req[q].letter].status = "CANCELLED"]
    /\ Finish(q)
    /\ UNCHANGED <<approval, sequence, agreed, lost>>

ReopenLetter(q) ==
    /\ req[q].at = "reopen"
    /\ letter' = [letter EXCEPT ![req[q].letter].status = "DRAFT",
                                ![req[q].letter].approvedBy = None]
    /\ Finish(q)
    /\ UNCHANGED <<approval, sequence, agreed, lost>>

(* The process or the connection fails, or a statement throws. *)
Abandon(q) ==
    /\ req[q] # Idle
    /\ Finish(q)
    /\ UNCHANGED <<letter, approval, sequence, agreed, lost>>

-----------------------------------------------------------------------------
Init ==
    /\ letter = [l \in Letter |-> NoLetter]
    /\ approval = [a \in Approval |-> NoApproval]
    /\ sequence = [s \in Series |-> 0]
    /\ req = [q \in Request |-> Idle]
    /\ agreed = {}
    /\ lost = {}

Begin(q, l) ==
    \/ \E op \in (DOMAIN Allowed) \ {"approve", "reject"} : Read(q, l, op, None)
    \/ \E op \in {"approve", "reject"}, who \in Decider : Read(q, l, op, who)
    \/ IssueRead(q, l)
    \/ GenerateRead(q, l)

(* approveLetter and rejectLetter; new is the id of the row that is created*)
(* where there is none, and any id otherwise.                              *)
Decision(q) ==
    \/ \E a \in Approval \cup {None} : FindApproval(q, a)
    \/ \E new \in Approval : ApproveLetter(q, new) \/ RejectLetter(q, new)

Numbering(q) ==
    \/ \E s \in Series : NextNumber(q, s)
    \/ IssueLetter(q)
    \/ GenerateNumber(q)

Editing(q) ==
    \/ \E requires \in BOOLEAN : UpdateLetter(q, requires)
    \/ DeleteLetter(q)
    \/ SubmitClear(q)
    \/ \E rows \in [Approver -> Approval] : SubmitLetter(q, rows)
    \/ ArchiveLetter(q)
    \/ CancelLetter(q)
    \/ ReopenLetter(q)

Next ==
    \/ \E l \in Letter, requires \in BOOLEAN : CreateLetter(l, requires)
    \/ \E q \in Request, l \in Letter : Begin(q, l)
    \/ \E q \in Request : Decision(q) \/ Numbering(q) \/ Editing(q) \/ Abandon(q)

Spec == Init /\ [][Next]_vars

-----------------------------------------------------------------------------
Numbers == Series \X (Nat \ {0})

(* Every variable holds a value of its type. *)
TypeOK ==
    /\ letter \in [Letter ->
          [status : {"NONE", "DRAFT", "SUBMITTED", "APPROVED", "REJECTED", "ISSUED", "ARCHIVED",
                     "CANCELLED"},
           number : Numbers \cup {None}, requires : BOOLEAN, approvedBy : Decider \cup {None},
           deleted : BOOLEAN]]
    /\ approval \in [Approval ->
          [letter : Letter \cup {None}, approver : Decider \cup {None},
           status : {"NONE", "PENDING", "APPROVED", "REJECTED", "DELETED"}]]
    /\ sequence \in [Series -> Nat]
    /\ req \in [Request ->
          [at : (DOMAIN Allowed) \cup {"idle", "ask", "approving", "rejecting", "issueNext", "issue",
                                     "generateNext", "generate"},
           letter : Letter \cup {None}, who : Decider \cup {None}, row : Approval \cup {None},
           rows : SUBSET Approval, number : Numbers \cup {None}, series : Series \cup {None}]]
    /\ agreed \subseteq Letter
    /\ lost \subseteq Numbers

(* A series has no gaps and no number twice: a request that fails gives its*)
(* number back, no two letters have the same one however many requests     *)
(* number them at once and fail, and only a request that numbers a letter  *)
(* at the same time as another loses one.                                  *)
NumbersHaveNoGaps ==
    /\ \A s \in Series : \A n \in 1..sequence[s] :
          <<s, n>> \in lost \/ \E l \in Letter : letter[l].number = <<s, n>>
    /\ \A k, l \in Letter :
          letter[k].number = letter[l].number /\ letter[k].number # None => k = l

(* Who approved a letter is on record in its approvals, although           *)
(* decisions and submissions overtake one another.                         *)
ApprovalIsRecorded ==
    \A l \in Letter : letter[l].status = "APPROVED" =>
        \E a \in Approval : approval[a] = [letter |-> l, approver |-> letter[l].approvedBy,
                                           status |-> "APPROVED"]

-----------------------------------------------------------------------------
(* What error messages of the code say, and a run refutes.                 *)

(* letters.service.ts:337 "This letter requires approval before issue":    *)
(* what is issued has been approved, as it is when it is issued.           *)
IssuedIsApproved ==
    [][\A l \in Letter :
          letter[l].status # "ISSUED" /\ letter'[l].status = "ISSUED" /\ letter'[l].requires =>
              l \in agreed]_vars
=============================================================================
