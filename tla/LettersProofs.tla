--------------------------- MODULE LettersProofs ----------------------------
(***************************************************************************)
(* Theorems about Letters, for any number of letters, series, approvers    *)
(* and concurrent requests: type correctness, that the numbers of a series *)
(* have no gaps and belong to one letter each, and that who approved a     *)
(* letter is on record.                                                    *)
(***************************************************************************)
EXTENDS Letters, TLAPS

LetterRow == [status : {"NONE", "DRAFT", "SUBMITTED", "APPROVED", "REJECTED", "ISSUED",
                        "ARCHIVED", "CANCELLED"},
              number : Numbers \cup {None}, requires : BOOLEAN,
              approvedBy : Decider \cup {None}, deleted : BOOLEAN]
ApprovalRow == [letter : Letter \cup {None}, approver : Decider \cup {None},
                status : {"NONE", "PENDING", "APPROVED", "REJECTED", "DELETED"}]
Operation == {"update", "submit", "archive", "approve", "reject", "delete", "reopen", "cancel"}
LetterRequest == [at : Operation \cup {"idle", "ask", "approving", "rejecting", "issueNext",
                                       "issue", "generateNext", "generate"},
                  letter : Letter \cup {None}, who : Decider \cup {None},
                  row : Approval \cup {None}, rows : SUBSET Approval,
                  number : Numbers \cup {None}, series : Series \cup {None}]

(* What a request has read or been given when it comes to its next         *)
(* statement.                                                              *)
Informed(x) ==
    /\ x.at # "idle" => x.letter \in Letter
    /\ x.at \in {"approve", "reject", "approving", "rejecting"} => x.who \in Decider
    /\ x.at \in {"issue", "generate"} => x.number \in Numbers
    /\ x.series # None => x.at \in {"issue", "generate"}

LetterTypes ==
    /\ letter \in [Letter -> LetterRow]
    /\ approval \in [Approval -> ApprovalRow]
    /\ sequence \in [Series -> Nat]
    /\ req \in [Request -> LetterRequest]
    /\ \A q \in Request : Informed(req[q])
    /\ agreed \subseteq Letter
    /\ lost \subseteq Numbers

(* A request that holds a series has its next number, and is alone with it;*)
(* every other number, on a letter or read from one, was committed.        *)
Committed(x) == x[2] <= sequence[x[1]]
NumbersAreHeld ==
    /\ \A q \in Request : req[q].series # None =>
          req[q].number = <<req[q].series, sequence[req[q].series] + 1>>
    /\ \A q, r \in Request : req[q].series # None /\ req[q].series = req[r].series => q = r
    /\ \A l \in Letter : letter[l].number # None => Committed(letter[l].number)
    /\ \A q \in Request : req[q].series = None /\ req[q].number # None => Committed(req[q].number)

(* A number is of one letter, also while it is only held by a request.     *)
NumberOf(l, x) ==
    \/ letter[l].number = x
    \/ \E q \in Request : req[q].letter = l /\ req[q].number = x
OneOwner == \A k, l \in Letter, x \in Numbers : NumberOf(k, x) /\ NumberOf(l, x) => k = l

(* The rows a request has found are of its letter and of who decides.      *)
RowsAreOwn ==
    \A q \in Request :
        /\ req[q].row # None => /\ approval[req[q].row].letter = req[q].letter
                                /\ approval[req[q].row].approver = req[q].who
                                /\ req[q].letter \in Letter
        /\ \A a \in req[q].rows : approval[a].letter = req[q].letter /\ req[q].letter \in Letter

NumbersInv == NumbersAreHeld /\ OneOwner /\ NumbersHaveNoGaps
RecordsInv == RowsAreOwn /\ ApprovalIsRecorded
LetterInv == LetterTypes /\ NumbersInv /\ RecordsInv

USE NoneAssumption, ApproverAssumption

LEMMA Operations == DOMAIN Allowed = Operation
  BY DEF Allowed, Operation

LEMMA IdleFacts ==
    /\ Idle \in LetterRequest /\ Idle.at = "idle" /\ Idle.letter = None /\ Idle.number = None
    /\ Idle.series = None /\ Idle.row = None /\ Idle.rows = {} /\ Idle.who = None /\ Informed(Idle)
  BY DEF Idle, LetterRequest, Informed

LEMMA LetterTypeCorrect == LetterTypes => TypeOK
  BY Operations DEF LetterTypes, TypeOK, LetterRow, ApprovalRow, LetterRequest

LEMMA InitLetter == Init => LetterInv
  <1> SUFFICES ASSUME Init PROVE LetterInv
    OBVIOUS
  <1>1. /\ letter \in [Letter -> LetterRow]
        /\ \A l \in Letter : letter[l].number = None /\ letter[l].status = "NONE"
    BY DEF Init, NoLetter, LetterRow
  <1>2. approval \in [Approval -> ApprovalRow]
    BY DEF Init, NoApproval, ApprovalRow
  <1>3. \A q \in Request : req[q] = Idle
    BY DEF Init
  <1>4. LetterTypes
    BY <1>1, <1>2, <1>3, IdleFacts DEF Init, LetterTypes
  <1>5. NumbersInv
    <2>1. NumbersAreHeld /\ OneOwner
      BY <1>1, <1>3, IdleFacts DEF NumbersAreHeld, OneOwner, NumberOf, Numbers
    <2>2. NumbersHaveNoGaps
      BY <1>1 DEF Init, NumbersHaveNoGaps
    <2> QED BY <2>1, <2>2 DEF NumbersInv
  <1>6. RecordsInv
    BY <1>1, <1>3, IdleFacts DEF RecordsInv, RowsAreOwn, ApprovalIsRecorded
  <1> QED BY <1>4, <1>5, <1>6 DEF LetterInv

-----------------------------------------------------------------------------
(* Most steps move one request and change no number.                       *)

(* The request forgets what it held, or keeps it, or reads the number of   *)
(* its letter.                                                             *)
Keeps(q, x) ==
    \/ x.number = None /\ x.series = None
    \/ x.number = req[q].number /\ x.series = req[q].series /\ x.letter = req[q].letter
    \/ x.letter \in Letter /\ x.number = letter[x.letter].number /\ x.series = None

LEMMA NumbersStay ==
    ASSUME LetterTypes, NumbersInv, NEW q \in Request, NEW x, Keeps(q, x),
           req' = [req EXCEPT ![q] = x],
           \A l \in Letter : letter'[l].number = letter[l].number,
           UNCHANGED <<sequence, lost>>
    PROVE  NumbersInv'
  <1>1. req'[q] = x /\ \A r \in Request : r # q => req'[r] = req[r]
    BY DEF LetterTypes
  <1>2. NumbersAreHeld'
    <2>1. \A r \in Request : req'[r].series # None =>
             req'[r].series = req[r].series /\ req'[r].number = req[r].number
      BY <1>1 DEF Keeps
    <2>2. \A r \in Request : req'[r].series = None /\ req'[r].number # None => Committed(req'[r].number)
      BY <1>1 DEF Keeps, NumbersInv, NumbersAreHeld
    <2> QED BY <2>1, <2>2 DEF NumbersInv, NumbersAreHeld, Committed
  <1>3. \A l \in Letter, n \in Numbers : NumberOf(l, n)' => NumberOf(l, n)
    BY <1>1 DEF NumberOf, Keeps, Numbers
  <1>4. OneOwner'
    BY <1>3 DEF NumbersInv, OneOwner
  <1>5. NumbersHaveNoGaps'
    BY DEF NumbersInv, NumbersHaveNoGaps
  <1> QED BY <1>2, <1>4, <1>5 DEF NumbersInv

(* The types, and what every step of one request leaves alone.             *)
LEMMA RequestStays ==
    ASSUME LetterTypes, NEW q \in Request, NEW x \in LetterRequest, Informed(x),
           req' = [req EXCEPT ![q] = x],
           letter' \in [Letter -> LetterRow], approval' \in [Approval -> ApprovalRow],
           sequence' \in [Series -> Nat], agreed' \subseteq Letter, lost' \subseteq Numbers
    PROVE  LetterTypes'
  BY DEF LetterTypes

(* No row of letter_approvals loses its letter or its approver.            *)
LEMMA RowsStay ==
    ASSUME LetterTypes, RowsAreOwn, NEW q \in Request, NEW x,
           req' = [req EXCEPT ![q] = x],
           \A a \in Approval : approval[a].letter # None =>
              approval'[a].letter = approval[a].letter /\ approval'[a].approver = approval[a].approver,
           x.row # None => /\ approval'[x.row].letter = x.letter
                           /\ approval'[x.row].approver = x.who /\ x.letter \in Letter,
           \A a \in x.rows : approval'[a].letter = x.letter /\ x.letter \in Letter
    PROVE  RowsAreOwn'
  <1>1. req'[q] = x /\ \A r \in Request : r # q => req'[r] = req[r]
    BY DEF LetterTypes
  <1>2. ASSUME NEW r \in Request, r # q, req[r].row # None
        PROVE  req[r].row \in Approval /\ approval[req[r].row].letter # None
    BY <1>2 DEF LetterTypes, LetterRequest, RowsAreOwn
  <1>3. ASSUME NEW r \in Request, r # q, NEW a \in req[r].rows
        PROVE  a \in Approval /\ approval[a].letter # None
    BY <1>3 DEF LetterTypes, LetterRequest, RowsAreOwn
  <1> QED BY <1>1, <1>2, <1>3 DEF RowsAreOwn

(* Steps that move a request and change neither letters nor approvals.     *)
LEMMA OnlyRequest ==
    ASSUME LetterInv, NEW q \in Request, NEW x \in LetterRequest, Informed(x), Keeps(q, x),
           req' = [req EXCEPT ![q] = x],
           UNCHANGED <<letter, approval, sequence, agreed, lost>>,
           x.row # None => /\ approval[x.row].letter = x.letter
                           /\ approval[x.row].approver = x.who /\ x.letter \in Letter,
           \A a \in x.rows : approval[a].letter = x.letter /\ x.letter \in Letter
    PROVE  LetterInv'
  <1>1. LetterTypes /\ NumbersInv /\ RecordsInv
    BY DEF LetterInv
  <1>2. LetterTypes'
    BY <1>1, RequestStays DEF LetterTypes
  <1>3. NumbersInv'
    BY <1>1, NumbersStay
  <1>4. RowsAreOwn'
    BY <1>1, RowsStay DEF RecordsInv
  <1>5. ApprovalIsRecorded'
    BY <1>1 DEF RecordsInv, ApprovalIsRecorded
  <1> QED BY <1>2, <1>3, <1>4, <1>5 DEF LetterInv, RecordsInv

LEMMA ReadStep ==
    ASSUME LetterInv, NEW q \in Request, NEW l \in Letter, Begin(q, l)
    PROVE  LetterInv'
  <1>1. ASSUME NEW op \in Operation, NEW who \in Decider \cup {None}, Read(q, l, op, who),
               op \in {"approve", "reject"} => who \in Decider
        PROVE  LetterInv'
    <2> DEFINE x == [Idle EXCEPT !.at = op, !.letter = l, !.who = who]
    <2>1. /\ x.at = op /\ x.letter = l /\ x.who = who /\ x.number = None /\ x.series = None
          /\ x.row = None /\ x.rows = {} /\ x \in LetterRequest
      BY DEF Idle, LetterRequest
    <2>2. req' = [req EXCEPT ![q] = x] /\ UNCHANGED <<letter, approval, sequence, agreed, lost>>
      BY <1>1 DEF Read
    <2> HIDE DEF x
    <2>3. Informed(x) /\ Keeps(q, x)
      BY <1>1, <2>1 DEF Informed, Keeps, Operation
    <2> QED BY <2>1, <2>2, <2>3, OnlyRequest
  <1>2. CASE IssueRead(q, l)
    <2> DEFINE x == [Idle EXCEPT !.letter = l, !.number = letter[l].number,
                                 !.at = IF letter[l].number = None THEN "issueNext" ELSE "issue"]
    <2>1. /\ x.letter = l /\ x.number = letter[l].number /\ x.series = None
          /\ x.at = IF letter[l].number = None THEN "issueNext" ELSE "issue"
          /\ x.row = None /\ x.rows = {} /\ x \in LetterRequest
      BY DEF Idle, LetterRequest, LetterInv, LetterTypes, LetterRow
    <2>2. req' = [req EXCEPT ![q] = x] /\ UNCHANGED <<letter, approval, sequence, agreed, lost>>
      BY <1>2 DEF IssueRead
    <2> HIDE DEF x
    <2>3. Informed(x) /\ Keeps(q, x)
      BY <2>1 DEF Informed, Keeps, LetterRequest
    <2> QED BY <2>1, <2>2, <2>3, OnlyRequest
  <1>3. CASE GenerateRead(q, l)
    <2> DEFINE x == [Idle EXCEPT !.letter = l, !.at = "generateNext"]
    <2>1. /\ x.letter = l /\ x.number = None /\ x.series = None /\ x.at = "generateNext"
          /\ x.row = None /\ x.rows = {} /\ x \in LetterRequest
      BY DEF Idle, LetterRequest
    <2>2. req' = [req EXCEPT ![q] = x] /\ UNCHANGED <<letter, approval, sequence, agreed, lost>>
      BY <1>3 DEF GenerateRead
    <2> HIDE DEF x
    <2>3. Informed(x) /\ Keeps(q, x)
      BY <2>1 DEF Informed, Keeps
    <2> QED BY <2>1, <2>2, <2>3, OnlyRequest
  <1> QED BY <1>1, <1>2, <1>3, Operations DEF Begin, Operation

LEMMA ClearStep ==
    ASSUME LetterInv, NEW q \in Request, SubmitClear(q)
    PROVE  LetterInv'
  <1> DEFINE x == [req[q] EXCEPT !.at = "ask", !.rows = Pending(req[q].letter)]
  <1>1. req[q] \in LetterRequest /\ Informed(req[q]) /\ req[q].at = "submit"
    BY DEF LetterInv, LetterTypes, SubmitClear
  <1>2. /\ x.letter = req[q].letter /\ x.number = req[q].number /\ x.series = req[q].series
        /\ x.row = req[q].row /\ x.who = req[q].who /\ x.rows = Pending(req[q].letter)
        /\ x.at = "ask" /\ x \in LetterRequest
    BY <1>1 DEF LetterRequest, Pending
  <1>3. req' = [req EXCEPT ![q] = x] /\ UNCHANGED <<letter, approval, sequence, agreed, lost>>
    BY DEF SubmitClear
  <1> HIDE DEF x
  <1>4. Informed(x) /\ Keeps(q, x)
    BY <1>1, <1>2 DEF Informed, Keeps
  <1>5. \A a \in x.rows : approval[a].letter = x.letter /\ x.letter \in Letter
    BY <1>1, <1>2 DEF Pending, Informed
  <1>6. x.row # None => /\ approval[x.row].letter = x.letter
                        /\ approval[x.row].approver = x.who /\ x.letter \in Letter
    BY <1>2 DEF LetterInv, RecordsInv, RowsAreOwn
  <1> QED BY <1>2, <1>3, <1>4, <1>5, <1>6, OnlyRequest

LEMMA FindStep ==
    ASSUME LetterInv, NEW q \in Request, NEW a \in Approval \cup {None}, FindApproval(q, a)
    PROVE  LetterInv'
  <1> DEFINE x == [req[q] EXCEPT !.at = IF @ = "approve" THEN "approving" ELSE "rejecting", !.row = a]
  <1>1. req[q] \in LetterRequest /\ Informed(req[q]) /\ req[q].at \in {"approve", "reject"}
    BY DEF LetterInv, LetterTypes, FindApproval
  <1>2. /\ x.letter = req[q].letter /\ x.number = req[q].number /\ x.series = req[q].series
        /\ x.row = a /\ x.who = req[q].who /\ x.rows = req[q].rows
        /\ x.at \in {"approving", "rejecting"} /\ x \in LetterRequest
    BY <1>1 DEF LetterRequest
  <1>3. req' = [req EXCEPT ![q] = x] /\ UNCHANGED <<letter, approval, sequence, agreed, lost>>
    BY DEF FindApproval
  <1> HIDE DEF x
  <1>4. Informed(x) /\ Keeps(q, x)
    BY <1>1, <1>2 DEF Informed, Keeps
  <1>5. a # None => approval[a].letter = req[q].letter /\ approval[a].approver = req[q].who
    BY DEF FindApproval, Pending
  <1>6. \A b \in x.rows : approval[b].letter = x.letter /\ x.letter \in Letter
    BY <1>2 DEF LetterInv, RecordsInv, RowsAreOwn
  <1>7. x.letter \in Letter
    BY <1>1, <1>2 DEF Informed
  <1> QED BY <1>2, <1>3, <1>4, <1>5, <1>6, <1>7, OnlyRequest

LEMMA AbandonStep ==
    ASSUME LetterInv, NEW q \in Request, Abandon(q)
    PROVE  LetterInv'
  <1>1. Keeps(q, Idle)
    BY IdleFacts DEF Keeps
  <1> QED BY <1>1, IdleFacts, OnlyRequest DEF Abandon, Finish

-----------------------------------------------------------------------------
(* A request ends by writing its letter, and perhaps its approvals.        *)
LEMMA LetterWritten ==
    ASSUME LetterInv, NEW q \in Request, Finish(q),
           letter' \in [Letter -> LetterRow], \A l \in Letter : letter'[l].number = letter[l].number,
           approval' \in [Approval -> ApprovalRow],
           \A a \in Approval : approval[a].letter # None =>
              approval'[a].letter = approval[a].letter /\ approval'[a].approver = approval[a].approver,
           UNCHANGED <<sequence, lost>>, agreed' \subseteq Letter,
           ApprovalIsRecorded'
    PROVE  LetterInv'
  <1>1. LetterTypes /\ NumbersInv /\ RecordsInv /\ req' = [req EXCEPT ![q] = Idle]
    BY DEF LetterInv, Finish
  <1>2. LetterTypes'
    BY <1>1, IdleFacts, RequestStays DEF LetterTypes
  <1>3. NumbersInv'
    BY <1>1, IdleFacts, NumbersStay DEF Keeps
  <1>4. RowsAreOwn'
    BY <1>1, IdleFacts, RowsStay DEF RecordsInv
  <1> QED BY <1>2, <1>3, <1>4 DEF LetterInv, RecordsInv

LEMMA EditStep ==
    ASSUME LetterInv, NEW q \in Request,
           \/ \E requires \in BOOLEAN : UpdateLetter(q, requires)
           \/ DeleteLetter(q) \/ ArchiveLetter(q) \/ CancelLetter(q) \/ ReopenLetter(q)
    PROVE  LetterInv'
  <1>1. letter \in [Letter -> LetterRow] /\ agreed \subseteq Letter /\ Informed(req[q])
    BY DEF LetterInv, LetterTypes
  <1>2. Finish(q) /\ UNCHANGED <<approval, sequence, lost>> /\ agreed' \subseteq Letter
        /\ req[q].at # "idle"
    BY <1>1 DEF UpdateLetter, DeleteLetter, ArchiveLetter, CancelLetter, ReopenLetter
  <1> DEFINE Edited ==
        /\ letter' \in [Letter -> LetterRow]
        /\ \A l \in Letter : /\ letter'[l].number = letter[l].number
                             /\ \/ letter'[l].status # "APPROVED"
                                \/ /\ letter'[l].status = letter[l].status
                                   /\ letter'[l].approvedBy = letter[l].approvedBy
  <1>3. Edited
    <2>1. req[q].letter \in Letter
      BY <1>1, <1>2 DEF Informed
    <2>2. ASSUME NEW requires \in BOOLEAN, UpdateLetter(q, requires) PROVE Edited
      BY <1>1, <2>1, <2>2 DEF UpdateLetter, LetterRow
    <2>3. CASE DeleteLetter(q)
      <3>1. letter' = [letter EXCEPT ![req[q].letter].deleted = TRUE]
        BY <2>3 DEF DeleteLetter
      <3>2. letter' \in [Letter -> LetterRow]
        BY <1>1, <2>1, <3>1 DEF LetterRow
      <3>3. \A l \in Letter : /\ letter'[l].number = letter[l].number
                             /\ letter'[l].status = letter[l].status
                             /\ letter'[l].approvedBy = letter[l].approvedBy
        BY <1>1, <3>1 DEF LetterRow
      <3> QED BY <3>2, <3>3
    <2>4. CASE ArchiveLetter(q)
      BY <1>1, <2>1, <2>4 DEF ArchiveLetter, LetterRow
    <2>5. CASE CancelLetter(q)
      BY <1>1, <2>1, <2>5 DEF CancelLetter, LetterRow
    <2>6. CASE ReopenLetter(q)
      BY <1>1, <2>1, <2>6 DEF ReopenLetter, LetterRow
    <2> QED BY <2>2, <2>3, <2>4, <2>5, <2>6
  <1>4. ApprovalIsRecorded'
    BY <1>2, <1>3 DEF LetterInv, RecordsInv, ApprovalIsRecorded
  <1>5. approval' \in [Approval -> ApprovalRow]
    BY <1>2 DEF LetterInv, LetterTypes
  <1> QED BY <1>2, <1>3, <1>4, <1>5, LetterWritten

(* A new letter has no number. *)
LEMMA CreateStep ==
    ASSUME LetterInv, NEW l \in Letter, NEW requires \in BOOLEAN, CreateLetter(l, requires)
    PROVE  LetterInv'
  <1>1. UNCHANGED <<approval, sequence, req, agreed, lost>>
    BY DEF CreateLetter
  <1>2. /\ letter' \in [Letter -> LetterRow]
        /\ \A k \in Letter : /\ letter'[k].number = letter[k].number
                             /\ letter'[k].status = "APPROVED" => letter'[k] = letter[k]
    <2>1. letter \in [Letter -> LetterRow] /\ letter[l] = NoLetter
      BY DEF LetterInv, LetterTypes, CreateLetter
    <2> QED BY <2>1 DEF CreateLetter, NoLetter, LetterRow
  <1>3. LetterTypes'
    BY <1>1, <1>2 DEF LetterInv, LetterTypes
  <1>4. NumbersInv'
    <2>1. NumbersAreHeld'
      BY <1>1, <1>2 DEF LetterInv, NumbersInv, NumbersAreHeld, Committed
    <2>2. \A k \in Letter, n \in Numbers : NumberOf(k, n)' <=> NumberOf(k, n)
      BY <1>1, <1>2 DEF NumberOf
    <2>3. OneOwner'
      BY <2>2 DEF LetterInv, NumbersInv, OneOwner
    <2>4. NumbersHaveNoGaps'
      <3>1. NumbersHaveNoGaps /\ UNCHANGED <<sequence, lost>>
        BY <1>1 DEF LetterInv, NumbersInv
      <3>2. \A k \in Letter : letter'[k].number = letter[k].number
        BY <1>2
      <3> QED BY <3>1, <3>2 DEF NumbersHaveNoGaps
    <2> QED BY <2>1, <2>3, <2>4 DEF NumbersInv
  <1>5. RecordsInv'
    BY <1>1, <1>2 DEF LetterInv, RecordsInv, RowsAreOwn, ApprovalIsRecorded
  <1> QED BY <1>3, <1>4, <1>5 DEF LetterInv

(* The records of a letter that is approved are none of the rows that a    *)
(* submission of another letter deletes, and are not free.                 *)
LEMMA SubmitStep ==
    ASSUME LetterInv, NEW q \in Request, NEW rows \in [Approver -> Approval], SubmitLetter(q, rows)
    PROVE  LetterInv'
  <1> DEFINE m == req[q].letter
  <1>1. /\ letter \in [Letter -> LetterRow] /\ approval \in [Approval -> ApprovalRow]
        /\ req[q].rows \subseteq Approval /\ m \in Letter
    BY DEF LetterInv, LetterTypes, SubmitLetter, Informed, LetterRequest
  <1>2. /\ Finish(q) /\ UNCHANGED <<sequence, agreed, lost>>
        /\ letter' = [letter EXCEPT ![m].status = "SUBMITTED"]
    BY DEF SubmitLetter
  <1>3. /\ letter' \in [Letter -> LetterRow]
        /\ \A l \in Letter : /\ letter'[l].number = letter[l].number
                             /\ letter'[l].status = "APPROVED" => l # m /\ letter'[l] = letter[l]
    BY <1>1, <1>2 DEF LetterRow
  <1>4. ASSUME NEW a \in Approval
        PROVE  \/ a \in req[q].rows /\ approval'[a] = [approval[a] EXCEPT !.status = "DELETED"]
               \/ approval[a] = NoApproval /\ approval'[a] \in ApprovalRow
               \/ a \notin req[q].rows /\ approval'[a] = approval[a]
    <2>1. CASE a \in req[q].rows
      BY <2>1 DEF SubmitLetter
    <2>2. CASE a \notin req[q].rows /\ \E p \in Approver : rows[p] = a
      <3>1. approval[a] = NoApproval
        BY <2>2 DEF SubmitLetter
      <3>2. (CHOOSE p \in Approver : rows[p] = a) \in Decider
        BY <2>2
      <3>3. approval'[a] = [letter |-> m, status |-> "PENDING",
                            approver |-> CHOOSE p \in Approver : rows[p] = a]
        BY <2>2 DEF SubmitLetter
      <3> QED BY <1>1, <3>1, <3>2, <3>3 DEF ApprovalRow
    <2>3. CASE a \notin req[q].rows /\ ~\E p \in Approver : rows[p] = a
      BY <2>3 DEF SubmitLetter
    <2> QED BY <2>1, <2>2, <2>3
  <1>5. approval' \in [Approval -> ApprovalRow]
    <2>1. \A a \in Approval : approval'[a] \in ApprovalRow
      BY <1>1, <1>4 DEF ApprovalRow
    <2> QED BY <2>1 DEF SubmitLetter
  <1>6. \A a \in Approval : approval[a].letter # None =>
           approval'[a].letter = approval[a].letter /\ approval'[a].approver = approval[a].approver
    <2> SUFFICES ASSUME NEW a \in Approval, approval[a].letter # None
                 PROVE  /\ approval'[a].letter = approval[a].letter
                        /\ approval'[a].approver = approval[a].approver
      OBVIOUS
    <2>1. approval[a] \in ApprovalRow /\ approval[a] # NoApproval
      BY <1>1 DEF NoApproval
    <2>2. CASE approval'[a] = [approval[a] EXCEPT !.status = "DELETED"]
      BY <2>1, <2>2 DEF ApprovalRow
    <2>3. CASE approval'[a] = approval[a]
      BY <2>3
    <2> QED BY <1>4, <2>1, <2>2, <2>3
  <1>7. ApprovalIsRecorded'
    <2> SUFFICES ASSUME NEW l \in Letter, letter'[l].status = "APPROVED"
                 PROVE  \E a \in Approval :
                           approval'[a] = [letter |-> l, approver |-> letter'[l].approvedBy,
                                           status |-> "APPROVED"]
      BY DEF ApprovalIsRecorded
    <2>1. l # m /\ letter'[l] = letter[l]
      BY <1>3
    <2>2. PICK a \in Approval : approval[a] = [letter |-> l, approver |-> letter[l].approvedBy,
                                               status |-> "APPROVED"]
      BY <2>1 DEF LetterInv, RecordsInv, ApprovalIsRecorded
    <2>3. approval[a].letter = l /\ approval[a].status = "APPROVED"
      BY <2>2
    <2>4. a \notin req[q].rows /\ approval[a] # NoApproval
      BY <2>1, <2>3 DEF LetterInv, RecordsInv, RowsAreOwn, NoApproval
    <2> QED BY <1>4, <2>1, <2>2, <2>4
  <1> QED BY <1>2, <1>3, <1>5, <1>6, <1>7, LetterWritten DEF LetterInv, LetterTypes

(* A decision writes one row, which is of its letter and of who decides, or*)
(* is free.                                                                *)
LEMMA MarkStep ==
    ASSUME LetterTypes, RowsAreOwn, NEW q \in Request, NEW new \in Approval,
           NEW status \in {"APPROVED", "REJECTED"}, MarkApproval(q, new, status),
           req[q].at \in {"approving", "rejecting"}
    PROVE  /\ approval' \in [Approval -> ApprovalRow]
           /\ \A a \in Approval : approval[a].letter # None =>
                 /\ approval'[a].letter = approval[a].letter
                 /\ approval'[a].approver = approval[a].approver
           /\ \E b \in Approval :
                 /\ approval'[b] = [letter |-> req[q].letter, approver |-> req[q].who,
                                    status |-> status]
                 /\ approval[b].letter \in {None, req[q].letter}
                 /\ \A a \in Approval \ {b} : approval'[a] = approval[a]
  <1> DEFINE y == [letter |-> req[q].letter, approver |-> req[q].who, status |-> status]
  <1>1. /\ approval \in [Approval -> ApprovalRow] /\ req[q] \in LetterRequest
        /\ req[q].letter \in Letter /\ req[q].who \in Decider
    BY DEF LetterTypes, Informed
  <1>2. /\ y \in ApprovalRow /\ y.letter = req[q].letter /\ y.approver = req[q].who
    BY <1>1 DEF ApprovalRow
  <1>3. \E b \in Approval :
           /\ approval' = [approval EXCEPT ![b] = y]
           /\ \/ approval[b] = NoApproval
              \/ approval[b].letter = req[q].letter /\ approval[b].approver = req[q].who
    <2>1. CASE req[q].row = None
      BY <2>1 DEF MarkApproval
    <2>2. CASE req[q].row # None
      <3> DEFINE b == req[q].row
      <3>1. b \in Approval /\ approval[b].letter = req[q].letter /\ approval[b].approver = req[q].who
        BY <1>1, <2>2 DEF LetterRequest, RowsAreOwn
      <3>2. approval' = [approval EXCEPT ![b].status = status]
        BY <2>2 DEF MarkApproval
      <3>3. [approval[b] EXCEPT !.status = status] = y
        BY <1>1, <3>1 DEF ApprovalRow
      <3>4. approval' = [approval EXCEPT ![b] = y]
        BY <3>2, <3>3
      <3> QED BY <3>1, <3>4
    <2> QED BY <2>1, <2>2
  <1> HIDE DEF y
  <1>4. PICK b \in Approval :
           /\ approval' = [approval EXCEPT ![b] = y]
           /\ \/ approval[b] = NoApproval
              \/ approval[b].letter = req[q].letter /\ approval[b].approver = req[q].who
    BY <1>3
  <1>5. approval'[b] = y /\ \A a \in Approval \ {b} : approval'[a] = approval[a]
    BY <1>1, <1>4
  <1>6. approval[b].letter \in {None, req[q].letter}
        /\ (approval[b].letter # None => approval[b].approver = req[q].who)
    BY <1>4 DEF NoApproval
  <1>7. approval' \in [Approval -> ApprovalRow]
    BY <1>1, <1>2, <1>4
  <1>8. \A a \in Approval : approval[a].letter # None =>
           approval'[a].letter = approval[a].letter /\ approval'[a].approver = approval[a].approver
    BY <1>2, <1>5, <1>6
  <1> QED BY <1>5, <1>6, <1>7, <1>8 DEF y

LEMMA DecideStep ==
    ASSUME LetterInv, NEW q \in Request, NEW new \in Approval,
           ApproveLetter(q, new) \/ RejectLetter(q, new)
    PROVE  LetterInv'
  <1> DEFINE m == req[q].letter
  <1>1. /\ letter \in [Letter -> LetterRow] /\ m \in Letter /\ req[q].who \in Decider
        /\ agreed \subseteq Letter /\ RowsAreOwn /\ LetterTypes /\ ApprovalIsRecorded
        /\ req[q].at \in {"approving", "rejecting"}
    BY DEF LetterInv, LetterTypes, Informed, RecordsInv, ApproveLetter, RejectLetter
  <1>2. PICK status \in {"APPROVED", "REJECTED"} :
           /\ MarkApproval(q, new, status)
           /\ letter' = IF status = "APPROVED"
                        THEN [letter EXCEPT ![m].status = "APPROVED", ![m].approvedBy = req[q].who]
                        ELSE [letter EXCEPT ![m].status = "REJECTED"]
    BY DEF ApproveLetter, RejectLetter
  <1>3. Finish(q) /\ UNCHANGED <<sequence, lost>> /\ agreed' \subseteq Letter
    BY <1>1 DEF ApproveLetter, RejectLetter
  <1>4. /\ letter' \in [Letter -> LetterRow]
        /\ letter'[m].status = status /\ letter'[m].number = letter[m].number
        /\ status = "APPROVED" => letter'[m].approvedBy = req[q].who
        /\ \A l \in Letter \ {m} : letter'[l] = letter[l]
    BY <1>1, <1>2 DEF LetterRow
  <1>5. /\ approval' \in [Approval -> ApprovalRow]
        /\ \A a \in Approval : approval[a].letter # None =>
              approval'[a].letter = approval[a].letter /\ approval'[a].approver = approval[a].approver
        /\ \E b \in Approval :
              /\ approval'[b] = [letter |-> m, approver |-> req[q].who, status |-> status]
              /\ approval[b].letter \in {None, m}
              /\ \A a \in Approval \ {b} : approval'[a] = approval[a]
    <2>1. MarkApproval(q, new, status)
      BY <1>2
    <2> QED BY <1>1, <2>1, MarkStep
  <1>6. PICK b \in Approval :
           /\ approval'[b] = [letter |-> m, approver |-> req[q].who, status |-> status]
           /\ approval[b].letter \in {None, m}
           /\ \A a \in Approval \ {b} : approval'[a] = approval[a]
    BY <1>5
  <1>7. ApprovalIsRecorded'
    <2> SUFFICES ASSUME NEW l \in Letter, letter'[l].status = "APPROVED"
                 PROVE  \E a \in Approval :
                           approval'[a] = [letter |-> l, approver |-> letter'[l].approvedBy,
                                           status |-> "APPROVED"]
      BY DEF ApprovalIsRecorded
    <2>1. CASE l = m
      BY <1>4, <1>6, <2>1
    <2>2. CASE l # m
      <3>1. PICK a \in Approval : approval[a] = [letter |-> l, approver |-> letter[l].approvedBy,
                                                 status |-> "APPROVED"]
        BY <1>1, <1>4, <2>2 DEF ApprovalIsRecorded
      <3>2. approval[a].letter = l /\ a # b
        BY <1>6, <2>2, <3>1
      <3> QED BY <1>4, <1>6, <2>2, <3>1, <3>2
    <2> QED BY <2>1, <2>2
  <1>8. \A l \in Letter : letter'[l].number = letter[l].number
    BY <1>4
  <1> QED BY <1>3, <1>4, <1>5, <1>7, <1>8, LetterWritten

-----------------------------------------------------------------------------
(* The next number of a series is free: nobody else holds the series, and  *)
(* what letters have, or requests have read from them, was committed.      *)
LEMMA NextStep ==
    ASSUME LetterInv, NEW q \in Request, NEW s \in Series, NextNumber(q, s)
    PROVE  LetterInv'
  <1> DEFINE n == <<s, sequence[s] + 1>>
             x == [req[q] EXCEPT !.at = IF @ = "issueNext" THEN "issue" ELSE "generate",
                                 !.number = n, !.series = s]
  <1>1. /\ req[q] \in LetterRequest /\ Informed(req[q]) /\ sequence[s] \in Nat
        /\ req[q].at \in {"issueNext", "generateNext"} /\ req \in [Request -> LetterRequest]
        /\ \A r \in Request : req[r].series # s
    BY DEF LetterInv, LetterTypes, NextNumber, Holds
  <1>2. n \in Numbers /\ n[1] = s /\ n[2] = sequence[s] + 1 /\ s # None
    BY <1>1 DEF Numbers
  <1> HIDE DEF n
  <1>3. /\ x.letter = req[q].letter /\ x.number = n /\ x.series = s
        /\ x.row = req[q].row /\ x.who = req[q].who /\ x.rows = req[q].rows
        /\ x.at \in {"issue", "generate"} /\ x \in LetterRequest
    BY <1>1, <1>2 DEF LetterRequest
  <1>4. req' = [req EXCEPT ![q] = x] /\ UNCHANGED <<letter, approval, sequence, agreed, lost>>
    BY DEF NextNumber, n
  <1> HIDE DEF x
  <1>5. req'[q] = x /\ \A r \in Request : r # q => req'[r] = req[r]
    BY <1>1, <1>4
  <1>6. Informed(x) /\ x.letter \in Letter
    BY <1>1, <1>2, <1>3 DEF Informed
  <1>7. LetterTypes'
    BY <1>3, <1>4, <1>6, RequestStays DEF LetterInv, LetterTypes
  <1>8. RowsAreOwn' /\ ApprovalIsRecorded'
    BY <1>3, <1>4, <1>5 DEF LetterInv, RecordsInv, RowsAreOwn, ApprovalIsRecorded
  <1>9. NumbersAreHeld'
    BY <1>1, <1>2, <1>3, <1>4, <1>5 DEF LetterInv, NumbersInv, NumbersAreHeld, Committed, n
  <1>10. \A l \in Letter : ~NumberOf(l, n)
    <2> SUFFICES ASSUME NEW l \in Letter, NumberOf(l, n) PROVE FALSE
      OBVIOUS
    <2>1. n # None
      BY <1>2 DEF Numbers
    <2>2. ~Committed(n)
      BY <1>1, <1>2 DEF Committed
    <2>3. ASSUME NEW r \in Request, req[r].number = n, req[r].series # None
          PROVE  FALSE
      <3>1. req[r].number = <<req[r].series, sequence[req[r].series] + 1>>
        BY <2>3 DEF LetterInv, NumbersInv, NumbersAreHeld
      <3>2. req[r].series = s
        BY <1>2, <2>3, <3>1
      <3> QED BY <1>1, <3>2
    <2> QED BY <2>1, <2>2, <2>3 DEF NumberOf, LetterInv, NumbersInv, NumbersAreHeld
  <1>11. OneOwner'
    <2>1. \A l \in Letter, k \in Numbers : NumberOf(l, k)' =>
             NumberOf(l, k) \/ (k = n /\ l = x.letter)
      BY <1>3, <1>4, <1>5 DEF NumberOf
    <2> QED BY <1>10, <2>1 DEF LetterInv, NumbersInv, OneOwner
  <1>12. NumbersHaveNoGaps'
    BY <1>4 DEF LetterInv, NumbersInv, NumbersHaveNoGaps
  <1> QED BY <1>7, <1>8, <1>9, <1>11, <1>12 DEF LetterInv, NumbersInv, RecordsInv

(* The number is written, and so is the series if the request holds it.    *)
LEMMA CommitStep ==
    ASSUME LetterInv, NEW q \in Request, IssueLetter(q) \/ GenerateNumber(q)
    PROVE  LetterInv'
  <1> DEFINE m == req[q].letter
             n == req[q].number
             s == req[q].series
  <1>1. /\ req[q].at \in {"issue", "generate"} /\ req \in [Request -> LetterRequest]
        /\ m \in Letter /\ n \in Numbers /\ s \in Series \cup {None}
        /\ letter \in [Letter -> LetterRow] /\ sequence \in [Series -> Nat]
        /\ lost \subseteq Numbers /\ agreed \subseteq Letter
        /\ NumbersAreHeld /\ OneOwner /\ NumbersHaveNoGaps /\ RowsAreOwn /\ ApprovalIsRecorded
    BY DEF LetterInv, LetterTypes, NumbersInv, RecordsInv, Informed, LetterRequest,
           IssueLetter, GenerateNumber
  <1>2. /\ req' = [req EXCEPT ![q] = Idle] /\ UNCHANGED <<approval, agreed>> /\ CommitNumber(q)
        /\ letter' \in [Letter -> LetterRow]
        /\ letter'[m].number = n /\ letter'[m].status \in {"ISSUED", letter[m].status}
        /\ letter'[m].approvedBy = letter[m].approvedBy
        /\ \A l \in Letter \ {m} : letter'[l] = letter[l]
    BY <1>1 DEF IssueLetter, GenerateNumber, LetterRow, Finish
  <1>3. req'[q] = Idle /\ \A r \in Request : r # q => req'[r] = req[r]
    BY <1>1, <1>2
  <1>4. n[1] \in Series /\ n[2] \in Nat \ {0} /\ n = <<n[1], n[2]>> /\ n # None
    BY <1>1 DEF Numbers
  <1>5. s # None => s \in Series /\ s = n[1] /\ n[2] = sequence[s] + 1
    BY <1>1, <1>4 DEF NumbersAreHeld
  <1>6. sequence' = IF s = None THEN sequence ELSE [sequence EXCEPT ![s] = n[2]]
    BY <1>2 DEF CommitNumber
  <1>7. lost' = lost \cup ({letter[m].number} \ {None, n})
    BY <1>2 DEF CommitNumber
  <1> HIDE DEF m, n, s
  <1>8. /\ sequence' \in [Series -> Nat] /\ \A t \in Series : sequence[t] <= sequence'[t]
        /\ \A t \in Series : t # s => sequence'[t] = sequence[t]
        /\ s # None => sequence'[s] = n[2]
    BY <1>1, <1>4, <1>5, <1>6
  <1>9. lost' \subseteq Numbers /\ lost \subseteq lost'
    BY <1>1, <1>7 DEF LetterRow
  <1>10. LetterTypes'
    BY <1>2, <1>8, <1>9, <1>1, IdleFacts, RequestStays DEF LetterInv, LetterTypes
  <1>11. RowsAreOwn' /\ ApprovalIsRecorded'
    BY <1>1, <1>2, <1>3, IdleFacts DEF RowsAreOwn, ApprovalIsRecorded
  <1>12. n[2] <= sequence'[n[1]]
    <2>1. s = None => Committed(n)
      BY <1>1, <1>4 DEF NumbersAreHeld, n, s
    <2> QED BY <1>4, <1>5, <1>8, <2>1 DEF Committed
  <1>13. ASSUME NEW k \in Numbers, Committed(k)
         PROVE  Committed(k)'
    <2>1. k[1] \in Series /\ k[2] \in Nat
      BY DEF Numbers
    <2>2. sequence[k[1]] \in Nat /\ sequence'[k[1]] \in Nat /\ sequence[k[1]] <= sequence'[k[1]]
      BY <1>1, <1>8, <2>1
    <2>3. k[2] <= sequence[k[1]]
      BY <1>13 DEF Committed
    <2> QED BY <2>1, <2>2, <2>3 DEF Committed
  <1>14. NumbersAreHeld'
    <2>1. ASSUME NEW r \in Request, req'[r].series # None
          PROVE  /\ r # q /\ req[r].series = req'[r].series /\ req[r].series # s
                 /\ req'[r].number = <<req'[r].series, sequence'[req'[r].series] + 1>>
      <3>1. r # q /\ req'[r] = req[r]
        BY <1>3, <2>1, IdleFacts
      <3>2. req[r].series # s /\ req[r].series \in Series
        BY <1>1, <2>1, <3>1 DEF NumbersAreHeld, s, LetterRequest
      <3> QED BY <1>1, <1>8, <2>1, <3>1, <3>2 DEF NumbersAreHeld
    <2>2. ASSUME NEW l \in Letter, letter'[l].number # None
          PROVE  letter'[l].number[2] <= sequence'[letter'[l].number[1]]
      <3>1. CASE l = m
        BY <1>2, <1>12, <3>1
      <3>2. CASE l # m
        <4>1. letter[l].number \in Numbers /\ Committed(letter[l].number)
              /\ letter'[l].number = letter[l].number
          BY <1>1, <1>2, <2>2, <3>2 DEF NumbersAreHeld, LetterRow
        <4> QED BY <1>13, <4>1 DEF Committed
      <3> QED BY <3>1, <3>2
    <2>3. ASSUME NEW r \in Request, req'[r].series = None, req'[r].number # None
          PROVE  req'[r].number[2] <= sequence'[req'[r].number[1]]
      <3>1. req'[r] = req[r]
        BY <1>3, <2>3, IdleFacts
      <3>2. req[r].number \in Numbers /\ Committed(req[r].number)
        BY <1>1, <2>3, <3>1 DEF NumbersAreHeld, LetterRequest
      <3> QED BY <1>13, <3>1, <3>2 DEF Committed
    <2>4. \A r, t \in Request : req'[r].series # None /\ req'[r].series = req'[t].series => r = t
      BY <1>1, <2>1 DEF NumbersAreHeld
    <2> QED BY <2>1, <2>2, <2>3, <2>4 DEF NumbersAreHeld, Committed
  <1>15. OneOwner'
    <2>1. \A l \in Letter, k \in Numbers : NumberOf(l, k)' => NumberOf(l, k)
      BY <1>2, <1>3, IdleFacts, <1>1 DEF NumberOf, Numbers, m, n
    <2> QED BY <1>1, <2>1 DEF OneOwner
  <1>16. NumbersHaveNoGaps'
    <2>1. ASSUME NEW t \in Series, NEW k \in 1..sequence'[t]
          PROVE  <<t, k>> \in lost' \/ \E l \in Letter : letter'[l].number = <<t, k>>
      <3>1. CASE <<t, k>> = n
        BY <1>1, <1>2, <3>1 DEF m
      <3>2. CASE <<t, k>> # n
        <4>1. k \in 1..sequence[t]
          BY <1>1, <1>4, <1>5, <1>8, <2>1, <3>2
        <4>2. <<t, k>> \in lost \/ \E l \in Letter : letter[l].number = <<t, k>>
          BY <1>1, <4>1 DEF NumbersHaveNoGaps
        <4>3. <<t, k>> # None
          OBVIOUS
        <4> QED BY <1>2, <1>7, <3>2, <4>2, <4>3
      <3> QED BY <3>1, <3>2
    <2>2. ASSUME NEW k \in Letter, NEW l \in Letter, letter'[k].number = letter'[l].number,
                 letter'[k].number # None
          PROVE  k = l
      <3>1. letter'[k].number \in Numbers
        BY <1>2, <2>2 DEF LetterRow
      <3> QED BY <1>15, <2>2, <3>1 DEF OneOwner, NumberOf
    <2> QED BY <2>1, <2>2 DEF NumbersHaveNoGaps
  <1> QED BY <1>10, <1>11, <1>14, <1>15, <1>16 DEF LetterInv, NumbersInv, RecordsInv

-----------------------------------------------------------------------------
LEMMA LetterStep == LetterInv /\ [Next]_vars => LetterInv'
  <1> SUFFICES ASSUME LetterInv, [Next]_vars PROVE LetterInv'
    OBVIOUS
  <1>1. CASE UNCHANGED vars
    <2>1. LetterTypes' /\ RecordsInv'
      BY <1>1 DEF vars, LetterInv, LetterTypes, RecordsInv, RowsAreOwn, ApprovalIsRecorded
    <2>2. UNCHANGED <<letter, sequence, req, lost>> /\ NumbersInv
      BY <1>1 DEF vars, LetterInv
    <2>3. NumbersAreHeld'
      BY <2>2 DEF NumbersInv, NumbersAreHeld, Committed
    <2>4. OneOwner' /\ NumbersHaveNoGaps'
      BY <2>2 DEF NumbersInv, OneOwner, NumberOf, NumbersHaveNoGaps
    <2> QED BY <2>1, <2>3, <2>4 DEF LetterInv, NumbersInv
  <1>2. ASSUME NEW q \in Request, Decision(q) \/ Numbering(q) \/ Editing(q) \/ Abandon(q)
        PROVE  LetterInv'
    BY <1>2, FindStep, DecideStep, NextStep, CommitStep, EditStep, ClearStep, SubmitStep, AbandonStep
       DEF Decision, Numbering, Editing
  <1> QED BY <1>1, <1>2, CreateStep, ReadStep DEF Next

LEMMA LetterInvariance == Spec => []LetterInv
  BY InitLetter, LetterStep, PTL DEF Spec

(* Every reachable state is well typed. *)
THEOREM TypeCorrect == Spec => []TypeOK
  <1>1. LetterInv => TypeOK
    BY LetterTypeCorrect DEF LetterInv
  <1> QED BY <1>1, LetterInvariance, PTL

(* LetterNumberService.next: a series has no gaps and no number twice; only*)
(* a letter numbered by two requests at once loses one.                    *)
THEOREM NoNumberIsMissing == Spec => []NumbersHaveNoGaps
  <1>1. LetterInv => NumbersHaveNoGaps
    BY DEF LetterInv, NumbersInv
  <1> QED BY <1>1, LetterInvariance, PTL

(* approveLetter, markApproval: who approved a letter is on record in its  *)
(* approvals, although decisions and submissions overtake one another.     *)
THEOREM ApprovalsAreRecorded == Spec => []ApprovalIsRecorded
  <1>1. LetterInv => ApprovalIsRecorded
    BY DEF LetterInv, RecordsInv
  <1> QED BY <1>1, LetterInvariance, PTL
=============================================================================
