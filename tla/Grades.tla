------------------------------- MODULE Grades -------------------------------
(***************************************************************************)
(* The scores of one assessment: their input by teachers, their correction *)
(* and their approval, which tells the students.                           *)
(*   apps/api/src/grades/grades.service.ts                                 *)
(*   apps/api/src/notifications/notification-event.service.ts              *)
(*   apps/api/src/notifications/notification-recipient-resolver.service.ts *)
(*   apps/api/src/notifications/notification-dispatch.service.ts           *)
(*                                                                         *)
(* A grade is its status: the scores themselves are left out, and so are   *)
(* they in the notifications.  inputScores runs in one READ COMMITTED      *)
(* transaction: the rows it has written are locked until it commits, and a *)
(* row it has only found is not.                                           *)
(***************************************************************************)
EXTENDS FiniteSets

CONSTANTS
    Student,    \* students of the classroom
    Request,    \* requests that can be in progress at the same time
    None        \* no student

VARIABLES
    grade,      \* the status of each student's grade, "NONE" if there is no row
    reachable,  \* students who are not deleted and linked to an active account
    req,        \* the state of each request
    told,       \* the statuses each student has a notification of
    missed      \* history: students whose grade was approved without having been
                \* read, whose notification failed or who could not be reached by
                \* it, and who have not been told of their status since

vars == <<grade, reachable, req, told, missed>>

Idle == [at |-> "idle", todo |-> {}, held |-> {}, student |-> None, found |-> "NONE",
         status |-> "NONE"]

Approved(s) == grade[s] \in {"APPROVED", "PUBLISHED"}
Submitted == {s \in Student : grade[s] = "SUBMITTED"}
Locked(s) == \E q \in Request : s \in req[q].held

Finish(q) == req' = [req EXCEPT ![q] = Idle]

-----------------------------------------------------------------------------
(* inputScores: a transaction finds the grade of each student, ...         *)
StartInput(q, S) ==
    /\ req[q] = Idle
    /\ req' = [req EXCEPT ![q].at = "find", ![q].todo = S]
    /\ UNCHANGED <<grade, reachable, told, missed>>

(* ... refuses all of them if one is approved, ...                         *)
FindGrade(q, s) ==
    /\ req[q].at = "find"
    /\ s \in req[q].todo
    /\ IF Approved(s)
       THEN Finish(q)
       ELSE req' = [req EXCEPT ![q].at = "write", ![q].todo = @ \ {s}, ![q].student = s,
                               ![q].found = grade[s]]
    /\ UNCHANGED <<grade, reachable, told, missed>>

(* ... and updates it by id, or creates it: a row that another transaction *)
(* has created meanwhile is a conflict.                                    *)
WriteGrade(q) == LET s == req[q].student IN
    /\ req[q].at = "write"
    /\ ~Locked(s)
    /\ IF req[q].found = "NONE" /\ grade[s] # "NONE"
       THEN Finish(q)
       ELSE req' = [req EXCEPT ![q].at = "find", ![q].held = @ \cup {s}]
    /\ UNCHANGED <<grade, reachable, told, missed>>

CommitInput(q) ==
    /\ req[q].at = "find"
    /\ req[q].todo = {}
    /\ grade' = [s \in Student |-> IF s \in req[q].held THEN "SUBMITTED" ELSE grade[s]]
    /\ Finish(q)
    /\ UNCHANGED <<reachable, told, missed>>

(* updateScore: an upsert of one grade in any status, which a correction   *)
(* either submits again or leaves as it is.                                *)
UpdateScore(s, submit) ==
    /\ ~Locked(s)
    /\ grade' = [grade EXCEPT ![s] = CASE @ = "NONE" -> "DRAFT"
                                        [] submit     -> "SUBMITTED"
                                        [] OTHER      -> @]
    /\ UNCHANGED <<reachable, req, told, missed>>

-----------------------------------------------------------------------------
(* approveScores reads the grades that are SUBMITTED, ...                  *)
ReadSubmitted(q) ==
    /\ req[q] = Idle
    /\ req' = [req EXCEPT ![q].at = "approve", ![q].todo = Submitted]
    /\ UNCHANGED <<grade, reachable, told, missed>>

(* Variant with a defect: drafts are approved as well.                     *)
ApproveSubmitted_AndDrafts(q, status) ==
    /\ req[q].at = "approve"
    /\ \A s \in Submitted : ~Locked(s)
    /\ grade' = [s \in Student |-> IF grade[s] \in {"DRAFT", "SUBMITTED"} THEN status ELSE grade[s]]
    /\ missed' = missed \cup (Submitted \ req[q].todo)
    /\ req' = [req EXCEPT ![q].at = "notify", ![q].status = status]
    /\ UNCHANGED <<reachable, told>>

(* ... approves those that are SUBMITTED by then, waiting for the rows     *)
(* that are locked, ...                                                    *)
ApproveSubmitted(q, status) ==
    /\ req[q].at = "approve"
    /\ \A s \in Submitted : ~Locked(s)
    /\ grade' = [s \in Student |-> IF s \in Submitted THEN status ELSE grade[s]]
    /\ missed' = missed \cup (Submitted \ req[q].todo)
    /\ req' = [req EXCEPT ![q].at = "notify", ![q].status = status]
    /\ UNCHANGED <<reachable, told>>

(* ... and notifies the students whose grades it has read of the status, if*)
(* they have an active account then.  A second notification of the same    *)
(* grade and status is not made (gradePublished, studentUser, notifyUsers; *)
(* Announcements models the statements of the last one).                   *)
NotifyStudent(q, s) ==
    /\ req[q].at = "notify"
    /\ s \in req[q].todo
    /\ IF s \in reachable
       THEN /\ told' = [told EXCEPT ![s] = @ \cup {req[q].status}]
            /\ missed' = IF req[q].status = grade[s] THEN missed \ {s} ELSE missed
       ELSE /\ missed' = missed \cup {s}
            /\ UNCHANGED told
    /\ req' = [req EXCEPT ![q] = IF req[q].todo = {s} THEN Idle
                                ELSE [req[q] EXCEPT !.todo = @ \ {s}]]
    /\ UNCHANGED <<grade, reachable>>

(* An account is linked or its user activated, deactivated or deleted.     *)
SetReachable(s) ==
    /\ reachable' = IF s \in reachable THEN reachable \ {s} ELSE reachable \cup {s}
    /\ UNCHANGED <<grade, req, told, missed>>

(* A request ends or fails, or its process stops; a transaction that has   *)
(* not committed leaves nothing.                                           *)
Abandon(q) ==
    /\ req[q] # Idle
    /\ missed' = IF req[q].at = "notify" THEN missed \cup req[q].todo ELSE missed
    /\ Finish(q)
    /\ UNCHANGED <<grade, reachable, told>>

-----------------------------------------------------------------------------
Init ==
    /\ grade = [s \in Student |-> "NONE"]
    /\ reachable = Student
    /\ req = [q \in Request |-> Idle]
    /\ told = [s \in Student |-> {}]
    /\ missed = {}

Input(q) ==
    \/ \E S \in (SUBSET Student) \ {{}} : StartInput(q, S)
    \/ \E s \in Student : FindGrade(q, s)
    \/ WriteGrade(q)
    \/ CommitInput(q)

Approve(q) ==
    \/ ReadSubmitted(q)
    \/ \E status \in {"APPROVED", "PUBLISHED"} : ApproveSubmitted(q, status)
    \/ \E s \in Student : NotifyStudent(q, s)

Next ==
    \/ \E s \in Student, submit \in BOOLEAN : UpdateScore(s, submit)
    \/ \E s \in Student : SetReachable(s)
    \/ \E q \in Request : Input(q) \/ Approve(q) \/ Abandon(q)

Spec == Init /\ [][Next]_vars

-----------------------------------------------------------------------------
TypeOK ==
    /\ grade \in [Student -> {"NONE", "DRAFT", "SUBMITTED", "APPROVED", "PUBLISHED"}]
    /\ reachable \subseteq Student
    /\ \A q \in Request :
         /\ req[q].at \in {"idle", "find", "write", "approve", "notify"}
         /\ req[q].todo \subseteq Student
         /\ req[q].held \subseteq Student \ req[q].todo
         /\ req[q].student \in Student \cup {None}
         /\ req[q].found \in {"NONE", "DRAFT", "SUBMITTED", "APPROVED", "PUBLISHED"}
         /\ req[q].status \in {"NONE", "APPROVED", "PUBLISHED"}
    /\ \A q, r \in Request : q # r => req[q].held \cap req[r].held = {}
    /\ told \in [Student -> SUBSET {"APPROVED", "PUBLISHED"}]
    /\ missed \subseteq Student

(* A student whose grade is approved or published has a notification of    *)
(* that status once no approval is in progress.  The exceptions are named: *)
(* an approval approves what is SUBMITTED when it writes and tells those it*)
(* has read before; a student without an active account is not told; and an*)
(* approval that fails tells nobody any more.  Each of them lasts until the*)
(* student is told of the status.  The notification holds no score, and a  *)
(* correction that is approved with the same status again is not told anew *)
(* (approveScores, gradePublished, studentUser, notifyUsers).              *)
ApprovedAreTold ==
    (\A q \in Request : req[q].at # "notify") =>
        \A s \in Student \ missed : Approved(s) => grade[s] \in told[s]
=============================================================================
