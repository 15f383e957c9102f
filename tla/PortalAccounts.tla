---------------------------- MODULE PortalAccounts ----------------------------
(***************************************************************************)
(* The accounts of students in the portal: how they are provisioned, and   *)
(* how their passwords are reset.                                          *)
(*   apps/api/src/portal-provisioning/portal-provisioning.service.ts       *)
(*   apps/api/src/students/students.service.ts, people/base-people.service *)
(*   apps/api/src/users/users.service.ts  (delete)                         *)
(*   apps/api/src/auth/auth.service.ts  (findAuthUserByEmail)              *)
(*                                                                         *)
(* Provisioning is one READ COMMITTED transaction: the row of the user it  *)
(* has created is seen by its unique index only, until it commits.  The    *)
(* rows it reads are not locked.                                           *)
(***************************************************************************)
EXTENDS Integers, FiniteSets

CONSTANTS
    Student,    \* ids of students
    Email,      \* e-mail addresses, in lower case
    Request,    \* requests that can be in progress at the same time
    None        \* no student, no e-mail

VARIABLES
    account,    \* the row of users with each e-mail: the student it was created
                \* for, or None if there is no row
    link,       \* userId of each student, as the e-mail of that user
    gone,       \* students and users that are deleted, which keep their rows
    req,        \* the state of each request
    opens,      \* history: the account that the password last set for each student
                \* opens, None if there is none
    raced       \* history: students linked to an account in place of another

vars == <<account, link, gone, req, opens, raced>>

Idle == [at |-> "idle", student |-> None, email |-> None]

Finish(q) == req' = [req EXCEPT ![q] = Idle]

(* The e-mail of a user that a transaction has created and not committed.  *)
Holds(q, e) == req[q].at = "link" /\ req[q].email = e

AccountsOf(s) == {e \in Email : account[e] = s}

-----------------------------------------------------------------------------
(* A student without an account, and an e-mail of no user.                 *)
ReadStudent(q, s, e) ==
    /\ req[q] = Idle
    /\ s \notin gone
    /\ link[s] = None
    /\ req' = [req EXCEPT ![q] = [at |-> "email", student |-> s, email |-> e]]
    /\ UNCHANGED <<account, link, gone, opens, raced>>

CheckEmail(q) == LET e == req[q].email IN
    /\ req[q].at = "email"
    /\ IF account[e] # None /\ e \notin gone
       THEN Finish(q)
       ELSE req' = [req EXCEPT ![q].at = "create"]
    /\ UNCHANGED <<account, link, gone, opens, raced>>

(* Variant with a defect: the user is created before the transaction.      *)
CreateUser_Committed(q) == LET e == req[q].email IN
    /\ req[q].at = "create"
    /\ \A r \in Request : ~Holds(r, e)
    /\ IF account[e] # None
       THEN Finish(q) /\ UNCHANGED account
       ELSE /\ req' = [req EXCEPT ![q].at = "link"]
            /\ account' = [account EXCEPT ![e] = req[q].student]
    /\ UNCHANGED <<link, gone, opens, raced>>

(* The password is hashed, and the user created unless its e-mail is taken *)
(* by then, also by a user that is deleted.                                *)
CreateUser(q) == LET e == req[q].email IN
    /\ req[q].at = "create"
    /\ \A r \in Request : ~Holds(r, e)
    /\ IF account[e] # None
       THEN Finish(q)
       ELSE req' = [req EXCEPT ![q].at = "link"]
    /\ UNCHANGED <<account, link, gone, opens, raced>>

(* The student is linked by id, whatever account it has by then; commit.   *)
LinkStudent(q) == LET s == req[q].student  e == req[q].email IN
    /\ req[q].at = "link"
    /\ account' = [account EXCEPT ![e] = s]
    /\ link' = [link EXCEPT ![s] = e]
    /\ opens' = [opens EXCEPT ![s] = e]
    /\ raced' = IF link[s] = None THEN raced ELSE raced \cup {s}
    /\ Finish(q)
    /\ UNCHANGED gone

-----------------------------------------------------------------------------
(* resetStudentPortalPassword reads the student's account, ...             *)
ReadAccount(q, s) ==
    /\ req[q] = Idle
    /\ s \notin gone
    /\ link[s] # None
    /\ req' = [req EXCEPT ![q] = [at |-> "reset", student |-> s, email |-> link[s]]]
    /\ UNCHANGED <<account, link, gone, opens, raced>>

(* ... hashes the password, and writes it by the id it has read, also to   *)
(* the row of a user that is deleted, which no login finds.                *)
ResetPassword(q) == LET e == req[q].email IN
    /\ req[q].at = "reset"
    /\ opens' = [opens EXCEPT ![req[q].student] = IF e \in gone THEN None ELSE e]
    /\ Finish(q)
    /\ UNCHANGED <<account, link, gone, raced>>

-----------------------------------------------------------------------------
(* The deletion of a student leaves the account, that of a user the link.  *)
DeleteStudent(s) ==
    /\ s \notin gone
    /\ gone' = gone \cup {s}
    /\ UNCHANGED <<account, link, req, opens, raced>>

DeleteUser(e) ==
    /\ account[e] # None
    /\ e \notin gone
    /\ gone' = gone \cup {e}
    /\ opens' = [s \in Student |-> IF opens[s] = e THEN None ELSE opens[s]]
    /\ UNCHANGED <<account, link, req, raced>>

(* A statement fails or the process stops: the transaction is rolled back. *)
Abandon(q) ==
    /\ req[q] # Idle
    /\ Finish(q)
    /\ UNCHANGED <<account, link, gone, opens, raced>>

-----------------------------------------------------------------------------
Init ==
    /\ account = [e \in Email |-> None]
    /\ link = [s \in Student |-> None]
    /\ gone = {}
    /\ req = [q \in Request |-> Idle]
    /\ opens = link
    /\ raced = {}

Next ==
    \/ \E q \in Request :
         \/ \E s \in Student : ReadAccount(q, s) \/ \E e \in Email : ReadStudent(q, s, e)
         \/ CheckEmail(q) \/ CreateUser(q) \/ LinkStudent(q) \/ ResetPassword(q)
         \/ Abandon(q)
    \/ \E s \in Student : DeleteStudent(s)
    \/ \E e \in Email : DeleteUser(e)

Spec == Init /\ [][Next]_vars

-----------------------------------------------------------------------------
TypeOK ==
    /\ account \in [Email -> Student \cup {None}]
    /\ link \in [Student -> Email \cup {None}]
    /\ gone \subseteq Student \cup Email
    /\ req \in [Request -> [at : {"idle", "email", "create", "link", "reset"},
                            student : Student \cup {None}, email : Email \cup {None}]]
    /\ opens \in [Student -> Email \cup {None}]
    /\ raced \subseteq Student

(* A student who has an account is linked to one that is the student's own,*)
(* whichever request fails where.  The student has one account only, and   *)
(* the password set last for the student opens it until its user is        *)
(* deleted, and none does afterwards: a reset still gives one out, which no*)
(* login accepts.  The exception are students for whom provisionings with  *)
(* different e-mails overlapped: each of these leaves an account, as many  *)
(* as there are at the same time (provisionStudentPortalInTransaction,     *)
(* resetStudentPortalPassword, findAuthUserByEmail).                       *)
AccountIsLinked ==
    \A s \in Student :
        /\ AccountsOf(s) # {} \/ link[s] # None => link[s] \in AccountsOf(s)
        /\ Cardinality(AccountsOf(s)) <= IF s \in raced THEN Cardinality(Request) ELSE 1
        /\ s \notin raced => opens[s] = IF link[s] \in gone THEN None ELSE link[s]
=============================================================================
