--------------------------- MODULE RoleAssignments ---------------------------
(***************************************************************************)
(* The permissions of roles and the roles of users: how they are replaced, *)
(* and what the deletion of a role takes with it.                          *)
(*   apps/api/src/roles/roles.service.ts                                   *)
(*   apps/api/src/users/users.service.ts  (update, replaceUserRoles)       *)
(*                                                                         *)
(* A replacement is a transaction of two statements: DELETE of all rows of *)
(* the owner, and INSERT ... ON CONFLICT DO NOTHING.  Under READ COMMITTED *)
(* the DELETE looks for rows once, waits for those another transaction is  *)
(* deleting, and does not see those that one inserts.                      *)
(***************************************************************************)
EXTENDS FiniteSets

CONSTANTS
    User,           \* ids of users
    Role,           \* ids of roles
    Permission,     \* ids of permissions
    Request,        \* requests that can be in progress at the same time
    None            \* no owner

Owner == User \cup Role
ItemsOf(o) == IF o \in User THEN Role ELSE Permission

VARIABLES
    role,       \* the roles that exist
    rows,       \* rows of user_roles of each user, and of role_permissions of
                \* each role
    req,        \* the state of each request; behind (history) if another
                \* replacement has committed since it looked for the rows
    given,      \* history: what the last replacement of each owner's rows gave
    mixed       \* history: owners whose last replacement was behind

vars == <<role, rows, req, given, mixed>>

Idle == [at |-> "idle", owner |-> None, want |-> {}, rows |-> {}, behind |-> FALSE]

Finish(q) == req' = [req EXCEPT ![q] = Idle]

(* The rows a transaction has deleted and not committed.                   *)
Holds(q, o, i) == req[q].at = "insert" /\ req[q].owner = o /\ i \in req[q].rows

-----------------------------------------------------------------------------
(* users.service update: the roles are resolved before the user is written.*)
UpdateUser(q, u, S) ==
    /\ req[q] = Idle
    /\ S \subseteq role
    /\ req' = [req EXCEPT ![q].at = "replace", ![q].owner = u, ![q].want = S]
    /\ UNCHANGED <<role, rows, given, mixed>>

(* roles.service update: the role is written, and then the permissions     *)
(* are resolved, of which none is ever deleted.                            *)
UpdateRole(q, r, S) ==
    /\ req[q] = Idle
    /\ r \in role
    /\ req' = [req EXCEPT ![q].at = "replace", ![q].owner = r, ![q].want = S]
    /\ UNCHANGED <<role, rows, given, mixed>>

(* replaceUserRoles and replaceRolePermissions: deleteMany finds its rows, *)
FindRows(q) ==
    /\ req[q].at = "replace"
    /\ req' = [req EXCEPT ![q].at = "delete", ![q].rows = rows[req[q].owner]]
    /\ UNCHANGED <<role, rows, given, mixed>>

(* Variant with a defect: the rows are deleted before the transaction.     *)
DeleteRows_Committed(q) == LET o == req[q].owner IN
    /\ req[q].at = "delete"
    /\ \A r \in Request, i \in req[q].rows : ~Holds(r, o, i)
    /\ rows' = [rows EXCEPT ![o] = @ \ req[q].rows]
    /\ req' = [req EXCEPT ![q].at = "insert", ![q].rows = {}]
    /\ UNCHANGED <<role, given, mixed>>

(* ... and deletes those that are still there when nobody holds them.      *)
DeleteRows(q) == LET o == req[q].owner IN
    /\ req[q].at = "delete"
    /\ \A r \in Request, i \in req[q].rows : ~Holds(r, o, i)
    /\ req' = [req EXCEPT ![q].at = "insert", ![q].rows = @ \cap rows[o]]
    /\ UNCHANGED <<role, rows, given, mixed>>

(* Both ends of a row must exist, by its foreign keys.                     *)
Referenced(q) == LET o == req[q].owner IN
    IF o \in User THEN req[q].want \subseteq role ELSE o \in role

(* createMany waits for the rows another transaction is deleting; if its   *)
(* rows refer to a role that is gone, all is rolled back.  The rows it has *)
(* deleted and inserted again are new ones: a DELETE that waits for the old*)
(* ones leaves them.                                                       *)
InsertRows(q) == LET o == req[q].owner IN
    /\ req[q].at = "insert"
    /\ \A r \in Request \ {q}, i \in req[q].want : ~Holds(r, o, i)
    /\ IF ~Referenced(q)
       THEN Finish(q) /\ UNCHANGED <<rows, given, mixed>>
       ELSE /\ rows' = [rows EXCEPT ![o] = (@ \ req[q].rows) \cup req[q].want]
            /\ given' = [given EXCEPT ![o] = req[q].want]
            /\ mixed' = IF req[q].behind THEN mixed \cup {o} ELSE mixed \ {o}
            /\ req' = [r \in Request |->
                 IF r = q THEN Idle
                 ELSE IF req[r].owner = o /\ req[r].at \in {"delete", "insert"}
                 THEN [req[r] EXCEPT !.behind = TRUE, !.rows = @ \ req[q].rows] ELSE req[r]]
    /\ UNCHANGED role

(* A statement fails or the process stops: the transaction is rolled back. *)
Abandon(q) ==
    /\ req[q] # Idle
    /\ Finish(q)
    /\ UNCHANGED <<role, rows, given, mixed>>

(* roles.service delete; the foreign keys take the rows of the role along. *)
DeleteRole(r) ==
    /\ r \in role
    /\ \A q \in Request, o \in Owner, i \in Role \cup Permission :
          Holds(q, o, i) => o # r /\ i # r
    /\ role' = role \ {r}
    /\ rows' = [o \in Owner |-> IF o = r THEN {} ELSE rows[o] \ {r}]
    /\ given' = [o \in Owner |-> IF o = r THEN {} ELSE given[o] \ {r}]
    /\ UNCHANGED <<req, mixed>>

-----------------------------------------------------------------------------
Init ==
    /\ role = Role
    /\ rows = [o \in Owner |-> {}]
    /\ given = rows
    /\ mixed = {}
    /\ req = [q \in Request |-> Idle]

Next ==
    \/ \E q \in Request :
         \/ \E u \in User, S \in SUBSET Role : UpdateUser(q, u, S)
         \/ \E r \in Role, S \in SUBSET Permission : UpdateRole(q, r, S)
         \/ FindRows(q) \/ DeleteRows(q) \/ InsertRows(q) \/ Abandon(q)
    \/ \E r \in Role : DeleteRole(r)

Spec == Init /\ [][Next]_vars

-----------------------------------------------------------------------------
TypeOK ==
    /\ role \subseteq Role
    /\ \A o \in Owner : rows[o] \subseteq ItemsOf(o) /\ given[o] \subseteq ItemsOf(o)
    /\ mixed \subseteq Owner
    /\ \A q \in Request :
         /\ req[q].at \in {"idle", "replace", "delete", "insert"}
         /\ req[q].owner \in Owner \cup {None}
         /\ req[q].at # "idle" =>
              req[q].want \cup req[q].rows \subseteq ItemsOf(req[q].owner)
         /\ req[q].behind \in BOOLEAN

(* An owner has what the last replacement gave, and nothing else unless    *)
(* that replacement had looked for the old rows before another committed;  *)
(* a replacement that fails takes nothing away, and no row refers to a role*)
(* that was deleted (replaceUserRoles, replaceRolePermissions, delete).    *)
AssignedAsGiven ==
    /\ \A o \in Owner : given[o] \subseteq rows[o]
    /\ \A o \in Owner \ mixed : rows[o] = given[o]
    /\ \A o \in Owner : rows[o] # {} =>
          IF o \in User THEN rows[o] \subseteq role ELSE o \in role
=============================================================================
