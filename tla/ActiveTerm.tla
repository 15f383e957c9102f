----------------------------- MODULE ActiveTerm -----------------------------
(***************************************************************************)
(* The active academic year, or the active semester: two services with the *)
(* same code.  The others are made inactive in a statement of its own,     *)
(* after the one that wrote the row and after its audit record.            *)
(*   apps/api/src/academic-years/academic-years.service.ts                 *)
(*   apps/api/src/semesters/semesters.service.ts                           *)
(*   apps/api/src/master-data/base-master-data.service.ts                  *)
(***************************************************************************)
CONSTANTS
    Term,       \* ids of the rows
    Request,    \* requests that can be in progress at the same time
    None        \* no row

VARIABLES
    term,       \* each row: whether it exists, isActive, soft deletion
    req,        \* the state of each request
    failed      \* history: a request failed before it had made the other rows
                \* inactive, and no other has done so since

vars == <<term, req, failed>>

NoRow == [exists |-> FALSE, active |-> FALSE, deleted |-> FALSE]
Idle == [at |-> "idle", term |-> None]

Active == {t \in Term : term[t].active}
Finish(q) == req' = [req EXCEPT ![q] = Idle]

(* After the row is written: enforceSingleActive looks at the row returned.*)
Written(q, t, active) ==
    req' = [req EXCEPT ![q] = IF active THEN [at |-> "others", term |-> t] ELSE Idle]

CreateTerm(q, t, active) ==
    /\ req[q] = Idle
    /\ term[t] = NoRow
    /\ term' = [term EXCEPT ![t] = [exists |-> TRUE, active |-> active, deleted |-> FALSE]]
    /\ Written(q, t, active)
    /\ UNCHANGED failed

(* findById, before an update or a deletion by id.                         *)
FindTerm(q, t, op) ==
    /\ req[q] = Idle
    /\ term[t].exists /\ ~term[t].deleted
    /\ req' = [req EXCEPT ![q] = [at |-> op, term |-> t]]
    /\ UNCHANGED <<term, failed>>

UpdateTerm(q, active) == LET t == req[q].term IN
    /\ req[q].at = "update"
    /\ term' = [term EXCEPT ![t].active = active]
    /\ Written(q, t, active)
    /\ UNCHANGED failed

DeleteTerm(q) == LET t == req[q].term IN
    /\ req[q].at = "delete"
    /\ term' = [term EXCEPT ![t].active = FALSE, ![t].deleted = TRUE]
    /\ Finish(q)
    /\ UNCHANGED failed

(* Variant with a defect: rows that are deleted are left as they are.      *)
DeactivateOthers_NotDeleted(q) == LET t == req[q].term IN
    /\ req[q].at = "others"
    /\ term' = [u \in Term |-> IF u = t \/ term[u].deleted
                               THEN term[u] ELSE [term[u] EXCEPT !.active = FALSE]]
    /\ failed' = FALSE
    /\ Finish(q)

(* enforceSingleActive *)
DeactivateOthers(q) == LET t == req[q].term IN
    /\ req[q].at = "others"
    /\ term' = [u \in Term |-> IF u = t THEN term[u] ELSE [term[u] EXCEPT !.active = FALSE]]
    /\ failed' = FALSE
    /\ Finish(q)

(* A request fails, its audit record for one, or its process stops.        *)
Abandon(q) ==
    /\ req[q] # Idle
    /\ failed' = (failed \/ req[q].at = "others")
    /\ Finish(q)
    /\ UNCHANGED term

-----------------------------------------------------------------------------
Init ==
    /\ term = [t \in Term |-> NoRow]
    /\ req = [q \in Request |-> Idle]
    /\ failed = FALSE

Next ==
    \E q \in Request :
       \/ \E t \in Term, active \in BOOLEAN : CreateTerm(q, t, active)
       \/ \E t \in Term, op \in {"update", "delete"} : FindTerm(q, t, op)
       \/ \E active \in BOOLEAN : UpdateTerm(q, active)
       \/ DeleteTerm(q)
       \/ DeactivateOthers(q)
       \/ Abandon(q)

Spec == Init /\ [][Next]_vars

-----------------------------------------------------------------------------
TypeOK ==
    /\ term \in [Term -> [exists : BOOLEAN, active : BOOLEAN, deleted : BOOLEAN]]
    /\ req \in [Request -> [at : {"idle", "update", "delete", "others"},
                            term : Term \cup {None}]]
    /\ \A q \in Request : req[q] # Idle => req[q].at # "idle" /\ req[q].term \in Term
    /\ failed \in BOOLEAN

(* "Guarantees at most one active academic year by deactivating all        *)
(* others": however requests overlap, once the last of them has ended at   *)
(* most one row is active, deleted rows included, unless a request failed  *)
(* between its two statements (enforceSingleActive).                       *)
OneActive ==
    ~failed /\ (\A q \in Request : req[q].at # "others")
        => \A t, u \in Active : t = u
=============================================================================
