----------------------------- MODULE Timetable ------------------------------
(***************************************************************************)
(* The lessons of the timetable: their creation and update, which check    *)
(* for conflicts in a SERIALIZABLE transaction, their soft deletion, and   *)
(* the update of a teaching assignment, which is in no transaction.        *)
(*   apps/api/src/schedules/schedules.service.ts                           *)
(*   apps/api/src/teaching-assignments/teaching-assignments.service.ts     *)
(*                                                                         *)
(* A teaching assignment names a teacher and a classroom: its parties.     *)
(* Each may have one lesson in a slot (a day and a lesson hour), as may    *)
(* each room.                                                              *)
(***************************************************************************)
EXTENDS FiniteSets

CONSTANTS
    Schedule,   \* ids of the rows of schedules
    Assignment, \* teaching assignments
    Party,      \* teachers and classrooms
    Slot,       \* pairs of a day and a lesson hour
    Room,       \* rooms
    Request,    \* requests that can be in progress at the same time
    None        \* nothing: no row, no field in an update

VARIABLES
    row,        \* status ("NONE", "LIVE", "DELETED"), assignment, slot and room
                \* of each lesson
    parties,    \* the parties of each assignment
    req,        \* the state of each request
    reassigned  \* assignments whose parties were changed while a lesson had
                \* them, or a transaction was between its check and its commit

vars == <<row, parties, req, reassigned>>

NoRow == [status |-> "NONE", ta |-> None, slot |-> None, room |-> None]
NoRows == [s \in Schedule |-> NoRow]
Idle == [at |-> "idle", id |-> None, ta |-> None, slot |-> None, room |-> None, snapshot |-> NoRows]

Live == {s \in Schedule : row[s].status = "LIVE"}
Finish(q) == req' = [req EXCEPT ![q] = Idle]

(* validateConflicts, for a lesson with the fields of x other than id: a   *)
(* field that is missing from an update is no condition at all.            *)
ConflictsOf(x, id) ==
    {s \in Live \ {id} :
       /\ x.slot \in {None, row[s].slot}
       /\ \/ parties[x.ta] \cap parties[row[s].ta] # {}
          \/ x.room \in {None, row[s].room}}

-----------------------------------------------------------------------------
(* create: the snapshot of the transaction is that of its first statement, *)
(* and shows no conflict.                                                  *)
CheckCreate(q, ta, slot, room) ==
    LET x == [at |-> "create", id |-> None, ta |-> ta, slot |-> slot, room |-> room,
              snapshot |-> row]
    IN
    /\ req[q] = Idle
    /\ ConflictsOf(x, None) = {}
    /\ req' = [req EXCEPT ![q] = x]
    /\ UNCHANGED <<row, parties, reassigned>>

(* update reads the lesson first, outside the transaction.  An update that *)
(* does not name the teaching assignment is refused by the query for it.   *)
FindSchedule(q, s) ==
    /\ req[q] = Idle
    /\ s \in Live
    /\ req' = [req EXCEPT ![q] = [Idle EXCEPT !.at = "check", !.id = s]]
    /\ UNCHANGED <<row, parties, reassigned>>

CheckUpdate(q, ta, slot, room) ==
    LET x == [at |-> "update", id |-> req[q].id, ta |-> ta, slot |-> slot, room |-> room,
              snapshot |-> row]
    IN
    /\ req[q].at = "check"
    /\ ConflictsOf(x, x.id) = {}
    /\ req' = [req EXCEPT ![q] = x]
    /\ UNCHANGED <<row, parties, reassigned>>

(* Two lessons of one slot that may not both be.                           *)
Clash(x, y) ==
    /\ x.slot = y.slot
    /\ \/ x.room = y.room
       \/ /\ parties[x.ta] \cap parties[y.ta] # {}
          /\ {x.ta, y.ta} \cap reassigned = {}

(* PostgreSQL lets one of two serializable transactions fail when each has *)
(* written what the queries of the other would have found: new clashes     *)
(* with a lesson that was written after the snapshot.  (It may fail more   *)
(* often, see Abandon; the update of an assignment takes no part in this,  *)
(* and a clash it has brought about need not be noticed.)                  *)
SerializationFailure(q, new) ==
    \E s \in Live \ {req[q].id} : row[s] # req[q].snapshot[s] /\ Clash(new, row[s])

(* (room, slot) and (assignment, slot) are unique, deleted lessons         *)
(* included: a conflict with one is an error.                              *)
Unique(new, id) ==
    \A s \in Schedule \ {id} :
       row[s].slot # new.slot \/ (row[s].room # new.room /\ row[s].ta # new.ta)

(* Variant with a defect: the transaction is READ COMMITTED.               *)
CommitCreate_ReadCommitted(q, s) ==
    LET new == [status |-> "LIVE", ta |-> req[q].ta, slot |-> req[q].slot, room |-> req[q].room] IN
    /\ req[q].at = "create"
    /\ row[s] = NoRow
    /\ row' = IF Unique(new, None) THEN [row EXCEPT ![s] = new] ELSE row
    /\ Finish(q)
    /\ UNCHANGED <<parties, reassigned>>

CommitCreate(q, s) ==
    LET new == [status |-> "LIVE", ta |-> req[q].ta, slot |-> req[q].slot, room |-> req[q].room] IN
    /\ req[q].at = "create"
    /\ row[s] = NoRow
    /\ row' = IF ~SerializationFailure(q, new) /\ Unique(new, None) THEN [row EXCEPT ![s] = new] ELSE row
    /\ Finish(q)
    /\ UNCHANGED <<parties, reassigned>>

(* The lesson keeps the fields that were not given; it may have been       *)
(* deleted since it was read, and stays deleted.  If it was written after  *)
(* the snapshot, the update fails.                                         *)
CommitUpdate(q) ==
    LET x == req[q]
        old == row[x.id]
        new == [old EXCEPT !.ta = x.ta,
                           !.slot = IF x.slot = None THEN @ ELSE x.slot,
                           !.room = IF x.room = None THEN @ ELSE x.room]
    IN
    /\ x.at = "update"
    /\ row' = IF old = x.snapshot[x.id] /\ ~SerializationFailure(q, new) /\ Unique(new, x.id) THEN [row EXCEPT ![x.id] = new] ELSE row
    /\ Finish(q)
    /\ UNCHANGED <<parties, reassigned>>

(* delete finds the lesson and deletes it by id; deleting one twice is the *)
(* same as once.                                                           *)
DeleteSchedule(s) ==
    /\ s \in Live
    /\ row' = [row EXCEPT ![s].status = "DELETED"]
    /\ UNCHANGED <<parties, req, reassigned>>

(* TeachingAssignmentsService.update: another teacher or classroom, whose  *)
(* lessons are not looked at.                                              *)
UpdateAssignment(a, P) ==
    /\ parties' = [parties EXCEPT ![a] = P]
    /\ reassigned' = IF \/ \E s \in Live : row[s].ta = a
                        \/ \E q \in Request : req[q].at \in {"create", "update"}
                     THEN reassigned \cup {a} ELSE reassigned
    /\ UNCHANGED <<row, req>>

(* A request fails, or its process stops; a transaction that has not       *)
(* committed leaves nothing.                                               *)
Abandon(q) ==
    /\ req[q] # Idle
    /\ Finish(q)
    /\ UNCHANGED <<row, parties, reassigned>>

-----------------------------------------------------------------------------
Init ==
    /\ row = [s \in Schedule |-> NoRow]
    /\ parties \in [Assignment -> {{p} : p \in Party}]
    /\ req = [q \in Request |-> Idle]
    /\ reassigned = {}

Lessons(q) ==
    \/ \E ta \in Assignment, slot \in Slot, room \in Room : CheckCreate(q, ta, slot, room)
    \/ \E s \in Schedule : FindSchedule(q, s) \/ CommitCreate(q, s)
    \/ \E ta \in Assignment, slot \in Slot \cup {None}, room \in Room \cup {None} :
         CheckUpdate(q, ta, slot, room)
    \/ CommitUpdate(q)
    \/ Abandon(q)

Next ==
    \/ \E q \in Request : Lessons(q)
    \/ \E s \in Schedule : DeleteSchedule(s)
    \/ \E a \in Assignment, p \in Party : UpdateAssignment(a, {p})

Spec == Init /\ [][Next]_vars

-----------------------------------------------------------------------------
Rows == [Schedule -> {NoRow} \cup [status : {"LIVE", "DELETED"}, ta : Assignment,
                                   slot : Slot, room : Room]]

TypeOK ==
    /\ row \in Rows
    /\ parties \in [Assignment -> SUBSET Party]
    /\ \A q \in Request :
         /\ req[q].at \in {"idle", "create", "check", "update"}
         /\ req[q].id \in Schedule \cup {None}
         /\ req[q].ta \in Assignment \cup {None}
         /\ req[q].slot \in Slot \cup {None}
         /\ req[q].room \in Room \cup {None}
         /\ req[q].snapshot \in Rows
    /\ reassigned \subseteq Assignment

(* No room, teacher or classroom has two lessons in one slot, however      *)
(* creations and partial updates overlap; two lessons of one teacher or    *)
(* classroom come only from the change of an assignment in use             *)
(* (validateConflicts).                                                    *)
NoDoubleBooking ==
    \A s, t \in Live : s # t => ~Clash(row[s], row[t])
=============================================================================
