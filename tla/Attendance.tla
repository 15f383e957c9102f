----------------------------- MODULE Attendance ------------------------------
(***************************************************************************)
(* The attendance session of one lesson on one day, and the records of its *)
(* students.                                                               *)
(*   apps/api/src/attendance/attendance.service.ts                         *)
(*                                                                         *)
(* A recording is one READ COMMITTED transaction that looks each record up *)
(* and then updates or creates it.  It holds the rows it has written until *)
(* it commits; nobody else sees them before.  What a recording says of its *)
(* students is its number.                                                 *)
(***************************************************************************)
EXTENDS Integers, FiniteSets, Functions, SequencesExt

CONSTANTS
    Student,        \* the students of the class
    Request,        \* requests that can be in progress at the same time
    MaxRecording    \* bound: the number of recordings

VARIABLES
    session,    \* the number of rows of attendance_sessions
    record,     \* each student's row of attendance_records: the recording that
                \* wrote it last, or 0 if there is none
    covers,     \* history: the students of each recording that has started
    req         \* the state of each request

vars == <<session, record, covers, req>>

Idle == [at |-> "idle", order |-> << >>, next |-> 1, found |-> FALSE, number |-> 0]

(* What a transaction has written, and is still to write.                  *)
Written(q) == {req[q].order[i] : i \in 1..(req[q].next - 1)}
Current(q) == req[q].order[req[q].next]

Finish(q) == req' = [req EXCEPT ![q] = Idle]

(* Whose uncommitted row the next write of a recording finds.              *)
WaitsFor(q, r) ==
    /\ q # r
    /\ req[q].at = "write"
    /\ Current(q) \in Written(r)

-----------------------------------------------------------------------------
(* createSession looks for a session of the lesson on that day, ...        *)
CheckSession(q) ==
    /\ req[q] = Idle
    /\ session = 0
    /\ req' = [req EXCEPT ![q].at = "create"]
    /\ UNCHANGED <<session, record, covers>>

(* ... and creates one, unless the unique index finds another.             *)
CreateSession(q) ==
    /\ req[q].at = "create"
    /\ session' = IF session = 0 THEN 1 ELSE session
    /\ Finish(q)
    /\ UNCHANGED <<record, covers>>

-----------------------------------------------------------------------------
(* recordAttendance, of some of the students in some order.                *)
StartRecording(q, order) ==
    /\ req[q] = Idle
    /\ session = 1
    /\ Len(covers) < MaxRecording
    /\ covers' = Append(covers, Range(order))
    /\ req' = [req EXCEPT ![q] = [Idle EXCEPT !.at = "find", !.order = order,
                                              !.number = Len(covers) + 1]]
    /\ UNCHANGED <<session, record>>

FindRecord(q) ==
    /\ req[q].at = "find"
    /\ req' = [req EXCEPT ![q].at = "write", ![q].found = record[Current(q)] # 0]
    /\ UNCHANGED <<session, record, covers>>

(* Variant with a defect: each record is written by itself, and is there   *)
(* for all to see.                                                         *)
WriteRecord_Alone(q) ==
    /\ req[q].at = "write"
    /\ IF ~req[q].found /\ record[Current(q)] # 0
       THEN Finish(q) /\ UNCHANGED record
       ELSE /\ req' = [req EXCEPT ![q].next = @ + 1,
                                  ![q].at = IF req[q].next = Len(req[q].order) THEN "commit" ELSE "find"]
            /\ record' = [record EXCEPT ![Current(q)] = req[q].number]
    /\ UNCHANGED <<session, covers>>

(* An update waits for the row; so does the unique index, which then finds *)
(* that the record exists, and the transaction is rolled back.             *)
WriteRecord(q) ==
    /\ req[q].at = "write"
    /\ \A r \in Request : ~WaitsFor(q, r)
    /\ IF ~req[q].found /\ record[Current(q)] # 0
       THEN Finish(q)
       ELSE req' = [req EXCEPT ![q].next = @ + 1,
                               ![q].at = IF req[q].next = Len(req[q].order) THEN "commit" ELSE "find"]
    /\ UNCHANGED <<session, record, covers>>

CommitRecording(q) ==
    /\ req[q].at = "commit"
    /\ record' = [s \in Student |-> IF s \in Written(q) THEN req[q].number ELSE record[s]]
    /\ Finish(q)
    /\ UNCHANGED <<session, covers>>

(* Two recordings wait for each other: PostgreSQL rolls one of them back.  *)
DeadlockVictim(q) ==
    /\ \E r \in Request : WaitsFor(q, r) /\ WaitsFor(r, q)
    /\ Finish(q)
    /\ UNCHANGED <<session, record, covers>>

(* A statement fails or the process stops: the transaction is rolled back. *)
Abandon(q) ==
    /\ req[q] # Idle
    /\ Finish(q)
    /\ UNCHANGED <<session, record, covers>>

-----------------------------------------------------------------------------
Init ==
    /\ session = 0
    /\ record = [s \in Student |-> 0]
    /\ covers = << >>
    /\ req = [q \in Request |-> Idle]

Orders == UNION {SetToSeqs(S) : S \in (SUBSET Student) \ {{}}}

Next ==
    \E q \in Request :
        \/ CheckSession(q) \/ CreateSession(q)
        \/ \E order \in Orders : StartRecording(q, order)
        \/ FindRecord(q) \/ WriteRecord(q) \/ CommitRecording(q)
        \/ DeadlockVictim(q) \/ Abandon(q)

Spec == Init /\ [][Next]_vars

-----------------------------------------------------------------------------
TypeOK ==
    /\ session \in 0..1
    /\ record \in [Student -> 0..MaxRecording]
    /\ Len(covers) \in 0..MaxRecording
    /\ \A n \in DOMAIN covers : covers[n] \subseteq Student
    /\ \A q \in Request :
         /\ req[q].at \in {"idle", "create", "find", "write", "commit"}
         /\ req[q].order \in Orders \cup {<< >>}
         /\ req[q].next \in 1..(Len(req[q].order) + 1)
         /\ req[q].found \in BOOLEAN
         /\ req[q].number \in 0..MaxRecording

(* Of two recordings of the same students, all the records of those are of *)
(* one of them: recordings that overlap do not mix, whatever the order of  *)
(* their students and whichever of them fails (recordAttendance looks each *)
(* record up, then writes it, and locks nothing before).                   *)
RecordingsDoNotMix ==
    \A s, t \in Student : LET n == record[s]  m == record[t] IN
        n # 0 /\ m # 0 /\ {s, t} \subseteq covers[n] \cap covers[m] => n = m
=============================================================================
