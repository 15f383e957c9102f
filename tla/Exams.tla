------------------------------- MODULE Exams --------------------------------
(***************************************************************************)
(* The participants of one exam, their numbers, and the results of their   *)
(* answers.                                                                *)
(*   apps/api/src/exams/exams.service.ts                                   *)
(*                                                                         *)
(* Participants are read, and later created with numbers that follow the   *)
(* largest one that was read.  Results are read and written in one READ    *)
(* COMMITTED transaction, which has no key to notice another one by.       *)
(***************************************************************************)
EXTENDS Integers, FiniteSets, FiniteSetsExt, Functions

CONSTANTS
    Student,    \* the students
    Question,   \* the questions of the exam
    Request,    \* requests that can be in progress at the same time
    None        \* no student

VARIABLES
    row,        \* each student's row of exam_participants: "NONE", "LIVE" or
                \* "REMOVED", and number
    results,    \* the number of rows of exam_results of each participant and
                \* question, 2 for more than one
    req,        \* the state of each request; overtaken (history) if another one
                \* has written what it has read
    raced,      \* history: additions have overlapped
    doubled     \* history: participants two of whose submissions overlapped, or
                \* of whom one created a result for a question it listed twice

vars == <<row, results, req, raced, doubled>>

Idle == [at |-> "idle", todo |-> {}, largest |-> 0, student |-> None, found |-> {},
         overtaken |-> FALSE]

Rows == {s \in Student : row[s].status # "NONE"}
Live == {s \in Student : row[s].status = "LIVE"}
Largest(S) == Max({row[s].number : s \in S} \cup {0})

(* The request ends, having written what those of Q had read.              *)
Overtake(q, Q) ==
    req' = [r \in Request |-> CASE r = q -> Idle
                                [] r \in Q \ {q} -> [req[r] EXCEPT !.overtaken = TRUE]
                                [] OTHER -> req[r]]
Finish(q) == Overtake(q, {})

-----------------------------------------------------------------------------
(* Variant with a defect: the largest number is that of the participants   *)
(* who have not been removed.                                              *)
ReadLargest_Live(q, S) ==
    /\ req[q] = Idle
    /\ S \ Live # {}
    /\ req' = [req EXCEPT ![q].at = "add", ![q].todo = S \ Live, ![q].largest = Largest(Live)]
    /\ UNCHANGED <<row, results, raced, doubled>>

(* addParticipant and addParticipantsBulk: those who are no participants,  *)
(* or removed ones, are to be added after the largest number ever given.   *)
ReadLargest(q, S) ==
    /\ req[q] = Idle
    /\ S \ Live # {}
    /\ req' = [req EXCEPT ![q].at = "add", ![q].todo = S \ Live, ![q].largest = Largest(Rows)]
    /\ UNCHANGED <<row, results, raced, doubled>>

(* One statement creates them, in some order.  A student has one row in an *)
(* exam, removed or not: if one of them has one, none is created.          *)
CreateParticipants(q) == LET S == req[q].todo IN
    /\ req[q].at = "add"
    /\ IF S \cap Rows # {}
       THEN Finish(q) /\ UNCHANGED <<row, raced>>
       ELSE /\ \E order \in Bijection(S, 1..Cardinality(S)) :
                 row' = [s \in Student |->
                    IF s \in S THEN [status |-> "LIVE", number |-> req[q].largest + order[s]]
                    ELSE row[s]]
            /\ raced' = (raced \/ req[q].overtaken)
            /\ Overtake(q, {r \in Request : req[r].at = "add"})
    /\ UNCHANGED <<results, doubled>>

RemoveParticipant(s) ==
    /\ s \in Live
    /\ row' = [row EXCEPT ![s].status = "REMOVED"]
    /\ UNCHANGED <<results, req, raced, doubled>>

-----------------------------------------------------------------------------
(* Variant with a defect: the results that exist are not looked up.        *)
ReadResults_None(q, s, A) ==
    /\ req[q] = Idle
    /\ s \in Live
    /\ req' = [req EXCEPT ![q].at = "submit", ![q].student = s, ![q].todo = A]
    /\ UNCHANGED <<row, results, raced, doubled>>

(* submitParticipantResults: the participant, and then, in the transaction,*)
(* the results it has for the questions that are answered.                 *)
ReadResults(q, s, A) ==
    /\ req[q] = Idle
    /\ s \in Live
    /\ req' = [req EXCEPT ![q].at = "submit", ![q].student = s, ![q].todo = A,
                          ![q].found = {a \in A : results[s][a] > 0}]
    /\ UNCHANGED <<row, results, raced, doubled>>

(* The transaction updates those and creates the others, one for each time *)
(* that a question is listed: some may be listed twice, and what has been  *)
(* created is not looked up again.                                         *)
WriteResults(q, twice) == LET s == req[q].student  new == req[q].todo \ req[q].found IN
    /\ req[q].at = "submit"
    /\ twice \subseteq req[q].todo
    /\ results' = [results EXCEPT ![s] =
         [a \in Question |-> IF a \notin new THEN @[a]
                              ELSE IF @[a] = 0 /\ a \notin twice THEN 1 ELSE 2]]
    /\ doubled' = IF req[q].overtaken \/ new \cap twice # {} THEN doubled \cup {s} ELSE doubled
    /\ Overtake(q, {r \in Request : req[r].at = "submit" /\ req[r].student = s})
    /\ UNCHANGED <<row, raced>>

(* A request fails, or its process stops, before it writes; a transaction  *)
(* that has not committed leaves nothing.                                  *)
Abandon(q) ==
    /\ req[q] # Idle
    /\ Finish(q)
    /\ UNCHANGED <<row, results, raced, doubled>>

-----------------------------------------------------------------------------
Init ==
    /\ row = [s \in Student |-> [status |-> "NONE", number |-> 0]]
    /\ results = [s \in Student |-> [a \in Question |-> 0]]
    /\ req = [q \in Request |-> Idle]
    /\ raced = FALSE /\ doubled = {}

Next ==
    \/ \E s \in Student : RemoveParticipant(s)
    \/ \E q \in Request :
         \/ \E S \in SUBSET Student : ReadLargest(q, S)
         \/ \E s \in Student, A \in (SUBSET Question) \ {{}} : ReadResults(q, s, A)
         \/ \E twice \in SUBSET Question : WriteResults(q, twice)
         \/ CreateParticipants(q) \/ Abandon(q)

Spec == Init /\ [][Next]_vars

-----------------------------------------------------------------------------
TypeOK ==
    /\ row \in [Student -> [status : {"NONE", "LIVE", "REMOVED"},
                            number : 0..Cardinality(Student)]]
    /\ results \in [Student -> [Question -> 0..2]]
    /\ \A q \in Request :
         /\ req[q].at \in {"idle", "add", "submit"}
         /\ req[q].todo \subseteq Student \/ req[q].todo \subseteq Question
         /\ req[q].largest \in 0..Cardinality(Student)
         /\ req[q].student \in Student \cup {None}
         /\ req[q].found \subseteq Question
         /\ req[q].overtaken \in BOOLEAN
    /\ raced \in BOOLEAN
    /\ doubled \subseteq Student

(* Participants are numbered 1, 2, 3 and so on, one by one or many at a    *)
(* time: no number is skipped, or given again after its participant was    *)
(* removed, unless additions overlapped (addParticipant,                   *)
(* addParticipantsBulk: the largest number is read, then written plus one).*)
NumbersAreConsecutive ==
    raced \/ {row[s].number : s \in Rows} = 1..Cardinality(Rows)

(* A participant has one result for a question, however often the answers  *)
(* are submitted and to whichever of the questions, unless submissions     *)
(* overlapped or the first one to a question listed it twice               *)
(* (submitParticipantResults looks results up, then writes; exam_results   *)
(* has no unique key, and the answers are a list).                         *)
OneResultEach ==
    \A s \in Student \ doubled, a \in Question : results[s][a] <= 1
=============================================================================
