---------------------------- MODULE Internships -----------------------------
(***************************************************************************)
(* One internship: its status, its score, and the final score, which is    *)
(* kept in the score and again in the internship.                          *)
(*   apps/api/src/internships/internships.service.ts                       *)
(*                                                                         *)
(* Every operation finds the internship, which a deletion hides, and later *)
(* writes by id.                                                           *)
(***************************************************************************)
EXTENDS Integers

CONSTANTS
    Request,    \* requests that can be in progress at the same time
    Score,      \* final scores
    None        \* no score

VARIABLES
    internship, \* status, final score and soft deletion of the internship
    score,      \* the final score in the row of its score, or None
    req,        \* each request: its operation, the value it writes, and (history)
                \* whether a score was given since it read
    stale       \* history: the final score was last written by a completion that
                \* had read it before another one was given

vars == <<internship, score, req, stale>>

Statuses == {"PLANNED", "ONGOING", "COMPLETED", "CANCELLED"}
Idle == [op |-> "idle", value |-> None, overtaken |-> FALSE]

Begin(q, op, value) ==
    /\ req[q] = Idle
    /\ ~internship.deleted
    /\ req' = [req EXCEPT ![q] = [Idle EXCEPT !.op = op, !.value = value]]
    /\ UNCHANGED <<internship, score, stale>>
Finish(q) == req' = [req EXCEPT ![q] = Idle]

-----------------------------------------------------------------------------
(* update: the status that is given, whatever it was; PLANNED, the default *)
(* of its schema, if none is.                                              *)
ReadForUpdate(q, status) == Begin(q, "write", status)

StartInternship(q) == internship.status = "PLANNED" /\ Begin(q, "write", "ONGOING")
CancelInternship(q) == internship.status # "COMPLETED" /\ Begin(q, "write", "CANCELLED")
ReadForDelete(q) == Begin(q, "delete", None)
ReadForScore(q, n) == Begin(q, "score", n)

(* Variant with a defect: the internship is found without its score.       *)
ReadForComplete_Bare(q) ==
    /\ internship.status = "ONGOING"
    /\ Begin(q, "complete", None)

(* complete: the final score of the score, or else the internship's own.   *)
ReadForComplete(q) ==
    /\ internship.status = "ONGOING"
    /\ Begin(q, "complete", IF score # None THEN score ELSE internship.final)

WriteStatus(q) ==
    /\ req[q].op = "write"
    /\ internship' = [internship EXCEPT !.status = req[q].value]
    /\ Finish(q)
    /\ UNCHANGED <<score, stale>>

DeleteInternship(q) ==
    /\ req[q].op = "delete"
    /\ internship' = [internship EXCEPT !.deleted = TRUE]
    /\ Finish(q)
    /\ UNCHANGED <<score, stale>>

CompleteInternship(q) ==
    /\ req[q].op = "complete"
    /\ internship' = [internship EXCEPT !.status = "COMPLETED", !.final = req[q].value]
    /\ stale' = req[q].overtaken
    /\ Finish(q)
    /\ UNCHANGED score

(* score: one transaction writes the score and the internship.             *)
GiveScore(q) ==
    /\ req[q].op = "score"
    /\ score' = req[q].value
    /\ internship' = [internship EXCEPT !.final = req[q].value]
    /\ stale' = FALSE
    /\ req' = [r \in Request |-> IF r = q THEN Idle ELSE
                                 [req[r] EXCEPT !.overtaken = req[r].op # "idle"]]

(* A request fails, or its process stops, before it writes.                *)
Abandon(q) ==
    /\ req[q] # Idle
    /\ Finish(q)
    /\ UNCHANGED <<internship, score, stale>>

-----------------------------------------------------------------------------
(* It is created in any status. *)
Init ==
    /\ internship \in [status : Statuses, final : {None}, deleted : {FALSE}]
    /\ score = None
    /\ req = [q \in Request |-> Idle]
    /\ stale = FALSE

Next == \E q \in Request :
    \/ \E status \in Statuses : ReadForUpdate(q, status)
    \/ StartInternship(q) \/ CancelInternship(q) \/ ReadForComplete(q) \/ ReadForDelete(q)
    \/ \E n \in Score : ReadForScore(q, n)
    \/ WriteStatus(q) \/ CompleteInternship(q) \/ DeleteInternship(q) \/ GiveScore(q)
    \/ Abandon(q)

Spec == Init /\ [][Next]_vars

-----------------------------------------------------------------------------
TypeOK ==
    /\ internship \in [status : Statuses, final : Score \cup {None}, deleted : BOOLEAN]
    /\ score \in Score \cup {None}
    /\ \A q \in Request :
         /\ req[q].op \in {"idle", "write", "complete", "score", "delete"}
         /\ req[q].op \in {"complete", "score"} => req[q].value \in Score \cup {None}
         /\ req[q].op = "write" => req[q].value \in Statuses
    /\ stale \in BOOLEAN

(* The final score of the internship is that of its score, through scoring *)
(* and completing it in any order, before and after its status was reset;  *)
(* the exception is a completion that has read the score before another    *)
(* one was given (complete writes what it has read, score writes twice).   *)
FinalScoreIsTheScore == ~stale => internship.final = score
=============================================================================
