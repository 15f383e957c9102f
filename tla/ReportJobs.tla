----------------------------- MODULE ReportJobs -----------------------------
(***************************************************************************)
(* Report jobs: rows of report_jobs, the BullMQ queue that drives them, the*)
(* cron jobs that enqueue what is left PENDING, and cancellation.          *)
(*   apps/api/src/report-jobs/report-jobs.service.ts                       *)
(*   apps/api/src/report-jobs/report-queue.service.ts                      *)
(*   apps/api/src/report-jobs/report-schedule.service.ts                   *)
(*                                                                         *)
(* A job is processed by a BullMQ worker (one in every API process, one job*)
(* at a time), or directly by the request or cron run that could not reach *)
(* the queue.  BullMQ delivers at least once: a worker that crashed or lost*)
(* its lock has its job delivered again.  What a report contains, files    *)
(* and filters are not modelled.                                           *)
(***************************************************************************)
EXTENDS Integers

CONSTANTS
    Job,        \* ids of the rows of report_jobs, and of the jobs in BullMQ
    Worker,     \* BullMQ workers
    Request,    \* requests that can be in progress at the same time
    Cron,       \* runs of the cron jobs that can be in progress
    Fault,      \* the kinds of failure that occur, see FaultKind
    None        \* no job, no worker

FaultKind == {"crash",     \* a process stops
              "queue",     \* Redis does not answer
              "audit", "claim", "load", "store",  \* a database statement fails
              "render", "notify"}        \* a report or a notification fails

ASSUME FaultAssumption == Fault \subseteq FaultKind
ASSUME NoneAssumption == None \notin Job \cup Worker
ASSUME ProcessAssumption ==
    Worker \cap Request = {} /\ Worker \cap Cron = {} /\ Request \cap Cron = {}

Process == Worker \cup Request \cup Cron

VARIABLES
    status,     \* status of each job; "NONE" before it is created
    exports,    \* number of rows of export_histories of each job
    queue,      \* each job in BullMQ: its state and the worker that has it
    stalled,    \* jobs that BullMQ has found stalled (maxStalledCount is 1)
    proc,       \* what each process is doing, and with which job
    todo,       \* jobs that a cron run has still to enqueue
    lost        \* history: jobs whose processing was cut off

vars == <<status, exports, queue, stalled, proc, todo, lost>>

Final == {"COMPLETED", "FAILED", "CANCELLED"}
Claimed == {"load", "render", "store", "notify", "fail", "report"}
Activity == {"idle", "enqueue", "claim", "remove", "cancel"} \cup Claimed

Idle == [at |-> "idle", job |-> None]
Absent == [state |-> "absent", by |-> None]
Waiting == [state |-> "waiting", by |-> None]
FailedEntry == [state |-> "failed", by |-> None]

Goto(p, a) == proc' = [proc EXCEPT ![p].at = a]

(* A processor ends.  BullMQ removes a job whose worker returns, and keeps *)
(* one whose worker throws (removeOnComplete, removeOnFail), provided that *)
(* the worker still has the job.                                           *)
Finish(p, entry) ==
    /\ proc' = [proc EXCEPT ![p] = Idle]
    /\ queue' = [queue EXCEPT ![proc[p].job] =
                   IF p \in Worker /\ @ = [state |-> "active", by |-> p] THEN entry ELSE @]

-----------------------------------------------------------------------------
(* report-jobs.service.ts: generate                                        *)

GenerateReport(q, j) ==
    /\ proc[q] = Idle
    /\ status[j] = "NONE"
    /\ status' = [status EXCEPT ![j] = "PENDING"]
    /\ proc' = [proc EXCEPT ![q] = [at |-> "enqueue", job |-> j]]
    /\ UNCHANGED <<exports, queue, stalled, todo, lost>>

(* An audit record comes between the row and the queue. *)
AuditError(q) ==
    /\ "audit" \in Fault
    /\ proc[q].at = "enqueue"
    /\ proc' = [proc EXCEPT ![q] = Idle]
    /\ UNCHANGED <<status, exports, queue, stalled, todo, lost>>

(* Variant with a defect: the cron jobs look for the wrong status. *)
CronRead_Processing(c) ==
    /\ proc[c] = Idle
    /\ todo[c] = {}
    /\ todo' = [todo EXCEPT ![c] = {j \in Job : status[j] = "PROCESSING"}]
    /\ UNCHANGED <<status, exports, queue, stalled, proc, lost>>

(* report-schedule.service.ts: a run of either cron job reads what is      *)
(* PENDING, and enqueues one job after the other.                          *)
CronRead(c) ==
    /\ proc[c] = Idle
    /\ todo[c] = {}
    /\ todo' = [todo EXCEPT ![c] = {j \in Job : status[j] = "PENDING"}]
    /\ UNCHANGED <<status, exports, queue, stalled, proc, lost>>

CronNext(c, j) ==
    /\ proc[c] = Idle
    /\ j \in todo[c]
    /\ todo' = [todo EXCEPT ![c] = @ \ {j}]
    /\ proc' = [proc EXCEPT ![c] = [at |-> "enqueue", job |-> j]]
    /\ UNCHANGED <<status, exports, queue, stalled, lost>>

(* queue.add: BullMQ ignores an id that it knows already. *)
AddToQueue(j) ==
    queue' = [queue EXCEPT ![j] = IF @ = Absent THEN Waiting ELSE @]

EnqueueReportJob(p) ==
    /\ proc[p].at = "enqueue"
    /\ AddToQueue(proc[p].job)
    /\ proc' = [proc EXCEPT ![p] = Idle]
    /\ UNCHANGED <<status, exports, stalled, todo, lost>>

(* An error of queue.add, whether or not the job was added: the caller     *)
(* processes the job itself.                                               *)
EnqueueFallback(p) ==
    /\ "queue" \in Fault
    /\ proc[p].at = "enqueue"
    /\ AddToQueue(proc[p].job) \/ UNCHANGED queue
    /\ Goto(p, "claim")
    /\ UNCHANGED <<status, exports, stalled, todo, lost>>

-----------------------------------------------------------------------------
(* BullMQ                                                                  *)

Deliver(w, j) ==
    /\ proc[w] = Idle
    /\ queue[j] = Waiting
    /\ queue' = [queue EXCEPT ![j] = [state |-> "active", by |-> w]]
    /\ proc' = [proc EXCEPT ![w] = [at |-> "claim", job |-> j]]
    /\ UNCHANGED <<status, exports, stalled, todo, lost>>

(* The lock of an active job has expired: its worker has crashed or has    *)
(* been cut off for too long.                                              *)
Stall(j) ==
    /\ "crash" \in Fault
    /\ queue[j].state = "active"
    /\ queue' = [queue EXCEPT ![j] = IF j \in stalled THEN FailedEntry ELSE Waiting]
    /\ stalled' = stalled \cup {j}
    /\ UNCHANGED <<status, exports, proc, todo, lost>>

(* Of the failed jobs only the last 100 are kept. *)
EvictFailed(j) ==
    /\ queue[j] = FailedEntry
    /\ queue' = [queue EXCEPT ![j] = Absent]
    /\ UNCHANGED <<status, exports, stalled, proc, todo, lost>>

-----------------------------------------------------------------------------
(* report-queue.service.ts: processReportJob                               *)

(* Variant with a defect: the job is claimed by id, whatever its status. *)
ClaimReportJob_ById(p) ==
    /\ proc[p].at = "claim"
    /\ status' = [status EXCEPT ![proc[p].job] = "PROCESSING"]
    /\ Goto(p, "load")
    /\ UNCHANGED <<exports, queue, stalled, todo, lost>>

(* Variant with a defect: a job that failed is claimed again when it is    *)
(* delivered again.                                                        *)
ClaimReportJob_AlsoFailed(p) ==
    /\ proc[p].at = "claim"
    /\ IF status[proc[p].job] \in {"PENDING", "FAILED"}
       THEN /\ status' = [status EXCEPT ![proc[p].job] = "PROCESSING"]
            /\ Goto(p, "load")
            /\ UNCHANGED queue
       ELSE Finish(p, Absent) /\ UNCHANGED status
    /\ UNCHANGED <<exports, stalled, todo, lost>>

(* UPDATE ... SET status = PROCESSING WHERE id = ... AND status = PENDING; *)
(* a job that was taken already is left to whoever took it.                *)
ClaimReportJob(p) ==
    /\ proc[p].at = "claim"
    /\ IF status[proc[p].job] = "PENDING"
       THEN /\ status' = [status EXCEPT ![proc[p].job] = "PROCESSING"]
            /\ Goto(p, "load")
            /\ UNCHANGED queue
       ELSE Finish(p, Absent) /\ UNCHANGED status
    /\ UNCHANGED <<exports, stalled, todo, lost>>

ClaimError(p) ==
    /\ "claim" \in Fault
    /\ proc[p].at = "claim"
    /\ Finish(p, FailedEntry)
    /\ UNCHANGED <<status, exports, stalled, todo, lost>>

LoadReportJob(p) ==
    /\ proc[p].at = "load"
    /\ Goto(p, "render")
    /\ UNCHANGED <<status, exports, queue, stalled, todo, lost>>

(* The row is read again outside the try block. *)
LoadError(p) ==
    /\ "load" \in Fault
    /\ proc[p].at = "load"
    /\ Finish(p, FailedEntry)
    /\ lost' = lost \cup {proc[p].job}
    /\ UNCHANGED <<status, exports, stalled, todo>>

RenderReport(p) ==
    /\ proc[p].at = "render"
    /\ Goto(p, "store")
    /\ UNCHANGED <<status, exports, queue, stalled, todo, lost>>

(* Variant with a defect: the export is recorded before the status is set. *)
StoreReport_ExportFirst(p) ==
    /\ proc[p].at = "store"
    /\ \/ /\ exports' = [exports EXCEPT ![proc[p].job] = @ + 1]
          /\ status' = [status EXCEPT ![proc[p].job] = "COMPLETED"]
          /\ Goto(p, "notify")
       \/ /\ "store" \in Fault
          /\ exports' = [exports EXCEPT ![proc[p].job] = @ + 1]
          /\ Goto(p, "fail")
          /\ UNCHANGED status
    /\ UNCHANGED <<queue, stalled, todo, lost>>

(* COMPLETED and the row of export_histories, in one transaction *)
StoreReport(p) ==
    /\ proc[p].at = "store"
    /\ status' = [status EXCEPT ![proc[p].job] = "COMPLETED"]
    /\ exports' = [exports EXCEPT ![proc[p].job] = @ + 1]
    /\ Goto(p, "notify")
    /\ UNCHANGED <<queue, stalled, todo, lost>>

NotifyRequester(p) ==
    /\ proc[p].at = "notify"
    /\ Finish(p, Absent)
    /\ UNCHANGED <<status, exports, stalled, todo, lost>>

(* An exception from rendering, from the transaction or from the audit and *)
(* the notification that follow it (the requester may have been deleted).  *)
ProcessingError(p) ==
    /\ proc[p].at \in {"render", "store", "notify"} \cap Fault
    /\ Goto(p, "fail")
    /\ UNCHANGED <<status, exports, queue, stalled, todo, lost>>

(* Variant with a defect: the exception leaves the status as it is. *)
MarkFailed_KeepsStatus(p) ==
    /\ proc[p].at = "fail"
    /\ Goto(p, "report")
    /\ UNCHANGED <<status, exports, queue, stalled, todo, lost>>

MarkFailed(p) ==
    /\ proc[p].at = "fail"
    /\ status' = [status EXCEPT ![proc[p].job] = "FAILED"]
    /\ Goto(p, "report")
    /\ UNCHANGED <<exports, queue, stalled, todo, lost>>

MarkFailedError(p) ==
    /\ "store" \in Fault
    /\ proc[p].at = "fail"
    /\ Finish(p, FailedEntry)
    /\ lost' = lost \cup {proc[p].job}
    /\ UNCHANGED <<status, exports, stalled, todo>>

(* The failure is audited and reported, and the exception thrown again. *)
Rethrow(p) ==
    /\ proc[p].at = "report"
    /\ Finish(p, FailedEntry)
    /\ UNCHANGED <<status, exports, stalled, todo, lost>>

-----------------------------------------------------------------------------
(* report-jobs.service.ts: cancel                                          *)

CancelRead(q, j) ==
    /\ proc[q] = Idle
    /\ status[j] \notin Final \cup {"NONE"}
    /\ proc' = [proc EXCEPT ![q] = [at |-> "remove", job |-> j]]
    /\ UNCHANGED <<status, exports, queue, stalled, todo, lost>>

(* removeReportJob: an active job is locked and stays; errors are ignored. *)
RemoveReportJob(q) ==
    /\ proc[q].at = "remove"
    /\ \/ queue' = [queue EXCEPT ![proc[q].job] = IF @.state = "active" THEN @ ELSE Absent]
       \/ "queue" \in Fault /\ UNCHANGED queue
    /\ Goto(q, "cancel")
    /\ UNCHANGED <<status, exports, stalled, todo, lost>>

CancelReport(q) ==
    /\ proc[q].at = "cancel"
    /\ status' = [status EXCEPT ![proc[q].job] = "CANCELLED"]
    /\ proc' = [proc EXCEPT ![q] = Idle]
    /\ UNCHANGED <<exports, queue, stalled, todo, lost>>

(* The process stops; BullMQ does not notice before the lock expires. *)
Crash(p) ==
    /\ "crash" \in Fault
    /\ proc[p] # Idle
    /\ lost' = IF proc[p].at \in Claimed THEN lost \cup {proc[p].job} ELSE lost
    /\ proc' = [proc EXCEPT ![p] = Idle]
    /\ todo' = IF p \in Cron THEN [todo EXCEPT ![p] = {}] ELSE todo
    /\ UNCHANGED <<status, exports, queue, stalled>>

-----------------------------------------------------------------------------
Init ==
    /\ status = [j \in Job |-> "NONE"]
    /\ exports = [j \in Job |-> 0]
    /\ queue = [j \in Job |-> Absent]
    /\ stalled = {}
    /\ proc = [p \in Process |-> Idle]
    /\ todo = [c \in Cron |-> {}]
    /\ lost = {}

Enqueue(p) == EnqueueReportJob(p) \/ EnqueueFallback(p)

ProcessReportJob(p) ==
    \/ ClaimReportJob(p) \/ ClaimError(p)
    \/ LoadReportJob(p) \/ LoadError(p)
    \/ RenderReport(p) \/ StoreReport(p) \/ NotifyRequester(p)
    \/ ProcessingError(p)
    \/ MarkFailed(p) \/ MarkFailedError(p) \/ Rethrow(p)

Cancel(q) ==
    \/ \E j \in Job : CancelRead(q, j)
    \/ RemoveReportJob(q) \/ CancelReport(q)

BullMQ ==
    \/ \E w \in Worker, j \in Job : Deliver(w, j)
    \/ \E j \in Job : Stall(j) \/ EvictFailed(j)

Next ==
    \/ \E p \in Process : ProcessReportJob(p) \/ Enqueue(p) \/ Crash(p)
    \/ \E q \in Request : Cancel(q) \/ AuditError(q) \/ \E j \in Job : GenerateReport(q, j)
    \/ \E c \in Cron : CronRead(c) \/ \E j \in Job : CronNext(c, j)
    \/ BullMQ

Spec == Init /\ [][Next]_vars

(* A process that is alive goes on, the cron jobs run again and again, and *)
(* BullMQ delivers what is waiting while some worker is free and notices   *)
(* what has stalled.  What is tried again and again is not cut off each    *)
(* time: an enqueueing, a claim, a cancellation, the loop of a cron run    *)
(* (strong fairness).                                                      *)
Fairness ==
    /\ \A p \in Process :
          WF_vars(ProcessReportJob(p)) /\ SF_vars(ClaimReportJob(p)) /\ SF_vars(Enqueue(p))
    /\ \A c \in Cron : WF_vars(CronRead(c)) /\ SF_vars(\E j \in Job : CronNext(c, j))
    /\ \A q \in Request : SF_vars(CancelReport(q))
    /\ WF_vars(\E w \in Worker, j \in Job : Deliver(w, j))
    /\ \A j \in Job : WF_vars(Stall(j))

LiveSpec == Spec /\ Fairness

-----------------------------------------------------------------------------
(* Every variable holds a value of its type. *)
TypeOK ==
    /\ status \in [Job -> {"NONE", "PENDING", "PROCESSING"} \cup Final]
    /\ exports \in [Job -> Nat]
    /\ queue \in [Job -> [state : {"absent", "waiting", "active", "failed"},
                          by : Worker \cup {None}]]
    /\ stalled \subseteq Job
    /\ proc \in [Process -> [at : Activity, job : Job \cup {None}]]
    /\ todo \in [Cron -> SUBSET Job]
    /\ lost \subseteq Job

(* However often a job is enqueued, delivered and processed directly, its  *)
(* report is generated once: nobody works on a job that somebody else has  *)
(* claimed, and it never gets a second entry in the export history.        *)
ProcessedOnce ==
    /\ \A j \in Job : exports[j] <= 1
    /\ \A p, r \in Process :
          /\ proc[p].at \in Claimed /\ proc[r].at \in Claimed
          /\ proc[p].job = proc[r].job
          => p = r

(* A report that can be downloaded has been generated, and is in the       *)
(* export history; and a report that failed to be stored is not.           *)
CompletedIsExported ==
    \A j \in Job :
        /\ status[j] = "COMPLETED" => exports[j] = 1
        /\ status[j] \in {"NONE", "PENDING", "PROCESSING"} => exports[j] = 0

(* A job is PROCESSING only while a process works on it, unless that       *)
(* process was cut off: no ordinary error, and no cancellation, leaves a   *)
(* job behind that nobody will ever finish.                                *)
ProcessingHasProcessor ==
    \A j \in Job : status[j] = "PROCESSING" =>
        j \in lost \/ \E p \in Process : proc[p].at \in Claimed /\ proc[p].job = j

(* A job that is over stays over, although it is delivered again, found in *)
(* the list of a cron run that is out of date, or processed by a fallback  *)
(* that lags behind; and a report that failed is never handed out: only a  *)
(* job that was cancelled while its report was being generated turns       *)
(* COMPLETED after all.                                                    *)
FinishedIsNotRevived ==
    [][\A j \in Job : status[j] \in Final /\ status'[j] # status[j] =>
          /\ status'[j] \in Final
          /\ status'[j] = "COMPLETED" =>
                /\ status[j] = "CANCELLED"
                /\ \E p \in Process : proc[p].at \in Claimed /\ proc[p].job = j]_vars

(* A job that waits is processed, by a worker, by whoever could not reach  *)
(* the queue, or after a cron run has found it; unless it is cancelled, or *)
(* its claim failed and BullMQ remembers it as failed.                     *)
PendingIsTaken ==
    \A j \in Job : status[j] = "PENDING" ~> status[j] # "PENDING" \/ queue[j].state = "failed"

(* A job that is being processed comes to an end, although rendering and   *)
(* notifications fail and the queue comes and goes, unless its process is  *)
(* cut off.                                                                *)
ProcessingEnds ==
    \A j \in Job : status[j] = "PROCESSING" ~> status[j] \in Final \/ j \in lost

-----------------------------------------------------------------------------
(* What messages of the code say, and a run refutes.                       *)

(* report-queue.service.ts:149 tells the requester "Failed to generate     *)
(* report": a report that is FAILED was not generated.                     *)
FailedWasNotGenerated ==
    \A j \in Job : status[j] = "FAILED" => exports[j] = 0
=============================================================================
