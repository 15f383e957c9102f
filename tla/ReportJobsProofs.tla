-------------------------- MODULE ReportJobsProofs --------------------------
(***************************************************************************)
(* Theorems about ReportJobs, for any sets of jobs, workers, requests and  *)
(* cron runs and for any kinds of failure: a report is generated once, its *)
(* status agrees with the export history, and only a cut-off process leaves*)
(* a job PROCESSING for ever.                                              *)
(***************************************************************************)
EXTENDS ReportJobs, TLAPS

(* Who is busy is busy with a job. *)
Busy == \A p \in Process : proc[p].at # "idle" => proc[p].job \in Job

(* What the place of a processor says about its job. *)
Progress ==
    \A p \in Process :
        /\ proc[p].at \in Claimed => status[proc[p].job] \notin {"NONE", "PENDING"}
        /\ proc[p].at \in {"load", "render", "store"} =>
              status[proc[p].job] \in {"PROCESSING", "CANCELLED"}
        /\ proc[p].at \in {"load", "render", "store"} => exports[proc[p].job] = 0
        /\ proc[p].at \in {"notify", "report"} => status[proc[p].job] # "PROCESSING"

Correct == Progress /\ ProcessedOnce /\ CompletedIsExported /\ ProcessingHasProcessor

IInv == TypeOK /\ Busy /\ Correct

USE NoneAssumption

-----------------------------------------------------------------------------
(* Types.                                                                  *)

LEMMA GotoType ==
    ASSUME TypeOK, Busy, NEW p \in Process, proc[p].at # "idle",
           NEW a \in Activity \ {"idle"}, Goto(p, a)
    PROVE  proc' \in [Process -> [at : Activity, job : Job \cup {None}]] /\ Busy'
  BY DEF TypeOK, Busy, Goto

(* A process becomes idle, or goes on with job j. *)
LEMMA SetType ==
    ASSUME TypeOK, Busy, NEW p \in Process, NEW a \in Activity, NEW j \in Job,
           proc' = [proc EXCEPT ![p] = Idle] \/ proc' = [proc EXCEPT ![p] = [at |-> a, job |-> j]]
    PROVE  proc' \in [Process -> [at : Activity, job : Job \cup {None}]] /\ Busy'
  <1>1. Idle \in [at : Activity, job : Job \cup {None}] /\ Idle.at = "idle"
    BY DEF Idle, Activity
  <1>2. [at |-> a, job |-> j] \in [at : Activity, job : Job \cup {None}]
    OBVIOUS
  <1>3. PICK x \in [at : Activity, job : Job \cup {None}] :
           proc' = [proc EXCEPT ![p] = x] /\ (x.at # "idle" => x.job \in Job)
    BY <1>1, <1>2
  <1> QED BY <1>3 DEF TypeOK, Busy

LEMMA EntryType ==
    /\ \A e \in {Absent, Waiting, FailedEntry} :
          e \in [state : {"absent", "waiting", "active", "failed"}, by : Worker \cup {None}]
    /\ \A w \in Worker : [state |-> "active", by |-> w]
          \in [state : {"absent", "waiting", "active", "failed"}, by : Worker \cup {None}]
  BY DEF Absent, Waiting, FailedEntry

LEMMA FinishType ==
    ASSUME TypeOK, Busy, NEW p \in Process, proc[p].at # "idle",
           NEW e \in {Absent, FailedEntry}, Finish(p, e)
    PROVE  /\ proc' \in [Process -> [at : Activity, job : Job \cup {None}]] /\ Busy'
           /\ queue' \in [Job -> [state : {"absent", "waiting", "active", "failed"},
                                  by : Worker \cup {None}]]
  <1>1. proc[p].job \in Job
    BY DEF Busy
  <1>2. proc' \in [Process -> [at : Activity, job : Job \cup {None}]] /\ Busy'
    BY <1>1, SetType DEF Finish, Activity
  <1>3. queue' \in [Job -> [state : {"absent", "waiting", "active", "failed"}, by : Worker \cup {None}]]
    BY <1>1, EntryType DEF Finish, TypeOK
  <1> QED BY <1>2, <1>3

LEMMA ProcessType ==
    ASSUME TypeOK, Busy, NEW p \in Process, ProcessReportJob(p)
    PROVE  TypeOK' /\ Busy'
  <1> USE DEF Activity, Claimed
  <1>0. proc[p].at # "idle" /\ proc[p].job \in Job
    BY DEF ProcessReportJob, ClaimReportJob, ClaimError, LoadReportJob, LoadError, RenderReport, StoreReport,
           NotifyRequester, ProcessingError, MarkFailed, MarkFailedError, Rethrow, Busy
  <1>1. CASE ClaimReportJob(p) /\ status[proc[p].job] = "PENDING"
    BY <1>0, <1>1, GotoType DEF ClaimReportJob, TypeOK
  <1>2. CASE ClaimReportJob(p) /\ status[proc[p].job] # "PENDING"
    BY <1>0, <1>2, FinishType DEF ClaimReportJob, TypeOK
  <1>3. CASE ClaimError(p) \/ NotifyRequester(p) \/ Rethrow(p)
    BY <1>0, <1>3, FinishType DEF ClaimError, NotifyRequester, Rethrow, TypeOK
  <1>4. CASE LoadError(p) \/ MarkFailedError(p)
    <2>1. lost' \subseteq Job
      BY <1>0, <1>4 DEF LoadError, MarkFailedError, TypeOK
    <2> QED BY <1>0, <1>4, <2>1, FinishType DEF LoadError, MarkFailedError, TypeOK
  <1>5. CASE LoadReportJob(p) \/ RenderReport(p) \/ ProcessingError(p)
    BY <1>0, <1>5, GotoType DEF LoadReportJob, RenderReport, ProcessingError, TypeOK
  <1>6. CASE StoreReport(p)
    <2>1. exports' \in [Job -> Nat] /\ status' \in [Job -> {"NONE", "PENDING", "PROCESSING"} \cup Final]
      BY <1>0, <1>6 DEF StoreReport, TypeOK, Final
    <2> QED BY <1>0, <1>6, <2>1, GotoType DEF StoreReport, TypeOK
  <1>7. CASE MarkFailed(p)
    <2>1. status' \in [Job -> {"NONE", "PENDING", "PROCESSING"} \cup Final]
      BY <1>0, <1>7 DEF MarkFailed, TypeOK, Final
    <2> QED BY <1>0, <1>7, <2>1, GotoType DEF MarkFailed, TypeOK
  <1> QED BY <1>1, <1>2, <1>3, <1>4, <1>5, <1>6, <1>7 DEF ProcessReportJob

LEMMA TypeStep ==
    ASSUME TypeOK, Busy, [Next]_vars
    PROVE  TypeOK' /\ Busy'
  <1> USE DEF Activity, Claimed
  <1>1. ASSUME NEW p \in Process, Enqueue(p)
        PROVE  TypeOK' /\ Busy'
    <2>0. proc[p].at # "idle" /\ proc[p].job \in Job
      BY <1>1 DEF Enqueue, EnqueueReportJob, EnqueueFallback, Busy
    <2>1. AddToQueue(proc[p].job) =>
            queue' \in [Job -> [state : {"absent", "waiting", "active", "failed"}, by : Worker \cup {None}]]
      BY <2>0, EntryType DEF AddToQueue, TypeOK
    <2>2. CASE EnqueueReportJob(p)
      BY <2>0, <2>1, <2>2, SetType DEF EnqueueReportJob, TypeOK
    <2>3. CASE EnqueueFallback(p)
      BY <2>0, <2>1, <2>3, GotoType DEF EnqueueFallback, TypeOK
    <2> QED BY <1>1, <2>2, <2>3 DEF Enqueue
  <1>2. ASSUME NEW p \in Process, Crash(p)
        PROVE  TypeOK' /\ Busy'
    <2>1. lost' \subseteq Job /\ todo' \in [Cron -> SUBSET Job]
      BY <1>2 DEF Crash, TypeOK, Busy
    <2>2. proc' \in [Process -> [at : Activity, job : Job \cup {None}]] /\ Busy'
      BY <1>2 DEF Crash, TypeOK, Busy, Idle
    <2> QED BY <1>2, <2>1, <2>2 DEF Crash, TypeOK
  <1>3. ASSUME NEW q \in Request, NEW j \in Job, GenerateReport(q, j)
        PROVE  TypeOK' /\ Busy'
    BY <1>3, SetType DEF GenerateReport, TypeOK, Process, Final
  <1>4. ASSUME NEW q \in Request, NEW j \in Job, CancelRead(q, j)
        PROVE  TypeOK' /\ Busy'
    BY <1>4, SetType DEF CancelRead, TypeOK, Process
  <1>5. ASSUME NEW q \in Request, RemoveReportJob(q)
        PROVE  TypeOK' /\ Busy'
    <2>1. queue' \in [Job -> [state : {"absent", "waiting", "active", "failed"}, by : Worker \cup {None}]]
      BY <1>5, EntryType DEF RemoveReportJob, TypeOK
    <2> QED BY <1>5, <2>1, GotoType DEF RemoveReportJob, TypeOK, Process
  <1>6. ASSUME NEW q \in Request, CancelReport(q)
        PROVE  TypeOK' /\ Busy'
    BY <1>6 DEF CancelReport, TypeOK, Process, Busy, Idle, Final
  <1>7. ASSUME NEW q \in Request, AuditError(q)
        PROVE  TypeOK' /\ Busy'
    BY <1>7 DEF AuditError, TypeOK, Process, Busy, Idle
  <1>8. ASSUME NEW c \in Cron, CronRead(c)
        PROVE  TypeOK' /\ Busy'
    BY <1>8 DEF CronRead, TypeOK, Busy
  <1>9. ASSUME NEW c \in Cron, NEW j \in Job, CronNext(c, j)
        PROVE  TypeOK' /\ Busy'
    <2>1. todo' \in [Cron -> SUBSET Job]
      BY <1>9 DEF CronNext, TypeOK
    <2> QED BY <1>9, <2>1, SetType DEF CronNext, TypeOK, Process
  <1>10. ASSUME NEW w \in Worker, NEW j \in Job, Deliver(w, j)
         PROVE  TypeOK' /\ Busy'
    BY <1>10, SetType, EntryType DEF Deliver, TypeOK, Process
  <1>11. ASSUME NEW j \in Job, Stall(j) \/ EvictFailed(j)
         PROVE  TypeOK' /\ Busy'
    <2>1. queue' \in [Job -> [state : {"absent", "waiting", "active", "failed"}, by : Worker \cup {None}]]
      BY <1>11, EntryType DEF Stall, EvictFailed, TypeOK
    <2>2. /\ UNCHANGED <<proc, status, exports, todo, lost>>
          /\ stalled' \subseteq Job
      BY <1>11 DEF Stall, EvictFailed, TypeOK
    <2>3. TypeOK' BY <2>1, <2>2 DEF TypeOK
    <2>4. Busy' BY <2>2 DEF Busy
    <2> QED BY <2>3, <2>4
  <1>12. CASE UNCHANGED vars
    BY <1>12 DEF vars, TypeOK, Busy
  <1> QED BY <1>1, <1>2, <1>3, <1>4, <1>5, <1>6, <1>7, <1>8, <1>9, <1>10, <1>11, <1>12, ProcessType
          DEF Next, Cancel, BullMQ

-----------------------------------------------------------------------------
(* Safety.  Most steps are outside of the processing of a job.             *)

(* Nobody enters or leaves the processing of a job. *)
LEMMA AsideStep ==
    ASSUME TypeOK, Correct, UNCHANGED <<status, exports, lost>>,
           NEW p \in Process, proc[p].at \notin Claimed, proc'[p].at \notin Claimed,
           \A r \in Process \ {p} : proc'[r] = proc[r]
    PROVE  Correct'
  <1>1. \A r \in Process : proc'[r].at \in Claimed <=> proc[r].at \in Claimed
    OBVIOUS
  <1>2. \A r \in Process : proc[r].at \in Claimed => proc'[r] = proc[r]
    OBVIOUS
  <1>3. Progress'
    BY <1>1, <1>2 DEF Correct, Progress, Claimed
  <1>4. ProcessedOnce'
    BY <1>1, <1>2 DEF Correct, ProcessedOnce
  <1>5. CompletedIsExported' /\ ProcessingHasProcessor'
    BY <1>1, <1>2 DEF Correct, CompletedIsExported, ProcessingHasProcessor
  <1> QED BY <1>3, <1>4, <1>5 DEF Correct

LEMMA StillStep ==
    ASSUME Correct, UNCHANGED <<status, exports, lost, proc>>
    PROVE  Correct'
  BY DEF Correct, Progress, ProcessedOnce, CompletedIsExported, ProcessingHasProcessor

(* A processor goes on within its job, whose status stays. *)
LEMMA OnwardStep ==
    ASSUME TypeOK, Correct, UNCHANGED <<status, exports, lost>>,
           NEW p \in Process, NEW a \in {"render", "store", "fail"}, Goto(p, a),
           proc[p].at \in Claimed,
           a \in {"render", "store"} => proc[p].at \in {"load", "render", "store"}
    PROVE  Correct'
  <1>1. /\ proc'[p].at = a /\ proc'[p].job = proc[p].job
        /\ \A r \in Process \ {p} : proc'[r] = proc[r]
    BY DEF Goto, TypeOK
  <1>2. Progress'
    BY <1>1 DEF Correct, Progress, Claimed
  <1>3. ProcessedOnce'
    BY <1>1 DEF Correct, ProcessedOnce, Claimed
  <1>4. CompletedIsExported' /\ ProcessingHasProcessor'
    BY <1>1 DEF Correct, CompletedIsExported, ProcessingHasProcessor, Claimed
  <1> QED BY <1>2, <1>3, <1>4 DEF Correct

(* A processor leaves its job, which is finished or lost. *)
LEMMA LeaveStep ==
    ASSUME TypeOK, Busy, Correct, UNCHANGED <<status, exports>>,
           NEW p \in Process, proc[p].at \in Claimed, proc' = [proc EXCEPT ![p] = Idle],
           \/ lost' = lost \cup {proc[p].job}
           \/ lost' = lost /\ status[proc[p].job] # "PROCESSING"
    PROVE  Correct'
  <1>1. proc'[p].at = "idle" /\ \A r \in Process \ {p} : proc'[r] = proc[r]
    BY DEF Idle, TypeOK
  <1>2. Progress'
    BY <1>1 DEF Correct, Progress, Claimed
  <1>3. ProcessedOnce'
    BY <1>1 DEF Correct, ProcessedOnce, Claimed
  <1>4. CompletedIsExported'
    BY DEF Correct, CompletedIsExported
  <1>5. ProcessingHasProcessor'
    BY <1>1 DEF Correct, ProcessingHasProcessor
  <1> QED BY <1>2, <1>3, <1>4, <1>5 DEF Correct

(* A claim finds its job PENDING, hence in nobody's hands. *)
LEMMA ClaimStep ==
    ASSUME TypeOK, Busy, Correct, NEW p \in Process, ClaimReportJob(p),
           status[proc[p].job] = "PENDING"
    PROVE  Correct'
  <1> DEFINE j == proc[p].job
  <1>1. /\ j \in Job /\ proc'[p].at = "load" /\ proc'[p].job = j
        /\ \A r \in Process \ {p} : proc'[r] = proc[r]
        /\ status'[j] = "PROCESSING" /\ \A k \in Job \ {j} : status'[k] = status[k]
        /\ UNCHANGED <<exports, lost>>
    BY DEF ClaimReportJob, Goto, TypeOK, Busy
  <1>2. exports[j] = 0 /\ \A r \in Process : proc[r].at \in Claimed => proc[r].job # j
    BY <1>1 DEF Correct, Progress, CompletedIsExported
  <1>3. \A r \in Process : proc[r].at # "idle" => proc[r].job \in Job
    BY DEF Busy
  <1>4. Progress'
    BY <1>1, <1>2, <1>3 DEF Correct, Progress, Claimed
  <1>5. ProcessedOnce'
    BY <1>1, <1>2 DEF Correct, ProcessedOnce, Claimed
  <1>6. CompletedIsExported' /\ ProcessingHasProcessor'
    BY <1>1, <1>2 DEF Correct, CompletedIsExported, ProcessingHasProcessor, Claimed
  <1> QED BY <1>4, <1>5, <1>6 DEF Correct

(* The report is stored: nobody else works on the job. *)
LEMMA StoreStep ==
    ASSUME TypeOK, Busy, Correct, NEW p \in Process, StoreReport(p)
    PROVE  Correct'
  <1> DEFINE j == proc[p].job
  <1>1. /\ j \in Job /\ proc[p].at = "store" /\ proc'[p].at = "notify" /\ proc'[p].job = j
        /\ \A r \in Process \ {p} : proc'[r] = proc[r]
        /\ status'[j] = "COMPLETED" /\ \A k \in Job \ {j} : status'[k] = status[k]
        /\ exports'[j] = exports[j] + 1 /\ \A k \in Job \ {j} : exports'[k] = exports[k]
        /\ lost' = lost
    BY DEF StoreReport, Goto, TypeOK, Busy
  <1>2. exports[j] = 0 /\ \A r \in Process \ {p} : proc[r].at \in Claimed => proc[r].job # j
    BY <1>1 DEF Correct, Progress, ProcessedOnce, Claimed
  <1>3. \A r \in Process : proc[r].at # "idle" => proc[r].job \in Job
    BY DEF Busy
  <1>4. Progress'
    BY <1>1, <1>2, <1>3 DEF Correct, Progress, Claimed
  <1>5. ProcessedOnce'
    BY <1>1, <1>2 DEF Correct, ProcessedOnce, Claimed
  <1>6. CompletedIsExported' /\ ProcessingHasProcessor'
    BY <1>1, <1>2 DEF Correct, CompletedIsExported, ProcessingHasProcessor, Claimed
  <1> QED BY <1>4, <1>5, <1>6 DEF Correct

LEMMA MarkFailedStep ==
    ASSUME TypeOK, Busy, Correct, NEW p \in Process, MarkFailed(p)
    PROVE  Correct'
  <1> DEFINE j == proc[p].job
  <1>1. /\ j \in Job /\ proc[p].at = "fail" /\ proc'[p].at = "report" /\ proc'[p].job = j
        /\ \A r \in Process \ {p} : proc'[r] = proc[r]
        /\ status'[j] = "FAILED" /\ \A k \in Job \ {j} : status'[k] = status[k]
        /\ UNCHANGED <<exports, lost>>
    BY DEF MarkFailed, Goto, TypeOK, Busy
  <1>2. /\ \A r \in Process : proc[r].at # "idle" => proc[r].job \in Job
        /\ \A r \in Process \ {p} : proc[r].at \in Claimed => proc[r].job # j
    BY <1>1 DEF Busy, Correct, ProcessedOnce, Claimed
  <1>3. Progress'
    BY <1>1, <1>2 DEF Correct, Progress, Claimed
  <1>4. ProcessedOnce'
    BY <1>1 DEF Correct, ProcessedOnce, Claimed
  <1>5. CompletedIsExported' /\ ProcessingHasProcessor'
    BY <1>1 DEF Correct, CompletedIsExported, ProcessingHasProcessor, Claimed
  <1> QED BY <1>3, <1>4, <1>5 DEF Correct

(* A cancellation, however late, only ever takes a job off PROCESSING, and  *)
(* a creation makes a job that nobody has.                                  *)
LEMMA RequestStep ==
    ASSUME TypeOK, Busy, Correct, NEW q \in Process, NEW j \in Job,
           proc[q].at \notin Claimed, proc'[q].at \notin Claimed,
           \A r \in Process \ {q} : proc'[r] = proc[r],
           \/ status' = [status EXCEPT ![j] = "CANCELLED"]
           \/ status[j] = "NONE" /\ status' = [status EXCEPT ![j] = "PENDING"],
           UNCHANGED <<exports, lost>>
    PROVE  Correct'
  <1>1. \A k \in Job \ {j} : status'[k] = status[k]
    BY DEF TypeOK
  <1>2. \/ status'[j] = "CANCELLED"
        \/ (status[j] = "NONE" /\ status'[j] = "PENDING")
    <2>1. CASE status' = [status EXCEPT ![j] = "CANCELLED"]
      BY <2>1 DEF TypeOK
    <2>2. CASE status[j] = "NONE" /\ status' = [status EXCEPT ![j] = "PENDING"]
      BY <2>2 DEF TypeOK
    <2> QED BY <2>1, <2>2
  <1>3. \A r \in Process : proc'[r].at \in Claimed => proc'[r] = proc[r]
    OBVIOUS
  <1>4. \A r \in Process : proc[r].at \in Claimed => proc'[r] = proc[r]
    OBVIOUS
  <1>5. \A r \in Process : proc[r].at # "idle" => proc[r].job \in Job
    BY DEF Busy
  <1>6. Progress'
    BY <1>1, <1>2, <1>3, <1>5 DEF Correct, Progress, Claimed
  <1>7. ProcessedOnce'
    BY <1>3 DEF Correct, ProcessedOnce
  <1>8. CompletedIsExported' /\ ProcessingHasProcessor'
    BY <1>1, <1>2, <1>4 DEF Correct, CompletedIsExported, ProcessingHasProcessor
  <1> QED BY <1>6, <1>7, <1>8 DEF Correct

LEMMA ProcessStep ==
    ASSUME TypeOK, Busy, Correct, NEW p \in Process, ProcessReportJob(p)
    PROVE  Correct'
  <1>1. CASE ClaimReportJob(p) /\ status[proc[p].job] = "PENDING"
    BY <1>1, ClaimStep
  <1>2. CASE ClaimError(p) \/ (ClaimReportJob(p) /\ status[proc[p].job] # "PENDING")
    <2>1. /\ proc[p].at = "claim" /\ proc'[p].at = "idle"
          /\ \A r \in Process \ {p} : proc'[r] = proc[r]
      BY <1>2 DEF ClaimError, ClaimReportJob, Finish, Idle, TypeOK
    <2> QED BY <1>2, <2>1, AsideStep DEF ClaimError, ClaimReportJob, Claimed
  <1>3. CASE LoadError(p) \/ MarkFailedError(p)
    BY <1>3, LeaveStep DEF LoadError, MarkFailedError, Finish, Claimed
  <1>4. CASE NotifyRequester(p) \/ Rethrow(p)
    <2>1. status[proc[p].job] # "PROCESSING"
      BY <1>4 DEF NotifyRequester, Rethrow, Correct, Progress
    <2> QED BY <1>4, <2>1, LeaveStep DEF NotifyRequester, Rethrow, Finish, Claimed
  <1>5. CASE LoadReportJob(p)
    BY <1>5, OnwardStep DEF LoadReportJob, Claimed
  <1>6. CASE RenderReport(p)
    BY <1>6, OnwardStep DEF RenderReport, Claimed
  <1>7. CASE ProcessingError(p)
    BY <1>7, OnwardStep DEF ProcessingError, Claimed
  <1> QED BY <1>1, <1>2, <1>3, <1>4, <1>5, <1>6, <1>7, StoreStep, MarkFailedStep DEF ProcessReportJob

LEMMA CorrectStep ==
    ASSUME TypeOK, Busy, Correct, [Next]_vars
    PROVE  Correct'
  <1>1. ASSUME NEW p \in Process, Enqueue(p)
        PROVE  Correct'
    <2>1. /\ proc[p].at = "enqueue" /\ proc'[p].at \in {"idle", "claim"}
          /\ \A r \in Process \ {p} : proc'[r] = proc[r]
      BY <1>1 DEF Enqueue, EnqueueReportJob, EnqueueFallback, Goto, Idle, TypeOK
    <2> QED BY <1>1, <2>1, AsideStep DEF Enqueue, EnqueueReportJob, EnqueueFallback, Claimed
  <1>2. ASSUME NEW p \in Process, Crash(p)
        PROVE  Correct'
    <2>1. CASE proc[p].at \in Claimed
      BY <1>2, <2>1, LeaveStep DEF Crash
    <2>2. CASE proc[p].at \notin Claimed
      <3>1. proc'[p].at = "idle" /\ \A r \in Process \ {p} : proc'[r] = proc[r]
        BY <1>2 DEF Crash, Idle, TypeOK
      <3> QED BY <1>2, <2>2, <3>1, AsideStep DEF Crash, Claimed
    <2> QED BY <2>1, <2>2
  <1>3. ASSUME NEW q \in Request, NEW j \in Job, GenerateReport(q, j)
        PROVE  Correct'
    <2>1. /\ q \in Process /\ proc[q].at = "idle" /\ proc'[q].at = "enqueue"
          /\ \A r \in Process \ {q} : proc'[r] = proc[r]
      BY <1>3 DEF GenerateReport, Idle, Process, TypeOK
    <2> QED BY <1>3, <2>1, RequestStep DEF GenerateReport, Claimed
  <1>4. ASSUME NEW q \in Request, NEW j \in Job, CancelRead(q, j)
        PROVE  Correct'
    <2>1. /\ q \in Process /\ proc[q].at = "idle" /\ proc'[q].at = "remove"
          /\ \A r \in Process \ {q} : proc'[r] = proc[r]
      BY <1>4 DEF CancelRead, Idle, Process, TypeOK
    <2> QED BY <1>4, <2>1, AsideStep DEF CancelRead, Claimed
  <1>5. ASSUME NEW q \in Request, RemoveReportJob(q) \/ AuditError(q)
        PROVE  Correct'
    <2>1. /\ q \in Process /\ proc[q].at \in {"remove", "enqueue"} /\ proc'[q].at \in {"cancel", "idle"}
          /\ \A r \in Process \ {q} : proc'[r] = proc[r]
      BY <1>5 DEF RemoveReportJob, AuditError, Goto, Idle, Process, TypeOK
    <2> QED BY <1>5, <2>1, AsideStep DEF RemoveReportJob, AuditError, Claimed
  <1>6. ASSUME NEW q \in Request, CancelReport(q)
        PROVE  Correct'
    <2>1. /\ q \in Process /\ proc[q].at = "cancel" /\ proc'[q].at = "idle"
          /\ \A r \in Process \ {q} : proc'[r] = proc[r]
      BY <1>6 DEF CancelReport, Idle, Process, TypeOK
    <2>2. proc[q].job \in Job
      BY <2>1 DEF Busy
    <2> QED BY <1>6, <2>1, <2>2, RequestStep DEF CancelReport, Claimed
  <1>7. ASSUME NEW c \in Cron, NEW j \in Job, CronNext(c, j)
        PROVE  Correct'
    <2>1. /\ c \in Process /\ proc[c].at = "idle" /\ proc'[c].at = "enqueue"
          /\ \A r \in Process \ {c} : proc'[r] = proc[r]
      BY <1>7 DEF CronNext, Idle, Process, TypeOK
    <2> QED BY <1>7, <2>1, AsideStep DEF CronNext, Claimed
  <1>8. ASSUME NEW w \in Worker, NEW j \in Job, Deliver(w, j)
        PROVE  Correct'
    <2>1. /\ w \in Process /\ proc[w].at = "idle" /\ proc'[w].at = "claim"
          /\ \A r \in Process \ {w} : proc'[r] = proc[r]
      BY <1>8 DEF Deliver, Idle, Process, TypeOK
    <2> QED BY <1>8, <2>1, AsideStep DEF Deliver, Claimed
  <1>9. ASSUME \/ \E c \in Cron : CronRead(c)
               \/ \E j \in Job : Stall(j) \/ EvictFailed(j)
               \/ UNCHANGED vars
        PROVE  Correct'
    BY <1>9, StillStep DEF CronRead, Stall, EvictFailed, vars
  <1> QED BY <1>1, <1>2, <1>3, <1>4, <1>5, <1>6, <1>7, <1>8, <1>9, ProcessStep
          DEF Next, Cancel, BullMQ

-----------------------------------------------------------------------------
LEMMA InitInv == Init => IInv
  <1> SUFFICES ASSUME Init PROVE IInv
    OBVIOUS
  <1>1. \A p \in Process : proc[p].at = "idle"
    BY DEF Init, Idle
  <1>2. TypeOK /\ Busy
    BY <1>1 DEF Init, TypeOK, Busy, Idle, Absent, Activity, Final
  <1>3. Correct
    BY <1>1 DEF Init, Correct, Progress, ProcessedOnce, CompletedIsExported, ProcessingHasProcessor, Claimed
  <1> QED BY <1>2, <1>3 DEF IInv

LEMMA InvStep == IInv /\ [Next]_vars => IInv'
  BY TypeStep, CorrectStep DEF IInv

LEMMA Invariance == Spec => []IInv
  BY InitInv, InvStep, PTL DEF Spec

(* Every reachable state is well typed. *)
THEOREM TypeCorrect == Spec => []TypeOK
  BY Invariance, PTL DEF IInv

(* A report is generated at most once, although it is enqueued by the       *)
(* request, by the cron jobs and by BullMQ's own recovery                   *)
(* (report-queue.service.ts: processReportJob).                             *)
THEOREM ReportsOnce == Spec => []ProcessedOnce
  BY Invariance, PTL DEF IInv, Correct

(* The status of a job agrees with the export history.                      *)
THEOREM StatusMatchesExports == Spec => []CompletedIsExported
  BY Invariance, PTL DEF IInv, Correct

(* Only a process that was cut off leaves a job PROCESSING behind.          *)
THEOREM ProcessingIsAttended == Spec => []ProcessingHasProcessor
  BY Invariance, PTL DEF IInv, Correct

(* A job that is over stays over, and a report that failed is never handed  *)
(* out: a late delivery finds nothing to claim, and a processor that stores *)
(* its report still has the job it claimed, PROCESSING or cancelled.        *)
THEOREM FinishedStaysFinished == Spec => FinishedIsNotRevived
  <1>1. IInv /\ [Next]_vars =>
          [\A j \in Job : status[j] \in Final /\ status'[j] # status[j] =>
              /\ status'[j] \in Final
              /\ status'[j] = "COMPLETED" =>
                    /\ status[j] = "CANCELLED"
                    /\ \E p \in Process : proc[p].at \in Claimed /\ proc[p].job = j]_vars
    <2> SUFFICES ASSUME IInv, Next, NEW j \in Job, status[j] \in Final, status'[j] # status[j]
                 PROVE  /\ status'[j] \in Final
                        /\ status'[j] = "COMPLETED" =>
                              /\ status[j] = "CANCELLED"
                              /\ \E p \in Process : proc[p].at \in Claimed /\ proc[p].job = j
      OBVIOUS
    <2>1. TypeOK /\ Busy /\ Progress
      BY DEF IInv, Correct
    <2>2. ASSUME NEW p \in Process, StoreReport(p)
          PROVE  /\ status'[j] = "COMPLETED" /\ status[j] = "CANCELLED"
                 /\ proc[p].at \in Claimed /\ proc[p].job = j
      BY <2>1, <2>2 DEF StoreReport, TypeOK, Busy, Progress, Claimed, Final
    <2>3. ASSUME NEW p \in Process, ProcessReportJob(p), ~StoreReport(p)
          PROVE  status'[j] = "FAILED"
      BY <2>1, <2>3
      DEF ProcessReportJob, ClaimReportJob, ClaimError, LoadReportJob, LoadError, RenderReport,
          NotifyRequester, ProcessingError, MarkFailed, MarkFailedError, Rethrow, TypeOK, Busy, Final
    <2>4. ASSUME NEW q \in Request, Cancel(q) \/ AuditError(q) \/ \E k \in Job : GenerateReport(q, k)
          PROVE  status'[j] = "CANCELLED"
      BY <2>1, <2>4
      DEF Cancel, CancelRead, RemoveReportJob, CancelReport, AuditError, GenerateReport, TypeOK, Final
    <2>5. ASSUME \/ BullMQ
                 \/ \E c \in Cron : CronRead(c) \/ \E k \in Job : CronNext(c, k)
                 \/ \E p \in Process : Enqueue(p) \/ Crash(p)
          PROVE  FALSE
      BY <2>5 DEF BullMQ, Deliver, Stall, EvictFailed, CronRead, CronNext, Enqueue,
                  EnqueueReportJob, EnqueueFallback, Crash
    <2>6. "FAILED" \in Final /\ "CANCELLED" \in Final /\ "COMPLETED" \in Final
      BY DEF Final
    <2> QED BY <2>2, <2>3, <2>4, <2>5, <2>6 DEF Next
  <1> QED BY <1>1, Invariance, PTL DEF Spec, FinishedIsNotRevived
=============================================================================
