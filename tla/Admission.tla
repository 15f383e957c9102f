----------------------------- MODULE Admission ------------------------------
(***************************************************************************)
(* Admission of new students (PPDB) within one period: registrations by the*)
(* public and by the office, their selection, conversion to a student.     *)
(*   apps/api/src/public-ppdb/public-ppdb.service.ts                       *)
(*   apps/api/src/ppdb-registrations/ppdb-registrations.service.ts         *)
(*   apps/api/src/ppdb-periods/ppdb-periods.service.ts                     *)
(*                                                                         *)
(* A public registration holds the row of the period (FOR UPDATE) from the *)
(* statement that locks it to its commit; updates of the period, and the   *)
(* foreign key of other registrations, wait for it.  The rows of the status*)
(* history and of the audit log are left out: nothing reads them.          *)
(***************************************************************************)
EXTENDS Integers, FiniteSets

CONSTANTS
    Registration,   \* ids of the rows of ppdb_registrations
    Request,        \* requests that can be in progress at the same time
    Quotas,         \* the values quota may be given; 0 is none
    MaxAttempts,    \* attempts of a public registration, 5 in the code
    None            \* no registration

ASSUME RegistrationAssumption == IsFiniteSet(Registration) /\ None \notin Registration
ASSUME QuotasAssumption == Quotas \subseteq Nat /\ Quotas # {}
ASSUME AttemptsAssumption == MaxAttempts \in Nat \ {0}

VARIABLES
    period,     \* isActive and quota of the period
    reg,        \* each registration: status, whether convertedStudentId is
                \* set, the sequence in its number (0: random), by the public
    students,   \* number of students made of each registration
    nis,        \* registrations whose number some student has as NIS
    req,        \* the state of each request
    late,       \* history: registrations whose status was written after it
                \* had changed
    renamed     \* history: registrations whose student was given another NIS

vars == <<period, reg, students, nis, req, late, renamed>>

NoRegistration == [status |-> "NONE", converted |-> FALSE, number |-> 0, public |-> FALSE]
Idle == [at |-> "idle", reg |-> None, from |-> "NONE", to |-> "NONE", attempt |-> 0, number |-> 0]

(* changeStatus: allowedTransitions.  No caller asks for CONVERTED. *)
Transitions ==
    {<<"SUBMITTED", "VERIFIED">>, <<"SUBMITTED", "REJECTED">>, <<"SUBMITTED", "REVISION">>,
     <<"VERIFIED", "ACCEPTED">>, <<"VERIFIED", "REJECTED">>, <<"VERIFIED", "REVISION">>,
     <<"REVISION", "SUBMITTED">>, <<"REVISION", "REJECTED">>}

Registered == {g \in Registration : reg[g].status # "NONE"}
HoldsPeriod(q) == req[q].at \in {"period", "count", "insert"}
PeriodFree == \A q \in Request : ~HoldsPeriod(q)

(* The transaction of a conversion has inserted the NIS. *)
HoldsNis(q, g) == req[q].at = "convert" /\ req[q].reg = g

Goto(q, a) == req' = [req EXCEPT ![q].at = a]
Finish(q) == req' = [req EXCEPT ![q] = Idle]

-----------------------------------------------------------------------------
(* public-ppdb.service.ts: register                                        *)

Register(q) ==
    /\ req[q] = Idle
    /\ req' = [req EXCEPT ![q].at = "lock", ![q].attempt = 1]
    /\ UNCHANGED <<period, reg, students, nis, late, renamed>>

(* Variant with a defect: the period is read without FOR UPDATE. *)
LockPeriod_PlainSelect(q) ==
    /\ req[q].at = "lock"
    /\ Goto(q, "period")
    /\ UNCHANGED <<period, reg, students, nis, late, renamed>>

LockPeriod(q) ==
    /\ req[q].at = "lock"
    /\ PeriodFree
    /\ Goto(q, "period")
    /\ UNCHANGED <<period, reg, students, nis, late, renamed>>

(* The dates of the period are compared with a "now" from before the lock:  *)
(* either outcome is possible, whatever the time of this step.              *)
ReadPeriod(q) ==
    /\ req[q].at = "period"
    /\ (period.active /\ Goto(q, "count")) \/ Finish(q)
    /\ UNCHANGED <<period, reg, students, nis, late, renamed>>

CountRegistrations(q) ==
    /\ req[q].at = "count"
    /\ IF period.quota = 0 \/ Cardinality(Registered) < period.quota
       THEN Goto(q, "insert")
       ELSE Finish(q)
    /\ UNCHANGED <<period, reg, students, nis, late, renamed>>

InsertRegistration(q, g) ==
    /\ req[q].at = "insert"
    /\ reg[g] = NoRegistration
    /\ reg' = [reg EXCEPT ![g].status = "SUBMITTED", ![g].public = TRUE]
    /\ Finish(q)
    /\ UNCHANGED <<period, students, nis, late, renamed>>

(* The random number exists already, and the transaction is tried again. *)
NumberExists(q) ==
    /\ req[q].at = "insert"
    /\ IF req[q].attempt < MaxAttempts
       THEN req' = [req EXCEPT ![q].at = "lock", ![q].attempt = @ + 1]
       ELSE Finish(q)
    /\ UNCHANGED <<period, reg, students, nis, late, renamed>>

-----------------------------------------------------------------------------
(* ppdb-registrations.service.ts                                           *)

(* Variant with a defect: rejected registrations are not counted. *)
CreateCount_WithoutRejected(q) ==
    /\ req[q] = Idle
    /\ req' = [req EXCEPT ![q].at = "create", ![q].number =
                 1 + Cardinality({g \in Registered : reg[g].status # "REJECTED"})]
    /\ UNCHANGED <<period, reg, students, nis, late, renamed>>

(* create by the office: the number is the count plus one, without retry.  *)
CreateCount(q) ==
    /\ req[q] = Idle
    /\ req' = [req EXCEPT ![q].at = "create", ![q].number = Cardinality(Registered) + 1]
    /\ UNCHANGED <<period, reg, students, nis, late, renamed>>

CreateRegistration(q, g) ==
    /\ req[q].at = "create"
    /\ PeriodFree
    /\ IF \E k \in Registered : reg[k].number = req[q].number
       THEN UNCHANGED reg
       ELSE /\ reg[g] = NoRegistration
            /\ reg' = [reg EXCEPT ![g].status = "SUBMITTED", ![g].number = req[q].number]
    /\ Finish(q)
    /\ UNCHANGED <<period, students, nis, late, renamed>>

(* changeStatus reads the registration, ... *)
ChangeStatusRead(q, g, to) ==
    /\ req[q] = Idle
    /\ <<reg[g].status, to>> \in Transitions
    /\ req' = [req EXCEPT ![q].at = "status", ![q].reg = g, ![q].from = reg[g].status,
                          ![q].to = to]
    /\ UNCHANGED <<period, reg, students, nis, late, renamed>>

(* ... and updates it by id. *)
ChangeStatus(q) ==
    /\ req[q].at = "status"
    /\ reg' = [reg EXCEPT ![req[q].reg].status = req[q].to]
    /\ late' = IF reg[req[q].reg].status = req[q].from THEN late ELSE late \cup {req[q].reg}
    /\ Finish(q)
    /\ UNCHANGED <<period, students, nis, renamed>>

ConvertRead(q, g) ==
    /\ req[q] = Idle
    /\ ~reg[g].converted
    /\ reg[g].status = "ACCEPTED"
    /\ req' = [req EXCEPT ![q].at = "student", ![q].reg = g, ![q].from = "ACCEPTED"]
    /\ UNCHANGED <<period, reg, students, nis, late, renamed>>

(* Variant with a defect: the NIS of every new student is another one. *)
CreateStudent_FreshNis(q) ==
    /\ req[q].at = "student"
    /\ Goto(q, "convert")
    /\ UNCHANGED <<period, reg, students, nis, late, renamed>>

(* The student's NIS is made of the registration's number, and is unique:  *)
(* an INSERT waits for one that is not committed, and fails if it exists.  *)
CreateStudent(q) ==
    /\ req[q].at = "student"
    /\ \A r \in Request : ~HoldsNis(r, req[q].reg)
    /\ IF req[q].reg \in nis THEN Finish(q) ELSE Goto(q, "convert")
    /\ UNCHANGED <<period, reg, students, nis, late, renamed>>

(* Variant with a defect: only the status of the registration is written. *)
ConvertToStudent_StatusOnly(q) ==
    /\ req[q].at = "convert"
    /\ reg' = [reg EXCEPT ![req[q].reg].status = "CONVERTED"]
    /\ late' = IF reg[req[q].reg].status = req[q].from THEN late ELSE late \cup {req[q].reg}
    /\ Finish(q)
    /\ UNCHANGED <<period, students, nis, renamed>>

ConvertToStudent(q) ==
    /\ req[q].at = "convert"
    /\ reg' = [reg EXCEPT ![req[q].reg].status = "CONVERTED", ![req[q].reg].converted = TRUE]
    /\ students' = [students EXCEPT ![req[q].reg] = @ + 1]
    /\ nis' = nis \cup {req[q].reg}
    /\ late' = IF reg[req[q].reg].status = req[q].from THEN late ELSE late \cup {req[q].reg}
    /\ Finish(q)
    /\ UNCHANGED <<period, renamed>>

-----------------------------------------------------------------------------
(* ppdb-periods.service.ts: update *)
UpdatePeriod(active, quota) ==
    /\ PeriodFree
    /\ period' = [active |-> active, quota |-> quota]
    /\ UNCHANGED <<reg, students, nis, req, late, renamed>>

(* The office gives the student its definite NIS. *)
RenameStudent(g) ==
    /\ g \in nis
    /\ nis' = nis \ {g}
    /\ renamed' = renamed \cup {g}
    /\ UNCHANGED <<period, reg, students, req, late>>

(* The process or the connection fails, or a statement throws. *)
Abandon(q) ==
    /\ req[q] # Idle
    /\ Finish(q)
    /\ UNCHANGED <<period, reg, students, nis, late, renamed>>

-----------------------------------------------------------------------------
Init ==
    /\ period \in [active : BOOLEAN, quota : Quotas]
    /\ reg = [g \in Registration |-> NoRegistration]
    /\ students = [g \in Registration |-> 0]
    /\ nis = {}
    /\ req = [q \in Request |-> Idle]
    /\ late = {}
    /\ renamed = {}

PublicRegister(q) ==
    \/ Register(q) \/ LockPeriod(q) \/ ReadPeriod(q) \/ CountRegistrations(q)
    \/ NumberExists(q)
    \/ \E g \in Registration : InsertRegistration(q, g)

Office(q) ==
    \/ CreateCount(q)
    \/ \E g \in Registration : CreateRegistration(q, g)
    \/ \E g \in Registered, t \in Transitions : ChangeStatusRead(q, g, t[2])
    \/ ChangeStatus(q)

Convert(q) ==
    \/ \E g \in Registered : ConvertRead(q, g)
    \/ CreateStudent(q) \/ ConvertToStudent(q)

Next ==
    \/ \E q \in Request : PublicRegister(q) \/ Office(q) \/ Convert(q) \/ Abandon(q)
    \/ \E active \in BOOLEAN, quota \in Quotas : UpdatePeriod(active, quota)
    \/ \E g \in Registration : RenameStudent(g)

Spec == Init /\ [][Next]_vars

-----------------------------------------------------------------------------
Status == {"NONE", "SUBMITTED", "VERIFIED", "REVISION", "ACCEPTED", "REJECTED", "CONVERTED"}

(* Every variable holds a value of its type. *)
TypeOK ==
    /\ period \in [active : BOOLEAN, quota : Quotas]
    /\ reg \in [Registration ->
          [status : Status, converted : BOOLEAN, number : Nat, public : BOOLEAN]]
    /\ students \in [Registration -> Nat]
    /\ nis \subseteq Registration
    /\ req \in [Request ->
          [at : {"idle", "lock", "period", "count", "insert", "create", "status", "student",
                 "convert"},
           reg : Registration \cup {None}, from : Status, to : Status,
           attempt : 0..MaxAttempts, number : Nat]]
    /\ late \subseteq Registration
    /\ renamed \subseteq Registration

(* The public never registers beyond the quota, whoever registers, edits   *)
(* the quota or retries at the same time; only the office may exceed it.   *)
QuotaHeld ==
    [][\A g \in Registration :
          reg[g] = NoRegistration /\ reg'[g].public /\ period.quota # 0 =>
              Cardinality(Registered)' <= period.quota]_vars

(* The number an office create takes is free, so that only another create  *)
(* at the same time can make it fail: the count is never overtaken by the  *)
(* numbers given, and no create fails again and again.                     *)
NextNumberIsFree ==
    [][\A q \in Request :
          req[q].at # "create" /\ req'[q].at = "create" =>
              \A g \in Registered : reg[g].number # req'[q].number]_vars

(* A registration becomes one student, although the check is made outside  *)
(* the transaction: the NIS stops the second, while the student has it. It *)
(* knows its student, and is CONVERTED, unless a decision taken before     *)
(* overtook the conversion.                                                *)
StudentIsConverted ==
    \A g \in Registration :
        /\ g \in renamed \/ students[g] <= 1
        /\ reg[g].converted <=> students[g] > 0
        /\ reg[g].status = "CONVERTED" => reg[g].converted
        /\ reg[g].converted /\ g \notin late => reg[g].status = "CONVERTED"
=============================================================================
