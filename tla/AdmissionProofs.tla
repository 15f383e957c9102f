-------------------------- MODULE AdmissionProofs ---------------------------
(***************************************************************************)
(* Theorems about Admission, for any number of registrations, requests,    *)
(* attempts and any quotas: type correctness, one student for each         *)
(* registration, the quota of the public, and free numbers for the office. *)
(***************************************************************************)
EXTENDS Admission, FiniteSetTheorems, TLAPS

USE RegistrationAssumption, QuotasAssumption, AttemptsAssumption

(* What a request works on exists, and what it decides is allowed.         *)
RequestsAgree ==
    \A q \in Request :
        /\ req[q].at \in {"status", "student", "convert"} => req[q].reg \in Registered
        /\ req[q].at = "status" => <<req[q].from, req[q].to>> \in Transitions

(* One transaction at most has a NIS inserted, and no student has it yet;  *)
(* a student who was not given another one has it.                         *)
NisExclusive ==
    /\ \A q \in Request : req[q].at = "convert" => req[q].reg \notin nis
    /\ \A q, r \in Request :
          req[q].at = "convert" /\ req[r].at = "convert" /\ req[q].reg = req[r].reg => q = r
    /\ \A g \in Registration : students[g] > 0 => g \in nis \cup renamed

(* One transaction at most holds the period, and while it is about to      *)
(* insert the quota leaves room for it.                                    *)
PeriodExclusive ==
    /\ \A q, r \in Request : HoldsPeriod(q) /\ HoldsPeriod(r) => q = r
    /\ \A q \in Request : req[q].at = "insert" =>
          period.quota = 0 \/ Cardinality(Registered) < period.quota

(* No number is beyond the count, nor beyond the next one while it is being*)
(* created.                                                                *)
NumbersWithinCount ==
    /\ \A g \in Registered : reg[g].number <= Cardinality(Registered)
    /\ \A q \in Request : req[q].at = "create" => req[q].number <= Cardinality(Registered) + 1

IInv ==
    /\ TypeOK /\ RequestsAgree
    /\ NisExclusive /\ StudentIsConverted
    /\ PeriodExclusive /\ NumbersWithinCount

-----------------------------------------------------------------------------
(* Type correctness                                                        *)

LEMMA RegisteredFinite ==
    ASSUME TypeOK
    PROVE  /\ IsFiniteSet(Registered) /\ Cardinality(Registered) \in Nat
           /\ IsFiniteSet(Registered') /\ Cardinality(Registered') \in Nat
  BY FS_Subset, FS_CardinalityType DEF Registered

LEMMA InitTypeOK == Init => TypeOK
  BY DEF Init, TypeOK, NoRegistration, Idle, Status

(* The values of a request and of a registration, as TypeOK gives them.    *)
RequestState ==
    [at : {"idle", "lock", "period", "count", "insert", "create", "status", "student", "convert"},
     reg : Registration \cup {None}, from : Status, to : Status,
     attempt : 0..MaxAttempts, number : Nat]
Row == [status : Status, converted : BOOLEAN, number : Nat, public : BOOLEAN]

LEMMA RequestType ==
    ASSUME TypeOK, NEW q \in Request
    PROVE  /\ req \in [Request -> RequestState] /\ reg \in [Registration -> Row]
           /\ Idle \in RequestState
           /\ Finish(q) => req' \in [Request -> RequestState]
           /\ \A a \in {"period", "count", "insert", "convert"} :
                 Goto(q, a) => req' \in [Request -> RequestState]
<1>1. req \in [Request -> RequestState] /\ reg \in [Registration -> Row]
  BY DEF TypeOK, RequestState, Row
<1>2. Idle \in RequestState
  BY DEF Idle, Status, RequestState
<1>3. ASSUME NEW a \in {"period", "count", "insert", "convert"}, Goto(q, a)
      PROVE  req' \in [Request -> RequestState]
  <2>1. [req[q] EXCEPT !.at = a] \in RequestState
    BY <1>1 DEF RequestState
  <2> QED
    BY <1>1, <1>3, <2>1 DEF Goto
<1> QED
  BY <1>1, <1>2, <1>3 DEF Finish

LEMMA NextTypeOK == TypeOK /\ RequestsAgree /\ [Next]_vars => TypeOK'
<1> SUFFICES ASSUME TypeOK, RequestsAgree, [Next]_vars PROVE TypeOK'
  OBVIOUS
<1>1. ASSUME NEW q \in Request, PublicRegister(q) PROVE TypeOK'
  <2>1. CASE Register(q)
    <3>1. [req[q] EXCEPT !.at = "lock", !.attempt = 1] \in RequestState
      <4>1. req[q] \in RequestState /\ 1 \in 0..MaxAttempts
        BY RequestType
      <4> QED
        BY <4>1 DEF RequestState
    <3> QED
      BY <2>1, <3>1, RequestType DEF Register, TypeOK, RequestState
  <2>2. CASE LockPeriod(q)
    BY <2>2, RequestType DEF LockPeriod, TypeOK, RequestState
  <2>3. CASE ReadPeriod(q)
    BY <2>3, RequestType DEF ReadPeriod, TypeOK, RequestState
  <2>4. CASE CountRegistrations(q)
    BY <2>4, RequestType DEF CountRegistrations, TypeOK, RequestState
  <2>5. CASE NumberExists(q)
    <3>1. CASE req[q].attempt < MaxAttempts
      BY <2>5, <3>1 DEF NumberExists, TypeOK
    <3>2. CASE ~(req[q].attempt < MaxAttempts)
      BY <2>5, <3>2, RequestType DEF NumberExists, TypeOK, RequestState
    <3> QED
      BY <3>1, <3>2
  <2>6. ASSUME NEW g \in Registration, InsertRegistration(q, g) PROVE TypeOK'
    <3>1. [reg[g] EXCEPT !.status = "SUBMITTED", !.public = TRUE] \in Row
      BY RequestType DEF Row, Status
    <3>2. reg' \in [Registration -> Row]
      BY <2>6, <3>1, RequestType DEF InsertRegistration
    <3> QED
      BY <2>6, <3>2, RequestType DEF InsertRegistration, TypeOK, RequestState, Row
  <2> QED
    BY <1>1, <2>1, <2>2, <2>3, <2>4, <2>5, <2>6 DEF PublicRegister
<1>2. ASSUME NEW q \in Request, Office(q) PROVE TypeOK'
  <2>1. CASE CreateCount(q)
    <3>1. [req[q] EXCEPT !.at = "create", !.number = Cardinality(Registered) + 1] \in RequestState
      <4>1. req[q] \in RequestState /\ Cardinality(Registered) + 1 \in Nat
        BY RequestType, RegisteredFinite
      <4> QED
        BY <4>1 DEF RequestState
    <3> QED
      BY <2>1, <3>1, RequestType DEF CreateCount, TypeOK, RequestState
  <2>2. ASSUME NEW g \in Registration, CreateRegistration(q, g) PROVE TypeOK'
    <3>1. req[q].number \in Nat
      BY RequestType DEF RequestState
    <3>2. [reg[g] EXCEPT !.status = "SUBMITTED", !.number = req[q].number] \in Row
      BY <3>1, RequestType DEF Row, Status
    <3>3. reg' \in [Registration -> Row]
      BY <2>2, <3>2, RequestType DEF CreateRegistration
    <3> QED
      BY <2>2, <3>3, RequestType DEF CreateRegistration, TypeOK, RequestState, Row
  <2>3. ASSUME NEW g \in Registered, NEW t \in Transitions, ChangeStatusRead(q, g, t[2])
        PROVE  TypeOK'
    <3>1. g \in Registration /\ reg[g].status \in Status /\ t[2] \in Status
      BY DEF Registered, Transitions, TypeOK, Status
    <3>2. [req[q] EXCEPT !.at = "status", !.reg = g, !.from = reg[g].status, !.to = t[2]]
             \in RequestState
      BY <3>1, RequestType DEF RequestState
    <3> QED
      BY <2>3, <3>2, RequestType DEF ChangeStatusRead, TypeOK, RequestState
  <2>4. CASE ChangeStatus(q)
    <3>1. req[q].reg \in Registration /\ req[q].to \in Status
      BY <2>4 DEF ChangeStatus, RequestsAgree, Registered, TypeOK
    <3>2. reg' \in [Registration ->
            [status : Status, converted : BOOLEAN, number : Nat, public : BOOLEAN]]
      BY <2>4, <3>1 DEF ChangeStatus, TypeOK
    <3> QED
      BY <2>4, <3>1, <3>2, RequestType DEF ChangeStatus, TypeOK, RequestState
  <2> QED
    BY <1>2, <2>1, <2>2, <2>3, <2>4 DEF Office
<1>3. ASSUME NEW q \in Request, Convert(q) PROVE TypeOK'
  <2>1. ASSUME NEW g \in Registered, ConvertRead(q, g) PROVE TypeOK'
    <3>1. [req[q] EXCEPT !.at = "student", !.reg = g, !.from = "ACCEPTED"] \in RequestState
      BY RequestType DEF RequestState, Registered, Status
    <3> QED
      BY <2>1, <3>1, RequestType DEF ConvertRead, TypeOK, RequestState
  <2>2. CASE CreateStudent(q)
    BY <2>2, RequestType DEF CreateStudent, TypeOK, RequestState
  <2>3. CASE ConvertToStudent(q)
    <3>1. req[q].reg \in Registration
      BY <2>3 DEF ConvertToStudent, RequestsAgree, Registered, TypeOK
    <3>2. reg' \in [Registration ->
            [status : Status, converted : BOOLEAN, number : Nat, public : BOOLEAN]]
      BY <2>3, <3>1 DEF ConvertToStudent, TypeOK, Status
    <3>3. students' \in [Registration -> Nat]
      BY <2>3, <3>1 DEF ConvertToStudent, TypeOK
    <3> QED
      BY <2>3, <3>1, <3>2, <3>3, RequestType DEF ConvertToStudent, TypeOK, RequestState
  <2> QED
    BY <1>3, <2>1, <2>2, <2>3 DEF Convert
<1>4. ASSUME NEW q \in Request, Abandon(q) PROVE TypeOK'
  BY <1>4, RequestType DEF Abandon, TypeOK, RequestState
<1>5. ASSUME NEW active \in BOOLEAN, NEW quota \in Quotas, UpdatePeriod(active, quota)
      PROVE  TypeOK'
  BY <1>5 DEF UpdatePeriod, TypeOK
<1>6. ASSUME NEW g \in Registration, RenameStudent(g) PROVE TypeOK'
  BY <1>6 DEF RenameStudent, TypeOK
<1>7. CASE UNCHANGED vars
  BY <1>7 DEF vars, TypeOK
<1> QED
  BY <1>1, <1>2, <1>3, <1>4, <1>5, <1>6, <1>7 DEF Next

(* The steps of a request, one by one. *)
RequestStep(q) ==
    \/ Register(q) \/ LockPeriod(q) \/ ReadPeriod(q) \/ CountRegistrations(q)
    \/ NumberExists(q) \/ CreateCount(q) \/ CreateStudent(q) \/ Abandon(q)
    \/ \E g \in Registered, t \in Transitions : ChangeStatusRead(q, g, t[2])
    \/ \E g \in Registered : ConvertRead(q, g)

LEMMA NextCases ==
    ASSUME [Next]_vars
    PROVE  \/ \E q \in Request : RequestStep(q)
           \/ \E q \in Request, g \in Registration : InsertRegistration(q, g) \/ CreateRegistration(q, g)
           \/ \E q \in Request : ChangeStatus(q) \/ ConvertToStudent(q)
           \/ \E active \in BOOLEAN, quota \in Quotas : UpdatePeriod(active, quota)
           \/ \E g \in Registration : RenameStudent(g)
           \/ UNCHANGED vars
  BY DEF Next, PublicRegister, Office, Convert, RequestStep

(* Such a step is of one request, and writes nothing else. *)
LEMMA RequestStepFrame ==
    ASSUME TypeOK, NEW q \in Request, RequestStep(q)
    PROVE  /\ UNCHANGED <<period, reg, students, nis, late, renamed>>
           /\ \A r \in Request \ {q} : req'[r] = req[r]
<1>1. CASE Register(q) \/ CreateCount(q) \/ NumberExists(q)
  BY <1>1 DEF TypeOK, Register, CreateCount, NumberExists, Finish
<1>2. CASE LockPeriod(q) \/ ReadPeriod(q) \/ CountRegistrations(q) \/ CreateStudent(q) \/ Abandon(q)
  BY <1>2 DEF TypeOK, LockPeriod, ReadPeriod, CountRegistrations, CreateStudent, Abandon, Goto, Finish
<1>3. ASSUME NEW g \in Registered, NEW to, ChangeStatusRead(q, g, to) \/ ConvertRead(q, g)
      PROVE  /\ UNCHANGED <<period, reg, students, nis, late, renamed>>
             /\ \A r \in Request \ {q} : req'[r] = req[r]
  BY <1>3 DEF TypeOK, ChangeStatusRead, ConvertRead
<1> QED
  BY <1>1, <1>2, <1>3 DEF RequestStep

(* What a request is after such a step, where the invariants ask.          *)
LEMMA RequestStepMoves ==
    ASSUME TypeOK, RequestsAgree, NEW q \in Request, RequestStep(q)
    PROVE  /\ req'[q].at \in {"status", "student", "convert"} => req'[q].reg \in Registered
           /\ req'[q].at = "status" => <<req'[q].from, req'[q].to>> \in Transitions
           /\ req'[q].at = "convert" => /\ req'[q].reg \notin nis
                                        /\ \A r \in Request : ~HoldsNis(r, req'[q].reg)
           /\ req'[q].at \in {"period", "count", "insert"} => PeriodFree \/ HoldsPeriod(q)
           /\ req'[q].at = "insert" =>
                 period.quota = 0 \/ Cardinality(Registered) < period.quota
           /\ req'[q].at = "create" => req'[q].number = Cardinality(Registered) + 1
<1>1. CASE Register(q) \/ NumberExists(q)
  BY <1>1 DEF TypeOK, Register, NumberExists, Finish, Idle
<1>2. CASE LockPeriod(q) \/ ReadPeriod(q) \/ CountRegistrations(q)
  BY <1>2 DEF TypeOK, LockPeriod, ReadPeriod, CountRegistrations, Goto, Finish, Idle, HoldsPeriod
<1>3. CASE CreateCount(q)
  BY <1>3 DEF TypeOK, CreateCount
<1>4. CASE CreateStudent(q) \/ Abandon(q)
  BY <1>4 DEF TypeOK, RequestsAgree, CreateStudent, Abandon, Goto, Finish, Idle
<1>5. ASSUME NEW g \in Registered, ConvertRead(q, g)
      PROVE  req'[q].at = "student" /\ req'[q].reg \in Registered
  BY <1>5 DEF TypeOK, ConvertRead
<1>6. ASSUME NEW g \in Registered, NEW t \in Transitions, ChangeStatusRead(q, g, t[2])
      PROVE  /\ req'[q].at = "status" /\ req'[q].reg \in Registered
             /\ <<req'[q].from, req'[q].to>> \in Transitions
  BY <1>6 DEF TypeOK, ChangeStatusRead
<1> QED
  BY <1>1, <1>2, <1>3, <1>4, <1>5, <1>6 DEF RequestStep

(* Registrations are added one by one, and none disappears. *)
LEMMA Registers ==
    ASSUME TypeOK, NEW q \in Request, NEW g \in Registration,
           InsertRegistration(q, g) \/ CreateRegistration(q, g)
    PROVE  \/ reg' = reg /\ Registered' = Registered
           \/ /\ g \notin Registered /\ Registered' = Registered \cup {g}
              /\ Cardinality(Registered') = Cardinality(Registered) + 1
              /\ \A k \in Registration \ {g} : reg'[k] = reg[k]
              /\ reg[g] = NoRegistration
<1>1. CASE reg' = reg
  BY <1>1 DEF Registered
<1>2. CASE reg' # reg
  <2>1. /\ reg[g] = NoRegistration /\ \A k \in Registration \ {g} : reg'[k] = reg[k]
        /\ reg'[g].status = "SUBMITTED"
    BY <1>2 DEF TypeOK, InsertRegistration, CreateRegistration
  <2>2. g \notin Registered /\ Registered' = Registered \cup {g}
    BY <2>1 DEF Registered, NoRegistration
  <2> QED
    BY <2>1, <2>2, RegisteredFinite, FS_AddElement
<1> QED
  BY <1>1, <1>2

LEMMA Rewrites ==
    ASSUME TypeOK, RequestsAgree, NEW q \in Request, ChangeStatus(q) \/ ConvertToStudent(q)
    PROVE  /\ req[q].reg \in Registered /\ Registered' = Registered
           /\ \A g \in Registration : reg'[g].number = reg[g].number /\ reg'[g].public = reg[g].public
<1>1. req[q].reg \in Registered
  BY DEF RequestsAgree, ChangeStatus, ConvertToStudent
<1>2. ChangeStatus(q) => req[q].to # "NONE"
  BY DEF RequestsAgree, ChangeStatus, Transitions
<1>3. /\ \A g \in Registration : reg'[g].number = reg[g].number /\ reg'[g].public = reg[g].public
      /\ \A g \in Registration \ {req[q].reg} : reg'[g] = reg[g]
      /\ reg'[req[q].reg].status # "NONE"
  BY <1>1, <1>2 DEF TypeOK, ChangeStatus, ConvertToStudent, Registered
<1> QED
  BY <1>1, <1>3 DEF Registered

-----------------------------------------------------------------------------
(* The invariants, one by one                                              *)

LEMMA NextRequestsAgree == TypeOK /\ RequestsAgree /\ [Next]_vars => RequestsAgree'
<1> SUFFICES ASSUME TypeOK, RequestsAgree, [Next]_vars PROVE RequestsAgree'
  OBVIOUS
<1>1. ASSUME NEW q \in Request, RequestStep(q) PROVE RequestsAgree'
  <2>1. Registered' = Registered
    BY <1>1, RequestStepFrame DEF Registered
  <2> QED
    BY <1>1, <2>1, RequestStepFrame, RequestStepMoves DEF RequestsAgree
<1>2. ASSUME NEW q \in Request, Registered \subseteq Registered', Finish(q) \/ UNCHANGED req
      PROVE  RequestsAgree'
  BY <1>2 DEF RequestsAgree, Finish, Idle, TypeOK
<1>3. ASSUME NEW q \in Request, NEW g \in Registration, InsertRegistration(q, g) \/ CreateRegistration(q, g)
      PROVE  RequestsAgree'
  BY <1>2, <1>3, Registers DEF InsertRegistration, CreateRegistration
<1>4. ASSUME NEW q \in Request, ChangeStatus(q) \/ ConvertToStudent(q) PROVE RequestsAgree'
  BY <1>2, <1>4, Rewrites DEF ChangeStatus, ConvertToStudent
<1>5. ASSUME UNCHANGED <<reg, req>> PROVE RequestsAgree'
  BY <1>5 DEF RequestsAgree, Registered
<1>6. ASSUME NEW active \in BOOLEAN, NEW quota \in Quotas, UpdatePeriod(active, quota)
      PROVE  RequestsAgree'
  BY <1>5, <1>6 DEF UpdatePeriod
<1>7. ASSUME NEW g \in Registration, RenameStudent(g) PROVE RequestsAgree'
  BY <1>5, <1>7 DEF RenameStudent
<1>8. CASE UNCHANGED vars
  BY <1>5, <1>8 DEF vars
<1> QED
  BY <1>1, <1>3, <1>4, <1>6, <1>7, <1>8, NextCases

(* Nobody inserts the NIS of a registration that another one is inserting, *)
(* and a conversion that commits makes the first student.                  *)
LEMMA NextNisExclusive ==
    TypeOK /\ RequestsAgree /\ NisExclusive /\ [Next]_vars => NisExclusive'
<1> SUFFICES ASSUME TypeOK, RequestsAgree, NisExclusive, [Next]_vars PROVE NisExclusive'
  OBVIOUS
<1>1. ASSUME NEW q \in Request, RequestStep(q) PROVE NisExclusive'
  <2>1. UNCHANGED <<students, nis, renamed>> /\ \A r \in Request \ {q} : req'[r] = req[r]
    BY <1>1, RequestStepFrame
  <2>2. req'[q].at = "convert" => /\ req'[q].reg \notin nis
                                 /\ \A r \in Request : ~HoldsNis(r, req'[q].reg)
    BY <1>1, RequestStepMoves
  <2> QED
    BY <2>1, <2>2 DEF NisExclusive, HoldsNis
<1>2. ASSUME NEW q \in Request, Finish(q) \/ UNCHANGED req, UNCHANGED <<students, nis, renamed>>
      PROVE  NisExclusive'
  BY <1>2 DEF NisExclusive, Finish, Idle, TypeOK
<1>3. ASSUME NEW q \in Request, NEW g \in Registration, InsertRegistration(q, g) \/ CreateRegistration(q, g)
      PROVE  NisExclusive'
  BY <1>2, <1>3 DEF InsertRegistration, CreateRegistration
<1>4. ASSUME NEW q \in Request, ChangeStatus(q) PROVE NisExclusive'
  BY <1>2, <1>4 DEF ChangeStatus
<1>5. ASSUME NEW q \in Request, ConvertToStudent(q) PROVE NisExclusive'
  <2>1. \A g \in Registration : students'[g] > 0 => g \in nis' \cup renamed'
    BY <1>5 DEF NisExclusive, ConvertToStudent, TypeOK
  <2>2. \A r \in Request : req'[r].at = "convert" => req[r].at = "convert" /\ req'[r] = req[r] /\ r # q
    BY <1>5 DEF ConvertToStudent, Finish, Idle, TypeOK
  <2>3. \A r \in Request : req'[r].at = "convert" => req'[r].reg \notin nis'
    BY <1>5, <2>2 DEF NisExclusive, ConvertToStudent
  <2> QED
    BY <2>1, <2>2, <2>3 DEF NisExclusive
<1>6. ASSUME UNCHANGED <<req, students, nis, renamed>> PROVE NisExclusive'
  BY <1>6 DEF NisExclusive
<1>7. ASSUME NEW active \in BOOLEAN, NEW quota \in Quotas, UpdatePeriod(active, quota)
      PROVE  NisExclusive'
  BY <1>6, <1>7 DEF UpdatePeriod
<1>8. ASSUME NEW g \in Registration, RenameStudent(g) PROVE NisExclusive'
  BY <1>8 DEF RenameStudent, NisExclusive
<1>9. CASE UNCHANGED vars
  BY <1>6, <1>9 DEF vars
<1> QED
  BY <1>1, <1>3, <1>4, <1>5, <1>7, <1>8, <1>9, NextCases

LEMMA NextStudentIsConverted ==
    TypeOK /\ RequestsAgree /\ NisExclusive /\ StudentIsConverted /\ [Next]_vars
        => StudentIsConverted'
<1> SUFFICES ASSUME TypeOK, RequestsAgree, NisExclusive, StudentIsConverted, [Next]_vars
             PROVE  StudentIsConverted'
  OBVIOUS
<1>1. ASSUME UNCHANGED <<reg, students, late>>, renamed \subseteq renamed'
      PROVE  StudentIsConverted'
  BY <1>1 DEF StudentIsConverted
<1>2. ASSUME NEW q \in Request, RequestStep(q) PROVE StudentIsConverted'
  BY <1>1, <1>2, RequestStepFrame
<1>3. ASSUME NEW q \in Request, NEW g \in Registration, InsertRegistration(q, g) \/ CreateRegistration(q, g)
      PROVE  StudentIsConverted'
  <2>1. UNCHANGED <<students, late, renamed>>
    BY <1>3 DEF InsertRegistration, CreateRegistration
  <2>2. CASE reg' = reg
    BY <1>1, <2>1, <2>2
  <2>3. CASE reg' # reg
    <3>1. /\ reg[g] = NoRegistration /\ \A k \in Registration \ {g} : reg'[k] = reg[k]
          /\ reg'[g].status = "SUBMITTED" /\ ~reg'[g].converted
      BY <1>3, <2>3 DEF InsertRegistration, CreateRegistration, TypeOK, NoRegistration
    <3>2. students[g] <= 1 /\ ~(students[g] > 0)
      BY <3>1 DEF StudentIsConverted, NoRegistration, TypeOK
    <3> QED
      BY <2>1, <3>1, <3>2 DEF StudentIsConverted
  <2> QED
    BY <2>2, <2>3
(* A decision is never CONVERTED, and never starts from there: one that is *)
(* written over a conversion is late.                                      *)
<1>4. ASSUME NEW q \in Request, ChangeStatus(q) PROVE StudentIsConverted'
  <2> DEFINE g == req[q].reg
  <2>1. g \in Registration /\ req[q].from # "CONVERTED" /\ req[q].to # "CONVERTED"
    BY <1>4 DEF ChangeStatus, RequestsAgree, Registered, Transitions
  <2>2. /\ UNCHANGED <<students, renamed>>
        /\ \A k \in Registration \ {g} : reg'[k] = reg[k]
        /\ reg'[g].status # "CONVERTED" /\ reg'[g].converted = reg[g].converted
        /\ late \subseteq late' /\ (reg[g].status = "CONVERTED" => g \in late')
    BY <1>4, <2>1 DEF ChangeStatus, TypeOK
  <2> QED
    BY <2>1, <2>2 DEF StudentIsConverted
(* A conversion makes the first student, or one beside a renamed one.      *)
<1>5. ASSUME NEW q \in Request, ConvertToStudent(q) PROVE StudentIsConverted'
  <2> DEFINE g == req[q].reg
  <2>1. g \in Registration /\ students[g] \in Nat
    BY <1>5 DEF ConvertToStudent, RequestsAgree, Registered, TypeOK
  <2>2. students[g] > 0 => g \in renamed
    BY <1>5, <2>1 DEF ConvertToStudent, NisExclusive
  <2>3. /\ UNCHANGED renamed /\ late \subseteq late'
        /\ \A k \in Registration \ {g} : reg'[k] = reg[k] /\ students'[k] = students[k]
        /\ students'[g] = students[g] + 1
        /\ reg'[g].status = "CONVERTED" /\ reg'[g].converted
    BY <1>5, <2>1 DEF ConvertToStudent, TypeOK
  <2> QED
    BY <2>1, <2>2, <2>3 DEF StudentIsConverted
<1>6. ASSUME NEW active \in BOOLEAN, NEW quota \in Quotas, UpdatePeriod(active, quota)
      PROVE  StudentIsConverted'
  BY <1>1, <1>6 DEF UpdatePeriod
<1>7. ASSUME NEW g \in Registration, RenameStudent(g) PROVE StudentIsConverted'
  BY <1>1, <1>7 DEF RenameStudent
<1>8. CASE UNCHANGED vars
  BY <1>1, <1>8 DEF vars
<1> QED
  BY <1>2, <1>3, <1>4, <1>5, <1>6, <1>7, <1>8, NextCases

(* While a public registration holds the period, nobody else registers and *)
(* nobody edits the quota.                                                 *)
LEMMA NextPeriodExclusive ==
    TypeOK /\ RequestsAgree /\ PeriodExclusive /\ [Next]_vars => PeriodExclusive'
<1> SUFFICES ASSUME TypeOK, RequestsAgree, PeriodExclusive, [Next]_vars PROVE PeriodExclusive'
  OBVIOUS
<1>1. ASSUME NEW q \in Request, RequestStep(q) PROVE PeriodExclusive'
  <2>1. UNCHANGED <<period, reg>> /\ \A r \in Request \ {q} : req'[r] = req[r]
    BY <1>1, RequestStepFrame
  <2>2. /\ HoldsPeriod(q)' => PeriodFree \/ HoldsPeriod(q)
        /\ req'[q].at = "insert" => period.quota = 0 \/ Cardinality(Registered) < period.quota
    BY <1>1, RequestStepMoves DEF HoldsPeriod
  <2>3. Registered' = Registered
    BY <2>1 DEF Registered
  <2> QED
    BY <2>1, <2>2, <2>3 DEF PeriodExclusive, HoldsPeriod, PeriodFree
<1>2. ASSUME UNCHANGED period, Registered' = Registered,
             \A r \in Request : req'[r] = req[r] \/ req'[r].at = "idle"
      PROVE  PeriodExclusive'
  BY <1>2 DEF PeriodExclusive, HoldsPeriod
<1>3. ASSUME NEW q \in Request, NEW g \in Registration, InsertRegistration(q, g) \/ CreateRegistration(q, g)
      PROVE  PeriodExclusive'
  <2>1. \A r \in Request : ~HoldsPeriod(r)'
    BY <1>3 DEF InsertRegistration, CreateRegistration, PeriodFree, PeriodExclusive, HoldsPeriod,
                Finish, Idle, TypeOK
  <2> QED
    BY <2>1 DEF PeriodExclusive, HoldsPeriod
<1>4. ASSUME NEW q \in Request, ChangeStatus(q) \/ ConvertToStudent(q) PROVE PeriodExclusive'
  <2>1. UNCHANGED period /\ \A r \in Request : req'[r] = req[r] \/ req'[r].at = "idle"
    BY <1>4 DEF ChangeStatus, ConvertToStudent, Finish, Idle, TypeOK
  <2> QED
    BY <1>2, <1>4, <2>1, Rewrites
<1>5. ASSUME NEW active \in BOOLEAN, NEW quota \in Quotas, UpdatePeriod(active, quota)
      PROVE  PeriodExclusive'
  BY <1>5 DEF UpdatePeriod, PeriodFree, PeriodExclusive, HoldsPeriod
<1>6. ASSUME NEW g \in Registration, RenameStudent(g) PROVE PeriodExclusive'
  BY <1>2, <1>6 DEF RenameStudent, Registered
<1>7. CASE UNCHANGED vars
  BY <1>2, <1>7 DEF vars, Registered
<1> QED
  BY <1>1, <1>3, <1>4, <1>5, <1>6, <1>7, NextCases

(* A number is taken one beyond the count, and used with one registration  *)
(* more than then.                                                         *)
LEMMA NextNumbersWithinCount ==
    TypeOK /\ RequestsAgree /\ NumbersWithinCount /\ [Next]_vars => NumbersWithinCount'
<1> SUFFICES ASSUME TypeOK, RequestsAgree, NumbersWithinCount, [Next]_vars
             PROVE  NumbersWithinCount'
  OBVIOUS
<1>1. ASSUME NEW q \in Request, RequestStep(q) PROVE NumbersWithinCount'
  <2>1. UNCHANGED reg /\ \A r \in Request \ {q} : req'[r] = req[r]
    BY <1>1, RequestStepFrame
  <2>2. req'[q].at = "create" => req'[q].number = Cardinality(Registered) + 1
    BY <1>1, RequestStepMoves
  <2>3. Registered' = Registered
    BY <2>1 DEF Registered
  <2> QED
    BY <2>1, <2>2, <2>3, RegisteredFinite DEF NumbersWithinCount
<1>2. ASSUME Registered' = Registered, \A g \in Registration : reg'[g].number = reg[g].number,
             \A r \in Request : req'[r] = req[r] \/ req'[r].at = "idle"
      PROVE  NumbersWithinCount'
  BY <1>2 DEF NumbersWithinCount, Registered
<1>3. ASSUME NEW q \in Request, NEW g \in Registration, InsertRegistration(q, g) \/ CreateRegistration(q, g)
      PROVE  NumbersWithinCount'
  <2>1. \A r \in Request : req'[r] = req[r] \/ req'[r].at = "idle"
    BY <1>3 DEF InsertRegistration, CreateRegistration, Finish, Idle, TypeOK
  <2>2. CASE reg' = reg
    BY <1>2, <2>1, <2>2 DEF Registered
  <2>3. CASE reg' # reg
    <3>1. /\ Registered' = Registered \cup {g}
          /\ Cardinality(Registered') = Cardinality(Registered) + 1
          /\ \A k \in Registration \ {g} : reg'[k] = reg[k]
          /\ reg[g] = NoRegistration
      BY <1>3, <2>3, Registers
    <3>2. reg'[g].number \in {0, Cardinality(Registered) + 1} \/ reg'[g].number <= Cardinality(Registered) + 1
      BY <1>3, <2>3, <3>1 DEF InsertRegistration, CreateRegistration, TypeOK, NoRegistration,
                               NumbersWithinCount
    <3>3. reg'[g].number <= Cardinality(Registered')
      BY <3>1, <3>2, RegisteredFinite
    <3>4. \A k \in Registered : reg[k].number <= Cardinality(Registered) /\ reg[k].number \in Nat
      BY DEF NumbersWithinCount, TypeOK, Registered
    <3>5. \A k \in Registered' : reg'[k].number <= Cardinality(Registered')
      BY <3>1, <3>3, <3>4, RegisteredFinite DEF Registered
    <3>6. \A r \in Request : req'[r].at = "create" =>
             req'[r].number \in Nat /\ req'[r].number <= Cardinality(Registered) + 1
      BY <2>1 DEF NumbersWithinCount, TypeOK
    <3>7. \A r \in Request : req'[r].at = "create" =>
             req'[r].number <= Cardinality(Registered') + 1
      BY <3>1, <3>6, RegisteredFinite
    <3> QED
      BY <3>5, <3>7 DEF NumbersWithinCount
  <2> QED
    BY <2>2, <2>3
<1>4. ASSUME NEW q \in Request, ChangeStatus(q) \/ ConvertToStudent(q) PROVE NumbersWithinCount'
  <2>1. \A r \in Request : req'[r] = req[r] \/ req'[r].at = "idle"
    BY <1>4 DEF ChangeStatus, ConvertToStudent, Finish, Idle, TypeOK
  <2> QED
    BY <1>2, <1>4, <2>1, Rewrites
<1>5. ASSUME UNCHANGED <<reg, req>> PROVE NumbersWithinCount'
  BY <1>2, <1>5 DEF Registered
<1>6. ASSUME NEW active \in BOOLEAN, NEW quota \in Quotas, UpdatePeriod(active, quota)
      PROVE  NumbersWithinCount'
  BY <1>5, <1>6 DEF UpdatePeriod
<1>7. ASSUME NEW g \in Registration, RenameStudent(g) PROVE NumbersWithinCount'
  BY <1>5, <1>7 DEF RenameStudent
<1>8. CASE UNCHANGED vars
  BY <1>5, <1>8 DEF vars
<1> QED
  BY <1>1, <1>3, <1>4, <1>6, <1>7, <1>8, NextCases

-----------------------------------------------------------------------------
(* The theorems                                                            *)

LEMMA InitIInv == Init => IInv
<1> SUFFICES ASSUME Init PROVE IInv
  OBVIOUS
<1>1. TypeOK
  BY InitTypeOK
<1>2. \A q \in Request : req[q].at = "idle"
  BY DEF Init, Idle
<1>3. Registered = {} /\ StudentIsConverted /\ \A g \in Registration : students[g] = 0
  BY DEF Init, Registered, NoRegistration, StudentIsConverted
<1> QED
  BY <1>1, <1>2, <1>3 DEF IInv, RequestsAgree, NisExclusive, PeriodExclusive, HoldsPeriod,
                          NumbersWithinCount

LEMMA NextIInv == IInv /\ [Next]_vars => IInv'
  BY NextTypeOK, NextRequestsAgree, NextNisExclusive, NextStudentIsConverted,
     NextPeriodExclusive, NextNumbersWithinCount DEF IInv

(* Every reachable state of an admission period is well typed, and no      *)
(* public registration makes more attempts than it may (register).         *)
THEOREM TypeCorrect == Spec => []TypeOK
<1>1. IInv => TypeOK
  BY DEF IInv
<1> QED
  BY <1>1, InitIInv, NextIInv, PTL DEF Spec

(* A registration becomes one student, however many conversions and        *)
(* decisions overlap, unless its student was given another NIS; and it is  *)
(* CONVERTED then, unless a late decision overwrote it (convertToStudent). *)
THEOREM OneStudentEach == Spec => []StudentIsConverted
<1>1. IInv => StudentIsConverted
  BY DEF IInv
<1> QED
  BY <1>1, InitIInv, NextIInv, PTL DEF Spec

(* The public never registers beyond the quota, whoever registers, retries *)
(* or edits the quota at the same time (register, PpdbPeriodsService.update)*)
THEOREM QuotaBindsThePublic == Spec => QuotaHeld
<1> DEFINE Within ==
      \A g \in Registration :
          reg[g] = NoRegistration /\ reg'[g].public /\ period.quota # 0 =>
              Cardinality(Registered)' <= period.quota
<1>1. IInv /\ [Next]_vars => [Within]_vars
  <2> SUFFICES ASSUME IInv, [Next]_vars, NEW g \in Registration,
                      reg[g] = NoRegistration, reg'[g].public, period.quota # 0
               PROVE  Cardinality(Registered)' <= period.quota
    OBVIOUS
  <2>0. TypeOK /\ RequestsAgree /\ PeriodExclusive /\ ~reg[g].public
    BY DEF IInv, NoRegistration
  <2>1. ASSUME NEW q \in Request, NEW k \in Registration, InsertRegistration(q, k)
        PROVE  Cardinality(Registered)' <= period.quota
    <3>1. Cardinality(Registered) < period.quota
      BY <2>0, <2>1 DEF PeriodExclusive, InsertRegistration
    <3>2. Cardinality(Registered') \in {Cardinality(Registered), Cardinality(Registered) + 1}
      BY <2>0, <2>1, Registers
    <3>3. period.quota \in Nat
      BY <2>0 DEF TypeOK
    <3> QED
      BY <2>0, <3>1, <3>2, <3>3, RegisteredFinite
  <2>2. ASSUME NEW q \in Request, NEW k \in Registration, CreateRegistration(q, k) PROVE FALSE
    BY <2>0, <2>2 DEF CreateRegistration, TypeOK
  <2>3. ASSUME NEW q \in Request, ChangeStatus(q) \/ ConvertToStudent(q) PROVE FALSE
    BY <2>0, <2>3, Rewrites
  <2>4. ASSUME NEW q \in Request, RequestStep(q) PROVE FALSE
    BY <2>0, <2>4, RequestStepFrame
  <2>5. CASE UNCHANGED reg
    BY <2>0, <2>5
  <2> QED
    BY <2>1, <2>2, <2>3, <2>4, <2>5, NextCases DEF UpdatePeriod, RenameStudent, vars
<1> QED
  BY <1>1, InitIInv, NextIInv, PTL DEF Spec, QuotaHeld

(* The number that a creation by the office takes is free: no creation     *)
(* fails but for another one at the same time (PpdbRegistrationsService    *)
(* .create).                                                               *)
THEOREM OfficeNumberIsFree == Spec => NextNumberIsFree
<1> DEFINE Free ==
      \A q \in Request :
          req[q].at # "create" /\ req'[q].at = "create" =>
              \A g \in Registered : reg[g].number # req'[q].number
<1>1. IInv /\ [Next]_vars => [Free]_vars
  <2> SUFFICES ASSUME IInv, [Next]_vars, NEW q \in Request, req[q].at # "create",
                      req'[q].at = "create", NEW g \in Registered
               PROVE  reg[g].number # req'[q].number
    OBVIOUS
  <2>0. /\ TypeOK /\ RequestsAgree
        /\ reg[g].number <= Cardinality(Registered) /\ reg[g].number \in Nat
    BY DEF IInv, NumbersWithinCount, TypeOK, Registered
  <2>1. ASSUME NEW r \in Request, RequestStep(r) PROVE req'[q].number = Cardinality(Registered) + 1
    BY <2>0, <2>1, RequestStepFrame, RequestStepMoves
  <2>2. ASSUME NEW r \in Request, Finish(r) PROVE FALSE
    BY <2>0, <2>2 DEF Finish, Idle, TypeOK
  <2>3. CASE \E r \in Request : RequestStep(r)
    BY <2>0, <2>1, <2>3, RegisteredFinite
  <2> QED
    BY <2>2, <2>3, NextCases DEF UpdatePeriod, RenameStudent, vars, InsertRegistration,
                             CreateRegistration, ChangeStatus, ConvertToStudent
<1> QED
  BY <1>1, InitIInv, NextIInv, PTL DEF Spec, NextNumberIsFree
=============================================================================
