---------------------------- MODULE SchoolProofs ----------------------------
(***************************************************************************)
(* Theorems about the components of Office that run the school: academic   *)
(* years and semesters, exams, grades, attendance, timetable and           *)
(* internships; for any number of rows and of concurrent requests.         *)
(***************************************************************************)
EXTENDS Office, FiniteSetsExt, FiniteSetTheorems, SequenceTheorems, TLAPS

(* A set of numbers has a least one, and one with a bound a largest one.    *)
LEMMA LeastNatural ==
  ASSUME NEW T \in SUBSET Nat, T # {}
  PROVE  \E m \in T : \A n \in T : m <= n
<1> DEFINE F == {0..n : n \in T}
<1>1. F \subseteq FiniteSubsetsOf(Nat) /\ F # {}
  <2>1. \A n \in T : 0..n \in SUBSET Nat /\ IsFiniteSet(0..n)
    BY FS_Interval
  <2> QED BY <2>1 DEF FiniteSubsetsOf
<1>2. PICK X \in F : \A Y \in F : <<Y, X>> \notin StrictSubsetOrdering(Nat)
  <2> HIDE DEF F
  <2> QED BY <1>1, FS_StrictSubsetOrderingWellFounded, WFMin
<1>3. PICK m \in T : X = 0..m OBVIOUS
<1>4. ASSUME NEW n \in T, n < m PROVE FALSE
  <2>1. m \in Nat /\ n \in Nat OBVIOUS
  <2>2. 0..n \subseteq 0..m /\ 0..n # 0..m /\ 0..n \in SUBSET Nat /\ 0..m \in SUBSET Nat
    <3>1. m \in 0..m /\ m \notin 0..n BY <1>4, <2>1
    <3>2. \A x \in 0..n : x \in 0..m BY <1>4, <2>1
    <3> QED BY <2>1, <3>1, <3>2
  <2>3. <<0..n, 0..m>> \in StrictSubsetOrdering(Nat)
    BY <2>2 DEF StrictSubsetOrdering
  <2> QED BY <1>2, <1>3, <2>3
<1> QED BY <1>4

LEMMA LargestNatural ==
  ASSUME NEW T \in SUBSET Nat, T # {}, NEW b \in Nat, \A n \in T : n <= b
  PROVE  \E m \in T : \A n \in T : m >= n
<1> DEFINE U == {u \in Nat : b - u \in T}
<1>1. U # {}
  <2>1. PICK t \in T : TRUE OBVIOUS
  <2>2. b - t \in Nat /\ b - (b - t) = t BY <2>1
  <2> QED BY <2>2
<1>2. PICK m \in U : \A u \in U : m <= u
  BY <1>1, LeastNatural
<1>3. ASSUME NEW n \in T PROVE b - m >= n
  <2>1. b - n \in U BY b - n \in Nat, b - (b - n) = n
  <2>2. m <= b - n BY <1>2, <2>1
  <2> QED BY <2>2
<1> QED BY <1>2, <1>3

-----------------------------------------------------------------------------
(* ActiveTerm.  Of two active rows one has been made active by a request   *)
(* that has yet to make the others inactive.                               *)

(* A request has activated t and not yet deactivated the others. *)
Attended(t) == \E q \in Worker : termReq[q].at = "others" /\ termReq[q].term = t

(* Of two active rows, one is attended to, unless a request failed. *)
PairsAreAttended ==
    ~failed => \A t, u \in Terms!Active : t # u => Attended(t) \/ Attended(u)

TermInv == Terms!TypeOK /\ PairsAreAttended

(* Every reachable state of the years or semesters is well typed: the      *)
(* rows and the requests of enforceSingleActive and of the base service.   *)
LEMMA TermInitTypeOK == Terms!Init => Terms!TypeOK
<1> SUFFICES ASSUME Terms!Init PROVE Terms!TypeOK
  OBVIOUS
<1>1. term \in [Term -> [exists : BOOLEAN, active : BOOLEAN, deleted : BOOLEAN]]
  BY DEF Terms!Init, Terms!NoRow
<1>2. /\ termReq \in [Worker -> [at : {"idle", "update", "delete", "others"}, term : Term \cup {None}]]
      /\ \A q \in Worker : termReq[q] = Terms!Idle
  BY DEF Terms!Init, Terms!Idle
<1>3. failed \in BOOLEAN
  BY DEF Terms!Init
<1> QED
  BY <1>1, <1>2, <1>3 DEF Terms!TypeOK

LEMMA TermNextTypeOK == Terms!TypeOK /\ [Terms!Next]_(Terms!vars) => Terms!TypeOK'
<1> SUFFICES ASSUME Terms!TypeOK, [Terms!Next]_(Terms!vars) PROVE Terms!TypeOK'
  OBVIOUS
<1>1. ASSUME NEW q \in Worker, NEW t \in Term, NEW active \in BOOLEAN, Terms!CreateTerm(q, t, active)
      PROVE Terms!TypeOK'
  BY <1>1 DEF Terms!TypeOK, Terms!Idle, Terms!Written, Terms!CreateTerm
<1>2. ASSUME NEW q \in Worker, NEW t \in Term, NEW op \in {"update", "delete"}, Terms!FindTerm(q, t, op)
      PROVE Terms!TypeOK'
  BY <1>2 DEF Terms!TypeOK, Terms!Idle, Terms!FindTerm
<1>3. ASSUME NEW q \in Worker, NEW active \in BOOLEAN, Terms!UpdateTerm(q, active)
      PROVE Terms!TypeOK'
  BY <1>3 DEF Terms!TypeOK, Terms!Idle, Terms!Written, Terms!UpdateTerm
<1>4. ASSUME NEW q \in Worker, Terms!DeleteTerm(q)
      PROVE Terms!TypeOK'
  BY <1>4 DEF Terms!TypeOK, Terms!Idle, Terms!Finish, Terms!DeleteTerm
<1>5. ASSUME NEW q \in Worker, Terms!DeactivateOthers(q)
      PROVE Terms!TypeOK'
  BY <1>5 DEF Terms!TypeOK, Terms!Idle, Terms!Finish, Terms!DeactivateOthers
<1>6. ASSUME NEW q \in Worker, Terms!Abandon(q)
      PROVE Terms!TypeOK'
  BY <1>6 DEF Terms!TypeOK, Terms!Idle, Terms!Finish, Terms!Abandon
<1>7. CASE UNCHANGED Terms!vars
  BY <1>7 DEF Terms!TypeOK, Terms!vars
<1> QED
  BY <1>1, <1>2, <1>3, <1>4, <1>5, <1>6, <1>7 DEF Terms!Next

THEOREM TermTypeCorrect == Terms!Spec => []Terms!TypeOK
  BY TermInitTypeOK, TermNextTypeOK, PTL DEF Terms!Spec

(* A request is attending to its row until it ends. *)
LEMMA StaysAttended ==
  ASSUME Terms!TypeOK, NEW q \in Worker, NEW t \in Term, Attended(t),
         ~(termReq[q].at = "others"), \A r \in Worker \ {q} : termReq'[r] = termReq[r]
  PROVE  Attended(t)'
  BY DEF Attended, Terms!TypeOK

LEMMA NextPairsAreAttended == Terms!TypeOK /\ PairsAreAttended /\ [Terms!Next]_(Terms!vars) => PairsAreAttended'
<1> SUFFICES ASSUME Terms!TypeOK, PairsAreAttended, [Terms!Next]_(Terms!vars), ~failed',
                    NEW t \in Term, NEW u \in Term, term'[t].active, term'[u].active, t # u
             PROVE  Attended(t)' \/ Attended(u)'
  BY DEF PairsAreAttended, Terms!Active
(* A row is written by a request that is not deactivating others: a row    *)
(* that it has activated is attended to by it, and the rows that were      *)
(* active before were in order.                                            *)
<1>1. ASSUME NEW q \in Worker, NEW v \in Term, NEW active \in BOOLEAN,
             Terms!CreateTerm(q, v, active) \/ (Terms!UpdateTerm(q, active) /\ termReq[q].term = v)
      PROVE  Attended(t)' \/ Attended(u)'
  <2>1. /\ termReq[q].at # "others" /\ ~failed
        /\ \A r \in Worker \ {q} : termReq'[r] = termReq[r]
        /\ \A w \in Term \ {v} : term'[w] = term[w]
        /\ term'[v].active = active
        /\ active => termReq'[q].at = "others" /\ termReq'[q].term = v
    BY <1>1 DEF Terms!TypeOK, Terms!CreateTerm, Terms!UpdateTerm, Terms!Written, Terms!Idle
  <2>2. CASE v \in {t, u}
    BY <2>1, <2>2 DEF Attended
  <2>3. CASE v \notin {t, u}
    <3>1. Attended(t) \/ Attended(u)
      BY <2>1, <2>3 DEF PairsAreAttended, Terms!Active
    <3> QED
      BY <2>1, <3>1, StaysAttended
  <2> QED
    BY <2>2, <2>3
(* Nobody becomes active, and nobody who attends to a row ends. *)
<1>2. ASSUME NEW q \in Worker, termReq[q].at # "others", ~failed,
             \A r \in Worker \ {q} : termReq'[r] = termReq[r],
             \A w \in Term : term'[w].active => term[w].active
      PROVE  Attended(t)' \/ Attended(u)'
  <2>1. Attended(t) \/ Attended(u)
    BY <1>2 DEF PairsAreAttended, Terms!Active
  <2> QED
    BY <1>2, <2>1, StaysAttended
<1>3. ASSUME NEW q \in Worker, NEW v \in Term, NEW op \in {"update", "delete"}, Terms!FindTerm(q, v, op)
      PROVE  Attended(t)' \/ Attended(u)'
  <2>1. /\ termReq[q].at # "others" /\ ~failed
        /\ \A r \in Worker \ {q} : termReq'[r] = termReq[r]
        /\ term' = term
    BY <1>3 DEF Terms!TypeOK, Terms!FindTerm, Terms!Idle
  <2> QED
    BY <1>2, <2>1
<1>4. ASSUME NEW q \in Worker, Terms!DeleteTerm(q)
      PROVE  Attended(t)' \/ Attended(u)'
  <2>1. /\ termReq[q].at # "others" /\ ~failed
        /\ \A r \in Worker \ {q} : termReq'[r] = termReq[r]
        /\ \A w \in Term : term'[w].active => term[w].active
    BY <1>4 DEF Terms!TypeOK, Terms!DeleteTerm, Terms!Finish
  <2> QED
    BY <1>2, <2>1
(* After the others were made inactive only one row can be active. *)
<1>5. ASSUME NEW q \in Worker, Terms!DeactivateOthers(q)
      PROVE  Attended(t)' \/ Attended(u)'
  <2>1. \A w \in Term : term'[w].active => w = termReq[q].term
    BY <1>5 DEF Terms!TypeOK, Terms!DeactivateOthers
  <2> QED
    BY <2>1
<1>6. ASSUME NEW q \in Worker, Terms!Abandon(q)
      PROVE  Attended(t)' \/ Attended(u)'
  <2>1. /\ termReq[q].at # "others" /\ ~failed
        /\ \A r \in Worker \ {q} : termReq'[r] = termReq[r]
        /\ term' = term
    BY <1>6 DEF Terms!TypeOK, Terms!Abandon, Terms!Finish
  <2> QED
    BY <1>2, <2>1
<1>7. CASE UNCHANGED Terms!vars
  BY <1>7 DEF Terms!vars, PairsAreAttended, Terms!Active, Attended
<1>8. ASSUME NEW q \in Worker, NEW active \in BOOLEAN, Terms!UpdateTerm(q, active)
      PROVE  Attended(t)' \/ Attended(u)'
  <2>1. termReq[q].term \in Term
    BY <1>8 DEF Terms!TypeOK, Terms!UpdateTerm, Terms!Idle
  <2> QED
    BY <1>1, <1>8, <2>1
<1> QED
  BY <1>1, <1>3, <1>4, <1>5, <1>6, <1>7, <1>8 DEF Terms!Next

LEMMA TermInit == Terms!Init => TermInv
  BY TermInitTypeOK DEF Terms!Init, TermInv, PairsAreAttended, Terms!Active, Terms!NoRow

LEMMA TermStep == TermInv /\ [Terms!Next]_(Terms!vars) => TermInv'
  BY TermNextTypeOK, NextPairsAreAttended DEF TermInv

LEMMA TermMeaning == TermInv => Terms!TypeOK /\ Terms!OneActive
  BY DEF TermInv, PairsAreAttended, Attended, Terms!OneActive

(* "Guarantees at most one active academic year": once no request is       *)
(* between writing its row and making the others inactive, and none has    *)
(* failed there, at most one row is active (enforceSingleActive).          *)
THEOREM AtMostOneActive == Terms!Spec => []Terms!OneActive
  BY TermInit, TermStep, TermMeaning, PTL DEF Terms!Spec

-----------------------------------------------------------------------------
(* Exams.  What a request has read is current unless it raced, so that it  *)
(* writes the number after the largest, and a result that is not there.    *)

LEMMA ExamCounts == /\ \A S : Exam!Cardinality(S) = Cardinality(S)
                    /\ \A S, T : Exam!Bijection(S, T) = Bijection(S, T)
  BY DEF Exam!Cardinality, Cardinality, Exam!Bijection, Bijection, Exam!Injection, Injection,
         Exam!Surjection, Surjection, Exam!IsInjective, IsInjective

LEMMA ExamMaxIsLargest ==
  ASSUME NEW T, NEW m \in T, \A n \in T : m >= n
  PROVE  Exam!Max(T) \in T /\ \A n \in T : Exam!Max(T) >= n
BY DEF Exam!Max
ExamRequest == [at : {"idle", "add", "submit"}, todo : SUBSET (Student \cup Question),
                largest : Nat, student : Student \cup {None}, found : SUBSET Question,
                overtaken : BOOLEAN]

(* What a request has read. *)
ExamReads ==
    /\ examReq \in [Worker -> ExamRequest]
    /\ \A q \in Worker :
         /\ examReq[q].at = "idle" => examReq[q].todo = {}
         /\ examReq[q].at = "add" => examReq[q].todo \subseteq Student
         /\ examReq[q].at = "submit" => examReq[q].todo \subseteq Question /\ examReq[q].student \in Student

(* No number is larger than the number of rows, and neither is one that    *)
(* was read.                                                               *)
NumbersBounded ==
    /\ \A s \in Exam!Rows : row[s].number <= Cardinality(Exam!Rows)
    /\ \A q \in Worker : examReq[q].largest <= Cardinality(Exam!Rows)

LargestIsCurrent ==
    ~raced => \A q \in Worker :
        examReq[q].at = "add" /\ ~examReq[q].overtaken => examReq[q].largest = Cardinality(Exam!Rows)

FoundIsCurrent ==
    \A q \in Worker : examReq[q].at = "submit" /\ ~examReq[q].overtaken =>
        \A a \in examReq[q].todo \ examReq[q].found : results[examReq[q].student][a] = 0

ExamTypes ==
    /\ row \in [Student -> [status : {"NONE", "LIVE", "REMOVED"}, number : Nat]]
    /\ results \in [Student -> [Question -> 0..2]]
    /\ raced \in BOOLEAN
    /\ doubled \subseteq Student
    /\ \A s \in Student \ Exam!Rows : row[s].number = 0

ExamInv ==
    /\ ExamTypes /\ ExamReads
    /\ NumbersBounded /\ LargestIsCurrent /\ Exam!NumbersAreConsecutive
    /\ FoundIsCurrent /\ Exam!OneResultEach

LEMMA ExamIdle ==
  /\ Exam!Idle.at = "idle" /\ Exam!Idle.todo = {} /\ Exam!Idle.largest = 0 /\ Exam!Idle.student = None
  /\ Exam!Idle.found = {} /\ Exam!Idle.overtaken = FALSE
  /\ Exam!Idle \in ExamRequest
  BY DEF Exam!Idle, ExamRequest

LEMMA ExamTypeCorrect == ExamInv => Exam!TypeOK
  <1> SUFFICES ASSUME ExamInv PROVE Exam!TypeOK
    OBVIOUS
  <1> USE DEF ExamInv, ExamTypes, ExamReads, ExamRequest
  <1>1. Cardinality(Exam!Rows) \in Nat /\ Cardinality(Student) \in Nat
        /\ Cardinality(Exam!Rows) <= Cardinality(Student) /\ Cardinality(Worker) \in Nat
    <2>1. Exam!Rows \in SUBSET Student BY DEF Exam!Rows
    <2> QED BY <2>1, StudentAssumption, WorkerAssumption, FS_Subset, FS_CardinalityType
  <1>2. \A s \in Student : row[s].number \in 0..Cardinality(Student)
    BY <1>1 DEF NumbersBounded, Exam!Rows
  <1>3. row \in [Student -> [status : {"NONE", "LIVE", "REMOVED"}, number : 0..Cardinality(Student)]]
    BY <1>2
  <1>6. \A q \in Worker : examReq[q].largest \in 0..Cardinality(Student)
    BY <1>1 DEF NumbersBounded
  <1> QED BY <1>3, <1>6, ExamCounts DEF Exam!TypeOK

LEMMA ExamInit == Exam!Init => ExamInv
  <1> SUFFICES ASSUME Exam!Init PROVE ExamInv
    OBVIOUS
  <1>1. /\ \A q \in Worker : examReq[q] = Exam!Idle
        /\ examReq \in [Worker -> ExamRequest]
        /\ \A s \in Student : row[s] = [status |-> "NONE", number |-> 0]
        /\ row \in [Student -> [status : {"NONE", "LIVE", "REMOVED"}, number : Nat]]
        /\ results \in [Student -> [Question -> 0..2]]
        /\ \A s \in Student, a \in Question : results[s][a] = 0
        /\ raced = FALSE /\ doubled = {}
    <2>1. examReq = [q \in Worker |-> Exam!Idle] /\ raced = FALSE /\ doubled = {}
      BY DEF Exam!Init
    <2>2. row = [s \in Student |-> [status |-> "NONE", number |-> 0]]
      BY DEF Exam!Init
    <2>3. results = [s \in Student |-> [a \in Question |-> 0]]
      BY DEF Exam!Init
    <2> QED BY <2>1, <2>2, <2>3, ExamIdle
  <1>2. Exam!Rows = {}
    BY <1>1 DEF Exam!Rows
  <1>3. Cardinality(Exam!Rows) = 0 /\ Cardinality(Worker) \in Nat
    BY <1>2, FS_EmptySet, WorkerAssumption, FS_CardinalityType
  <1>5. ExamTypes /\ ExamReads
    <2>1. \A s \in Student : row[s].number = 0
      BY <1>1
    <2> QED BY <1>1, <2>1, ExamIdle DEF ExamTypes, ExamReads
  <1>6. NumbersBounded /\ LargestIsCurrent
    BY <1>1, <1>2, <1>3, ExamIdle DEF NumbersBounded, LargestIsCurrent
  <1>7. Exam!NumbersAreConsecutive
    BY <1>2, <1>3, ExamCounts DEF Exam!NumbersAreConsecutive
  <1>8. FoundIsCurrent /\ Exam!OneResultEach
    BY <1>1, ExamIdle DEF FoundIsCurrent, Exam!OneResultEach
  <1> QED BY <1>5, <1>6, <1>7, <1>8 DEF ExamInv

LEMMA ExamOvertake ==
  ASSUME ExamReads, NEW q \in Worker, NEW Q, Exam!Overtake(q, Q)
  PROVE  /\ ExamReads'
         /\ examReq'[q] = Exam!Idle
         /\ \A r \in Worker \ {q} :
              /\ examReq'[r].at = examReq[r].at /\ examReq'[r].todo = examReq[r].todo
              /\ examReq'[r].largest = examReq[r].largest /\ examReq'[r].student = examReq[r].student
              /\ examReq'[r].found = examReq[r].found
              /\ examReq'[r].overtaken <=> (r \in Q \/ examReq[r].overtaken)
  <1>1. examReq' = [r \in Worker |-> CASE r = q -> Exam!Idle
                                   [] r \in Q \ {q} -> [examReq[r] EXCEPT !.overtaken = TRUE]
                                   [] OTHER -> examReq[r]]
    BY DEF Exam!Overtake
  <1>2. \A r \in Worker : [examReq[r] EXCEPT !.overtaken = TRUE] \in ExamRequest
    BY DEF ExamReads, ExamRequest
  <1>3. \A r \in Worker \ {q} :
           examReq'[r] = IF r \in Q THEN [examReq[r] EXCEPT !.overtaken = TRUE] ELSE examReq[r]
    BY <1>1
  <1>4. examReq'[q] = Exam!Idle BY <1>1
  <1>5. examReq' \in [Worker -> ExamRequest]
    <2>1. \A r \in Worker : examReq'[r] \in ExamRequest
      BY <1>2, <1>3, <1>4, ExamIdle DEF ExamReads
    <2> QED BY <1>1, <2>1
  <1>6. \A r \in Worker \ {q} :
              /\ examReq'[r].at = examReq[r].at /\ examReq'[r].todo = examReq[r].todo
              /\ examReq'[r].largest = examReq[r].largest /\ examReq'[r].student = examReq[r].student
              /\ examReq'[r].found = examReq[r].found
              /\ examReq'[r].overtaken <=> (r \in Q \/ examReq[r].overtaken)
    <2> TAKE r \in Worker \ {q}
    <2>1. CASE r \in Q BY <1>3, <2>1 DEF ExamReads, ExamRequest
    <2>2. CASE r \notin Q BY <1>3, <2>2
    <2> QED BY <2>1, <2>2
  <1>7. ExamReads'
    BY <1>4, <1>5, <1>6, ExamIdle DEF ExamReads
  <1> QED BY <1>4, <1>6, <1>7

(* A request that ends without writing. *)
LEMMA ExamAbandon ==
  ASSUME ExamInv, NEW q \in Worker, Exam!Overtake(q, {}), UNCHANGED <<row, results, raced, doubled>>
  PROVE  ExamInv'
  <1>0. ExamReads BY DEF ExamInv
  <1>1. /\ ExamReads'
        /\ examReq'[q] = Exam!Idle
        /\ \A r \in Worker \ {q} :
              /\ examReq'[r].at = examReq[r].at /\ examReq'[r].todo = examReq[r].todo
              /\ examReq'[r].largest = examReq[r].largest /\ examReq'[r].student = examReq[r].student
              /\ examReq'[r].found = examReq[r].found
              /\ examReq'[r].overtaken <=> examReq[r].overtaken
    BY <1>0, ExamOvertake
  <1>2. Exam!Rows' = Exam!Rows /\ Cardinality(Exam!Rows) \in Nat
    <2>1. Exam!Rows \in SUBSET Student BY DEF Exam!Rows
    <2> QED BY <2>1, StudentAssumption, FS_Subset, FS_CardinalityType DEF Exam!Rows
  <1>3. ExamTypes' /\ Exam!NumbersAreConsecutive' /\ Exam!OneResultEach'
    BY <1>2 DEF ExamInv, ExamTypes, Exam!NumbersAreConsecutive, Exam!OneResultEach
  <1>4. NumbersBounded'
    <2>1. \A r \in Worker : examReq'[r].largest <= Cardinality(Exam!Rows)
      BY <1>1, <1>2, ExamIdle DEF ExamInv, NumbersBounded
    <2> QED BY <1>2, <2>1 DEF ExamInv, NumbersBounded
  <1>5. LargestIsCurrent'
    BY <1>1, <1>2, ExamIdle DEF ExamInv, LargestIsCurrent
  <1>6. FoundIsCurrent'
    BY <1>1, ExamIdle DEF ExamInv, FoundIsCurrent
  <1> QED BY <1>1, <1>3, <1>4, <1>5, <1>6 DEF ExamInv

LEMMA ExamRemove ==
  ASSUME ExamInv, NEW s \in Student, Exam!RemoveParticipant(s)
  PROVE  ExamInv'
  <1>1. /\ row' \in [Student -> [status : {"NONE", "LIVE", "REMOVED"}, number : Nat]]
        /\ \A t \in Student : row'[t].number = row[t].number
        /\ \A t \in Student : row'[t].status = "NONE" <=> row[t].status = "NONE"
    BY DEF ExamInv, ExamTypes, Exam!RemoveParticipant, Exam!Live
  <1>2. UNCHANGED <<results, examReq, raced, doubled>>
    BY DEF Exam!RemoveParticipant
  <1>3. Exam!Rows' = Exam!Rows
    BY <1>1 DEF Exam!Rows
  <1>4. ExamTypes'
    BY <1>1, <1>2, <1>3 DEF ExamInv, ExamTypes
  <1>5. NumbersBounded' /\ LargestIsCurrent'
    BY <1>1, <1>2, <1>3 DEF ExamInv, NumbersBounded, LargestIsCurrent, Exam!Rows
  <1>6. {row[t].number : t \in Exam!Rows}' = {row[t].number : t \in Exam!Rows}
    BY <1>1, <1>3 DEF Exam!Rows
  <1>7. Exam!NumbersAreConsecutive'
    BY <1>2, <1>3, <1>6 DEF ExamInv, Exam!NumbersAreConsecutive
  <1>8. ExamReads' /\ FoundIsCurrent' /\ Exam!OneResultEach'
    BY <1>2 DEF ExamInv, ExamReads, FoundIsCurrent, Exam!OneResultEach
  <1> QED BY <1>4, <1>5, <1>7, <1>8 DEF ExamInv

LEMMA ExamReadLargest ==
  ASSUME ExamInv, NEW q \in Worker, NEW S \in SUBSET Student, Exam!ReadLargest(q, S)
  PROVE  ExamInv'
  <1>1. /\ UNCHANGED <<row, results, raced, doubled>>
        /\ examReq' = [examReq EXCEPT ![q].at = "add", ![q].todo = S \ Exam!Live, ![q].largest = Exam!Largest(Exam!Rows)]
        /\ examReq[q] = Exam!Idle
    BY DEF Exam!ReadLargest
  <1>2. /\ Exam!Rows' = Exam!Rows /\ Exam!Rows \in SUBSET Student /\ Cardinality(Exam!Rows) \in Nat
    <2>1. Exam!Rows \in SUBSET Student BY DEF Exam!Rows
    <2> QED BY <1>1, <2>1, StudentAssumption, FS_Subset, FS_CardinalityType DEF Exam!Rows
  <1> DEFINE T == {row[s].number : s \in Exam!Rows} \cup {0}
  <1>3. T \in SUBSET Nat /\ T # {} /\ \A n \in T : n <= Cardinality(Exam!Rows)
    BY <1>2 DEF ExamInv, ExamTypes, NumbersBounded
  <1>4. Exam!Max(T) \in T /\ \A n \in T : Exam!Max(T) >= n
    <2> HIDE DEF T
    <2>1. PICK m \in T : \A n \in T : m >= n
      BY <1>2, <1>3, LargestNatural
    <2> QED BY <2>1, ExamMaxIsLargest
  <1>5. Exam!Largest(Exam!Rows) = Exam!Max(T)
    BY DEF Exam!Largest
  <1>6. Exam!Largest(Exam!Rows) \in Nat /\ Exam!Largest(Exam!Rows) <= Cardinality(Exam!Rows)
    BY <1>3, <1>4, <1>5
  <1>7. ~raced => Exam!Largest(Exam!Rows) = Cardinality(Exam!Rows)
    <2> SUFFICES ASSUME ~raced PROVE Exam!Largest(Exam!Rows) = Cardinality(Exam!Rows)
      OBVIOUS
    <2>1. {row[s].number : s \in Exam!Rows} = 1..Cardinality(Exam!Rows)
      BY ExamCounts DEF ExamInv, Exam!NumbersAreConsecutive
    <2>2. Cardinality(Exam!Rows) \in T
      <3>1. CASE Cardinality(Exam!Rows) = 0 BY <3>1
      <3>2. CASE Cardinality(Exam!Rows) # 0
        <4>1. Cardinality(Exam!Rows) \in 1..Cardinality(Exam!Rows) BY <3>2, <1>2
        <4> QED BY <2>1, <4>1
      <3> QED BY <3>1, <3>2
    <2> HIDE DEF T
    <2>3. Exam!Largest(Exam!Rows) >= Cardinality(Exam!Rows) BY <1>4, <1>5, <2>2
    <2> QED BY <1>2, <1>6, <2>3
  <1> HIDE DEF T
  <1>8. /\ examReq'[q].at = "add" /\ examReq'[q].todo = S \ Exam!Live /\ examReq'[q].largest = Exam!Largest(Exam!Rows)
        /\ examReq'[q].student = None /\ examReq'[q].found = {} /\ examReq'[q].overtaken = FALSE
        /\ examReq'[q] \in ExamRequest
        /\ \A r \in Worker \ {q} : examReq'[r] = examReq[r]
        /\ examReq' \in [Worker -> ExamRequest]
    <2>1. examReq'[q] = [Exam!Idle EXCEPT !.at = "add", !.todo = S \ Exam!Live, !.largest = Exam!Largest(Exam!Rows)]
      BY <1>1 DEF ExamInv, ExamReads
    <2>2. examReq'[q] \in ExamRequest
      BY <2>1, <1>6, ExamIdle DEF ExamRequest
    <2>3. /\ \A r \in Worker \ {q} : examReq'[r] = examReq[r]
          /\ DOMAIN examReq' = Worker /\ examReq' = [r \in Worker |-> examReq'[r]]
      BY <1>1 DEF ExamInv, ExamReads
    <2>4. examReq' \in [Worker -> ExamRequest]
      BY <2>2, <2>3 DEF ExamInv, ExamReads
    <2> QED BY <2>1, <2>2, <2>3, <2>4, ExamIdle DEF ExamRequest
  <1>9. ExamReads'
    BY <1>8 DEF ExamInv, ExamReads
  <1>10. ExamTypes' /\ Exam!NumbersAreConsecutive' /\ Exam!OneResultEach'
    BY <1>1, <1>2 DEF ExamInv, ExamTypes, Exam!NumbersAreConsecutive, Exam!OneResultEach
  <1>11. NumbersBounded'
    <2>1. \A r \in Worker : examReq'[r].largest <= Cardinality(Exam!Rows)
      BY <1>6, <1>8 DEF ExamInv, NumbersBounded
    <2> QED BY <1>1, <1>2, <2>1 DEF ExamInv, NumbersBounded
  <1>12. LargestIsCurrent'
    <2>1. ASSUME ~raced, NEW r \in Worker, examReq'[r].at = "add", ~examReq'[r].overtaken
          PROVE  examReq'[r].largest = Cardinality(Exam!Rows)
      BY <1>7, <1>8, <2>1 DEF ExamInv, LargestIsCurrent
    <2> QED BY <1>1, <1>2, <2>1 DEF LargestIsCurrent
  <1>13. FoundIsCurrent'
    <2>1. \A r \in Worker : examReq'[r].at = "submit" => examReq'[r] = examReq[r]
      BY <1>8
    <2> QED BY <1>1, <2>1 DEF ExamInv, FoundIsCurrent
  <1> QED BY <1>9, <1>10, <1>11, <1>12, <1>13 DEF ExamInv

LEMMA ExamReadResults ==
  ASSUME ExamInv, NEW q \in Worker, NEW s \in Student, NEW A \in SUBSET Question, Exam!ReadResults(q, s, A)
  PROVE  ExamInv'
  <1>1. /\ UNCHANGED <<row, results, raced, doubled>>
        /\ examReq' = [examReq EXCEPT ![q].at = "submit", ![q].student = s, ![q].todo = A,
                                      ![q].found = {a \in A : results[s][a] > 0}]
        /\ examReq[q] = Exam!Idle
    BY DEF Exam!ReadResults
  <1>2. /\ Exam!Rows' = Exam!Rows /\ Exam!Rows \in SUBSET Student /\ Cardinality(Exam!Rows) \in Nat
    <2>1. Exam!Rows \in SUBSET Student BY DEF Exam!Rows
    <2> QED BY <1>1, <2>1, StudentAssumption, FS_Subset, FS_CardinalityType DEF Exam!Rows
  <1>3. /\ examReq'[q].at = "submit" /\ examReq'[q].todo = A /\ examReq'[q].largest = 0
        /\ examReq'[q].student = s /\ examReq'[q].found = {a \in A : results[s][a] > 0}
        /\ examReq'[q].overtaken = FALSE
        /\ \A r \in Worker \ {q} : examReq'[r] = examReq[r]
        /\ examReq' \in [Worker -> ExamRequest]
    <2>1. examReq'[q] = [Exam!Idle EXCEPT !.at = "submit", !.student = s, !.todo = A,
                                          !.found = {a \in A : results[s][a] > 0}]
      BY <1>1 DEF ExamInv, ExamReads
    <2>2. examReq'[q] \in ExamRequest
      BY <2>1, ExamIdle DEF ExamRequest
    <2>3. /\ \A r \in Worker \ {q} : examReq'[r] = examReq[r]
          /\ DOMAIN examReq' = Worker /\ examReq' = [r \in Worker |-> examReq'[r]]
      BY <1>1 DEF ExamInv, ExamReads
    <2>4. examReq' \in [Worker -> ExamRequest]
      BY <2>2, <2>3 DEF ExamInv, ExamReads
    <2> QED BY <2>1, <2>2, <2>3, <2>4, ExamIdle DEF ExamRequest
  <1>4. ExamReads'
    BY <1>3 DEF ExamInv, ExamReads
  <1>5. ExamTypes' /\ Exam!NumbersAreConsecutive' /\ Exam!OneResultEach'
    BY <1>1, <1>2 DEF ExamInv, ExamTypes, Exam!NumbersAreConsecutive, Exam!OneResultEach
  <1>6. NumbersBounded'
    <2>1. \A r \in Worker : examReq'[r].largest <= Cardinality(Exam!Rows)
      BY <1>2, <1>3 DEF ExamInv, NumbersBounded
    <2> QED BY <1>1, <1>2, <2>1 DEF ExamInv, NumbersBounded
  <1>7. LargestIsCurrent'
    <2>1. ASSUME ~raced, NEW r \in Worker, examReq'[r].at = "add", ~examReq'[r].overtaken
          PROVE  examReq'[r].largest = Cardinality(Exam!Rows)
      BY <1>3, <2>1 DEF ExamInv, LargestIsCurrent
    <2> QED BY <1>1, <1>2, <2>1 DEF LargestIsCurrent
  <1>8. FoundIsCurrent'
    <2>1. ASSUME NEW r \in Worker, examReq'[r].at = "submit", ~examReq'[r].overtaken,
                 NEW a \in examReq'[r].todo \ examReq'[r].found
          PROVE  results[examReq'[r].student][a] = 0
      <3>1. CASE r = q
        <4>1. a \in Question /\ ~(results[s][a] > 0) BY <1>3, <2>1, <3>1
        <4>2. results[s][a] \in Nat BY <4>1 DEF ExamInv, ExamTypes
        <4> QED BY <1>3, <3>1, <4>1, <4>2
      <3>2. CASE r # q BY <1>3, <2>1, <3>2 DEF ExamInv, FoundIsCurrent
      <3> QED BY <3>1, <3>2
    <2> QED BY <1>1, <2>1 DEF FoundIsCurrent
  <1> QED BY <1>4, <1>5, <1>6, <1>7, <1>8 DEF ExamInv

LEMMA ExamCreate ==
  ASSUME ExamInv, NEW q \in Worker, Exam!CreateParticipants(q)
  PROVE  ExamInv'
  <1> DEFINE S == examReq[q].todo
             Q == {r \in Worker : examReq[r].at = "add"}
  <1>0. /\ examReq[q].at = "add" /\ UNCHANGED <<results, doubled>>
        /\ S \in SUBSET Student
    BY DEF Exam!CreateParticipants, ExamInv, ExamReads
  <1>1. CASE S \cap Exam!Rows # {}
    <2>1. Exam!Overtake(q, {}) /\ UNCHANGED <<row, raced>>
      BY <1>1 DEF Exam!CreateParticipants, Exam!Finish
    <2> QED BY <1>0, <2>1, ExamAbandon
  <1>2. CASE S \cap Exam!Rows = {}
    <2>1. PICK order \in Bijection(S, 1..Cardinality(S)) :
             row' = [s \in Student |->
                    IF s \in S THEN [status |-> "LIVE", number |-> examReq[q].largest + order[s]]
                    ELSE row[s]]
      BY <1>2, ExamCounts DEF Exam!CreateParticipants
    <2>2. raced' = (raced \/ examReq[q].overtaken) /\ Exam!Overtake(q, Q)
      BY <1>2 DEF Exam!CreateParticipants
    <2> DEFINE n == Cardinality(Exam!Rows)
               m == Cardinality(S)
    <2>3. /\ order \in [S -> 1..m]
          /\ \A k \in 1..m : \E s \in S : order[s] = k
      BY <2>1 DEF Bijection, Injection, Surjection
    <2>4. /\ Exam!Rows \in SUBSET Student /\ n \in Nat /\ m \in Nat
          /\ Cardinality(Exam!Rows \cup S) = n + m
      <3>1. Exam!Rows \in SUBSET Student BY DEF Exam!Rows
      <3>2. IsFiniteSet(Exam!Rows) /\ IsFiniteSet(S)
        BY <1>0, <3>1, StudentAssumption, FS_Subset
      <3>3. n \in Nat /\ m \in Nat BY <3>2, FS_CardinalityType
      <3>4. Cardinality(Exam!Rows \cup S) = n + m - Cardinality(Exam!Rows \cap S)
        BY <3>2, FS_Union
      <3>5. Cardinality(Exam!Rows \cap S) = 0
        <4>1. Exam!Rows \cap S = {} BY <1>2
        <4> QED BY <4>1, FS_EmptySet
      <3> QED BY <3>1, <3>3, <3>4, <3>5
    <2>5. /\ ExamReads'
          /\ examReq'[q] = Exam!Idle
          /\ \A r \in Worker \ {q} :
              /\ examReq'[r].at = examReq[r].at /\ examReq'[r].todo = examReq[r].todo
              /\ examReq'[r].largest = examReq[r].largest /\ examReq'[r].student = examReq[r].student
              /\ examReq'[r].found = examReq[r].found
              /\ examReq'[r].overtaken <=> (r \in Q \/ examReq[r].overtaken)
      BY <2>2, ExamOvertake DEF ExamInv
    <2>6. /\ examReq[q].largest \in Nat /\ examReq[q].largest <= n
          /\ ~raced' => ~raced /\ examReq[q].largest = n
      <3>1. examReq[q].largest \in Nat /\ examReq[q].largest <= n
        BY DEF ExamInv, ExamReads, ExamRequest, NumbersBounded
      <3>2. ~raced' => ~raced /\ ~examReq[q].overtaken BY <2>2
      <3> QED BY <1>0, <3>1, <3>2 DEF ExamInv, LargestIsCurrent
    <2> HIDE DEF n, m
    <2>7. /\ row' \in [Student -> [status : {"NONE", "LIVE", "REMOVED"}, number : Nat]]
          /\ \A s \in S : row'[s].number = examReq[q].largest + order[s] /\ row'[s].status = "LIVE"
          /\ \A s \in Student \ S : row'[s] = row[s]
      <3>1. \A s \in S : examReq[q].largest + order[s] \in Nat
        BY <2>3, <2>4, <2>6
      <3>2. \A s \in S : row'[s] = [status |-> "LIVE", number |-> examReq[q].largest + order[s]]
        BY <1>0, <2>1
      <3>3. \A s \in Student \ S : row'[s] = row[s]
        BY <1>0, <2>1
      <3>4. \A s \in Student : row'[s] \in [status : {"NONE", "LIVE", "REMOVED"}, number : Nat]
        <4> TAKE s \in Student
        <4>1. CASE s \in S
          <5>1. \A k \in Nat : [status |-> "LIVE", number |-> k]
                              \in [status : {"NONE", "LIVE", "REMOVED"}, number : Nat]
            OBVIOUS
          <5> QED BY <3>1, <3>2, <4>1, <5>1
        <4>2. CASE s \notin S BY <3>3, <4>2 DEF ExamInv, ExamTypes
        <4> QED BY <4>1, <4>2
      <3>5. row' \in [Student -> [status : {"NONE", "LIVE", "REMOVED"}, number : Nat]]
        <4> DEFINE R == [status : {"NONE", "LIVE", "REMOVED"}, number : Nat]
        <4>1. row' = [s \in Student |-> row'[s]] BY <2>1
        <4>2. \A s \in Student : row'[s] \in R BY <3>4
        <4> HIDE DEF R
        <4>3. row' \in [Student -> R] BY <4>1, <4>2
        <4> QED BY <4>3 DEF R
      <3>6. \A s \in S : row'[s].number = examReq[q].largest + order[s] /\ row'[s].status = "LIVE"
        <4> TAKE s \in S
        <4>1. /\ examReq[q].largest + order[s] \in Nat
              /\ row'[s] = [status |-> "LIVE", number |-> examReq[q].largest + order[s]]
          BY <3>1, <3>2
        <4> DEFINE k == examReq[q].largest + order[s]
        <4> HIDE DEF k
        <4>2. row'[s] = [status |-> "LIVE", number |-> k] BY <4>1 DEF k
        <4>3. row'[s].number = k /\ row'[s].status = "LIVE" BY <4>2
        <4> QED BY <4>3 DEF k
      <3> QED BY <3>3, <3>5, <3>6
    <2>8. Exam!Rows' = Exam!Rows \cup S
      <3>1. \A s \in Student : s \in Exam!Rows' <=> s \in Exam!Rows \cup S
        BY <2>7 DEF Exam!Rows
      <3>2. Exam!Rows' \in SUBSET Student BY DEF Exam!Rows
      <3> QED BY <1>0, <2>4, <3>1, <3>2
    <2>9. Cardinality(Exam!Rows)' = n + m
      BY <2>4, <2>8 DEF n, m
    <2>10. ExamTypes'
      <3>1. \A s \in Student \ Exam!Rows' : row'[s].number = 0
        BY <2>7, <2>8 DEF ExamInv, ExamTypes
      <3>2. raced' \in BOOLEAN BY <2>2
      <3> QED BY <1>0, <2>7, <3>1, <3>2 DEF ExamInv, ExamTypes
    <2>11. NumbersBounded'
      <3>1. \A s \in Exam!Rows : row'[s].number <= n + m
        BY <1>2, <2>4, <2>7 DEF n, ExamInv, NumbersBounded, ExamTypes
      <3>2. \A s \in S : row'[s].number <= n + m
        BY <2>3, <2>4, <2>6, <2>7
      <3>3. \A r \in Worker : examReq'[r].largest <= n + m
        BY <2>4, <2>5, ExamIdle DEF n, ExamInv, NumbersBounded, ExamReads, ExamRequest
      <3> QED BY <2>8, <2>9, <3>1, <3>2, <3>3 DEF NumbersBounded
    <2>12. LargestIsCurrent'
      <3>1. \A r \in Worker : examReq'[r].at = "add" => examReq'[r].overtaken
        BY <2>5, ExamIdle
      <3> QED BY <3>1 DEF LargestIsCurrent
    <2>13. Exam!NumbersAreConsecutive'
      <3> SUFFICES ASSUME ~raced'
                   PROVE  {row'[s].number : s \in Exam!Rows'} = 1..(n + m)
        BY <2>9, ExamCounts DEF Exam!NumbersAreConsecutive
      <3>1. /\ examReq[q].largest = n
            /\ {row[s].number : s \in Exam!Rows} = 1..n
        BY <2>6, ExamCounts DEF n, ExamInv, Exam!NumbersAreConsecutive
      <3>2. ASSUME NEW s \in Exam!Rows' PROVE row'[s].number \in 1..(n + m)
        <4>1. CASE s \in S BY <2>3, <2>4, <2>7, <3>1, <4>1
        <4>2. CASE s \notin S
          <5>1. s \in Exam!Rows BY <2>8, <4>2
          <5>2. row'[s].number = row[s].number BY <2>4, <2>7, <4>2, <5>1
          <5>3. row[s].number \in 1..n BY <3>1, <5>1
          <5> QED BY <2>4, <5>2, <5>3
        <4> QED BY <4>1, <4>2
      <3>3. ASSUME NEW k \in 1..(n + m) PROVE \E s \in Exam!Rows' : row'[s].number = k
        <4>1. CASE k <= n
          <5>1. k \in 1..n BY <2>4, <4>1
          <5>2. PICK s \in Exam!Rows : row[s].number = k BY <3>1, <5>1
          <5>3. row'[s].number = k BY <1>2, <2>4, <2>7, <5>2
          <5> QED BY <2>8, <5>3
        <4>2. CASE k > n
          <5>1. k - n \in 1..m BY <2>4, <4>2
          <5>2. PICK s \in S : order[s] = k - n BY <2>3, <5>1
          <5>3. row'[s].number = k BY <2>4, <2>7, <3>1, <5>2
          <5> QED BY <2>8, <5>3
        <4> QED BY <2>4, <4>1, <4>2
      <3> QED BY <3>2, <3>3
    <2>14. FoundIsCurrent' /\ Exam!OneResultEach'
      <3>1. \A r \in Worker : r \in Q => examReq[r].at # "submit"
        OBVIOUS
      <3>2. FoundIsCurrent'
        BY <1>0, <2>5, <3>1, ExamIdle DEF ExamInv, FoundIsCurrent
      <3> QED BY <1>0, <3>2 DEF ExamInv, Exam!OneResultEach
    <2> QED BY <2>5, <2>10, <2>11, <2>12, <2>13, <2>14 DEF ExamInv
  <1> QED BY <1>1, <1>2

LEMMA ExamWriteResults ==
  ASSUME ExamInv, NEW q \in Worker, NEW twice \in SUBSET Question, Exam!WriteResults(q, twice)
  PROVE  ExamInv'
  <1> DEFINE s == examReq[q].student
             new == examReq[q].todo \ examReq[q].found
             Q == {r \in Worker : examReq[r].at = "submit" /\ examReq[r].student = s}
  <1>0. /\ examReq[q].at = "submit" /\ s \in Student /\ new \in SUBSET Question
        /\ UNCHANGED <<row, raced>>
        /\ results' = [results EXCEPT ![s] =
             [a \in Question |-> IF a \notin new THEN @[a]
                                  ELSE IF @[a] = 0 /\ a \notin twice THEN 1 ELSE 2]]
        /\ doubled' = IF examReq[q].overtaken \/ new \cap twice # {} THEN doubled \cup {s} ELSE doubled
        /\ Exam!Overtake(q, Q)
    BY DEF Exam!WriteResults, ExamInv, ExamReads
  <1>1. /\ ExamReads'
        /\ examReq'[q] = Exam!Idle
        /\ \A r \in Worker \ {q} :
              /\ examReq'[r].at = examReq[r].at /\ examReq'[r].todo = examReq[r].todo
              /\ examReq'[r].largest = examReq[r].largest /\ examReq'[r].student = examReq[r].student
              /\ examReq'[r].found = examReq[r].found
              /\ examReq'[r].overtaken <=> (r \in Q \/ examReq[r].overtaken)
    BY <1>0, ExamOvertake DEF ExamInv
  <1> HIDE DEF new
  <1>2. /\ results' \in [Student -> [Question -> 0..2]]
        /\ \A t \in Student, a \in Question :
             /\ ~(t = s /\ a \in new) => results'[t][a] = results[t][a]
             /\ t = s /\ a \in new =>
                   results'[t][a] = IF results[t][a] = 0 /\ a \notin twice THEN 1 ELSE 2
    <2>1. results \in [Student -> [Question -> 0..2]] BY DEF ExamInv, ExamTypes
    <2>2. [a \in Question |-> IF a \notin new THEN results[s][a]
                                     ELSE IF results[s][a] = 0 /\ a \notin twice THEN 1 ELSE 2] \in [Question -> 0..2]
      BY <1>0, <2>1
    <2>3. results' \in [Student -> [Question -> 0..2]] BY <1>0, <2>1, <2>2
    <2>4. results'[s] = [a \in Question |-> IF a \notin new THEN results[s][a]
                                     ELSE IF results[s][a] = 0 /\ a \notin twice THEN 1 ELSE 2]
      BY <1>0, <2>1
    <2>5. \A t \in Student \ {s} : results'[t] = results[t]
      BY <1>0, <2>1
    <2> QED BY <2>3, <2>4, <2>5
  <1>3. /\ Exam!Rows' = Exam!Rows /\ Exam!Rows \in SUBSET Student /\ Cardinality(Exam!Rows) \in Nat
    <2>1. Exam!Rows \in SUBSET Student BY DEF Exam!Rows
    <2> QED BY <1>0, <2>1, StudentAssumption, FS_Subset, FS_CardinalityType DEF Exam!Rows
  <1>4. ExamTypes' /\ Exam!NumbersAreConsecutive'
    BY <1>0, <1>2, <1>3 DEF ExamInv, ExamTypes, Exam!NumbersAreConsecutive
  <1>5. NumbersBounded'
    <2>1. \A r \in Worker : examReq'[r].largest <= Cardinality(Exam!Rows)
      BY <1>1, <1>3, ExamIdle DEF ExamInv, NumbersBounded
    <2> QED BY <1>0, <1>3, <2>1 DEF ExamInv, NumbersBounded
  <1>6. LargestIsCurrent'
    BY <1>0, <1>1, <1>3, ExamIdle DEF ExamInv, LargestIsCurrent
  <1>7. FoundIsCurrent'
    <2>1. ASSUME NEW r \in Worker, examReq'[r].at = "submit", ~examReq'[r].overtaken,
                 NEW a \in examReq'[r].todo \ examReq'[r].found
          PROVE  results'[examReq'[r].student][a] = 0
      <3>1. /\ r # q /\ examReq[r].at = "submit" /\ examReq[r].student # s /\ ~examReq[r].overtaken
            /\ a \in examReq[r].todo \ examReq[r].found /\ examReq'[r].student = examReq[r].student
        BY <1>1, <2>1, ExamIdle
      <3>2. results[examReq[r].student][a] = 0 BY <3>1 DEF ExamInv, FoundIsCurrent
      <3>3. examReq[r].student \in Student /\ a \in Question
        BY <3>1 DEF ExamInv, ExamReads
      <3> QED BY <1>2, <3>1, <3>2, <3>3
    <2> QED BY <2>1 DEF FoundIsCurrent
  <1>8. Exam!OneResultEach'
    <2>1. ASSUME NEW t \in Student \ doubled', NEW a \in Question
          PROVE  results'[t][a] <= 1
      <3>1. t \notin doubled /\ results[t][a] \in Nat /\ results[t][a] <= 1
        BY <1>0, <2>1 DEF ExamInv, Exam!OneResultEach, ExamTypes
      <3>2. CASE t = s /\ a \in new
        <4>1. s \notin doubled' BY <2>1, <3>2
        <4>2. ~examReq[q].overtaken /\ new \cap twice = {} BY <1>0, <4>1
        <4>3. a \notin twice BY <3>2, <4>2
        <4>4. results[t][a] = 0 BY <1>0, <3>2, <4>2 DEF ExamInv, FoundIsCurrent, new
        <4> QED BY <1>2, <3>2, <4>3, <4>4
      <3>3. CASE ~(t = s /\ a \in new) BY <1>2, <3>1, <3>3
      <3> QED BY <3>2, <3>3
    <2> QED BY <2>1 DEF Exam!OneResultEach
  <1> QED BY <1>1, <1>4, <1>5, <1>6, <1>7, <1>8 DEF ExamInv

LEMMA ExamStep == ExamInv /\ [Exam!Next]_(Exam!vars) => ExamInv'
  <1> SUFFICES ASSUME ExamInv, [Exam!Next]_(Exam!vars) PROVE ExamInv'
    OBVIOUS
  <1>1. ASSUME NEW q \in Worker, Exam!Abandon(q) PROVE ExamInv'
    BY <1>1, ExamAbandon DEF Exam!Abandon, Exam!Finish
  <1>2. CASE UNCHANGED Exam!vars
    <2>1. UNCHANGED <<row, results, examReq, raced, doubled>> BY <1>2 DEF Exam!vars
    <2>2. Exam!Rows' = Exam!Rows BY <2>1 DEF Exam!Rows
    <2>4. ExamTypes' /\ ExamReads' /\ FoundIsCurrent' /\ Exam!OneResultEach'
      BY <2>1, <2>2 DEF ExamInv, ExamTypes, ExamReads, FoundIsCurrent, Exam!OneResultEach
    <2>5. NumbersBounded' /\ LargestIsCurrent' /\ Exam!NumbersAreConsecutive'
      BY <2>1, <2>2 DEF ExamInv, NumbersBounded, LargestIsCurrent, Exam!NumbersAreConsecutive
    <2> QED BY <2>4, <2>5 DEF ExamInv
  <1> QED
    BY <1>1, <1>2, ExamRemove, ExamReadLargest, ExamReadResults, ExamCreate, ExamWriteResults
       DEF Exam!Next

LEMMA ExamMeaning == ExamInv => Exam!TypeOK /\ Exam!NumbersAreConsecutive /\ Exam!OneResultEach
  BY ExamTypeCorrect DEF ExamInv

(* Exams: participants are numbered without gaps or repetitions, and have  *)
(* one result for a question, unless requests raced or a question was      *)
(* listed twice (addParticipant, addParticipantsBulk,                      *)
(* submitParticipantResults); for any number of students, questions and    *)
(* requests.                                                               *)
THEOREM ExamSafe ==
    Exam!Spec => [](Exam!TypeOK /\ Exam!NumbersAreConsecutive /\ Exam!OneResultEach)
  BY ExamInit, ExamStep, ExamMeaning, PTL DEF Exam!Spec

-----------------------------------------------------------------------------
(* Grades.  Whoever is approved has been told, or some approval that has   *)
(* approved the student still has the notification to write.               *)

GradeStatus == {"NONE", "DRAFT", "SUBMITTED", "APPROVED", "PUBLISHED"}

GradeRequest == [at : {"idle", "find", "write", "approve", "notify"}, todo : SUBSET Student,
                 held : SUBSET Student, student : Student \cup {None}, found : GradeStatus,
                 status : {"NONE", "APPROVED", "PUBLISHED"}]

GradeTypes ==
    /\ grade \in [Student -> GradeStatus]
    /\ reachable \subseteq Student
    /\ gradeReq \in [Worker -> GradeRequest]
    /\ told \in [Student -> SUBSET {"APPROVED", "PUBLISHED"}]
    /\ missed \subseteq Student

(* What the requests hold and have read. *)
GradeReads ==
    /\ \A q \in Worker :
         /\ gradeReq[q].held \cap gradeReq[q].todo = {}
         /\ gradeReq[q].at \notin {"find", "write"} => gradeReq[q].held = {}
         /\ gradeReq[q].at = "write" => gradeReq[q].student \in Student /\ gradeReq[q].student \notin gradeReq[q].todo
         /\ gradeReq[q].at = "notify" => gradeReq[q].status \in {"APPROVED", "PUBLISHED"}
    /\ \A q, r \in Worker : q # r => gradeReq[q].held \cap gradeReq[r].held = {}

Telling(q, s) ==
    gradeReq[q].at = "notify" /\ s \in gradeReq[q].todo /\ gradeReq[q].status = grade[s]

(* A student whose grade is approved has been told, or is about to be.     *)
ToldOrTelling ==
    \A s \in Student \ missed :
        Marks!Approved(s) => grade[s] \in told[s] \/ \E q \in Worker : Telling(q, s)

GradeInv == GradeTypes /\ GradeReads /\ ToldOrTelling

LEMMA GradeIdle ==
  /\ Marks!Idle.at = "idle" /\ Marks!Idle.todo = {} /\ Marks!Idle.held = {} /\ Marks!Idle.student = None
  /\ Marks!Idle.found = "NONE" /\ Marks!Idle.status = "NONE"
  /\ Marks!Idle \in GradeRequest
  BY DEF Marks!Idle, GradeRequest, GradeStatus

LEMMA GradeTypeCorrect == GradeInv => Marks!TypeOK
  <1> SUFFICES ASSUME GradeInv PROVE Marks!TypeOK
    OBVIOUS
  <1>1. \A q \in Worker : gradeReq[q] \in GradeRequest
    BY DEF GradeInv, GradeTypes
  <1>2. \A q \in Worker :
         /\ gradeReq[q].at \in {"idle", "find", "write", "approve", "notify"}
         /\ gradeReq[q].todo \subseteq Student
         /\ gradeReq[q].held \subseteq Student \ gradeReq[q].todo
         /\ gradeReq[q].student \in Student \cup {None}
         /\ gradeReq[q].found \in {"NONE", "DRAFT", "SUBMITTED", "APPROVED", "PUBLISHED"}
         /\ gradeReq[q].status \in {"NONE", "APPROVED", "PUBLISHED"}
    BY <1>1 DEF GradeRequest, GradeStatus, GradeInv, GradeReads
  <1> QED BY <1>2 DEF GradeInv, GradeTypes, GradeReads, GradeStatus, Marks!TypeOK

LEMMA GradeCorrect == GradeInv => Marks!ApprovedAreTold
  BY DEF GradeInv, ToldOrTelling, Telling, Marks!ApprovedAreTold

LEMMA GradeInit == Marks!Init => GradeInv
  <1> SUFFICES ASSUME Marks!Init PROVE GradeInv
    OBVIOUS
  <1>1. /\ grade = [s \in Student |-> "NONE"] /\ reachable = Student
        /\ gradeReq = [q \in Worker |-> Marks!Idle]
        /\ told = [s \in Student |-> {}] /\ missed = {}
    BY DEF Marks!Init
  <1>2. gradeReq \in [Worker -> GradeRequest] /\ \A q \in Worker : gradeReq[q] = Marks!Idle
    BY <1>1, GradeIdle
  <1>3. GradeTypes BY <1>1, <1>2 DEF GradeTypes, GradeStatus
  <1>4. GradeReads BY <1>2, GradeIdle DEF GradeReads
  <1>5. ToldOrTelling BY <1>1 DEF ToldOrTelling, Marks!Approved
  <1> QED BY <1>3, <1>4, <1>5 DEF GradeInv

LEMMA GradeMoves ==
  ASSUME GradeTypes, NEW q \in Worker, NEW x \in GradeRequest, gradeReq' = [gradeReq EXCEPT ![q] = x]
  PROVE  /\ gradeReq' \in [Worker -> GradeRequest] /\ gradeReq'[q] = x
         /\ \A r \in Worker \ {q} : gradeReq'[r] = gradeReq[r]
  BY DEF GradeTypes

(* A request that neither approves nor ends its notifications changes      *)
(* nothing of what is told and being told.                                 *)
LEMMA ToldFrame ==
  ASSUME ToldOrTelling, UNCHANGED <<grade, told, missed>>, NEW q \in Worker, gradeReq[q].at # "notify",
         \A r \in Worker \ {q} : gradeReq'[r] = gradeReq[r]
  PROVE  ToldOrTelling'
  <1> SUFFICES ASSUME NEW s \in Student \ missed, Marks!Approved(s)
               PROVE  grade[s] \in told[s] \/ \E r \in Worker : Telling(r, s)'
    BY DEF ToldOrTelling, Marks!Approved
  <1>1. CASE grade[s] \in told[s] BY <1>1
  <1>2. CASE \E r \in Worker : Telling(r, s)
    <2>1. PICK r \in Worker : Telling(r, s) BY <1>2
    <2>2. r # q BY <2>1 DEF Telling
    <2>3. Telling(r, s)' BY <2>1, <2>2 DEF Telling
    <2> QED BY <2>3
  <1> QED BY <1>1, <1>2 DEF ToldOrTelling

LEMMA GradeFinish ==
  ASSUME GradeInv, NEW q \in Worker, Marks!Finish(q), UNCHANGED <<grade, reachable, told, missed>>, gradeReq[q].at # "notify"
  PROVE  GradeInv'
  <1>1. /\ gradeReq' \in [Worker -> GradeRequest] /\ gradeReq'[q] = Marks!Idle
        /\ \A r \in Worker \ {q} : gradeReq'[r] = gradeReq[r]
    BY GradeMoves, GradeIdle DEF GradeInv, Marks!Finish
  <1>2. GradeTypes' BY <1>1 DEF GradeInv, GradeTypes
  <1>3. GradeReads' BY <1>1, GradeIdle DEF GradeInv, GradeReads
  <1>4. ToldOrTelling' BY <1>1, ToldFrame DEF GradeInv
  <1> QED BY <1>2, <1>3, <1>4 DEF GradeInv

LEMMA GradeStartInput ==
  ASSUME GradeInv, NEW q \in Worker, NEW S \in SUBSET Student, Marks!StartInput(q, S)
  PROVE  GradeInv'
  <1>1. UNCHANGED <<grade, reachable, told, missed>> /\ gradeReq[q] = Marks!Idle
    BY DEF Marks!StartInput
  <1> DEFINE x == [Marks!Idle EXCEPT !.at = "find", !.todo = S]
  <1>2. x \in GradeRequest /\ x.at = "find" /\ x.todo = S /\ x.held = {}
    BY GradeIdle DEF GradeRequest
  <1>3. gradeReq' = [gradeReq EXCEPT ![q] = x]
    BY DEF Marks!StartInput, GradeInv, GradeTypes
  <1> HIDE DEF x
  <1>4. /\ gradeReq' \in [Worker -> GradeRequest] /\ gradeReq'[q] = x
        /\ \A r \in Worker \ {q} : gradeReq'[r] = gradeReq[r]
    BY <1>2, <1>3, GradeMoves DEF GradeInv
  <1>5. GradeTypes' BY <1>1, <1>4 DEF GradeInv, GradeTypes
  <1>6. GradeReads' BY <1>1, <1>2, <1>4 DEF GradeInv, GradeReads
  <1>7. ToldOrTelling' BY <1>1, <1>4, GradeIdle, ToldFrame DEF GradeInv
  <1> QED BY <1>5, <1>6, <1>7 DEF GradeInv

LEMMA GradeFindGrade ==
  ASSUME GradeInv, NEW q \in Worker, NEW s \in Student, Marks!FindGrade(q, s)
  PROVE  GradeInv'
  <1>1. UNCHANGED <<grade, reachable, told, missed>> /\ gradeReq[q].at = "find" /\ s \in gradeReq[q].todo
    BY DEF Marks!FindGrade
  <1>2. CASE Marks!Approved(s)
    <2>1. Marks!Finish(q) BY <1>2 DEF Marks!FindGrade
    <2> QED BY <1>1, <2>1, GradeFinish
  <1>3. CASE ~Marks!Approved(s)
    <2> DEFINE x == [gradeReq[q] EXCEPT !.at = "write", !.todo = @ \ {s}, !.student = s,
                                        !.found = grade[s]]
    <2>1. grade[s] \in GradeStatus /\ gradeReq[q] \in GradeRequest
      BY DEF GradeInv, GradeTypes
    <2>2. /\ x \in GradeRequest /\ x.at = "write" /\ x.todo = gradeReq[q].todo \ {s}
          /\ x.student = s /\ x.held = gradeReq[q].held
      BY <2>1 DEF GradeRequest
    <2>3. gradeReq' = [gradeReq EXCEPT ![q] = x]
      BY <1>3 DEF Marks!FindGrade, GradeInv, GradeTypes
    <2> HIDE DEF x
    <2>4. /\ gradeReq' \in [Worker -> GradeRequest] /\ gradeReq'[q] = x
          /\ \A r \in Worker \ {q} : gradeReq'[r] = gradeReq[r]
      BY <2>2, <2>3, GradeMoves DEF GradeInv
    <2>5. GradeTypes' BY <1>1, <2>4 DEF GradeInv, GradeTypes
    <2>6. GradeReads' BY <1>1, <2>2, <2>4 DEF GradeInv, GradeReads
    <2>7. ToldOrTelling' BY <1>1, <2>4, ToldFrame DEF GradeInv
    <2> QED BY <2>5, <2>6, <2>7 DEF GradeInv
  <1> QED BY <1>2, <1>3

LEMMA GradeWriteGrade ==
  ASSUME GradeInv, NEW q \in Worker, Marks!WriteGrade(q)
  PROVE  GradeInv'
  <1>0. PICK s \in Student : s = gradeReq[q].student
    BY DEF Marks!WriteGrade, GradeInv, GradeReads
  <1>1. /\ UNCHANGED <<grade, reachable, told, missed>> /\ gradeReq[q].at = "write" /\ s \notin gradeReq[q].todo
        /\ ~Marks!Locked(s)
    BY <1>0 DEF Marks!WriteGrade, GradeInv, GradeReads
  <1>2. CASE Marks!Finish(q)
    BY <1>1, <1>2, GradeFinish
  <1>3. CASE ~Marks!Finish(q)
    <2> DEFINE x == [gradeReq[q] EXCEPT !.at = "find", !.held = @ \cup {s}]
    <2>1. /\ x \in GradeRequest /\ x.at = "find" /\ x.todo = gradeReq[q].todo
          /\ x.held = gradeReq[q].held \cup {s}
      BY DEF GradeInv, GradeTypes, GradeRequest
    <2>2. gradeReq' = [gradeReq EXCEPT ![q] = x]
      BY <1>0, <1>3 DEF Marks!WriteGrade, GradeInv, GradeTypes
    <2> HIDE DEF x
    <2>3. /\ gradeReq' \in [Worker -> GradeRequest] /\ gradeReq'[q] = x
          /\ \A r \in Worker \ {q} : gradeReq'[r] = gradeReq[r]
      BY <2>1, <2>2, GradeMoves DEF GradeInv
    <2>4. GradeTypes' BY <1>1, <2>3 DEF GradeInv, GradeTypes
    <2>5. GradeReads'
      <3>1. \A r \in Worker : s \notin gradeReq[r].held BY <1>1 DEF Marks!Locked
      <3> QED BY <1>1, <2>1, <2>3, <3>1 DEF GradeInv, GradeReads
    <2>6. ToldOrTelling' BY <1>1, <2>3, ToldFrame DEF GradeInv
    <2> QED BY <2>4, <2>5, <2>6 DEF GradeInv
  <1> QED BY <1>2, <1>3

LEMMA GradeCommitInput ==
  ASSUME GradeInv, NEW q \in Worker, Marks!CommitInput(q)
  PROVE  GradeInv'
  <1>1. /\ UNCHANGED <<reachable, told, missed>> /\ gradeReq[q].at = "find"
        /\ grade' = [s \in Student |-> IF s \in gradeReq[q].held THEN "SUBMITTED" ELSE grade[s]]
        /\ Marks!Finish(q)
    BY DEF Marks!CommitInput
  <1>2. /\ gradeReq' \in [Worker -> GradeRequest] /\ gradeReq'[q] = Marks!Idle
        /\ \A r \in Worker \ {q} : gradeReq'[r] = gradeReq[r]
    BY <1>1, GradeMoves, GradeIdle DEF GradeInv, Marks!Finish
  <1>3. GradeTypes' BY <1>1, <1>2 DEF GradeInv, GradeTypes, GradeStatus
  <1>4. GradeReads' BY <1>2, GradeIdle DEF GradeInv, GradeReads
  <1>5. ToldOrTelling'
    <2> SUFFICES ASSUME NEW s \in Student \ missed, Marks!Approved(s)'
                 PROVE  grade'[s] \in told[s] \/ \E r \in Worker : Telling(r, s)'
      BY <1>1 DEF ToldOrTelling
    <2>1. grade'[s] = grade[s] BY <1>1 DEF Marks!Approved
    <2>2. grade[s] \in told[s] \/ \E r \in Worker : Telling(r, s)
      BY <2>1 DEF GradeInv, ToldOrTelling, Marks!Approved
    <2>3. ASSUME NEW r \in Worker, Telling(r, s) PROVE Telling(r, s)'
      BY <1>1, <1>2, <2>1, <2>3 DEF Telling
    <2> QED BY <2>1, <2>2, <2>3
  <1> QED BY <1>3, <1>4, <1>5 DEF GradeInv

LEMMA GradeUpdateScore ==
  ASSUME GradeInv, NEW s \in Student, NEW submit \in BOOLEAN, Marks!UpdateScore(s, submit)
  PROVE  GradeInv'
  <1> DEFINE to == CASE grade[s] = "NONE" -> "DRAFT"
                     [] submit            -> "SUBMITTED"
                     [] OTHER             -> grade[s]
  <1>1. UNCHANGED <<gradeReq, reachable, told, missed>>
    BY DEF Marks!UpdateScore
  <1>2. to \in GradeStatus /\ (to \in {"APPROVED", "PUBLISHED"} => to = grade[s])
    BY DEF GradeInv, GradeTypes, GradeStatus
  <1>3. grade' = [grade EXCEPT ![s] = to]
    BY DEF Marks!UpdateScore, GradeInv, GradeTypes
  <1> HIDE DEF to
  <1>4. /\ grade' \in [Student -> GradeStatus]
        /\ grade'[s] = to /\ \A t \in Student \ {s} : grade'[t] = grade[t]
    BY <1>2, <1>3 DEF GradeInv, GradeTypes
  <1>5. GradeTypes' BY <1>1, <1>4 DEF GradeInv, GradeTypes
  <1>6. GradeReads' BY <1>1 DEF GradeInv, GradeReads
  <1>7. ToldOrTelling'
    <2> SUFFICES ASSUME NEW t \in Student \ missed, Marks!Approved(t)'
                 PROVE  grade'[t] \in told[t] \/ \E r \in Worker : Telling(r, t)'
      BY <1>1 DEF ToldOrTelling
    <2>1. grade'[t] = grade[t] BY <1>2, <1>4 DEF Marks!Approved
    <2>2. grade[t] \in told[t] \/ \E r \in Worker : Telling(r, t)
      BY <2>1 DEF GradeInv, ToldOrTelling, Marks!Approved
    <2>3. ASSUME NEW r \in Worker, Telling(r, t) PROVE Telling(r, t)'
      BY <1>1, <2>1, <2>3 DEF Telling
    <2> QED BY <2>1, <2>2, <2>3
  <1> QED BY <1>5, <1>6, <1>7 DEF GradeInv

LEMMA GradeSetReachable ==
  ASSUME GradeInv, NEW s \in Student, Marks!SetReachable(s)
  PROVE  GradeInv'
  <1>1. UNCHANGED <<grade, gradeReq, told, missed>> /\ reachable' \subseteq Student
    BY DEF Marks!SetReachable, GradeInv, GradeTypes
  <1>2. \A t \in Student, q \in Worker : Telling(q, t)' <=> Telling(q, t)
    BY <1>1 DEF Telling
  <1> QED BY <1>1, <1>2 DEF GradeInv, GradeTypes, GradeReads, ToldOrTelling, Marks!Approved

LEMMA GradeReadSubmitted ==
  ASSUME GradeInv, NEW q \in Worker, Marks!ReadSubmitted(q)
  PROVE  GradeInv'
  <1> DEFINE x == [Marks!Idle EXCEPT !.at = "approve", !.todo = Marks!Submitted]
  <1>1. UNCHANGED <<grade, reachable, told, missed>> /\ gradeReq[q] = Marks!Idle
    BY DEF Marks!ReadSubmitted
  <1>2. gradeReq' = [gradeReq EXCEPT ![q] = x]
    BY DEF Marks!ReadSubmitted, GradeInv, GradeTypes
  <1>3. x \in GradeRequest /\ x.at = "approve" /\ x.held = {}
    BY GradeIdle DEF GradeRequest, Marks!Submitted
  <1> HIDE DEF x
  <1>4. /\ gradeReq' \in [Worker -> GradeRequest] /\ gradeReq'[q] = x
        /\ \A r \in Worker \ {q} : gradeReq'[r] = gradeReq[r]
    BY <1>2, <1>3, GradeMoves DEF GradeInv
  <1>5. GradeTypes' BY <1>1, <1>4 DEF GradeInv, GradeTypes
  <1>6. GradeReads' BY <1>1, <1>3, <1>4 DEF GradeInv, GradeReads
  <1>7. ToldOrTelling' BY <1>1, <1>4, GradeIdle, ToldFrame DEF GradeInv
  <1> QED BY <1>5, <1>6, <1>7 DEF GradeInv

(* The students whose grades are approved are those the request is about to*)
(* tell, or they are missed.                                               *)
LEMMA GradeApprove ==
  ASSUME GradeInv, NEW q \in Worker, NEW status \in {"APPROVED", "PUBLISHED"}, Marks!ApproveSubmitted(q, status)
  PROVE  GradeInv'
  <1>1. /\ UNCHANGED <<reachable, told>> /\ gradeReq[q].at = "approve"
        /\ grade' = [s \in Student |-> IF s \in Marks!Submitted THEN status ELSE grade[s]]
        /\ missed' = missed \cup (Marks!Submitted \ gradeReq[q].todo)
    BY DEF Marks!ApproveSubmitted
  <1> DEFINE x == [gradeReq[q] EXCEPT !.at = "notify", !.status = status]
  <1>2. /\ x \in GradeRequest /\ x.at = "notify" /\ x.todo = gradeReq[q].todo
        /\ x.held = gradeReq[q].held /\ x.status = status
    BY DEF GradeInv, GradeTypes, GradeRequest
  <1>3. gradeReq' = [gradeReq EXCEPT ![q] = x]
    BY DEF Marks!ApproveSubmitted, GradeInv, GradeTypes
  <1> HIDE DEF x
  <1>4. /\ gradeReq' \in [Worker -> GradeRequest] /\ gradeReq'[q] = x
        /\ \A r \in Worker \ {q} : gradeReq'[r] = gradeReq[r]
    BY <1>2, <1>3, GradeMoves DEF GradeInv
  <1>5. missed' \subseteq Student BY <1>1 DEF GradeInv, GradeTypes, Marks!Submitted
  <1>6. GradeTypes' BY <1>1, <1>4, <1>5 DEF GradeInv, GradeTypes, GradeStatus
  <1>7. GradeReads' BY <1>1, <1>2, <1>4 DEF GradeInv, GradeReads
  <1>8. ToldOrTelling'
    <2> SUFFICES ASSUME NEW s \in Student \ missed', Marks!Approved(s)'
                 PROVE  grade'[s] \in told[s] \/ \E r \in Worker : Telling(r, s)'
      BY <1>1 DEF ToldOrTelling
    <2>1. CASE s \in Marks!Submitted
      <3>1. s \in gradeReq[q].todo /\ grade'[s] = status BY <1>1, <2>1
      <3>2. Telling(q, s)' BY <1>2, <1>4, <3>1 DEF Telling
      <3> QED BY <3>2
    <2>2. CASE s \notin Marks!Submitted
      <3>1. grade'[s] = grade[s] /\ s \notin missed BY <1>1, <2>2
      <3>2. grade[s] \in told[s] \/ \E r \in Worker : Telling(r, s)
        BY <3>1 DEF GradeInv, ToldOrTelling, Marks!Approved
      <3>3. ASSUME NEW r \in Worker, Telling(r, s) PROVE Telling(r, s)'
        BY <1>1, <1>4, <3>1, <3>3 DEF Telling
      <3> QED BY <3>1, <3>2, <3>3
    <2> QED BY <2>1, <2>2
  <1> QED BY <1>6, <1>7, <1>8 DEF GradeInv

(* Whom a request comes to is told of its status, or missed.               *)
LEMMA GradeNotify ==
  ASSUME GradeInv, NEW q \in Worker, NEW s \in Student, Marks!NotifyStudent(q, s)
  PROVE  GradeInv'
  <1> DEFINE n == gradeReq[q].status
             x == [gradeReq[q] EXCEPT !.todo = @ \ {s}]
  <1>1. /\ UNCHANGED <<grade, reachable>> /\ gradeReq[q].at = "notify" /\ s \in gradeReq[q].todo
        /\ n \in {"APPROVED", "PUBLISHED"}
    BY DEF Marks!NotifyStudent, GradeInv, GradeReads
  <1>2. \/ /\ told' = [told EXCEPT ![s] = @ \cup {n}]
           /\ missed' = IF n = grade[s] THEN missed \ {s} ELSE missed
        \/ told' = told /\ missed' = missed \cup {s}
    BY DEF Marks!NotifyStudent
  <1>3. x \in GradeRequest /\ x.at = "notify" /\ x.todo = gradeReq[q].todo \ {s}
        /\ x.held = gradeReq[q].held /\ x.status = gradeReq[q].status
    BY <1>1 DEF GradeInv, GradeTypes, GradeRequest
  <1>4. gradeReq' = [gradeReq EXCEPT ![q] = IF gradeReq[q].todo = {s} THEN Marks!Idle ELSE x]
    BY DEF Marks!NotifyStudent, GradeInv, GradeTypes
  <1> HIDE DEF x
  <1>5. /\ gradeReq' \in [Worker -> GradeRequest]
        /\ gradeReq'[q] = IF gradeReq[q].todo = {s} THEN Marks!Idle ELSE x
        /\ \A r \in Worker \ {q} : gradeReq'[r] = gradeReq[r]
    BY <1>3, <1>4, GradeMoves, GradeIdle DEF GradeInv
  <1>6. /\ told' \in [Student -> SUBSET {"APPROVED", "PUBLISHED"}]
        /\ \A t \in Student : told[t] \subseteq told'[t]
        /\ missed' \subseteq Student
        /\ \A t \in Student \ {s} : t \in missed => t \in missed'
        /\ s \in missed' \/ n \in told'[s]
        /\ s \in missed' \/ n = grade[s] \/ s \notin missed
    BY <1>1, <1>2 DEF GradeInv, GradeTypes
  <1>7. GradeTypes' BY <1>1, <1>5, <1>6 DEF GradeInv, GradeTypes
  <1>8. GradeReads' BY <1>1, <1>3, <1>5, GradeIdle DEF GradeInv, GradeReads
  <1>9. ToldOrTelling'
    <2> SUFFICES ASSUME NEW t \in Student \ missed', Marks!Approved(t)
                 PROVE  grade[t] \in told'[t] \/ \E r \in Worker : Telling(r, t)'
      BY <1>1 DEF ToldOrTelling, Marks!Approved
    <2>1. CASE t = s /\ n = grade[s]
      BY <1>6, <2>1
    <2>2. CASE t # s \/ n # grade[s]
      <3>1. t \notin missed BY <1>6, <2>2
      <3>2. CASE grade[t] \in told[t] BY <1>6, <3>2
      <3>3. ASSUME NEW r \in Worker, Telling(r, t) PROVE Telling(r, t)'
        <4>1. CASE r # q BY <1>1, <1>5, <3>3, <4>1 DEF Telling
        <4>2. CASE r = q
          <5>1. t # s /\ gradeReq[q].todo # {s} BY <2>2, <3>3, <4>2 DEF Telling
          <5> QED BY <1>1, <1>3, <1>5, <3>3, <4>2, <5>1 DEF Telling
        <4> QED BY <4>1, <4>2
      <3> QED BY <3>1, <3>2, <3>3 DEF GradeInv, ToldOrTelling
    <2> QED BY <2>1, <2>2
  <1> QED BY <1>7, <1>8, <1>9 DEF GradeInv

LEMMA GradeAbandon ==
  ASSUME GradeInv, NEW q \in Worker, Marks!Abandon(q)
  PROVE  GradeInv'
  <1>1. /\ UNCHANGED <<grade, reachable, told>> /\ Marks!Finish(q)
        /\ missed' = IF gradeReq[q].at = "notify" THEN missed \cup gradeReq[q].todo ELSE missed
    BY DEF Marks!Abandon
  <1>2. /\ gradeReq' \in [Worker -> GradeRequest] /\ gradeReq'[q] = Marks!Idle
        /\ \A r \in Worker \ {q} : gradeReq'[r] = gradeReq[r]
    BY <1>1, GradeMoves, GradeIdle DEF GradeInv, Marks!Finish
  <1>3. missed' \subseteq Student BY <1>1 DEF GradeInv, GradeTypes, GradeRequest
  <1>4. GradeTypes' BY <1>1, <1>2, <1>3 DEF GradeInv, GradeTypes
  <1>5. GradeReads' BY <1>1, <1>2, GradeIdle DEF GradeInv, GradeReads
  <1>6. ToldOrTelling'
    <2> SUFFICES ASSUME NEW s \in Student \ missed', Marks!Approved(s)
                 PROVE  grade[s] \in told[s] \/ \E r \in Worker : Telling(r, s)'
      BY <1>1 DEF ToldOrTelling, Marks!Approved
    <2>1. grade[s] \in told[s] \/ \E r \in Worker : Telling(r, s)
      BY <1>1 DEF GradeInv, ToldOrTelling
    <2>2. ASSUME NEW r \in Worker, Telling(r, s) PROVE Telling(r, s)'
      <3>1. r # q BY <1>1, <2>2 DEF Telling
      <3> QED BY <1>1, <1>2, <2>2, <3>1 DEF Telling
    <2> QED BY <2>1, <2>2
  <1> QED BY <1>4, <1>5, <1>6 DEF GradeInv

LEMMA GradeStep == GradeInv /\ [Marks!Next]_(Marks!vars) => GradeInv'
  <1> SUFFICES ASSUME GradeInv, [Marks!Next]_(Marks!vars) PROVE GradeInv'
    OBVIOUS
  <1>1. CASE UNCHANGED Marks!vars
    <2>1. UNCHANGED <<grade, reachable, gradeReq, told, missed>> BY <1>1 DEF Marks!vars
    <2>2. GradeTypes' /\ GradeReads' BY <2>1 DEF GradeInv, GradeTypes, GradeReads
    <2>3. \A s \in Student, q \in Worker : Telling(q, s)' <=> Telling(q, s)
      BY <2>1 DEF Telling
    <2>4. ToldOrTelling' BY <2>1, <2>3 DEF GradeInv, ToldOrTelling, Marks!Approved
    <2> QED BY <2>2, <2>4 DEF GradeInv
  <1> QED
    BY <1>1, GradeStartInput, GradeFindGrade, GradeWriteGrade, GradeCommitInput, GradeUpdateScore, GradeSetReachable,
       GradeReadSubmitted, GradeApprove, GradeNotify, GradeAbandon
       DEF Marks!Next, Marks!Input, Marks!Approve

LEMMA GradeMeaning == GradeInv => Marks!TypeOK /\ Marks!ApprovedAreTold
  BY GradeTypeCorrect, GradeCorrect

(* Grades: once no approval is in progress students have been told that    *)
(* their grades are approved, with the exceptions that missed names        *)
(* (approveScores, studentUser, notifyUsers).                              *)
THEOREM GradeSafe ==
    Marks!Spec => [](Marks!TypeOK /\ Marks!ApprovedAreTold)
  BY GradeInit, GradeStep, GradeMeaning, PTL DEF Marks!Spec

-----------------------------------------------------------------------------
(* Attendance.  What orders two overlapping recordings is the row lock:    *)
(* the records of a recording in progress are its own up to the student it *)
(* has come to, and nobody else's recording is committed over them.        *)

AttendRequest == [at : {"idle", "create", "find", "write", "commit"}, order : Attend!Orders \cup {<< >>},
                  next : Nat \ {0}, found : BOOLEAN, number : 0..MaxRecording]

AttendTypes ==
    /\ session \in 0..1
    /\ record \in [Student -> 0..MaxRecording]
    /\ covers \in Seq(SUBSET Student)
    /\ Len(covers) <= MaxRecording
    /\ attendReq \in [Worker -> AttendRequest]

(* A recording goes through its students in order, and the records that    *)
(* exist are of recordings that have started.                              *)
InOrder(x) ==
    /\ x.at \in {"find", "write", "commit"} =>
          /\ x.order \in Attend!Orders
          /\ x.number \in 1..Len(covers)
          /\ Attend!Range(x.order) = covers[x.number]
    /\ x.at \in {"find", "write"} => x.next <= Len(x.order)
    /\ x.at = "commit" => x.next = Len(x.order) + 1
    /\ x.next <= Len(x.order) + 1

Recorded == \A s \in Student : record[s] # 0 => record[s] <= Len(covers)

AttendInv ==
    /\ AttendTypes
    /\ \A q \in Worker : InOrder(attendReq[q])
    /\ Recorded
    /\ Attend!RecordingsDoNotMix

LEMMA AttendCounts == \A S : Attend!Cardinality(S) = Cardinality(S)
  BY DEF Attend!Cardinality, Cardinality

(* An order is a sequence of students.                                     *)
LEMMA AttendOrders ==
  \A order \in Attend!Orders : /\ order \in Seq(Student) /\ Len(order) \in Nat \ {0}
                               /\ DOMAIN order = 1..Len(order)
                               /\ Attend!Range(order) \in SUBSET Student
                               /\ Attend!Range(order) = {order[i] : i \in 1..Len(order)}
  <1> TAKE order \in Attend!Orders
  <1>1. PICK S \in SUBSET Student : S # {} /\ order \in Attend!SetToSeqs(S)
    BY DEF Attend!Orders
  <1>2. order \in [1..Cardinality(S) -> S] BY <1>1, AttendCounts DEF Attend!SetToSeqs
  <1>3. IsFiniteSet(S) BY StudentAssumption, FS_Subset
  <1>4. Cardinality(S) \in Nat /\ Cardinality(S) # 0
    BY <1>1, <1>3, FS_CardinalityType, FS_EmptySet
  <1>5. order \in Seq(Student)
    <2>1. order \in [1..Cardinality(S) -> Student] BY <1>2
    <2> QED BY <1>4, <2>1, SeqDef
  <1>6. /\ DOMAIN order = 1..Cardinality(S) /\ DOMAIN order = 1..Len(order) /\ Len(order) \in Nat
        /\ \A i \in 1..Len(order) : order[i] \in Student
    BY <1>2, <1>5, LenProperties, ElementOfSeq
  <1>7. Len(order) # 0 BY <1>4, <1>6
  <1> QED BY <1>5, <1>6, <1>7 DEF Attend!Range

LEMMA AttendNone == Len(<< >>) = 0 /\ Len(<< >>) \in Nat
  BY EmptySeq

LEMMA AttendIdle ==
    /\ Attend!Idle \in AttendRequest /\ Attend!Idle.at = "idle" /\ Attend!Idle.order = << >> /\ Attend!Idle.next = 1
    /\ Attend!Idle.number = 0
  BY MaxRecordingAssumption DEF Attend!Idle, AttendRequest

LEMMA AttendIdleOrder == InOrder(Attend!Idle)
  BY AttendIdle, AttendNone DEF InOrder

LEMMA AttendMoves ==
  ASSUME attendReq \in [Worker -> AttendRequest], NEW q \in Worker, NEW x \in AttendRequest,
         attendReq' = [attendReq EXCEPT ![q] = x]
  PROVE  /\ attendReq' \in [Worker -> AttendRequest] /\ attendReq'[q] = x
         /\ \A r \in Worker \ {q} : attendReq'[r] = attendReq[r]
  OBVIOUS

LEMMA AttendInit == Attend!Init => AttendInv
  <1> SUFFICES ASSUME Attend!Init PROVE AttendInv
    OBVIOUS
  <1>1. /\ session = 0 /\ record = [s \in Student |-> 0] /\ covers = << >>
        /\ attendReq = [q \in Worker |-> Attend!Idle]
    BY DEF Attend!Init
  <1>2. AttendTypes
    BY <1>1, AttendIdle, AttendNone, MaxRecordingAssumption, EmptySeq DEF AttendTypes
  <1>3. \A s \in Student : record[s] = 0 BY <1>1
  <1>4. \A q \in Worker : InOrder(attendReq[q]) BY <1>1, AttendIdleOrder
  <1> QED BY <1>2, <1>3, <1>4 DEF AttendInv, Recorded, Attend!RecordingsDoNotMix

(* A step of one request that commits nothing.                             *)
LEMMA AttendOnly ==
  ASSUME AttendInv, NEW q \in Worker, NEW x \in AttendRequest, InOrder(x),
         UNCHANGED <<record, covers>>, session' \in 0..1, attendReq' = [attendReq EXCEPT ![q] = x]
  PROVE  AttendInv'
  <1>1. /\ attendReq' \in [Worker -> AttendRequest] /\ attendReq'[q] = x
        /\ \A r \in Worker \ {q} : attendReq'[r] = attendReq[r]
    BY AttendMoves DEF AttendInv, AttendTypes
  <1>2. AttendTypes' BY <1>1 DEF AttendInv, AttendTypes
  <1>3. ASSUME NEW r \in Worker PROVE InOrder(attendReq[r])'
    <2>1. CASE r = q BY <1>1, <2>1 DEF InOrder
    <2>2. CASE r # q BY <1>1, <2>2 DEF AttendInv, InOrder
    <2> QED BY <2>1, <2>2
  <1>4. Recorded' /\ Attend!RecordingsDoNotMix'
    BY DEF AttendInv, Recorded, Attend!RecordingsDoNotMix
  <1> QED BY <1>2, <1>3, <1>4 DEF AttendInv

LEMMA AttendFinish ==
  ASSUME AttendInv, NEW q \in Worker, Attend!Finish(q), UNCHANGED <<record, covers>>,
         session' \in 0..1
  PROVE  AttendInv'
  BY AttendIdle, AttendIdleOrder, AttendOnly DEF Attend!Finish

LEMMA AttendSame ==
  ASSUME AttendInv, NEW q \in Worker
  PROVE  session \in 0..1 /\ attendReq[q] \in AttendRequest /\ InOrder(attendReq[q])
  BY DEF AttendInv, AttendTypes

LEMMA AttendCheck ==
  ASSUME AttendInv, NEW q \in Worker, Attend!CheckSession(q)
  PROVE  AttendInv'
  <1> DEFINE x == [attendReq[q] EXCEPT !.at = "create"]
  <1>1. /\ UNCHANGED <<session, record, covers>> /\ attendReq' = [attendReq EXCEPT ![q] = x] /\ attendReq[q] = Attend!Idle
    BY DEF Attend!CheckSession
  <1>2. x \in AttendRequest /\ x.at = "create" /\ x.order = << >> /\ x.next = 1
    BY <1>1, AttendIdle DEF AttendRequest
  <1> HIDE DEF x
  <1>3. InOrder(x) BY <1>2, AttendNone DEF InOrder
  <1> QED BY <1>1, <1>2, <1>3, AttendSame, AttendOnly

LEMMA AttendCreate ==
  ASSUME AttendInv, NEW q \in Worker, Attend!CreateSession(q)
  PROVE  AttendInv'
  BY AttendSame, AttendFinish DEF Attend!CreateSession

LEMMA AttendStart ==
  ASSUME AttendInv, NEW q \in Worker, NEW order \in Attend!Orders, Attend!StartRecording(q, order)
  PROVE  AttendInv'
  <1> DEFINE n == Len(covers) + 1
             x == [Attend!Idle EXCEPT !.at = "find", !.order = order, !.number = n]
  <1>1. /\ covers \in Seq(SUBSET Student) /\ Len(covers) \in Nat /\ Len(covers) < MaxRecording
        /\ covers' = Append(covers, Attend!Range(order)) /\ UNCHANGED <<session, record>>
        /\ attendReq' = [attendReq EXCEPT ![q] = x]
    BY DEF Attend!StartRecording, AttendInv, AttendTypes
  <1>2. /\ x \in AttendRequest /\ x.at = "find" /\ x.order = order /\ x.number = n /\ x.next = 1
    <2>1. n \in 0..MaxRecording BY <1>1, MaxRecordingAssumption
    <2> HIDE DEF n
    <2> QED BY <2>1, AttendIdle DEF AttendRequest
  <1> HIDE DEF x
  <1>3. Attend!Range(order) \in SUBSET Student /\ Len(order) \in Nat \ {0} BY AttendOrders
  <1>4. /\ covers' \in Seq(SUBSET Student) /\ Len(covers') = n
        /\ covers'[n] = Attend!Range(order) /\ \A i \in 1..Len(covers) : covers'[i] = covers[i]
    BY <1>1, <1>3
  <1>5. /\ attendReq' \in [Worker -> AttendRequest] /\ attendReq'[q] = x
        /\ \A r \in Worker \ {q} : attendReq'[r] = attendReq[r]
    BY <1>1, <1>2, AttendMoves DEF AttendInv, AttendTypes
  <1>6. AttendTypes'
    BY <1>1, <1>4, <1>5, MaxRecordingAssumption DEF AttendInv, AttendTypes
  <1>7. ASSUME NEW r \in Worker PROVE InOrder(attendReq[r])'
    <2>1. CASE r = q BY <1>1, <1>2, <1>3, <1>4, <1>5, <2>1 DEF InOrder
    <2>2. CASE r # q
      <3>1. InOrder(attendReq[r]) /\ attendReq'[r] = attendReq[r] BY <1>5, <2>2 DEF AttendInv
      <3>2. \A i \in 1..Len(covers) : i \in 1..Len(covers') BY <1>1, <1>4
      <3> QED BY <1>4, <3>1, <3>2 DEF InOrder
    <2> QED BY <2>1, <2>2
  <1>8. Recorded' BY <1>1, <1>4 DEF AttendInv, Recorded, AttendTypes
  <1>9. Attend!RecordingsDoNotMix'
    <2>1. \A s \in Student : record[s] # 0 => record[s] \in 1..Len(covers)
      BY <1>1 DEF AttendInv, AttendTypes, Recorded
    <2> QED BY <1>1, <1>4, <2>1 DEF AttendInv, Attend!RecordingsDoNotMix
  <1> QED BY <1>6, <1>7, <1>8, <1>9 DEF AttendInv

LEMMA AttendFind ==
  ASSUME AttendInv, NEW q \in Worker, Attend!FindRecord(q)
  PROVE  AttendInv'
  <1> DEFINE x == [attendReq[q] EXCEPT !.at = "write", !.found = record[Attend!Current(q)] # 0]
  <1>1. /\ UNCHANGED <<session, record, covers>> /\ attendReq' = [attendReq EXCEPT ![q] = x]
        /\ attendReq[q].at = "find"
    BY DEF Attend!FindRecord
  <1>2. /\ x \in AttendRequest /\ x.at = "write" /\ x.order = attendReq[q].order
        /\ x.number = attendReq[q].number /\ x.next = attendReq[q].next
    BY AttendSame DEF AttendRequest
  <1> HIDE DEF x
  <1>3. InOrder(x) BY <1>1, <1>2, AttendSame DEF InOrder
  <1> QED BY <1>1, <1>2, <1>3, AttendSame, AttendOnly

LEMMA AttendWrite ==
  ASSUME AttendInv, NEW q \in Worker, Attend!WriteRecord(q)
  PROVE  AttendInv'
  <1> DEFINE x == [attendReq[q] EXCEPT !.next = @ + 1,
                      !.at = IF attendReq[q].next = Len(attendReq[q].order) THEN "commit" ELSE "find"]
  <1>1. /\ UNCHANGED <<session, record, covers>> /\ attendReq[q].at = "write"
        /\ Attend!Finish(q) \/ attendReq' = [attendReq EXCEPT ![q] = x]
    BY DEF Attend!WriteRecord
  <1>2. /\ x \in AttendRequest /\ x.order = attendReq[q].order /\ x.number = attendReq[q].number
        /\ x.next = attendReq[q].next + 1
        /\ x.at = IF attendReq[q].next = Len(attendReq[q].order) THEN "commit" ELSE "find"
    <2>1. attendReq[q] \in AttendRequest /\ attendReq[q].next + 1 \in Nat \ {0}
      BY AttendSame DEF AttendRequest
    <2> DEFINE at == IF attendReq[q].next = Len(attendReq[q].order) THEN "commit" ELSE "find"
               m == attendReq[q].next + 1
    <2>2. at \in {"commit", "find"} OBVIOUS
    <2>3. x = [attendReq[q] EXCEPT !.next = m, !.at = at] OBVIOUS
    <2> HIDE DEF at, m, x
    <2>4. /\ x \in AttendRequest /\ x.order = attendReq[q].order /\ x.number = attendReq[q].number
          /\ x.next = m /\ x.at = at
      BY <2>1, <2>2, <2>3 DEF AttendRequest, m
    <2> QED BY <2>4 DEF at, m
  <1> HIDE DEF x
  <1>3. attendReq[q].order \in Attend!Orders /\ attendReq[q].next \in Nat /\ attendReq[q].next <= Len(attendReq[q].order)
    BY <1>1, AttendSame DEF InOrder, AttendRequest
  <1>4. Len(attendReq[q].order) \in Nat BY <1>3, AttendOrders
  <1>5. InOrder(x)
    <2>1. x.next <= Len(x.order) + 1 BY <1>2, <1>3, <1>4
    <2>2. x.at \in {"find", "write"} => x.next <= Len(x.order) BY <1>2, <1>3, <1>4
    <2>3. x.at = "commit" => x.next = Len(x.order) + 1 BY <1>2, <1>3, <1>4
    <2> QED BY <1>1, <1>2, <2>1, <2>2, <2>3, AttendSame DEF InOrder
  <1> QED BY <1>1, <1>2, <1>5, AttendSame, AttendOnly, AttendFinish

LEMMA AttendCommit ==
  ASSUME AttendInv, NEW q \in Worker, Attend!CommitRecording(q)
  PROVE  AttendInv'
  <1> DEFINE n == attendReq[q].number
  <1>1. /\ record' = [s \in Student |-> IF s \in Attend!Written(q) THEN n ELSE record[s]]
        /\ attendReq' = [attendReq EXCEPT ![q] = Attend!Idle] /\ UNCHANGED <<session, covers>>
        /\ attendReq[q].at = "commit"
    BY DEF Attend!CommitRecording, Attend!Finish
  <1>2. /\ attendReq[q].order \in Attend!Orders /\ n \in 1..Len(covers) /\ Attend!Range(attendReq[q].order) = covers[n]
        /\ attendReq[q].next = Len(attendReq[q].order) + 1 /\ n \in 0..MaxRecording
    BY <1>1, AttendSame DEF InOrder, AttendRequest
  <1>3. Attend!Written(q) = covers[n]
    <2>1. Len(attendReq[q].order) \in Nat
          /\ Attend!Range(attendReq[q].order) = {attendReq[q].order[i] : i \in 1..Len(attendReq[q].order)}
      BY <1>2, AttendOrders
    <2>2. attendReq[q].next - 1 = Len(attendReq[q].order) BY <1>2, <2>1
    <2> QED BY <1>2, <2>1, <2>2 DEF Attend!Written
  <1> HIDE DEF n
  <1>4. /\ attendReq' \in [Worker -> AttendRequest] /\ attendReq'[q] = Attend!Idle
        /\ \A r \in Worker \ {q} : attendReq'[r] = attendReq[r]
    BY <1>1, AttendMoves, AttendIdle DEF AttendInv, AttendTypes
  <1>5. \A s \in Student : record'[s] = IF s \in covers[n] THEN n ELSE record[s]
    BY <1>1, <1>3
  <1>6. record' \in [Student -> 0..MaxRecording]
    <2>1. record' = [s \in Student |-> record'[s]] BY <1>1
    <2>2. \A s \in Student : record'[s] \in 0..MaxRecording
      BY <1>2, <1>5 DEF AttendInv, AttendTypes
    <2> QED BY <2>1, <2>2
  <1>7. AttendTypes' BY <1>1, <1>4, <1>6 DEF AttendInv, AttendTypes
  <1>8. ASSUME NEW r \in Worker PROVE InOrder(attendReq[r])'
    <2>1. CASE r = q BY <1>1, <1>4, <2>1, AttendIdleOrder, AttendIdle, AttendNone DEF InOrder
    <2>2. CASE r # q BY <1>1, <1>4, <2>2 DEF AttendInv, InOrder
    <2> QED BY <2>1, <2>2
  <1>9. Recorded'
    <2>1. Len(covers) \in Nat BY DEF AttendInv, AttendTypes
    <2> QED BY <1>1, <1>2, <1>5, <2>1 DEF AttendInv, Recorded
  <1>10. Attend!RecordingsDoNotMix' BY <1>1, <1>5 DEF AttendInv, Attend!RecordingsDoNotMix
  <1> QED BY <1>7, <1>8, <1>9, <1>10 DEF AttendInv

LEMMA AttendStep == AttendInv /\ [Attend!Next]_(Attend!vars) => AttendInv'
  <1> SUFFICES ASSUME AttendInv, [Attend!Next]_(Attend!vars) PROVE AttendInv'
    OBVIOUS
  <1>1. CASE UNCHANGED Attend!vars
    <2>1. UNCHANGED <<session, record, covers, attendReq>> BY <1>1 DEF Attend!vars
    <2>2. AttendTypes' /\ Recorded' /\ Attend!RecordingsDoNotMix'
      BY <2>1 DEF AttendInv, AttendTypes, Recorded, Attend!RecordingsDoNotMix
    <2>3. \A q \in Worker : InOrder(attendReq[q])' BY <2>1 DEF AttendInv, InOrder
    <2> QED BY <2>2, <2>3 DEF AttendInv
  <1>2. ASSUME NEW q \in Worker, Attend!DeadlockVictim(q) \/ Attend!Abandon(q) PROVE AttendInv'
    BY <1>2, AttendSame, AttendFinish DEF Attend!DeadlockVictim, Attend!Abandon
  <1> QED
    BY <1>1, <1>2, AttendCheck, AttendCreate, AttendStart, AttendFind, AttendWrite, AttendCommit
    DEF Attend!Next

LEMMA AttendMeaning == AttendInv => Attend!TypeOK /\ Attend!RecordingsDoNotMix
  <1>1. AttendInv => Attend!TypeOK
    <2> SUFFICES ASSUME AttendInv PROVE Attend!TypeOK
      OBVIOUS
    <2>1. Len(covers) \in 0..MaxRecording BY DEF AttendInv, AttendTypes
    <2>2. \A n \in DOMAIN covers : covers[n] \subseteq Student
      <3>1. covers \in Seq(SUBSET Student) BY DEF AttendInv, AttendTypes
      <3> QED BY <3>1
    <2>3. ASSUME NEW q \in Worker
          PROVE  /\ attendReq[q].at \in {"idle", "create", "find", "write", "commit"}
                 /\ attendReq[q].order \in Attend!Orders \cup {<< >>}
                 /\ attendReq[q].found \in BOOLEAN /\ attendReq[q].number \in 0..MaxRecording
                 /\ attendReq[q].next \in 1..(Len(attendReq[q].order) + 1)
      <3>1. /\ attendReq[q].at \in {"idle", "create", "find", "write", "commit"}
            /\ attendReq[q].order \in Attend!Orders \cup {<< >>} /\ attendReq[q].next \in Nat \ {0}
            /\ attendReq[q].found \in BOOLEAN /\ attendReq[q].number \in 0..MaxRecording
            /\ attendReq[q].next <= Len(attendReq[q].order) + 1
        BY AttendSame DEF AttendRequest, InOrder
      <3>2. Len(attendReq[q].order) \in Nat BY <3>1, AttendOrders, AttendNone
      <3> QED BY <3>1, <3>2
    <2> QED BY <2>1, <2>2, <2>3 DEF AttendInv, AttendTypes, Attend!TypeOK
  <1>2. AttendInv => Attend!RecordingsDoNotMix BY DEF AttendInv
  <1> QED BY <1>1, <1>2

(* Attendance: recordings of the same students do not mix, for any number  *)
(* of them at once (recordAttendance).                                     *)
THEOREM AttendSafe ==
    Attend!Spec => [](Attend!TypeOK /\ Attend!RecordingsDoNotMix)
  BY AttendInit, AttendStep, AttendMeaning, PTL DEF Attend!Spec

-----------------------------------------------------------------------------
(* Timetable.  A request that creates or updates a lesson in the locked    *)
(* transaction checks the lesson that it writes against all others.        *)

Lesson == [status : {"LIVE", "DELETED"}, ta : Assignment, slot : Slot, room : Room]

LessonRequest == [at : {"idle", "create", "check", "update"}, id : Schedule \cup {None},
                  ta : Assignment \cup {None}, slot : Slot \cup {None}, room : Room \cup {None},
                  snapshot : Lessons!Rows]

LessonTypes ==
    /\ lesson \in Lessons!Rows
    /\ parties \in [Assignment -> SUBSET Party]
    /\ lessonReq \in [Worker -> LessonRequest]
    /\ reassigned \subseteq Assignment

(* Assignments whose lessons may be at the same time.                      *)
Apart(a, b) == parties[a] \cap parties[b] = {} \/ {a, b} \cap reassigned # {}

(* The lesson that x describes does not clash with those of its snapshot,  *)
(* whatever the fields are that it does not name.                          *)
Checked(x) ==
    \A t \in Schedule \ {x.id} : x.snapshot[t].status = "LIVE" =>
       \/ x.slot \notin {None, x.snapshot[t].slot}
       \/ x.room \notin {None, x.snapshot[t].room} /\ Apart(x.ta, x.snapshot[t].ta)

Booking(x) ==
    /\ x.at = "create" =>
          x.id = None /\ x.ta \in Assignment /\ x.slot \in Slot /\ x.room \in Room
    /\ x.at \in {"check", "update"} => x.id \in Schedule /\ lesson[x.id].status # "NONE"
    /\ x.at = "update" => x.ta \in Assignment
    /\ x.at \in {"create", "update"} => Checked(x)

LessonInv == LessonTypes /\ (\A q \in Worker : Booking(lessonReq[q])) /\ Lessons!NoDoubleBooking

LEMMA LessonNone == Lessons!NoRow.status = "NONE" /\ Lessons!NoRow \notin Lesson
  BY DEF Lessons!NoRow, Lesson

LEMMA LessonRows ==
  ASSUME NEW f \in Lessons!Rows, NEW s \in Schedule
  PROVE  /\ f[s] = Lessons!NoRow \/ f[s] \in Lesson
         /\ f[s].status # "NONE" => f[s] \in Lesson
  BY LessonNone DEF Lessons!Rows, Lesson

LEMMA LessonIdle == Lessons!Idle \in LessonRequest /\ Lessons!Idle.at = "idle"
  <1>1. Lessons!NoRows \in Lessons!Rows BY DEF Lessons!NoRows, Lessons!Rows
  <1> QED BY <1>1 DEF Lessons!Idle, LessonRequest

LEMMA LessonMoves ==
  ASSUME lessonReq \in [Worker -> LessonRequest], NEW q \in Worker, NEW x \in LessonRequest,
         lessonReq' = [lessonReq EXCEPT ![q] = x]
  PROVE  /\ lessonReq' \in [Worker -> LessonRequest] /\ lessonReq'[q] = x
         /\ \A r \in Worker \ {q} : lessonReq'[r] = lessonReq[r]
  OBVIOUS

LEMMA LessonSame ==
  ASSUME LessonInv, NEW q \in Worker
  PROVE  lessonReq[q] \in LessonRequest /\ Booking(lessonReq[q])
  BY DEF LessonInv, LessonTypes

LEMMA LessonInit == Lessons!Init => LessonInv
  <1> SUFFICES ASSUME Lessons!Init PROVE LessonInv
    OBVIOUS
  <1>1. /\ lesson = [s \in Schedule |-> Lessons!NoRow] /\ parties \in [Assignment -> {{p} : p \in Party}]
        /\ lessonReq = [q \in Worker |-> Lessons!Idle] /\ reassigned = {}
    BY DEF Lessons!Init
  <1>2. lesson \in Lessons!Rows BY <1>1 DEF Lessons!Rows
  <1>3. parties \in [Assignment -> SUBSET Party]
    <2>1. {{p} : p \in Party} \subseteq SUBSET Party OBVIOUS
    <2> QED BY <1>1, <2>1
  <1>4. LessonTypes BY <1>1, <1>2, <1>3, LessonIdle DEF LessonTypes
  <1>5. \A q \in Worker : Booking(lessonReq[q]) BY <1>1, LessonIdle DEF Booking
  <1>6. Lessons!NoDoubleBooking BY <1>1, LessonNone DEF Lessons!NoDoubleBooking, Lessons!Live
  <1> QED BY <1>4, <1>5, <1>6 DEF LessonInv

(* A step of one request that writes nothing.                              *)
LEMMA LessonOnly ==
  ASSUME LessonInv, NEW q \in Worker, NEW x \in LessonRequest, Booking(x),
         UNCHANGED <<lesson, parties, reassigned>>, lessonReq' = [lessonReq EXCEPT ![q] = x]
  PROVE  LessonInv'
  <1>1. /\ lessonReq' \in [Worker -> LessonRequest] /\ lessonReq'[q] = x
        /\ \A r \in Worker \ {q} : lessonReq'[r] = lessonReq[r]
    BY LessonMoves DEF LessonInv, LessonTypes
  <1>2. LessonTypes' BY <1>1 DEF LessonInv, LessonTypes
  <1>3. ASSUME NEW r \in Worker PROVE Booking(lessonReq[r])'
    <2>1. CASE r = q BY <1>1, <2>1 DEF Booking, Checked, Apart
    <2>2. CASE r # q BY <1>1, <2>2 DEF LessonInv, Booking, Checked, Apart
    <2> QED BY <2>1, <2>2
  <1>4. Lessons!NoDoubleBooking' BY DEF LessonInv, Lessons!NoDoubleBooking, Lessons!Live, Lessons!Clash
  <1> QED BY <1>2, <1>3, <1>4 DEF LessonInv

LEMMA LessonAbandon ==
  ASSUME LessonInv, NEW q \in Worker, Lessons!Finish(q), UNCHANGED <<lesson, parties, reassigned>>
  PROVE  LessonInv'
  <1>1. Booking(Lessons!Idle) BY LessonIdle DEF Booking
  <1> QED BY <1>1, LessonIdle, LessonOnly DEF Lessons!Finish

(* What a check finds no conflict with, of the rows it looks at.           *)
LEMMA LessonCheck ==
  ASSUME LessonInv, NEW x \in LessonRequest, x.snapshot = lesson, Lessons!ConflictsOf(x, x.id) = {}
  PROVE  Checked(x)
  BY DEF Checked, Lessons!ConflictsOf, Lessons!Live, Apart

LEMMA LessonCheckCreate ==
  ASSUME LessonInv, NEW q \in Worker, NEW ta \in Assignment, NEW slot \in Slot,
         NEW room \in Room, Lessons!CheckCreate(q, ta, slot, room)
  PROVE  LessonInv'
  <1> DEFINE x == [at |-> "create", id |-> None, ta |-> ta, slot |-> slot, room |-> room,
                   snapshot |-> lesson]
  <1>1. /\ UNCHANGED <<lesson, parties, reassigned>> /\ lessonReq' = [lessonReq EXCEPT ![q] = x]
        /\ Lessons!ConflictsOf(x, None) = {} /\ lesson \in Lessons!Rows
    BY DEF Lessons!CheckCreate, LessonInv, LessonTypes
  <1>2. /\ x \in LessonRequest /\ x.at = "create" /\ x.id = None /\ x.ta = ta /\ x.slot = slot
        /\ x.room = room /\ x.snapshot = lesson
    BY <1>1 DEF LessonRequest
  <1> HIDE DEF x
  <1>3. Checked(x) BY <1>1, <1>2, LessonCheck
  <1>4. Booking(x) BY <1>2, <1>3 DEF Booking
  <1> QED BY <1>1, <1>2, <1>4, LessonOnly

LEMMA LessonFind ==
  ASSUME LessonInv, NEW q \in Worker, NEW s \in Schedule, Lessons!FindSchedule(q, s)
  PROVE  LessonInv'
  <1> DEFINE x == [Lessons!Idle EXCEPT !.at = "check", !.id = s]
  <1>1. /\ UNCHANGED <<lesson, parties, reassigned>> /\ lessonReq' = [lessonReq EXCEPT ![q] = x]
        /\ lesson[s].status = "LIVE"
    BY DEF Lessons!FindSchedule, Lessons!Live
  <1>2. x \in LessonRequest /\ x.at = "check" /\ x.id = s
    BY LessonIdle DEF LessonRequest
  <1> HIDE DEF x
  <1>3. Booking(x) BY <1>1, <1>2 DEF Booking
  <1> QED BY <1>1, <1>2, <1>3, LessonOnly

LEMMA LessonCheckUpdate ==
  ASSUME LessonInv, NEW q \in Worker, NEW ta \in Assignment, NEW slot \in Slot \cup {None},
         NEW room \in Room \cup {None}, Lessons!CheckUpdate(q, ta, slot, room)
  PROVE  LessonInv'
  <1> DEFINE x == [at |-> "update", id |-> lessonReq[q].id, ta |-> ta, slot |-> slot, room |-> room,
                   snapshot |-> lesson]
  <1>1. /\ UNCHANGED <<lesson, parties, reassigned>> /\ lessonReq' = [lessonReq EXCEPT ![q] = x]
        /\ Lessons!ConflictsOf(x, x.id) = {} /\ lesson \in Lessons!Rows /\ lessonReq[q].at = "check"
    BY DEF Lessons!CheckUpdate, LessonInv, LessonTypes
  <1>2. lessonReq[q].id \in Schedule /\ lesson[lessonReq[q].id].status # "NONE"
    BY <1>1, LessonSame DEF Booking
  <1>3. /\ x \in LessonRequest /\ x.at = "update" /\ x.id = lessonReq[q].id /\ x.ta = ta
        /\ x.snapshot = lesson
    BY <1>1, <1>2 DEF LessonRequest
  <1> HIDE DEF x
  <1>4. Checked(x) BY <1>1, <1>3, LessonCheck
  <1>5. Booking(x) BY <1>2, <1>3, <1>4 DEF Booking
  <1> QED BY <1>1, <1>3, <1>5, LessonOnly

(* One row is written or created, and clashes with no other that is live.  *)
LEMMA LessonWrite ==
  ASSUME LessonInv, NEW q \in Worker, NEW s \in Schedule, NEW new \in Lesson,
         lesson' = [lesson EXCEPT ![s] = new], Lessons!Finish(q), UNCHANGED <<parties, reassigned>>,
         new.status = "LIVE" => \A t \in Lessons!Live \ {s} : ~Lessons!Clash(new, lesson[t])
  PROVE  LessonInv'
  <1>1. /\ lesson \in Lessons!Rows /\ lesson' \in Lessons!Rows /\ lesson'[s] = new
        /\ \A t \in Schedule \ {s} : lesson'[t] = lesson[t]
    BY DEF LessonInv, LessonTypes, Lessons!Rows, Lesson
  <1>2. /\ lessonReq' \in [Worker -> LessonRequest] /\ lessonReq'[q] = Lessons!Idle
        /\ \A r \in Worker \ {q} : lessonReq'[r] = lessonReq[r]
    BY LessonMoves, LessonIdle DEF LessonInv, LessonTypes, Lessons!Finish
  <1>3. LessonTypes' BY <1>1, <1>2 DEF LessonInv, LessonTypes
  <1>4. new.status # "NONE" BY DEF Lesson
  <1>5. ASSUME NEW r \in Worker PROVE Booking(lessonReq[r])'
    <2>1. CASE r = q BY <1>2, <2>1, LessonIdle DEF Booking
    <2>2. CASE r # q
      <3>1. lessonReq'[r] = lessonReq[r] /\ Booking(lessonReq[r]) BY <1>2, <2>2 DEF LessonInv
      <3>2. Checked(lessonReq[r])' <=> Checked(lessonReq[r]) BY <3>1 DEF Checked, Apart
      <3>3. \A t \in Schedule : lesson[t].status # "NONE" => lesson'[t].status # "NONE"
        BY <1>1, <1>4
      <3> QED BY <3>1, <3>2, <3>3 DEF Booking
    <2> QED BY <2>1, <2>2
  <1>6. ASSUME NEW a \in Schedule, NEW b \in Schedule, a # b, lesson'[a].status = "LIVE",
               lesson'[b].status = "LIVE"
        PROVE  ~Lessons!Clash(lesson'[a], lesson'[b])
    <2>1. \A t \in Schedule \ {s} : lesson'[t].status = "LIVE" => t \in Lessons!Live /\ lesson'[t] = lesson[t]
      BY <1>1 DEF Lessons!Live
    <2>2. CASE a # s /\ b # s
      BY <1>6, <2>1, <2>2 DEF LessonInv, Lessons!NoDoubleBooking
    <2>3. CASE a = s
      BY <1>1, <1>6, <2>1, <2>3
    <2>4. CASE b = s
      <3>1. ~Lessons!Clash(new, lesson[a]) BY <1>1, <1>6, <2>1, <2>4
      <3>2. lesson'[a] = lesson[a] /\ lesson'[b] = new BY <1>1, <1>6, <2>4
      <3>3. parties[new.ta] \cap parties[lesson[a].ta] = parties[lesson[a].ta] \cap parties[new.ta]
            /\ {new.ta, lesson[a].ta} = {lesson[a].ta, new.ta}
        OBVIOUS
      <3>4. ~Lessons!Clash(lesson[a], new) BY <3>1, <3>3 DEF Lessons!Clash
      <3> QED BY <3>2, <3>4
    <2> QED BY <2>2, <2>3, <2>4
  <1>7. Lessons!NoDoubleBooking' BY <1>6 DEF Lessons!NoDoubleBooking, Lessons!Live, Lessons!Clash
  <1> QED BY <1>3, <1>5, <1>7 DEF LessonInv

(* A lesson that was checked clashes with none that is live: neither with  *)
(* those of the snapshot nor, unless PostgreSQL notices, with later ones.  *)
LEMMA LessonNew ==
  ASSUME LessonInv, NEW q \in Worker, NEW new \in Lesson, lessonReq[q].at \in {"create", "update"},
         ~Lessons!SerializationFailure(q, new), new.ta = lessonReq[q].ta,
         lessonReq[q].slot \in {None, new.slot}, lessonReq[q].room \in {None, new.room}
  PROVE  \A t \in Lessons!Live \ {lessonReq[q].id} : ~Lessons!Clash(new, lesson[t])
  <1> SUFFICES ASSUME NEW t \in Lessons!Live \ {lessonReq[q].id} PROVE ~Lessons!Clash(new, lesson[t])
    OBVIOUS
  <1>1. CASE lesson[t] # lessonReq[q].snapshot[t]
    BY <1>1 DEF Lessons!SerializationFailure
  <1>2. CASE lesson[t] = lessonReq[q].snapshot[t]
    <2>1. Checked(lessonReq[q]) BY LessonSame DEF Booking
    <2>2. t \in Schedule \ {lessonReq[q].id} /\ lesson[t].status = "LIVE" BY DEF Lessons!Live
    <2>3. \/ lessonReq[q].slot \notin {None, lesson[t].slot}
          \/ lessonReq[q].room \notin {None, lesson[t].room} /\ Apart(new.ta, lesson[t].ta)
      BY <1>2, <2>1, <2>2 DEF Checked
    <2> QED BY <2>3 DEF Lessons!Clash, Apart
  <1> QED BY <1>1, <1>2

LEMMA LessonCommitCreate ==
  ASSUME LessonInv, NEW q \in Worker, NEW s \in Schedule, Lessons!CommitCreate(q, s)
  PROVE  LessonInv'
  <1> DEFINE new == [status |-> "LIVE", ta |-> lessonReq[q].ta, slot |-> lessonReq[q].slot,
                     room |-> lessonReq[q].room]
  <1>1. /\ lessonReq[q].at = "create" /\ Lessons!Finish(q) /\ UNCHANGED <<parties, reassigned>>
        /\ lesson' = IF ~Lessons!SerializationFailure(q, new) /\ Lessons!Unique(new, None)
                     THEN [lesson EXCEPT ![s] = new] ELSE lesson
    BY DEF Lessons!CommitCreate
  <1>2. lessonReq[q].id = None /\ lessonReq[q].ta \in Assignment /\ lessonReq[q].slot \in Slot
        /\ lessonReq[q].room \in Room
    BY <1>1, LessonSame DEF Booking
  <1>3. /\ new \in Lesson /\ new.ta = lessonReq[q].ta /\ new.slot = lessonReq[q].slot
        /\ new.room = lessonReq[q].room
    BY <1>2 DEF Lesson
  <1> HIDE DEF new
  <1>4. CASE lesson' = lesson BY <1>1, <1>4, LessonAbandon
  <1>5. CASE ~Lessons!SerializationFailure(q, new) /\ lesson' = [lesson EXCEPT ![s] = new]
    <2>1. \A t \in Lessons!Live \ {lessonReq[q].id} : ~Lessons!Clash(new, lesson[t])
      BY <1>1, <1>3, <1>5, LessonNew
    <2>2. \A t \in Lessons!Live \ {s} : ~Lessons!Clash(new, lesson[t])
      BY <1>2, <2>1, ScheduleAssumption DEF Lessons!Live
    <2> QED BY <1>1, <1>3, <1>5, <2>2, LessonWrite
  <1> QED BY <1>1, <1>4, <1>5

LEMMA LessonCommitUpdate ==
  ASSUME LessonInv, NEW q \in Worker, Lessons!CommitUpdate(q)
  PROVE  LessonInv'
  <1>0. lessonReq[q].at = "update" /\ lessonReq[q].id \in Schedule /\ lesson[lessonReq[q].id].status # "NONE"
        /\ lessonReq[q].ta \in Assignment /\ lessonReq[q] \in LessonRequest
    BY LessonSame DEF Lessons!CommitUpdate, Booking
  <1>1. PICK s \in Schedule : s = lessonReq[q].id BY <1>0
  <1> DEFINE slot == IF lessonReq[q].slot = None THEN lesson[s].slot ELSE lessonReq[q].slot
             room == IF lessonReq[q].room = None THEN lesson[s].room ELSE lessonReq[q].room
             new == [lesson[s] EXCEPT !.ta = lessonReq[q].ta, !.slot = slot, !.room = room]
  <1>2. lesson[s] \in Lesson BY <1>0, <1>1, LessonRows DEF LessonInv, LessonTypes
  <1>3. slot \in Slot /\ room \in Room
    BY <1>0, <1>2 DEF LessonRequest, Lesson
  <1>4. /\ Lessons!Finish(q) /\ UNCHANGED <<parties, reassigned>>
        /\ lesson' = IF lesson[s] = lessonReq[q].snapshot[s] /\ ~Lessons!SerializationFailure(q, new)
                          /\ Lessons!Unique(new, s)
                     THEN [lesson EXCEPT ![s] = new] ELSE lesson
    BY <1>1 DEF Lessons!CommitUpdate
  <1>5. lessonReq[q].slot \in {None, slot} /\ lessonReq[q].room \in {None, room} OBVIOUS
  <1> HIDE DEF slot, room
  <1>6. /\ new \in Lesson /\ new.ta = lessonReq[q].ta /\ new.slot = slot /\ new.room = room
    BY <1>0, <1>2, <1>3 DEF Lesson
  <1> HIDE DEF new
  <1>7. CASE lesson' = lesson BY <1>4, <1>7, LessonAbandon
  <1>8. CASE ~Lessons!SerializationFailure(q, new) /\ lesson' = [lesson EXCEPT ![s] = new]
    <2>1. \A t \in Lessons!Live \ {s} : ~Lessons!Clash(new, lesson[t])
      BY <1>0, <1>1, <1>5, <1>6, <1>8, LessonNew
    <2> QED BY <1>4, <1>6, <1>8, <2>1, LessonWrite
  <1> QED BY <1>4, <1>7, <1>8

LEMMA LessonDelete ==
  ASSUME LessonInv, NEW s \in Schedule, Lessons!DeleteSchedule(s)
  PROVE  LessonInv'
  <1> DEFINE new == [lesson[s] EXCEPT !.status = "DELETED"]
  <1>1. /\ lesson' = [lesson EXCEPT ![s] = new] /\ UNCHANGED <<parties, lessonReq, reassigned>>
        /\ lesson[s].status = "LIVE" /\ lesson \in Lessons!Rows
    BY DEF Lessons!DeleteSchedule, Lessons!Live, LessonInv, LessonTypes
  <1>2. lesson[s] \in Lesson BY <1>1, LessonRows
  <1>3. new \in Lesson /\ new.status = "DELETED" BY <1>2 DEF Lesson
  <1> HIDE DEF new
  <1>4. /\ lesson' \in Lessons!Rows /\ lesson'[s] = new /\ \A t \in Schedule \ {s} : lesson'[t] = lesson[t]
    BY <1>1, <1>3 DEF Lessons!Rows, Lesson
  <1>5. LessonTypes' BY <1>1, <1>4 DEF LessonInv, LessonTypes
  <1>6. \A r \in Worker : Booking(lessonReq[r])'
    <2>1. \A t \in Schedule : lesson[t].status # "NONE" => lesson'[t].status # "NONE"
      BY <1>3, <1>4
    <2> QED BY <1>1, <2>1 DEF LessonInv, Booking, Checked, Apart
  <1>7. \A t \in Lessons!Live' : t \in Lessons!Live /\ lesson'[t] = lesson[t] BY <1>3, <1>4 DEF Lessons!Live
  <1>8. Lessons!NoDoubleBooking' BY <1>1, <1>7 DEF LessonInv, Lessons!NoDoubleBooking, Lessons!Clash
  <1> QED BY <1>5, <1>6, <1>8 DEF LessonInv

LEMMA LessonAssignment ==
  ASSUME LessonInv, NEW a \in Assignment, NEW p \in Party, Lessons!UpdateAssignment(a, {p})
  PROVE  LessonInv'
  <1>1. /\ parties' = [parties EXCEPT ![a] = {p}] /\ UNCHANGED <<lesson, lessonReq>>
        /\ reassigned' = IF \/ \E s \in Lessons!Live : lesson[s].ta = a
                            \/ \E q \in Worker : lessonReq[q].at \in {"create", "update"}
                         THEN reassigned \cup {a} ELSE reassigned
    BY DEF Lessons!UpdateAssignment
  <1>2. /\ parties' \in [Assignment -> SUBSET Party] /\ reassigned' \subseteq Assignment
        /\ \A b \in Assignment \ {a} : parties'[b] = parties[b]
        /\ reassigned \subseteq reassigned'
    BY <1>1 DEF LessonInv, LessonTypes
  <1>3. LessonTypes' BY <1>1, <1>2 DEF LessonInv, LessonTypes
  <1>4. ASSUME NEW q \in Worker PROVE Booking(lessonReq[q])'
    <2>1. Booking(lessonReq[q]) /\ lessonReq[q] \in LessonRequest BY LessonSame
    <2>2. ASSUME lessonReq[q].at \in {"create", "update"} PROVE Checked(lessonReq[q])'
      <3>1. a \in reassigned' BY <1>1, <2>2
      <3>2. lessonReq[q].ta \in Assignment /\ Checked(lessonReq[q]) BY <2>1, <2>2 DEF Booking
      <3>3. ASSUME NEW t \in Schedule, lessonReq[q].snapshot[t].status = "LIVE"
            PROVE  lessonReq[q].snapshot[t].ta \in Assignment
        <4>1. lessonReq[q].snapshot \in Lessons!Rows BY <2>1 DEF LessonRequest
        <4>2. lessonReq[q].snapshot[t] \in Lesson BY <3>3, <4>1, LessonRows
        <4> QED BY <4>2 DEF Lesson
      <3>4. \A b, c \in Assignment : Apart(b, c) => Apart(b, c)'
        BY <1>2, <3>1 DEF Apart
      <3> QED BY <1>1, <3>2, <3>3, <3>4 DEF Checked
    <2> QED BY <1>1, <2>1, <2>2 DEF Booking
  <1>5. Lessons!NoDoubleBooking'
    <2> SUFFICES ASSUME NEW s \in Lessons!Live, NEW t \in Lessons!Live, s # t, Lessons!Clash(lesson[s], lesson[t])'
                 PROVE  Lessons!Clash(lesson[s], lesson[t])
      BY <1>1 DEF LessonInv, Lessons!NoDoubleBooking, Lessons!Live
    <2>1. lesson[s] \in Lesson /\ lesson[t] \in Lesson
      BY LessonRows DEF Lessons!Live, LessonInv, LessonTypes
    <2>2. lesson[s].ta \in Assignment /\ lesson[t].ta \in Assignment BY <2>1 DEF Lesson
    <2>3. CASE lesson[s].ta = a \/ lesson[t].ta = a
      <3>1. a \in reassigned' BY <1>1, <2>3
      <3> QED BY <1>1, <2>3, <3>1 DEF Lessons!Clash
    <2>4. CASE lesson[s].ta # a /\ lesson[t].ta # a
      <3>1. parties'[lesson[s].ta] = parties[lesson[s].ta] /\ parties'[lesson[t].ta] = parties[lesson[t].ta]
        BY <1>2, <2>2, <2>4
      <3> QED BY <1>1, <1>2, <3>1 DEF Lessons!Clash
    <2> QED BY <2>3, <2>4
  <1> QED BY <1>3, <1>4, <1>5 DEF LessonInv

LEMMA LessonStep == LessonInv /\ [Lessons!Next]_(Lessons!vars) => LessonInv'
  <1> SUFFICES ASSUME LessonInv, [Lessons!Next]_(Lessons!vars) PROVE LessonInv'
    OBVIOUS
  <1>1. CASE UNCHANGED Lessons!vars
    <2>1. UNCHANGED <<lesson, parties, lessonReq, reassigned>> BY <1>1 DEF Lessons!vars
    <2>2. LessonTypes' BY <2>1 DEF LessonInv, LessonTypes
    <2>3. \A q \in Worker : Booking(lessonReq[q])' BY <2>1 DEF LessonInv, Booking, Checked, Apart
    <2>4. Lessons!NoDoubleBooking' BY <2>1 DEF LessonInv, Lessons!NoDoubleBooking, Lessons!Live, Lessons!Clash
    <2> QED BY <2>2, <2>3, <2>4 DEF LessonInv
  <1>2. ASSUME NEW q \in Worker, Lessons!Lessons(q) PROVE LessonInv'
    BY <1>2, LessonCheckCreate, LessonFind, LessonCommitCreate, LessonCheckUpdate,
       LessonCommitUpdate, LessonAbandon DEF Lessons!Lessons, Lessons!Abandon
  <1> QED BY <1>1, <1>2, LessonDelete, LessonAssignment DEF Lessons!Next

LEMMA LessonMeaning == LessonInv => Lessons!TypeOK /\ Lessons!NoDoubleBooking
  <1>1. LessonInv => Lessons!TypeOK
    <2> SUFFICES ASSUME LessonInv, NEW q \in Worker
                 PROVE  /\ lessonReq[q].at \in {"idle", "create", "check", "update"}
                        /\ lessonReq[q].id \in Schedule \cup {None}
                        /\ lessonReq[q].ta \in Assignment \cup {None}
                        /\ lessonReq[q].slot \in Slot \cup {None}
                        /\ lessonReq[q].room \in Room \cup {None}
                        /\ lessonReq[q].snapshot \in Lessons!Rows
      BY DEF LessonInv, LessonTypes, Lessons!TypeOK
    <2> QED BY LessonSame DEF LessonRequest
  <1>2. LessonInv => Lessons!NoDoubleBooking BY DEF LessonInv
  <1> QED BY <1>1, <1>2

(* Timetable: no room, teacher or classroom has two lessons in a slot, for *)
(* any number of lessons and of requests (validateConflicts).              *)
THEOREM LessonSafe ==
    Lessons!Spec => [](Lessons!TypeOK /\ Lessons!NoDoubleBooking)
  BY LessonInit, LessonStep, LessonMeaning, PTL DEF Lessons!Spec

-----------------------------------------------------------------------------
(* Internships.  A completion that was not overtaken holds the score that  *)
(* is current.                                                             *)

InternRequests == [Worker -> [op : {"idle", "write", "complete", "score", "delete"},
                              value : Score \cup {None} \cup Intern!Statuses, overtaken : BOOLEAN]]

ScoresAreRead ==
    \A q \in Worker :
        /\ internReq[q].op = "score" => internReq[q].value \in Score
        /\ internReq[q].op = "complete" /\ ~internReq[q].overtaken => internReq[q].value = score

NothingBeforeScore ==
    score = None => ~stale /\ \A q \in Worker : ~internReq[q].overtaken

InternInv ==
    /\ Intern!TypeOK
    /\ internReq \in InternRequests
    /\ Intern!FinalScoreIsTheScore
    /\ ScoresAreRead
    /\ NothingBeforeScore

LEMMA InternIdle == /\ Intern!Idle.op = "idle" /\ Intern!Idle.value = None /\ Intern!Idle.overtaken = FALSE
                    /\ Intern!Idle \in [op : {"idle", "write", "complete", "score", "delete"},
                                        value : Score \cup {None} \cup Intern!Statuses, overtaken : BOOLEAN]
  BY DEF Intern!Idle

LEMMA InternInit == Intern!Init => InternInv
  <1> SUFFICES ASSUME Intern!Init PROVE InternInv
    OBVIOUS
  <1>1. /\ \A q \in Worker : internReq[q] = Intern!Idle
        /\ internReq \in InternRequests
        /\ stale = FALSE /\ score = None
        /\ internship \in [status : Intern!Statuses, final : {None}, deleted : {FALSE}]
    BY InternIdle DEF Intern!Init, InternRequests
  <1>2. internship.final = None /\ internship \in [status : Intern!Statuses, final : Score \cup {None}, deleted : BOOLEAN]
    BY <1>1
  <1> QED
    BY <1>1, <1>2, InternIdle DEF InternInv, ScoresAreRead, NothingBeforeScore, Intern!TypeOK,
                                  Intern!FinalScoreIsTheScore

LEMMA InternBegin ==
  ASSUME InternInv, NEW q \in Worker, NEW op \in {"write", "complete", "score", "delete"},
         NEW value \in Score \cup {None} \cup Intern!Statuses,
         Intern!Begin(q, op, value),
         op = "write" => value \in Intern!Statuses,
         op = "score" => value \in Score,
         op = "complete" => value = score
  PROVE  InternInv'
  <1> DEFINE new == [Intern!Idle EXCEPT !.op = op, !.value = value]
  <1>1. /\ internReq' = [internReq EXCEPT ![q] = new]
        /\ UNCHANGED <<internship, score, stale>>
    BY DEF Intern!Begin
  <1>2. /\ new.op = op /\ new.value = value /\ new.overtaken = FALSE
        /\ new \in [op : {"idle", "write", "complete", "score", "delete"},
                    value : Score \cup {None} \cup Intern!Statuses, overtaken : BOOLEAN]
    BY InternIdle
  <1> HIDE DEF new
  <1>3. /\ internReq' \in InternRequests
        /\ \A r \in Worker : internReq'[r] = IF r = q THEN new ELSE internReq[r]
    BY <1>1, <1>2 DEF InternInv, InternRequests
  <1>4. ScoresAreRead' /\ NothingBeforeScore'
    BY <1>1, <1>2, <1>3 DEF InternInv, ScoresAreRead, NothingBeforeScore
  <1>5. score \in Score \cup {None}
    BY DEF InternInv, Intern!TypeOK
  <1>6. \A r \in Worker :
         /\ internReq'[r].op \in {"idle", "write", "complete", "score", "delete"}
         /\ internReq'[r].op \in {"complete", "score"} => internReq'[r].value \in Score \cup {None}
         /\ internReq'[r].op = "write" => internReq'[r].value \in Intern!Statuses
    BY <1>2, <1>3, <1>5 DEF InternInv, Intern!TypeOK
  <1>7. Intern!TypeOK'
    BY <1>1, <1>6 DEF InternInv, Intern!TypeOK, Intern!Statuses
  <1>8. Intern!FinalScoreIsTheScore'
    BY <1>1 DEF InternInv, Intern!FinalScoreIsTheScore
  <1> QED
    BY <1>3, <1>4, <1>7, <1>8 DEF InternInv

LEMMA InternFinish ==
  ASSUME InternInv, NEW q \in Worker, internReq' = [internReq EXCEPT ![q] = Intern!Idle]
  PROVE  /\ internReq' \in InternRequests
         /\ \A r \in Worker : internReq'[r] = IF r = q THEN Intern!Idle ELSE internReq[r]
         /\ \A r \in Worker :
             /\ internReq'[r].op \in {"idle", "write", "complete", "score", "delete"}
             /\ internReq'[r].op \in {"complete", "score"} => internReq'[r].value \in Score \cup {None}
             /\ internReq'[r].op = "write" => internReq'[r].value \in Intern!Statuses
  <1>1. /\ internReq' \in InternRequests
        /\ \A r \in Worker : internReq'[r] = IF r = q THEN Intern!Idle ELSE internReq[r]
    BY InternIdle DEF InternInv, InternRequests
  <1> QED BY <1>1, InternIdle DEF InternInv, Intern!TypeOK

LEMMA InternStep == InternInv /\ [Intern!Next]_(Intern!vars) => InternInv'
  <1> SUFFICES ASSUME InternInv, [Intern!Next]_(Intern!vars) PROVE InternInv'
    OBVIOUS
  <1>0. /\ Intern!TypeOK /\ internReq \in InternRequests
        /\ score \in Score \cup {None}
        /\ internship.final \in Score \cup {None}
        /\ ~stale => internship.final = score
        /\ ScoresAreRead /\ NothingBeforeScore
    BY DEF InternInv, Intern!TypeOK, Intern!FinalScoreIsTheScore
  <1>1. ASSUME NEW q \in Worker, NEW status \in Intern!Statuses, Intern!ReadForUpdate(q, status)
        PROVE  InternInv'
    BY <1>1, InternBegin DEF Intern!ReadForUpdate
  <1>2. ASSUME NEW q \in Worker, Intern!StartInternship(q) \/ Intern!CancelInternship(q)
        PROVE  InternInv'
    BY <1>2, InternBegin DEF Intern!StartInternship, Intern!CancelInternship, Intern!Statuses
  <1>3. ASSUME NEW q \in Worker, Intern!ReadForComplete(q)
        PROVE  InternInv'
    <2>1. (IF score # None THEN score ELSE internship.final) = score
      BY <1>0 DEF NothingBeforeScore
    <2> QED
      BY <1>0, <1>3, <2>1, InternBegin DEF Intern!ReadForComplete
  <1>4. ASSUME NEW q \in Worker, Intern!ReadForDelete(q)
        PROVE  InternInv'
    BY <1>4, InternBegin DEF Intern!ReadForDelete
  <1>5. ASSUME NEW q \in Worker, NEW n \in Score, Intern!ReadForScore(q, n)
        PROVE  InternInv'
    BY <1>5, InternBegin DEF Intern!ReadForScore
  <1>6. ASSUME NEW q \in Worker, Intern!WriteStatus(q) \/ Intern!DeleteInternship(q) \/ Intern!Abandon(q)
        PROVE  InternInv'
    <2>1. internReq' = [internReq EXCEPT ![q] = Intern!Idle] /\ UNCHANGED <<score, stale>>
      BY <1>6 DEF Intern!WriteStatus, Intern!DeleteInternship, Intern!Abandon, Intern!Finish
    <2>2. /\ internship' \in [status : Intern!Statuses, final : Score \cup {None}, deleted : BOOLEAN]
          /\ internship'.final = internship.final
      BY <1>6, <1>0 DEF Intern!WriteStatus, Intern!DeleteInternship, Intern!Abandon, Intern!TypeOK
    <2>3. Intern!TypeOK'
      BY <1>0, <2>1, <2>2, InternFinish DEF Intern!TypeOK
    <2>4. /\ internReq' \in InternRequests
          /\ \A r \in Worker : internReq'[r] = IF r = q THEN Intern!Idle ELSE internReq[r]
      BY <2>1, InternFinish
    <2>5. ScoresAreRead' /\ NothingBeforeScore'
      BY <1>0, <2>1, <2>4, InternIdle DEF ScoresAreRead, NothingBeforeScore
    <2>6. Intern!FinalScoreIsTheScore'
      BY <1>0, <2>1, <2>2 DEF Intern!FinalScoreIsTheScore, ScoresAreRead
    <2> QED
      BY <2>3, <2>4, <2>5, <2>6 DEF InternInv
  <1>7. ASSUME NEW q \in Worker, Intern!CompleteInternship(q)
        PROVE  InternInv'
    <2>1. /\ internReq' = [internReq EXCEPT ![q] = Intern!Idle] /\ score' = score
          /\ stale' = internReq[q].overtaken /\ internReq[q].op = "complete"
          /\ internReq[q].value \in Score \cup {None}
          /\ stale' \in BOOLEAN
      BY <1>7, <1>0 DEF Intern!CompleteInternship, Intern!Finish, Intern!TypeOK, InternRequests
    <2>2. /\ internship' \in [status : Intern!Statuses, final : Score \cup {None}, deleted : BOOLEAN]
          /\ internship'.final = internReq[q].value
      BY <1>7, <1>0, <2>1 DEF Intern!CompleteInternship, Intern!TypeOK, Intern!Statuses
    <2>3. Intern!TypeOK'
      BY <1>0, <2>1, <2>2, InternFinish DEF Intern!TypeOK
    <2>4. /\ internReq' \in InternRequests
          /\ \A r \in Worker : internReq'[r] = IF r = q THEN Intern!Idle ELSE internReq[r]
      BY <2>1, InternFinish
    <2>5. ScoresAreRead' /\ NothingBeforeScore'
      BY <1>0, <2>1, <2>4, InternIdle DEF ScoresAreRead, NothingBeforeScore
    <2>6. Intern!FinalScoreIsTheScore'
      BY <1>0, <2>1, <2>2 DEF Intern!FinalScoreIsTheScore, ScoresAreRead
    <2> QED
      BY <2>3, <2>4, <2>5, <2>6 DEF InternInv
  <1>8. ASSUME NEW q \in Worker, Intern!GiveScore(q)
        PROVE  InternInv'
    <2>1. /\ internReq[q].op = "score" /\ internReq[q].value \in Score /\ score' = internReq[q].value
          /\ stale' = FALSE
          /\ internReq' = [r \in Worker |-> IF r = q THEN Intern!Idle ELSE
                                       [internReq[r] EXCEPT !.overtaken = internReq[r].op # "idle"]]
      BY <1>8, <1>0 DEF Intern!GiveScore, ScoresAreRead
    <2>2. /\ internship' \in [status : Intern!Statuses, final : Score \cup {None}, deleted : BOOLEAN]
          /\ internship'.final = score'
      BY <1>8, <1>0, <2>1 DEF Intern!GiveScore, Intern!TypeOK, Intern!Statuses
    <2>3. \A r \in Worker : [internReq[r] EXCEPT !.overtaken = internReq[r].op # "idle"] \in
                [op : {"idle", "write", "complete", "score", "delete"},
                 value : Score \cup {None} \cup Intern!Statuses, overtaken : BOOLEAN]
      BY <1>0 DEF InternRequests
    <2>4. internReq' \in InternRequests
      BY <2>1, <2>3, InternIdle DEF InternRequests
    <2>5. \A r \in Worker : IF r = q THEN internReq'[r] = Intern!Idle
                            ELSE /\ internReq'[r].op = internReq[r].op /\ internReq'[r].value = internReq[r].value
                                 /\ internReq'[r].overtaken = (internReq[r].op # "idle")
      BY <2>1, <1>0 DEF InternRequests
    <2>6. Intern!TypeOK'
      BY <1>0, <2>1, <2>2, <2>5, InternIdle DEF Intern!TypeOK
    <2>7. ScoresAreRead' /\ NothingBeforeScore'
      BY <1>0, <2>1, <2>5, ScoreAssumption, InternIdle DEF ScoresAreRead, NothingBeforeScore
    <2> QED
      BY <2>1, <2>2, <2>4, <2>6, <2>7 DEF InternInv, Intern!FinalScoreIsTheScore
  <1>9. CASE UNCHANGED Intern!vars
    BY <1>9 DEF Intern!vars, InternInv, Intern!TypeOK, Intern!FinalScoreIsTheScore, ScoresAreRead,
                NothingBeforeScore
  <1> QED
    BY <1>1, <1>2, <1>3, <1>4, <1>5, <1>6, <1>7, <1>8, <1>9 DEF Intern!Next

LEMMA InternMeaning == InternInv => Intern!TypeOK /\ Intern!FinalScoreIsTheScore
  BY DEF InternInv

(* Internships: the two copies of the final score agree unless a           *)
(* completion was overtaken (complete, score).                             *)
THEOREM InternSafe ==
    Intern!Spec => [](Intern!TypeOK /\ Intern!FinalScoreIsTheScore)
  BY InternInit, InternStep, InternMeaning, PTL DEF Intern!Spec

=============================================================================
