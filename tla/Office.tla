------------------------------- MODULE Office -------------------------------
(***************************************************************************)
(* Small components side by side.  They share no rows: in a behaviour the  *)
(* requests of one of them act (part), and the others have none, so that   *)
(* TLC explores the sum of their states and not the product.               *)
(***************************************************************************)
EXTENDS RefreshClient

CONSTANTS
    Worker,                     \* the requests of every component but RefreshClient
    Term,                       \* ActiveTerm
    Employee,                   \* Payroll
    Loan, Quantities, Opening, MaxStock,    \* InventoryStock
    Student,                    \* Grades, Exams, Attendance, PortalAccounts
    Schedule, Assignment, Party, Slot, Room,    \* Timetable
    Question,                   \* Exams
    Score,                      \* Internships
    MaxDay,                     \* LeaveRequests
    MaxRecording,               \* Attendance
    User, Role, Permission,     \* RoleAssignments
    Reader, MaxInbox, MaxAltered,   \* Announcements
    Email                       \* PortalAccounts

(* The sets of requests and of rows that are counted are finite, the bounds*)
(* and quantities are numbers, and None is none of the rows that a column  *)
(* may point to; a student is no e-mail.                                   *)
ASSUME WorkerAssumption == IsFiniteSet(Worker) /\ Worker # {}
ASSUME LoanAssumption == IsFiniteSet(Loan) /\ None \notin Loan
ASSUME QuantityAssumption ==
    Quantities \subseteq Nat \ {0} /\ Quantities # {} /\ IsFiniteSet(Quantities)
ASSUME OpeningAssumption == Opening \in Nat
ASSUME StudentAssumption == IsFiniteSet(Student)
ASSUME HolderAssumption ==
    None \notin Student /\ None \notin Email /\ Student \cap Email = {}
ASSUME ScheduleAssumption == None \notin Schedule
ASSUME ScoreAssumption == None \notin Score
ASSUME MaxDayAssumption == MaxDay \in Nat
ASSUME MaxRecordingAssumption == MaxRecording \in Nat
ASSUME OwnerAssumption == User \cap Role = {}
ASSUME MaxInboxAssumption == MaxInbox \in Nat

VARIABLES
    part,
    term, failed, termReq,
    period, run, items, slip, torn, half, overtaken, payReq,
    item, loan, booked, astray, itemReq,
    grade, reachable, told, missed, gradeReq,
    lesson, parties, reassigned, lessonReq,
    row, results, raced, doubled, examReq,
    internship, score, stale, internReq,
    leave, leaveReq,
    session, record, covers, attendReq,
    role, rows, given, mixed, roleReq,
    notice, working, teachers, inbox, altered, added, broken, noticeReq,
    portal, link, gone, opens, relinked, portalReq

termVars == <<term, failed, termReq>>
payVars == <<period, run, items, slip, torn, half, overtaken, payReq>>
stockVars == <<item, loan, booked, astray, itemReq>>
gradeVars == <<grade, reachable, told, missed, gradeReq>>
lessonVars == <<lesson, parties, reassigned, lessonReq>>
examVars == <<row, results, raced, doubled, examReq>>
internVars == <<internship, score, stale, internReq>>
leaveVars == <<leave, leaveReq>>
attendVars == <<session, record, covers, attendReq>>
roleVars == <<role, rows, given, mixed, roleReq>>
noticeVars == <<notice, working, teachers, inbox, altered, added, broken, noticeReq>>
portalVars == <<portal, link, gone, opens, relinked, portalReq>>

Terms == INSTANCE ActiveTerm WITH Request <- Worker, req <- termReq
Pay == INSTANCE Payroll WITH Request <- Worker, req <- payReq
Stock == INSTANCE InventoryStock WITH Request <- Worker, req <- itemReq
Marks == INSTANCE Grades WITH Request <- Worker, req <- gradeReq
Lessons == INSTANCE Timetable WITH Request <- Worker, row <- lesson, req <- lessonReq
Exam == INSTANCE Exams WITH Request <- Worker, req <- examReq
Intern == INSTANCE Internships WITH Request <- Worker, req <- internReq
Absence == INSTANCE LeaveRequests WITH Request <- Worker, req <- leaveReq
Attend == INSTANCE Attendance WITH Request <- Worker, req <- attendReq
Roles == INSTANCE RoleAssignments WITH Request <- Worker, req <- roleReq
Notice == INSTANCE Announcements WITH Request <- Worker,
    User <- Reader, item <- notice, active <- working, req <- noticeReq
Portal == INSTANCE PortalAccounts WITH Request <- Worker,
    account <- portal, raced <- relinked, req <- portalReq

(* The rows of the components that do not act are left out (None).         *)
OfficeInit ==
    /\ part \in {"terms", "payroll", "stock", "grades", "client", "timetable", "exams",
                 "internships", "leave", "attendance", "roles", "announcements", "portal"}
    /\ IF part = "terms" THEN Terms!Init ELSE
          /\ term = None /\ failed = None /\ termReq = None
    /\ IF part = "payroll" THEN Pay!Init ELSE
          /\ period = None /\ run = None /\ items = None /\ slip = None /\ torn = None
          /\ half = None /\ overtaken = None /\ payReq = None
    /\ IF part = "stock" THEN Stock!Init ELSE
          /\ item = None /\ loan = None /\ booked = None /\ astray = None /\ itemReq = None
    /\ IF part = "grades" THEN Marks!Init ELSE
          /\ grade = None /\ reachable = None /\ told = None /\ missed = None /\ gradeReq = None
    /\ IF part = "client" THEN ClientInit ELSE
          /\ account = None /\ token = None /\ parent = None /\ epoch = None /\ since = None
          /\ overlapped = None /\ replayed = {} /\ guesses = None /\ excused = None
          /\ call = None /\ cookie = None /\ jar = None /\ inFlight = None /\ leaving = None
          /\ disturbed = None /\ req = None
    /\ IF part = "timetable" THEN Lessons!Init ELSE
          /\ lesson = None /\ parties = None /\ reassigned = None /\ lessonReq = None
    /\ IF part = "exams" THEN Exam!Init ELSE
          /\ row = None /\ results = None /\ raced = None /\ doubled = None
          /\ examReq = None
    /\ IF part = "internships" THEN Intern!Init ELSE
          /\ internship = None /\ score = None /\ stale = None /\ internReq = None
    /\ IF part = "leave" THEN Absence!Init ELSE
          /\ leave = None /\ leaveReq = None
    /\ IF part = "attendance" THEN Attend!Init ELSE
          /\ session = None /\ record = None /\ covers = None /\ attendReq = None
    /\ IF part = "roles" THEN Roles!Init ELSE
          /\ role = None /\ rows = None /\ given = None /\ mixed = None /\ roleReq = None
    /\ IF part = "announcements" THEN Notice!Init ELSE
          /\ notice = None /\ working = None /\ teachers = None /\ inbox = None /\ altered = None
          /\ added = None /\ broken = None /\ noticeReq = None
    /\ IF part = "portal" THEN Portal!Init ELSE
          /\ portal = None /\ link = None /\ gone = None /\ opens = None /\ relinked = None
          /\ portalReq = None

Others(x) ==
    /\ part = x
    /\ UNCHANGED part
    /\ IF x = "terms" THEN TRUE ELSE UNCHANGED termVars
    /\ IF x = "payroll" THEN TRUE ELSE UNCHANGED payVars
    /\ IF x = "stock" THEN TRUE ELSE UNCHANGED stockVars
    /\ IF x = "grades" THEN TRUE ELSE UNCHANGED gradeVars
    /\ IF x = "client" THEN TRUE ELSE UNCHANGED allVars
    /\ IF x = "timetable" THEN TRUE ELSE UNCHANGED lessonVars
    /\ IF x = "exams" THEN TRUE ELSE UNCHANGED examVars
    /\ IF x = "internships" THEN TRUE ELSE UNCHANGED internVars
    /\ IF x = "leave" THEN TRUE ELSE UNCHANGED leaveVars
    /\ IF x = "attendance" THEN TRUE ELSE UNCHANGED attendVars
    /\ IF x = "roles" THEN TRUE ELSE UNCHANGED roleVars
    /\ IF x = "announcements" THEN TRUE ELSE UNCHANGED noticeVars
    /\ IF x = "portal" THEN TRUE ELSE UNCHANGED portalVars

OfficeNext ==
    \/ Others("terms") /\ Terms!Next
    \/ Others("payroll") /\ Pay!Next
    \/ Others("stock") /\ Stock!Next
    \/ Others("grades") /\ Marks!Next
    \/ Others("client") /\ ClientNext
    \/ Others("timetable") /\ Lessons!Next
    \/ Others("exams") /\ Exam!Next
    \/ Others("internships") /\ Intern!Next
    \/ Others("leave") /\ Absence!Next
    \/ Others("attendance") /\ Attend!Next
    \/ Others("roles") /\ Roles!Next
    \/ Others("announcements") /\ Notice!Next
    \/ Others("portal") /\ Portal!Next

officeVars == <<part, allVars, termVars, payVars, stockVars, gradeVars, lessonVars, examVars,
                internVars, leaveVars, attendVars, roleVars, noticeVars, portalVars>>
OfficeSpec == OfficeInit /\ [][OfficeNext]_officeVars

-----------------------------------------------------------------------------
(* The properties of the components, stated where they are defined; that of*)
(* RefreshClient, OwnReplayExplained, is stated there.                     *)

(* Every component's variables have the values its module says they have.  *)
OfficeTypeOK ==
    /\ part = "terms" => Terms!TypeOK
    /\ part = "payroll" => Pay!TypeOK
    /\ part = "stock" => Stock!TypeOK
    /\ part = "grades" => Marks!TypeOK
    /\ part = "client" => ClientTypeOK
    /\ part = "timetable" => Lessons!TypeOK
    /\ part = "exams" => Exam!TypeOK
    /\ part = "internships" => Intern!TypeOK
    /\ part = "leave" => Absence!TypeOK
    /\ part = "attendance" => Attend!TypeOK
    /\ part = "roles" => Roles!TypeOK
    /\ part = "announcements" => Notice!TypeOK
    /\ part = "portal" => Portal!TypeOK

(* ActiveTerm: at most one year or semester is active.                     *)
OneActive == part = "terms" => Terms!OneActive
(* Payroll: a run has the items of exactly one calculation.                *)
ItemsOfOneCalculation == part = "payroll" => Pay!ItemsOfOneCalculation
(* Payroll: the runs and payslips follow the status of their period.       *)
RunsFollowPeriod == part = "payroll" => Pay!RunsFollowPeriod
(* InventoryStock: the shelf and the loans account for every unit.         *)
StockConserved == part = "stock" => Stock!StockConserved
(* InventoryStock: the quantity is overdrawn by racing requests only.      *)
ShortageBounded == part = "stock" => Stock!ShortageBounded
(* Grades: students are told that their grades are approved.               *)
ApprovedAreTold == part = "grades" => Marks!ApprovedAreTold
(* Timetable: nobody and no room has two lessons at the same time.         *)
NoDoubleBooking == part = "timetable" => Lessons!NoDoubleBooking
(* Exams: participants are numbered without gaps or repetitions.           *)
NumbersAreConsecutive == part = "exams" => Exam!NumbersAreConsecutive
(* Exams: one result of a participant for a question.                      *)
OneResultEach == part = "exams" => Exam!OneResultEach
(* Internships: the two copies of the final score agree.                   *)
FinalScoreIsTheScore == part = "internships" => Intern!FinalScoreIsTheScore
(* LeaveRequests: the number of days is that of the dates.                 *)
DaysMatchDates == part = "leave" => Absence!DaysMatchDates
(* Attendance: recordings that overlap do not mix.                         *)
RecordingsDoNotMix == part = "attendance" => Attend!RecordingsDoNotMix
(* RoleAssignments: an owner has what the last replacement gave.           *)
AssignedAsGiven == part = "roles" => Roles!AssignedAsGiven
(* Announcements: everyone is notified, and nobody again and again.        *)
AnnouncedOnce == part = "announcements" => Notice!AnnouncedOnce
(* PortalAccounts: an account created for a student is the student's.      *)
AccountIsLinked == part = "portal" => Portal!AccountIsLinked
=============================================================================
