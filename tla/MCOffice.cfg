SPECIFICATION OfficeSpec
CONSTANTS
    r1 = r1  r2 = r2
    q1 = q1  q2 = q2  q3 = q3
    None = None
    Request = {q1, q2, q3}
    Worker = {q1, q2}
    Term = {r1, r2, r3}
    Employee = {r1, r2}
    Loan = {r1, r2}
    Quantities = {1}
    Opening = 1
    MaxStock = 2
    Student = {r1, r2}
    Token = {r1, r2, r3}
    Navigation = {q3}
    Tab = {1, 2}
    TabOf <- MCTabOf
    Threshold = 1
    MaxEpoch = 1
    Schedule = {r1, r2}
    Assignment = {a1, a2}
    Party = {1, 2}
    Slot = {1}
    Room = {1, 2}
    Question = {1, 2}
    Score = {1, 2}
    MaxDay = 3
    MaxRecording = 3
    User = {a1}
    Role = {r1, r2}
    Permission = {a2}
    Reader = {r1, r2}
    MaxInbox = 3
    MaxAltered = 1
    Email = {r3, a1, a2}
SYMMETRY MCSymmetry
CHECK_DEADLOCK FALSE
INVARIANTS
    OfficeTypeOK OneActive ItemsOfOneCalculation RunsFollowPeriod StockConserved
    ShortageBounded ApprovedAreTold OwnReplayExplained NoDoubleBooking
    NumbersAreConsecutive OneResultEach FinalScoreIsTheScore DaysMatchDates
    RecordingsDoNotMix AssignedAsGiven AnnouncedOnce AccountIsLinked
