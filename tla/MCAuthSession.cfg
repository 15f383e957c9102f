SPECIFICATION Spec
CONSTANTS
    Token = {t1, t2, t3}
    Request = {q1, q2}
    Threshold = 2
    MaxEpoch = 1
    None = None
SYMMETRY Symmetry
INVARIANTS SingleUse OutlivedOnlyInFlight GuessesBounded
PROPERTY DeletedNeverRotates
CHECK_DEADLOCK FALSE
