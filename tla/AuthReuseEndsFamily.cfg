SPECIFICATION Spec
CONSTANTS
    Token = {t1, t2, t3}
    Request = {q1, q2}
    Threshold = 1
    MaxEpoch = 2
    None = None
INVARIANT ReuseEndsFamily
CHECK_DEADLOCK FALSE
