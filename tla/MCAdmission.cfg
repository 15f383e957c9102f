SPECIFICATION Spec
CONSTANTS
    Registration = {g1, g2}
    Request = {q1, q2}
    Quotas = {0, 1}
    MaxAttempts = 2
    None = None
SYMMETRY Symmetry
INVARIANTS StudentIsConverted
PROPERTIES QuotaHeld NextNumberIsFree
CHECK_DEADLOCK FALSE
