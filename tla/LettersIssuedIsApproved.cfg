SPECIFICATION Spec
CONSTANTS
    Letter = {l1}
    Series = {s1}
    Decider = {a1}
    Approver = {a1}
    Approval = {r1, r2}
    Request = {q1, q2}
    MaxNumber = 2
    None = None
PROPERTY IssuedIsApproved
CHECK_DEADLOCK FALSE
