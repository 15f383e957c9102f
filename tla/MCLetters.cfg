SPECIFICATION Spec
CONSTANTS
    Letter = {l1, l2}
    Series = {s1}
    Decider = {d1}
    Approver = {d1}
    Approval = {r1, r2}
    Request = {q1, q2}
    MaxNumber = 2
    None = None
SYMMETRY Symmetry
VIEW NumberingView
INVARIANTS NumbersHaveNoGaps ApprovalIsRecorded
CHECK_DEADLOCK FALSE
