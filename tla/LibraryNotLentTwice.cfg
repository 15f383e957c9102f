SPECIFICATION Spec
CONSTANTS
    Loan = {l1, l2, l3}
    Copy = {c1}
    Member = {m1}
    Request = {q1, q2}
    Limits = {2}
    Edits = {}
    None = None
INVARIANT NotLentTwice
CHECK_DEADLOCK FALSE
