SPECIFICATION Spec
CONSTANTS
    Loan = {l1, l2}
    Copy = {c1, c2}
    Member = {m1}
    Request = {q1, q2}
    Limits = {1, 2}
    Edits = {"OTHER"}
    None = None
SYMMETRY Symmetry
INVARIANTS LoanLimitHeld LentOnce
CHECK_DEADLOCK FALSE
