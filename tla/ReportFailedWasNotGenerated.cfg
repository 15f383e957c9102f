SPECIFICATION Spec
CONSTANTS
    Job = {j1}
    Worker = {w1, w2}
    Request = {q1, q2}
    Cron = {c1}
    Fault = {"notify"}
    None = None
INVARIANT FailedWasNotGenerated
CHECK_DEADLOCK FALSE
