SPECIFICATION LiveSpec
CONSTANTS
    Job = {j1}
    Worker = {w1, w2}
    Request = {q1}
    Cron = {c1}
    Fault = {"crash", "queue", "audit", "claim", "load", "store", "render", "notify"}
    None = None
INVARIANTS ProcessedOnce CompletedIsExported ProcessingHasProcessor
PROPERTIES FinishedIsNotRevived PendingIsTaken ProcessingEnds
CHECK_DEADLOCK FALSE
