SPECIFICATION FairSpec
CONSTANTS
    Requests = {"r1", "r2"}
    Prompts = {"safe", "unsafe"}
    Unsafe = {"unsafe"}
    Estimate = 2
    Uses = {0, 2}
    DailyBudget = 3
    MaxChunks = 2
INVARIANT AnswersAreAudited
INVARIANT ChargedWithAudit
INVARIANT HeldUntilVerdict
INVARIANT StreamsReleased
PROPERTY RequestsEnd
CHECK_DEADLOCK FALSE
