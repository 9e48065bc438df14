SPECIFICATION Spec
CONSTANTS
    Requests = {"r1"}
    Prompts = {"safe", "unsafe"}
    Unsafe = {"unsafe"}
    Estimate = 2
    Uses = {0, 2}
    DailyBudget = 3
    MaxChunks = 2
INVARIANT KeepalivesKeepStreams
CHECK_DEADLOCK FALSE
