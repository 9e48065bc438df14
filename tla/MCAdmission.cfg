SPECIFICATION AdmissionSpec
SYMMETRY Symmetry
CONSTANTS
    v1 = v1
    v2 = v2
    q1 = q1
    q2 = q2
    r1 = r1
    r2 = r2
    i1 = i1
    i2 = i2
    \* the address gate
    Visits <- TwoVisits
    Addresses = {a1}
    MinGap = 1
    Lifetime = 1
    MaxViolations = 1
    MaxCount = 3
    \* the windows
    Asks <- TwoAsks
    Buckets <- ThreeBuckets
    Coarse = {"ip"}
    Chains <- TwoChains
    PerMinute <- PerMinuteOf
    PerDay <- PerDayOf
    Minute = 1
    Day = 2
    MaxHits = 3
    \* the keys
    Workers = {w1}
    Requests <- TwoRequests
    Users = {"u"}
    Keys <- OneKey
    Owner <- OwnedByU
    Prompts = {p1}
    Ips <- TwoIps
    Uses = {1}
    Budgeted = {1}
    Budget = 1
    BudgetPeriod = 0
    MaxRpm = 1
    MaxBurn = 2
    IpDiversity = 2
    BlockedWindow = 2
    BlockedShare = 2
    Repeats = 3
    BaseBan = 2
    MaxBan = 3
    RpmWindow = 0
    FiveMinutes = 1
    IpWindow = 1
    MaxRecorded = 3
    \* the rules
    Calls = {c1, c2}
    Texts <- SevenTexts
    Replies <- ThreeReplies
    RuleSets <- ThreeRuleSets
    DefaultRules <- Strict
    Regos <- ThreeRegos
    NoRego = NoRego
    MaxVersions = 3
    \* the MCP server
    McpKeys <- TwoSlots
    Scopes <- FirstMayChat
    Streams <- TwoSlots
    Posts <- TwoSlots
    McpTools = {"chat", "check_output", "scan_skill", "check_input"}
    Poisoned = {"check_input"}
    TotalStreams = 2
    StreamsPerKey = 1
    QueueSize = 1
    StreamTimeout = 1
    Rpm = 1
    Rpd = 1
    McpWindow <- WindowsOfMcp
INVARIANT AdmissionTypeOK
INVARIANT GateSound
INVARIANT BrokenRuleNeverSkips
INVARIANT BothWaysClean
INVARIANT EveryPolicyKept
INVARIANT AnswersStayHome
INVARIANT CallsAudited
PROPERTY NoChatForStaleKey
PROPERTY WindowsExact
PROPERTY BansFair
