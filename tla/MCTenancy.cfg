SPECIFICATION TenancySpec
SYMMETRY Symmetry
CHECK_DEADLOCK FALSE
CONSTANTS
    a1 = a1
    a2 = a2
    b1 = b1
    b2 = b2
    c1 = c1
    c2 = c2
    u3 = u3
    o1 = o1
    o2 = o2
    k1 = k1
    k2 = k2
    \* the workspaces
    Users <- ThreeUsers
    Founders <- TwoAs
    Selections <- OneOrAll
    Orgs <- TwoOrgs
    Names <- TwoNames
    MaxMembers = 3
    MaxTeams = 2
    NoOrg = NoOrg
    NoName <- NameNothing
    \* the accounts
    Clients <- TwoAs
    Accounts <- TwoBs
    Links <- TwoCs
    Emails = {m1, m2}
    ClerkIds = {i1}
    Passwords = {p1}
    WorkNames <- TwoCs
    NoWork = NoWork
    MailConfigured = TRUE
    MaxMessages = 2
    CacheSize = 1
    NoEmail = NoEmail
    NoClerk = NoClerk
    NoPassword = NoPassword
    NoAccount = NoAccount
    \* the tokens
    SigningKeys <- TwoKeys
    Pinned <- NoKeys
    Subjects = {u}
    Hour = 2
    AccessLife = 1
    RefreshLife = 2
    MaxTokens = 2
    \* the wallet
    Sessions <- TwoAs
    Purchases <- TwoBs
    Free = 5
    Pack = 4
    Estimate = 2
    Usages = {0, 1, 3}
    LowBalance = 3
    Development = TRUE
    MaxMetered = 4
    MaxMails = 2
    \* the conversations
    Talks = {x1}
    People <- TwoAs
    Team <- OneTeam
    NoTeam = "none"
    Nobody = Nobody
    Patterns <- EmailThenPhone
    Told <- TwoTold
    MemoryIds <- TwoBs
    Modes <- ThreeModes
    TopK = 1
    ContextSize = 1
    MemoryCap = 1
    Spare = 0
    MaxEntries = 1
INVARIANT TenancyTypeOK
INVARIANT MembershipSound
INVARIANT WithdrawnKeysExpire
INVARIANT NothingInvented
INVARIANT ValuesComeHome
PROPERTY LinksProveAddresses
PROPERTY ColumnsApart
PROPERTY LeaderStays
