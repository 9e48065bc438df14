SPECIFICATION FairSpec
CONSTANTS
    s1 = s1
    p1 = p1
    p2 = p2
    Sessions <- OneSession
    Purchases <- TwoPurchases
    Free = 5
    Pack = 4
    Estimate = 2
    Usages = {0, 1, 3}
    LowBalance = 3
    Development = TRUE
    MaxMetered = 12
    MaxMails = 2
PROPERTY LedgerSpec
PROPERTY PaidIsCredited
CHECK_DEADLOCK FALSE
