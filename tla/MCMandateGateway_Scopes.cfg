SPECIFICATION Spec
CONSTANTS
    c1 = c1
    c2 = c2
    h1 = h1
    h2 = h2
    Mandates = {"m1"}
    r1 = r1
    r2 = r2
    Runs <- TwoRuns
    Refs <- OneRef
    Calls <- OneCall
    Tools = {"crm.resolve_customer", "web.search"}
    Fixtures = {"crm.resolve_customer", "web.search"}
    Crm = "crm.resolve_customer"
    Grantable <- ScopeLists
INVARIANT WithinMandate
CHECK_DEADLOCK FALSE
