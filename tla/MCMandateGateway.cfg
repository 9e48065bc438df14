SPECIFICATION Spec
CONSTANTS
    c1 = c1
    c2 = c2
    h1 = h1
    h2 = h2
    Mandates = {"m1"}
    r1 = r1
    r2 = r2
    Runs <- TwoRuns
    Refs <- TwoRefs
    Calls <- TwoCalls
    Tools = {"crm.resolve_customer", "web.search"}
    Fixtures = {"crm.resolve_customer"}
    Crm = "crm.resolve_customer"
    Grantable <- ScopeLists
SYMMETRY Symmetry
INVARIANT TaintInherited
INVARIANT RevokedRunsNothing
INVARIANT CapabilitiesNarrow
INVARIANT CountersMatchReceipts
CHECK_DEADLOCK FALSE
