SPECIFICATION ReviewSpec
CONSTANTS
    s1 = s1
    s2 = s2
    c1 = c1
    c2 = c2
    f1 = f1
    Sessions <- SessionPair
    CaseIds <- TwoCases
    Findings <- OneFinding
    Documents <- OneDocument
    Scopes = {"team", "other", "personal"}
    Personal = "personal"
    Changes = 2
SYMMETRY Symmetry
CHECK_DEADLOCK FALSE
PROPERTY KeepRevokes
