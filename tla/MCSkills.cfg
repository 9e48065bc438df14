SPECIFICATION CraftSpec
SYMMETRY Symmetry
CHECK_DEADLOCK FALSE
CONSTANTS
    a1 = a1
    a2 = a2
    b1 = b1
    b2 = b2
    h1 = h1
    h2 = h2
    t1 = t1
    t2 = t2
    \* the reviews
    Sessions <- TwoAs
    CaseIds <- TwoBs
    Findings <- OneFinding
    Documents <- OneDocument
    Scopes = {"team", "other", "personal"}
    Personal = "personal"
    Changes = 2
    \* the skills
    Editors <- TwoAs
    Fetches = {f1}
    Slugs <- TwoBs
    Headings <- TwoHeadings
    Contents <- TwoContents
    Forms = {"raw", "wrapped"}
    Flagged <- LastTwo
    FlaggedRaw = {t2}
    MaxSkills = 1
    MaxVersion = 2
    MaxRows = 2
    MaxCases = 1
    Keep = Keep
    NoSlug = NoSlug
    NoHeading = NoHeading
    NoContent = NoContent
    \* the developer's machine
    Files = {"f"}
    FileContents <- ThreeTexts
    IssuesOf <- IssuesOfThree
    Severe <- BothIssues
    MaxCommits = 3
INVARIANT CraftTypeOK
INVARIANT OnceMeansOnce
INVARIANT StoreKept
INVARIANT PublishedWasAllowed
PROPERTY Serialized
PROPERTY OnlyReviewsGrant
PROPERTY NoUnseenOverwrite
