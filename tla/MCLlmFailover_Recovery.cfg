SPECIFICATION FairSpec
CONSTANTS
    r1 = r1
    r2 = r2
    Requests <- RequestPair
    Threshold = 2
    Cooldown = 1
    Window = 2
    PrivateMode = FALSE
    Backends = {"groq"}
    Routes <- PrimaryOnly
    Kinds = {"complete", "stream"}
    Upsets = {}
PROPERTY ProbeResolves
