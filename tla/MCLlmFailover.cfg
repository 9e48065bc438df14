SPECIFICATION Spec
CONSTANTS
    r1 = r1
    r2 = r2
    Requests <- RequestPair
    Threshold = 2
    Cooldown = 1
    Window = 2
    PrivateMode = FALSE
    Backends = {"groq", "openai"}
    Routes <- LongRoute
    Kinds = {"complete", "stream"}
    Upsets = {"error", "cancel"}
SYMMETRY RequestSymmetry
INVARIANT OneProbePerHalfOpen
INVARIANT FailoverSound
PROPERTY TripsOnBurst
