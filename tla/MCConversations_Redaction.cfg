SPECIFICATION ConversationsSpec
CONSTANTS
    Talks = {x1}
    People = {n1, n2}
    Team <- OneTeam
    NoTeam = "none"
    Nobody = Nobody
    Patterns <- EmailThenPhone
    Told <- TwoTold
    MemoryIds = {j1}
    Modes <- ThreeModes
    TopK = 1
    ContextSize = 1
    MemoryCap = 1
    Spare = 0
    MaxEntries = 1
INVARIANT ProviderSeesNoValue
