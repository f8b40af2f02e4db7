\* Three turns with three providers, two attempts each, and one loss of the caches.
SPECIFICATION Spec
CONSTANTS
    Scores <- MCScores
    Near = 1
    Panics <- MCPanics
    TokenLimit = 3
    Setups <- MCSetups
    SystemText <- MCSystemText
    Inputs <- MCInputs
    Outputs <- MCOutputs
    Providers = {"anthropic", "openai", "gemini"}
    Replies = {"say", "call", "think", "calls"}
    MaxTurns = 3
    MaxTries = 2
    MaxLosses = 1
    Threshold = 6
    TotalBudget = 19
    ToolResultBudget = 4
    SchemaTokens = 1
    RecentKeep = 1
    MaxLogLines = 2
    MaxObjectDepth = 3
    AlignDynamic = TRUE
INVARIANTS  ReasoningReturned CallsAnswered SignaturesReturned BodiesAgree OmissionsAccounted
PROPERTY AnswerRestored
CHECK_DEADLOCK FALSE
