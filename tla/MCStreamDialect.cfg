\* Every provider with every dialect, and passthrough, with the warden on and off.
SPECIFICATION Spec
CONSTANTS
    MaxTokenBytes = 6
    Symbols = {"lead", "open", "close", "name", "value", "plain"}
    Streams <- MCStreams
    Wardens = {TRUE, FALSE}
    Fragments <- MCFragments
    RawReads <- MCRawReads
    Tools = {0, 1}
    MaxChunks <- MCMaxChunks
INVARIANTS ClientFramed ToolCallsIntact TextRestored ClosingTold
CHECK_DEADLOCK FALSE
