\* Every provider with every dialect, the warden on and off, under fairness.
SPECIFICATION FairSpec
CONSTANTS
    Streams <- MCStreams
    Cap <- MCCap
    MaxContent = 2
INVARIANTS ShownInOrder
PROPERTIES AnswerSettled BodyClosed SlotGivenBack
CHECK_DEADLOCK FALSE
