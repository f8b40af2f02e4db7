\* One attempt at a time over two generations, with every loss of a call or of its
\* answer; one answer is lost after credstone has counted.
SPECIFICATION FairSourceSpec
CONSTANTS
    Attempts = {a1}
    MaxGen = 2
    MaxGrants = 2
    MaxRepeats = 1
INVARIANTS UsageExact
PROPERTIES UsageArrives HealthFollows
