SPECIFICATION FairSpec
CONSTANTS
    c1 = c1
    c2 = c2
    Clients = {c1, c2}
    Values = {v1, v2}
    Unknown = Unknown
    MaxRetries = 1
    MaxCommands <- Quota
    MaxFaults = 2
INVARIANTS ActsOnce AnswersAreTrue StateFollowsBooth
PROPERTIES BoothSpec Answered
CHECK_DEADLOCK FALSE
