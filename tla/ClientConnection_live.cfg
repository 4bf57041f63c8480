SPECIFICATION FairSpec
CONSTANTS
    MaxCalls = 3
    MaxSockets = 7
    MaxFaults = 3
INVARIANTS ConnectedIsLive NoOrphan StoppedIsSilent
PROPERTIES Reconnects
CHECK_DEADLOCK FALSE
