SPECIFICATION FairSpec
CONSTANTS
    Keys = {k1}
    Clients = {c1}
    OutBuffer = 2
    WireCap = 1
    MaxSessions = 3
    MaxLines = 1
    MaxFaults = 1
    MaxPresses = 3
INVARIANTS RegistrationKnown HoldCovered
PROPERTIES RaisedInOrder Registers Stops
