SPECIFICATION FairSpec
CONSTANTS
    a = a
    m = m
    Clients = {a}
    Meters = {m}
    Poller = p
    Requests <- MCRequests
    SendBuffer = 2
INVARIANTS FinalFrameSent
PROPERTIES UpdatesEnd TornDown StopEnds
