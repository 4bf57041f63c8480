SPECIFICATION Spec
CONSTANTS
    Logins = {l1}
    UrlLists <- OnlyTls
    Others <- Number
    Burst = 2
    Every = 2
    TTL = 2
    MaxPending = 3
    Slots = 1
PROPERTY CallbackServed
CHECK_DEADLOCK FALSE
