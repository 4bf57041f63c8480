SPECIFICATION Spec
CONSTANTS
    Logins = {l1, l2, l3, l4}
    UrlLists <- AnyList
    Others <- Number
    Burst = 2
    Every = 2
    TTL = 2
    MaxPending = 3
    Slots = 1
SYMMETRY Symmetry
INVARIANTS NotForgotten SpentOnce
PROPERTIES RefusedForARecentOne
CHECK_DEADLOCK FALSE
