SPECIFICATION RunSpec
CONSTANTS
    m1 = m1
    m2 = m2
    l1 = l1
    Mints = {m1}
    Logins = {l1}
    Free = Free
    MaxPairs = 2
    MaxFaults = 0
INVARIANT ConnectTakesEffect
