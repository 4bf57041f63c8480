SPECIFICATION RunSpec
CONSTANTS
    m1 = m1
    m2 = m2
    l1 = l1
    Mints = {m1, m2}
    Logins = {l1}
    Free = Free
    MaxPairs = 3
    MaxFaults = 2
INVARIANTS NeverSpentTwice CredentialKept OneRotationEach RefusalIsCurrent
PROPERTIES AuthorizationStands Answered Drains
