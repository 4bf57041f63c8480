SPECIFICATION FairSpec
CONSTANTS
    Clients = {c1}
    Keys = {k1, k2}
    Faces = {on, off}
    Plain = {}
    NoFace = NoFace
    NoKey = NoKey
    Nobody = Nobody
    SocketBuffer = 1
    MaxSeq = 3
    MaxRebaselines = 1
INVARIANTS SettledSurface NoResurrection
PROPERTIES SurfaceSettles
