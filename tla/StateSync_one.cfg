SPECIFICATION FairSpec
CONSTANTS
    obs = obs
    camera = camera
    scene = scene
    preset = preset
    set = set
    Clients = {c1}
    Fields = {scene, preset}
    Topics = {obs, camera}
    TopicOf <- TopicMap
    Vals = {absent, set}
    Absent = absent
    TopicLists <- CameraOnly
    SendBuffer = 2
    SocketBuffer = 1
    MaxRev = 2
    MaxRequests = 1
    \* Documents of up to two levels, with two keys and two leaves.
    Names = {"a", "b"}
    Scalars = {"x", "y"}
    Depth = 2
INVARIANTS NoFalseGap QuietMeansCurrent PatchesRebuild
PROPERTIES MirrorSpec Converges
