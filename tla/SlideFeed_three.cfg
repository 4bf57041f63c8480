SPECIFICATION FairSpec
CONSTANTS
    Slides = {s1, s2, s3}
    None = None
    Capacity = 2
    MaxMoves = 6
PROPERTIES NewSlideArrives
CHECK_DEADLOCK FALSE
