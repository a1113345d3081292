CONSTANTS
    Pieces = {"a", "esc", "[", "1m", "4m", "0m"}
    TitleEnds = {"bel"}
    Watermark = 2
    Wants = {1}
    MaxFeed = 9
SPECIFICATION Spec
CHECK_DEADLOCK FALSE
INVARIANTS
    SelfContained
