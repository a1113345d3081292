CONSTANTS
    Pieces = {"a", "lf", "bel", "esc", "[", "]", "c", "st", "lead", "9c", "93", "1m", "4m", "0m", "?1h", "?2h", "?25h", "?1l", "?25l", "r", "0r", "2J", "K", "6n", "$p", "t1", "t2", "d1", "133", "52", "10", "10?"}
    TitleEnds = {"bel", "esc", "9c"}
    Watermark = 2
    Wants = {0, 1, 2}
    MaxFeed = 10
SPECIFICATION Spec
CHECK_DEADLOCK FALSE
INVARIANTS
    ReplayFull
    ReplayCapped
    ReplayQuiet
