\* The status watch: polling, drawing, resizing and quitting.
SPECIFICATION FairSpec
CONSTANTS
    None = None
    Blank = Blank
    Garbled = Garbled
    RegionRows = 2
    Interval = 2
    Horizon = 4
    WindowSizes <- MCWindowSizes
    CursorRows = {0, 1, 2}
    Failures = {"stopped"}
    MaxEvents = 1
INVARIANTS
    PollsAreOrderly
    TerminalIsRespected
    ScreenIsCurrent
PROPERTIES
    ClearsOwnRows
    QuitIsPrompt
    PollsResume
