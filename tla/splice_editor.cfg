\* Two pages, two edits and two calls in all, one save of a page at a time.
SPECIFICATION Spec
CONSTANTS
    Page = {p1, p2}
    Strand <- MCStrand
    TubeOf <- MCTubeOf
    LeftTube = {"A"}
    TrayOf <- MCTrayOf
    NoTray = "no tray"
    Live <- MCLive
    Protected = {5}
    Claimed = {}
    Count = 2
    MaxEdit = 2
    MaxWrite = 2
    MaxCall = 1
SYMMETRY PageSymmetry
INVARIANT VersionNamesEntries
PROPERTY SavedIsShown
CHECK_DEADLOCK FALSE
