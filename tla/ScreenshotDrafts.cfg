SPECIFICATION Spec
CONSTANTS
    Rows <- MCRows
    Files <- MCFiles
    Hashes = {h1}
    Moments <- MCOneMoment
    Window = 5
    Clients = {c1, c2}
    Mishaps = {"cancel", "crash", "fault"}
    Unborn = Unborn
    Gone = Gone
    None = None
SYMMETRY Tabs
INVARIANTS OneConfirmedPerFile
PROPERTIES ScreenshotsStay NoFileIsForgotten
CHECK_DEADLOCK FALSE
