SPECIFICATION FairSpec
CONSTANTS
    Rows <- MCRows
    Files <- MCFiles
    Hashes = {h1}
    Moments <- MCOneMoment
    Window = 5
    Clients = {c1}
    Mishaps = {"cancel", "crash", "fault"}
    Unborn = Unborn
    Gone = Gone
    None = None
PROPERTY AbandonedDraftsGo
CHECK_DEADLOCK FALSE
