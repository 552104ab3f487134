SPECIFICATION Spec
CONSTANTS
    t1 = t1
    t2 = t2
    Trips = {t1, t2}
    Payments = {p1}
    Invoices = {i1}
    Clients = {c1, c2}
    MaxRequests = 5
    Windows <- MCWindows
    Times <- MCTimes
    Patches <- MCPatches
    Unborn = Unborn
    Gone = Gone
    None = None
    Keep = Keep
SYMMETRY Tabs
INVARIANTS LinksExist SourceStateAgree BadPaymentLocksTrip
PROPERTIES BadDebtSurvivesTrips ManualSurvivesTripEdits EditsReassign
CHECK_DEADLOCK FALSE
