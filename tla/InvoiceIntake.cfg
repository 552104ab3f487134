SPECIFICATION Spec
CONSTANTS
    Rows = {r1, r2}
    Atts = {a1}
    Files = {f1, f2, f3}
    Hashes = {h1}
    Numbers = {n1}
    Clients = {c1, c2}
    MaxEvents = 4
    None = None
SYMMETRY Symmetry
INVARIANTS OneInvoicePerUpload TwinsAreNoticed ParsingIsHeld
PROPERTIES OnlyTripsStrand
CHECK_DEADLOCK FALSE
