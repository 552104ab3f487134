SPECIFICATION Spec
CONSTANTS
    Payments = {p1}
    Invoices = {v1}
    Texts = {x1, x2}
    Values = {a}
    Files = {1, 2}
    Rows = {s1, s2}
    Clients = {c1}
    None = None
SYMMETRY Symmetry
INVARIANTS RepoIsMirrored HashesAreOfOriginals
