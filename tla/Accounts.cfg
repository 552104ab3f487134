SPECIFICATION Spec
CONSTANTS
    Users = {u1, u2, u3}
    Invites = {i1, i2}
    Clients = {c1, c2}
    None = None
SYMMETRY Symmetry
INVARIANTS AdminRemains OneUserPerInvite ClaimsAreTrue
