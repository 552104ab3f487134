SPECIFICATION StartSpec
CONSTANTS
    PaymentIds = {p1}
    Sources <- MCSources
    Owners = {"u1", "u2"}
    First = "u1"
    Messages = {"m1", "m2"}
    Unnumbered = {"m2"}
    Logs = {1, 2, 3}
    Fields = {"subject", "attachments"}
    Counted = {"attachments"}
    Tellings = {0, 1, 2}
    Retold <- MCRetold
    Score <- MCScore
    Configs = {c1, c2}
    Keys = {k1, k2}
    Null = Null
    OldPayments <- MCOldPayments
    OldLogs <- MCOldLogs
    MaxCents = 2
    MaxMishaps = 2
INVARIANTS
    PasswordsStayReadable
    ServedIsComplete
PROPERTIES
    WhatWasToldIsTold
    ComesUp
