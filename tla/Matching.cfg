SPECIFICATION MatchSpec
CONSTANTS
    p1 = p1
    p2 = p2
    p3 = p3
    i1 = i1
    i2 = i2
    u = u
    other = other
    User = u
    Missing = Missing
    Payments = {p1, p2, p3}
    Invoices = {i1, i2}
    PaymentRows <- MCPaymentRows
    InvoiceRows <- MCInvoiceRows
    LinkSets <- MCLinkSets
    CompanySuffixes <- MCSuffixes
    Ignored <- MCIgnored
    Limits = {2}
    FewestCandidates = 2
    PerSuggestion = 1
    MaxLinks = 1
SYMMETRY PaymentSymmetry
INVARIANTS ExactAmountIsBest LinkedIsNotOffered FreeInvoiceIsAnswered
