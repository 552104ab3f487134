------------------------------ MODULE MCMatching ------------------------------
EXTENDS Matching, TLC

CONSTANTS p1, p2, p3, i1, i2, u, other

Pay(draft, owner, amount, at, name) ==
    [draft |-> draft, owner |-> owner, amount |-> amount, at |-> at, name |-> name]
Inv(draft, owner, amount, date, name, created) ==
    [draft |-> draft, owner |-> owner, amount |-> amount, date |-> date, name |-> name, created |-> created]

\* Exact, near, refunded and missing amounts; the day, the evening, days later.
MCPaymentRows == {
    Pay(FALSE, u, 100, 2, <<1, 2, 3>>), Pay(FALSE, u, 95, 3, <<1, 2, 9, 3, 7, 8>>),
    Pay(FALSE, u, 100, 7, Missing), Pay(FALSE, u, -300, 3, <<4, 5, 6>>), Pay(FALSE, u, 0, 3, <<2, 3, 4>>),
    Pay(TRUE, u, 100, 2, <<1, 2, 3>>)}
MCInvoiceRows == {
    Inv(FALSE, u, 100, 1, <<1, 2, 3, 7, 8>>, 1), Inv(FALSE, u, 105, Missing, <<4, 5, 6>>, 2),
    Inv(FALSE, u, Missing, 1, <<1, 2, 3>>, 2)}
MCSuffixes == << <<7, 8>>, <<8>> >>
MCIgnored == {9}

MCLinkSets == {[i \in Invoices |-> Missing], [i \in Invoices |-> IF i = i1 THEN p1 ELSE Missing]}

PaymentSymmetry == Permutations({p2, p3})
=============================================================================
