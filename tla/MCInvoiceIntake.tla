--------------------------- MODULE MCInvoiceIntake ----------------------------
EXTENDS InvoiceIntake, TLC

\* Rows, files and clients are interchangeable: no definition orders them.
Symmetry == Permutations(Rows) \cup Permutations(Files) \cup Permutations(Clients)
=============================================================================
