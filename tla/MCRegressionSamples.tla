-------------------------- MODULE MCRegressionSamples --------------------------
EXTENDS RegressionSamples, TLC

\* Texts, rows and marks are interchangeable.
Symmetry == Permutations(Rows) \cup Permutations(Clients) \cup Permutations(Texts)
=============================================================================
