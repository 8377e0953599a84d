------------------------- MODULE MCInferenceLease -------------------------
\* Small instances of InferenceLease.
EXTENDS InferenceLease, TLC

\* Requests are interchangeable in the run without liveness properties.
Symmetry == Permutations(Requests)

=============================================================================
