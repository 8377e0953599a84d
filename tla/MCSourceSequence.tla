------------------------- MODULE MCSourceSequence -------------------------
\* SourceSequence with four events and a counter exhausted at three.
EXTENDS SourceSequence, TLC

CONSTANTS e1, e2, e3, e4

MCEvents == {e1, e2, e3, e4}
MCSymmetry == Permutations(MCEvents)

=============================================================================
