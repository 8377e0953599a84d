---------------------------- MODULE MCPushOutbox ----------------------------
\* Small instances of PushOutbox.
EXTENDS PushOutbox, TLC

Symmetry == Permutations(Workers)

=============================================================================
