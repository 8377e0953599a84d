------------------------- MODULE MCDurableSignals -------------------------
\* Small instances of DurableSignals.
EXTENDS DurableSignals, TLC

CONSTANTS
    Attempts,     \* one max_attempts for every consumer
    CoreSelects   \* the events the core consumers select; the others take all

MCMaxAttempts == [c \in Consumers |-> Attempts]
MCSelects == [c \in Consumers |-> IF c \in CoreConsumers THEN CoreSelects ELSE Events]
MCSymmetry == Permutations(Tokens)

=============================================================================
