-------------------------- MODULE MCDeliveryQueue --------------------------
(***************************************************************************)
(* DeliveryQueue for TLC: entry ids and keys are interchangeable.          *)
(***************************************************************************)
EXTENDS DeliveryQueue, TLC

Symmetry == Permutations(Entries) \union Permutations(Keys)
=============================================================================
