---------------------------- MODULE Drain_proofs ----------------------------
(***************************************************************************)
(* What implementing Drain gives: a resource that is gone has no user.     *)
(***************************************************************************)
EXTENDS Drain, TLAPS

(***************************************************************************)
(* Nobody uses a resource that is new or gone, so an implementation (the   *)
(* route of a lease, a push generation) never takes one away from a user.  *)
(***************************************************************************)
THEOREM GoneStaysUnused == Spec => []GoneIsUnused
<1>1. Init => GoneIsUnused
  BY DEF Init, GoneIsUnused
<1>2. GoneIsUnused /\ [Next]_vars => GoneIsUnused'
  <2> SUFFICES ASSUME GoneIsUnused, [Next]_vars, NEW r \in Resources,
                      phase'[r] \in {"new", "gone"}
               PROVE users'[r] = {}
    BY DEF GoneIsUnused
  <2>1. CASE UNCHANGED vars
    BY <2>1 DEF vars, GoneIsUnused
  <2>2. CASE Next
    BY <2>2 DEF Next, Open, Enter, Leave, Shut, Retire, Abort, GoneIsUnused
  <2> QED BY <2>1, <2>2
<1> QED BY <1>1, <1>2, PTL DEF Spec

=============================================================================
