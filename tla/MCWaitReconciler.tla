-------------------------- MODULE MCWaitReconciler --------------------------
(***************************************************************************)
(* WaitReconciler for TLC.  The drivers are told apart: liveness is        *)
(* checked, so no symmetry is declared.                                    *)
(***************************************************************************)
EXTENDS WaitReconciler, TLC
=============================================================================
