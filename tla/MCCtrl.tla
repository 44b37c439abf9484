------------------------------- MODULE MCCtrl -------------------------------
(***************************************************************************)
(* TLC instances of CtrlSystem.                                            *)
(***************************************************************************)
EXTENDS CtrlSystem, TLC

CONSTANTS a, b

\* The two hosts run the same script.
HostSymmetry == Permutations({a, b})
=============================================================================
