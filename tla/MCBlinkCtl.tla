----------------------------- MODULE MCBlinkCtl -----------------------------
(***************************************************************************)
(* TLC instances of BlinkCtl.                                              *)
(***************************************************************************)
EXTENDS BlinkCtl
=============================================================================
