----------------------------- MODULE MCFrontAuth -----------------------------
(* Instance of FrontAuth for TLC.                                            *)
EXTENDS FrontAuth
=============================================================================
