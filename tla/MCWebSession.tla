----------------------------- MODULE MCWebSession -----------------------------
(***************************************************************************)
(* Instances of WebSession for TLC.                                        *)
(***************************************************************************)
EXTENDS WebSession

CONSTANTS p0, p1, c1, c2
=============================================================================
