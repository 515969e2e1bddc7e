-------------------------- MODULE MCSessionRegistry --------------------------
(***************************************************************************)
(* Instances of SessionRegistry for TLC.                                   *)
(***************************************************************************)
EXTENDS SessionRegistry

CONSTANTS t1, t2, t3, c1, c2, c3, s1, s2, s3, s4, s5
=============================================================================
