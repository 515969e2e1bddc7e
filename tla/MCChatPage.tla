------------------------------ MODULE MCChatPage ------------------------------
(***************************************************************************)
(* Instances of ChatPage for TLC.                                          *)
(***************************************************************************)
EXTENDS ChatPage

CONSTANTS s1, s2, p1, p2
=============================================================================
