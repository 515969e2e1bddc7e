---------------------------- MODULE MCPluginDialogs ----------------------------
(***************************************************************************)
(* Instances of PluginDialogs for TLC.                                     *)
(***************************************************************************)
EXTENDS PluginDialogs

CONSTANTS g1, g2, o1, o2
=============================================================================
