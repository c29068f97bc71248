------------------------------ MODULE MCDiscovery ------------------------------
(***************************************************************************)
(* An instance of Discovery for TLC.  Other agents differ in name only.    *)
(***************************************************************************)
EXTENDS Discovery, TLC

MCSymmetry == Permutations(Peers)
================================================================================
