---------------------------- MODULE MCAddressing ----------------------------
(***************************************************************************)
(* Instances of Addressing for TLC.                                        *)
(***************************************************************************)
EXTENDS Addressing, TLC

SomeNodes == Permutations(Node)
=============================================================================
