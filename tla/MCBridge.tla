------------------------------ MODULE MCBridge ------------------------------
(* Bridge with two polite browsers, or with one that starts sends while others
   of its own are running. *)
EXTENDS Bridge, TLC

CONSTANT k1

MCCrc == [i \in Image |-> k1]

\* The two browsers are alike.
MCSymmetry == Permutations(Owner)
=============================================================================
