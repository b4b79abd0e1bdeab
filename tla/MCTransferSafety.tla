-------------------------- MODULE MCTransferSafety --------------------------
(* TransferSafety with two clients, two images that share a checksum, and age
   limits small enough that Advance crosses every one of them. *)
EXTENDS TransferSafety

CONSTANT k1

\* Only the binding tells the two images apart.
MCCrc == [i \in Image |-> k1]
=============================================================================
