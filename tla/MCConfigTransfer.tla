-------------------------- MODULE MCConfigTransfer --------------------------
(* ConfigTransfer with two blocks, one user and waits of a few ticks. *)
EXTENDS ConfigTransfer

\* What CompletedMeansPermanent needs of the bounds.
ASSUME FewSurplusReplies == SurplusReplies < StatusLength
=============================================================================
