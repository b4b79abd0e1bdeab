------------------------ MODULE MCControllerSession ------------------------
(* ControllerSession with two sockets, so that a Compare can outlive its own. *)
EXTENDS ControllerSession
=============================================================================
