--------------------------- MODULE MCControllerNode ---------------------------
(* Two handlers and two updaters of settings; a browser without the token. *)
EXTENDS ControllerNode
=============================================================================
