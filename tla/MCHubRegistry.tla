--------------------------- MODULE MCHubRegistry ---------------------------
(* Two agents share two connections; connection numbers order the dials.   *)
EXTENDS HubRegistry
=============================================================================
