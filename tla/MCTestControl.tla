--------------------------- MODULE MCTestControl ---------------------------
(* Two agents with a flow each way, two handlers at work at once. *)
EXTENDS TestControl, TLC

Symmetry == Permutations(Agent) \cup Permutations(Handler)
=============================================================================
