----------------------------- MODULE MCSpooler -----------------------------
(* A ring of three slots and three distinguishable metrics: the head can   *)
(* stand at every slot, full and not, and wraps twice before the counter's *)
(* bound stops the pushes on a full ring.                                  *)
EXTENDS Spooler
=============================================================================
