------------------------------ MODULE MCClWorker ------------------------------
(* Batches of up to two values and five values in all: a partly read batch, a *)
(* full one behind it, and more sends after a drain.                          *)
EXTENDS ClWorker
=============================================================================
