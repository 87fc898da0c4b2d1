-------------------------------- MODULE MCPipe --------------------------------
(* Two senders and two receivers on one pipe; five values pass the initial    *)
(* array size of two, so the array grows, and a second close is possible.     *)
EXTENDS Pipe
=============================================================================
