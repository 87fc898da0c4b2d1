----------------------------- MODULE MCPlayground ------------------------------
(* Two clients with two requests each; one source is too long, one does not   *)
(* compile and two run, so that a client can hit what another has cached.     *)
EXTENDS Playground
=============================================================================
