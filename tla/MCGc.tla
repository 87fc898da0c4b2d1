--------------------------------- MODULE MCGc ---------------------------------
(* Three page addresses, so that a page can be freed between two others, and  *)
(* the addresses of two variables for a table that begins with one entry, so  *)
(* that it grows and keeps stale entries.  Three pointers in blocks make the  *)
(* longest cycle.                                                             *)
EXTENDS Gc, TLC
Symmetry == Permutations(Pages) \cup Permutations(Addresses)
=============================================================================
