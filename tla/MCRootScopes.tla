----------------------------- MODULE MCRootScopes ------------------------------
(* Three nested blocks: a function, a loop in it and a branch in the loop, or *)
(* a function that calls another one with a block of its own.                 *)
EXTENDS RootScopes, TLC
Symmetry == Permutations(Objects) \cup Permutations(Names)
MCFeatureSets == {{}, {"struct"}, {"call"}, {"break"}, {"shadow"}, {"unheld"},
                  {"break", "shadow", "unheld"}}
=============================================================================
