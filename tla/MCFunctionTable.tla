--------------------------- MODULE MCFunctionTable ----------------------------
(* Two modules with functions of no, one and two arguments; the arguments are  *)
(* one word, two words and half a word.                                        *)
EXTENDS FunctionTable, TLC

MCModules    == <<"lib", "root">>
MCSignatures == <<"binary", "constant", "unary">>
MCTypes      == {"i64", "pair", "f32"}
MCArgTypes   == [binary |-> <<"pair", "f32">>, constant |-> <<>>, unary |-> <<"i64">>]
MCSize       == [i64 |-> 8, pair |-> 16, f32 |-> 4]
MCEstimate   == [i64 |-> 8, pair |-> 16, f32 |-> 4]
Symmetry     == Permutations(Names)
=============================================================================
