--------------------------- MODULE MCModuleLoader ---------------------------
(* Every program of three modules with at most two imports each and at most
   one defect: three are enough for a cycle past the root and for a module
   that two others import. *)
EXTENDS ModuleLoader

MCContents == UNION { [1 .. n -> Ids] : n \in 0 .. 2 }

None == [unreadable |-> {}, unparsable |-> {}, illTyped |-> {}, badMain |-> FALSE]
MCDefectSets ==
  {None, [None EXCEPT !.badMain = TRUE]}
    \cup UNION { { [None EXCEPT !.unreadable = {id}],
                   [None EXCEPT !.unparsable = {id}],
                   [None EXCEPT !.illTyped = {id}] } : id \in Ids }
=============================================================================
