-------------------------------- MODULE Worker -------------------------------
(***************************************************************************)
(* What a worker promises to the program that created it (workers.md): it  *)
(* applies its function to every value sent to it, once, and hands the     *)
(* results out in the order in which the values were accepted.             *)
(***************************************************************************)
EXTENDS Naturals, Sequences

CONSTANT Values        \* what is sent to the worker

VARIABLES accepted,    \* the values taken in, oldest first
          delivered    \* the results handed out, oldest first

workerVars == <<accepted, delivered>>

\* The value the worker's function returns for v.
Result(v) == <<"result", v>>

Init == /\ accepted = <<>>
        /\ delivered = <<>>

\* A vector of values is taken in, as a whole or in parts.
Accept == /\ accepted' \in Seq(Values)
          /\ Len(accepted) <= Len(accepted')
          /\ accepted = SubSeq(accepted', 1, Len(accepted))
          /\ UNCHANGED delivered

\* The next n results are handed out: one by receive, all of them by drain.
Deliver(n) ==
    /\ Len(delivered) + n <= Len(accepted)
    /\ delivered' = delivered \o [i \in 1..n |-> Result(accepted[Len(delivered) + i])]
    /\ UNCHANGED accepted

Next == Accept \/ \E n \in 1..Len(accepted) : Deliver(n)

Spec == Init /\ [][Next]_workerVars
=============================================================================
