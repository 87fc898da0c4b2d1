------------------------------- MODULE Channel -------------------------------
(***************************************************************************)
(* What a pipe of the Eyot runtime promises to the threads that share it:  *)
(* an unbounded first-in first-out channel in which every value sent is    *)
(* received at most once and in the order of sending, and a receiver is    *)
(* told that the channel has ended only when it was closed and everything  *)
(* sent has been received, at most once per call of close.                 *)
(***************************************************************************)
EXTENDS Naturals, Sequences

CONSTANT Values     \* what may be sent

VARIABLES sent,     \* every value sent so far, oldest first
          received, \* every value received so far, oldest first
          closes,   \* calls of close so far
          ends      \* receives that were answered "no more values"

chanVars == <<sent, received, closes, ends>>

Init == /\ sent = <<>>
        /\ received = <<>>
        /\ closes = 0
        /\ ends = 0

Send(v) == /\ closes = 0
           /\ sent' = Append(sent, v)
           /\ UNCHANGED <<received, closes, ends>>

Receive == /\ Len(received) < Len(sent)
           /\ received' = Append(received, sent[Len(received) + 1])
           /\ UNCHANGED <<sent, closes, ends>>

Close == /\ closes' = closes + 1
         /\ UNCHANGED <<sent, received, ends>>

End == /\ received = sent
       /\ ends < closes
       /\ ends' = ends + 1
       /\ UNCHANGED <<sent, received, closes>>

Next == \/ \E v \in Values : Send(v)
        \/ Receive
        \/ Close
        \/ End

Spec == Init /\ [][Next]_chanVars
=============================================================================
