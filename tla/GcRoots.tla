------------------------------- MODULE GcRoots -------------------------------
(***************************************************************************)
(* The table of stack pointers of the garbage collector                    *)
(* (remember_root_pointer and forget_root_pointer of eyot-runtime-gc.c).   *)
(*                                                                         *)
(* A variable of the generated code is registered by its address when it   *)
(* is declared and deregistered when its scope ends; the address may be    *)
(* used again by a later variable.  A deregistered entry keeps its         *)
(* address, and forget looks for the address only, so whether it releases  *)
(* the right entry depends on the order in which entries are reused.       *)
(***************************************************************************)
EXTENDS Naturals, Sequences

CONSTANTS Addresses,     \* of the variables
          NoAddress,     \* what an entry holds before its first use
          InitialSlots   \* pointers_allocated at creation

ASSUME GcRootsAssumption == /\ NoAddress \notin Addresses
                            /\ InitialSlots \in Nat

VARIABLES slots,      \* EyGCRegion.pointers
          panicked,   \* forget did not find the address
          live        \* history: the addresses registered now

vars == <<slots, panicked, live>>

Slot == [inUse : BOOLEAN, ptr : Addresses \cup {NoAddress}]

TypeOK == /\ slots \in Seq(Slot)
          /\ panicked \in BOOLEAN
          /\ live \subseteq Addresses

Init == /\ slots = [i \in 1..InitialSlots |-> [inUse |-> FALSE, ptr |-> NoAddress]]
        /\ panicked = FALSE
        /\ live = {}

Entry(p) == [inUse |-> TRUE, ptr |-> p]

\* Mutant of FirstFree: the search runs from the other end.
LastFree(i) == /\ ~slots[i].inUse
               /\ \A j \in 1..Len(slots) : j > i => slots[j].inUse

FirstFree(i) == /\ ~slots[i].inUse
                /\ \A j \in 1..Len(slots) : j < i => slots[j].inUse

\* ey_runtime_gc_remember_root_pointer; a variable is registered once
Remember(p) ==
    /\ p \notin live
    /\ live' = live \cup {p}
    /\ \/ \E i \in 1..Len(slots) :
            FirstFree(i) /\ slots' = [slots EXCEPT ![i] = Entry(p)]
       \/ /\ \A i \in 1..Len(slots) : slots[i].inUse
          /\ slots' = Append(slots, Entry(p))
    /\ UNCHANGED panicked

\* Mutant of Found: the search stops one entry early.
FoundShort(p, i) == /\ slots[i].ptr = p /\ i < Len(slots)
                    /\ \A j \in 1..Len(slots) : j < i => slots[j].ptr # p

\* The first entry with the address, whether it is in use or not.
Found(p, i) == /\ slots[i].ptr = p
               /\ \A j \in 1..Len(slots) : j < i => slots[j].ptr # p

\* ey_runtime_gc_forget_root_pointer; only a registered variable is forgotten
Forget(p) ==
    /\ p \in live
    /\ live' = live \ {p}
    /\ \/ \E i \in 1..Len(slots) : /\ Found(p, i)
                                   /\ slots' = [slots EXCEPT ![i].inUse = FALSE]
                                   /\ UNCHANGED panicked
       \/ /\ \A i \in 1..Len(slots) : ~Found(p, i)
          /\ panicked' = TRUE
          /\ UNCHANGED slots

Next == ~panicked /\ \E p \in Addresses : Remember(p) \/ Forget(p)

Spec == Init /\ [][Next]_vars

-----------------------------------------------------------------------------
(* Correctness                                                             *)

Used == {i \in 1..Len(slots) : slots[i].inUse}

\* The collector follows exactly the variables that are registered, each from
\* one entry: no variable in scope is missed, none out of scope is read.
RootsAreLive ==
    /\ \A p \in live : \E i \in Used : slots[i].ptr = p
    /\ \A i \in Used : slots[i].ptr \in live
    /\ \A i, j \in Used : slots[i].ptr = slots[j].ptr => i = j

\* No stale entry stands before the entry in use with the same address.
NoStaleBefore ==
    \A j \in Used : \A i \in 1..Len(slots) : i < j => slots[i].ptr # slots[j].ptr

\* Forgetting a registered variable never ends the program.
ForgetFinds == ~panicked
=============================================================================
