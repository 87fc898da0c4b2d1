------------------------------ MODULE RootScopes ------------------------------
(***************************************************************************)
(* How the generated C code keeps the collector's table of roots           *)
(* (write-c.go): a variable of pointer type is remembered after its        *)
(* declaration by let or const; the end of a block forgets the variables   *)
(* of that block, by name, and return forgets those of every block of the  *)
(* function before it evaluates its operand.  Parameters, iterators of     *)
(* foreach and the temporaries that the checker makes are not remembered.  *)
(* The module runs such code: a stack of blocks, whose variables sit at    *)
(* addresses that later blocks use again, the table as eyot-runtime-gc.c   *)
(* searches it, and a collector.                                           *)
(***************************************************************************)
EXTENDS Naturals, Sequences, FiniteSets, FiniteSetsExt, SequencesExt

CONSTANTS Names,       \* of variables
          Objects,     \* heap blocks
          NoObject,    \* the null pointer
          FeatureSets, \* the sets of AllFeatures that programs use
          MaxBlocks,   \* bound on the nesting of blocks and calls
          MaxVars,     \* bound on the variables of a block
          MaxTable     \* bound on the entries of the table

\* What a program may do: break; hide a name; have variables of types that
\* contain pointers; call a function (that may collect) in the middle of a
\* statement; give a parameter or an iterator a pointer that no variable holds.
AllFeatures == {"break", "shadow", "struct", "call", "unheld"}

ASSUME RootScopesAssumption == /\ NoObject \notin Objects
                               /\ FeatureSets \subseteq SUBSET AllFeatures
                               /\ MaxBlocks \in Nat /\ MaxVars \in Nat /\ MaxTable \in Nat

VARIABLES features,   \* chosen when the program starts
          blocks,     \* the blocks entered, outermost first
          memory,     \* the stack: what each address holds, or held last
          entries,    \* EyGCRegion.pointers
          allocated,  \* objects allocated and not freed
          temporaries, \* the objects that the statement at work has made or been given
          operand,    \* the object that the operand of a return is about
          returning,  \* the operand of a return is being evaluated
          codePanicked \* forget_root_pointer did not find the address

codeVars ==
    <<features, blocks, memory, entries, allocated, temporaries, operand, returning, codePanicked>>

StackAddresses == (1..MaxBlocks) \X (1..MaxVars)
PointerValue   == Objects \cup {NoObject}
Kinds          == {"function", "loop", "plain"}
Types          == {"pointer", "struct"} \* "struct": any type that is not a pointer
\* A bound variable is a parameter or an iterator.  A pinned one was remembered.
Variable       == [name : Names, type : Types, bound : BOOLEAN, pinned : BOOLEAN]
Bindings       == UNION {[1..n -> [name : Names, value : PointerValue]] : n \in 0..MaxVars}

CodeTypeOK ==
    /\ features \subseteq AllFeatures
    /\ blocks \in Seq([kind : Kinds, locals : Seq(Variable)])
    /\ memory \in [StackAddresses -> PointerValue]
    /\ entries \in Seq([inUse : BOOLEAN, ptr : StackAddresses])
    /\ allocated \subseteq Objects /\ temporaries \subseteq Objects /\ operand \in PointerValue
    /\ returning \in BOOLEAN /\ codePanicked \in BOOLEAN

CodeInit ==
    /\ features \in FeatureSets
    /\ blocks = <<>>
    /\ memory = [a \in StackAddresses |-> NoObject]
    /\ entries = <<>>
    /\ allocated = {} /\ temporaries = {} /\ operand = NoObject
    /\ returning = FALSE /\ codePanicked = FALSE

Top == Len(blocks)
Locals(b) == blocks[b].locals

\* The outermost block of the function that is running.
FunctionBase == Max({b \in 1..Top : blocks[b].kind = "function"})

InFunction(b) == b \in FunctionBase..Top

\* The variables that C code at this point can name, and what a name means:
\* the innermost declaration.
Declares(b, name) == \E i \in 1..Len(Locals(b)) : Locals(b)[i].name = name
Index(b, name) == CHOOSE i \in 1..Len(Locals(b)) : Locals(b)[i].name = name
Resolve(name) == LET b == Max({c \in FunctionBase..Top : Declares(c, name)})
                 IN  <<b, Index(b, name)>>

InScope == {a \in StackAddresses : a[1] \in 1..Top /\ a[2] \in 1..Len(Locals(a[1]))}
Pinned  == {a \in InScope : Locals(a[1])[a[2]].pinned}
Values  == {memory[a] : a \in InScope} \ {NoObject}
\* Values that the variables of the running code hold, and all it can use.
Held    == {memory[a] : a \in {b \in InScope : InFunction(b[1])}} \cup {NoObject}
Visible == Held \cup temporaries

-----------------------------------------------------------------------------
(* The table of roots                                                      *)

EntryFor(a) == [inUse |-> TRUE, ptr |-> a]

\* Mutant of Remembered: the entry that is used again need not be a free one.
RememberedAnywhere(t, a) ==
    IF t = <<>> THEN Append(t, EntryFor(a)) ELSE [t EXCEPT ![Len(t)] = EntryFor(a)]

\* The first free entry is used again.
Remembered(t, a) ==
    LET free == {i \in 1..Len(t) : ~t[i].inUse}
    IN  IF free = {} THEN Append(t, EntryFor(a)) ELSE [t EXCEPT ![Min(free)] = EntryFor(a)]

\* The first entry with its address, in use or not.
IsFirst(t, i) == \A j \in 1..(i - 1) : t[j].ptr # t[i].ptr

\* The addresses A are forgotten.  No call changes the address of an entry, so
\* that the order of the calls makes no difference.
ForgottenAll(t, A) ==
    [i \in 1..Len(t) |-> IF t[i].ptr \in A /\ IsFirst(t, i)
                         THEN [inUse |-> FALSE, ptr |-> t[i].ptr] ELSE t[i]]

Finds(t, a) == \E i \in 1..Len(t) : t[i].ptr = a

\* Mutant of Saved: every variable is saved, not only the pointers.
SavedUnpinned(b) == {Locals(b)[i].name : i \in 1..Len(Locals(b))}

\* CWriterScope.SavedPointers of a block: the names RememberLValue was given.
Saved(b) == {Locals(b)[i].name : i \in {j \in 1..Len(Locals(b)) : Locals(b)[j].pinned}}

\* exitScope, with what the names mean where the generated code runs.
ForgetNames(names) ==
    LET addresses == {Resolve(name) : name \in names}
    IN  /\ entries' = ForgottenAll(entries, addresses)
        /\ codePanicked' = \E a \in addresses : ~Finds(entries, a)

-----------------------------------------------------------------------------
\* A block; that of a function has its parameters, that of foreach its iterator.
\* The statement that calls is over as far as its temporaries are concerned:
\* one that uses them after the call is a matter of Collect.
Enter(kind, bound) ==
    /\ ~returning /\ Top < MaxBlocks
    /\ kind # "function" => Top > 0
    /\ bound # <<>> => kind = "function" \/ (kind = "loop" /\ Len(bound) = 1)
    /\ \A i \in 1..Len(bound) :
          /\ \A j \in 1..Len(bound) : bound[i].name = bound[j].name => i = j
          /\ bound[i].value \in IF "unheld" \in features THEN Visible ELSE Held
          /\ kind = "loop" =>
                /\ "unheld" \in features
                /\ \A b \in FunctionBase..Top : Declares(b, bound[i].name) => "shadow" \in features
    /\ blocks' = Append(blocks, [kind |-> kind, locals |-> [i \in 1..Len(bound) |->
          [name |-> bound[i].name, type |-> "pointer", bound |-> TRUE, pinned |-> FALSE]]])
    /\ memory' = [a \in StackAddresses |->
          IF a[1] = Top + 1 /\ a[2] \in 1..Len(bound) THEN bound[a[2]].value ELSE memory[a]]
    /\ temporaries' = {}
    /\ UNCHANGED <<features, entries, allocated, operand, returning, codePanicked>>

\* The checker's temporary for a new object, or for one that is received, which
\* it declares before the statement (PinPointers is false).
Allocate(o) ==
    /\ ~returning /\ Top > 0 /\ o \notin allocated
    /\ allocated' = allocated \cup {o}
    /\ temporaries' = temporaries \cup {o}
    /\ UNCHANGED <<features, blocks, memory, entries, operand, returning, codePanicked>>

\* A statement that keeps nothing of what it has made: nobody reads a temporary
\* after its statement.
EndStatement ==
    /\ temporaries # {} /\ temporaries' = {}
    /\ UNCHANGED <<features, blocks, memory, entries, allocated, operand, returning, codePanicked>>

\* RememberLValue: variables of pointer type, not those that contain pointers.
Pins(type) == type = "pointer"

\* let and const: a name is declared once in a block.
Let(name, type, o) ==
    /\ ~returning /\ Top > 0 /\ Len(Locals(Top)) < MaxVars
    /\ \A b \in FunctionBase..Top :
          Declares(b, name) => "shadow" \in features /\ b # Top
    /\ type = "struct" => "struct" \in features
    /\ o \in Visible
    /\ LET a == <<Top, Len(Locals(Top)) + 1>>
           v == [name |-> name, type |-> type, bound |-> FALSE, pinned |-> Pins(type)]
       IN  /\ blocks' = [blocks EXCEPT ![Top].locals = Append(@, v)]
           /\ memory' = [memory EXCEPT ![a] = o]
           /\ entries' = IF v.pinned THEN Remembered(entries, a) ELSE entries
           /\ Len(entries') <= MaxTable
    /\ temporaries' = {}
    /\ UNCHANGED <<features, allocated, operand, returning, codePanicked>>

\* Parameters and iterators can be assigned, too.
Reassign(a, o) ==
    /\ ~returning /\ a \in InScope /\ InFunction(a[1])
    /\ Locals(a[1])[a[2]].bound => "unheld" \in features
    /\ o \in Visible
    /\ memory' = [memory EXCEPT ![a] = o]
    /\ temporaries' = {}
    /\ UNCHANGED <<features, blocks, entries, allocated, operand, returning, codePanicked>>

\* The end of a block: a loop body, a branch, a function that returns nothing.
ExitBlock ==
    /\ ~returning /\ Top > 0
    /\ ForgetNames(Saved(Top))
    /\ blocks' = Front(blocks) /\ temporaries' = {}
    /\ UNCHANGED <<features, memory, allocated, operand, returning>>

\* break leaves the innermost loop and the blocks in it, and forgets nothing.
Break ==
    /\ "break" \in features /\ ~returning
    /\ \E loop \in FunctionBase..Top :
          /\ blocks[loop].kind = "loop"
          /\ \A b \in (loop + 1)..Top : blocks[b].kind # "loop"
          /\ blocks' = SubSeq(blocks, 1, loop - 1)
    /\ temporaries' = {}
    /\ UNCHANGED <<features, memory, entries, allocated, operand, returning, codePanicked>>

\* AboutToExitAllScopes, for all blocks of the function; the operand comes after it.
Return(o) ==
    /\ ~returning /\ Top > 0 /\ o \in Visible
    /\ ForgetNames(UNION {Saved(b) : b \in FunctionBase..Top})
    /\ operand' = o /\ returning' = TRUE /\ temporaries' = {}
    /\ UNCHANGED <<features, blocks, memory, allocated>>

\* The value of the call is the caller's to use.
Leave ==
    /\ returning
    /\ blocks' = SubSeq(blocks, 1, FunctionBase - 1)
    /\ temporaries' = {operand} \ {NoObject}
    /\ operand' = NoObject /\ returning' = FALSE
    /\ UNCHANGED <<features, memory, entries, allocated, codePanicked>>

\* Mutant of Followed: the last entry is not looked at.
FollowedButLast(t) == {t[i].ptr : i \in {j \in 1..(Len(t) - 1) : t[j].inUse}}

\* The addresses from which a collection starts.
Followed(t) == {t[i].ptr : i \in {j \in 1..Len(t) : t[j].inUse}}

\* ey_runtime_collect is called by the program: by a statement of its own or in
\* the middle of one, be it a return, that has evaluated some of its operands.
Collect ==
    /\ returning \/ temporaries # {} => "call" \in features
    /\ allocated' = allocated \cap {memory[a] : a \in Followed(entries)}
    /\ UNCHANGED <<features, blocks, memory, entries, temporaries, operand, returning, codePanicked>>

-----------------------------------------------------------------------------
CodeNext == /\ ~codePanicked
        /\ \/ \E kind \in Kinds, bound \in Bindings : Enter(kind, bound)
           \/ \E o \in Objects : Allocate(o)
           \/ EndStatement
           \/ \E name \in Names, type \in Types, o \in PointerValue : Let(name, type, o)
           \/ \E a \in StackAddresses, o \in PointerValue : Reassign(a, o)
           \/ ExitBlock \/ (Top > 0 /\ Break)
           \/ \E o \in PointerValue : Return(o)
           \/ Leave
           \/ Collect

CodeSpec == CodeInit /\ [][CodeNext]_codeVars

-----------------------------------------------------------------------------
(* Correctness                                                             *)

RootsAt(a) == {i \in 1..Len(entries) : entries[i].inUse /\ entries[i].ptr = a}

\* The pointers that let and const declare, but neither parameters nor iterators.
DeclaredPointers == {a \in InScope : /\ Locals(a[1])[a[2]].type = "pointer"
                                    /\ ~Locals(a[1])[a[2]].bound}

\* Whatever a program does, while stale entries pile up in the table, a pointer
\* variable that let or const has declared is a root as long as it is in scope.
\* The table holds each such variable once and nothing else: no parameter or
\* iterator, whose address the generated code would never forget, and no address
\* that has gone out of scope, so that a collection keeps nothing else.  (A break
\* forgets nothing, and with hidden names the wrong variable is forgotten.)
RootsInScope ==
    /\ CodeTypeOK
    /\ ~returning => \A a \in DeclaredPointers : RootsAt(a) # {}
    /\ ~returning /\ features \cap {"break", "shadow"} = {} =>
          \A a \in StackAddresses : Cardinality(RootsAt(a)) = IF a \in DeclaredPointers THEN 1 ELSE 0

\* "The pointer is not found in the stack list" (gc.c:406) never happens: the
\* generated code forgets only what it has remembered.  (Unless a pointer is
\* hidden by a variable that is not remembered.)
CodeForgetFinds ==
    ("shadow" \in features /\ features \cap {"struct", "unheld"} # {}) \/ ~codePanicked

\* "Eventually it would be deallocated on a run of the garbage collector once
\* there are no references left to it" (memory.md:30), and not before: nothing
\* that the program can use refers to an object that was freed, be it a variable
\* of any kind, a value that the statement at work has in its hands or the operand
\* of a return.  A parameter is no root, but what a variable of the caller holds
\* stays alive during the call.  (That is all it lives on: an argument that no
\* variable holds, as in f(new x), a parameter that is assigned and an iterator
\* are unheld.  Pointers inside variables of other types are no roots either, nor
\* is what a statement has evaluated when it calls a function; and during the
\* operand of a return the variables of its function are no roots any more.)
VariablesAlive ==
    features \cap {"struct", "call", "unheld"} = {} =>
        Values \cup temporaries \cup ({operand} \ {NoObject}) \subseteq allocated

=============================================================================
