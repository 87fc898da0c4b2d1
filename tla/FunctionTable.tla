---------------------------- MODULE FunctionTable ----------------------------
(* The functions of a program, from their definitions to the closures that
   name them by number (ast/functions.go, the function tables of write-c.go,
   eyot-runtime-common.h and eyot-runtime-closures.c).

   The check of a module collects its functions in a group: by signature, and
   for each signature by location (which targets a function is for).  Groups
   are merged in the order in which modules are checked, and numbered.  The
   compiler then writes the program twice, for the GPU and for the CPU, each
   time with the functions of that target only: an enumeration of the numbers
   and switches that give the arguments of a number and call it.  A closure
   is a block of bytes that starts with a number; it is made by CPU code and
   called on either target, so both must agree on numbers and layout.

   A function may have two definitions, for the CPU and for the GPU. *)
EXTENDS Naturals, Sequences, FiniteSets, SequencesExt, Functions

CONSTANTS
  Modules,      \* in the order in which they are checked
  Names,        \* of functions in a module
  Signatures,   \* in the order of FunctionSignature.MapKey
  Types,        \* of arguments
  ArgTypes,     \* the argument types of each signature
  Size,         \* sizeof, of each type
  Estimate,     \* Type.EstimateCSize, of each type
  None,
  MaxFunctions, \* bound on the definitions of a program
  MaxPartials   \* bound on its partial applications

Sigs == Range(Signatures)

ASSUME FunctionTableAssumption ==
  /\ Modules \in Seq(Range(Modules)) /\ IsInjective(Modules)
  /\ Signatures \in Seq(Sigs) /\ IsInjective(Signatures)
  /\ ArgTypes \in [Sigs -> Seq(Types)]
  /\ Size \in [Types -> Nat] /\ Estimate \in [Types -> Nat]

Locations == {"cpu", "gpu", "anywhere"}
Targets   == {"cpu", "gpu"}

ASSUME NoneAssumption == None \notin Locations

\* CanWriteRequirement
CanWrite(target, location) == location \in {target, "anywhere"}

FunctionId == [module : Range(Modules), name : Names]
Definition == [fid : FunctionId, sig : Sigs, location : Locations]

VARIABLES
  module,         \* the index of the module that is checked
  ctxFunctions,   \* CheckContext.Functions, of that module
  ctxClosureSize, \* CheckContext.maximumClosureSize
  functions,      \* Program.Functions
  closureSize,    \* Program.MaximumClosureSize
  failed,         \* an error was logged
  code,           \* the tables written for each target
  closure,        \* in memory
  result,         \* what the last call of the closure did
  defined,        \* history: the definitions that were accepted
  partials        \* history: the partial applications in the program

checking == <<module, ctxFunctions, ctxClosureSize, functions, closureSize, failed,
              defined, partials>>
running  == <<closure, result>>
vars     == <<checking, code, running>>

-----------------------------------------------------------------------------
(* FunctionGroup.  A signature has a set once location is not None.        *)

FunctionSet == [location : Locations \cup {None}, allIds : [Locations -> Seq(FunctionId)]]

NewGroup == [s \in Sigs |-> [location |-> None, allIds |-> [l \in Locations |-> <<>>]]]

\* The signature of a set is that of the first function in it, with its location.
WithId(set, fid, l) ==
  [location |-> IF set.location = None THEN l ELSE set.location,
   allIds |-> IF fid \in Range(set.allIds[l]) THEN set.allIds
              ELSE [set.allIds EXCEPT ![l] = Append(@, fid)]]

\* The signatures under which FindSignature may find an id.
FoundUnder(group, fid) ==
  {s \in Sigs : \E l \in Locations : fid \in Range(group[s].allIds[l])}

\* Mutant of Merged: the set of a module replaces the one there was.
MergedOver(group, other) ==
  [s \in Sigs |-> IF other[s].location = None THEN group[s] ELSE other[s]]

\* FunctionGroup.MergeIn
Merged(group, other) ==
  [s \in Sigs |-> IF group[s].location = None THEN other[s]
                  ELSE [location |-> group[s].location,
                        allIds |-> [l \in Locations |-> group[s].allIds[l] \o other[s].allIds[l]]]]

\* FunctionEntries: the order of FunctionLocations() inside that of the keys.
Entries(group) ==
  LET Of(s, l) == [i \in 1..Len(group[s].allIds[l]) |->
                     [fid |-> group[s].allIds[l][i], sig |-> s, location |-> l]]
  IN  FlattenSeq([k \in 1..Len(Signatures) |->
        Of(Signatures[k], "cpu") \o Of(Signatures[k], "gpu") \o Of(Signatures[k], "anywhere")])

-----------------------------------------------------------------------------
Init == /\ module = 1 /\ failed = FALSE
        /\ ctxFunctions = NewGroup /\ functions = NewGroup
        /\ ctxClosureSize = 0 /\ closureSize = 0
        /\ code = [t \in Targets |-> None]
        /\ closure = None /\ result = None
        /\ defined = {} /\ partials = {}

Checking == module <= Len(Modules) /\ ~failed

\* The test of FunctionGroup.Add, which only knows the module's own functions.
Consistent(d) == FoundUnder(ctxFunctions, d.fid) \subseteq {d.sig}

\* FunctionDefinition.AddToContext, in passes before that of CheckPartial.  The
\* functions of a structure come twice.
Define(d) ==
  /\ Checking /\ ctxClosureSize = 0 /\ d.fid.module = Modules[module]
  /\ IF Consistent(d)
     THEN /\ ctxFunctions' = [ctxFunctions EXCEPT ![d.sig] = WithId(@, d.fid, d.location)]
          /\ defined' = defined \cup {d}
          /\ Cardinality(defined') <= MaxFunctions
          /\ UNCHANGED failed
     ELSE failed' = TRUE /\ UNCHANGED <<ctxFunctions, defined>>
  /\ UNCHANGED <<module, ctxClosureSize, functions, closureSize, code, running, partials>>

SumOver(f) ==
  LET sum[n \in 0..Len(f)] == IF n = 0 THEN 0 ELSE sum[n - 1] + f[n]
  IN  sum[Len(f)]

\* ClosureExpression.Check: a header of 8 bytes, and 8 with each argument.
EstimatedSize(sig) ==
  8 + SumOver([i \in 1..Len(ArgTypes[sig]) |-> Estimate[ArgTypes[sig][i]] + 8])

Larger(m, n) == IF m > n THEN m ELSE n

\* "partial f(...)" with the arguments at some positions; the parser refuses
\* a function without arguments.
CheckPartial(d, supplied) ==
  /\ Checking /\ d \in defined /\ Cardinality(partials) < MaxPartials
  /\ supplied \subseteq 1..Len(ArgTypes[d.sig]) /\ ArgTypes[d.sig] # <<>>
  /\ ctxClosureSize' = Larger(ctxClosureSize, EstimatedSize(d.sig))
  /\ partials' = partials \cup {[fid |-> d.fid, sig |-> d.sig, supplied |-> supplied]}
  /\ UNCHANGED <<module, ctxFunctions, functions, closureSize, failed, code, running, defined>>

\* Mutant of ProgramClosureSize: the size of the last module is kept.
LastClosureSize == ctxClosureSize

ProgramClosureSize == Larger(closureSize, ctxClosureSize)

\* The end of CheckModule, and the context of the next one.
EndModule ==
  /\ Checking
  /\ functions' = Merged(functions, ctxFunctions)
  /\ closureSize' = ProgramClosureSize
  /\ module' = module + 1
  /\ ctxFunctions' = NewGroup /\ ctxClosureSize' = 0
  /\ UNCHANGED <<failed, code, running, defined, partials>>

-----------------------------------------------------------------------------
(* What is written for a target                                            *)

\* Mutant of Cases: each target numbers only the functions that it has.
CasesOwn(t) ==
  LET es == SelectSeq(Entries(functions), LAMBDA e : CanWrite(t, e.location))
  IN  {[number |-> i - 1, fid |-> es[i].fid, sig |-> es[i].sig,
        dispatched |-> CanWrite(t, functions[es[i].sig].location)] : i \in 1..Len(es)}

\* WriteNewFunctionEnum, WriteArgCountFunction, WriteFunctionArgSize and
\* WriteFunctionCaller: one case for each function that the target has.  The
\* last two ask the location of the set, not that of the function, and write
\* an empty case if it is not for this target.
Cases(t) ==
  LET es == Entries(functions)
  IN  {[number |-> i - 1, fid |-> es[i].fid, sig |-> es[i].sig,
        dispatched |-> CanWrite(t, functions[es[i].sig].location)] :
           i \in {j \in 1..Len(es) : CanWrite(t, es[j].location)}}

\* WriteProgram, of a program that needs the GPU: the program for the GPU is a
\* string in that for the CPU.
WriteTarget(t) ==
  /\ module > Len(Modules) /\ ~failed
  /\ code[t] = None /\ (t = "cpu" => code["gpu"] # None)
  /\ code' = [code EXCEPT ![t] = Cases(t)]
  /\ UNCHANGED <<checking, running>>

\* The C compilers refuse an enumeration with the same name twice.
Compiles == \A t \in Targets : /\ code[t] # None
                               /\ \A c, d \in code[t] : c.fid = d.fid => c = d

-----------------------------------------------------------------------------
(* Closures, in the layout that a target works out from its tables.  A case
   c is one of the target's.  The value of argument i is the number i.     *)

ArgSize(c, i) == IF c.dispatched THEN Size[ArgTypes[c.sig][i]] ELSE 0

\* ey_generated_closure_arg_step_size
Step(n) == ((n + 7) \div 8) * 8

\* ey_closure_arg_pointer
Offset(c, i) == 8 + 8 * Len(ArgTypes[c.sig]) + SumOver([j \in 1..(i - 1) |-> Step(ArgSize(c, j))])

\* ey_generated_closure_size
ByteSize(c) == 8 + SumOver([i \in 1..Len(ArgTypes[c.sig]) |-> Step(ArgSize(c, i)) + 8])

\* ey_closure_create with the number that the name has in the CPU code: the
\* arguments that were supplied are copied to their places.
ClosureOf(p, c) ==
  LET Written == {i \in p.supplied : ArgSize(c, i) > 0}
      At(i)   == Offset(c, i)
  IN  [number |-> c.number, exists |-> p.supplied, partial |-> p,
       data |-> [o \in {At(i) : i \in Written} |-> CHOOSE i \in Written : At(i) = o]]

CreateClosure(p) ==
  /\ Compiles /\ p \in partials
  /\ \E c \in code["cpu"] : c.fid = p.fid /\ closure' = ClosureOf(p, c)
  /\ result' = None
  /\ UNCHANGED <<checking, code>>

\* ey_runtime_closure_copy, at the start of a kernel
Copied(c, data) == Restrict(data, {o \in DOMAIN data : o < ByteSize(c)})

\* ey_closure_call: an argument is one of the call, or what is read from the
\* closure; of a structure without fields there is nothing to read.  A number
\* without a case has no argument count: the code reads a value that was never
\* returned (None).
Called(t) ==
  IF \A c \in code[t] : c.number # closure.number THEN None
  ELSE LET c    == CHOOSE c \in code[t] : c.number = closure.number
           data == IF t = "gpu" THEN Copied(c, closure.data) ELSE closure.data
           Argument(i) ==
             IF i \notin closure.exists \/ Size[ArgTypes[c.sig][i]] = 0 THEN i
             ELSE IF Offset(c, i) \in DOMAIN data THEN data[Offset(c, i)]
             ELSE None
       IN  [fid  |-> IF c.dispatched THEN c.fid ELSE None,
            args |-> [i \in 1..Len(ArgTypes[c.sig]) |-> Argument(i)]]

\* A call with the arguments that are missing, of which a kernel passes one.
CallClosure(t) ==
  /\ closure # None /\ result = None
  /\ t = "gpu" => Cardinality((1..Len(ArgTypes[closure.partial.sig])) \ closure.exists) = 1
  /\ result' = [target |-> t, did |-> Called(t)]
  /\ UNCHANGED <<checking, code, closure>>

Next == \/ \E d \in Definition : Define(d)
        \/ \E d \in defined : \E supplied \in SUBSET (1..Len(ArgTypes[d.sig])) :
             CheckPartial(d, supplied)
        \/ EndModule
        \/ \E t \in Targets : WriteTarget(t)
        \/ \E p \in partials : CreateClosure(p)
        \/ \E t \in Targets : CallClosure(t)

Spec == Init /\ [][Next]_vars

-----------------------------------------------------------------------------
(* Correctness                                                             *)

Group == [Sigs -> FunctionSet]

TypeOK ==
  /\ module \in 1..(Len(Modules) + 1) /\ failed \in BOOLEAN
  /\ ctxFunctions \in Group /\ functions \in Group
  /\ defined \subseteq Definition

InGroup(group) ==
  {d \in Definition : d.fid \in Range(group[d.sig].allIds[d.location])}

\* No id is listed twice for one signature and location.
ListedOnce(group) ==
  \A s \in Sigs, l \in Locations : IsInjective(group[s].allIds[l])

\* Whatever the modules define, and however their groups are merged, the
\* groups hold each definition exactly once, and a function has one signature
\* in the whole program although only the functions of its own module are
\* compared (functions.go:280).
GroupsHoldDefinitions ==
  /\ TypeOK
  /\ InGroup(functions) \cup InGroup(ctxFunctions) = defined
  /\ ListedOnce(functions) /\ ListedOnce(ctxFunctions)
  /\ \A d, e \in defined : d.fid = e.fid => d.sig = e.sig

\* A closure, called on the CPU or as a GPU worker, calls the function it was
\* made from with the arguments it was given.  This asks that the first
\* function with its signature can be written for the CPU and for the target
\* (write-c.go:1677), and on the GPU that it is one definition for both.
ClosureCallsItsFunction ==
  result # None =>
    LET p == closure.partial
        t == result.target
    IN  /\ \A u \in {"cpu", t} : CanWrite(u, functions[p.sig].location)
        /\ t = "gpu" => [fid |-> p.fid, sig |-> p.sig, location |-> "anywhere"] \in defined
        => result.did = [fid |-> p.fid, args |-> [i \in 1..Len(ArgTypes[p.sig]) |-> i]]

\* A closure fits the buffer that a kernel has for it, which is as large as
\* the largest estimate in any module.  (The estimate of a 32 bit float, and
\* of a structure with one, does not count the bytes that align it.)
ClosureFits ==
  closure # None =>
    LET sig == closure.partial.sig
    IN  (\A i \in 1..Len(ArgTypes[sig]) : Estimate[ArgTypes[sig][i]] >= Step(Size[ArgTypes[sig][i]]))
        => \A t \in Targets : \A c \in code[t] :
             c.fid = closure.partial.fid => ByteSize(c) <= closureSize

\* "A global integer id, same on c/gpu" (functions.go:177): a function that
\* is written for both targets has the same number on both.
SameNumberOnBothTargets ==
  Compiles => \A c \in code["cpu"], d \in code["gpu"] : c.fid = d.fid => c.number = d.number
=============================================================================
