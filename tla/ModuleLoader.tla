---------------------------- MODULE ModuleLoader ----------------------------
(* How the compiler loads a program (program/program.go, the import line of
   parser/parser.go and the error list of errors/errors.go): parsing a file
   parses and checks what the file imports, depth first, while the file's own
   parser waits; a module is parsed once and found in Program.Modules from
   then on; the ids of the files being parsed are passed down so that an
   import cycle is an error.  The first error makes every waiting parser give
   up.

   A file is the sequence of its imports: of its definitions the loader only
   sees that they do not parse, or that the check of the module finds errors,
   and both are part of the input. *)
EXTENDS Integers, Sequences, FiniteSets

CONSTANTS
  Ids,          \* module ids a file can be found under
  Root,         \* the module given on the command line
  Contents,     \* what a file may import, in order
  DefectSets    \* what may be wrong with a program

ASSUME LoaderAssumption ==
  /\ IsFiniteSet(Ids)
  /\ Root \in Ids
  /\ Contents \subseteq Seq(Ids)
  /\ DefectSets \subseteq [ unreadable : SUBSET Ids,
                            unparsable : SUBSET Ids,
                            illTyped   : SUBSET Ids,
                            badMain    : BOOLEAN ]

VARIABLES
  files,     \* the imports of each source file; nothing changes it
  defects,   \* what is wrong with the source files; nothing changes it
  stack,     \* the parsers at work, each waiting for the next one
  modules,   \* the keys of Program.Modules
  checked,   \* the modules CheckModule has finished with, in order
  functions, \* the modules merged into Program.Functions, in order
  clean,     \* Errors.Clean()
  phase      \* where ParseRoot is: "start", "loading", "done"

vars == <<files, defects, stack, modules, checked, functions, clean, phase>>

-----------------------------------------------------------------------------
Frame == [id : Ids, disallowedIds : SUBSET Ids, next : Nat \ {0}]

(* NewParser: the parser of a file starts at its first element. *)
NewParser(id, disallowed) == [id |-> id, disallowedIds |-> disallowed, next |-> 1]

Top == stack[Len(stack)]
Elements == files[Top.id]
Return == SubSeq(stack, 1, Len(stack) - 1)

(* The parser that waits goes on after its import. *)
\* Mutant of Advance: the tokens of the import are not consumed.
StandStill(s) == s
Advance(s) == [s EXCEPT ![Len(s)].next = @ + 1]

Parsing == phase = "loading" /\ stack # <<>> /\ clean
AtEof == Parsing /\ Top.next > Len(Elements) /\ Top.id \notin defects.unparsable
Import(x) == Parsing /\ Top.next <= Len(Elements) /\ Elements[Top.next] = x

Init ==
  /\ files \in [Ids -> Contents]
  /\ defects \in DefectSets
  /\ stack = <<>>
  /\ modules = {}
  /\ checked = <<>>
  /\ functions = <<>>
  /\ clean = TRUE
  /\ phase = "start"

(* ParseRoot starts the root's parser, with no id disallowed: the root's own
   id is not in the set. *)
ParseRoot ==
  /\ phase = "start"
  /\ IF Root \in defects.unreadable
     THEN /\ clean' = FALSE
          /\ phase' = "done"
          /\ stack' = stack
     ELSE /\ stack' = <<NewParser(Root, {})>>
          /\ phase' = "loading"
          /\ clean' = clean
  /\ UNCHANGED <<files, defects, modules, checked, functions>>

(* ImportLine, the imported module is on the way to this one. *)
ImportCycle ==
  /\ \E x \in Ids : Import(x) /\ x \in Top.disallowedIds
  /\ clean' = FALSE
  /\ UNCHANGED <<files, defects, stack, modules, checked, functions, phase>>

(* GetModule finds the module. *)
ImportLoaded ==
  /\ \E x \in Ids : Import(x) /\ x \notin Top.disallowedIds /\ x \in modules
  /\ stack' = Advance(stack)
  /\ UNCHANGED <<files, defects, modules, checked, functions, clean, phase>>

(* The ids the parser of an imported module must not import (GetModule). *)
\* Mutant of NewIds: the imported id itself is left out.
NewIdsWithoutItself(disallowed, id) == disallowed
NewIds(disallowed, id) == disallowed \cup {id}

(* GetModule starts a parser for the module; innerParse gives up before it
   does when there is no file, or the file, its ffi description or its tokens
   cannot be read. *)
\* Mutant of ImportNew: a file that cannot be read is passed over in silence.
ImportNewLenient ==
  /\ \E x \in Ids :
       /\ Import(x) /\ x \notin Top.disallowedIds /\ x \notin modules
       /\ stack' = IF x \in defects.unreadable THEN Advance(stack)
                   ELSE Append(stack, NewParser(x, NewIds(Top.disallowedIds, x)))
  /\ UNCHANGED <<files, defects, modules, checked, functions, clean, phase>>
ImportNew ==
  /\ \E x \in Ids :
       /\ Import(x) /\ x \notin Top.disallowedIds /\ x \notin modules
       /\ IF x \in defects.unreadable
          THEN clean' = FALSE /\ stack' = stack
          ELSE /\ stack' = Append(stack, NewParser(x, NewIds(Top.disallowedIds, x)))
               /\ clean' = clean
  /\ UNCHANGED <<files, defects, modules, checked, functions, phase>>

(* Something that is no top level element comes next: Module() finds no Eof. *)
SyntaxError ==
  /\ Parsing /\ Top.next > Len(Elements) /\ Top.id \in defects.unparsable
  /\ clean' = FALSE
  /\ UNCHANGED <<files, defects, stack, modules, checked, functions, phase>>

(* The file is parsed: innerParse registers the module and CheckModule runs
   its passes over it.  Only a module without errors has its functions merged
   into the program's, and the importer goes on only then.  For the root,
   ParseRoot looks for a main function whatever the passes said. *)
\* Mutant of Register: the module is not remembered, so that each import of it
\* parses it again.
RegisterNothing(id) == modules
Register(id) == modules \cup {id}

CheckModule(id) ==
  /\ checked' = Append(checked, id)
  /\ functions' = IF id \in defects.illTyped THEN functions ELSE Append(functions, id)

EndOfImported ==
  /\ AtEof /\ Len(stack) > 1
  /\ modules' = Register(Top.id)
  /\ CheckModule(Top.id)
  /\ clean' = (Top.id \notin defects.illTyped)
  /\ stack' = Advance(Return)
  /\ UNCHANGED <<files, defects, phase>>

EndOfRoot ==
  /\ AtEof /\ Len(stack) = 1
  /\ modules' = Register(Top.id)
  /\ CheckModule(Top.id)
  /\ clean' = (Top.id \notin defects.illTyped /\ ~defects.badMain)
  /\ stack' = <<>>
  /\ phase' = "done"
  /\ UNCHANGED <<files, defects>>

(* An error is on the list: Module() and innerParse return nil, the import
   line of the waiting parser logs that it found no module, and so on down to
   ParseRoot, one parser at a time. *)
GiveUp ==
  /\ phase = "loading" /\ ~clean /\ stack # <<>>
  /\ stack' = Return
  /\ phase' = IF Return = <<>> THEN "done" ELSE phase
  /\ UNCHANGED <<files, defects, modules, checked, functions, clean>>

Next ==
  \/ ParseRoot \/ ImportCycle \/ ImportLoaded \/ ImportNew \/ SyntaxError
  \/ EndOfImported \/ EndOfRoot \/ GiveUp

(* One thread runs the compiler and none of its steps waits for another. *)
Spec == Init /\ [][Next]_vars /\ WF_vars(Next)

-----------------------------------------------------------------------------
(* What a program must be for the compiler to accept it, said of its files
   alone. *)
Imports == { e \in Ids \X Ids :
               \E i \in 1 .. Len(files[e[1]]) : files[e[1]][i] = e[2] }
Successors(S) == { y \in Ids : \E x \in S : <<x, y>> \in Imports }

(* The modules that can be reached from those of S in one import or more: the
   least set that holds what S imports and what its own members import. *)
ReachableFrom(S) ==
  { y \in Ids : \A T \in SUBSET Ids :
                  Successors(S) \subseteq T /\ Successors(T) \subseteq T => y \in T }

Needed == {Root} \cup ReachableFrom({Root})

WellFormed ==
  /\ \A id \in Needed :
       /\ id \notin ReachableFrom({id})
       /\ id \notin defects.unreadable \cup defects.unparsable \cup defects.illTyped
  /\ ~defects.badMain

TypeOK ==
  /\ files \in [Ids -> Contents]
  /\ defects \in DefectSets
  /\ stack \in Seq(Frame)
  /\ modules \in SUBSET Ids
  /\ checked \in Seq(Ids)
  /\ functions \in Seq(Ids)
  /\ clean \in BOOLEAN
  /\ phase \in {"start", "loading", "done"}

(* The compiler accepts exactly the programs whose needed modules are all
   there, parse, check and import each other without a cycle, and then it has
   loaded exactly the needed modules: no error is lost on the way down the
   waiting parsers, and no correct program is refused. *)
VerdictIsRight ==
  phase = "done" =>
    /\ clean <=> WellFormed
    /\ clean => /\ modules = Needed
                /\ { functions[i] : i \in 1 .. Len(functions) } = Needed

(* A module is checked once, however many modules import it, and after every
   module it imports: the structures its parser copies from an imported module
   are those of a checked one, and no function is merged twice into the table
   the C writer numbers functions from. *)
ImportsFirst ==
  /\ TypeOK
  /\ \A i \in 1 .. Len(checked) : \A k \in 1 .. Len(files[checked[i]]) :
       \E j \in 1 .. (i - 1) : checked[j] = files[checked[i]][k]
  /\ \A i, j \in 1 .. Len(checked) : checked[i] = checked[j] => i = j
  /\ clean => functions = checked
  /\ \A i \in 1 .. Len(functions) : functions[i] \notin defects.illTyped

(* The parsers that wait for each other are never more than the modules plus
   one: whatever the imports are, the recursion of the import line is bounded.
   The one more is the root, whose id is not passed down: a cycle through it is
   found only when it is parsed a second time. *)
NestingIsBounded == Len(stack) <= Cardinality(Ids) + 1

(* Loading ends, whatever the files import. *)
LoadingEnds == <>(phase = "done")

(* Why it does, whatever the files import: no step leads back to a state that was
   left.  The end comes nearer in this order: the list of errors gets its first
   entry, and then parsers only return; while it is empty, modules are only added,
   and between two of them a parser only starts another one, within the bound
   above, or passes an import of its file. *)
Deeper(s, t) ==
  /\ Len(t) = Len(s) + 1 /\ Len(t) <= Cardinality(Ids) + 1
  /\ \A i \in 1 .. Len(s) : t[i] = s[i]
Further(s, t) ==
  /\ Len(t) = Len(s)
  /\ \A i \in 1 .. (Len(s) - 1) : t[i] = s[i]
  /\ t[Len(s)].id = s[Len(s)].id
  /\ s[Len(s)].next < t[Len(s)].next
  /\ t[Len(s)].next <= Len(files[s[Len(s)].id]) + 1

EndIsNearer ==
  \/ phase = "start" /\ phase' # "start"
  \/ clean /\ ~clean'
  \/ ~clean /\ ~clean' /\ Len(stack') < Len(stack)
  \/ clean /\ clean' /\ modules \subseteq modules' /\ modules # modules'
  \/ clean /\ clean' /\ modules' = modules /\ (Deeper(stack, stack') \/ Further(stack, stack'))

LoadingProgresses == [][EndIsNearer]_vars

=============================================================================
