------------------------- MODULE ModuleLoader_proofs -------------------------
(* Proofs, for any set of module ids and any import relation, that the
   recursion of the import line is bounded, that every module is checked once,
   after the modules it imports, and that each step brings the end nearer.

   The second needs to know why the root, whose id is not passed down and which
   an import cycle therefore parses a second time, is never registered by that
   second parser: it stops, at the latest, at the import at which the first one
   waits (SecondRootBehind). *)
EXTENDS ModuleLoader, SequenceTheorems, FiniteSetTheorems, TLAPS

(* The ids passed down are those of the parsers at work, but for the root's. *)
Path ==
  /\ stack # <<>> => stack[1].id = Root
  /\ \A i \in 1 .. Len(stack) : \A x \in Ids :
       x \in stack[i].disallowedIds <=> \E j \in 2 .. i : stack[j].id = x
  /\ \A i, j \in 2 .. Len(stack) : stack[i].id = stack[j].id => i = j

(* There is one of them for each parser after the root's. *)
Nested == \A i \in 1 .. Len(stack) : Cardinality(stack[i].disallowedIds) = i - 1

(* A parser waits at the import that the next one parses. *)
Waiting ==
  \A i \in 1 .. (Len(stack) - 1) :
    /\ stack[i].next <= Len(files[stack[i].id])
    /\ files[stack[i].id][stack[i].next] = stack[i + 1].id

(* What a parser has left behind it is registered, and what it parses is not. *)
Passed ==
  \A i \in 1 .. Len(stack) :
    /\ \A k \in 1 .. Len(files[stack[i].id]) :
         k < stack[i].next => files[stack[i].id][k] \in modules
    /\ stack[i].id \notin modules

SecondRootBehind ==
  \A i \in 2 .. Len(stack) : stack[i].id = Root => stack[i].next <= stack[1].next

Registered ==
  /\ \A x \in Ids : x \in modules <=> \E i \in 1 .. Len(checked) : checked[i] = x
  /\ phase = "start" => modules = {} /\ stack = <<>>

IInv ==
  TypeOK /\ Path /\ Nested /\ Waiting /\ Passed /\ SecondRootBehind /\ Registered
  /\ ImportsFirst

-----------------------------------------------------------------------------
LEMMA StackShape ==
  ASSUME TypeOK
  PROVE  /\ Len(stack) \in Nat
         /\ \A i \in 1 .. Len(stack) :
              /\ stack[i] \in Frame
              /\ stack[i].id \in Ids
              /\ stack[i].disallowedIds \in SUBSET Ids
              /\ stack[i].next \in Nat \ {0}
         /\ stack # <<>> => Len(stack) \in 1 .. Len(stack) /\ Top = stack[Len(stack)]
<1>1. stack \in Seq(Frame) /\ Len(stack) \in Nat
  BY LenProperties DEF TypeOK
<1>2. \A i \in 1 .. Len(stack) : stack[i] \in Frame
  BY <1>1, ElementOfSeq
<1>3. stack # <<>> => Len(stack) # 0
  BY <1>1, EmptySeq
<1> QED
  BY <1>1, <1>2, <1>3 DEF Frame, Top

LEMMA FilesShape ==
  ASSUME TypeOK, NEW id \in Ids
  PROVE  /\ files[id] \in Seq(Ids)
         /\ Len(files[id]) \in Nat
         /\ \A k \in 1 .. Len(files[id]) : files[id][k] \in Ids
<1>1. files[id] \in Seq(Ids)
  BY LoaderAssumption DEF TypeOK
<1> QED
  BY <1>1, LenProperties, ElementOfSeq

(* The stack once the parser on top has returned. *)
LEMMA ReturnFacts ==
  ASSUME TypeOK, stack # <<>>
  PROVE  /\ Return \in Seq(Frame)
         /\ Len(Return) = Len(stack) - 1
         /\ \A i \in 1 .. (Len(stack) - 1) : Return[i] = stack[i]
<1> DEFINE n == Len(stack) - 1
<1>1. n \in Nat /\ \A i \in 1 .. n : stack[i] \in Frame
  BY StackShape
<1>2. Return = SubSeq(stack, 1, n)
  BY DEF Return
<1> HIDE DEF n
<1>3. /\ Return \in Seq(Frame)
      /\ Len(Return) = IF 1 <= n THEN n - 1 + 1 ELSE 0
      /\ \A i \in 1 .. (n - 1 + 1) : Return[i] = stack[1 + i - 1]
  BY <1>1, <1>2, SubSeqProperties
<1>4. ASSUME NEW i \in 1 .. n
      PROVE  Return[i] = stack[i]
  <2>1. i \in 1 .. (n - 1 + 1) /\ 1 + i - 1 = i
    BY <1>1
  <2> QED
    BY <1>3, <2>1
<1>5. Len(Return) = n
  BY <1>1, <1>3
<1> QED
  BY <1>3, <1>4, <1>5 DEF n

(* The stack once the parser on top has passed its import. *)
LEMMA AdvanceFacts ==
  ASSUME NEW s \in Seq(Frame), Len(s) # 0
  PROVE  /\ Advance(s) \in Seq(Frame)
         /\ Len(Advance(s)) = Len(s)
         /\ \A i \in 1 .. (Len(s) - 1) : Advance(s)[i] = s[i]
         /\ Advance(s)[Len(s)].id = s[Len(s)].id
         /\ Advance(s)[Len(s)].disallowedIds = s[Len(s)].disallowedIds
         /\ Advance(s)[Len(s)].next = s[Len(s)].next + 1
<1>1. Len(s) \in Nat /\ Len(s) \in 1 .. Len(s)
  BY LenProperties
<1>2. s[Len(s)] \in Frame
  BY <1>1, ElementOfSeq
<1> DEFINE f == [s[Len(s)] EXCEPT !.next = @ + 1]
<1>3. /\ f \in Frame
      /\ f.id = s[Len(s)].id
      /\ f.disallowedIds = s[Len(s)].disallowedIds
      /\ f.next = s[Len(s)].next + 1
  BY <1>2 DEF Frame
<1>4. Advance(s) = [s EXCEPT ![Len(s)] = f]
  BY DEF Advance
<1> HIDE DEF f
<1> QED
  BY <1>1, <1>3, <1>4, ExceptSeq

-----------------------------------------------------------------------------
LEMMA InitEstablishes == Init => IInv
<1> SUFFICES ASSUME Init PROVE IInv
  OBVIOUS
<1>1. stack = <<>> /\ checked = <<>> /\ functions = <<>> /\ modules = {}
  BY DEF Init
<1>2. Len(stack) = 0 /\ Len(checked) = 0 /\ Len(functions) = 0
  BY <1>1
<1>3. TypeOK
  BY <1>1 DEF Init, TypeOK
<1>4. Path /\ Nested /\ Waiting /\ Passed /\ SecondRootBehind
  BY <1>1, <1>2 DEF Path, Nested, Waiting, Passed, SecondRootBehind
<1>5. Registered
  BY <1>1, <1>2 DEF Registered
<1>6. ImportsFirst
  BY <1>1, <1>2, <1>3 DEF ImportsFirst
<1> QED
  BY <1>3, <1>4, <1>5, <1>6 DEF IInv

(* The stack unchanged, or shorter, and no module registered or checked. *)
LEMMA KeepsPath ==
  ASSUME IInv, UNCHANGED <<files, defects, modules, checked, functions>>,
         TypeOK', phase' # "start",
         Len(stack') <= Len(stack),
         \A i \in 1 .. Len(stack') : stack'[i] = stack[i]
  PROVE  Path' /\ Nested' /\ Waiting' /\ Passed' /\ SecondRootBehind' /\ Registered'
<1>1. /\ Len(stack) \in Nat /\ Len(stack') \in Nat
      /\ stack' # <<>> => Len(stack') # 0
  BY LenProperties, EmptySeq DEF IInv, TypeOK
<1>2. Path'
  <2>1. stack' # <<>> => stack # <<>> /\ stack'[1].id = Root
    BY <1>1 DEF IInv, Path
  <2> QED
    BY <1>1, <2>1, SMTT(30) DEF IInv, Path
<1>3. Nested' /\ Waiting'
  <2>1. Nested'
    BY <1>1 DEF IInv, Nested
  <2>2. \A i \in 1 .. (Len(stack') - 1) :
          /\ i \in 1 .. (Len(stack) - 1)
          /\ stack'[i] = stack[i] /\ stack'[i + 1] = stack[i + 1]
    BY <1>1
  <2>3. Waiting'
    BY <2>2 DEF IInv, Waiting
  <2> QED
    BY <2>1, <2>3
<1>4. Passed'
  BY <1>1 DEF IInv, Passed
<1>5. SecondRootBehind'
  BY <1>1 DEF IInv, SecondRootBehind
<1>6. Registered'
  BY DEF IInv, Registered
<1> QED
  BY <1>2, <1>3, <1>4, <1>5, <1>6

(* An error may be added to the list at any time. *)
LEMMA KeepsImportsFirst ==
  ASSUME IInv, UNCHANGED <<files, defects, checked, functions>>, clean' => clean, TypeOK'
  PROVE  ImportsFirst'
BY DEF IInv, ImportsFirst

LEMMA ParseRootPreserves ==
  ASSUME IInv, ParseRoot
  PROVE  IInv'
<1>1. stack = <<>> /\ Len(stack) = 0
  BY DEF IInv, Registered, ParseRoot
<1>2. CASE Root \in defects.unreadable
  <2>1. stack' = stack /\ phase' = "done" /\ clean' = FALSE
    BY <1>2 DEF ParseRoot
  <2>2. TypeOK'
    BY <2>1 DEF ParseRoot, IInv, TypeOK
  <2> QED
    BY <2>1, <2>2, KeepsPath, KeepsImportsFirst, <1>1 DEF IInv, ParseRoot
<1>3. CASE Root \notin defects.unreadable
  <2> DEFINE f == NewParser(Root, {})
  <2>1. stack' = <<f>> /\ phase' = "loading" /\ clean' = clean
    BY <1>3 DEF ParseRoot
  <2>2. f \in Frame /\ f.id = Root /\ f.disallowedIds = {} /\ f.next = 1
    BY LoaderAssumption DEF NewParser, Frame
  <2> HIDE DEF f
  <2>3. Len(stack') = 1 /\ stack'[1] = f /\ stack' \in Seq(Frame)
    BY <2>1, <2>2
  <2>4. TypeOK'
    BY <2>1, <2>3 DEF ParseRoot, IInv, TypeOK
  <2>5. Path' /\ Waiting' /\ SecondRootBehind'
    BY <2>2, <2>3 DEF Path, Waiting, SecondRootBehind
  <2>6. Nested'
    <3>1. Cardinality({}) = 0 /\ 1 - 1 = 0
      BY FS_EmptySet
    <3>2. \A i \in 1 .. Len(stack') : i = 1
      BY <2>3
    <3> QED
      BY <2>2, <2>3, <3>1, <3>2 DEF Nested
  <2>7. modules = {} /\ modules' = {}
    BY DEF IInv, Registered, ParseRoot
  <2>8. Passed'
    <3>1. Root \in Ids /\ files' = files
      BY LoaderAssumption DEF ParseRoot
    <3> QED
      BY <2>2, <2>3, <2>7, <3>1, FilesShape DEF Passed, IInv
  <2>9. Registered'
    BY <2>1 DEF IInv, Registered, ParseRoot
  <2> QED
    BY <2>1, <2>4, <2>5, <2>6, <2>8, <2>9, KeepsImportsFirst DEF IInv, ParseRoot
<1> QED
  BY <1>2, <1>3

LEMMA ErrorPreserves ==
  ASSUME IInv, ImportCycle \/ SyntaxError
  PROVE  IInv'
<1>1. /\ UNCHANGED <<files, defects, stack, modules, checked, functions, phase>>
      /\ clean' = FALSE /\ phase = "loading"
  BY DEF ImportCycle, SyntaxError, Import, Parsing
<1>2. TypeOK'
  BY <1>1 DEF IInv, TypeOK
<1>3. Len(stack) \in Nat
  BY StackShape DEF IInv
<1> QED
  BY <1>1, <1>2, <1>3, KeepsPath, KeepsImportsFirst DEF IInv

LEMMA GiveUpPreserves ==
  ASSUME IInv, GiveUp
  PROVE  IInv'
<1>1. /\ UNCHANGED <<files, defects, modules, checked, functions, clean>>
      /\ stack # <<>> /\ stack' = Return /\ phase' \in {"loading", "done"}
  BY DEF GiveUp
<1>2. /\ stack' \in Seq(Frame) /\ Len(stack') <= Len(stack)
      /\ \A i \in 1 .. Len(stack') : stack'[i] = stack[i]
  <2>1. Len(stack) \in Nat
    BY StackShape DEF IInv
  <2> QED
    BY <1>1, <2>1, ReturnFacts DEF IInv
<1>3. TypeOK'
  BY <1>1, <1>2 DEF IInv, TypeOK
<1> QED
  BY <1>1, <1>2, <1>3, KeepsPath, KeepsImportsFirst DEF IInv

-----------------------------------------------------------------------------
(* What a parser that comes to an import knows. *)
LEMMA ImportFacts ==
  ASSUME IInv, NEW x \in Ids, Import(x)
  PROVE  /\ stack # <<>> /\ Len(stack) \in Nat \ {0} /\ Top = stack[Len(stack)]
         /\ Top \in Frame /\ phase = "loading" /\ clean
         /\ Top.next \in 1 .. Len(files[Top.id])
         /\ files[Top.id][Top.next] = x
<1>1. stack # <<>> /\ phase = "loading" /\ clean
  BY DEF Import, Parsing
<1>2. Len(stack) \in Nat \ {0} /\ Top = stack[Len(stack)] /\ Top \in Frame
  BY <1>1, StackShape DEF IInv
<1>3. Top.next \in Nat \ {0} /\ Len(files[Top.id]) \in Nat
  BY <1>2, FilesShape DEF Frame, IInv
<1> QED
  BY <1>1, <1>2, <1>3 DEF Import, Elements

(* The second parser of the root does not get past the import at which the
   first one waits. *)
LEMMA SecondRootStops ==
  ASSUME IInv, NEW i \in 2 .. Len(stack), stack[i].id = Root,
         files[Root][stack[i].next] \notin stack[i].disallowedIds
  PROVE  stack[i].next < stack[1].next
<1>1. /\ Len(stack) \in Nat /\ stack # <<>> /\ 1 \in 1 .. (Len(stack) - 1)
      /\ 2 \in 2 .. i /\ i \in 1 .. Len(stack)
  BY StackShape, EmptySeq DEF IInv
<1>2. stack[1].id = Root /\ stack[2].id \in Ids
  BY <1>1, StackShape DEF IInv, Path
<1>3. files[Root][stack[1].next] = stack[1 + 1].id
  BY <1>1, <1>2 DEF IInv, Waiting
<1>4. stack[2].id \in stack[i].disallowedIds
  BY <1>1, <1>2 DEF IInv, Path
<1>5. stack[i].next # stack[1].next
  BY <1>3, <1>4
<1>6. stack[i].next \in Nat /\ stack[1].next \in Nat
  BY <1>1, StackShape DEF IInv
<1> QED
  BY <1>1, <1>5, <1>6 DEF IInv, SecondRootBehind

LEMMA ImportLoadedPreserves ==
  ASSUME IInv, ImportLoaded
  PROVE  IInv'
<1>0. PICK n \in Nat : n = Len(stack)
  BY StackShape DEF IInv
<1>1. PICK x \in Ids : Import(x) /\ x \notin Top.disallowedIds /\ x \in modules
  BY DEF ImportLoaded
<1>2. UNCHANGED <<files, defects, modules, checked, functions, clean, phase>>
  BY DEF ImportLoaded
<1>3. /\ n \in Nat \ {0} /\ Top = stack[n] /\ phase = "loading"
      /\ stack[n].next \in 1 .. Len(files[stack[n].id])
      /\ files[stack[n].id][stack[n].next] = x
  BY <1>0, <1>1, ImportFacts
<1>4. /\ stack' \in Seq(Frame) /\ Len(stack') = n
      /\ \A i \in 1 .. (n - 1) : stack'[i] = stack[i]
      /\ stack'[n].id = stack[n].id
      /\ stack'[n].disallowedIds = stack[n].disallowedIds
      /\ stack'[n].next = stack[n].next + 1
  <2>1. stack \in Seq(Frame) /\ Len(stack) # 0 /\ stack' = Advance(stack)
    BY <1>0, <1>3 DEF ImportLoaded, IInv, TypeOK
  <2> QED
    BY <1>0, <2>1, AdvanceFacts
<1>5. /\ \A i \in 1 .. n :
           /\ stack'[i].id = stack[i].id
           /\ stack'[i].disallowedIds = stack[i].disallowedIds
           /\ i # n => stack'[i] = stack[i]
      /\ stack' # <<>> /\ stack # <<>> /\ n = Len(stack)
  BY <1>0, <1>3, <1>4
<1>6. TypeOK'
  BY <1>2, <1>4 DEF IInv, TypeOK
<1>7. Path'
  <2>1. stack'[1].id = Root
    BY <1>3, <1>5 DEF IInv, Path
  <2>2. ASSUME NEW i \in 1 .. n, NEW y \in Ids
        PROVE  y \in stack'[i].disallowedIds <=> \E j \in 2 .. i : stack'[j].id = y
    <3>1. \A j \in 2 .. i : stack'[j].id = stack[j].id
      BY <1>3, <1>5
    <3> QED
      BY <1>5, <3>1 DEF IInv, Path
  <2>3. \A i, j \in 2 .. n : stack'[i].id = stack'[j].id => i = j
    BY <1>3, <1>5 DEF IInv, Path
  <2> QED
    BY <1>4, <2>1, <2>2, <2>3 DEF Path
<1>8. Nested'
  BY <1>4, <1>5 DEF IInv, Nested
<1>9. Waiting'
  <2>1. \A i \in 1 .. (n - 1) : stack'[i] = stack[i] /\ stack'[i + 1].id = stack[i + 1].id
    BY <1>3, <1>5
  <2> QED
    BY <1>2, <1>4, <1>5, <2>1 DEF IInv, Waiting
<1>10. Passed'
  <2>1. ASSUME NEW i \in 1 .. n
        PROVE  /\ \A k \in 1 .. Len(files[stack[i].id]) :
                    k < stack'[i].next => files[stack[i].id][k] \in modules
               /\ stack[i].id \notin modules
    <3>1. CASE i # n
      BY <1>5, <3>1 DEF IInv, Passed
    <3>2. CASE i = n
      <4>1. \A k \in 1 .. Len(files[stack[n].id]) :
              k < stack[n].next + 1 => k < stack[n].next \/ k = stack[n].next
        BY <1>3
      <4> QED
        BY <1>1, <1>3, <1>4, <1>5, <3>2, <4>1 DEF IInv, Passed
    <3> QED
      BY <3>1, <3>2
  <2> QED
    BY <1>2, <1>4, <1>5, <2>1 DEF Passed
<1>11. SecondRootBehind'
  <2> SUFFICES ASSUME NEW i \in 2 .. n, stack'[i].id = Root
               PROVE  stack'[i].next <= stack'[1].next
    BY <1>4 DEF SecondRootBehind
  <2>1. stack[i].id = Root /\ stack'[1] = stack[1] /\ i \in 2 .. Len(stack)
    BY <1>3, <1>5
  <2>2. CASE i # n
    BY <1>3, <1>5, <2>1, <2>2 DEF IInv, SecondRootBehind
  <2>3. CASE i = n
    <3>1. stack[n].next < stack[1].next
      BY <1>1, <1>3, <2>1, <2>3, SecondRootStops
    <3>2. stack[n].next \in Nat /\ stack[1].next \in Nat
      BY <1>3, <1>5, StackShape DEF IInv
    <3> QED
      BY <1>4, <2>1, <2>3, <3>1, <3>2
  <2> QED
    BY <2>2, <2>3
<1>12. Registered' /\ ImportsFirst'
  <2>1. Registered'
    BY <1>2, <1>3 DEF IInv, Registered
  <2> QED
    BY <1>2, <1>6, <2>1, KeepsImportsFirst
<1> QED
  BY <1>6, <1>7, <1>8, <1>9, <1>10, <1>11, <1>12 DEF IInv

LEMMA ImportNewPreserves ==
  ASSUME IInv, ImportNew
  PROVE  IInv'
<1>0. PICK n \in Nat : n = Len(stack)
  BY StackShape DEF IInv
<1>1. PICK x \in Ids :
        /\ Import(x) /\ x \notin Top.disallowedIds /\ x \notin modules
        /\ IF x \in defects.unreadable
           THEN clean' = FALSE /\ stack' = stack
           ELSE /\ stack' = Append(stack, NewParser(x, NewIds(Top.disallowedIds, x)))
                /\ clean' = clean
  BY DEF ImportNew
<1>2. UNCHANGED <<files, defects, modules, checked, functions, phase>>
  BY DEF ImportNew
<1>3. /\ n \in Nat \ {0} /\ Top = stack[n] /\ phase = "loading" /\ Top \in Frame /\ clean
      /\ stack[n].next \in 1 .. Len(files[stack[n].id])
      /\ files[stack[n].id][stack[n].next] = x
  BY <1>0, <1>1, ImportFacts
<1>4. CASE x \in defects.unreadable
  <2>1. stack' = stack /\ clean' = FALSE
    BY <1>1, <1>4
  <2>2. TypeOK'
    BY <1>2, <2>1 DEF IInv, TypeOK
  <2> QED
    BY <1>0, <1>2, <1>3, <2>1, <2>2, KeepsPath, KeepsImportsFirst DEF IInv
<1>5. CASE x \notin defects.unreadable
  <2> DEFINE f == NewParser(x, NewIds(Top.disallowedIds, x))
  <2>1. stack' = Append(stack, f) /\ clean' = clean
    BY <1>1, <1>5
  <2>2. /\ f \in Frame /\ f.id = x /\ f.next = 1
        /\ f.disallowedIds = stack[n].disallowedIds \cup {x}
    BY <1>3 DEF NewParser, NewIds, Frame
  <2> HIDE DEF f
  <2>3. /\ stack' \in Seq(Frame) /\ Len(stack') = n + 1
        /\ \A i \in 1 .. n : stack'[i] = stack[i]
        /\ stack'[n + 1] = f
    BY <1>0, <2>1, <2>2, AppendProperties DEF IInv, TypeOK
  <2>4. TypeOK'
    BY <1>2, <2>1, <2>3 DEF IInv, TypeOK
  <2>5. stack # <<>> /\ stack' # <<>> /\ \A i \in 1 .. (n + 1) : i \in 1 .. n \/ i = n + 1
    BY <1>0, <1>3, <2>3
  <2>6. Path'
    <3>1. stack'[1].id = Root
      BY <1>0, <1>3, <2>3, <2>5 DEF IInv, Path
    <3>2. ASSUME NEW i \in 1 .. n, NEW y \in Ids
          PROVE  y \in stack'[i].disallowedIds <=> \E j \in 2 .. i : stack'[j].id = y
      <4>1. \A j \in 2 .. i : stack'[j] = stack[j]
        BY <2>3
      <4> QED
        BY <1>0, <2>3, <4>1 DEF IInv, Path
    <3>3. ASSUME NEW y \in Ids
          PROVE  y \in f.disallowedIds <=> \E j \in 2 .. (n + 1) : stack'[j].id = y
      <4>1. y \in f.disallowedIds <=> (\E j \in 2 .. n : stack'[j].id = y) \/ y = x
        BY <1>3, <2>2, <2>3, <3>2
      <4>2. \A j \in 2 .. (n + 1) : j \in 2 .. n \/ j = n + 1
        OBVIOUS
      <4>3. n + 1 \in 2 .. (n + 1) /\ stack'[n + 1].id = x /\ \A j \in 2 .. n : j \in 2 .. (n + 1)
        BY <1>3, <2>2, <2>3
      <4> QED
        BY <4>1, <4>2, <4>3
    <3>4. ASSUME NEW i \in 2 .. (n + 1), NEW j \in 2 .. (n + 1), stack'[i].id = stack'[j].id
          PROVE  i = j
      <4>1. \A k \in 2 .. n : stack'[k] = stack[k] /\ stack[k].id # x
        BY <1>0, <1>1, <1>3, <2>3 DEF IInv, Path
      <4>2. CASE i \in 2 .. n /\ j \in 2 .. n
        BY <1>0, <3>4, <4>1, <4>2 DEF IInv, Path
      <4>3. CASE ~(i \in 2 .. n /\ j \in 2 .. n)
        BY <2>2, <2>3, <3>4, <4>1, <4>3
      <4> QED
        BY <4>2, <4>3
    <3> QED
      BY <2>3, <2>5, <3>1, <3>2, <3>3, <3>4 DEF Path
  <2>7. Nested'
    <3>1. n \in 1 .. Len(stack) /\ stack[n].disallowedIds \in SUBSET Ids
      BY <1>0, <1>3, StackShape DEF IInv
    <3>2. IsFiniteSet(stack[n].disallowedIds) /\ Cardinality(stack[n].disallowedIds) = n - 1
      BY <3>1, FS_Subset, LoaderAssumption DEF IInv, Nested
    <3>3. Cardinality(f.disallowedIds) = n - 1 + 1
      <4>1. x \notin stack[n].disallowedIds
        BY <1>1, <1>3
      <4>2. Cardinality(stack[n].disallowedIds \cup {x}) = Cardinality(stack[n].disallowedIds) + 1
        BY <3>2, <4>1, FS_AddElement
      <4> QED
        BY <2>2, <3>2, <4>2
    <3>4. \A i \in 1 .. n : Cardinality(stack'[i].disallowedIds) = i - 1
      BY <1>0, <2>3 DEF IInv, Nested
    <3> QED
      BY <2>3, <2>5, <3>3, <3>4 DEF Nested
  <2>8. Waiting'
    <3>1. ASSUME NEW i \in 1 .. n
          PROVE  /\ stack'[i].next <= Len(files[stack'[i].id])
                 /\ files[stack'[i].id][stack'[i].next] = stack'[i + 1].id
      <4>1. CASE i = n
        BY <1>3, <2>2, <2>3, <4>1
      <4>2. CASE i # n
        <5>0. i \in 1 .. (n - 1) /\ i \in 1 .. n /\ i + 1 \in 1 .. n
          BY <4>2
        <5>1. i \in 1 .. (n - 1) /\ stack'[i] = stack[i] /\ stack'[i + 1] = stack[i + 1]
          BY <2>3, <5>0
        <5> QED
          BY <1>0, <5>1 DEF IInv, Waiting
      <4> QED
        BY <4>1, <4>2
    <3>2. Len(stack') - 1 = n
      BY <2>3
    <3> QED
      BY <1>2, <3>1, <3>2 DEF Waiting
  <2>9. Passed'
    <3>1. Len(files[x]) \in Nat
      BY FilesShape DEF IInv
    <3>2. \A k \in 1 .. Len(files[x]) : ~(k < 1)
      BY <3>1
    <3>3. ASSUME NEW i \in 1 .. n
          PROVE  /\ \A k \in 1 .. Len(files[stack'[i].id]) :
                      k < stack'[i].next => files[stack'[i].id][k] \in modules
                 /\ stack'[i].id \notin modules
      BY <1>0, <2>3 DEF IInv, Passed
    <3> QED
      BY <1>1, <1>2, <2>2, <2>3, <2>5, <3>2, <3>3 DEF Passed
  <2>10. SecondRootBehind'
    <3>1. 1 <= stack[1].next /\ stack'[1] = stack[1]
      BY <1>0, <1>3, <2>3, StackShape DEF IInv
    <3>2. \A i \in 2 .. (n + 1) : i \in 2 .. n \/ i = n + 1
      OBVIOUS
    <3>3. \A i \in 2 .. n : stack'[i].id = Root => stack'[i].next <= stack'[1].next
      BY <1>0, <2>3, <3>1 DEF IInv, SecondRootBehind
    <3> QED
      BY <2>2, <2>3, <3>1, <3>2, <3>3 DEF SecondRootBehind
  <2>11. Registered'
    BY <1>2, <1>3 DEF IInv, Registered
  <2> QED
    BY <1>2, <2>1, <2>4, <2>6, <2>7, <2>8, <2>9, <2>10, <2>11, KeepsImportsFirst DEF IInv
<1> QED
  BY <1>4, <1>5

-----------------------------------------------------------------------------
(* What the end of a file does to the modules and to what CheckModule has
   done: the module is new, and its imports are all among the checked ones. *)
LEMMA CheckFacts ==
  ASSUME IInv, AtEof, Top.id \notin modules, TypeOK', phase' # "start",
         CheckModule(Top.id), modules' = Register(Top.id),
         clean' => Top.id \notin defects.illTyped,
         UNCHANGED <<files, defects>>
  PROVE  Registered' /\ ImportsFirst'
<1>0. PICK c \in Nat : c = Len(checked)
  BY LenProperties DEF IInv, TypeOK
<1> DEFINE t == Top.id
<1>1. /\ stack # <<>> /\ clean /\ t \in Ids /\ Top = stack[Len(stack)]
      /\ Len(stack) \in 1 .. Len(stack) /\ Top.next > Len(files[t])
      /\ Top.next \in Nat /\ Len(files[t]) \in Nat
  <2>1. stack # <<>> /\ clean /\ Top.next > Len(files[t])
    BY DEF AtEof, Parsing, Elements
  <2>2. Len(stack) \in 1 .. Len(stack) /\ Top = stack[Len(stack)] /\ t \in Ids /\ Top.next \in Nat
    BY <2>1, StackShape DEF IInv
  <2> QED
    BY <2>1, <2>2, FilesShape DEF IInv
<1>2. /\ t \notin modules /\ modules' = modules \cup {t}
      /\ checked' = Append(checked, t)
      /\ functions' = IF t \in defects.illTyped THEN functions ELSE Append(functions, t)
      /\ clean' => t \notin defects.illTyped
  BY DEF CheckModule, Register
<1> HIDE DEF t
<1>3. /\ Len(checked') = c + 1
      /\ \A i \in 1 .. c : checked'[i] = checked[i]
      /\ checked'[c + 1] = t
      /\ \A i \in 1 .. (c + 1) : i \in 1 .. c \/ i = c + 1
  BY <1>0, <1>1, <1>2, AppendProperties DEF IInv, TypeOK
<1>4. \A x \in Ids : x \in modules <=> \E i \in 1 .. c : checked[i] = x
  BY <1>0 DEF IInv, Registered
<1>5. Registered'
  <2>1. ASSUME NEW x \in Ids
        PROVE  x \in modules' <=> \E i \in 1 .. Len(checked') : checked'[i] = x
    <3>1. CASE x = t
      <4>1. c + 1 \in 1 .. (c + 1)
        OBVIOUS
      <4> QED
        BY <1>2, <1>3, <3>1, <4>1
    <3>2. CASE x # t
      BY <1>2, <1>3, <1>4, <3>2
    <3> QED
      BY <3>1, <3>2
  <2> QED
    BY <2>1 DEF Registered
<1>6. \A i \in 1 .. Len(checked') : \A k \in 1 .. Len(files'[checked'[i]]) :
        \E j \in 1 .. (i - 1) : checked'[j] = files'[checked'[i]][k]
  <2>1. ASSUME NEW i \in 1 .. c, NEW k \in 1 .. Len(files[checked[i]])
        PROVE  \E j \in 1 .. (i - 1) : checked'[j] = files[checked[i]][k]
    <3>1. PICK j \in 1 .. (i - 1) : checked[j] = files[checked[i]][k]
      BY <1>0 DEF IInv, ImportsFirst
    <3>2. j \in 1 .. c
      OBVIOUS
    <3> QED
      BY <1>3, <3>1, <3>2
  <2>2. ASSUME NEW k \in 1 .. Len(files[t])
        PROVE  \E j \in 1 .. c : checked'[j] = files[t][k]
    <3>1. files[t][k] \in Ids
      BY <1>1, FilesShape DEF IInv
    <3>2. files[t][k] \in modules
      <4>1. k < Top.next
        BY <1>1
      <4>2. t = stack[Len(stack)].id
        BY <1>1 DEF t
      <4> QED
        BY <1>1, <4>1, <4>2 DEF IInv, Passed
    <3> QED
      BY <1>3, <1>4, <3>1, <3>2
  <2>3. c + 1 - 1 = c
    OBVIOUS
  <2> QED
    BY <1>3, <2>1, <2>2, <2>3, SMTT(30)
<1>7. \A i, j \in 1 .. Len(checked') : checked'[i] = checked'[j] => i = j
  <2>1. \A i \in 1 .. c : checked'[i] # t
    BY <1>1, <1>2, <1>3, <1>4
  <2>2. \A i, j \in 1 .. c : checked'[i] = checked'[j] => i = j
    BY <1>0, <1>3 DEF IInv, ImportsFirst
  <2> QED
    BY <1>3, <2>1, <2>2
<1>8. clean' => functions' = checked'
  BY <1>1, <1>2 DEF IInv, ImportsFirst
<1>9. \A i \in 1 .. Len(functions') : functions'[i] \notin defects'.illTyped
  <2>1. CASE t \in defects.illTyped
    BY <1>2, <2>1 DEF IInv, ImportsFirst
  <2>2. CASE t \notin defects.illTyped
    <3>0. PICK m \in Nat : m = Len(functions)
      BY LenProperties DEF IInv, TypeOK
    <3>1. /\ Len(functions') = m + 1 /\ functions'[m + 1] = t
          /\ \A i \in 1 .. m : functions'[i] = functions[i]
          /\ \A i \in 1 .. (m + 1) : i \in 1 .. m \/ i = m + 1
      BY <1>1, <1>2, <2>2, <3>0, AppendProperties DEF IInv, TypeOK
    <3> QED
      BY <2>2, <3>0, <3>1 DEF IInv, ImportsFirst
  <2> QED
    BY <2>1, <2>2
<1> QED
  BY <1>5, <1>6, <1>7, <1>8, <1>9 DEF ImportsFirst

(* Registered and checked modules keep their types. *)
LEMMA CheckTypes ==
  ASSUME TypeOK, Top.id \in Ids, CheckModule(Top.id), modules' = Register(Top.id)
  PROVE  /\ modules' \in SUBSET Ids
         /\ checked' \in Seq(Ids)
         /\ functions' \in Seq(Ids)
<1>1. checked' \in Seq(Ids)
  BY AppendProperties DEF TypeOK, CheckModule
<1>2. functions' \in Seq(Ids)
  BY AppendProperties DEF TypeOK, CheckModule
<1> QED
  BY <1>1, <1>2 DEF TypeOK, Register

LEMMA EndOfRootPreserves ==
  ASSUME IInv, EndOfRoot
  PROVE  IInv'
<1>1. stack # <<>> /\ Len(stack) = 1 /\ Top = stack[1] /\ Top.id \in Ids /\ 1 \in 1 .. Len(stack)
  BY StackShape DEF IInv, EndOfRoot, AtEof, Parsing
<1>2. /\ stack' = <<>> /\ phase' = "done" /\ clean' \in BOOLEAN
      /\ UNCHANGED <<files, defects>>
  BY DEF EndOfRoot
<1>3. Len(stack') = 0
  BY <1>2
<1>4. TypeOK'
  BY <1>1, <1>2, CheckTypes DEF IInv, TypeOK, EndOfRoot
<1>5. Path' /\ Nested' /\ Waiting' /\ Passed' /\ SecondRootBehind'
  BY <1>2, <1>3 DEF Path, Nested, Waiting, Passed, SecondRootBehind
<1>6. Top.id \notin modules
  BY <1>1 DEF IInv, Passed
<1>7. Registered' /\ ImportsFirst'
  BY <1>2, <1>4, <1>6, CheckFacts DEF EndOfRoot
<1> QED
  BY <1>4, <1>5, <1>7 DEF IInv

(* No two parsers at work at the end of an imported file are about the same
   module: the root's second parser does not come to the end of the file. *)
LEMMA EndOfImportedIsNew ==
  ASSUME IInv, EndOfImported
  PROVE  \A i \in 1 .. (Len(stack) - 1) : stack[i].id # Top.id
<1>0. PICK n \in Nat : n = Len(stack)
  BY StackShape DEF IInv
<1>1. /\ n > 1 /\ stack # <<>> /\ Top = stack[n] /\ n \in 2 .. n
      /\ Top.id \in Ids /\ Top.next \in Nat /\ Top.next > Len(files[Top.id])
      /\ Len(files[Top.id]) \in Nat
  <2>1. n > 1 /\ stack # <<>> /\ Top = stack[n] /\ Top.id \in Ids /\ Top.next \in Nat
    BY <1>0, StackShape DEF IInv, EndOfImported, AtEof, Parsing
  <2>2. Top.next > Len(files[Top.id])
    BY DEF EndOfImported, AtEof, Elements
  <2> QED
    BY <2>1, <2>2, FilesShape DEF IInv
<1>2. \A i \in 2 .. (n - 1) : stack[i].id # Top.id
  <2>1. \A i \in 2 .. (n - 1) : i \in 2 .. n /\ i # n
    OBVIOUS
  <2> QED
    BY <1>0, <1>1, <2>1 DEF IInv, Path
<1>3. stack[1].id # Top.id
  <2> SUFFICES ASSUME stack[1].id = Top.id PROVE FALSE
    OBVIOUS
  <2>1. stack[1].id = Root /\ stack[n].id = Root
    BY <1>1 DEF IInv, Path
  <2>2. Top.next <= stack[1].next
    BY <1>0, <1>1, <2>1 DEF IInv, SecondRootBehind
  <2>3. stack[1].next <= Len(files[Top.id])
    BY <1>0, <1>1, <2>1 DEF IInv, Waiting
  <2>4. stack[1].next \in Nat
    BY <1>0, <1>1, StackShape DEF IInv
  <2> QED
    BY <1>1, <2>2, <2>3, <2>4
<1> QED
  BY <1>0, <1>2, <1>3

LEMMA EndOfImportedPreserves ==
  ASSUME IInv, EndOfImported
  PROVE  IInv'
<1>0. PICK n \in Nat : n + 1 = Len(stack) /\ n # 0
  <2>1. Len(stack) \in Nat /\ Len(stack) > 1
    BY StackShape DEF IInv, EndOfImported
  <2>2. Len(stack) - 1 \in Nat /\ Len(stack) - 1 # 0 /\ Len(stack) - 1 + 1 = Len(stack)
    BY <2>1
  <2> QED
    BY <2>2
<1>1. /\ stack # <<>> /\ Top = stack[n + 1] /\ Top.id \in Ids /\ phase = "loading"
      /\ Len(stack) - 1 = n
  BY <1>0, StackShape DEF IInv, EndOfImported, AtEof, Parsing
<1>2. /\ stack' = Advance(Return) /\ modules' = modules \cup {Top.id}
      /\ clean' = (Top.id \notin defects.illTyped)
      /\ UNCHANGED <<files, defects, phase>>
  BY DEF EndOfImported, Register
<1>3. /\ stack' \in Seq(Frame) /\ Len(stack') = n
      /\ \A i \in 1 .. n :
           /\ stack'[i].id = stack[i].id
           /\ stack'[i].disallowedIds = stack[i].disallowedIds
           /\ i # n => stack'[i] = stack[i]
      /\ stack'[n].next = stack[n].next + 1
  <2>1. /\ Return \in Seq(Frame) /\ Len(Return) = n
        /\ \A i \in 1 .. n : Return[i] = stack[i]
    BY <1>1, ReturnFacts DEF IInv
  <2>2. /\ stack' \in Seq(Frame) /\ Len(stack') = n
        /\ \A i \in 1 .. (n - 1) : stack'[i] = Return[i]
        /\ stack'[n].id = Return[n].id
        /\ stack'[n].disallowedIds = Return[n].disallowedIds
        /\ stack'[n].next = Return[n].next + 1
    BY <1>0, <1>2, <2>1, AdvanceFacts
  <2>3. n \in 1 .. n /\ \A i \in 1 .. n : i # n => i \in 1 .. (n - 1)
    BY <1>0
  <2> QED
    BY <2>1, <2>2, <2>3
<1>4. TypeOK'
  <2>1. clean' \in BOOLEAN
    BY <1>2
  <2> QED
    BY <1>1, <1>2, <1>3, <2>1, CheckTypes DEF IInv, TypeOK, EndOfImported
<1>5. Top.id \notin modules /\ \A i \in 1 .. n : stack[i].id # Top.id
  BY <1>0, <1>1, EndOfImportedIsNew DEF IInv, Passed
<1>6. /\ stack[n].next \in 1 .. Len(files[stack[n].id])
      /\ files[stack[n].id][stack[n].next] = Top.id
  <2>1. n \in 1 .. (Len(stack) - 1) /\ n \in 1 .. Len(stack)
    BY <1>0
  <2>2. stack[n].next \in Nat \ {0} /\ Len(files[stack[n].id]) \in Nat
    BY <2>1, StackShape, FilesShape DEF IInv
  <2> QED
    BY <1>1, <2>1, <2>2 DEF IInv, Waiting
<1>7. Path'
  <2>1. stack' # <<>> => stack'[1].id = Root
    BY <1>0, <1>1, <1>3 DEF IInv, Path
  <2>2. ASSUME NEW i \in 1 .. n, NEW y \in Ids
        PROVE  y \in stack'[i].disallowedIds <=> \E j \in 2 .. i : stack'[j].id = y
    <3>1. \A j \in 2 .. i : stack'[j].id = stack[j].id
      BY <1>3
    <3>2. i \in 1 .. Len(stack)
      BY <1>0
    <3> QED
      BY <1>3, <3>1, <3>2 DEF IInv, Path
  <2>3. \A i, j \in 2 .. n : stack'[i].id = stack'[j].id => i = j
    BY <1>0, <1>3 DEF IInv, Path
  <2> QED
    BY <1>3, <2>1, <2>2, <2>3 DEF Path
<1>8. Nested'
  BY <1>0, <1>3 DEF IInv, Nested
<1>9. Waiting'
  <2>1. ASSUME NEW i \in 1 .. (n - 1)
        PROVE  /\ stack'[i].next <= Len(files[stack'[i].id])
               /\ files[stack'[i].id][stack'[i].next] = stack'[i + 1].id
    <3>1. i \in 1 .. (Len(stack) - 1) /\ i \in 1 .. n /\ i # n /\ i + 1 \in 1 .. n
      BY <1>0
    <3>2. stack'[i] = stack[i] /\ stack'[i + 1].id = stack[i + 1].id
      BY <1>3, <3>1
    <3>3. /\ stack[i].next <= Len(files[stack[i].id])
          /\ files[stack[i].id][stack[i].next] = stack[i + 1].id
      BY <3>1 DEF IInv, Waiting
    <3> QED
      BY <3>2, <3>3
  <2>2. files' = files /\ Len(stack') = n
    BY <1>2, <1>3
  <2> QED
    BY <2>1, <2>2 DEF Waiting
<1>10. Passed'
  <2>1. ASSUME NEW i \in 1 .. n
        PROVE  /\ \A k \in 1 .. Len(files[stack[i].id]) :
                    k < stack'[i].next => files[stack[i].id][k] \in modules'
               /\ stack[i].id \notin modules'
    <3>0. i \in 1 .. Len(stack)
      BY <1>0
    <3>1. CASE i # n
      BY <1>2, <1>3, <1>5, <3>0, <3>1 DEF IInv, Passed
    <3>2. CASE i = n
      <4>1. \A k \in 1 .. Len(files[stack[n].id]) :
              k < stack[n].next + 1 => k < stack[n].next \/ k = stack[n].next
        BY <1>6
      <4> QED
        BY <1>2, <1>3, <1>5, <1>6, <3>0, <3>2, <4>1 DEF IInv, Passed
    <3> QED
      BY <3>1, <3>2
  <2> QED
    BY <1>2, <1>3, <2>1 DEF Passed
<1>11. SecondRootBehind'
  <2> SUFFICES ASSUME NEW i \in 2 .. n, stack'[i].id = Root
               PROVE  stack'[i].next <= stack'[1].next
    BY <1>3 DEF SecondRootBehind
  <2>1. stack[i].id = Root /\ stack'[1] = stack[1] /\ i \in 2 .. Len(stack)
    BY <1>0, <1>3
  <2>2. CASE i # n
    BY <1>3, <2>1, <2>2 DEF IInv, SecondRootBehind
  <2>3. CASE i = n
    <3>1. files[Root][stack[n].next] \notin stack[n].disallowedIds
      <4>1. n \in 1 .. Len(stack) /\ n + 1 \in 2 .. Len(stack) /\ n + 1 \notin 2 .. n
            /\ \A j \in 2 .. n : j \in 2 .. Len(stack)
        BY <1>0
      <4>2. ~ \E j \in 2 .. n : stack[j].id = Top.id
        BY <1>5, <2>3
      <4> QED
        BY <1>1, <1>6, <2>1, <2>3, <4>1, <4>2 DEF IInv, Path
    <3>2. stack[n].next < stack[1].next
      BY <2>1, <2>3, <3>1, SecondRootStops
    <3>3. stack[n].next \in Nat /\ stack[1].next \in Nat
      BY <1>0, <2>1, <2>3, StackShape DEF IInv
    <3> QED
      BY <1>3, <2>1, <2>3, <3>2, <3>3
  <2> QED
    BY <2>2, <2>3
<1>12. Registered' /\ ImportsFirst'
  BY <1>1, <1>2, <1>4, <1>5, CheckFacts DEF EndOfImported
<1> QED
  BY <1>4, <1>7, <1>8, <1>9, <1>10, <1>11, <1>12 DEF IInv

-----------------------------------------------------------------------------
LEMMA StutterPreserves ==
  ASSUME IInv, UNCHANGED vars
  PROVE  IInv'
<1>1. UNCHANGED <<files, defects, stack, modules, checked, functions, clean, phase>>
  BY DEF vars
<1>2. TypeOK'
  BY <1>1 DEF IInv, TypeOK
<1>3. Path' /\ Nested'
  BY <1>1 DEF IInv, Path, Nested
<1>4. Waiting' /\ Passed' /\ SecondRootBehind'
  BY <1>1 DEF IInv, Waiting, Passed, SecondRootBehind
<1>5. Registered'
  BY <1>1 DEF IInv, Registered
<1>6. ImportsFirst'
  BY <1>1, <1>2, KeepsImportsFirst
<1> QED
  BY <1>2, <1>3, <1>4, <1>5, <1>6 DEF IInv

LEMMA StepPreserves ==
  ASSUME IInv, [Next]_vars
  PROVE  IInv'
<1>1. CASE ParseRoot
  BY <1>1, ParseRootPreserves
<1>2. CASE ImportCycle \/ SyntaxError
  BY <1>2, ErrorPreserves
<1>3. CASE ImportLoaded
  BY <1>3, ImportLoadedPreserves
<1>4. CASE ImportNew
  BY <1>4, ImportNewPreserves
<1>5. CASE EndOfImported
  BY <1>5, EndOfImportedPreserves
<1>6. CASE EndOfRoot
  BY <1>6, EndOfRootPreserves
<1>7. CASE GiveUp
  BY <1>7, GiveUpPreserves
<1>8. CASE UNCHANGED vars
  BY <1>8, StutterPreserves
<1> QED
  BY <1>1, <1>2, <1>3, <1>4, <1>5, <1>6, <1>7, <1>8 DEF Next

LEMMA Invariance == Spec => []IInv
<1>1. Init => IInv
  BY InitEstablishes
<1>2. IInv /\ [Next]_vars => IInv'
  BY StepPreserves
<1> QED
  BY <1>1, <1>2, PTL DEF Spec

(* However many modules import it, a module is checked once, after all the
   modules it imports, and its functions are merged once (program.go:106). *)
THEOREM ModulesCheckedInOrder == Spec => []ImportsFirst
<1>1. IInv => ImportsFirst
  BY DEF IInv
<1> QED
  BY <1>1, Invariance, PTL

(* There are as many ids passed down as parsers above the root's, and all are
   modules' ids. *)
LEMMA NestingFollows ==
  ASSUME IInv
  PROVE  NestingIsBounded
<1>1. Cardinality(Ids) \in Nat
  BY LoaderAssumption, FS_CardinalityType
<1>2. CASE stack = <<>>
  <2>1. Len(stack) = 0
    BY <1>2
  <2> QED
    BY <1>1, <2>1 DEF NestingIsBounded
<1>3. CASE stack # <<>>
  <2>1. /\ Len(stack) \in Nat \ {0} /\ Len(stack) \in 1 .. Len(stack)
        /\ stack[Len(stack)].disallowedIds \in SUBSET Ids
    BY <1>1, <1>3, StackShape DEF IInv
  <2>2. Cardinality(stack[Len(stack)].disallowedIds) <= Cardinality(Ids)
    BY <2>1, LoaderAssumption, FS_Subset
  <2>3. Cardinality(stack[Len(stack)].disallowedIds) = Len(stack) - 1
    BY <2>1 DEF IInv, Nested
  <2> QED
    BY <1>1, <2>1, <2>2, <2>3 DEF NestingIsBounded
<1> QED
  BY <1>2, <1>3

LEMMA NextNestingFollows == IInv' => NestingIsBounded'
<1>1. IInv => NestingIsBounded
  BY NestingFollows
<1> QED
  BY <1>1, PTL

(* The import line recurses at most once more than there are modules, because
   every parser after the root's passes its own id down (parser.go:1335). *)
THEOREM RecursionIsBounded == Spec => []NestingIsBounded
<1>1. IInv => NestingIsBounded
  BY NestingFollows
<1> QED
  BY <1>1, Invariance, PTL

-----------------------------------------------------------------------------
(* The verdict.  What a program needs is said of its files alone, and nothing
   changes those; the parsers at work and the modules are all needed, and an
   error is put on the list only for something that is wrong with one of them. *)

LoadedAreNeeded ==
  /\ \A i \in 1 .. Len(stack) : stack[i].id \in Needed \ defects.unreadable
  /\ modules \subseteq Needed \ (defects.unreadable \cup defects.unparsable)

(* An id is passed down to the parsers of what its module imports only. *)
OnTheWay ==
  \A i \in 1 .. Len(stack) : \A d \in stack[i].disallowedIds :
    d = stack[i].id \/ stack[i].id \in ReachableFrom({d})

ErrorsAreReal == ~clean => ~WellFormed

RootIsLast == phase = "done" /\ clean => Root \in modules /\ ~defects.badMain

VInv == LoadedAreNeeded /\ OnTheWay /\ ErrorsAreReal /\ RootIsLast

LEMMA ReachNext ==
  ASSUME NEW S, NEW x, NEW y, <<x, y>> \in Imports, x \in S \/ x \in ReachableFrom(S)
  PROVE  y \in ReachableFrom(S)
<1>1. y \in Ids
  BY DEF Imports
<1>2. ASSUME NEW T \in SUBSET Ids, Successors(S) \subseteq T, Successors(T) \subseteq T
      PROVE  y \in T
  <2>1. CASE x \in S
    BY <1>1, <1>2, <2>1 DEF Successors
  <2>2. CASE x \in ReachableFrom(S)
    <3>1. x \in T
      BY <1>2, <2>2 DEF ReachableFrom
    <3> QED
      BY <1>1, <1>2, <3>1 DEF Successors
  <2> QED
    BY <2>1, <2>2
<1> QED
  BY <1>1, <1>2 DEF ReachableFrom

LEMMA ReachLeast ==
  ASSUME NEW S, NEW T \in SUBSET Ids, Successors(S) \subseteq T, Successors(T) \subseteq T
  PROVE  ReachableFrom(S) \subseteq T
BY DEF ReachableFrom

LEMMA NeededNext ==
  ASSUME NEW x \in Needed, NEW y, <<x, y>> \in Imports
  PROVE  y \in Needed
BY ReachNext DEF Needed

(* What the files need stays the same. *)
LEMMA NeedsStay ==
  ASSUME UNCHANGED <<files, defects>>
  PROVE  /\ Needed' = Needed
         /\ WellFormed' = WellFormed
         /\ \A S : ReachableFrom(S)' = ReachableFrom(S)
<1>1. files' = files /\ defects' = defects
  OBVIOUS
<1>2. Imports' = Imports
  BY <1>1 DEF Imports
<1>3. \A S : Successors(S)' = Successors(S)
  BY <1>2 DEF Successors
<1>4. \A S : ReachableFrom(S)' = ReachableFrom(S)
  BY <1>3 DEF ReachableFrom
<1>5. Needed' = Needed
  BY <1>4 DEF Needed
<1>6. WellFormed' = WellFormed
  BY <1>1, <1>4, <1>5 DEF WellFormed
<1> QED
  BY <1>4, <1>5, <1>6

LEMMA ImportIsEdge ==
  ASSUME IInv, NEW x \in Ids, Import(x)
  PROVE  <<Top.id, x>> \in Imports /\ Top.id \in Ids
<1>1. Top.id \in Ids /\ Top.next \in 1 .. Len(files[Top.id]) /\ files[Top.id][Top.next] = x
  BY ImportFacts DEF Frame
<1> QED
  BY <1>1 DEF Imports

LEMMA TopIsNeeded ==
  ASSUME IInv, VInv, stack # <<>>
  PROVE  /\ Top.id \in Ids /\ Top.id \in Needed \ defects.unreadable
         /\ \A d \in Top.disallowedIds : d = Top.id \/ Top.id \in ReachableFrom({d})
BY StackShape DEF IInv, VInv, LoadedAreNeeded, OnTheWay

(* The parsers that are left are about the modules they were about. *)
LEMMA StackKeepsVerdict ==
  ASSUME VInv, UNCHANGED <<files, defects>>, Len(stack) \in Nat, Len(stack') \in Nat,
         Len(stack') <= Len(stack),
         \A i \in 1 .. Len(stack') : /\ stack'[i].id = stack[i].id
                                     /\ stack'[i].disallowedIds = stack[i].disallowedIds
  PROVE  /\ \A i \in 1 .. Len(stack') : stack'[i].id \in Needed' \ defects'.unreadable
         /\ OnTheWay'
<1>1. \A i \in 1 .. Len(stack') : i \in 1 .. Len(stack)
  OBVIOUS
<1> QED
  BY <1>1, NeedsStay DEF VInv, LoadedAreNeeded, OnTheWay

LEMMA InitVerdict == Init => VInv
<1> SUFFICES ASSUME Init PROVE VInv
  OBVIOUS
<1>1. Len(stack) = 0 /\ modules = {} /\ clean /\ phase # "done"
  BY DEF Init
<1> QED
  BY <1>1 DEF VInv, LoadedAreNeeded, OnTheWay, ErrorsAreReal, RootIsLast

LEMMA RootIsNeeded == Root \in Needed
BY DEF Needed

(* Something wrong with a needed module is something wrong with the program. *)
LEMMA BadIsNotWellFormed ==
  ASSUME NEW x \in Needed,
         \/ x \in defects.unreadable \cup defects.unparsable \cup defects.illTyped
         \/ x \in ReachableFrom({x})
  PROVE  ~WellFormed
BY DEF WellFormed

LEMMA ParseRootVerdict ==
  ASSUME IInv, VInv, ParseRoot
  PROVE  VInv'
<1>1. /\ stack = <<>> /\ Len(stack) = 0 /\ modules = {}
      /\ UNCHANGED <<files, defects, modules, checked, functions>>
  BY DEF IInv, Registered, ParseRoot
<1>2. Needed' = Needed /\ WellFormed' = WellFormed /\ defects' = defects /\ modules' = {}
  BY <1>1, NeedsStay
<1>3. CASE Root \in defects.unreadable
  <2>1. stack' = stack /\ Len(stack') = 0 /\ clean' = FALSE
    BY <1>1, <1>3 DEF ParseRoot
  <2>2. ~WellFormed
    BY <1>3, RootIsNeeded, BadIsNotWellFormed
  <2> QED
    BY <1>2, <2>1, <2>2 DEF VInv, LoadedAreNeeded, OnTheWay, ErrorsAreReal, RootIsLast
<1>4. CASE Root \notin defects.unreadable
  <2>1. /\ Len(stack') = 1 /\ stack'[1].id = Root /\ stack'[1].disallowedIds = {}
        /\ clean' = clean /\ phase' = "loading"
    BY <1>4 DEF ParseRoot, NewParser
  <2>2. \A i \in 1 .. Len(stack') : i = 1
    BY <2>1
  <2>3. LoadedAreNeeded' /\ OnTheWay'
    BY <1>2, <1>4, <2>1, <2>2, RootIsNeeded DEF LoadedAreNeeded, OnTheWay
  <2> QED
    BY <1>2, <2>1, <2>3 DEF VInv, ErrorsAreReal, RootIsLast
<1> QED
  BY <1>3, <1>4

LEMMA ErrorVerdict ==
  ASSUME IInv, VInv, ImportCycle \/ SyntaxError
  PROVE  VInv'
<1>1. /\ UNCHANGED <<files, defects, stack, modules, checked, functions, phase>>
      /\ clean' = FALSE /\ stack # <<>>
  BY DEF ImportCycle, SyntaxError, Import, Parsing
<1>2. ~WellFormed
  <2>1. CASE ImportCycle
    <3>1. PICK x \in Ids : Import(x) /\ x \in Top.disallowedIds
      BY <2>1 DEF ImportCycle
    <3>2. <<Top.id, x>> \in Imports /\ Top.id \in Needed
      BY <1>1, <3>1, ImportIsEdge, TopIsNeeded
    <3>3. x = Top.id \/ Top.id \in ReachableFrom({x})
      BY <1>1, <3>1, TopIsNeeded
    <3>4. x \in ReachableFrom({x})
      BY <3>2, <3>3, ReachNext
    <3>5. x \in Needed
      BY <3>2, NeededNext
    <3> QED
      BY <3>4, <3>5, BadIsNotWellFormed
  <2>2. CASE SyntaxError
    BY <1>1, <2>2, TopIsNeeded, BadIsNotWellFormed DEF SyntaxError
  <2> QED
    BY <2>1, <2>2
<1>3. \A S : ReachableFrom(S)' = ReachableFrom(S)
  BY <1>1, NeedsStay
<1>4. Needed' = Needed /\ WellFormed' = WellFormed
  BY <1>1, NeedsStay
<1>5. LoadedAreNeeded' /\ OnTheWay'
  BY <1>1, <1>3, <1>4 DEF VInv, LoadedAreNeeded, OnTheWay
<1> QED
  BY <1>1, <1>2, <1>4, <1>5 DEF VInv, ErrorsAreReal, RootIsLast

LEMMA ImportLoadedVerdict ==
  ASSUME IInv, VInv, ImportLoaded
  PROVE  VInv'
<1>1. /\ UNCHANGED <<files, defects, modules, checked, functions, clean, phase>>
      /\ stack' = Advance(stack) /\ stack # <<>> /\ phase = "loading"
  BY DEF ImportLoaded, Import, Parsing
<1>2. /\ stack \in Seq(Frame) /\ Len(stack) \in Nat \ {0}
  BY <1>1, StackShape DEF IInv, TypeOK
<1>3. /\ Len(stack') = Len(stack)
      /\ \A i \in 1 .. Len(stack) : i \in 1 .. (Len(stack) - 1) \/ i = Len(stack)
      /\ \A i \in 1 .. Len(stack) : /\ stack'[i].id = stack[i].id
                                    /\ stack'[i].disallowedIds = stack[i].disallowedIds
  <2>1. /\ Len(stack') = Len(stack)
        /\ \A i \in 1 .. (Len(stack) - 1) : stack'[i] = stack[i]
        /\ stack'[Len(stack)].id = stack[Len(stack)].id
        /\ stack'[Len(stack)].disallowedIds = stack[Len(stack)].disallowedIds
    BY <1>1, <1>2, AdvanceFacts
  <2>2. \A i \in 1 .. Len(stack) : i \in 1 .. (Len(stack) - 1) \/ i = Len(stack)
    BY <1>2
  <2> QED
    BY <2>1, <2>2
<1>4. /\ \A i \in 1 .. Len(stack') : stack'[i].id \in Needed' \ defects'.unreadable
      /\ OnTheWay'
  BY <1>1, <1>2, <1>3, StackKeepsVerdict
<1>5. Needed' = Needed /\ WellFormed' = WellFormed
  BY <1>1, NeedsStay
<1> QED
  BY <1>1, <1>4, <1>5 DEF VInv, LoadedAreNeeded, ErrorsAreReal, RootIsLast

LEMMA ImportNewVerdict ==
  ASSUME IInv, VInv, ImportNew
  PROVE  VInv'
<1>1. PICK x \in Ids :
        /\ Import(x) /\ x \notin Top.disallowedIds /\ x \notin modules
        /\ IF x \in defects.unreadable
           THEN clean' = FALSE /\ stack' = stack
           ELSE /\ stack' = Append(stack, NewParser(x, NewIds(Top.disallowedIds, x)))
                /\ clean' = clean
  BY DEF ImportNew
<1>2. /\ UNCHANGED <<files, defects, modules, checked, functions, phase>>
      /\ stack # <<>> /\ phase = "loading"
  BY <1>1 DEF ImportNew, Import, Parsing
<1>3. /\ Needed' = Needed /\ WellFormed' = WellFormed
      /\ \A S : ReachableFrom(S)' = ReachableFrom(S)
  BY <1>2, NeedsStay
<1>4. <<Top.id, x>> \in Imports /\ Top.id \in Needed /\ x \in Needed
  BY <1>1, <1>2, ImportIsEdge, TopIsNeeded, NeededNext
<1>5. stack \in Seq(Frame) /\ Len(stack) \in Nat
  BY StackShape DEF IInv, TypeOK
<1>6. CASE x \in defects.unreadable
  <2>1. clean' = FALSE /\ stack' = stack
    BY <1>1, <1>6
  <2>2. ~WellFormed
    BY <1>4, <1>6, BadIsNotWellFormed
  <2>3. LoadedAreNeeded' /\ OnTheWay'
    BY <1>2, <1>3, <2>1 DEF VInv, LoadedAreNeeded, OnTheWay
  <2> QED
    BY <1>2, <1>3, <2>1, <2>2, <2>3 DEF VInv, ErrorsAreReal, RootIsLast
<1>7. CASE x \notin defects.unreadable
  <2> DEFINE f == NewParser(x, NewIds(Top.disallowedIds, x))
             n == Len(stack)
  <2>1. f.id = x /\ f.disallowedIds = Top.disallowedIds \cup {x} /\ f \in Frame
    BY <1>1, ImportFacts DEF NewParser, NewIds, Frame
  <2>2. stack' = Append(stack, f) /\ clean' = clean
    BY <1>1, <1>7
  <2> HIDE DEF f
  <2>3. /\ Len(stack') = n + 1
        /\ \A i \in 1 .. n : stack'[i] = stack[i]
        /\ stack'[n + 1] = f
        /\ \A i \in 1 .. (n + 1) : i \in 1 .. n \/ i = n + 1
    BY <1>5, <2>1, <2>2, AppendProperties
  <2>4. ASSUME NEW d \in f.disallowedIds
        PROVE  d = x \/ x \in ReachableFrom({d})
    <3>1. CASE d = x
      BY <3>1
    <3>2. CASE d # x
      <4>1. d = Top.id \/ Top.id \in ReachableFrom({d})
        BY <1>2, <2>1, <2>4, <3>2, TopIsNeeded
      <4> QED
        BY <4>1, <1>4, ReachNext
    <3> QED
      BY <3>1, <3>2
  <2>5. LoadedAreNeeded'
    BY <1>2, <1>3, <1>4, <1>7, <2>1, <2>3 DEF VInv, LoadedAreNeeded
  <2>6. OnTheWay'
    BY <1>3, <2>1, <2>3, <2>4 DEF VInv, OnTheWay
  <2> QED
    BY <1>2, <1>3, <2>2, <2>5, <2>6 DEF VInv, ErrorsAreReal, RootIsLast
<1> QED
  BY <1>6, <1>7

LEMMA EndVerdict ==
  ASSUME IInv, VInv, EndOfImported \/ EndOfRoot
  PROVE  VInv'
<1>1. /\ stack # <<>> /\ phase = "loading" /\ clean /\ Top.id \notin defects.unparsable
      /\ UNCHANGED <<files, defects>> /\ modules' = modules \cup {Top.id}
  BY DEF EndOfImported, EndOfRoot, AtEof, Parsing, Register
<1>2. Top.id \in Needed /\ Top.id \notin defects.unreadable
  BY <1>1, TopIsNeeded
<1>3. Needed' = Needed /\ WellFormed' = WellFormed /\ defects' = defects
  BY <1>1, NeedsStay
<1>4. modules' \subseteq Needed' \ (defects'.unreadable \cup defects'.unparsable)
  BY <1>1, <1>2, <1>3 DEF VInv, LoadedAreNeeded
<1>5. Top.id \in defects.illTyped => ~WellFormed
  BY <1>2, BadIsNotWellFormed
<1>6. stack \in Seq(Frame) /\ Len(stack) \in Nat \ {0} /\ Len(stack) \in 1 .. Len(stack)
  BY <1>1, StackShape DEF IInv, TypeOK
<1>7. CASE EndOfRoot
  <2>1. /\ Len(stack) = 1 /\ Len(stack') = 0 /\ Top = stack[1]
        /\ clean' = (Top.id \notin defects.illTyped /\ ~defects.badMain)
    BY <1>7 DEF EndOfRoot, Top
  <2>2. Top.id = Root
    BY <1>1, <2>1 DEF IInv, Path
  <2>3. ~clean' => ~WellFormed
    BY <1>5, <2>1 DEF WellFormed
  <2>4. \A i \in 1 .. Len(stack') : FALSE
    BY <2>1
  <2>5. LoadedAreNeeded' /\ OnTheWay'
    BY <1>4, <2>4 DEF LoadedAreNeeded, OnTheWay
  <2>6. RootIsLast'
    BY <1>1, <1>3, <2>1, <2>2 DEF RootIsLast
  <2> QED
    BY <1>3, <2>3, <2>5, <2>6 DEF VInv, ErrorsAreReal
<1>8. CASE EndOfImported
  <2>1. /\ stack' = Advance(Return) /\ clean' = (Top.id \notin defects.illTyped)
        /\ phase' = phase /\ Len(stack) > 1
    BY <1>8 DEF EndOfImported
  <2>2. /\ Return \in Seq(Frame) /\ Len(Return) = Len(stack) - 1
        /\ \A i \in 1 .. (Len(stack) - 1) : Return[i] = stack[i]
    BY <1>1, ReturnFacts DEF IInv
  <2>3. Len(Return) \in Nat \ {0}
    BY <1>6, <2>1, <2>2
  <2>4. /\ Len(stack') = Len(Return)
        /\ \A i \in 1 .. Len(Return) : i \in 1 .. (Len(Return) - 1) \/ i = Len(Return)
        /\ \A i \in 1 .. Len(Return) : /\ stack'[i].id = Return[i].id
                                       /\ stack'[i].disallowedIds = Return[i].disallowedIds
    <3>1. /\ Len(stack') = Len(Return)
          /\ \A i \in 1 .. (Len(Return) - 1) : stack'[i] = Return[i]
          /\ stack'[Len(Return)].id = Return[Len(Return)].id
          /\ stack'[Len(Return)].disallowedIds = Return[Len(Return)].disallowedIds
      BY <2>1, <2>2, <2>3, AdvanceFacts
    <3>2. \A i \in 1 .. Len(Return) : i \in 1 .. (Len(Return) - 1) \/ i = Len(Return)
      BY <2>3
    <3> QED
      BY <3>1, <3>2
  <2>5. /\ \A i \in 1 .. Len(stack') : stack'[i].id \in Needed' \ defects'.unreadable
        /\ OnTheWay'
    BY <1>1, <1>6, <2>2, <2>3, <2>4, StackKeepsVerdict
  <2> QED
    BY <1>1, <1>3, <1>4, <1>5, <2>1, <2>5
       DEF VInv, LoadedAreNeeded, ErrorsAreReal, RootIsLast
<1> QED
  BY <1>7, <1>8

LEMMA GiveUpVerdict ==
  ASSUME IInv, VInv, GiveUp
  PROVE  VInv'
<1>1. /\ UNCHANGED <<files, defects, modules, checked, functions, clean>>
      /\ stack # <<>> /\ stack' = Return /\ ~clean
  BY DEF GiveUp
<1>2. Len(stack) \in Nat \ {0}
  BY <1>1, StackShape DEF IInv
<1>3. Len(stack') = Len(stack) - 1 /\ \A i \in 1 .. (Len(stack) - 1) : stack'[i] = stack[i]
  BY <1>1, ReturnFacts DEF IInv
<1>4. /\ \A i \in 1 .. Len(stack') : stack'[i].id \in Needed' \ defects'.unreadable
      /\ OnTheWay'
  BY <1>1, <1>2, <1>3, StackKeepsVerdict
<1>5. Needed' = Needed /\ WellFormed' = WellFormed
  BY <1>1, NeedsStay
<1> QED
  BY <1>1, <1>4, <1>5 DEF VInv, LoadedAreNeeded, ErrorsAreReal, RootIsLast

LEMMA StepKeepsVerdict ==
  ASSUME IInv, VInv, [Next]_vars
  PROVE  VInv'
<1>1. CASE UNCHANGED vars
  <2>1. UNCHANGED <<files, defects, stack, modules, clean, phase>>
    BY <1>1 DEF vars
  <2>2. /\ Needed' = Needed /\ WellFormed' = WellFormed
        /\ \A S : ReachableFrom(S)' = ReachableFrom(S)
    BY <2>1, NeedsStay
  <2> QED
    BY <2>1, <2>2 DEF VInv, LoadedAreNeeded, OnTheWay, ErrorsAreReal, RootIsLast
<1> QED
  BY <1>1, ParseRootVerdict, ErrorVerdict, ImportLoadedVerdict, ImportNewVerdict,
     EndVerdict, GiveUpVerdict DEF Next

(* Modules that have been checked in order import nothing that leads back. *)
LEMMA CheckedLeadBack ==
  ASSUME IInv, NEW i \in 1 .. Len(checked)
  PROVE  checked[i] \notin ReachableFrom({checked[i]})
<1> DEFINE T == { checked[j] : j \in 1 .. (i - 1) }
<1>1. checked \in Seq(Ids) /\ Len(checked) \in Nat
  BY LenProperties DEF IInv, TypeOK
<1>2. \A j \in 1 .. i : j \in 1 .. Len(checked) /\ checked[j] \in Ids
  BY <1>1, ElementOfSeq
<1>3. T \in SUBSET Ids
  BY <1>2
<1>4. ASSUME NEW j \in 1 .. i, NEW y \in Ids, <<checked[j], y>> \in Imports PROVE y \in T
  <2>1. PICK k \in 1 .. Len(files[checked[j]]) : files[checked[j]][k] = y
    BY <1>4 DEF Imports
  <2>2. PICK h \in 1 .. (j - 1) : checked[h] = y
    BY <1>2, <2>1 DEF IInv, ImportsFirst
  <2>3. h \in 1 .. (i - 1)
    BY <1>1
  <2> QED
    BY <2>2, <2>3
<1>5. Successors({checked[i]}) \subseteq T
  <2>1. i \in 1 .. i
    BY <1>1
  <2> QED
    BY <1>4, <2>1 DEF Successors
<1>6. Successors(T) \subseteq T
  <2> SUFFICES ASSUME NEW j \in 1 .. (i - 1), NEW y \in Ids, <<checked[j], y>> \in Imports
               PROVE  y \in T
    BY DEF Successors
  <2>1. j \in 1 .. i
    BY <1>1
  <2> QED
    BY <1>4, <2>1
<1>7. checked[i] \notin T
  <2> SUFFICES ASSUME NEW j \in 1 .. (i - 1), checked[i] = checked[j] PROVE FALSE
    OBVIOUS
  <2>1. j \in 1 .. Len(checked) /\ j # i
    BY <1>1
  <2> QED
    BY <2>1 DEF IInv, ImportsFirst
<1> HIDE DEF T
<1> QED
  BY <1>3, <1>5, <1>6, <1>7, ReachLeast

LEMMA VerdictFollows ==
  ASSUME IInv, VInv
  PROVE  VerdictIsRight
<1> SUFFICES ASSUME phase = "done", clean
             PROVE  /\ WellFormed /\ modules = Needed
                    /\ { functions[i] : i \in 1 .. Len(functions) } = Needed
  BY DEF VerdictIsRight, VInv, ErrorsAreReal
<1>1. \A x \in Ids : x \in modules <=> \E i \in 1 .. Len(checked) : checked[i] = x
  BY DEF IInv, Registered
<1>2. modules \in SUBSET Ids /\ checked \in Seq(Ids) /\ Len(checked) \in Nat
  BY LenProperties DEF IInv, TypeOK
<1>3. Root \in modules /\ ~defects.badMain
  BY DEF VInv, RootIsLast
<1>4. \A x \in modules : \A y \in Ids : <<x, y>> \in Imports => y \in modules
  <2> SUFFICES ASSUME NEW x \in modules, NEW y \in Ids, <<x, y>> \in Imports PROVE y \in modules
    OBVIOUS
  <2>1. PICK i \in 1 .. Len(checked) : checked[i] = x
    BY <1>1, <1>2
  <2>2. PICK k \in 1 .. Len(files[x]) : files[x][k] = y
    BY DEF Imports
  <2>3. PICK j \in 1 .. (i - 1) : checked[j] = y
    BY <2>1, <2>2 DEF IInv, ImportsFirst
  <2>4. j \in 1 .. Len(checked)
    BY <1>2
  <2> QED
    BY <1>1, <2>3, <2>4
<1>5. Needed \subseteq modules
  <2>1. Successors({Root}) \subseteq modules /\ Successors(modules) \subseteq modules
    BY <1>3, <1>4 DEF Successors
  <2>2. ReachableFrom({Root}) \subseteq modules
    BY <1>2, <2>1, ReachLeast
  <2> QED
    BY <1>3, <2>2 DEF Needed
<1>6. modules = Needed
  BY <1>5 DEF VInv, LoadedAreNeeded
<1>7. functions = checked
  BY DEF IInv, ImportsFirst
<1>8. { functions[i] : i \in 1 .. Len(functions) } = modules
  <2>1. \A i \in 1 .. Len(checked) : checked[i] \in Ids
    BY <1>2, ElementOfSeq
  <2> QED
    BY <1>1, <1>2, <1>7, <2>1
<1>9. WellFormed
  <2> SUFFICES ASSUME NEW id \in Needed
               PROVE  /\ id \notin ReachableFrom({id})
                      /\ id \notin defects.unreadable \cup defects.unparsable \cup defects.illTyped
    BY <1>3 DEF WellFormed
  <2>1. PICK i \in 1 .. Len(checked) : checked[i] = id
    BY <1>1, <1>2, <1>6
  <2>2. id \notin ReachableFrom({id})
    BY <2>1, CheckedLeadBack
  <2>3. id \notin defects.unreadable \cup defects.unparsable
    BY <1>6 DEF VInv, LoadedAreNeeded
  <2>4. id \notin defects.illTyped
    BY <2>1, <1>7 DEF IInv, ImportsFirst
  <2> QED
    BY <2>2, <2>3, <2>4
<1> QED
  BY <1>6, <1>8, <1>9

(* The compiler accepts exactly the programs that are right, and has then loaded
   exactly the modules they need (program.go:71-145). *)
THEOREM VerdictIsExact == Spec => []VerdictIsRight
<1>1. Init => IInv /\ VInv
  BY InitEstablishes, InitVerdict
<1>2. IInv /\ VInv /\ [Next]_vars => IInv' /\ VInv'
  BY StepPreserves, StepKeepsVerdict
<1>3. IInv /\ VInv => VerdictIsRight
  BY VerdictFollows
<1> QED
  BY <1>1, <1>2, <1>3, PTL DEF Spec

-----------------------------------------------------------------------------
(* The end.  A module that was registered is new because no parser works on a
   registered one (Passed). *)

LEMMA LoadedIsNearer ==
  ASSUME IInv, ImportLoaded
  PROVE  EndIsNearer
<1>1. PICK x \in Ids : Import(x)
  BY DEF ImportLoaded
<1>2. /\ stack # <<>> /\ Len(stack) \in Nat \ {0} /\ Top = stack[Len(stack)] /\ clean
      /\ Top.next \in 1 .. Len(files[Top.id]) /\ Top.id \in Ids
  BY <1>1, ImportFacts DEF Frame
<1>3. stack \in Seq(Frame) /\ Len(files[Top.id]) \in Nat
  BY <1>2, FilesShape DEF IInv, TypeOK
<1>4. /\ Len(stack') = Len(stack)
      /\ \A i \in 1 .. (Len(stack) - 1) : stack'[i] = stack[i]
      /\ stack'[Len(stack)].id = Top.id
      /\ stack'[Len(stack)].next = Top.next + 1
  BY <1>2, <1>3, AdvanceFacts DEF ImportLoaded
<1>5. Further(stack, stack')
  BY <1>2, <1>3, <1>4 DEF Further
<1> QED
  BY <1>2, <1>5 DEF EndIsNearer, ImportLoaded

LEMMA NewIsNearer ==
  ASSUME IInv, ImportNew
  PROVE  EndIsNearer
<1>1. PICK x \in Ids :
        /\ Import(x)
        /\ IF x \in defects.unreadable
           THEN clean' = FALSE /\ stack' = stack
           ELSE /\ stack' = Append(stack, NewParser(x, NewIds(Top.disallowedIds, x)))
                /\ clean' = clean
  BY DEF ImportNew
<1>2. clean /\ Top \in Frame
  BY <1>1, ImportFacts
<1>3. CASE x \in defects.unreadable
  BY <1>1, <1>2, <1>3 DEF EndIsNearer
<1>4. CASE x \notin defects.unreadable
  <2> DEFINE parser == NewParser(x, NewIds(Top.disallowedIds, x))
  <2>1. parser \in Frame /\ stack \in Seq(Frame)
    BY <1>2 DEF NewParser, NewIds, Frame, IInv, TypeOK
  <2>2. stack' = Append(stack, parser) /\ clean'
    BY <1>1, <1>2, <1>4
  <2> HIDE DEF parser
  <2>3. Len(stack') <= Cardinality(Ids) + 1
    <3>1. IInv'
      BY StepPreserves DEF Next
    <3>2. NestingIsBounded'
      BY <3>1, NextNestingFollows
    <3> QED
      BY <3>2 DEF NestingIsBounded
  <2>4. Deeper(stack, stack')
    BY <2>1, <2>2, <2>3, AppendProperties DEF Deeper
  <2> QED
    BY <1>2, <2>2, <2>4 DEF EndIsNearer, ImportNew
<1> QED
  BY <1>3, <1>4

LEMMA EndOfFileIsNearer ==
  ASSUME IInv, EndOfImported \/ EndOfRoot
  PROVE  EndIsNearer
<1>1. clean /\ stack # <<>> /\ modules' = modules \cup {Top.id}
  BY DEF EndOfImported, EndOfRoot, AtEof, Parsing, Register
<1>2. Top.id \notin modules
  BY <1>1, StackShape DEF IInv, Passed
<1>3. clean' \in BOOLEAN
  BY DEF EndOfImported, EndOfRoot
<1> QED
  BY <1>1, <1>2, <1>3 DEF EndIsNearer

(* Loading cannot run in a circle, whatever the files import: every step of it
   brings the end nearer, in an order in which nothing can rise for ever, since
   there are finitely many modules, nested parsers (RecursionIsBounded) and
   imports of a file (Program.GetModule, Parser.ImportLine). *)
THEOREM LoadingNeverTurnsBack == Spec => LoadingProgresses
<1>1. IInv /\ [Next]_vars => [EndIsNearer]_vars
  <2> SUFFICES ASSUME IInv, Next PROVE EndIsNearer
    OBVIOUS
  <2>1. CASE ParseRoot
    BY <2>1 DEF ParseRoot, EndIsNearer
  <2>2. CASE ImportCycle
    BY <2>2 DEF ImportCycle, Import, Parsing, EndIsNearer
  <2>3. CASE SyntaxError
    BY <2>3 DEF SyntaxError, Parsing, EndIsNearer
  <2>4. CASE GiveUp
    <3>1. Len(stack') = Len(stack) - 1 /\ Len(stack) \in Nat
      BY <2>4, ReturnFacts, StackShape DEF GiveUp, IInv
    <3> QED
      BY <2>4, <3>1 DEF GiveUp, EndIsNearer
  <2> QED
    BY <2>1, <2>2, <2>3, <2>4, LoadedIsNearer, NewIsNearer, EndOfFileIsNearer DEF Next
<1> QED
  BY <1>1, Invariance, PTL DEF Spec, LoadingProgresses

=============================================================================
