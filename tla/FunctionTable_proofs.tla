------------------------- MODULE FunctionTable_proofs -------------------------
(***************************************************************************)
(* Proofs, for any modules, signatures and argument types, that the groups *)
(* of functions hold each definition exactly once and that a function has  *)
(* one signature in a program; that a closure called on either target      *)
(* calls the function it was made from with the arguments it was given;    *)
(* and that it fits the buffer of a kernel.                                *)
(***************************************************************************)
EXTENDS FunctionTable, SequenceTheorems, WellFoundedInduction, TLAPS

Ids(group, s, l) == Range(group[s].allIds[l])

\* A set that no function was added to is empty: MergeIn takes the other one.
EmptyUnlessLocated(group) ==
    \A s \in Sigs, l \in Locations : group[s].location = None => Ids(group, s, l) = {}

\* The context holds functions of the module that is checked only, the program
\* those of the modules before it.
CtxOfModule ==
    \A s \in Sigs, l \in Locations : \A f \in Ids(ctxFunctions, s, l) :
        module <= Len(Modules) /\ f.module = Modules[module]

ProgramOfEarlier ==
    \A s \in Sigs, l \in Locations : \A f \in Ids(functions, s, l) :
        \E j \in 1..Len(Modules) : j < module /\ f.module = Modules[j]

\* Add compares a signature with those of its own module, so it is needed
\* that no other module has the id.
IInv == /\ GroupsHoldDefinitions
        /\ EmptyUnlessLocated(ctxFunctions) /\ EmptyUnlessLocated(functions)
        /\ CtxOfModule /\ ProgramOfEarlier

LEMMA RangeOfAppend ==
    ASSUME NEW T, NEW s \in Seq(T), NEW e \in T
    PROVE  /\ Append(s, e) \in Seq(T)
           /\ Range(Append(s, e)) = Range(s) \cup {e}
           /\ IsInjective(s) /\ e \notin Range(s) => IsInjective(Append(s, e))
<1>1. /\ Append(s, e) \in Seq(T) /\ Len(Append(s, e)) = Len(s) + 1
      /\ DOMAIN Append(s, e) = 1..(Len(s) + 1) /\ DOMAIN s = 1..Len(s) /\ Len(s) \in Nat
      /\ \A i \in 1..Len(s) : Append(s, e)[i] = s[i]
      /\ Append(s, e)[Len(s) + 1] = e
    BY AppendProperties, LenProperties
<1>2. Range(Append(s, e)) = Range(s) \cup {e}
    BY <1>1 DEF Range
<1>3. ASSUME IsInjective(s), e \notin Range(s) PROVE IsInjective(Append(s, e))
    BY <1>1, <1>3 DEF IsInjective, Range
<1> QED
    BY <1>1, <1>2, <1>3

LEMMA RangeOfConcat ==
    ASSUME NEW T, NEW s \in Seq(T), NEW t \in Seq(T)
    PROVE  /\ s \o t \in Seq(T)
           /\ Range(s \o t) = Range(s) \cup Range(t)
           /\ IsInjective(s) /\ IsInjective(t) /\ Range(s) \cap Range(t) = {}
                => IsInjective(s \o t)
<1> DEFINE c == s \o t
<1>1. /\ c \in Seq(T) /\ Len(c) = Len(s) + Len(t) /\ DOMAIN c = 1..(Len(s) + Len(t))
      /\ DOMAIN s = 1..Len(s) /\ DOMAIN t = 1..Len(t) /\ Len(s) \in Nat /\ Len(t) \in Nat
      /\ \A i \in 1..(Len(s) + Len(t)) : c[i] = IF i <= Len(s) THEN s[i] ELSE t[i - Len(s)]
    BY ConcatProperties, LenProperties
<1>2. \A i \in 1..Len(s) : i \in 1..(Len(s) + Len(t)) /\ c[i] = s[i]
    BY <1>1
<1>3. \A j \in 1..Len(t) : Len(s) + j \in 1..(Len(s) + Len(t)) /\ c[Len(s) + j] = t[j]
    BY <1>1
<1>4. \A i \in DOMAIN c : i \in 1..Len(s) \/ \E j \in 1..Len(t) : i = Len(s) + j
  <2> SUFFICES ASSUME NEW i \in DOMAIN c, i \notin 1..Len(s)
               PROVE  \E j \in 1..Len(t) : i = Len(s) + j
      OBVIOUS
  <2>1. i - Len(s) \in 1..Len(t) /\ i = Len(s) + (i - Len(s))
      BY <1>1
  <2> QED
      BY <2>1
<1> HIDE DEF c
<1>5. Range(c) = Range(s) \cup Range(t)
  <2>1. ASSUME NEW x \in Range(c) PROVE x \in Range(s) \cup Range(t)
    <3>1. PICK i \in DOMAIN c : x = c[i]
        BY DEF Range
    <3>2. CASE i \in 1..Len(s)
        BY <1>1, <1>2, <3>1, <3>2 DEF Range
    <3>3. CASE \E j \in 1..Len(t) : i = Len(s) + j
        BY <1>1, <1>3, <3>1, <3>3 DEF Range
    <3> QED
        BY <1>4, <3>2, <3>3
  <2>2. ASSUME NEW x \in Range(s) PROVE x \in Range(c)
      BY <1>1, <1>2 DEF Range
  <2>3. ASSUME NEW x \in Range(t) PROVE x \in Range(c)
    <3>1. PICK j \in 1..Len(t) : x = t[j]
        BY <1>1 DEF Range
    <3>2. Len(s) + j \in DOMAIN c /\ c[Len(s) + j] = x
        BY <1>1, <1>3, <3>1
    <3> QED
        BY <3>2 DEF Range
  <2> QED
      BY <2>1, <2>2, <2>3
<1>6. ASSUME IsInjective(s), IsInjective(t), Range(s) \cap Range(t) = {}
      PROVE  IsInjective(c)
  <2> SUFFICES ASSUME NEW i \in DOMAIN c, NEW k \in DOMAIN c, c[i] = c[k] PROVE i = k
      BY DEF IsInjective
  <2>1. CASE i \in 1..Len(s) /\ k \in 1..Len(s)
      BY <1>1, <1>2, <1>6, <2>1 DEF IsInjective
  <2>2. CASE i \notin 1..Len(s) /\ k \notin 1..Len(s)
    <3>1. PICK a \in 1..Len(t) : i = Len(s) + a
        BY <1>4, <2>2
    <3>2. PICK b \in 1..Len(t) : k = Len(s) + b
        BY <1>4, <2>2
    <3>3. t[a] = t[b]
        BY <1>3, <3>1, <3>2
    <3>4. a = b
        BY <1>1, <1>6, <3>3 DEF IsInjective
    <3> QED
        BY <3>1, <3>2, <3>4
  <2>3. CASE i \in 1..Len(s) /\ k \notin 1..Len(s)
    <3>1. PICK b \in 1..Len(t) : k = Len(s) + b
        BY <1>4, <2>3
    <3>2. s[i] = t[b] /\ s[i] \in Range(s) /\ t[b] \in Range(t)
        BY <1>1, <1>2, <1>3, <2>3, <3>1 DEF Range
    <3> QED
        BY <1>6, <3>2
  <2>4. CASE i \notin 1..Len(s) /\ k \in 1..Len(s)
    <3>1. PICK a \in 1..Len(t) : i = Len(s) + a
        BY <1>4, <2>4
    <3>2. s[k] = t[a] /\ s[k] \in Range(s) /\ t[a] \in Range(t)
        BY <1>1, <1>2, <1>3, <2>4, <3>1 DEF Range
    <3> QED
        BY <1>6, <3>2
  <2> QED
      BY <2>1, <2>2, <2>3, <2>4
<1> QED
    BY <1>1, <1>5, <1>6 DEF c

-----------------------------------------------------------------------------
\* What Add does to the set of a signature.
LEMMA WithIdSpec ==
    ASSUME NEW set \in FunctionSet, NEW f \in FunctionId, NEW l \in Locations,
           \A k \in Locations : IsInjective(set.allIds[k])
    PROVE  /\ WithId(set, f, l) \in FunctionSet
           /\ WithId(set, f, l).location # None
           /\ Range(WithId(set, f, l).allIds[l]) = Range(set.allIds[l]) \cup {f}
           /\ \A k \in Locations : k # l => WithId(set, f, l).allIds[k] = set.allIds[k]
           /\ \A k \in Locations : IsInjective(WithId(set, f, l).allIds[k])
<1> DEFINE w == WithId(set, f, l)
<1>1. /\ set.allIds \in [Locations -> Seq(FunctionId)]
      /\ set.location \in Locations \cup {None}
    BY DEF FunctionSet
<1>2. w.location \in Locations
    BY <1>1 DEF WithId
<1>3. CASE f \in Range(set.allIds[l])
  <2>1. w.allIds = set.allIds
      BY <1>3 DEF WithId
  <2>2. w \in FunctionSet
      BY <1>1, <1>2, <1>3 DEF FunctionSet, WithId
  <2> QED
      BY <1>2, <1>3, <2>1, <2>2, NoneAssumption
<1>4. CASE f \notin Range(set.allIds[l])
  <2>1. w.allIds = [set.allIds EXCEPT ![l] = Append(set.allIds[l], f)]
      BY <1>4 DEF WithId
  <2>2. /\ Append(set.allIds[l], f) \in Seq(FunctionId)
        /\ Range(Append(set.allIds[l], f)) = Range(set.allIds[l]) \cup {f}
        /\ IsInjective(Append(set.allIds[l], f))
      BY <1>1, <1>4, RangeOfAppend
  <2>3. /\ w.allIds \in [Locations -> Seq(FunctionId)]
        /\ w.allIds[l] = Append(set.allIds[l], f)
        /\ \A k \in Locations : k # l => w.allIds[k] = set.allIds[k]
      BY <1>1, <2>1, <2>2
  <2>4. w = [location |-> w.location, allIds |-> w.allIds]
      BY DEF WithId
  <2>5. w \in FunctionSet
      BY <1>2, <2>3, <2>4 DEF FunctionSet
  <2> HIDE DEF w
  <2>6. \A k \in Locations : IsInjective(w.allIds[k])
      BY <2>2, <2>3
  <2> QED
      BY <1>2, <2>2, <2>3, <2>5, <2>6, NoneAssumption DEF w
<1> QED
    BY <1>3, <1>4

LEMMA InitEstablishes == Init => IInv
<1> SUFFICES ASSUME Init PROVE IInv
    OBVIOUS
<1>1. Len(Modules) \in Nat
    BY FunctionTableAssumption, LenProperties
<1>2. \A s \in Sigs, l \in Locations : NewGroup[s].allIds[l] = <<>> /\ NewGroup[s].location = None
    BY DEF NewGroup
<1>3. <<>> \in Seq(FunctionId) /\ Range(<<>>) = {} /\ IsInjective(<<>>)
    BY EmptySeq DEF Range, IsInjective
<1>4. NewGroup \in Group
    BY <1>3 DEF NewGroup, Group, FunctionSet
<1>5. \A s \in Sigs, l \in Locations : Ids(NewGroup, s, l) = {} /\ IsInjective(NewGroup[s].allIds[l])
    BY <1>2, <1>3 DEF Ids
<1>6. InGroup(NewGroup) = {}
    BY <1>5 DEF InGroup, Ids, Definition
<1>7. TypeOK
  <2>1. failed \in BOOLEAN /\ defined \subseteq Definition
      BY DEF Init
  <2>2. module \in 1..(Len(Modules) + 1)
      BY <1>1 DEF Init
  <2> QED
      BY <1>4, <2>1, <2>2 DEF Init, TypeOK
<1>8. GroupsHoldDefinitions
    BY <1>5, <1>6, <1>7 DEF Init, GroupsHoldDefinitions, ListedOnce
<1> QED
    BY <1>5, <1>8 DEF Init, IInv, EmptyUnlessLocated, CtxOfModule, ProgramOfEarlier

-----------------------------------------------------------------------------
\* A definition that Add accepts.
LEMMA DefineAccepted ==
    ASSUME IInv, NEW d \in Definition, Checking, d.fid.module = Modules[module], Consistent(d),
           ctxFunctions' = [ctxFunctions EXCEPT ![d.sig] = WithId(@, d.fid, d.location)],
           defined' = defined \cup {d},
           UNCHANGED <<module, ctxClosureSize, functions, closureSize, failed>>
    PROVE  IInv'
<1> DEFINE w == WithId(ctxFunctions[d.sig], d.fid, d.location)
<1>1. /\ d.fid \in FunctionId /\ d.sig \in Sigs /\ d.location \in Locations
      /\ ctxFunctions \in Group /\ ctxFunctions[d.sig] \in FunctionSet
      /\ \A k \in Locations : IsInjective(ctxFunctions[d.sig].allIds[k])
    BY DEF IInv, GroupsHoldDefinitions, TypeOK, Group, Definition, ListedOnce
<1>2. /\ w \in FunctionSet /\ w.location # None
      /\ Range(w.allIds[d.location]) = Range(ctxFunctions[d.sig].allIds[d.location]) \cup {d.fid}
      /\ \A k \in Locations : k # d.location => w.allIds[k] = ctxFunctions[d.sig].allIds[k]
      /\ \A k \in Locations : IsInjective(w.allIds[k])
  <2>1. PICK set : set = ctxFunctions[d.sig]
      OBVIOUS
  <2>2. PICK f, l : f = d.fid /\ l = d.location
      OBVIOUS
  <2>3. /\ set \in FunctionSet /\ f \in FunctionId /\ l \in Locations
        /\ \A k \in Locations : IsInjective(set.allIds[k])
      BY <1>1, <2>1, <2>2
  <2>4. w = WithId(set, f, l)
      BY <2>1, <2>2
  <2> HIDE DEF w
  <2>5. /\ w \in FunctionSet /\ w.location # None
        /\ Range(w.allIds[l]) = Range(set.allIds[l]) \cup {f}
        /\ \A k \in Locations : k # l => w.allIds[k] = set.allIds[k]
        /\ \A k \in Locations : IsInjective(w.allIds[k])
      BY <2>3, <2>4, WithIdSpec, ZenonT(30)
  <2> QED
      BY <2>1, <2>2, <2>5
<1>3. ctxFunctions' = [ctxFunctions EXCEPT ![d.sig] = w]
    OBVIOUS
<1> HIDE DEF w
<1>4. /\ ctxFunctions' \in Group /\ ctxFunctions'[d.sig] = w
      /\ \A s \in Sigs : s # d.sig => ctxFunctions'[s] = ctxFunctions[s]
    BY <1>1, <1>2, <1>3 DEF Group
<1>5. \A s \in Sigs, l \in Locations :
        Ids(ctxFunctions', s, l) = Ids(ctxFunctions, s, l)
                                    \cup (IF s = d.sig /\ l = d.location THEN {d.fid} ELSE {})
    BY <1>1, <1>2, <1>4 DEF Ids
<1>5a. Ids(ctxFunctions', d.sig, d.location) = Ids(ctxFunctions, d.sig, d.location) \cup {d.fid}
    BY <1>1, <1>5
<1>5b. ASSUME NEW s \in Sigs, NEW l \in Locations, s # d.sig \/ l # d.location
       PROVE  Ids(ctxFunctions', s, l) = Ids(ctxFunctions, s, l)
  <2>1. ~(s = d.sig /\ l = d.location)
      BY <1>5b
  <2>2. Ids(ctxFunctions', s, l) = Ids(ctxFunctions, s, l) \cup {}
      BY <1>5, <2>1
  <2> QED
      BY <2>2
<1>6. InGroup(ctxFunctions') = InGroup(ctxFunctions) \cup {d}
  <2>1. \A e \in Definition :
          e = d <=> (e.sig = d.sig /\ e.location = d.location /\ e.fid = d.fid)
      BY DEF Definition
  <2>2. \A e \in Definition : e.sig \in Sigs /\ e.location \in Locations
      BY DEF Definition
  <2>3. ASSUME NEW e \in Definition
        PROVE  e \in InGroup(ctxFunctions') <=> e \in InGroup(ctxFunctions) \/ e = d
    <3>1. e \in InGroup(ctxFunctions') <=> e.fid \in Ids(ctxFunctions', e.sig, e.location)
        BY DEF InGroup, Ids
    <3>2. e \in InGroup(ctxFunctions) <=> e.fid \in Ids(ctxFunctions, e.sig, e.location)
        BY DEF InGroup, Ids
    <3> QED
        BY <1>5a, <1>5b, <2>1, <2>2, <3>1, <3>2
  <2> QED
      BY <2>3 DEF InGroup
<1>7. ListedOnce(ctxFunctions')
    BY <1>2, <1>4 DEF IInv, GroupsHoldDefinitions, ListedOnce
<1>8. \A e \in defined : e.fid = d.fid => e.sig = d.sig
  <2> SUFFICES ASSUME NEW e \in defined, e.fid = d.fid PROVE e.sig = d.sig
      OBVIOUS
  <2>1. e \in Definition /\ e.sig \in Sigs /\ e.location \in Locations
      BY DEF IInv, GroupsHoldDefinitions, TypeOK, Definition
  <2>2. e \in InGroup(functions) \/ e \in InGroup(ctxFunctions)
      BY DEF IInv, GroupsHoldDefinitions
  <2>3. CASE e \in InGroup(functions)
    <3>1. PICK j \in 1..Len(Modules) : j < module /\ e.fid.module = Modules[j]
        BY <2>1, <2>3 DEF InGroup, IInv, ProgramOfEarlier, Ids
    <3>2. Modules[j] = Modules[module] /\ module \in 1..Len(Modules)
        BY <3>1 DEF Checking, IInv, GroupsHoldDefinitions, TypeOK
    <3>3. DOMAIN Modules = 1..Len(Modules) /\ Len(Modules) \in Nat
        BY FunctionTableAssumption, LenProperties
    <3>4. j = module
        BY <3>2, <3>3, FunctionTableAssumption DEF IsInjective
    <3> QED
        BY <3>1, <3>2, <3>3, <3>4
  <2>4. CASE e \in InGroup(ctxFunctions)
      BY <2>1, <2>4 DEF InGroup, Consistent, FoundUnder
  <2> QED
      BY <2>2, <2>3, <2>4
<1>9. TypeOK'
    BY <1>4 DEF IInv, GroupsHoldDefinitions, TypeOK
<1>10. GroupsHoldDefinitions'
  <2>1. /\ InGroup(functions)' = InGroup(functions)
        /\ ListedOnce(functions)' /\ ListedOnce(ctxFunctions)'
      BY <1>7 DEF IInv, GroupsHoldDefinitions, InGroup, ListedOnce
  <2>2. \A x, y \in defined' : x.fid = y.fid => x.sig = y.sig
      BY <1>8 DEF IInv, GroupsHoldDefinitions
  <2>3. (InGroup(functions) \cup InGroup(ctxFunctions) = defined)'
      BY <1>6, <2>1 DEF IInv, GroupsHoldDefinitions
  <2> QED
      BY <1>9, <2>1, <2>2, <2>3 DEF GroupsHoldDefinitions
<1>11. EmptyUnlessLocated(ctxFunctions)'
  <2> SUFFICES ASSUME NEW s \in Sigs, NEW l \in Locations, ctxFunctions'[s].location = None
               PROVE  Ids(ctxFunctions', s, l) = {}
      BY DEF EmptyUnlessLocated
  <2>1. s # d.sig /\ ctxFunctions[s].location = None
      BY <1>2, <1>4
  <2> QED
      BY <1>5b, <2>1 DEF IInv, EmptyUnlessLocated
<1>12. CtxOfModule'
    BY <1>5 DEF IInv, CtxOfModule, Checking
<1>13. EmptyUnlessLocated(functions)' /\ ProgramOfEarlier'
    BY DEF IInv, EmptyUnlessLocated, ProgramOfEarlier, Ids
<1> QED
    BY <1>10, <1>11, <1>12, <1>13 DEF IInv

-----------------------------------------------------------------------------
\* Groups of different functions are merged to one that holds both.
LEMMA MergedSpec ==
    ASSUME NEW g \in Group, NEW h \in Group, ListedOnce(g), ListedOnce(h),
           EmptyUnlessLocated(g), EmptyUnlessLocated(h),
           \A s \in Sigs, l \in Locations : Ids(g, s, l) \cap Ids(h, s, l) = {}
    PROVE  /\ Merged(g, h) \in Group
           /\ ListedOnce(Merged(g, h)) /\ EmptyUnlessLocated(Merged(g, h))
           /\ \A s \in Sigs, l \in Locations :
                Ids(Merged(g, h), s, l) = Ids(g, s, l) \cup Ids(h, s, l)
<1> DEFINE m == Merged(g, h)
<1>1. m = [s \in Sigs |-> m[s]]
    BY DEF Merged
<1>2. ASSUME NEW s \in Sigs
      PROVE  /\ m[s] \in FunctionSet
             /\ \A l \in Locations : /\ IsInjective(m[s].allIds[l])
                                     /\ Ids(m, s, l) = Ids(g, s, l) \cup Ids(h, s, l)
                                     /\ m[s].location = None => Ids(m, s, l) = {}
  <2>1. /\ g[s] \in FunctionSet /\ h[s] \in FunctionSet
        /\ g[s].allIds \in [Locations -> Seq(FunctionId)]
        /\ h[s].allIds \in [Locations -> Seq(FunctionId)]
      BY DEF Group, FunctionSet
  <2>2. CASE g[s].location = None
    <3>1. m[s] = h[s]
        BY <2>2 DEF Merged
    <3>2. \A l \in Locations : Ids(g, s, l) = {}
        BY <2>2 DEF EmptyUnlessLocated
    <3>3. \A l \in Locations : Ids(m, s, l) = Ids(h, s, l)
        BY <3>1 DEF Ids
    <3> HIDE DEF m
    <3> QED
        BY <2>1, <3>1, <3>2, <3>3 DEF ListedOnce, EmptyUnlessLocated
  <2>3. CASE g[s].location # None
    <3>1. m[s] = [location |-> g[s].location,
                  allIds |-> [l \in Locations |-> g[s].allIds[l] \o h[s].allIds[l]]]
        BY <2>3 DEF Merged
    <3> HIDE DEF m
    <3>2. ASSUME NEW l \in Locations
          PROVE  /\ m[s].allIds[l] \in Seq(FunctionId)
                 /\ IsInjective(m[s].allIds[l])
                 /\ Ids(m, s, l) = Ids(g, s, l) \cup Ids(h, s, l)
      <4>1. PICK a, b : a = g[s].allIds[l] /\ b = h[s].allIds[l]
          OBVIOUS
      <4>2. /\ a \in Seq(FunctionId) /\ b \in Seq(FunctionId)
            /\ IsInjective(a) /\ IsInjective(b)
          BY <2>1, <4>1 DEF ListedOnce
      <4>3. Range(a) = Ids(g, s, l) /\ Range(b) = Ids(h, s, l) /\ Range(a) \cap Range(b) = {}
          BY <4>1 DEF Ids
      <4>4. m[s].allIds[l] = a \o b
        <5>1. m[s].allIds = [k \in Locations |-> g[s].allIds[k] \o h[s].allIds[k]]
            BY <3>1
        <5>2. m[s].allIds[l] = g[s].allIds[l] \o h[s].allIds[l]
            BY <5>1
        <5> QED
            BY <4>1, <5>2
      <4>5. /\ a \o b \in Seq(FunctionId) /\ IsInjective(a \o b)
            /\ Range(a \o b) = Range(a) \cup Range(b)
          BY <4>2, <4>3, RangeOfConcat
      <4> QED
          BY <4>3, <4>4, <4>5 DEF Ids
    <3>3. m[s] \in FunctionSet
      <4>1. m[s].allIds \in [Locations -> Seq(FunctionId)]
          BY <3>1, <3>2
      <4>2. m[s] = [location |-> m[s].location, allIds |-> m[s].allIds]
          BY <3>1
      <4>3. m[s].location \in Locations \cup {None}
          BY <2>1, <3>1 DEF FunctionSet
      <4> QED
          BY <4>1, <4>2, <4>3 DEF FunctionSet
    <3>4. m[s].location # None
        BY <2>3, <3>1
    <3> QED
        BY <3>2, <3>3, <3>4
  <2> QED
      BY <2>2, <2>3
<1> HIDE DEF m
<1>3. m \in Group
    BY <1>1, <1>2 DEF Group
<1>4. ListedOnce(m) /\ EmptyUnlessLocated(m)
    BY <1>2 DEF ListedOnce, EmptyUnlessLocated
<1> QED
    BY <1>2, <1>3, <1>4 DEF m

\* The functions of the module join those of the modules before it.
LEMMA EndModuleKeeps == ASSUME IInv, EndModule PROVE IInv'
<1>1. /\ functions \in Group /\ ctxFunctions \in Group
      /\ ListedOnce(functions) /\ ListedOnce(ctxFunctions)
      /\ EmptyUnlessLocated(functions) /\ EmptyUnlessLocated(ctxFunctions)
    BY DEF IInv, GroupsHoldDefinitions, TypeOK
<1>2. Len(Modules) \in Nat /\ DOMAIN Modules = 1..Len(Modules)
    BY FunctionTableAssumption, LenProperties
<1>3. module \in 1..Len(Modules) /\ module' = module + 1
    BY <1>2 DEF EndModule, Checking, IInv, GroupsHoldDefinitions, TypeOK
<1>4. ASSUME NEW s \in Sigs, NEW l \in Locations
      PROVE  Ids(functions, s, l) \cap Ids(ctxFunctions, s, l) = {}
  <2> SUFFICES ASSUME NEW f \in Ids(functions, s, l), f \in Ids(ctxFunctions, s, l) PROVE FALSE
      OBVIOUS
  <2>1. PICK j \in 1..Len(Modules) : j < module /\ f.module = Modules[j]
      BY DEF IInv, ProgramOfEarlier
  <2>2. f.module = Modules[module]
      BY DEF IInv, CtxOfModule
  <2>3. j = module
      BY <1>2, <1>3, <2>1, <2>2, FunctionTableAssumption DEF IsInjective
  <2> QED
      BY <1>3, <2>1, <2>3
<1>5. functions' = Merged(functions, ctxFunctions) /\ ctxFunctions' = NewGroup
    BY DEF EndModule
<1>6. /\ functions' \in Group /\ ListedOnce(functions') /\ EmptyUnlessLocated(functions')
      /\ \A s \in Sigs, l \in Locations :
            Ids(functions', s, l) = Ids(functions, s, l) \cup Ids(ctxFunctions, s, l)
    BY <1>1, <1>4, <1>5, MergedSpec
<1>7. /\ NewGroup \in Group /\ ListedOnce(NewGroup) /\ EmptyUnlessLocated(NewGroup)
      /\ \A s \in Sigs, l \in Locations : Ids(NewGroup, s, l) = {}
  <2>1. \A s \in Sigs, l \in Locations : NewGroup[s].allIds[l] = <<>>
      BY DEF NewGroup
  <2>2. <<>> \in Seq(FunctionId) /\ Range(<<>>) = {} /\ IsInjective(<<>>)
      BY EmptySeq DEF Range, IsInjective
  <2>3. NewGroup \in Group
      BY <2>2 DEF NewGroup, Group, FunctionSet
  <2> QED
      BY <2>1, <2>2, <2>3 DEF ListedOnce, EmptyUnlessLocated, Ids
<1>8. InGroup(functions') \cup InGroup(ctxFunctions') = defined'
  <2>1. ASSUME NEW e \in Definition
        PROVE  /\ e \in InGroup(functions') <=> e \in InGroup(functions) \/ e \in InGroup(ctxFunctions)
               /\ e \notin InGroup(ctxFunctions')
    <3>1. /\ e \in InGroup(functions') <=> e.fid \in Ids(functions', e.sig, e.location)
          /\ e \in InGroup(functions) <=> e.fid \in Ids(functions, e.sig, e.location)
          /\ e \in InGroup(ctxFunctions) <=> e.fid \in Ids(ctxFunctions, e.sig, e.location)
          /\ e \in InGroup(ctxFunctions') <=> e.fid \in Ids(ctxFunctions', e.sig, e.location)
        BY DEF InGroup, Ids
    <3>2. e.sig \in Sigs /\ e.location \in Locations
        BY DEF Definition
    <3> QED
        BY <1>5, <1>6, <1>7, <3>1, <3>2
  <2>2. InGroup(functions) \cup InGroup(ctxFunctions) = defined
      BY DEF IInv, GroupsHoldDefinitions
  <2>3. defined' = defined /\ defined \subseteq Definition
      BY DEF EndModule, IInv, GroupsHoldDefinitions, TypeOK
  <2>4. InGroup(functions') \subseteq Definition /\ InGroup(ctxFunctions') \subseteq Definition
      BY DEF InGroup
  <2> QED
      BY <2>1, <2>2, <2>3, <2>4
<1>9. TypeOK'
  <2>1. failed' \in BOOLEAN /\ defined' \subseteq Definition
      BY DEF EndModule, IInv, GroupsHoldDefinitions, TypeOK
  <2>2. module' \in 1..(Len(Modules) + 1)
      BY <1>2, <1>3
  <2> QED
      BY <1>5, <1>6, <1>7, <2>1, <2>2 DEF TypeOK
<1>10. GroupsHoldDefinitions'
  <2>1. \A d, e \in defined' : d.fid = e.fid => d.sig = e.sig
      BY DEF EndModule, IInv, GroupsHoldDefinitions
  <2>2. ListedOnce(functions)' /\ ListedOnce(ctxFunctions)'
      BY <1>5, <1>6, <1>7 DEF ListedOnce
  <2>3. (InGroup(functions) \cup InGroup(ctxFunctions) = defined)'
      BY <1>8 DEF InGroup
  <2> QED
      BY <1>9, <2>1, <2>2, <2>3 DEF GroupsHoldDefinitions
<1>11. EmptyUnlessLocated(functions)' /\ EmptyUnlessLocated(ctxFunctions)'
    BY <1>5, <1>6, <1>7 DEF EmptyUnlessLocated, Ids
<1>12. CtxOfModule'
    BY <1>5, <1>7 DEF CtxOfModule
<1>13. ProgramOfEarlier'
  <2> SUFFICES ASSUME NEW s \in Sigs, NEW l \in Locations, NEW f \in Ids(functions', s, l)
               PROVE  \E j \in 1..Len(Modules) : j < module' /\ f.module = Modules[j]
      BY DEF ProgramOfEarlier
  <2>1. CASE f \in Ids(functions, s, l)
    <3>1. PICK j \in 1..Len(Modules) : j < module /\ f.module = Modules[j]
        BY <2>1 DEF IInv, ProgramOfEarlier
    <3> QED
        BY <1>3, <3>1
  <2>2. CASE f \in Ids(ctxFunctions, s, l)
    <3>1. f.module = Modules[module]
        BY <2>2 DEF IInv, CtxOfModule
    <3> QED
        BY <1>3, <3>1
  <2> QED
      BY <1>6, <2>1, <2>2
<1> QED
    BY <1>10, <1>11, <1>12, <1>13 DEF IInv

\* Steps that leave the groups and the definitions alone.
LEMMA Unrelated ==
    ASSUME IInv, UNCHANGED <<module, ctxFunctions, functions, defined>>, failed' \in BOOLEAN
    PROVE  IInv'
<1>1. TypeOK'
    BY DEF IInv, GroupsHoldDefinitions, TypeOK
<1>2. GroupsHoldDefinitions'
    BY <1>1 DEF IInv, GroupsHoldDefinitions, InGroup, ListedOnce
<1> QED
    BY <1>2, ZenonT(30) DEF IInv, EmptyUnlessLocated, CtxOfModule, ProgramOfEarlier, Ids

LEMMA StepKeeps == IInv /\ [Next]_vars => IInv'
<1> SUFFICES ASSUME IInv, [Next]_vars PROVE IInv'
    OBVIOUS
<1>1. failed \in BOOLEAN
    BY DEF IInv, GroupsHoldDefinitions, TypeOK
<1>2. ASSUME NEW d \in Definition, Define(d) PROVE IInv'
  <2>1. CASE Consistent(d)
      BY <1>2, <2>1, DefineAccepted DEF Define
  <2>2. CASE ~Consistent(d)
    <3>1. failed' = TRUE /\ UNCHANGED <<module, ctxFunctions, functions, defined>>
        BY <1>2, <2>2 DEF Define
    <3> QED
        BY <3>1, Unrelated
  <2> QED
      BY <2>1, <2>2
<1>3. ASSUME NEW d \in defined, NEW supplied, CheckPartial(d, supplied) PROVE IInv'
    BY <1>1, <1>3, Unrelated DEF CheckPartial
<1>4. CASE EndModule
    BY <1>4, EndModuleKeeps
<1>5. ASSUME NEW t \in Targets, WriteTarget(t) PROVE IInv'
    BY <1>1, <1>5, Unrelated DEF WriteTarget, checking
<1>6. ASSUME NEW p \in partials, CreateClosure(p) PROVE IInv'
    BY <1>1, <1>6, Unrelated DEF CreateClosure, checking
<1>7. ASSUME NEW t \in Targets, CallClosure(t) PROVE IInv'
    BY <1>1, <1>7, Unrelated DEF CallClosure, checking
<1>8. CASE UNCHANGED vars
    BY <1>1, <1>8, Unrelated DEF vars, checking
<1> QED
    BY <1>2, <1>3, <1>4, <1>5, <1>6, <1>7, <1>8 DEF Next

-----------------------------------------------------------------------------
\* The inductive invariant.
THEOREM Invariance == Spec => []IInv
<1> QED
    BY InitEstablishes, StepKeeps, PTL DEF Spec

\* Whatever modules define, the groups hold every definition that was accepted
\* exactly once, before and after each merge, and a function has one signature
\* (FunctionGroup.Add and MergeIn, functions.go:250-315).
THEOREM EachDefinitionOnce == Spec => []GroupsHoldDefinitions
<1>1. IInv => GroupsHoldDefinitions
    BY DEF IInv
<1> QED
    BY <1>1, Invariance, PTL

-----------------------------------------------------------------------------
(* Induction.  What is shown of 0, and of k when it holds of k - 1, is     *)
(* shown of the numbers up to n; the set T stands for the statement.       *)

LEMMA UpTo ==
    ASSUME NEW n \in Nat, NEW T, 0 \in T, \A k \in 1..n : k - 1 \in T => k \in T
    PROVE  \A k \in 0..n : k \in T
<1> DEFINE U == {k \in Nat : k <= n /\ k \notin T}
           R == OpToRel(<, Nat)
<1>1. SUFFICES ASSUME U # {} PROVE FALSE
    OBVIOUS
<1>2. U \in SUBSET Nat /\ \A x, y \in Nat : y < x => <<y, x>> \in R
    BY DEF OpToRel
<1>3. IsWellFoundedOn(R, Nat)
    BY NatLessThanWellFounded
<1> HIDE DEF R
<1>4. PICK k \in U : \A y \in U : ~ (<<y, k>> \in R)
    BY <1>1, <1>2, <1>3, WFMin
<1>5. k \in Nat /\ k <= n /\ k \notin T /\ k # 0
    OBVIOUS
<1>6. k \in 1..n /\ k - 1 \in Nat /\ k - 1 <= n /\ k - 1 < k
    BY <1>5
<1>7. k - 1 \notin U
    BY <1>2, <1>4, <1>5, <1>6
<1> QED
    BY <1>5, <1>6, <1>7

-----------------------------------------------------------------------------
(* Sums.  g holds the sums of the first numbers of f.                      *)

Summed(g, f, n) == g = [k \in 0..n |-> IF k = 0 THEN 0 ELSE g[k - 1] + f[k]]

LEMMA SumsExist ==
    ASSUME NEW f, NEW n \in Nat
    PROVE  \E g : Summed(g, f, n)
<1> DEFINE T == {k \in Nat : \E g : Summed(g, f, k)}
<1>1. 0 \in T
    <2> DEFINE g == [k \in 0..0 |-> 0]
    <2>1. g = [k \in 0..0 |-> IF k = 0 THEN 0 ELSE g[k - 1] + f[k]]
        OBVIOUS
    <2> HIDE DEF g
    <2>2. Summed(g, f, 0)
        BY <2>1 DEF Summed
    <2> QED
        BY <2>2
<1>2. ASSUME NEW k \in 1..n, k - 1 \in T PROVE k \in T
    <2>1. PICK g : Summed(g, f, k - 1)
        BY <1>2
    <2> DEFINE h == [j \in 0..k |-> IF j # k THEN g[j] ELSE g[k - 1] + f[k]]
    <2>2. \A j \in 0..k : h[j] = IF j = 0 THEN 0 ELSE h[j - 1] + f[j]
        <3> TAKE j \in 0..k
        <3>1. CASE j = k
            BY <3>1
        <3>2. CASE j # k
            <4>1. j \in 0..(k - 1) /\ (j # 0 => j - 1 \in 0..k /\ j - 1 # k)
                BY <3>2
            <4>2. g[j] = IF j = 0 THEN 0 ELSE g[j - 1] + f[j]
                BY <2>1, <4>1 DEF Summed
            <4>3. h[j] = g[j] /\ (j # 0 => h[j - 1] = g[j - 1])
                BY <3>2, <4>1
            <4> QED
                BY <4>2, <4>3
        <3> QED
            BY <3>1, <3>2
    <2>3. h = [j \in 0..k |-> h[j]]
        OBVIOUS
    <2>4. Summed(h, f, k)
        <3> HIDE DEF h
        <3> QED
            BY <2>2, <2>3 DEF Summed
    <2> QED
        BY <2>4
<1> HIDE DEF T
<1>3. n \in T
    BY <1>1, <1>2, UpTo
<1> QED
    BY <1>3 DEF T

LEMMA SumIsLast ==
    ASSUME NEW f, Len(f) \in Nat
    PROVE  \E g : Summed(g, f, Len(f)) /\ SumOver(f) = g[Len(f)]
<1> DEFINE s == CHOOSE g : g = [k \in 0..Len(f) |-> IF k = 0 THEN 0 ELSE g[k - 1] + f[k]]
<1>1. \E g : g = [k \in 0..Len(f) |-> IF k = 0 THEN 0 ELSE g[k - 1] + f[k]]
    BY SumsExist DEF Summed
<1>2. s = [k \in 0..Len(f) |-> IF k = 0 THEN 0 ELSE s[k - 1] + f[k]]
    BY <1>1
<1>3. SumOver(f) = s[Len(f)]
    BY DEF SumOver
<1> QED
    BY <1>2, <1>3 DEF Summed

\* The sums of natural numbers grow.
LEMMA SumsGrow ==
    ASSUME NEW n \in Nat, NEW f, \A k \in 1..n : f[k] \in Nat, NEW g, Summed(g, f, n)
    PROVE  /\ \A k \in 0..n : g[k] \in Nat
           /\ g[0] = 0 /\ \A k \in 1..n : g[k] = g[k - 1] + f[k]
           /\ \A j, k \in 0..n : j <= k => g[j] <= g[k]
<1>1. g[0] = 0 /\ \A k \in 1..n : g[k] = g[k - 1] + f[k]
    BY DEF Summed
<1>2. \A k \in 0..n : g[k] \in Nat
    <2> DEFINE T == {k \in Nat : g[k] \in Nat}
    <2>1. 0 \in T
        BY <1>1
    <2>2. ASSUME NEW k \in 1..n, k - 1 \in T PROVE k \in T
        <3>1. f[k] \in Nat /\ g[k - 1] \in Nat /\ g[k] = g[k - 1] + f[k]
            BY <1>1, <2>2
        <3> QED
            BY <3>1
    <2> HIDE DEF T
    <2>3. \A k \in 0..n : k \in T
        BY <2>1, <2>2, UpTo
    <2> QED
        BY <2>3 DEF T
<1>3. ASSUME NEW j \in 0..n PROVE \A k \in 0..n : j <= k => g[j] <= g[k]
    <2> DEFINE T == {k \in Nat : j <= k => g[j] <= g[k]}
    <2>1. 0 \in T
        <3>1. j <= 0 => j = 0
            OBVIOUS
        <3> QED
            BY <3>1, <1>1
    <2>2. ASSUME NEW k \in 1..n, k - 1 \in T PROVE k \in T
        <3> DEFINE a == g[j]
                   b == g[k - 1]
                   c == g[k]
                   d == f[k]
        <3>1. a \in Nat /\ b \in Nat /\ c = b + d /\ d \in Nat
            BY <1>1, <1>2, <2>2
        <3>2. j <= k - 1 => a <= b
            BY <2>2
        <3>3. j <= k => j <= k - 1 \/ j = k
            OBVIOUS
        <3>4. j = k => a = c
            OBVIOUS
        <3> HIDE DEF a, b, c, d
        <3>5. j <= k => a <= c
            BY <3>1, <3>2, <3>3, <3>4
        <3> QED
            BY <3>5 DEF a, c
    <2> HIDE DEF T
    <2>3. \A k \in 0..n : k \in T
        BY <2>1, <2>2, UpTo
    <2> QED
        BY <2>3 DEF T
<1> QED
    BY <1>1, <1>2, <1>3

\* Sums of numbers of which each is the other and 8 more.
WordsApart(F, H, n) == F[n] = H[n] + 8 * n

LEMMA SumsApart ==
    ASSUME NEW n \in Nat, NEW f, NEW h,
           \A k \in 1..n : f[k] \in Nat /\ h[k] \in Nat,
           \A k \in 1..n : f[k] = h[k] + 8,
           NEW F, Summed(F, f, n), NEW H, Summed(H, h, n)
    PROVE  WordsApart(F, H, n)
<1>1. /\ \A k \in 0..n : F[k] \in Nat /\ H[k] \in Nat
      /\ F[0] = 0 /\ H[0] = 0
      /\ \A k \in 1..n : F[k] = F[k - 1] + f[k] /\ H[k] = H[k - 1] + h[k]
    BY SumsGrow
<1>2. WordsApart(F, H, n)
    <2> DEFINE T == {k \in Nat : F[k] = H[k] + 8 * k}
    <2>1. 0 \in T
        BY <1>1
    <2>2. ASSUME NEW k \in 1..n, k - 1 \in T PROVE k \in T
        <3> DEFINE a == F[k - 1]
                   b == H[k - 1]
                   d == h[k]
                   e == 8 * (k - 1)
        <3>1. a \in Nat /\ b \in Nat /\ d \in Nat /\ a = b + e
            BY <1>1, <2>2
        <3>2. F[k] = a + (d + 8) /\ H[k] = b + d
            BY <1>1
        <3>3. 8 * k = e + 8 /\ e \in Int
            OBVIOUS
        <3> HIDE DEF a, b, d, e
        <3>4. a + (d + 8) = (b + d) + (e + 8)
            BY <3>1, <3>3
        <3>5. F[k] = H[k] + 8 * k
            BY <3>2, <3>3, <3>4
        <3> QED
            BY <3>5
    <2> HIDE DEF T
    <2>3. n \in T
        <3>1. \A k \in 0..n : k \in T
            BY <2>1, <2>2, UpTo
        <3> QED
            BY <3>1
    <2> QED
        BY <2>3 DEF T, WordsApart
<1> QED
    BY <1>2

\* Sums of numbers of which each is at most the other.
LEMMA SumsCompare ==
    ASSUME NEW n \in Nat, NEW f, NEW h,
           \A k \in 1..n : f[k] \in Nat /\ h[k] \in Nat /\ f[k] <= h[k],
           NEW F, Summed(F, f, n), NEW H, Summed(H, h, n)
    PROVE  F[n] <= H[n]
<1>1. /\ \A k \in 0..n : F[k] \in Nat /\ H[k] \in Nat
      /\ F[0] = 0 /\ H[0] = 0
      /\ \A k \in 1..n : F[k] = F[k - 1] + f[k] /\ H[k] = H[k - 1] + h[k]
    BY SumsGrow
<1>2. F[n] <= H[n]
    <2> DEFINE T == {k \in Nat : F[k] <= H[k]}
    <2>1. 0 \in T
        BY <1>1
    <2>2. ASSUME NEW k \in 1..n, k - 1 \in T PROVE k \in T
        <3> DEFINE a == F[k - 1]
                   b == H[k - 1]
                   c == f[k]
                   d == h[k]
        <3>1. a \in Nat /\ b \in Nat /\ c \in Nat /\ d \in Nat /\ a <= b /\ c <= d
            BY <1>1, <2>2
        <3>2. F[k] = a + c /\ H[k] = b + d
            BY <1>1
        <3> HIDE DEF a, b, c, d
        <3>3. a + c <= b + d
            BY <3>1
        <3>4. F[k] <= H[k]
            BY <3>2, <3>3
        <3> QED
            BY <3>4
    <2> HIDE DEF T
    <2>3. n \in T
        <3>1. \A k \in 0..n : k \in T
            BY <2>1, <2>2, UpTo
        <3> QED
            BY <3>1
    <2> QED
        BY <2>3 DEF T
<1> QED
    BY <1>2

\* The sum of the first numbers of a.
LEMMA SumOfFirst ==
    ASSUME NEW n \in Nat, NEW a, \A k \in 1..n : a[k] \in Nat, NEW g, Summed(g, a, n),
           NEW m \in 0..n, NEW f, Len(f) = m, \A k \in 1..m : f[k] = a[k]
    PROVE  SumOver(f) = g[m]
<1>1. PICK h : Summed(h, f, m) /\ SumOver(f) = h[m]
    BY SumIsLast
<1> DEFINE T == {k \in Nat : h[k] = g[k]}
<1>2. 0 \in T
    BY <1>1 DEF Summed
<1>3. ASSUME NEW k \in 1..m, k - 1 \in T PROVE k \in T
    <2>1. h[k] = h[k - 1] + f[k] /\ g[k] = g[k - 1] + a[k]
        BY <1>1 DEF Summed
    <2> QED
        BY <2>1, <1>3
<1> HIDE DEF T
<1>4. m \in Nat /\ m \in 0..m
    OBVIOUS
<1>5. \A k \in 0..m : k \in T
    BY <1>2, <1>3, <1>4, UpTo
<1> QED
    BY <1>1, <1>4, <1>5 DEF T

-----------------------------------------------------------------------------
(* The entries of a group, from which the tables are written.              *)

\* g[i] is the first i of the sequences s behind each other.
Joined(g, s, n) == g = [i \in 1..n |-> IF i = 1 THEN s[i] ELSE g[i - 1] \o s[i]]

LEMMA JoinedExists ==
    ASSUME NEW s, NEW n \in Nat
    PROVE  \E g : Joined(g, s, n)
<1> DEFINE T == {k \in Nat : \E g : Joined(g, s, k)}
<1>1. 0 \in T
    <2>1. 1..0 = {}
        OBVIOUS
    <2>2. Joined([i \in 1..0 |-> i], s, 0)
        BY <2>1 DEF Joined
    <2> QED
        BY <2>2
<1>2. ASSUME NEW k \in 1..n, k - 1 \in T PROVE k \in T
    <2>1. PICK g : Joined(g, s, k - 1)
        BY <1>2
    <2> DEFINE h == [i \in 1..k |-> IF i # k THEN g[i]
                                    ELSE IF k = 1 THEN s[k] ELSE g[k - 1] \o s[k]]
    <2>2. \A i \in 1..k : h[i] = IF i = 1 THEN s[i] ELSE h[i - 1] \o s[i]
        <3> TAKE i \in 1..k
        <3>1. CASE i = k
            BY <3>1
        <3>2. CASE i # k
            <4>1. i \in 1..(k - 1) /\ (i # 1 => i - 1 \in 1..k /\ i - 1 # k)
                BY <3>2
            <4>2. g[i] = IF i = 1 THEN s[i] ELSE g[i - 1] \o s[i]
                BY <2>1, <4>1 DEF Joined
            <4>3. h[i] = g[i] /\ (i # 1 => h[i - 1] = g[i - 1])
                BY <3>2, <4>1
            <4> QED
                BY <4>2, <4>3
        <3> QED
            BY <3>1, <3>2
    <2>3. h = [i \in 1..k |-> h[i]]
        OBVIOUS
    <2>4. Joined(h, s, k)
        <3> HIDE DEF h
        <3> QED
            BY <2>2, <2>3 DEF Joined
    <2> QED
        BY <2>4
<1> HIDE DEF T
<1>3. \A k \in 0..n : k \in T
    BY <1>1, <1>2, UpTo
<1> QED
    BY <1>3 DEF T

\* What is in sequences behind each other is what is in one of them.
LEMMA FlattenRange ==
    ASSUME NEW S, NEW n \in Nat, NEW s \in [1..n -> Seq(S)]
    PROVE  /\ FlattenSeq(s) \in Seq(S)
           /\ \A x : x \in Range(FlattenSeq(s)) <=> \E k \in 1..n : x \in Range(s[k])
<1>1. Len(s) = n
    OBVIOUS
<1>2. CASE n = 0
    <2>1. s = <<>> /\ Range(<<>>) = {}
        BY <1>2 DEF Range
    <2>2. FlattenSeq(s) = <<>> /\ 1..n = {}
        BY <1>2, <2>1 DEF FlattenSeq
    <2> QED
        BY <2>1, <2>2, EmptySeq
<1>3. CASE n # 0
    <2> DEFINE g == CHOOSE g : g = [i \in 1..n |-> IF i = 1 THEN s[i] ELSE g[i - 1] \o s[i]]
    <2>1. FlattenSeq(s) = g[n]
        BY <1>1, <1>3 DEF FlattenSeq
    <2>2. g = [i \in 1..n |-> IF i = 1 THEN s[i] ELSE g[i - 1] \o s[i]]
        BY JoinedExists DEF Joined
    <2> HIDE DEF g
    <2> DEFINE Good(k) == /\ g[k] \in Seq(S)
                          /\ \A x : x \in Range(g[k]) <=> \E j \in 1..k : x \in Range(s[j])
               T == {k \in Nat : k # 0 => Good(k)}
    <2>3. 0 \in T
        OBVIOUS
    <2>4. ASSUME NEW k \in 1..n, k - 1 \in T PROVE k \in T
        <3>1. s[k] \in Seq(S) /\ g[k] = IF k = 1 THEN s[k] ELSE g[k - 1] \o s[k]
            BY <2>2
        <3>2. CASE k = 1
            <4>1. g[k] = s[k] /\ 1..k = {k}
                BY <3>1, <3>2
            <4>2. \A x : x \in Range(g[k]) <=> \E j \in 1..k : x \in Range(s[j])
                BY <4>1
            <4>3. g[k] \in Seq(S)
                BY <3>1, <4>1
            <4>4. Good(k)
                BY <4>2, <4>3
            <4> QED
                BY <4>4
        <3>3. CASE k # 1
            <4>1. k - 1 # 0 /\ \A j \in 1..k : j = k \/ j \in 1..(k - 1)
                BY <3>3
            <4>2. Good(k - 1)
                BY <2>4, <4>1
            <4>3. g[k] = g[k - 1] \o s[k]
                BY <3>1, <3>3
            <4>4. g[k] \in Seq(S) /\ Range(g[k]) = Range(g[k - 1]) \cup Range(s[k])
                BY <3>1, <4>2, <4>3, RangeOfConcat
            <4>5. ASSUME NEW x
                  PROVE  x \in Range(g[k]) <=> \E j \in 1..k : x \in Range(s[j])
                <5>1. x \in Range(g[k - 1]) <=> \E j \in 1..(k - 1) : x \in Range(s[j])
                    BY <4>2
                <5>2. 1..(k - 1) \subseteq 1..k /\ k \in 1..k
                    OBVIOUS
                <5> QED
                    BY <4>1, <4>4, <5>1, <5>2
            <4>6. Good(k)
                BY <4>4, <4>5
            <4> QED
                BY <4>6
        <3> QED
            BY <3>2, <3>3
    <2>5. n \in T
        <3> HIDE DEF T
        <3>1. \A k \in 0..n : k \in T
            BY <2>3, <2>4, UpTo
        <3> QED
            BY <3>1
    <2>6. Good(n)
        <3> HIDE DEF Good
        <3> QED
            BY <1>3, <2>5
    <2> QED
        BY <2>1, <2>6
<1> QED
    BY <1>2, <1>3

\* The entries of a group are its definitions.
LEMMA EntriesSpec ==
    ASSUME NEW group \in Group
    PROVE  Entries(group) \in Seq(Definition) /\ Range(Entries(group)) = InGroup(group)
<1> DEFINE Of(s, l) == [i \in 1..Len(group[s].allIds[l]) |->
                          [fid |-> group[s].allIds[l][i], sig |-> s, location |-> l]]
           Under(s) == Of(s, "cpu") \o Of(s, "gpu") \o Of(s, "anywhere")
           all == [k \in 1..Len(Signatures) |-> Under(Signatures[k])]
<1>1. Entries(group) = FlattenSeq(all)
    BY DEF Entries
<1>2. ASSUME NEW s \in Sigs, NEW l \in Locations
      PROVE  /\ Of(s, l) \in Seq(Definition)
             /\ \A d : d \in Range(Of(s, l)) <=>
                         d \in Definition /\ d.sig = s /\ d.location = l
                         /\ d.fid \in Range(group[s].allIds[l])
    <2> DEFINE ids == group[s].allIds[l]
               o == Of(s, l)
    <2>1. ids \in Seq(FunctionId)
        BY DEF Group, FunctionSet
    <2>2. /\ Len(ids) \in Nat /\ DOMAIN ids = 1..Len(ids)
          /\ \A i \in 1..Len(ids) : ids[i] \in FunctionId
        BY <2>1, LenProperties, ElementOfSeq
    <2>3. o = [i \in 1..Len(ids) |-> [fid |-> ids[i], sig |-> s, location |-> l]]
        OBVIOUS
    <2> HIDE DEF ids, o
    <2>4. \A i \in 1..Len(ids) : o[i] \in Definition
        BY <2>2, <2>3 DEF Definition
    <2>5. o \in [1..Len(ids) -> Definition]
        BY <2>3, <2>4
    <2>6. o \in Seq(Definition)
        BY <2>2, <2>5
    <2>7. ASSUME NEW d
          PROVE  d \in Range(o) <=>
                   d \in Definition /\ d.sig = s /\ d.location = l /\ d.fid \in Range(ids)
        <3>1. ASSUME d \in Range(o)
              PROVE  d \in Definition /\ d.sig = s /\ d.location = l /\ d.fid \in Range(ids)
            <4>1. PICK i \in 1..Len(ids) : d = o[i]
                BY <2>5, <3>1 DEF Range
            <4>2. d = [fid |-> ids[i], sig |-> s, location |-> l]
                BY <2>3, <4>1
            <4>3. d \in Definition
                BY <2>4, <4>1
            <4>4. d.sig = s /\ d.location = l /\ d.fid = ids[i]
                BY <4>2
            <4> QED
                BY <2>2, <4>3, <4>4 DEF Range
        <3>2. ASSUME d \in Definition, d.sig = s, d.location = l, d.fid \in Range(ids)
              PROVE  d \in Range(o)
            <4>1. PICK i \in 1..Len(ids) : d.fid = ids[i]
                BY <2>2, <3>2 DEF Range
            <4>2. d = [fid |-> d.fid, sig |-> d.sig, location |-> d.location]
                BY <3>2 DEF Definition
            <4>3. d = o[i]
                BY <2>3, <3>2, <4>1, <4>2
            <4> QED
                BY <2>5, <4>3 DEF Range
        <3> QED
            BY <3>1, <3>2
    <2> QED
        BY <2>6, <2>7 DEF ids, o
<1> HIDE DEF Of
<1>3. ASSUME NEW s \in Sigs
      PROVE  /\ Under(s) \in Seq(Definition)
             /\ \A d : d \in Range(Under(s)) <=> d \in InGroup(group) /\ d.sig = s
    <2>1. /\ Of(s, "cpu") \in Seq(Definition) /\ Of(s, "gpu") \in Seq(Definition)
          /\ Of(s, "anywhere") \in Seq(Definition)
        BY <1>2 DEF Locations
    <2>2. /\ Of(s, "cpu") \o Of(s, "gpu") \in Seq(Definition)
          /\ Range(Of(s, "cpu") \o Of(s, "gpu")) = Range(Of(s, "cpu")) \cup Range(Of(s, "gpu"))
        BY <2>1, RangeOfConcat
    <2>3. /\ Under(s) \in Seq(Definition)
          /\ Range(Under(s)) = Range(Of(s, "cpu") \o Of(s, "gpu")) \cup Range(Of(s, "anywhere"))
        <3>1. PICK a, b : a = Of(s, "cpu") \o Of(s, "gpu") /\ b = Of(s, "anywhere")
            OBVIOUS
        <3>2. a \in Seq(Definition) /\ b \in Seq(Definition)
            BY <2>1, <2>2, <3>1
        <3>3. a \o b \in Seq(Definition) /\ Range(a \o b) = Range(a) \cup Range(b)
            BY <3>2, RangeOfConcat
        <3>4. Under(s) = a \o b
            BY <3>1
        <3> QED
            BY <3>1, <3>3, <3>4
    <2>4. ASSUME NEW d
          PROVE  d \in Range(Under(s)) <=> d \in InGroup(group) /\ d.sig = s
        <3>1. d \in Range(Under(s)) <=> \E l \in Locations : d \in Range(Of(s, l))
            BY <2>2, <2>3 DEF Locations
        <3>2. d \in Definition => d.location \in Locations
            BY DEF Definition
        <3>3. d \in InGroup(group) <=>
                d \in Definition /\ d.fid \in Range(group[d.sig].allIds[d.location])
            BY DEF InGroup
        <3> HIDE DEF Under
        <3> QED
            BY <1>2, <3>1, <3>2, <3>3
    <2> QED
        BY <2>3, <2>4
<1> HIDE DEF Under
<1>4. Len(Signatures) \in Nat /\ Sigs = {Signatures[k] : k \in 1..Len(Signatures)}
    BY FunctionTableAssumption, LenProperties DEF Sigs, Range
<1>5. all \in [1..Len(Signatures) -> Seq(Definition)]
    BY <1>3, <1>4
<1>6. \A k \in 1..Len(Signatures) : all[k] = Under(Signatures[k])
    OBVIOUS
<1> HIDE DEF all
<1>7. /\ FlattenSeq(all) \in Seq(Definition)
      /\ \A x : x \in Range(FlattenSeq(all)) <=> \E k \in 1..Len(Signatures) : x \in Range(all[k])
    BY <1>4, <1>5, FlattenRange
<1>8. ASSUME NEW d PROVE d \in Range(FlattenSeq(all)) <=> d \in InGroup(group)
    <2>1. d \in Range(FlattenSeq(all)) <=> \E s \in Sigs : d \in Range(Under(s))
        BY <1>4, <1>6, <1>7
    <2>2. d \in InGroup(group) => d.sig \in Sigs
        BY DEF InGroup, Definition
    <2> QED
        BY <1>3, <2>1, <2>2
<1> QED
    BY <1>1, <1>7, <1>8

-----------------------------------------------------------------------------
(* The tables and the closures.  The program does not change once a table   *)
(* of it is written, nor the tables once there is a closure.               *)

TablesWritten ==
    /\ code = [t \in Targets |-> code[t]]
    /\ \A t \in Targets : code[t] # None => module > Len(Modules) /\ code[t] = Cases(t)

PartialsDefined ==
    \A p \in partials : /\ \E d \in defined : d.fid = p.fid /\ d.sig = p.sig
                        /\ p.supplied \subseteq 1..Len(ArgTypes[p.sig])

SizesCover ==
    /\ closureSize \in Nat /\ ctxClosureSize \in Nat
    /\ \A p \in partials : EstimatedSize(p.sig) <= ProgramClosureSize
    /\ module > Len(Modules) => ctxClosureSize = 0

ClosureMade ==
    closure # None =>
      /\ Compiles /\ closure.partial \in partials
      /\ \E c \in code["cpu"] : c.fid = closure.partial.fid
                                /\ closure = ClosureOf(closure.partial, c)

ResultMade ==
    result # None =>
      closure # None /\ \E t \in Targets : result = [target |-> t, did |-> Called(t)]

CInv == IInv /\ TablesWritten /\ PartialsDefined /\ SizesCover /\ ClosureMade /\ ResultMade

\* Sums of natural numbers.
LEMMA SumIsNat ==
    ASSUME NEW f, Len(f) \in Nat, \A k \in 1..Len(f) : f[k] \in Nat
    PROVE  SumOver(f) \in Nat
<1>1. PICK g : Summed(g, f, Len(f)) /\ SumOver(f) = g[Len(f)]
    BY SumIsLast
<1>2. PICK n : n = Len(f)
    OBVIOUS
<1>3. n \in Nat /\ n \in 0..n /\ \A k \in 1..n : f[k] \in Nat
    BY <1>2
<1>4. \A k \in 0..n : g[k] \in Nat
    BY <1>1, <1>2, <1>3, SumsGrow
<1> QED
    BY <1>1, <1>2, <1>3, <1>4

LEMMA EstimateIsNat ==
    ASSUME NEW sig \in Sigs
    PROVE  EstimatedSize(sig) \in Nat
<1> DEFINE n == Len(ArgTypes[sig])
           f == [i \in 1..n |-> Estimate[ArgTypes[sig][i]] + 8]
<1>1. ArgTypes[sig] \in Seq(Types) /\ n \in Nat
    BY FunctionTableAssumption, LenProperties
<1>2. \A i \in 1..n : Estimate[ArgTypes[sig][i]] \in Nat
    BY <1>1, FunctionTableAssumption, ElementOfSeq
<1>3. EstimatedSize(sig) = 8 + SumOver(f)
    BY DEF EstimatedSize
<1>4. Len(f) = n /\ \A k \in 1..n : f[k] \in Nat
    BY <1>1, <1>2
<1> HIDE DEF n, f
<1>5. SumOver(f) \in Nat
    BY <1>1, <1>4, SumIsNat
<1> QED
    BY <1>3, <1>5

\* A partial application names a signature.
LEMMA PartialSig ==
    ASSUME IInv, PartialsDefined, NEW p \in partials
    PROVE  p.sig \in Sigs
BY DEF PartialsDefined, IInv, GroupsHoldDefinitions, TypeOK, Definition

LEMMA NothingWritten ==
    ASSUME CInv, Checking
    PROVE  (\A t \in Targets : code[t] = None) /\ closure = None /\ result = None
<1>1. module \in Nat /\ Len(Modules) \in Nat /\ ~ (module > Len(Modules))
    BY FunctionTableAssumption, LenProperties
       DEF CInv, IInv, GroupsHoldDefinitions, TypeOK, Checking
<1>2. \A t \in Targets : code[t] = None
    BY <1>1 DEF CInv, TablesWritten
<1>3. ~ Compiles
    BY <1>2 DEF Compiles, Targets
<1> QED
    BY <1>2, <1>3 DEF CInv, ClosureMade, ResultMade

\* What a call does is worked out from the tables and the closure.
CalledWith(tables, cl, t) ==
    IF \A c \in tables[t] : c.number # cl.number THEN None
    ELSE LET c    == CHOOSE c \in tables[t] : c.number = cl.number
             data == IF t = "gpu" THEN Copied(c, cl.data) ELSE cl.data
             Argument(i) ==
               IF i \notin cl.exists \/ Size[ArgTypes[c.sig][i]] = 0 THEN i
               ELSE IF Offset(c, i) \in DOMAIN data THEN data[Offset(c, i)]
               ELSE None
         IN  [fid  |-> IF c.dispatched THEN c.fid ELSE None,
              args |-> [i \in 1..Len(ArgTypes[c.sig]) |-> Argument(i)]]

LEMMA CInitEstablishes == Init => CInv
<1> SUFFICES ASSUME Init PROVE CInv
    OBVIOUS
<1>1. IInv
    BY InitEstablishes
<1>2. code = [t \in Targets |-> None] /\ closure = None /\ result = None
    BY DEF Init
<1>3. TablesWritten
    BY <1>2 DEF TablesWritten
<1>4. partials = {} /\ closureSize = 0 /\ ctxClosureSize = 0
    BY DEF Init
<1>5. PartialsDefined /\ SizesCover
    BY <1>4 DEF PartialsDefined, SizesCover
<1> QED
    BY <1>1, <1>2, <1>3, <1>5 DEF CInv, ClosureMade, ResultMade

\* While modules are checked nothing is written, made or called.
LEMMA CheckingKeeps ==
    ASSUME CInv, Checking, UNCHANGED <<code, running>>
    PROVE  TablesWritten' /\ ClosureMade' /\ ResultMade'
<1>1. code' = code /\ closure' = None /\ result' = None /\ \A t \in Targets : code[t] = None
    BY NothingWritten DEF running
<1>2. TablesWritten'
    BY <1>1 DEF CInv, TablesWritten
<1> QED
    BY <1>1, <1>2 DEF ClosureMade, ResultMade

LEMMA CStepKeeps == CInv /\ [Next]_vars => CInv'
<1> SUFFICES ASSUME CInv, [Next]_vars PROVE CInv'
    OBVIOUS
<1>1. IInv /\ IInv'
    BY StepKeeps DEF CInv
<1>2. closureSize \in Nat /\ ctxClosureSize \in Nat
    BY DEF CInv, SizesCover
<1>3. ASSUME NEW d \in Definition, Define(d) PROVE CInv'
    <2>1. TablesWritten' /\ ClosureMade' /\ ResultMade'
        BY <1>3, CheckingKeeps DEF Define
    <2>2. /\ partials' = partials /\ defined \subseteq defined' /\ module' = module
          /\ closureSize' = closureSize /\ ctxClosureSize' = ctxClosureSize
        BY <1>3 DEF Define
    <2>3. PartialsDefined'
        BY <2>2 DEF CInv, PartialsDefined
    <2>4. SizesCover'
        BY <2>2 DEF CInv, SizesCover, ProgramClosureSize
    <2> QED
        BY <1>1, <2>1, <2>3, <2>4 DEF CInv
<1>4. ASSUME NEW d \in defined, NEW supplied, CheckPartial(d, supplied) PROVE CInv'
    <2>1. TablesWritten' /\ ClosureMade' /\ ResultMade'
        BY <1>4, CheckingKeeps DEF CheckPartial
    <2> DEFINE new == [fid |-> d.fid, sig |-> d.sig, supplied |-> supplied]
               e == EstimatedSize(d.sig)
    <2>2. /\ partials' = partials \cup {new} /\ defined' = defined /\ module' = module
          /\ closureSize' = closureSize /\ ctxClosureSize' = Larger(ctxClosureSize, e)
          /\ supplied \subseteq 1..Len(ArgTypes[d.sig]) /\ Checking
        BY <1>4 DEF CheckPartial
    <2>3. PartialsDefined'
        <3>1. /\ \E x \in defined : x.fid = new.fid /\ x.sig = new.sig
              /\ new.supplied \subseteq 1..Len(ArgTypes[new.sig])
            BY <2>2
        <3> HIDE DEF new
        <3>2. ASSUME NEW p \in partials'
              PROVE  /\ \E x \in defined : x.fid = p.fid /\ x.sig = p.sig
                     /\ p.supplied \subseteq 1..Len(ArgTypes[p.sig])
            BY <2>2, <3>1, <3>2 DEF CInv, PartialsDefined
        <3> QED
            BY <2>2, <3>2 DEF PartialsDefined
    <2>4. e \in Nat
        BY EstimateIsNat DEF CInv, IInv, GroupsHoldDefinitions, TypeOK, Definition
    <2>5. ~ (module' > Len(Modules))
        BY <2>2, FunctionTableAssumption, LenProperties
           DEF Checking, CInv, IInv, GroupsHoldDefinitions, TypeOK
    <2> HIDE DEF e
    <2>6. ctxClosureSize' \in Nat /\ e <= ProgramClosureSize'
        BY <1>2, <2>2, <2>4 DEF Larger, ProgramClosureSize
    <2>7. ASSUME NEW p \in partials PROVE EstimatedSize(p.sig) <= ProgramClosureSize'
        <3>1. PICK x : x = EstimatedSize(p.sig)
            OBVIOUS
        <3>2. x \in Nat /\ x <= ProgramClosureSize
            BY <3>1, PartialSig, EstimateIsNat DEF CInv, SizesCover
        <3>3. x <= ProgramClosureSize'
            BY <1>2, <2>2, <2>4, <3>2 DEF Larger, ProgramClosureSize
        <3> QED
            BY <3>1, <3>3
    <2>8. EstimatedSize(new.sig) <= ProgramClosureSize'
        BY <2>6 DEF e
    <2>9. SizesCover'
        BY <1>2, <2>2, <2>5, <2>6, <2>7, <2>8 DEF SizesCover
    <2> QED
        BY <1>1, <2>1, <2>3, <2>9 DEF CInv
<1>5. CASE EndModule
    <2>1. TablesWritten' /\ ClosureMade' /\ ResultMade'
        BY <1>5, CheckingKeeps DEF EndModule
    <2>2. /\ partials' = partials /\ defined' = defined
          /\ closureSize' = ProgramClosureSize /\ ctxClosureSize' = 0
        BY <1>5 DEF EndModule
    <2>3. PartialsDefined'
        BY <2>2 DEF CInv, PartialsDefined
    <2>4. closureSize' \in Nat /\ ProgramClosureSize' = ProgramClosureSize
        BY <1>2, <2>2 DEF Larger, ProgramClosureSize
    <2>5. SizesCover'
        BY <2>2, <2>4 DEF CInv, SizesCover
    <2> QED
        BY <1>1, <2>1, <2>3, <2>5 DEF CInv
<1>6. ASSUME NEW t \in Targets, WriteTarget(t) PROVE CInv'
    <2>1. /\ UNCHANGED <<module, functions, closureSize, ctxClosureSize, defined, partials>>
          /\ UNCHANGED <<closure, result>>
          /\ code' = [code EXCEPT ![t] = Cases(t)] /\ code[t] = None
          /\ module > Len(Modules)
        BY <1>6 DEF WriteTarget, checking, running
    <2>2. closure = None /\ result = None
        <3>1. ~ Compiles
            BY <2>1 DEF Compiles
        <3> QED
            BY <3>1 DEF CInv, ClosureMade, ResultMade
    <2>3. \A u \in Targets : Cases(u)' = Cases(u)
        BY <2>1 DEF Cases
    <2>4. TablesWritten'
        BY <2>1, <2>3 DEF CInv, TablesWritten
    <2>5. PartialsDefined' /\ SizesCover'
        BY <2>1 DEF CInv, PartialsDefined, SizesCover, ProgramClosureSize
    <2> QED
        BY <1>1, <2>1, <2>2, <2>4, <2>5 DEF CInv, ClosureMade, ResultMade
<1>7. ASSUME UNCHANGED <<checking, code>>
      PROVE  TablesWritten' /\ PartialsDefined' /\ SizesCover' /\ (Compiles' <=> Compiles)
    <2>1. /\ UNCHANGED <<module, functions, closureSize, ctxClosureSize, defined, partials>>
          /\ code' = code
        BY <1>7 DEF checking
    <2>2. \A u \in Targets : Cases(u)' = Cases(u)
        BY <2>1 DEF Cases
    <2>3. TablesWritten'
        BY <2>1, <2>2 DEF CInv, TablesWritten
    <2>4. PartialsDefined' /\ SizesCover'
        BY <2>1 DEF CInv, PartialsDefined, SizesCover, ProgramClosureSize
    <2>5. Compiles' <=> Compiles
        BY <2>1 DEF Compiles
    <2> QED
        BY <2>3, <2>4, <2>5
<1>8. ASSUME NEW p \in partials, CreateClosure(p) PROVE CInv'
    <2>1. PICK c \in code["cpu"] : c.fid = p.fid /\ closure' = ClosureOf(p, c)
        BY <1>8 DEF CreateClosure
    <2>2. /\ Compiles /\ result' = None /\ UNCHANGED <<checking, code>>
          /\ code' = code /\ partials' = partials
        BY <1>8 DEF CreateClosure, checking
    <2>3. closure'.partial = p
        BY <2>1 DEF ClosureOf
    <2>4. ClosureMade'
        BY <1>7, <2>1, <2>2, <2>3 DEF ClosureMade
    <2> QED
        BY <1>1, <1>7, <2>2, <2>4 DEF CInv, ResultMade
<1>9. ASSUME UNCHANGED <<checking, code, closure>>
      PROVE  ClosureMade' /\ \A t \in Targets : Called(t)' = Called(t)
    <2>1. code' = code /\ closure' = closure /\ partials' = partials /\ UNCHANGED <<checking, code>>
        BY <1>9 DEF checking
    <2>2. ClosureMade'
        BY <1>7, <2>1 DEF CInv, ClosureMade
    <2>3. ASSUME NEW t \in Targets PROVE Called(t)' = Called(t)
        <3>1. Called(t) = CalledWith(code, closure, t)
            BY Zenon DEF Called, CalledWith
        <3>2. Called(t)' = CalledWith(code', closure', t)
            BY Zenon DEF Called, CalledWith
        <3> QED
            BY <2>1, <3>1, <3>2
    <2> QED
        BY <2>2, <2>3
<1>10. ASSUME NEW t \in Targets, CallClosure(t) PROVE CInv'
    <2>1. /\ UNCHANGED <<checking, code, closure>> /\ UNCHANGED <<checking, code>>
          /\ closure' = closure /\ closure # None
          /\ result' = [target |-> t, did |-> Called(t)]
        BY <1>10 DEF CallClosure
    <2>2. ResultMade'
        BY <1>9, <2>1 DEF ResultMade
    <2> QED
        BY <1>1, <1>7, <1>9, <2>1, <2>2 DEF CInv
<1>11. CASE UNCHANGED vars
    <2>1. /\ UNCHANGED <<checking, code, closure>> /\ UNCHANGED <<checking, code>>
          /\ closure' = closure /\ result' = result
        BY <1>11 DEF vars, running
    <2>2. ResultMade'
        BY <1>9, <2>1 DEF CInv, ResultMade
    <2> QED
        BY <1>1, <1>7, <1>9, <2>1, <2>2 DEF CInv
<1> QED
    BY <1>3, <1>4, <1>5, <1>6, <1>8, <1>10, <1>11 DEF Next

\* The tables and closures are made from the program and stay so.
THEOREM ClosureInvariance == Spec => []CInv
<1> QED
    BY CInitEstablishes, CStepKeeps, PTL DEF Spec

-----------------------------------------------------------------------------
(* The layout of a closure                                                 *)

LEMMA StepCovers ==
    ASSUME NEW n \in Nat
    PROVE  Step(n) \in Nat /\ n <= Step(n)
BY DEF Step

LEMMA ArgSizeIsNat ==
    ASSUME NEW c, c.sig \in Sigs, NEW i \in 1..Len(ArgTypes[c.sig])
    PROVE  /\ ArgSize(c, i) \in Nat /\ Step(ArgSize(c, i)) \in Nat
           /\ ArgSize(c, i) <= Step(ArgSize(c, i))
<1>1. ArgTypes[c.sig] \in Seq(Types)
    BY FunctionTableAssumption
<1>2. Size[ArgTypes[c.sig][i]] \in Nat
    BY <1>1, FunctionTableAssumption, ElementOfSeq
<1>3. ArgSize(c, i) \in Nat
    BY <1>2 DEF ArgSize
<1> QED
    BY <1>3, StepCovers

\* g holds the room for the first arguments.
Rooms(g, c, n) ==
    /\ \A k \in 0..n : g[k] \in Nat
    /\ \A k \in 1..n : g[k] = g[k - 1] + Step(ArgSize(c, k))
    /\ \A j, k \in 0..n : j <= k => g[j] <= g[k]
    /\ \A i \in 1..n : Offset(c, i) = (8 + 8 * n) + g[i - 1]
    /\ ByteSize(c) = (8 + 8 * n) + g[n]

\* Arguments follow one another behind a word for each, and the closure ends
\* behind the last.
LEMMA Layout ==
    ASSUME NEW c, c.sig \in Sigs
    PROVE  \E g : Rooms(g, c, Len(ArgTypes[c.sig]))
<1> DEFINE n == Len(ArgTypes[c.sig])
           a == [k \in 1..n |-> Step(ArgSize(c, k))]
           b == [k \in 1..n |-> Step(ArgSize(c, k)) + 8]
<1>1. ArgTypes[c.sig] \in Seq(Types) /\ n \in Nat
    BY FunctionTableAssumption, LenProperties
<1>2. \A k \in 1..n : a[k] = Step(ArgSize(c, k)) /\ a[k] \in Nat
    BY ArgSizeIsNat
<1>3. \A k \in 1..n : b[k] = a[k] + 8
    OBVIOUS
<1>4. ByteSize(c) = 8 + SumOver(b) /\ Len(b) = n
    BY <1>1 DEF ByteSize
<1>5. ASSUME NEW i \in 1..n
      PROVE  \E f : /\ Offset(c, i) = (8 + 8 * n) + SumOver(f)
                    /\ Len(f) = i - 1 /\ \A k \in 1..(i - 1) : f[k] = a[k]
    <2> DEFINE f == [j \in 1..(i - 1) |-> Step(ArgSize(c, j))]
    <2>1. Offset(c, i) = (8 + 8 * n) + SumOver(f)
        BY DEF Offset
    <2>2. i - 1 \in Nat /\ i \in Nat /\ i <= n
        BY <1>1
    <2>3. Len(f) = i - 1
        BY <2>2
    <2>4. \A k \in 1..(i - 1) : k \in 1..n /\ f[k] = a[k]
        BY <1>1, <2>2
    <2> HIDE DEF f, a
    <2> QED
        BY <2>1, <2>3, <2>4
<1> HIDE DEF n, a, b
<1>6. PICK g : Summed(g, a, n)
    BY <1>1, SumsExist
<1>7. /\ \A k \in 0..n : g[k] \in Nat
      /\ \A k \in 1..n : g[k] = g[k - 1] + a[k]
      /\ \A j, k \in 0..n : j <= k => g[j] <= g[k]
    BY <1>1, <1>2, <1>6, SumsGrow
<1>8. \A i \in 1..n : Offset(c, i) = (8 + 8 * n) + g[i - 1]
    <2> TAKE i \in 1..n
    <2>1. PICK f : /\ Offset(c, i) = (8 + 8 * n) + SumOver(f)
                   /\ Len(f) = i - 1 /\ \A k \in 1..(i - 1) : f[k] = a[k]
        BY <1>5
    <2>2. PICK m \in 0..n : m = i - 1
        BY <1>1
    <2>3. SumOver(f) = g[m]
        BY <1>1, <1>2, <1>6, <2>1, <2>2, SumOfFirst
    <2> QED
        BY <2>1, <2>2, <2>3
<1>9. ByteSize(c) = (8 + 8 * n) + g[n]
    <2>1. PICK h : Summed(h, b, n) /\ SumOver(b) = h[n]
        BY <1>1, <1>4, SumIsLast
    <2>2. \A k \in 1..n : b[k] \in Nat /\ a[k] \in Nat
        BY <1>2, <1>3
    <2>3. WordsApart(h, g, n)
        BY <1>1, <1>3, <1>6, <2>1, <2>2, SumsApart
    <2>4. g[n] \in Nat
        BY <1>1, <1>7
    <2>5. ByteSize(c) = 8 + (g[n] + 8 * n)
        BY <1>4, <2>1, <2>3 DEF WordsApart
    <2> QED
        BY <1>1, <2>4, <2>5
<1>10. Rooms(g, c, n)
    BY <1>2, <1>7, <1>8, <1>9 DEF Rooms
<1> QED
    BY <1>10 DEF n

\* Each argument with a size has a place of its own inside the closure.
LEMMA PlacesDiffer ==
    ASSUME NEW c, c.sig \in Sigs, NEW i \in 1..Len(ArgTypes[c.sig]), ArgSize(c, i) > 0
    PROVE  /\ Offset(c, i) < ByteSize(c)
           /\ \A j \in 1..Len(ArgTypes[c.sig]) :
                ArgSize(c, j) > 0 /\ Offset(c, i) = Offset(c, j) => i = j
<1> DEFINE n == Len(ArgTypes[c.sig])
<1>1. PICK g : Rooms(g, c, n)
    BY Layout
<1>2. n \in Nat
    BY FunctionTableAssumption, LenProperties
<1>3. i \in 1..n
    OBVIOUS
<1>4. ASSUME NEW j \in 1..n, ArgSize(c, j) > 0, NEW k \in 0..n, j <= k
      PROVE  Offset(c, j) < (8 + 8 * n) + g[k]
    <2> DEFINE x == g[j - 1]
               y == g[j]
               z == g[k]
               r == Step(ArgSize(c, j))
    <2>1. r \in Nat /\ r > 0
        BY <1>4, ArgSizeIsNat
    <2>2. /\ j \in 0..n /\ j - 1 \in 0..n
          /\ Offset(c, j) = (8 + 8 * n) + x /\ y = x + r
        BY <1>1, <1>2 DEF Rooms
    <2>3. x \in Nat /\ y \in Nat /\ z \in Nat /\ y <= z
        BY <1>1, <1>4, <2>2 DEF Rooms
    <2> HIDE DEF x, y, z, r, n
    <2> QED
        BY <1>2, <2>1, <2>2, <2>3 DEF z
<1>5. Offset(c, i) < ByteSize(c)
    <2>1. n \in 0..n /\ i <= n
        BY <1>2
    <2>2. ByteSize(c) = (8 + 8 * n) + g[n]
        BY <1>1 DEF Rooms
    <2> QED
        BY <1>4, <2>1, <2>2
<1>6. ASSUME NEW j \in 1..n, NEW k \in 1..n, ArgSize(c, j) > 0, j < k
      PROVE  Offset(c, j) < Offset(c, k)
    <2>1. k - 1 \in 0..n /\ j <= k - 1
        BY <1>2, <1>6
    <2>2. Offset(c, k) = (8 + 8 * n) + g[k - 1]
        BY <1>1 DEF Rooms
    <2> QED
        BY <1>4, <1>6, <2>1, <2>2
<1>7. \A j \in 1..n : Offset(c, j) \in Nat
    <2> TAKE j \in 1..n
    <2>1. j - 1 \in 0..n /\ Offset(c, j) = (8 + 8 * n) + g[j - 1]
        BY <1>1, <1>2 DEF Rooms
    <2>2. g[j - 1] \in Nat
        BY <1>1, <2>1 DEF Rooms
    <2> QED
        BY <1>2, <2>1, <2>2
<1>8. ASSUME NEW j \in 1..n, ArgSize(c, j) > 0, Offset(c, i) = Offset(c, j) PROVE i = j
    <2>1. ~ (Offset(c, i) < Offset(c, j)) /\ ~ (Offset(c, j) < Offset(c, i))
        BY <1>7, <1>8
    <2>2. ~ (i < j) /\ ~ (j < i)
        BY <1>6, <1>8, <2>1
    <2> QED
        BY <1>2, <2>2
<1> QED
    BY <1>5, <1>8

\* The estimate of a signature covers the bytes of its closures.
LEMMA EstimateCovers ==
    ASSUME NEW c, c.sig \in Sigs,
           \A i \in 1..Len(ArgTypes[c.sig]) :
              Estimate[ArgTypes[c.sig][i]] >= Step(Size[ArgTypes[c.sig][i]])
    PROVE  ByteSize(c) <= EstimatedSize(c.sig)
<1> DEFINE n == Len(ArgTypes[c.sig])
           a == [k \in 1..n |-> Step(ArgSize(c, k)) + 8]
           b == [k \in 1..n |-> Estimate[ArgTypes[c.sig][k]] + 8]
<1>1. ArgTypes[c.sig] \in Seq(Types) /\ n \in Nat
    BY FunctionTableAssumption, LenProperties
<1>2. ByteSize(c) = 8 + SumOver(a) /\ EstimatedSize(c.sig) = 8 + SumOver(b)
    BY DEF ByteSize, EstimatedSize
<1>3. Len(a) = n /\ Len(b) = n
    BY <1>1
<1>4. ASSUME NEW k \in 1..n
      PROVE  a[k] \in Nat /\ b[k] \in Nat /\ a[k] <= b[k]
    <2> DEFINE e == Estimate[ArgTypes[c.sig][k]]
               z == Size[ArgTypes[c.sig][k]]
               r == Step(ArgSize(c, k))
    <2>1. e \in Nat /\ z \in Nat /\ e >= Step(z)
        BY <1>1, FunctionTableAssumption, ElementOfSeq
    <2>2. r \in Nat /\ (r = Step(z) \/ r = Step(0))
        BY ArgSizeIsNat DEF ArgSize
    <2>3. Step(0) = 0 /\ Step(z) \in Nat
        BY <2>1 DEF Step
    <2>4. a[k] = r + 8 /\ b[k] = e + 8
        OBVIOUS
    <2> HIDE DEF e, z, r, a, b, n
    <2> QED
        BY <2>1, <2>2, <2>3, <2>4
<1> HIDE DEF n, a, b
<1>5. PICK g, h : /\ Summed(g, a, n) /\ SumOver(a) = g[n]
                  /\ Summed(h, b, n) /\ SumOver(b) = h[n]
    BY <1>1, <1>3, SumIsLast
<1>6. g[n] <= h[n]
    BY <1>1, <1>4, <1>5, SumsCompare
<1>7. SumOver(a) \in Nat /\ SumOver(b) \in Nat
    BY <1>1, <1>3, <1>4, SumIsNat
<1> QED
    BY <1>2, <1>5, <1>6, <1>7

-----------------------------------------------------------------------------
(* The calls                                                               *)

\* Once a closure exists the program is complete, and all of it is numbered.
LEMMA ProgramNumbered ==
    ASSUME CInv, Compiles
    PROVE  /\ Range(Entries(functions)) = defined
           /\ Entries(functions) \in Seq(Definition)
           /\ \A t \in Targets : code[t] = Cases(t)
           /\ module > Len(Modules)
<1>1. \A t \in Targets : code[t] # None /\ code[t] = Cases(t) /\ module > Len(Modules)
    BY DEF Compiles, CInv, TablesWritten
<1>2. module > Len(Modules)
    BY <1>1 DEF Targets
<1>3. module \in Nat /\ Len(Modules) \in Nat
    BY FunctionTableAssumption, LenProperties DEF CInv, IInv, GroupsHoldDefinitions, TypeOK
<1>4. \A s \in Sigs, l \in Locations : Ids(ctxFunctions, s, l) = {}
    BY <1>2, <1>3 DEF CInv, IInv, CtxOfModule
<1>5. InGroup(ctxFunctions) = {}
    BY <1>4 DEF InGroup, Ids, Definition
<1>6. functions \in Group /\ InGroup(functions) = defined
    BY <1>5 DEF CInv, IInv, GroupsHoldDefinitions, TypeOK
<1> QED
    BY <1>1, <1>2, <1>6, EntriesSpec

\* A case of a target is that of an entry, whose index less one is its number.
LEMMA CaseSpec ==
    ASSUME NEW t, NEW c
    PROVE  c \in Cases(t) <=>
             \E i \in 1..Len(Entries(functions)) :
                /\ CanWrite(t, Entries(functions)[i].location)
                /\ c = [number |-> i - 1, fid |-> Entries(functions)[i].fid,
                        sig |-> Entries(functions)[i].sig,
                        dispatched |-> CanWrite(t, functions[Entries(functions)[i].sig].location)]
<1> DEFINE es == Entries(functions)
           n == Len(es)
           r(i) == [number |-> i - 1, fid |-> es[i].fid, sig |-> es[i].sig,
                    dispatched |-> CanWrite(t, functions[es[i].sig].location)]
<1>1. Cases(t) = {r(i) : i \in {j \in 1..n : CanWrite(t, es[j].location)}}
    BY DEF Cases
<1> QED
    BY <1>1

\* The number of a closure is that of its function on the target it is called
\* on, with the same arguments.
LEMMA SameCase ==
    ASSUME CInv, Compiles, NEW t \in Targets,
           NEW c \in code["cpu"], NEW p \in partials, c.fid = p.fid,
           \A u \in {"cpu", t} : CanWrite(u, functions[p.sig].location),
           t = "gpu" => [fid |-> p.fid, sig |-> p.sig, location |-> "anywhere"] \in defined
    PROVE  /\ c.sig = p.sig /\ c.dispatched = TRUE
           /\ c \in code[t] /\ \A e \in code[t] : e.number = c.number => e = c
<1> DEFINE es == Entries(functions)
           n == Len(es)
           r(u, i) == [number |-> i - 1, fid |-> es[i].fid, sig |-> es[i].sig,
                       dispatched |-> CanWrite(u, functions[es[i].sig].location)]
<1>1. /\ Range(es) = defined /\ es \in Seq(Definition)
      /\ \A u \in Targets : code[u] = Cases(u)
    BY ProgramNumbered
<1>2. /\ n \in Nat /\ \A i \in 1..n : es[i] \in defined
      /\ \A d \in defined : \E i \in 1..n : es[i] = d
    BY <1>1, LenProperties DEF Range
<1>3. "cpu" \in Targets
    BY DEF Targets
<1>4. \A u \in Targets : \A e : e \in code[u] <=>
        \E i \in 1..n : CanWrite(u, es[i].location) /\ e = r(u, i)
    BY <1>1, CaseSpec
<1>5. PICK i \in 1..n : c = r("cpu", i)
    BY <1>3, <1>4
<1>6. c.number = i - 1 /\ c.fid = es[i].fid /\ c.sig = es[i].sig
    BY <1>5
<1>7. PICK d \in defined : d.fid = p.fid /\ d.sig = p.sig
    BY DEF CInv, PartialsDefined
<1>8. c.sig = p.sig
    BY <1>2, <1>6, <1>7 DEF CInv, IInv, GroupsHoldDefinitions
<1>9. CanWrite("cpu", functions[es[i].sig].location) = TRUE
  <2>1. CanWrite("cpu", functions[es[i].sig].location)
      BY <1>6, <1>8
  <2>2. CanWrite("cpu", functions[es[i].sig].location) \in BOOLEAN
      BY DEF CanWrite
  <2> QED
      BY <2>1, <2>2, Zenon
<1>10. c.dispatched = TRUE
    BY <1>5, <1>9
<1>11. \A u \in Targets : \A e \in code[u] : e.number = i - 1 => e = r(u, i)
  <2> SUFFICES ASSUME NEW u \in Targets, NEW e \in code[u], e.number = i - 1
               PROVE  e = r(u, i)
      OBVIOUS
  <2>1. PICK j \in 1..n : e = r(u, j)
      BY <1>4
  <2>2. e.number = j - 1
      BY <2>1
  <2>3. i = j
      BY <1>2, <2>2
  <2> QED
      BY <2>1, <2>3
<1>12. CASE t = "cpu"
    BY <1>3, <1>5, <1>6, <1>8, <1>10, <1>11, <1>12
<1>13. CASE t = "gpu"
  <2> DEFINE a == [fid |-> p.fid, sig |-> p.sig, location |-> "anywhere"]
  <2>1. PICK j \in 1..n : es[j] = a
      BY <1>2, <1>13
  <2>2. CanWrite("cpu", es[j].location) /\ CanWrite("gpu", es[j].location)
      BY <2>1 DEF CanWrite
  <2>3. r("cpu", j) \in code["cpu"] /\ r("gpu", j) \in code["gpu"]
      BY <1>3, <1>4, <1>13, <2>2
  <2>4. r("cpu", j).fid = c.fid
      BY <2>1
  <2>5. r("cpu", j) = c
      BY <1>3, <2>3, <2>4 DEF Compiles
  <2>6. j = i
    <3>1. j - 1 = i - 1
        BY <1>6, <2>5
    <3> QED
        BY <1>2, <3>1
  <2>7. r("gpu", i) = c
    <3>1. CanWrite("gpu", functions[es[i].sig].location) = TRUE
      <4>1. CanWrite("gpu", functions[es[i].sig].location)
          BY <1>6, <1>8, <1>13
      <4>2. CanWrite("gpu", functions[es[i].sig].location) \in BOOLEAN
          BY DEF CanWrite
      <4> QED
          BY <4>1, <4>2, Zenon
    <3> QED
        BY <1>5, <1>9, <3>1
  <2> QED
      BY <1>6, <1>8, <1>10, <1>11, <1>13, <2>3, <2>6, <2>7
<1> QED
    BY <1>12, <1>13 DEF Targets

\* What a call reads is what was written.
LEMMA ArgumentRead ==
    ASSUME NEW p, NEW c, c.sig \in Sigs, c.dispatched = TRUE,
           p.supplied \subseteq 1..Len(ArgTypes[c.sig]),
           NEW i \in 1..Len(ArgTypes[c.sig]), i \in p.supplied, Size[ArgTypes[c.sig][i]] # 0
    PROVE  /\ Offset(c, i) \in DOMAIN ClosureOf(p, c).data
           /\ ClosureOf(p, c).data[Offset(c, i)] = i
           /\ Offset(c, i) < ByteSize(c)
<1> DEFINE W == {j \in p.supplied : ArgSize(c, j) > 0}
           data == [o \in {Offset(c, j) : j \in W} |-> CHOOSE j \in W : Offset(c, j) = o]
<1>1. ClosureOf(p, c).data = data
    BY DEF ClosureOf
<1>2. ArgSize(c, i) > 0
  <2>1. ArgSize(c, i) = Size[ArgTypes[c.sig][i]]
      BY DEF ArgSize
  <2> QED
      BY <2>1, ArgSizeIsNat
<1>3. i \in W /\ \A j \in W : j \in 1..Len(ArgTypes[c.sig]) /\ ArgSize(c, j) > 0
    BY <1>2
<1>4. \A j \in W : Offset(c, j) = Offset(c, i) => j = i
    BY <1>2, <1>3, PlacesDiffer
<1> HIDE DEF W
<1>5. Offset(c, i) \in DOMAIN data /\ data[Offset(c, i)] = CHOOSE j \in W : Offset(c, j) = Offset(c, i)
    BY <1>3
<1>6. (CHOOSE j \in W : Offset(c, j) = Offset(c, i)) = i
    BY <1>3, <1>4
<1> HIDE DEF data
<1> QED
    BY <1>1, <1>2, <1>5, <1>6, PlacesDiffer

LEMMA CallsItsFunction == CInv => ClosureCallsItsFunction
<1> SUFFICES ASSUME CInv, result # None,
                    \A u \in {"cpu", result.target} :
                       CanWrite(u, functions[closure.partial.sig].location),
                    result.target = "gpu" =>
                       [fid |-> closure.partial.fid, sig |-> closure.partial.sig,
                        location |-> "anywhere"] \in defined
             PROVE  result.did = [fid |-> closure.partial.fid,
                                  args |-> [i \in 1..Len(ArgTypes[closure.partial.sig]) |-> i]]
    BY DEF ClosureCallsItsFunction
<1>1. PICK t \in Targets : result = [target |-> t, did |-> Called(t)]
    BY DEF CInv, ResultMade
<1>2. result.target = t /\ result.did = Called(t)
    BY <1>1
<1>3. closure # None /\ Compiles /\ closure.partial \in partials
    BY DEF CInv, ResultMade, ClosureMade
<1>4. PICK p \in partials : p = closure.partial
    BY <1>3
<1>5. PICK c \in code["cpu"] : c.fid = p.fid /\ closure = ClosureOf(p, c)
    BY <1>3, <1>4 DEF CInv, ClosureMade
<1>6. /\ c.sig = p.sig /\ c.dispatched = TRUE
      /\ c \in code[t] /\ \A e \in code[t] : e.number = c.number => e = c
  <2>1. /\ \A u \in {"cpu", t} : CanWrite(u, functions[p.sig].location)
        /\ t = "gpu" => [fid |-> p.fid, sig |-> p.sig, location |-> "anywhere"] \in defined
      BY <1>2, <1>4
  <2> QED
      BY ONLY CInv, <1>3, <1>5, <2>1, t \in Targets, p \in partials, c \in code["cpu"], SameCase, ZenonT(30)
<1>7. p.sig \in Sigs /\ p.supplied \subseteq 1..Len(ArgTypes[p.sig])
    BY PartialSig DEF CInv, PartialsDefined
<1>8. closure.number = c.number /\ closure.exists = p.supplied
    BY <1>5 DEF ClosureOf
<1>9. (CHOOSE e \in code[t] : e.number = closure.number) = c
    BY <1>6, <1>8
<1> DEFINE data == IF t = "gpu" THEN Copied(c, closure.data) ELSE closure.data
           Argument(i) ==
             IF i \notin closure.exists \/ Size[ArgTypes[c.sig][i]] = 0 THEN i
             ELSE IF Offset(c, i) \in DOMAIN data THEN data[Offset(c, i)]
             ELSE None
<1>10. Called(t) = [fid  |-> IF c.dispatched THEN c.fid ELSE None,
                    args |-> [i \in 1..Len(ArgTypes[c.sig]) |-> Argument(i)]]
    BY <1>6, <1>8, <1>9, Zenon DEF Called
<1>11. ASSUME NEW i \in 1..Len(ArgTypes[c.sig]) PROVE Argument(i) = i
  <2>1. CASE i \notin closure.exists \/ Size[ArgTypes[c.sig][i]] = 0
      BY <2>1
  <2>2. CASE i \in closure.exists /\ Size[ArgTypes[c.sig][i]] # 0
    <3>1. /\ Offset(c, i) \in DOMAIN closure.data /\ closure.data[Offset(c, i)] = i
          /\ Offset(c, i) < ByteSize(c)
      <4>1. /\ c.sig \in Sigs /\ c.dispatched = TRUE
            /\ p.supplied \subseteq 1..Len(ArgTypes[c.sig])
            /\ i \in p.supplied /\ Size[ArgTypes[c.sig][i]] # 0
          BY <1>6, <1>7, <1>8, <2>2
      <4>2. /\ Offset(c, i) \in DOMAIN ClosureOf(p, c).data
            /\ ClosureOf(p, c).data[Offset(c, i)] = i
            /\ Offset(c, i) < ByteSize(c)
          BY ONLY <4>1, i \in 1..Len(ArgTypes[c.sig]), ArgumentRead
      <4> QED
          BY <1>5, <4>2
    <3>2. Offset(c, i) \in DOMAIN data /\ data[Offset(c, i)] = i
        BY <3>1 DEF Copied, Restrict
    <3> HIDE DEF data
    <3> QED
        BY <2>2, <3>2
  <2> QED
      BY <2>1, <2>2
<1> HIDE DEF Argument
<1>12. [i \in 1..Len(ArgTypes[c.sig]) |-> Argument(i)] = [i \in 1..Len(ArgTypes[c.sig]) |-> i]
    BY <1>11
<1> QED
    BY <1>2, <1>4, <1>5, <1>6, <1>10, <1>12

LEMMA Fits == CInv => ClosureFits
<1> SUFFICES ASSUME CInv, closure # None,
                    \A i \in 1..Len(ArgTypes[closure.partial.sig]) :
                       Estimate[ArgTypes[closure.partial.sig][i]]
                          >= Step(Size[ArgTypes[closure.partial.sig][i]]),
                    NEW t \in Targets, NEW c \in code[t], c.fid = closure.partial.fid
             PROVE  ByteSize(c) <= closureSize
    BY DEF ClosureFits
<1>1. Compiles /\ closure.partial \in partials
    BY DEF CInv, ClosureMade
<1>2. PICK p \in partials : p = closure.partial
    BY <1>1
<1>3. p.sig \in Sigs
    BY PartialSig DEF CInv
<1>4. c.sig = p.sig
  <2>1. c \in Cases(t) /\ Range(Entries(functions)) = defined
      BY <1>1, ProgramNumbered
  <2>2. PICK i \in 1..Len(Entries(functions)) :
          c.fid = Entries(functions)[i].fid /\ c.sig = Entries(functions)[i].sig
      BY <2>1, CaseSpec
  <2>3. Entries(functions)[i] \in defined
      BY <1>1, <2>1, ProgramNumbered, LenProperties DEF Range
  <2>4. PICK d \in defined : d.fid = p.fid /\ d.sig = p.sig
      BY DEF CInv, PartialsDefined
  <2> QED
      BY <1>2, <2>2, <2>3, <2>4 DEF CInv, IInv, GroupsHoldDefinitions
<1>5. ByteSize(c) <= EstimatedSize(c.sig)
    BY <1>2, <1>3, <1>4, EstimateCovers
<1>6. ctxClosureSize = 0 /\ closureSize \in Nat /\ EstimatedSize(p.sig) <= ProgramClosureSize
    BY <1>1, ProgramNumbered DEF CInv, SizesCover
<1>7. ProgramClosureSize = closureSize
    BY <1>6 DEF ProgramClosureSize, Larger
<1>8. EstimatedSize(c.sig) \in Nat
    BY <1>3, <1>4, EstimateIsNat
<1>9. ByteSize(c) \in Int
  <2>1. PICK g : Rooms(g, c, Len(ArgTypes[c.sig]))
      BY <1>3, <1>4, Layout
  <2>2. PICK n \in Nat : n = Len(ArgTypes[c.sig])
      BY <1>3, <1>4, FunctionTableAssumption, LenProperties
  <2>3. n \in 0..n /\ g[n] \in Nat /\ ByteSize(c) = (8 + 8 * n) + g[n]
      BY <2>1, <2>2 DEF Rooms
  <2> QED
      BY <2>3
<1> QED
    BY <1>4, <1>5, <1>6, <1>7, <1>8, <1>9

\* A closure that is called, on the CPU or by a kernel, calls the function it
\* was made from, with the arguments it was given each in its place: both
\* targets count the functions in the order of the same groups, and lay the
\* arguments out behind one another (write-c.go:1488-1715,
\* eyot-runtime-common.h:136-253, eyot-runtime-closures.c:9-26).
THEOREM ClosuresCallTheirFunction == Spec => []ClosureCallsItsFunction
<1> QED
    BY ClosureInvariance, CallsItsFunction, PTL

\* No closure is larger than the buffer of a kernel, which is as large as the
\* largest estimate of any module, where the estimates of the argument types
\* are not too small (closure.go:111-116, check.go:105-109, program.go:206).
THEOREM ClosuresFit == Spec => []ClosureFits
<1> QED
    BY ClosureInvariance, Fits, PTL
=============================================================================
