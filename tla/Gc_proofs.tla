------------------------------- MODULE Gc_proofs -------------------------------
(***************************************************************************)
(* Proofs, for any addresses and any pages, that the table of stack        *)
(* pointers holds exactly the registered variables and that forget always  *)
(* releases the entry in use; then that the list of pages stays linked     *)
(* while a sweep rewires it, and that a collection frees exactly what the  *)
(* program cannot reach; and last that the generated code, which calls     *)
(* remember and forget, keeps its pointer variables rooted.                *)
(***************************************************************************)
EXTENDS Gc, RootScopes, SequenceTheorems, FiniteSetTheorems, WellFoundedInduction, TLAPS

-----------------------------------------------------------------------------
(* The table of stack pointers (module GcRoots)                            *)

\* The table agrees with the registrations only because an entry in use is
\* never preceded by a stale one with the same address.
IInv == TypeOK /\ RootsAreLive /\ NoStaleBefore /\ ForgetFinds

\* A table as a function, so that its entries can be compared one by one.
LEMMA TableShape ==
    ASSUME TypeOK
    PROVE  /\ Len(slots) \in Nat
           /\ \A i \in 1..Len(slots) : slots[i] \in Slot
    BY LenProperties, ElementOfSeq DEF TypeOK

\* The entry in use for a registered address is the one forget finds.
LEMMA FoundIsUsed ==
    ASSUME IInv, NEW p \in live
    PROVE  /\ \E i \in 1..Len(slots) : Found(p, i)
           /\ \A i \in 1..Len(slots) : Found(p, i) => slots[i].inUse
<1>1. PICK u \in Used : slots[u].ptr = p
    BY DEF IInv, RootsAreLive
<1>2. u \in 1..Len(slots) /\ slots[u].inUse
    BY DEF Used
<1>3. \A j \in 1..Len(slots) : j < u => slots[j].ptr # p
    BY <1>1 DEF IInv, NoStaleBefore
<1>4. Found(p, u)
    BY <1>1, <1>2, <1>3 DEF Found
<1>5. ASSUME NEW i \in 1..Len(slots), Found(p, i) PROVE i = u
    BY <1>2, <1>4, <1>5, TableShape DEF Found, IInv
<1> QED
    BY <1>2, <1>4, <1>5

LEMMA InitEstablishes == Init => IInv
<1> SUFFICES ASSUME Init PROVE IInv
    OBVIOUS
<1>1. slots \in Seq(Slot)
    BY GcRootsAssumption, IsASeq DEF Init, Slot
<1>2. Len(slots) = InitialSlots /\ \A i \in 1..Len(slots) : ~slots[i].inUse
    BY GcRootsAssumption DEF Init
<1>3. Used = {}
    BY <1>2 DEF Used
<1>4. panicked \in BOOLEAN /\ ForgetFinds /\ live = {}
    BY DEF Init, ForgetFinds
<1> QED
    BY <1>1, <1>3, <1>4 DEF IInv, TypeOK, RootsAreLive, NoStaleBefore

\* Registering in a free entry whose predecessors are all in use.
LEMMA RememberInFree ==
    ASSUME IInv, NEW p \in Addresses, p \notin live, live' = live \cup {p},
           NEW i \in 1..Len(slots), FirstFree(i),
           slots' = [slots EXCEPT ![i] = Entry(p)], UNCHANGED panicked
    PROVE  IInv'
<1>1. Entry(p) \in Slot /\ Entry(p).ptr = p /\ Entry(p).inUse
    BY DEF Entry, Slot
<1>2. /\ slots' \in Seq(Slot)
      /\ Len(slots') = Len(slots)
      /\ \A j \in 1..Len(slots) : slots'[j] = IF j = i THEN Entry(p) ELSE slots[j]
    <2>1. slots \in Seq(Slot)
        BY DEF IInv, TypeOK
    <2> QED
        BY <1>1, <2>1, ExceptSeq
<1>3. TypeOK'
    BY <1>2 DEF IInv, TypeOK
<1>4. ~slots[i].inUse /\ \A j \in 1..Len(slots) : j < i => slots[j].inUse
    BY DEF FirstFree
<1>5. Used' = Used \cup {i}
    BY <1>1, <1>2, <1>4 DEF Used
<1>6. /\ \A j \in Used : slots[j].ptr # p /\ j # i /\ slots'[j] = slots[j]
      /\ slots'[i].ptr = p
      /\ Used \subseteq 1..Len(slots)
    BY <1>1, <1>2, <1>4 DEF IInv, RootsAreLive, Used
<1>7. RootsAreLive'
    BY <1>5, <1>6 DEF IInv, RootsAreLive
<1>8. NoStaleBefore'
    <2> SUFFICES ASSUME NEW j \in Used', NEW k \in 1..Len(slots), k < j
                 PROVE  slots'[k].ptr # slots'[j].ptr
        BY <1>2 DEF NoStaleBefore
    <2>1. CASE j = i
        <3>1. k \in Used
            BY <2>1, <1>4 DEF Used
        <3> QED
            BY <2>1, <3>1, <1>6
    <2>2. CASE j # i
        <3>1. j \in Used
            BY <2>2, <1>5
        <3>2. slots[k].ptr # slots[j].ptr
            BY <3>1 DEF IInv, NoStaleBefore
        <3>3. CASE k = i
            BY <3>1, <3>3, <1>6
        <3>4. CASE k # i
            BY <3>1, <3>2, <3>4, <1>2, <1>6
        <3> QED
            BY <3>3, <3>4
    <2> QED
        BY <2>1, <2>2
<1>9. ForgetFinds'
    BY DEF IInv, ForgetFinds
<1> QED
    BY <1>3, <1>7, <1>8, <1>9 DEF IInv

\* Registering in an entry added to a table that is all in use.
LEMMA RememberAtEnd ==
    ASSUME IInv, NEW p \in Addresses, p \notin live, live' = live \cup {p},
           \A i \in 1..Len(slots) : slots[i].inUse,
           slots' = Append(slots, Entry(p)), UNCHANGED panicked
    PROVE  IInv'
<1> DEFINE n == Len(slots) + 1
<1>1. Entry(p) \in Slot /\ Entry(p).ptr = p /\ Entry(p).inUse
    BY DEF Entry, Slot
<1>2. /\ slots' \in Seq(Slot)
      /\ Len(slots') = n
      /\ \A j \in 1..Len(slots) : slots'[j] = slots[j]
      /\ slots'[n] = Entry(p)
    <2>1. slots \in Seq(Slot)
        BY DEF IInv, TypeOK
    <2> QED
        BY <1>1, <2>1, AppendProperties
<1>3. TypeOK'
    BY <1>2 DEF IInv, TypeOK
<1>4. Len(slots) \in Nat /\ 1..n = 1..Len(slots) \cup {n} /\ n \notin 1..Len(slots)
    BY TableShape DEF IInv
<1>5. Used' = Used \cup {n} /\ Used = 1..Len(slots)
    BY <1>1, <1>2, <1>4 DEF Used
<1>6. \A j \in Used : slots[j].ptr # p /\ slots'[j] = slots[j]
    BY <1>2, <1>5 DEF IInv, RootsAreLive
<1>7. RootsAreLive'
    BY <1>1, <1>2, <1>4, <1>5, <1>6 DEF IInv, RootsAreLive
<1>8. NoStaleBefore'
    <2> SUFFICES ASSUME NEW j \in Used', NEW k \in 1..n, k < j
                 PROVE  slots'[k].ptr # slots'[j].ptr
        BY <1>2 DEF NoStaleBefore
    <2>1. k \in 1..Len(slots)
        BY <1>4, <1>5
    <2>2. CASE j = n
        BY <2>1, <2>2, <1>1, <1>2, <1>5, <1>6
    <2>3. CASE j # n
        BY <2>1, <2>3, <1>5, <1>6 DEF IInv, NoStaleBefore
    <2> QED
        BY <2>2, <2>3
<1>9. ForgetFinds'
    BY DEF IInv, ForgetFinds
<1> QED
    BY <1>3, <1>7, <1>8, <1>9 DEF IInv

\* Deregistering releases the one entry in use for the address.
LEMMA ForgetKeeps ==
    ASSUME IInv, NEW p \in Addresses, Forget(p)
    PROVE  IInv'
<1>1. p \in live /\ live' = live \ {p}
    BY DEF Forget
<1>2. PICK i \in 1..Len(slots) : /\ Found(p, i)
                                 /\ slots' = [slots EXCEPT ![i].inUse = FALSE]
                                 /\ UNCHANGED panicked
    BY <1>1, FoundIsUsed DEF Forget
<1>3. slots[i].ptr = p /\ slots[i].inUse
    BY <1>1, <1>2, FoundIsUsed DEF Found
<1>4. /\ slots' \in Seq(Slot)
      /\ Len(slots') = Len(slots)
      /\ \A j \in 1..Len(slots) : slots'[j].ptr = slots[j].ptr
      /\ \A j \in 1..Len(slots) : slots'[j].inUse = (slots[j].inUse /\ j # i)
    <2>1. slots \in Seq(Slot) /\ slots[i] \in Slot
        BY TableShape DEF IInv, TypeOK
    <2>2. [slots[i] EXCEPT !.inUse = FALSE] \in Slot
        BY <2>1 DEF Slot
    <2>3. slots' = [slots EXCEPT ![i] = [slots[i] EXCEPT !.inUse = FALSE]]
        BY <1>2
    <2>4. /\ slots' \in Seq(Slot)
          /\ Len(slots') = Len(slots)
          /\ \A j \in 1..Len(slots) :
                slots'[j] = IF j = i THEN [slots[i] EXCEPT !.inUse = FALSE] ELSE slots[j]
        BY <2>1, <2>2, <2>3, ExceptSeq
    <2>5. /\ [slots[i] EXCEPT !.inUse = FALSE].ptr = slots[i].ptr
          /\ [slots[i] EXCEPT !.inUse = FALSE].inUse = FALSE
        BY <2>1 DEF Slot
    <2>6. \A j \in 1..Len(slots) : slots[j].inUse \in BOOLEAN
        BY TableShape DEF IInv, Slot
    <2> QED
        BY <2>4, <2>5, <2>6
<1>5. TypeOK'
    BY <1>1, <1>2, <1>4 DEF IInv, TypeOK
<1>6. Used' = Used \ {i} /\ i \in Used
    BY <1>3, <1>4 DEF Used
<1>7. RootsAreLive'
    <2>1. \A j \in Used' : j \in Used /\ slots'[j].ptr = slots[j].ptr /\ slots[j].ptr # p
        BY <1>3, <1>4, <1>6 DEF IInv, RootsAreLive, Used
    <2>2. \A q \in live' : \E j \in Used' : slots'[j].ptr = q
        <3> SUFFICES ASSUME NEW q \in live' PROVE \E j \in Used' : slots'[j].ptr = q
            OBVIOUS
        <3>1. PICK j \in Used : slots[j].ptr = q
            BY <1>1 DEF IInv, RootsAreLive
        <3>2. j \in Used'
            BY <3>1, <1>1, <1>3, <1>6
        <3> QED
            BY <3>1, <3>2, <2>1
    <2> QED
        BY <2>1, <2>2, <1>1 DEF IInv, RootsAreLive
<1>8. NoStaleBefore'
    BY <1>4, <1>6 DEF IInv, NoStaleBefore, Used
<1>9. ForgetFinds'
    BY <1>2 DEF IInv, ForgetFinds
<1> QED
    BY <1>5, <1>7, <1>8, <1>9 DEF IInv

LEMMA NextKeeps == IInv /\ [Next]_vars => IInv'
<1> SUFFICES ASSUME IInv, [Next]_vars PROVE IInv'
    OBVIOUS
<1>1. CASE UNCHANGED vars
    BY <1>1 DEF vars, IInv, TypeOK, RootsAreLive, NoStaleBefore, ForgetFinds, Used
<1>2. ASSUME NEW p \in Addresses, Remember(p) PROVE IInv'
    BY <1>2, RememberInFree, RememberAtEnd DEF Remember
<1> QED
    BY <1>1, <1>2, ForgetKeeps DEF Next

\* The strengthened invariant holds of every behaviour of the table.
THEOREM Invariance == Spec => []IInv
    BY InitEstablishes, NextKeeps, PTL DEF Spec

\* The table, the registrations and the flag keep their types.
THEOREM TypeCorrect == Spec => []TypeOK
<1>1. IInv => TypeOK
    BY DEF IInv
<1> QED
    BY <1>1, Invariance, PTL

\* The collector follows exactly the variables that are in scope.
THEOREM TableIsExact == Spec => []RootsAreLive
<1>1. IInv => RootsAreLive
    BY DEF IInv
<1> QED
    BY <1>1, Invariance, PTL

\* Deregistering a registered variable always finds it.
THEOREM ForgetNeverPanics == Spec => []ForgetFinds
<1>1. IInv => ForgetFinds
    BY DEF IInv
<1> QED
    BY <1>1, Invariance, PTL

-----------------------------------------------------------------------------
(* The list of pages.  A page has a rank, and the links follow the ranks;  *)
(* the ranks exist only in the proof.                                      *)

\* The links of ListConsistent.
Linkage(A, h, nx, pv) ==
    /\ h = Null <=> A = {}
    /\ \A p \in A : /\ (pv[p] = Null) <=> (p = h)
                    /\ pv[p] # Null => pv[p] \in A /\ nx[pv[p]] = p
                    /\ nx[p] # Null => nx[p] \in A /\ pv[nx[p]] = p

\* The ranks of the pages of A grow along the forward links, from the head.
InSequence(A, h, nx, rank) ==
    /\ \A p, q \in A : rank[p] = rank[q] => p = q
    /\ h # Null => h \in A /\ \A p \in A : rank[h] <= rank[p]
    /\ \A p \in A : nx[p] = Null => \A r \in A : rank[r] <= rank[p]
    /\ \A p \in A : nx[p] # Null =>
            /\ rank[p] < rank[nx[p]]
            /\ \A r \in A : rank[p] < rank[r] => rank[nx[p]] <= rank[r]

Ranks == [Pages -> Int]
Links == [Pages -> Pointer]

\* A page put before the first.
LEMMA PutFirst ==
    ASSUME NEW A \in SUBSET Pages, NEW h \in Pointer, NEW nx \in Links, NEW pv \in Links,
           NEW rank \in Ranks, Linkage(A, h, nx, pv), InSequence(A, h, nx, rank),
           NEW p \in Pages \ A, NEW nx2, NEW pv2,
           nx2 = [nx EXCEPT ![p] = h],
           pv2 = [(IF h = Null THEN pv ELSE [pv EXCEPT ![h] = p]) EXCEPT ![p] = Null]
    PROVE  /\ Linkage(A \cup {p}, p, nx2, pv2)
           /\ \E new \in Ranks : InSequence(A \cup {p}, p, nx2, new)
<1> DEFINE low == IF h = Null THEN 0 ELSE rank[h] - 1
           new == [rank EXCEPT ![p] = low]
<1>1. Null \notin Pages /\ p # Null
    BY GcAssumption
<1>2. h # Null => h \in A /\ rank[h] \in Int
    BY <1>1 DEF InSequence, Ranks, Pointer
<1>3. low \in Int /\ new \in Ranks
    BY <1>2 DEF Ranks
<1>4. /\ \A r \in A : r # p /\ r # Null /\ nx2[r] = nx[r]
      /\ nx2[p] = h
    BY <1>1 DEF Links
<1>5. /\ \A r \in A : pv2[r] = IF r = h THEN p ELSE pv[r]
      /\ pv2[p] = Null
    BY <1>1, <1>2 DEF Links
<1>6. /\ \A r \in A : new[r] = rank[r] /\ rank[r] \in Int
      /\ new[p] = low
    BY DEF Ranks
<1>7. \A r \in A : low < rank[r]
    BY <1>2, <1>6 DEF InSequence, Linkage
<1>8. Linkage(A \cup {p}, p, nx2, pv2)
    <2> SUFFICES ASSUME NEW r \in A \cup {p}
                 PROVE  /\ (pv2[r] = Null) <=> (r = p)
                        /\ pv2[r] # Null => pv2[r] \in A \cup {p} /\ nx2[pv2[r]] = r
                        /\ nx2[r] # Null => nx2[r] \in A \cup {p} /\ pv2[nx2[r]] = r
        BY <1>1 DEF Linkage
    <2>1. CASE r = p
        BY <2>1, <1>2, <1>4, <1>5
    <2>2. CASE r # p
        <3>1. /\ r \in A /\ nx2[r] = nx[r] /\ pv2[r] = IF r = h THEN p ELSE pv[r]
              /\ (pv[r] = Null) <=> (r = h)
              /\ pv[r] # Null => pv[r] \in A /\ nx[pv[r]] = r
              /\ nx[r] # Null => nx[r] \in A /\ pv[nx[r]] = r
            BY <2>2, <1>4, <1>5 DEF Linkage
        <3>2. nx[r] # Null => nx[r] # h
            BY <3>1, <1>2, <1>4 DEF Linkage
        <3> QED
            BY <3>1, <3>2, <1>1, <1>4, <1>5
    <2> QED
        BY <2>1, <2>2
<1>9. InSequence(A \cup {p}, p, nx2, new)
    <2> HIDE DEF low, new
    <2>1. \A r \in A : nx[r] # Null => nx[r] \in A
        BY DEF Linkage
    <2>2. \A r, q \in A \cup {p} : new[r] = new[q] => r = q
        BY <1>3, <1>6, <1>7 DEF InSequence
    <2>3. \A r \in A \cup {p} : new[p] <= new[r]
        BY <1>3, <1>6, <1>7
    <2>4. ASSUME NEW s \in A \cup {p}, nx2[s] = Null, NEW r \in A \cup {p}
          PROVE  new[r] <= new[s]
        <3>1. CASE s \in A
            BY <2>4, <3>1, <1>3, <1>4, <1>6, <1>7 DEF InSequence
        <3>2. CASE s = p
            <4>1. A = {}
                BY <3>2, <2>4, <1>4 DEF Linkage
            <4> QED
                BY <4>1, <3>2, <1>3, <1>6
        <3> QED
            BY <3>1, <3>2
    <2>5. ASSUME NEW s \in A \cup {p}, nx2[s] # Null
          PROVE  /\ new[s] < new[nx2[s]]
                 /\ \A r \in A \cup {p} : new[s] < new[r] => new[nx2[s]] <= new[r]
        <3>1. CASE s \in A
            <4>1. nx2[s] = nx[s] /\ nx[s] \in A /\ nx[s] # Null
                BY <3>1, <2>1, <2>5, <1>4
            <4>2. /\ rank[s] < rank[nx[s]]
                  /\ \A r \in A : rank[s] < rank[r] => rank[nx[s]] <= rank[r]
                BY <3>1, <4>1 DEF InSequence
            <4>3. new[s] = rank[s] /\ new[nx[s]] = rank[nx[s]] /\ ~(new[s] < new[p])
                BY <3>1, <4>1, <1>3, <1>6, <1>7
            <4> QED
                BY <4>1, <4>2, <4>3, <1>6
        <3>2. CASE s = p
            BY <3>2, <2>5, <1>2, <1>3, <1>4, <1>6, <1>7 DEF InSequence
        <3> QED
            BY <3>1, <3>2
    <2> QED
        BY <1>1, <2>2, <2>3, <2>4, <2>5 DEF InSequence
<1> QED
    BY <1>3, <1>8, <1>9

\* What gc_free_page does to the links of the pages that stay.
Without(A, c, h, nx, pv, h2, nx2, pv2) ==
    /\ h2 = IF pv[c] = Null THEN nx[c] ELSE h
    /\ \A r \in A \ {c} : nx2[r] = IF r = pv[c] THEN nx[c] ELSE nx[r]
    /\ \A r \in A \ {c} : pv2[r] = IF r = nx[c] THEN pv[c] ELSE pv[r]

\* A page taken out between its neighbours.
LEMMA TakeOut ==
    ASSUME NEW A \in SUBSET Pages, NEW h \in Pointer, NEW nx \in Links, NEW pv \in Links,
           NEW rank \in Ranks, Linkage(A, h, nx, pv), InSequence(A, h, nx, rank),
           NEW c \in A, NEW h2, NEW nx2, NEW pv2,
           Without(A, c, h, nx, pv, h2, nx2, pv2)
    PROVE  /\ Linkage(A \ {c}, h2, nx2, pv2) /\ InSequence(A \ {c}, h2, nx2, rank)
           /\ nx[c] \in (A \ {c}) \cup {Null}
<1>1. Null \notin Pages /\ c # Null /\ c \in Pages /\ Null \notin A
    BY GcAssumption
<1>2. /\ \A r \in A : rank[r] \in Int
      /\ \A r \in A : nx[r] \in A \cup {Null} /\ pv[r] \in A \cup {Null}
    BY DEF Ranks, Linkage
<1>3. \A r \in A : nx[r] # r /\ pv[r] # r
    BY <1>1, <1>2 DEF InSequence, Linkage
<1>4. \A r \in A \ {c} : nx2[r] = IF r = pv[c] THEN nx[c] ELSE nx[r]
    BY DEF Without
<1>5. \A r \in A \ {c} : pv2[r] = IF r = nx[c] THEN pv[c] ELSE pv[r]
    BY DEF Without
<1>6. h2 = IF pv[c] = Null THEN nx[c] ELSE h
    BY DEF Without
<1>7. h \in A
    BY <1>1 DEF InSequence, Linkage
<1>8. h2 = Null <=> A \ {c} = {}
    <2>1. CASE pv[c] = Null /\ nx[c] = Null
        <3>1. \A r \in A : rank[c] <= rank[r] /\ rank[r] <= rank[c]
            BY <2>1, <1>7 DEF InSequence, Linkage
        <3>2. \A r \in A : r = c
            BY <3>1, <1>2 DEF InSequence
        <3> QED
            BY <2>1, <3>2, <1>6
    <2>2. CASE pv[c] = Null /\ nx[c] # Null
        BY <2>2, <1>2, <1>3, <1>6
    <2>3. CASE pv[c] # Null
        BY <2>3, <1>1, <1>2, <1>3, <1>6, <1>7
    <2> QED
        BY <2>1, <2>2, <2>3
<1>9. Linkage(A \ {c}, h2, nx2, pv2)
    <2> SUFFICES ASSUME NEW p \in A \ {c}
                 PROVE  /\ (pv2[p] = Null) <=> (p = h2)
                        /\ pv2[p] # Null => pv2[p] \in A \ {c} /\ nx2[pv2[p]] = p
                        /\ nx2[p] # Null => nx2[p] \in A \ {c} /\ pv2[nx2[p]] = p
        BY <1>8 DEF Linkage
    <2>1. /\ (pv[p] = Null) <=> (p = h)
          /\ pv[p] # Null => pv[p] \in A /\ nx[pv[p]] = p
          /\ nx[p] # Null => nx[p] \in A /\ pv[nx[p]] = p
          /\ p # nx[p] /\ p # pv[p]
        BY <1>3 DEF Linkage
    <2>2. /\ (pv[c] = Null) <=> (c = h)
          /\ pv[c] # Null => pv[c] \in A \ {c} /\ nx[pv[c]] = c
          /\ nx[c] # Null => nx[c] \in A \ {c} /\ pv[nx[c]] = c
        BY <1>3 DEF Linkage
    <2>3. (pv2[p] = Null) <=> (p = h2)
        BY <2>1, <2>2, <1>1, <1>5, <1>6
    <2>4. pv2[p] # Null => pv2[p] \in A \ {c} /\ nx2[pv2[p]] = p
        <3>1. CASE p = nx[c]
            <4>1. pv2[p] = pv[c]
                BY <3>1, <1>5
            <4>2. pv[c] # Null => nx2[pv[c]] = nx[c]
                BY <2>2, <1>4
            <4> QED
                BY <3>1, <4>1, <4>2, <2>2
        <3>2. CASE p # nx[c]
            <4>1. pv2[p] = pv[p]
                BY <3>2, <1>5
            <4>2. pv[p] # Null => pv[p] \in A \ {c} /\ pv[p] # pv[c]
                BY <3>2, <2>1, <2>2
            <4> QED
                BY <4>1, <4>2, <2>1, <1>4
        <3> QED
            BY <3>1, <3>2
    <2>5. nx2[p] # Null => nx2[p] \in A \ {c} /\ pv2[nx2[p]] = p
        <3>1. CASE p = pv[c]
            BY <3>1, <2>2, <1>1, <1>4, <1>5
        <3>2. CASE p # pv[c]
            <4>1. nx2[p] = nx[p]
                BY <3>2, <1>4
            <4>2. nx[p] # Null => nx[p] \in A \ {c} /\ nx[p] # nx[c]
                BY <3>2, <2>1, <2>2
            <4> QED
                BY <4>1, <4>2, <2>1, <1>5
        <3> QED
            BY <3>1, <3>2
    <2> QED
        BY <2>3, <2>4, <2>5
<1>10. InSequence(A \ {c}, h2, nx2, rank)
    <2> DEFINE B == A \ {c}
    <2>1. h2 # Null => h2 \in B /\ \A p \in B : rank[h2] <= rank[p]
        <3>1. CASE pv[c] # Null
            BY <3>1, <1>1, <1>6, <1>7 DEF InSequence, Linkage
        <3>2. CASE pv[c] = Null
            <4>1. c = h /\ h2 = nx[c]
                BY <3>2, <1>6 DEF Linkage
            <4>2. \A p \in B : rank[c] < rank[p]
                BY <4>1, <1>1, <1>2 DEF InSequence
            <4> QED
                BY <4>1, <4>2, <1>2, <1>3 DEF InSequence
        <3> QED
            BY <3>1, <3>2
    <2>2. ASSUME NEW p \in B, nx2[p] = Null, NEW r \in B
          PROVE  rank[r] <= rank[p]
        <3>1. CASE p = pv[c]
            <4>1. nx[c] = Null /\ nx[p] = c
                BY <2>2, <3>1, <1>1, <1>4 DEF Linkage
            <4>2. rank[r] <= rank[c] /\ rank[r] # rank[c]
                BY <4>1 DEF InSequence
            <4>3. rank[p] < rank[r] => rank[c] <= rank[r]
                BY <4>1, <1>1 DEF InSequence
            <4> QED
                BY <4>2, <4>3, <1>2
        <3>2. CASE p # pv[c]
            BY <2>2, <3>2, <1>4 DEF InSequence
        <3> QED
            BY <3>1, <3>2
    <2>3. ASSUME NEW p \in B, nx2[p] # Null
          PROVE  /\ rank[p] < rank[nx2[p]]
                 /\ \A r \in B : rank[p] < rank[r] => rank[nx2[p]] <= rank[r]
        <3>1. CASE p = pv[c]
            <4>1. nx2[p] = nx[c] /\ nx[p] = c /\ nx[c] # Null /\ nx[c] \in A
                BY <2>3, <3>1, <1>1, <1>2, <1>4 DEF Linkage
            <4>2. /\ rank[p] < rank[c] /\ rank[c] < rank[nx[c]]
                  /\ \A r \in A : rank[p] < rank[r] => rank[c] <= rank[r]
                  /\ \A r \in A : rank[c] < rank[r] => rank[nx[c]] <= rank[r]
                BY <4>1, <1>1 DEF InSequence
            <4>3. \A r \in B : rank[r] # rank[c]
                BY DEF InSequence
            <4>4. rank[p] \in Int /\ rank[c] \in Int /\ rank[nx[c]] \in Int
                BY <4>1, <1>2
            <4>5. rank[p] < rank[nx[c]]
                BY <4>2, <4>4
            <4>6. ASSUME NEW r \in B, rank[p] < rank[r] PROVE rank[nx[c]] <= rank[r]
                <5>1. rank[c] <= rank[r] /\ rank[r] \in Int
                    BY <4>2, <4>6, <1>2
                <5>2. rank[c] < rank[r]
                    BY <5>1, <4>3, <4>4
                <5> QED
                    BY <5>2, <4>2
            <4> QED
                BY <4>1, <4>5, <4>6
        <3>2. CASE p # pv[c]
            BY <2>3, <3>2, <1>4 DEF InSequence
        <3> QED
            BY <3>1, <3>2
    <2> QED
        BY <2>1, <2>2, <2>3 DEF InSequence
<1> QED
    BY <1>2, <1>3, <1>9, <1>10

\* A page moved to another address, or left where it is.
LEMMA Moved ==
    ASSUME NEW A \in SUBSET Pages, NEW h \in Pointer, NEW nx \in Links, NEW pv \in Links,
           NEW rank \in Ranks, Linkage(A, h, nx, pv), InSequence(A, h, nx, rank),
           NEW p \in A, NEW q \in Pages, q = p \/ q \notin A, NEW h2, NEW nx2, NEW pv2,
           nx2 = Relinked(nx, p, q), pv2 = Relinked(pv, p, q),
           h2 = IF h = p THEN q ELSE h
    PROVE  /\ Linkage((A \ {p}) \cup {q}, h2, nx2, pv2)
           /\ \E new \in Ranks : InSequence((A \ {p}) \cup {q}, h2, nx2, new)
<1> DEFINE B == (A \ {p}) \cup {q}
           Now(x) == IF x = p THEN q ELSE x
           new == [rank EXCEPT ![q] = rank[p]]
<1>1. Null \notin Pages /\ p \in Pages /\ p # Null /\ q # Null /\ Null \notin A
    BY GcAssumption
<1>2. new \in Ranks /\ \A x \in A : rank[x] \in Int
    BY DEF Ranks
<1>3. /\ \A x \in A : Now(x) \in B /\ Now(x) # Null
      /\ \A x, z \in A : Now(x) = Now(z) => x = z
      /\ \A y \in B : \E x \in A : y = Now(x)
      /\ Now(Null) = Null
      /\ h2 = Now(h)
    BY <1>1
<1>4. \A x \in A : nx[x] \in A \cup {Null} /\ pv[x] \in A \cup {Null}
    BY DEF Linkage
<1>5. \A x \in A : new[Now(x)] = rank[x]
    BY DEF Ranks
<1>6. ASSUME NEW x \in A, NEW f \in Links, f[x] \in A \cup {Null}
      PROVE  Relinked(f, p, q)[Now(x)] = Now(f[x])
    BY <1>1, <1>6 DEF Relinked, Links
<1>7. \A x \in A : nx2[Now(x)] = Now(nx[x]) /\ pv2[Now(x)] = Now(pv[x])
    BY <1>4, <1>6
<1> HIDE DEF B, Now, new
<1>8. Linkage(B, h2, nx2, pv2)
    <2>1. h2 = Null <=> B = {}
        <3>1. h \in A
            BY <1>1 DEF InSequence, Linkage
        <3> QED
            BY <3>1, <1>3
    <2>2. ASSUME NEW y \in B
          PROVE  /\ (pv2[y] = Null) <=> (y = h2)
                 /\ pv2[y] # Null => pv2[y] \in B /\ nx2[pv2[y]] = y
                 /\ nx2[y] # Null => nx2[y] \in B /\ pv2[nx2[y]] = y
        <3>1. PICK x \in A : y = Now(x)
            BY <1>3
        <3>2. /\ (pv[x] = Null) <=> (x = h)
              /\ pv[x] # Null => pv[x] \in A /\ nx[pv[x]] = x
              /\ nx[x] # Null => nx[x] \in A /\ pv[nx[x]] = x
            BY DEF Linkage
        <3>3. nx2[y] = Now(nx[x]) /\ pv2[y] = Now(pv[x])
            BY <3>1, <1>7
        <3>4. h \in A
            BY <1>1 DEF InSequence, Linkage
        <3> QED
            BY <3>1, <3>2, <3>3, <3>4, <1>3, <1>7
    <2> QED
        BY <2>1, <2>2 DEF Linkage
<1>9. InSequence(B, h2, nx2, new)
    <2>1. \A y, z \in B : new[y] = new[z] => y = z
        BY <1>3, <1>5 DEF InSequence
    <2>2. h2 \in B /\ \A y \in B : new[h2] <= new[y]
        <3>1. h \in A /\ \A x \in A : rank[h] <= rank[x]
            BY <1>1 DEF InSequence, Linkage
        <3> QED
            BY <3>1, <1>3, <1>5
    <2>3. ASSUME NEW y \in B, nx2[y] = Null, NEW z \in B
          PROVE  new[z] <= new[y]
        <3>1. PICK x \in A : y = Now(x)
            BY <1>3
        <3>2. PICK r \in A : z = Now(r)
            BY <1>3
        <3>3. nx[x] = Null
            BY <3>1, <2>3, <1>3, <1>4, <1>7
        <3>4. rank[r] <= rank[x]
            BY <3>3 DEF InSequence
        <3> QED
            BY <3>1, <3>2, <3>4, <1>5
    <2>4. ASSUME NEW y \in B, nx2[y] # Null
          PROVE  /\ new[y] < new[nx2[y]]
                 /\ \A z \in B : new[y] < new[z] => new[nx2[y]] <= new[z]
        <3>1. PICK x \in A : y = Now(x)
            BY <1>3
        <3>2. nx[x] # Null /\ nx[x] \in A /\ nx2[y] = Now(nx[x])
            BY <3>1, <2>4, <1>3, <1>4, <1>7
        <3>3. /\ rank[x] < rank[nx[x]]
              /\ \A r \in A : rank[x] < rank[r] => rank[nx[x]] <= rank[r]
            BY <3>2 DEF InSequence
        <3>4. new[y] = rank[x] /\ new[nx2[y]] = rank[nx[x]]
            BY <3>1, <3>2, <1>5
        <3>5. \A z \in B : \E r \in A : new[z] = rank[r]
            BY <1>3, <1>5
        <3> QED
            BY <3>3, <3>4, <3>5
    <2> QED
        BY <2>1, <2>2, <2>3, <2>4 DEF InSequence
<1> QED
    BY <1>2, <1>8, <1>9 DEF B

-----------------------------------------------------------------------------
(* What pointers lead to                                                   *)

\* What some roots lead to, as a function of the pages and the pointers in them.
Led(A, r, roots) ==
    {p \in A : \A S \in SUBSET A : roots \subseteq S /\ (\A x \in S : r[x] \cap A \subseteq S) => p \in S}

Roots == InVariables \cup {p \in alive : rootCount[p] > 0}

LEMMA FromIsLed == \A roots : From(roots) = Led(alive, refs, roots)
BY DEF From, Closed, Led

LEMMA NamedIsLed == Named = Led(alive, refs, InVariables)
BY FromIsLed DEF Named

LEMMA ReachableIsLed == Reachable = Led(alive, refs, Roots)
BY FromIsLed DEF Reachable, Roots

LEMMA LedHolds ==
    ASSUME NEW A, NEW r, NEW roots \in SUBSET A
    PROVE  /\ roots \subseteq Led(A, r, roots)
           /\ Led(A, r, roots) \subseteq A
           /\ \A x \in Led(A, r, roots) : r[x] \cap A \subseteq Led(A, r, roots)
BY DEF Led

LEMMA LedIsLeast ==
    ASSUME NEW A, NEW r, NEW roots, NEW S \in SUBSET A, roots \subseteq S,
           \A x \in S : r[x] \cap A \subseteq S
    PROVE  Led(A, r, roots) \subseteq S
BY DEF Led

-----------------------------------------------------------------------------
(* Words                                                                   *)

WordsOf(A, sz) == UNION {{p} \X (1..sz[p]) : p \in A}

LEMMA BlockCounts ==
    ASSUME NEW p, NEW n \in Nat
    PROVE  IsFiniteSet({p} \X (1..n)) /\ Cardinality({p} \X (1..n)) = n
<1>1. IsFiniteSet({p}) /\ Cardinality({p}) = 1
    BY FS_Singleton
<1>2. IsFiniteSet(1..n) /\ Cardinality(1..n) = IF 1 > n THEN 0 ELSE n - 1 + 1
    <2>1. 1 \in Int /\ n \in Int
        OBVIOUS
    <2> QED
        BY <2>1, FS_Interval, Zenon
<1>3. Cardinality(1..n) = n
    BY <1>2
<1>4. /\ IsFiniteSet({p} \X (1..n))
      /\ Cardinality({p} \X (1..n)) = Cardinality({p}) * Cardinality(1..n)
    BY <1>1, <1>2, FS_Product
<1>5. 1 * n = n
    OBVIOUS
<1> QED
    BY <1>1, <1>3, <1>4, <1>5

LEMMA BlockAdded ==
    ASSUME NEW A, NEW sz, IsFiniteSet(WordsOf(A, sz)), NEW p, p \notin A, NEW n \in Nat,
           NEW sz2, \A x \in A : sz2[x] = sz[x], sz2[p] = n
    PROVE  /\ IsFiniteSet(WordsOf(A \cup {p}, sz2))
           /\ Cardinality(WordsOf(A \cup {p}, sz2)) = Cardinality(WordsOf(A, sz)) + n
<1> DEFINE W == WordsOf(A, sz)
           B == {p} \X (1..n)
<1>1. WordsOf(A \cup {p}, sz2) = W \cup B
    BY DEF WordsOf
<1>2. W \cap B = {}
    BY DEF WordsOf
<1>3. IsFiniteSet(B) /\ Cardinality(B) = n
    BY BlockCounts
<1> HIDE DEF W, B
<1>4. /\ IsFiniteSet(W \cup B)
      /\ Cardinality(W \cup B) = Cardinality(W) + Cardinality(B) - Cardinality(W \cap B)
    BY <1>3, FS_Union DEF W
<1>5. Cardinality(W) \in Nat /\ Cardinality(W \cap B) = 0
    BY <1>2, FS_CardinalityType, FS_EmptySet DEF W
<1>6. Cardinality(W \cup B) = Cardinality(W) + n
    BY <1>3, <1>4, <1>5
<1> QED
    BY <1>1, <1>4, <1>6 DEF W

LEMMA BlockRemoved ==
    ASSUME NEW A, NEW sz, IsFiniteSet(WordsOf(A, sz)), NEW p \in A, sz[p] \in Nat,
           NEW sz2, \A x \in A \ {p} : sz2[x] = sz[x]
    PROVE  /\ IsFiniteSet(WordsOf(A \ {p}, sz2))
           /\ Cardinality(WordsOf(A \ {p}, sz2)) = Cardinality(WordsOf(A, sz)) - sz[p]
<1> DEFINE W == WordsOf(A, sz)
           B == {p} \X (1..sz[p])
<1>1. WordsOf(A \ {p}, sz2) = W \ B
    BY DEF WordsOf
<1>2. W \cap B = B
    BY DEF WordsOf
<1>3. IsFiniteSet(B) /\ Cardinality(B) = sz[p]
    BY BlockCounts
<1> HIDE DEF W, B
<1>4. /\ IsFiniteSet(W \ B)
      /\ Cardinality(W \ B) = Cardinality(W) - Cardinality(W \cap B)
    BY FS_Difference DEF W
<1> QED
    BY <1>1, <1>2, <1>3, <1>4 DEF W

-----------------------------------------------------------------------------
(* The inductive invariant                                                 *)

\* The sweep has left no unmarked page behind it.
Swept(rank) ==
    sweeping => \A p \in alive : (cursor = Null \/ rank[p] < rank[cursor]) => p \in marked

Walk == /\ Linkage(alive, head, next, prev)
        /\ \E rank \in Ranks : InSequence(alive, head, next, rank) /\ Swept(rank)

Count == /\ IsFiniteSet(Words)
         /\ nPages = Cardinality(alive)
         /\ nBytes = Cardinality(Words)

\* A variable out of scope, and an address that is not handed out, hold nothing
\* that a collection follows.
NothingLeft == /\ \A v \in Addresses \ live : var[v] = Null
               /\ \A p \in Pages \ alive : rootCount[p] = 0

\* From the mark to the end of the sweep, marked is reachable and the reverse.
MarkIsExact == sweeping => marked = Reachable /\ cursor \in alive \cup {Null}

HeapIInv == /\ IInv
            /\ HeapOK
            /\ Walk
            /\ Count
            /\ NoDanglingPointer
            /\ NothingLeft
            /\ MarkIsExact

LEMMA HeapIInvIsSound == HeapIInv => HeapIsSound
BY DEF HeapIInv, HeapIsSound, ListConsistent, Walk, Count, Linkage

LEMMA WordsAreOf == Words = WordsOf(alive, size) /\ Words' = WordsOf(alive', size')
BY DEF Words, WordsOf

LEMMA AliveFinite == HeapOK => IsFiniteSet(alive) /\ Cardinality(alive) \in Nat
BY GcAssumption, FS_Subset, FS_CardinalityType DEF HeapOK

\* What is reachable is alive and points to what is reachable.
LEMMA ReachableHolds ==
    ASSUME HeapIInv
    PROVE  /\ Roots \subseteq Reachable
           /\ Reachable \subseteq alive
           /\ \A x \in Reachable : refs[x] \subseteq Reachable
           /\ InVariables \subseteq Named /\ Named \subseteq Reachable
<1>1. Roots \subseteq alive /\ InVariables \subseteq Roots
    BY DEF Roots, InVariables
<1>2. /\ Roots \subseteq Reachable /\ Reachable \subseteq alive
      /\ \A x \in Reachable : refs[x] \cap alive \subseteq Reachable
    BY <1>1, ReachableIsLed, LedHolds
<1>3. \A x \in Reachable : refs[x] \subseteq Reachable
    BY <1>2 DEF HeapIInv, NoDanglingPointer
<1>4. InVariables \subseteq Named
    BY <1>1, NamedIsLed, LedHolds
<1>5. Named \subseteq Reachable
    <2>1. InVariables \subseteq Reachable
        BY <1>1, <1>2
    <2> QED
        BY <2>1, <1>2, NamedIsLed, LedIsLeast
<1> QED
    BY <1>2, <1>3, <1>4, <1>5

\* What holds the roots and all it points to, after a step, holds what is reachable.
LEMMA ReachableWithin ==
    ASSUME NEW S, S \subseteq alive', Roots' \subseteq S, \A x \in S : refs'[x] \subseteq S
    PROVE  Reachable' \subseteq S /\ \A x \in Reachable' : refs'[x] \subseteq alive'
<1>1. Reachable' = Led(alive', refs', Roots')
    BY DEF Reachable, Roots, From, Closed, Led
<1>2. Reachable' \subseteq S
    BY <1>1, LedIsLeast
<1> QED
    BY <1>2

-----------------------------------------------------------------------------
(* Every action keeps it                                                   *)

LEMMA HeapInitEstablishes == HeapInit => HeapIInv
<1> SUFFICES ASSUME HeapInit PROVE HeapIInv
    OBVIOUS
<1>1. IInv
    BY InitEstablishes DEF HeapInit
<1>2. HeapOK
    <2>1. TypeOK
        BY <1>1 DEF IInv
    <2>2. rootCount \in [Pages -> 0..MaxRoots]
        BY GcAssumption DEF HeapInit
    <2> QED
        BY <2>1, <2>2 DEF HeapInit, HeapOK, Pointer
<1>3. Walk
    <2> DEFINE rank == [p \in Pages |-> 0]
    <2>1. rank \in Ranks
        BY DEF Ranks
    <2>2. InSequence(alive, head, next, rank) /\ Swept(rank)
        BY DEF HeapInit, InSequence, Swept
    <2>3. Linkage(alive, head, next, prev)
        BY DEF HeapInit, Linkage
    <2> QED
        BY <2>1, <2>2, <2>3 DEF Walk
<1>4. Count
    <2>1. Words = {}
        BY DEF HeapInit, Words
    <2> QED
        BY <2>1, FS_EmptySet DEF HeapInit, Count
<1>5. NoDanglingPointer
    BY DEF HeapInit, NoDanglingPointer, Reachable, From
<1>6. NothingLeft /\ MarkIsExact
    BY DEF HeapInit, NothingLeft, MarkIsExact
<1> QED
    BY <1>1, <1>2, <1>3, <1>4, <1>5, <1>6 DEF HeapIInv

\* A step of the heap is a step of the table.
LEMMA TableKept == ASSUME HeapIInv, [HeapNext]_heapVars PROVE IInv'
<1>1. ASSUME NEW v \in Addresses, Declared(v), ~panicked PROVE [Next]_vars
    BY <1>1 DEF Declared, Next, table, vars
<1>2. ASSUME NEW v \in Addresses, Forget(v), ~panicked PROVE [Next]_vars
    BY <1>2 DEF Next
<1>3. UNCHANGED table => [Next]_vars
    BY DEF table, vars
<1>4. [Next]_vars
    <2>1. ASSUME NEW p \in Pages, NEW n \in Sizes, NEW v \in Addresses, Alloc(p, n, v), ~panicked
          PROVE  [Next]_vars
        BY <2>1, <1>1 DEF Alloc
    <2>2. ASSUME NEW o \in Pages, NEW p \in Pages, NEW q \in Pages, NEW n \in Sizes,
                 NEW kept \in SUBSET refs[p], Realloc(o, p, q, n, kept)
          PROVE  [Next]_vars
        BY <2>2, <1>3 DEF Realloc
    <2>3. ASSUME NEW v \in Addresses, NEW p \in Pointer, Assign(v, p), ~panicked
          PROVE  [Next]_vars
        BY <2>3, <1>1 DEF Assign
    <2>4. ASSUME NEW p \in Pages, NEW S \in SUBSET Pages, Store(p, S)
          PROVE  [Next]_vars
        BY <2>4, <1>3 DEF Store
    <2>5. ASSUME NEW p \in Pages, RememberObject(p) \/ ForgetObject(p)
          PROVE  [Next]_vars
        BY <2>5, <1>3 DEF RememberObject, ForgetObject
    <2>6. ASSUME NEW v \in Addresses, LeaveScope(v), ~panicked
          PROVE  [Next]_vars
        BY <2>6, <1>2 DEF LeaveScope
    <2>7. CASE CollectMark
        BY <2>7, <1>3 DEF CollectMark
    <2>8. CASE SweepFree
        BY <2>8, <1>3 DEF SweepFree
    <2>9. CASE SweepKeep
        BY <2>9, <1>3 DEF SweepKeep
    <2>10. CASE CollectEnd
        BY <2>10, <1>3 DEF CollectEnd
    <2>11. CASE UNCHANGED heapVars
        BY <2>11, <1>3 DEF heapVars
    <2> QED
        BY <2>1, <2>2, <2>3, <2>4, <2>5, <2>6, <2>7, <2>8, <2>9, <2>10, <2>11 DEF HeapNext
<1> QED
    BY <1>4, NextKeeps DEF HeapIInv

\* The list and the statistics as they were, with no sweep under way.
LEMMA ListAsBefore ==
    ASSUME HeapIInv, UNCHANGED <<alive, list, stats, cursor, sweeping>>, size' = size,
           ~sweeping
    PROVE  Walk' /\ Count' /\ MarkIsExact'
<1>1. Walk'
    BY DEF HeapIInv, Walk, list, Linkage, InSequence, Swept
<1>2. Count'
    <2>1. Words' = Words
        BY WordsAreOf
    <2> QED
        BY <2>1 DEF HeapIInv, Count, stats
<1> QED
    BY <1>1, <1>2 DEF MarkIsExact

\* A new page is first in the list and leads nowhere.
LEMMA AllocKeeps ==
    ASSUME HeapIInv, IInv', NEW p \in Pages, NEW n \in Sizes, NEW v \in Addresses, Alloc(p, n, v)
    PROVE  HeapIInv'
<1> USE DEF HeapIInv
<1>1. /\ p \notin alive /\ alive' = alive \cup {p} /\ n \in Nat /\ ~sweeping
      /\ size' = [size EXCEPT ![p] = n] /\ rootCount' = [rootCount EXCEPT ![p] = 0]
      /\ refs' = [refs EXCEPT ![p] = {}] /\ var' = [var EXCEPT ![v] = p]
      /\ nPages' = nPages + 1 /\ nBytes' = nBytes + n
      /\ head' = p /\ next' = [next EXCEPT ![p] = head]
      /\ prev' = [Linked(p) EXCEPT ![p] = Null]
      /\ UNCHANGED <<marked, cursor, sweeping>>
    BY GcAssumption DEF Alloc
<1>2. live' = live \cup {v}
    BY DEF Alloc, Declared, Remember, table
<1>3. /\ head \in Pointer /\ next \in Links /\ prev \in Links /\ alive \in SUBSET Pages
      /\ size \in [Pages -> Sizes \cup {0}] /\ rootCount \in [Pages -> 0..MaxRoots]
      /\ refs \in [Pages -> SUBSET Pages] /\ var \in [Addresses -> Pointer]
      /\ nPages \in Nat /\ nBytes \in Nat
    BY DEF HeapOK, Links
<1>4. Linked(p) = IF head = Null THEN prev ELSE [prev EXCEPT ![head] = p]
    BY DEF Linked
<1>5. HeapOK'
    <2>1. prev' \in [Pages -> Pointer]
        BY <1>1, <1>3, <1>4 DEF Links, Pointer
    <2>2. rootCount' \in [Pages -> 0..MaxRoots]
        BY <1>1, <1>3, GcAssumption
    <2>3. TypeOK'
        BY DEF IInv
    <2> QED
        BY <1>1, <1>3, <2>1, <2>2, <2>3 DEF HeapOK, Pointer, Links
<1>6. Walk'
    <2>1. PICK rank \in Ranks : InSequence(alive, head, next, rank)
        BY DEF Walk
    <2>2. Linkage(alive, head, next, prev) /\ p \in Pages \ alive
        BY <1>1 DEF Walk
    <2>3. prev' = [(IF head = Null THEN prev ELSE [prev EXCEPT ![head] = p]) EXCEPT ![p] = Null]
        BY <1>1, <1>4
    <2>4. next' = [next EXCEPT ![p] = head]
        BY <1>1
    <2>5. /\ Linkage(alive \cup {p}, p, next', prev')
          /\ \E new \in Ranks : InSequence(alive \cup {p}, p, next', new)
        BY <1>3, <2>1, <2>2, <2>3, <2>4, PutFirst
    <2> QED
        BY <2>5, <1>1 DEF Walk, Swept
<1>7. Count'
    <2>1. nPages' = Cardinality(alive')
        BY <1>1, <1>3, AliveFinite, FS_AddElement DEF Count
    <2>2. IsFiniteSet(WordsOf(alive, size)) /\ nBytes = Cardinality(WordsOf(alive, size))
        BY WordsAreOf DEF Count
    <2>3. /\ IsFiniteSet(WordsOf(alive \cup {p}, size'))
          /\ Cardinality(WordsOf(alive \cup {p}, size')) = Cardinality(WordsOf(alive, size)) + n
        <3>1. (\A x \in alive : size'[x] = size[x]) /\ size'[p] = n
            BY <1>1, <1>3
        <3>2. p \notin alive /\ n \in Nat
            BY <1>1
        <3> HIDE DEF HeapIInv
        <3> QED
            BY <3>1, <3>2, <2>2, BlockAdded
    <2> QED
        BY <2>1, <2>2, <2>3, <1>1, WordsAreOf DEF Count
<1>8. NoDanglingPointer'
    <2> DEFINE S == Reachable \cup {p}
    <2>1. S \subseteq alive'
        BY <1>1, ReachableHolds
    <2>2. Roots' \subseteq S
        <3>1. InVariables' \subseteq InVariables \cup {p}
            <4> SUFFICES ASSUME NEW w \in live', var'[w] \in alive', var'[w] # p
                         PROVE  var'[w] \in InVariables
                BY DEF InVariables
            <4>1. w \in Addresses /\ v \in Addresses
                BY <1>2 DEF HeapOK, TypeOK
            <4>2. w # v
                BY <1>1, <1>3
            <4>3. w \in live /\ var'[w] = var[w] /\ var[w] \in alive
                BY <4>1, <4>2, <1>1, <1>2, <1>3
            <4> QED
                BY <4>3 DEF InVariables
        <3>2. \A x \in alive' : rootCount'[x] > 0 => x \in alive /\ rootCount[x] > 0
            BY <1>1, <1>3
        <3> QED
            BY <3>1, <3>2, ReachableHolds DEF Roots
    <2>3. \A x \in S : refs'[x] \subseteq S
        BY <1>1, <1>3, ReachableHolds
    <2>4. \A x \in Reachable' : refs'[x] \subseteq alive'
        BY <2>1, <2>2, <2>3, ReachableWithin
    <2>5. \A w \in Addresses : var'[w] \in alive' \cup {Null}
        BY <1>1, <1>3 DEF NoDanglingPointer
    <2> QED
        BY <2>4, <2>5 DEF NoDanglingPointer
<1>9. NothingLeft' /\ MarkIsExact'
    BY <1>1, <1>2, <1>3 DEF NothingLeft, MarkIsExact
<1> QED
    BY <1>5, <1>6, <1>7, <1>8, <1>9

\* Its owner leads to a page wherever it is moved; nothing else pointed to it.
LEMMA ReallocKeeps ==
    ASSUME HeapIInv, IInv', NEW o \in Pages, NEW p \in Pages, NEW q \in Pages, NEW n \in Sizes,
           NEW kept \in SUBSET refs[p], Realloc(o, p, q, n, kept)
    PROVE  HeapIInv'
<1>1. /\ q = p \/ q \notin alive
      /\ alive' = (alive \ {p}) \cup {q} /\ n \in Nat /\ ~sweeping
      /\ size' = [[size EXCEPT ![p] = 0] EXCEPT ![q] = n]
      /\ refs' = [[[refs EXCEPT ![p] = {}] EXCEPT ![q] = kept] EXCEPT ![o] = (@ \ {p}) \cup {q}]
      /\ nBytes' = nBytes + n - size[p]
      /\ head' = IF head = p THEN q ELSE head
      /\ next' = Relinked(next, p, q) /\ prev' = Relinked(prev, p, q)
      /\ UNCHANGED <<rootCount, var, nPages, marked, cursor, sweeping, live>>
    BY GcAssumption DEF Realloc, Resized, table
<1>2. /\ o \in Named /\ p \in refs[o] /\ p # o
      /\ \A x \in alive \ {o} : p \notin refs[x]
      /\ p \notin InVariables /\ rootCount[p] = 0
    BY DEF Realloc, Owner
<1>3. /\ head \in Pointer /\ next \in Links /\ prev \in Links /\ alive \in SUBSET Pages
      /\ size \in [Pages -> Sizes \cup {0}] /\ rootCount \in [Pages -> 0..MaxRoots]
      /\ refs \in [Pages -> SUBSET Pages] /\ var \in [Addresses -> Pointer]
      /\ nPages \in Nat /\ nBytes \in Nat /\ live \subseteq Addresses
    BY DEF HeapIInv, HeapOK, Links, TypeOK
<1>4. /\ o \in Reachable /\ o \in alive /\ p \in Reachable /\ p \in alive
      /\ o # q /\ Null \notin Pages
    BY <1>1, <1>2, ReachableHolds, GcAssumption
<1>5. Walk'
    <2>1. PICK rank \in Ranks : InSequence(alive, head, next, rank)
        BY DEF Walk, HeapIInv
    <2>2. Linkage(alive, head, next, prev)
        BY DEF Walk, HeapIInv
    <2>3. /\ Linkage((alive \ {p}) \cup {q}, head', next', prev')
          /\ \E new \in Ranks : InSequence((alive \ {p}) \cup {q}, head', next', new)
        BY <1>1, <1>3, <1>4, <2>1, <2>2, Moved
    <2> QED
        BY <2>3, <1>1 DEF Walk, Swept
<1>6. size' \in [Pages -> Sizes \cup {0}] /\ size[p] \in Nat
    <2>1. size' \in [Pages -> Sizes \cup {0}]
        BY <1>1, <1>3
    <2>2. Sizes \cup {0} \subseteq Nat
        BY GcAssumption
    <2>3. size[p] \in Sizes \cup {0}
        BY <1>3
    <2> QED
        BY <2>1, <2>2, <2>3, Zenon
<1>7. Count'
    <2>1. Cardinality(alive') = Cardinality(alive)
        <3>1. IsFiniteSet(alive) /\ Cardinality(alive) \in Nat
            BY AliveFinite DEF HeapIInv
        <3>2. IsFiniteSet(alive \ {p}) /\ Cardinality(alive \ {p}) = Cardinality(alive) - 1
            BY <3>1, <1>4, FS_RemoveElement
        <3>3. q \notin alive \ {p}
            BY <1>1
        <3>4. Cardinality((alive \ {p}) \cup {q}) = Cardinality(alive \ {p}) + 1
            BY <3>2, <3>3, FS_AddElement
        <3>5. Cardinality((alive \ {p}) \cup {q}) = Cardinality(alive)
            BY <3>1, <3>2, <3>4
        <3> QED
            BY <3>5, <1>1
    <2>2. IsFiniteSet(WordsOf(alive, size)) /\ nBytes = Cardinality(WordsOf(alive, size))
        BY WordsAreOf DEF HeapIInv, Count
    <2>3. /\ IsFiniteSet(WordsOf(alive \ {p}, size))
          /\ Cardinality(WordsOf(alive \ {p}, size)) = Cardinality(WordsOf(alive, size)) - size[p]
        BY <2>2, <1>4, <1>6, BlockRemoved
    <2>4. /\ \A x \in alive \ {p} : size'[x] = size[x]
          /\ size'[q] = n
        BY <1>1, <1>3
    <2>5. q \notin alive \ {p} /\ n \in Nat
        BY <1>1
    <2>6. /\ IsFiniteSet(WordsOf((alive \ {p}) \cup {q}, size'))
          /\ Cardinality(WordsOf((alive \ {p}) \cup {q}, size')) =
                Cardinality(WordsOf(alive \ {p}, size)) + n
        BY <2>3, <2>4, <2>5, BlockAdded
    <2>7. IsFiniteSet(Words') /\ Cardinality(Words') = Cardinality(WordsOf(alive \ {p}, size)) + n
        BY <2>6, <1>1, WordsAreOf
    <2>8. nBytes' = Cardinality(Words')
        BY <2>2, <2>3, <2>7, <1>1, <1>3, <1>6
    <2> QED
        BY <2>1, <2>7, <2>8, <1>1 DEF HeapIInv, Count
<1>8. HeapOK'
    <2>1. next' \in [Pages -> Pointer] /\ prev' \in [Pages -> Pointer]
        BY <1>1, <1>3 DEF Relinked, Links, Pointer
    <2>2. refs' \in [Pages -> SUBSET Pages]
        BY <1>1, <1>3
    <2>3. TypeOK'
        BY DEF IInv
    <2>4. nBytes' \in Nat
        BY <1>7, FS_CardinalityType DEF Count
    <2> QED
        BY <1>1, <1>3, <1>6, <2>1, <2>2, <2>3, <2>4 DEF HeapIInv, HeapOK, Pointer
<1>9. NoDanglingPointer'
    <2> DEFINE S == (Reachable \ {p}) \cup {q}
    <2>1. S \subseteq alive'
        BY <1>1, ReachableHolds
    <2>2. \A w \in Addresses : var[w] \in alive \cup {Null}
        BY DEF HeapIInv, NoDanglingPointer
    <2>3. \A w \in live : var[w] # p
        BY <1>2, <1>4 DEF InVariables
    <2>4. \A w \in Addresses \ live : var[w] = Null
        BY DEF HeapIInv, NothingLeft
    <2>5. \A w \in Addresses : var'[w] \in alive' \cup {Null}
        BY <1>1, <1>3, <2>2, <2>3, <2>4
    <2>6. Roots' \subseteq S
        <3>1. InVariables' \subseteq InVariables \ {p}
            BY <1>1, <1>2, <1>3, <1>4, <2>2, <2>3 DEF InVariables
        <3>2. \A x \in alive' : rootCount'[x] > 0 => x \in alive \ {p} /\ rootCount[x] > 0
            <4>1. q # p => rootCount[q] = 0
                BY <1>1 DEF HeapIInv, NothingLeft
            <4> QED
                BY <4>1, <1>1, <1>2
        <3> QED
            BY <3>1, <3>2, ReachableHolds DEF Roots
    <2>7. \A x \in S : refs'[x] \subseteq S
        <3>1. kept \subseteq Reachable \ {p}
            BY <1>2, <1>4, ReachableHolds
        <3>2. refs'[q] = kept
            BY <1>1, <1>3, <1>4
        <3>3. refs'[o] = (refs[o] \ {p}) \cup {q}
            BY <1>1, <1>2, <1>3, <1>4
        <3>4. \A x \in S : x # q /\ x # o => refs'[x] = refs[x] /\ x \in alive \ {o}
            BY <1>1, <1>3, ReachableHolds
        <3> QED
            BY <3>1, <3>2, <3>3, <3>4, <1>2, <1>4, ReachableHolds
    <2>8. \A x \in Reachable' : refs'[x] \subseteq alive'
        BY <2>1, <2>6, <2>7, ReachableWithin
    <2> QED
        BY <2>5, <2>8 DEF NoDanglingPointer
<1>10. NothingLeft' /\ MarkIsExact'
    BY <1>1, <1>2, <1>3 DEF HeapIInv, NothingLeft, MarkIsExact
<1> QED
    BY <1>5, <1>7, <1>8, <1>9, <1>10 DEF HeapIInv

\* The program hands on only pages it can name.
LEMMA AssignKeeps ==
    ASSUME HeapIInv, IInv', NEW v \in Addresses, NEW p \in Pointer, Assign(v, p)
    PROVE  HeapIInv'
<1>1. /\ ~sweeping /\ p \in Named \cup {Null} /\ var' = [var EXCEPT ![v] = p]
      /\ live' = live \cup {v}
      /\ UNCHANGED <<alive, list, size, rootCount, refs, stats, marked, cursor, sweeping>>
    BY DEF Assign, Declared, Remember, table
<1>2. Walk' /\ Count' /\ MarkIsExact'
    BY <1>1, ListAsBefore
<1>3. var \in [Addresses -> Pointer] /\ live' \subseteq Addresses /\ rootCount' = rootCount /\ refs' = refs
      /\ alive' = alive
    BY <1>1 DEF HeapIInv, HeapOK, TypeOK, IInv
<1>4. HeapOK'
    BY <1>1, <1>3 DEF HeapIInv, HeapOK, IInv, list, stats
<1>5. NoDanglingPointer'
    <2>1. InVariables' \subseteq InVariables \cup Named
        <3> SUFFICES ASSUME NEW w \in live', var'[w] \in alive, w # v
                     PROVE  var'[w] \in InVariables
            BY <1>1, <1>3, GcAssumption DEF InVariables, HeapIInv, HeapOK
        <3>1. w \in live /\ var'[w] = var[w]
            BY <1>1, <1>3
        <3> QED
            BY <3>1 DEF InVariables
    <2>2. Roots' \subseteq Reachable
        BY <2>1, <1>3, ReachableHolds DEF Roots
    <2>3. \A x \in Reachable' : refs'[x] \subseteq alive'
        BY <2>2, <1>3, ReachableHolds, ReachableWithin
    <2>4. \A w \in Addresses : var'[w] \in alive' \cup {Null}
        BY <1>1, <1>3, ReachableHolds DEF HeapIInv, NoDanglingPointer
    <2> QED
        BY <2>3, <2>4 DEF NoDanglingPointer
<1>6. NothingLeft'
    BY <1>1, <1>3 DEF HeapIInv, NothingLeft
<1> QED
    BY <1>2, <1>4, <1>5, <1>6 DEF HeapIInv

\* A variable that leaves its scope is one root less.
LEMMA LeaveScopeKeeps ==
    ASSUME HeapIInv, IInv', NEW v \in Addresses, LeaveScope(v)
    PROVE  HeapIInv'
<1>1. /\ ~sweeping /\ var' = [var EXCEPT ![v] = Null] /\ live' = live \ {v}
      /\ UNCHANGED <<alive, list, size, rootCount, refs, stats, marked, cursor, sweeping>>
    BY DEF LeaveScope, Forget
<1>2. Walk' /\ Count' /\ MarkIsExact'
    BY <1>1, ListAsBefore
<1>3. var \in [Addresses -> Pointer] /\ live \subseteq Addresses /\ rootCount' = rootCount /\ refs' = refs
      /\ alive' = alive
    BY <1>1 DEF HeapIInv, HeapOK, TypeOK
<1>4. HeapOK'
    BY <1>1, <1>3 DEF HeapIInv, HeapOK, IInv, list, stats, Pointer
<1>5. NoDanglingPointer'
    <2>1. InVariables' \subseteq InVariables
        BY <1>1, <1>3 DEF InVariables
    <2>2. Roots' \subseteq Reachable
        BY <2>1, <1>3, ReachableHolds DEF Roots
    <2>3. \A x \in Reachable' : refs'[x] \subseteq alive'
        BY <2>2, <1>3, ReachableHolds, ReachableWithin
    <2>4. \A w \in Addresses : var'[w] \in alive' \cup {Null}
        BY <1>1, <1>3 DEF HeapIInv, NoDanglingPointer
    <2> QED
        BY <2>3, <2>4 DEF NoDanglingPointer
<1>6. NothingLeft'
    BY <1>1, <1>3 DEF HeapIInv, NothingLeft
<1> QED
    BY <1>2, <1>4, <1>5, <1>6 DEF HeapIInv

\* What is stored in a reachable page was reachable.
LEMMA StoreKeeps ==
    ASSUME HeapIInv, IInv', NEW p \in Pages, NEW S \in SUBSET Pages, Store(p, S)
    PROVE  HeapIInv'
<1>1. /\ ~sweeping /\ p \in Named /\ S \subseteq Named /\ refs' = [refs EXCEPT ![p] = S]
      /\ UNCHANGED <<alive, list, size, rootCount, var, stats, marked, cursor, sweeping, live>>
    BY DEF Store, table
<1>2. Walk' /\ Count' /\ MarkIsExact'
    BY <1>1, ListAsBefore
<1>3. refs \in [Pages -> SUBSET Pages] /\ rootCount' = rootCount /\ var' = var
      /\ alive' = alive /\ live' = live
    BY <1>1 DEF HeapIInv, HeapOK
<1>4. HeapOK'
    BY <1>1, <1>3 DEF HeapIInv, HeapOK, IInv, list, stats
<1>5. NoDanglingPointer'
    <2>1. Roots' \subseteq Reachable
        BY <1>3, ReachableHolds DEF Roots, InVariables
    <2>2. \A x \in Reachable : refs'[x] \subseteq Reachable
        <3> SUFFICES ASSUME NEW x \in Reachable PROVE refs'[x] \subseteq Reachable
            OBVIOUS
        <3>1. refs'[x] = IF x = p THEN S ELSE refs[x]
            BY <1>1, <1>3
        <3> QED
            BY <3>1, <1>1, ReachableHolds
    <2>3. \A x \in Reachable' : refs'[x] \subseteq alive'
        BY <2>1, <2>2, <1>3, ReachableHolds, ReachableWithin
    <2> QED
        BY <2>3, <1>3 DEF HeapIInv, NoDanglingPointer
<1>6. NothingLeft'
    BY <1>3 DEF HeapIInv, NothingLeft
<1> QED
    BY <1>2, <1>4, <1>5, <1>6 DEF HeapIInv

\* A root object is one the program could name.
LEMMA RootObjectKeeps ==
    ASSUME HeapIInv, IInv', NEW p \in Pages, RememberObject(p) \/ ForgetObject(p)
    PROVE  HeapIInv'
<1>1. /\ ~sweeping /\ p \in alive
      /\ \/ p \in Named /\ rootCount[p] < MaxRoots /\ rootCount' = [rootCount EXCEPT ![p] = @ + 1]
         \/ rootCount[p] > 0 /\ rootCount' = [rootCount EXCEPT ![p] = @ - 1]
      /\ UNCHANGED <<alive, list, size, refs, var, stats, marked, cursor, sweeping, live>>
    BY ReachableHolds DEF RememberObject, ForgetObject, table
<1>2. Walk' /\ Count' /\ MarkIsExact'
    BY <1>1, ListAsBefore
<1>3. rootCount \in [Pages -> 0..MaxRoots] /\ refs' = refs /\ var' = var
      /\ alive' = alive /\ live' = live
    BY <1>1 DEF HeapIInv, HeapOK
<1>4. HeapOK'
    <2>1. rootCount' \in [Pages -> 0..MaxRoots]
        BY <1>1, <1>3, GcAssumption
    <2> QED
        BY <1>1, <1>3, <2>1 DEF HeapIInv, HeapOK, IInv, list, stats
<1>5. NoDanglingPointer'
    <2>1. Roots' \subseteq Reachable
        <3>1. ASSUME NEW x \in alive, rootCount'[x] > 0 PROVE rootCount[x] > 0 \/ x \in Named
            <4>1. x \in Pages
                BY DEF HeapIInv, HeapOK
            <4> QED
                BY <4>1, <3>1, <1>1, <1>3
        <3> QED
            BY <3>1, <1>3, ReachableHolds DEF Roots, InVariables
    <2>2. \A x \in Reachable' : refs'[x] \subseteq alive'
        BY <2>1, <1>3, ReachableHolds, ReachableWithin
    <2> QED
        BY <2>2, <1>3 DEF HeapIInv, NoDanglingPointer
<1>6. NothingLeft'
    BY <1>1, <1>3 DEF HeapIInv, NothingLeft
<1> QED
    BY <1>2, <1>4, <1>5, <1>6 DEF HeapIInv

-----------------------------------------------------------------------------
(* A collection                                                            *)

\* The mark follows the table, which holds exactly the variables in scope.
LEMMA MarkKeeps == ASSUME HeapIInv, IInv', CollectMark PROVE HeapIInv'
<1>1. /\ marked' = From(RootObjects \cup InTable) /\ cursor' = head /\ sweeping'
      /\ UNCHANGED <<alive, head, next, prev, size, rootCount, refs, var, nPages, nBytes, live>>
    BY DEF CollectMark, list, heap, stats, table
<1>2. alive' = alive /\ refs' = refs /\ rootCount' = rootCount /\ var' = var /\ live' = live
    BY <1>1
<1>3. InTable = InVariables
    <2>1. \A i \in Used : slots[i].ptr \in live
        BY DEF HeapIInv, IInv, RootsAreLive
    <2>2. \A v \in live : \E i \in Used : slots[i].ptr = v
        BY DEF HeapIInv, IInv, RootsAreLive
    <2> QED
        BY <2>1, <2>2 DEF InTable, InVariables
<1>4. RootObjects = {p \in alive : rootCount[p] > 0}
    BY GcAssumption DEF RootObjects, HeapIInv, HeapOK
<1>5. marked' = Reachable
    BY <1>1, <1>3, <1>4, FromIsLed, ReachableIsLed DEF Roots
<1>6. Reachable' = Reachable
    BY <1>2 DEF Reachable, From, Closed, InVariables
<1>7. head \in alive \cup {Null} /\ (head = Null => alive = {})
    BY DEF HeapIInv, Walk, InSequence, Linkage
<1>8. Walk'
    <2>1. PICK rank \in Ranks : InSequence(alive, head, next, rank)
        BY DEF HeapIInv, Walk
    <2>2. \A p \in alive : head # Null => rank[head] <= rank[p] /\ rank[head] \in Int /\ rank[p] \in Int
        BY <2>1, <1>7, GcAssumption DEF InSequence, Ranks, HeapIInv, HeapOK
    <2>3. Swept(rank)'
        BY <2>2, <1>1, <1>7 DEF Swept
    <2>4. InSequence(alive, head, next, rank)' /\ Linkage(alive, head, next, prev)'
        BY <2>1, <1>1 DEF HeapIInv, Walk, InSequence, Linkage
    <2> QED
        BY <2>3, <2>4 DEF Walk
<1>9. Count'
    BY <1>1, WordsAreOf DEF HeapIInv, Count
<1>10. HeapOK'
    <2>1. marked' \subseteq Pages
        BY <1>5, ReachableHolds DEF HeapIInv, HeapOK
    <2> QED
        BY <2>1, <1>1 DEF HeapIInv, HeapOK, IInv
<1>11. NoDanglingPointer'
    BY <1>2, <1>6 DEF HeapIInv, NoDanglingPointer
<1>12. NothingLeft' /\ MarkIsExact'
    BY <1>1, <1>2, <1>5, <1>6, <1>7 DEF HeapIInv, NothingLeft, MarkIsExact
<1> QED
    BY <1>8, <1>9, <1>10, <1>11, <1>12 DEF HeapIInv

\* Freeing what is not reachable changes nothing of what is.
LEMMA FreeKeepsReachable ==
    ASSUME HeapIInv, SweepFree
    PROVE  /\ cursor \in alive /\ cursor \notin Reachable
           /\ Reachable' = Reachable
           /\ \A v \in Addresses : var[v] # cursor
<1>1. /\ sweeping /\ cursor \notin marked /\ cursor # Null
      /\ alive' = alive \ {cursor} /\ var' = var /\ live' = live
      /\ refs' = [refs EXCEPT ![cursor] = {}] /\ rootCount' = [rootCount EXCEPT ![cursor] = 0]
    BY DEF SweepFree, Forgotten, table
<1>2. cursor \in alive /\ cursor \notin Reachable
    BY <1>1 DEF HeapIInv, MarkIsExact
<1>3. /\ alive \subseteq Pages /\ refs \in [Pages -> SUBSET Pages]
      /\ rootCount \in [Pages -> 0..MaxRoots]
    BY DEF HeapIInv, HeapOK
<1>4. Roots' = Roots
    <2>1. cursor \notin InVariables /\ ~(rootCount[cursor] > 0)
        BY <1>2, ReachableHolds DEF Roots
    <2>2. InVariables' = InVariables
        BY <2>1, <1>1 DEF InVariables
    <2>3. {p \in alive : rootCount[p] > 0}' = {p \in alive : rootCount[p] > 0}
        BY <2>1, <1>1, <1>3
    <2> QED
        BY <2>2, <2>3 DEF Roots
<1>5. \A x \in Reachable : refs'[x] = refs[x]
    BY <1>1, <1>2, <1>3, ReachableHolds
<1>6. Reachable' \subseteq Reachable
    BY <1>1, <1>2, <1>4, <1>5, ReachableHolds, ReachableWithin
<1>7. Reachable \subseteq Reachable'
    <2>1. Reachable' = Led(alive', refs', Roots') /\ Roots' \subseteq alive'
        BY DEF Reachable, Roots, InVariables, From, Closed, Led
    <2>2. /\ Roots' \subseteq Reachable' /\ Reachable' \subseteq alive'
          /\ \A x \in Reachable' : refs'[x] \cap alive' \subseteq Reachable'
        BY <2>1, LedHolds
    <2>3. \A x \in Reachable' : refs[x] \subseteq Reachable'
        <3> SUFFICES ASSUME NEW x \in Reachable' PROVE refs[x] \subseteq Reachable'
            OBVIOUS
        <3>1. x \in Reachable /\ refs'[x] = refs[x]
            BY <1>5, <1>6
        <3>2. refs[x] \subseteq Reachable
            BY <3>1, ReachableHolds
        <3>3. refs[x] \subseteq alive'
            BY <3>2, <1>1, <1>2, ReachableHolds
        <3> QED
            BY <3>1, <3>3, <2>2
    <2>4. Reachable' \subseteq alive
        BY <2>2, <1>1
    <2> QED
        BY <2>2, <2>3, <2>4, <1>4, ReachableIsLed, LedIsLeast
<1>8. \A v \in Addresses : var[v] # cursor
    <2>1. \A v \in live : var[v] # cursor
        BY <1>2, ReachableHolds DEF InVariables
    <2>2. \A v \in Addresses \ live : var[v] = Null
        BY DEF HeapIInv, NothingLeft
    <2> QED
        BY <2>1, <2>2, <1>1
<1> QED
    BY <1>2, <1>6, <1>7, <1>8

\* The list closes over the page that goes, and the walk goes on behind it.
LEMMA FreeKeeps == ASSUME HeapIInv, IInv', SweepFree PROVE HeapIInv'
<1>1. /\ sweeping /\ cursor # Null
      /\ alive' = alive \ {cursor}
      /\ nPages' = nPages - 1 /\ nBytes' = nBytes - size[cursor]
      /\ cursor' = next[cursor]
      /\ size' = [size EXCEPT ![cursor] = 0]
      /\ refs' = [refs EXCEPT ![cursor] = {}] /\ rootCount' = [rootCount EXCEPT ![cursor] = 0]
      /\ var' = var /\ marked' = marked /\ sweeping' = sweeping /\ live' = live
    BY DEF SweepFree, Forgotten, table
<1>2. /\ cursor \in alive /\ cursor \in Pages /\ cursor \notin Reachable /\ Reachable' = Reachable
      /\ \A v \in Addresses : var[v] # cursor
    BY FreeKeepsReachable DEF HeapIInv, HeapOK
<1>3. /\ head \in Pointer /\ next \in Links /\ prev \in Links /\ alive \in SUBSET Pages
      /\ size \in [Pages -> Sizes \cup {0}] /\ rootCount \in [Pages -> 0..MaxRoots]
      /\ refs \in [Pages -> SUBSET Pages] /\ nPages \in Nat /\ nBytes \in Nat
    BY DEF HeapIInv, HeapOK, Links
<1>4. /\ head' = IF prev[cursor] = Null THEN next[cursor] ELSE head
      /\ next' = [(IF prev[cursor] = Null THEN next ELSE [next EXCEPT ![prev[cursor]] = next[cursor]])
                      EXCEPT ![cursor] = Null]
    BY DEF SweepFree
<1>5. prev' = [(IF next[cursor] = Null THEN prev ELSE [prev EXCEPT ![next[cursor]] = prev[cursor]])
                  EXCEPT ![cursor] = Null]
    BY DEF SweepFree, Unlinked
<1>6. Linkage(alive, head, next, prev)
    BY DEF HeapIInv, Walk
<1>7. PICK rank \in Ranks : InSequence(alive, head, next, rank) /\ Swept(rank)
    BY DEF HeapIInv, Walk
<1>8. /\ Linkage(alive \ {cursor}, head', next', prev')
      /\ InSequence(alive \ {cursor}, head', next', rank)
      /\ next[cursor] \in (alive \ {cursor}) \cup {Null}
    <2>1. /\ cursor \in alive /\ alive \in SUBSET Pages /\ head \in Pointer
          /\ next \in Links /\ prev \in Links /\ rank \in Ranks
          /\ InSequence(alive, head, next, rank)
        BY <1>2, <1>3, <1>7
    <2>2. \A r \in alive \ {cursor} : next'[r] = IF r = prev[cursor] THEN next[cursor] ELSE next[r]
        BY <1>3, <1>4, GcAssumption DEF Links
    <2>3. \A r \in alive \ {cursor} : prev'[r] = IF r = next[cursor] THEN prev[cursor] ELSE prev[r]
        BY <1>3, <1>5, GcAssumption DEF Links
    <2>4. Without(alive, cursor, head, next, prev, head', next', prev')
        BY <2>2, <2>3, <1>4 DEF Without
    <2> QED
        BY <2>1, <2>4, <1>6, TakeOut
<1>9. Walk'
    <2>1. ASSUME NEW p \in alive', cursor' = Null \/ rank[p] < rank[cursor'] PROVE p \in marked'
        <3>1. p \in alive /\ p # cursor /\ rank[p] \in Int /\ rank[cursor] \in Int
            BY <1>1, <1>2, <1>3 DEF Ranks
        <3>2. rank[p] # rank[cursor]
            BY <3>1, <1>2, <1>7 DEF InSequence
        <3>3. CASE next[cursor] = Null
            BY <3>1, <3>2, <3>3, <1>1, <1>2, <1>7 DEF InSequence, Swept
        <3>4. CASE next[cursor] # Null
            <4>1. rank[p] < rank[next[cursor]] /\ rank[next[cursor]] \in Int
                BY <3>4, <2>1, <1>1, <1>3, <1>8 DEF Ranks
            <4>2. rank[cursor] < rank[p] => rank[next[cursor]] <= rank[p]
                BY <3>1, <3>4, <1>2, <1>7 DEF InSequence
            <4>3. rank[p] < rank[cursor]
                BY <4>1, <4>2, <3>1, <3>2
            <4> QED
                BY <4>3, <3>1, <1>1, <1>7 DEF Swept
        <3> QED
            BY <3>3, <3>4
    <2>2. Swept(rank)'
        BY <2>1 DEF Swept
    <2> QED
        BY <2>2, <1>1, <1>8 DEF Walk
<1>10. Count'
    <2>1. nPages' = Cardinality(alive')
        BY <1>1, <1>2, AliveFinite, FS_RemoveElement DEF HeapIInv, Count
    <2>2. IsFiniteSet(WordsOf(alive, size)) /\ nBytes = Cardinality(WordsOf(alive, size))
        BY WordsAreOf DEF HeapIInv, Count
    <2>3. size[cursor] \in Nat
        <3>1. Sizes \cup {0} \subseteq Nat
            BY GcAssumption
        <3>2. size[cursor] \in Sizes \cup {0}
            BY <1>2, <1>3
        <3> QED
            BY <3>1, <3>2, Zenon
    <2>4. \A x \in alive \ {cursor} : size'[x] = size[x]
        BY <1>1, <1>3
    <2>5. /\ IsFiniteSet(WordsOf(alive \ {cursor}, size'))
          /\ Cardinality(WordsOf(alive \ {cursor}, size')) =
                Cardinality(WordsOf(alive, size)) - size[cursor]
        BY <2>2, <2>3, <2>4, <1>2, BlockRemoved
    <2> QED
        BY <2>1, <2>2, <2>5, <1>1, WordsAreOf DEF Count
<1>11. HeapOK'
    <2>1. next' \in [Pages -> Pointer] /\ head' \in Pointer
        BY <1>2, <1>3, <1>4 DEF Links, Pointer
    <2>2. prev' \in [Pages -> Pointer]
        BY <1>2, <1>3, <1>5 DEF Links, Pointer
    <2>3. TypeOK'
        BY DEF IInv
    <2>4. nPages' \in Nat /\ nBytes' \in Nat
        <3>1. IsFiniteSet(alive')
            BY <1>1, <1>3, GcAssumption, FS_Subset
        <3> QED
            BY <3>1, <1>10, FS_CardinalityType DEF Count
    <2>5. rootCount' \in [Pages -> 0..MaxRoots] /\ size' \in [Pages -> Sizes \cup {0}]
        <3>1. 0 \in 0..MaxRoots
            BY GcAssumption
        <3>2. size' \in [Pages -> Sizes \cup {0}]
            BY <1>1, <1>3
        <3> QED
            BY <3>1, <3>2, <1>1, <1>3
    <2>6. cursor' \in Pointer
        BY <1>1, <1>3, <1>8 DEF Pointer
    <2> QED
        BY <1>1, <1>3, <2>1, <2>2, <2>3, <2>4, <2>5, <2>6 DEF HeapIInv, HeapOK
<1>12. NoDanglingPointer'
    <2>1. \A w \in Addresses : var'[w] \in alive' \cup {Null}
        BY <1>1, <1>2 DEF HeapIInv, NoDanglingPointer
    <2>2. \A x \in Reachable' : refs'[x] \subseteq alive'
        <3> SUFFICES ASSUME NEW x \in Reachable PROVE refs'[x] \subseteq alive'
            BY <1>2
        <3>1. refs'[x] = refs[x]
            BY <1>1, <1>2, <1>3, ReachableHolds
        <3> QED
            BY <3>1, <1>1, <1>2, ReachableHolds
    <2> QED
        BY <2>1, <2>2 DEF NoDanglingPointer
<1>13. NothingLeft'
    BY <1>1, <1>2, <1>3 DEF HeapIInv, NothingLeft
<1>14. MarkIsExact'
    BY <1>1, <1>2, <1>8 DEF HeapIInv, MarkIsExact
<1> QED
    BY <1>9, <1>10, <1>11, <1>12, <1>13, <1>14 DEF HeapIInv

LEMMA SweepKeepKeeps == ASSUME HeapIInv, IInv', SweepKeep PROVE HeapIInv'
<1>1. /\ sweeping /\ cursor # Null /\ cursor \in marked /\ cursor' = next[cursor]
      /\ UNCHANGED <<alive, head, next, prev, size, rootCount, refs, var, nPages, nBytes,
                     marked, sweeping, live>>
    BY DEF SweepKeep, list, heap, stats, table
<1>2. cursor \in alive /\ next[cursor] \in alive \cup {Null}
    BY <1>1 DEF HeapIInv, MarkIsExact, Walk, Linkage
<1>3. alive \subseteq Pages
    BY DEF HeapIInv, HeapOK
<1>4. Walk'
    <2>1. PICK rank \in Ranks : InSequence(alive, head, next, rank) /\ Swept(rank)
        BY DEF HeapIInv, Walk
    <2>2. ASSUME NEW p \in alive, next[cursor] = Null \/ rank[p] < rank[next[cursor]]
          PROVE  p \in marked
        <3>1. rank[p] \in Int /\ rank[cursor] \in Int
            BY <1>2, <1>3 DEF Ranks
        <3>2. next[cursor] # Null => rank[next[cursor]] \in Int
            BY <1>2, <1>3 DEF Ranks
        <3>3. next[cursor] = Null => rank[p] <= rank[cursor]
            BY <2>1, <1>2 DEF InSequence
        <3>4. next[cursor] # Null /\ rank[cursor] < rank[p] => rank[next[cursor]] <= rank[p]
            BY <2>1, <1>2 DEF InSequence
        <3>5. rank[p] = rank[cursor] \/ rank[p] < rank[cursor]
            BY <3>1, <3>2, <3>3, <3>4, <2>2
        <3>6. rank[p] = rank[cursor] => p = cursor
            BY <2>1, <1>2 DEF InSequence
        <3> QED
            BY <3>5, <3>6, <2>1, <1>1 DEF Swept
    <2>3. Swept(rank)'
        BY <2>2, <1>1 DEF Swept
    <2>4. InSequence(alive, head, next, rank)' /\ Linkage(alive, head, next, prev)'
        BY <2>1, <1>1 DEF HeapIInv, Walk, InSequence, Linkage
    <2> QED
        BY <2>3, <2>4 DEF Walk
<1>5. Count'
    BY <1>1, WordsAreOf DEF HeapIInv, Count
<1>6. HeapOK'
    BY <1>1, <1>2, <1>3 DEF HeapIInv, HeapOK, IInv, Pointer
<1>7. alive' = alive /\ refs' = refs /\ rootCount' = rootCount /\ var' = var /\ live' = live
    BY <1>1
<1>8. Reachable' = Reachable
    BY <1>7 DEF Reachable, From, Closed, InVariables
<1>9. NoDanglingPointer' /\ NothingLeft' /\ MarkIsExact'
    BY <1>1, <1>2, <1>7, <1>8 DEF HeapIInv, NoDanglingPointer, NothingLeft, MarkIsExact
<1> QED
    BY <1>4, <1>5, <1>6, <1>9 DEF HeapIInv

LEMMA EndKeeps == ASSUME HeapIInv, IInv', CollectEnd PROVE HeapIInv'
<1>1. /\ ~sweeping' /\ marked' = {}
      /\ UNCHANGED <<alive, head, next, prev, size, rootCount, refs, var, nPages, nBytes, cursor, live>>
    BY DEF CollectEnd, list, heap, stats, table
<1>2. alive' = alive /\ refs' = refs /\ rootCount' = rootCount /\ var' = var /\ live' = live
    BY <1>1
<1>3. Reachable' = Reachable
    BY <1>2 DEF Reachable, From, Closed, InVariables
<1>4. Walk'
    BY <1>1 DEF HeapIInv, Walk, InSequence, Linkage, Swept
<1>5. Count'
    BY <1>1, WordsAreOf DEF HeapIInv, Count
<1>6. HeapOK'
    <2>1. TypeOK' /\ sweeping' \in BOOLEAN
        BY DEF IInv, CollectEnd
    <2> QED
        BY <2>1, <1>1 DEF HeapIInv, HeapOK
<1>7. NoDanglingPointer' /\ NothingLeft' /\ MarkIsExact'
    BY <1>1, <1>2, <1>3 DEF HeapIInv, NoDanglingPointer, NothingLeft, MarkIsExact
<1> QED
    BY <1>4, <1>5, <1>6, <1>7 DEF HeapIInv

LEMMA IdleKeeps == ASSUME HeapIInv, IInv', UNCHANGED heapVars PROVE HeapIInv'
<1>1. UNCHANGED <<alive, head, next, prev, size, rootCount, refs, var, nPages, nBytes,
                  marked, cursor, sweeping, live>>
    BY DEF heapVars, list, heap, stats, table
<1>2. alive' = alive /\ refs' = refs /\ rootCount' = rootCount /\ var' = var /\ live' = live
    BY <1>1
<1>3. Reachable' = Reachable
    BY <1>2 DEF Reachable, From, Closed, InVariables
<1>4. Walk'
    BY <1>1 DEF HeapIInv, Walk, InSequence, Linkage, Swept
<1>5. Count'
    BY <1>1, WordsAreOf DEF HeapIInv, Count
<1>6. HeapOK'
    BY <1>1 DEF HeapIInv, HeapOK, IInv
<1>7. NoDanglingPointer' /\ NothingLeft' /\ MarkIsExact'
    BY <1>1, <1>2, <1>3 DEF HeapIInv, NoDanglingPointer, NothingLeft, MarkIsExact
<1> QED
    BY <1>4, <1>5, <1>6, <1>7 DEF HeapIInv

LEMMA HeapNextKeeps == HeapIInv /\ [HeapNext]_heapVars => HeapIInv'
<1> SUFFICES ASSUME HeapIInv, [HeapNext]_heapVars PROVE HeapIInv'
    OBVIOUS
<1>1. IInv'
    BY TableKept
<1> QED
    BY <1>1, AllocKeeps, ReallocKeeps, AssignKeeps, LeaveScopeKeeps, StoreKeeps, RootObjectKeeps,
       MarkKeeps, FreeKeeps, SweepKeepKeeps, EndKeeps, IdleKeeps DEF HeapNext

-----------------------------------------------------------------------------
(* What follows                                                            *)

THEOREM HeapInvariance == HeapSpec => []HeapIInv
    BY HeapInitEstablishes, HeapNextKeeps, PTL DEF HeapSpec

\* The list of pages stays doubly linked and holds exactly the pages in use, the
\* statistics count them, and nothing the program can reach has been freed
\* (eyot-runtime-gc.c:161-341).
THEOREM HeapStaysSound == HeapSpec => []HeapIsSound
    BY HeapInvariance, HeapIInvIsSound, PTL

\* With the heap in use the table still holds exactly the variables in scope, and
\* forgetting one never ends the program.
THEOREM HeapTableIsExact == HeapSpec => [](RootsAreLive /\ ForgetFinds)
<1>1. HeapIInv => RootsAreLive /\ ForgetFinds
    BY DEF HeapIInv, IInv
<1> QED
    BY <1>1, HeapInvariance, PTL

\* A sweep frees no page that is reachable, and when it ends only those are left.
LEMMA SweepIsExact ==
    ASSUME HeapIInv, HeapIInv', [HeapNext]_heapVars, sweeping
    PROVE  /\ (alive \ alive') \cap Reachable = {}
           /\ ~sweeping' => alive' = Reachable'
<1>1. CASE SweepFree
    <2>1. alive \ alive' \subseteq {cursor} /\ sweeping'
        BY <1>1 DEF SweepFree
    <2> QED
        BY <1>1, <2>1, FreeKeepsReachable
<1>2. CASE SweepKeep
    BY <1>2 DEF SweepKeep
<1>3. CASE CollectEnd
    <2>1. cursor = Null /\ alive' = alive /\ refs' = refs /\ rootCount' = rootCount
          /\ var' = var /\ live' = live
        BY <1>3 DEF CollectEnd, heap, table
    <2>2. alive \subseteq marked
        BY <2>1 DEF HeapIInv, Walk, Swept
    <2>3. alive = Reachable
        BY <2>2, ReachableHolds DEF HeapIInv, MarkIsExact
    <2>4. Reachable' = Reachable
        BY <2>1 DEF Reachable, From, Closed, InVariables
    <2> QED
        BY <2>1, <2>3, <2>4
<1>4. CASE UNCHANGED heapVars
    BY <1>4 DEF heapVars
<1> QED
    BY <1>1, <1>2, <1>3, <1>4
       DEF HeapNext, Alloc, Realloc, Assign, LeaveScope, Store, RememberObject, ForgetObject, CollectMark

\* A collection frees everything the program can no longer reach and nothing it
\* still can (ey_runtime_gc_collect).
THEOREM CollectionsAreExact == HeapSpec => CollectionIsExact
<1>1. HeapIInv /\ HeapIInv' /\ [HeapNext]_heapVars
        => [sweeping => /\ (alive \ alive') \cap Reachable = {}
                        /\ ~sweeping' => alive' = Reachable']_heapVars
    BY SweepIsExact
<1> QED
    BY <1>1, HeapInvariance, PTL DEF HeapSpec, CollectionIsExact

-----------------------------------------------------------------------------
(* The roots that generated code keeps (module RootScopes)                 *)

\* Blocks are nested in a function, their addresses exist, and no block
\* declares a name twice.
BlocksShape ==
    /\ CodeTypeOK /\ Top <= MaxBlocks
    /\ Top > 0 => blocks[1].kind = "function"
    /\ returning => Top > 0
    /\ ~returning => operand = NoObject
    /\ \A b \in 1..Top : Len(Locals(b)) <= MaxVars
    /\ \A b \in 1..Top : \A i, j \in 1..Len(Locals(b)) :
          Locals(b)[i].name = Locals(b)[j].name => i = j

\* No name of a function hides another of it.
NoHiding ==
    "shadow" \notin features =>
      \A b, c \in 1..Top :
         b < c /\ (\A d \in (b + 1)..c : blocks[d].kind # "function") =>
           \A i \in 1..Len(Locals(b)), j \in 1..Len(Locals(c)) :
              Locals(b)[i].name # Locals(c)[j].name

\* What is pinned: the pointers that are declared.  Types that contain pointers
\* and iterators come with features of their own.
VariableKind(b, i) ==
    /\ Locals(b)[i].pinned <=> Locals(b)[i].type = "pointer" /\ ~Locals(b)[i].bound
    /\ "struct" \notin features => Locals(b)[i].type = "pointer"
    /\ Locals(b)[i].bound /\ "unheld" \notin features => blocks[b].kind = "function"

VariableKinds == \A b \in 1..Top : \A i \in 1..Len(Locals(b)) : VariableKind(b, i)

\* A parameter has its object from a variable that is declared further out,
\* which nobody assigns before the function is left.
Lent ==
    features \cap {"struct", "unheld"} = {} =>
      \A a \in InScope : Locals(a[1])[a[2]].bound =>
         memory[a] = NoObject \/ \E p \in Pinned : p[1] < a[1] /\ memory[p] = memory[a]

\* The function that returns has given up its variables.
RootedNow == {a \in Pinned : returning => a[1] < FunctionBase}

\* ... and every other one that is a pointer has an entry in use.
AllRooted == \A a \in RootedNow : RootsAt(a) # {}

\* No other address is in use, and each entry in use is the one that is found.
OnlyThoseRooted ==
    features \cap {"break", "shadow"} = {} =>
      \A i \in 1..Len(entries) :
         entries[i].inUse => entries[i].ptr \in RootedNow /\ IsFirst(entries, i)

\* The inductive invariant.  A block forgets by name, so it must be known that a
\* name means the variable of the block; a return forgets before it leaves, so
\* that the properties, which leave out the time between, do not carry over it; and
\* a parameter is no root, so that its object must be known to be a variable's.
RootedInv == /\ BlocksShape /\ NoHiding /\ VariableKinds /\ Lent
             /\ AllRooted /\ OnlyThoseRooted /\ CodeForgetFinds /\ VariablesAlive

-----------------------------------------------------------------------------
(* Least and greatest numbers                                              *)

LEMMA Smallest ==
    ASSUME NEW S \in SUBSET Nat, S # {}
    PROVE  Min(S) \in S /\ \A y \in S : Min(S) <= y
<1> DEFINE R == OpToRel(<, Nat)
<1>1. \A x, y \in Nat : y < x => <<y, x>> \in R
    BY DEF OpToRel
<1>2. IsWellFoundedOn(R, Nat)
    BY NatLessThanWellFounded
<1> HIDE DEF R
<1>3. PICK x \in S : \A y \in S : ~ (<<y, x>> \in R)
    BY <1>2, WFMin
<1>4. ASSUME NEW y \in S PROVE x <= y
  <2>1. x \in Nat /\ y \in Nat /\ ~ (y < x)
      BY <1>1, <1>3
  <2> QED
      BY <2>1
<1>5. \E z \in S : \A y \in S : z <= y
    BY <1>4
<1> QED
    BY <1>5 DEF Min

LEMMA Greatest ==
    ASSUME NEW n \in Nat, NEW S \in SUBSET (0..n), S # {}
    PROVE  Max(S) \in S /\ \A y \in S : y <= Max(S)
<1> DEFINE D == {k \in 0..n : n - k \in S}
<1>1. D \in SUBSET Nat /\ D # {}
  <2>1. PICK x \in S : TRUE
      OBVIOUS
  <2>2. x \in 0..n
      OBVIOUS
  <2>3. n - x \in 0..n /\ n - (n - x) = x
      BY <2>2
  <2>4. n - x \in D /\ D \subseteq Nat
      BY <2>3
  <2> HIDE DEF D
  <2> QED
      BY <2>4
<1>2. PICK m : m = Min(D)
    OBVIOUS
<1>3. m \in D /\ \A k \in D : m <= k
  <2> HIDE DEF D
  <2> QED
      BY <1>1, <1>2, Smallest
<1>4. n - m \in S /\ m \in 0..n
    BY <1>3
<1>5. ASSUME NEW y \in S PROVE n - m >= y
  <2>1. y \in 0..n /\ n - y \in 0..n /\ n - (n - y) = y
      OBVIOUS
  <2>2. n - y \in D
      BY <2>1
  <2>3. m <= n - y
      BY <1>3, <2>2
  <2> QED
      BY <1>4, <2>1, <2>3
<1>6. \E x \in S : \A y \in S : x >= y
    BY <1>4, <1>5
<1>7. Max(S) \in S /\ \A y \in S : Max(S) >= y
    BY <1>6 DEF Max
<1> QED
    BY <1>7

-----------------------------------------------------------------------------
(* The table, as the generated code uses it                                *)

\* The entries of the table.
CodeSlot == [inUse : BOOLEAN, ptr : StackAddresses]

LEMMA ForgottenSpec ==
    ASSUME NEW t \in Seq(CodeSlot), NEW A, NEW f, f = ForgottenAll(t, A)
    PROVE  /\ f \in Seq(CodeSlot) /\ Len(f) = Len(t)
           /\ \A i \in 1..Len(t) :
                /\ f[i].ptr = t[i].ptr
                /\ f[i].inUse <=> t[i].inUse /\ ~ (t[i].ptr \in A /\ IsFirst(t, i))
<1>1. Len(t) \in Nat /\ \A i \in 1..Len(t) : t[i] \in CodeSlot
    BY LenProperties, ElementOfSeq
<1>2. f = [i \in 1..Len(t) |-> IF t[i].ptr \in A /\ IsFirst(t, i)
                               THEN [inUse |-> FALSE, ptr |-> t[i].ptr] ELSE t[i]]
    BY DEF ForgottenAll
<1>3. ASSUME NEW i \in 1..Len(t)
      PROVE  /\ f[i] \in CodeSlot /\ f[i].ptr = t[i].ptr
             /\ f[i].inUse <=> t[i].inUse /\ ~ (t[i].ptr \in A /\ IsFirst(t, i))
  <2>1. CASE t[i].ptr \in A /\ IsFirst(t, i)
    <3>1. f[i] = [inUse |-> FALSE, ptr |-> t[i].ptr]
        BY <1>2, <2>1
    <3> QED
        BY <1>1, <2>1, <3>1 DEF CodeSlot
  <2>2. CASE ~ (t[i].ptr \in A /\ IsFirst(t, i))
    <3>1. f[i] = t[i]
        BY <1>2, <2>2
    <3> QED
        BY <1>1, <2>2, <3>1
  <2> QED
      BY <2>1, <2>2
<1>4. f \in [1..Len(t) -> CodeSlot]
    BY <1>2, <1>3
<1>5. f \in Seq(CodeSlot) /\ Len(f) = Len(t)
    BY <1>1, <1>4
<1> QED
    BY <1>3, <1>5

\* The entry k of r is new, the others are those of t.
EntryAt(r, t, a, k) ==
    /\ k \in 1..Len(r) /\ r[k] = EntryFor(a)
    /\ \A i \in 1..Len(r) : i # k => i \in 1..Len(t) /\ r[i] = t[i]
    /\ k \in 1..Len(t) => ~ t[k].inUse
    /\ \A i \in 1..(k - 1) : i \in 1..Len(t) /\ t[i].inUse

LEMMA RememberedSpec ==
    ASSUME NEW t \in Seq(CodeSlot), NEW a \in StackAddresses, NEW r, r = Remembered(t, a)
    PROVE  /\ r \in Seq(CodeSlot) /\ Len(t) <= Len(r)
           /\ \E k : EntryAt(r, t, a, k)
<1> DEFINE n == Len(t)
           free == {i \in 1..n : ~t[i].inUse}
<1>1. n \in Nat /\ \A i \in 1..n : t[i] \in CodeSlot
    BY LenProperties, ElementOfSeq
<1>2. EntryFor(a) \in CodeSlot
    BY DEF EntryFor, CodeSlot
<1>3. r = IF free = {} THEN Append(t, EntryFor(a)) ELSE [t EXCEPT ![Min(free)] = EntryFor(a)]
    BY DEF Remembered
<1>4. CASE free = {}
  <2>1. r = Append(t, EntryFor(a))
      BY <1>3, <1>4
  <2>2. /\ r \in Seq(CodeSlot) /\ Len(r) = n + 1 /\ r[n + 1] = EntryFor(a)
        /\ \A i \in 1..n : r[i] = t[i]
      BY <1>2, <2>1, AppendProperties
  <2>3. \A i \in 1..n : t[i].inUse
      BY <1>4
  <2>4. n + 1 \in 1..Len(r) /\ ~ (n + 1 \in 1..n) /\ \A i \in 1..Len(r) : i # n + 1 => i \in 1..n
      BY <1>1, <2>2
  <2>5. \A i \in 1..((n + 1) - 1) : i \in 1..n
      BY <1>1
  <2>6. EntryAt(r, t, a, n + 1)
      BY <2>2, <2>3, <2>4, <2>5 DEF EntryAt
  <2> QED
      BY <1>1, <2>2, <2>6
<1>5. CASE free # {}
  <2>1. PICK k : k = Min(free)
      OBVIOUS
  <2>2. free \in SUBSET Nat
      OBVIOUS
  <2>3. k \in free /\ \A i \in free : k <= i
    <3> HIDE DEF free
    <3> QED
        BY <1>5, <2>1, <2>2, Smallest
  <2>4. k \in 1..n /\ ~ t[k].inUse
      BY <2>3
  <2>5. ASSUME NEW i \in 1..(k - 1) PROVE i \in 1..n /\ t[i].inUse
    <3>1. i \in 1..n /\ ~ (k <= i)
        BY <1>1, <2>4
    <3> QED
        BY <2>3, <3>1
  <2>6. r = [t EXCEPT ![k] = EntryFor(a)]
      BY <1>3, <1>5, <2>1
  <2>7. /\ r \in Seq(CodeSlot) /\ Len(r) = n /\ r[k] = EntryFor(a)
        /\ \A i \in 1..n : i # k => r[i] = t[i]
      BY <1>2, <2>4, <2>6, ExceptSeq
  <2>8. EntryAt(r, t, a, k)
      BY <2>4, <2>5, <2>7 DEF EntryAt
  <2> QED
      BY <1>1, <2>7, <2>8
<1> QED
    BY <1>4, <1>5

-----------------------------------------------------------------------------
(* Blocks and names                                                        *)

\* The blocks on the stack.
CodeBlock == [kind : Kinds, locals : Seq(Variable)]

LEMMA CodeTyped ==
    ASSUME CodeTypeOK
    PROVE  /\ blocks \in Seq(CodeBlock) /\ Top \in Nat
           /\ \A b \in 1..Top : /\ blocks[b] \in CodeBlock /\ Locals(b) \in Seq(Variable)
                                /\ Len(Locals(b)) \in Nat
                                /\ \A i \in 1..Len(Locals(b)) : Locals(b)[i] \in Variable
           /\ entries \in Seq(CodeSlot) /\ Len(entries) \in Nat
           /\ \A i \in 1..Len(entries) : entries[i] \in CodeSlot
<1>1. blocks \in Seq(CodeBlock) /\ Top \in Nat /\ entries \in Seq(CodeSlot) /\ Len(entries) \in Nat
    BY LenProperties DEF CodeTypeOK, Top, CodeBlock, CodeSlot
<1>2. \A b \in 1..Top : blocks[b] \in CodeBlock
    BY <1>1, ElementOfSeq DEF Top
<1>3. \A b \in 1..Top : Locals(b) \in Seq(Variable)
    BY <1>2 DEF Locals, CodeBlock
<1>4. \A b \in 1..Top :
         /\ Len(Locals(b)) \in Nat
         /\ \A i \in 1..Len(Locals(b)) : Locals(b)[i] \in Variable
    BY <1>3, LenProperties, ElementOfSeq
<1>5. \A i \in 1..Len(entries) : entries[i] \in CodeSlot
    BY <1>1, ElementOfSeq
<1> QED
    BY <1>1, <1>2, <1>3, <1>4, <1>5

LEMMA BaseSpec ==
    ASSUME BlocksShape, Top > 0
    PROVE  /\ FunctionBase \in 1..Top /\ blocks[FunctionBase].kind = "function"
           /\ \A b \in (FunctionBase + 1)..Top : blocks[b].kind # "function"
<1> DEFINE F == {b \in 1..Top : blocks[b].kind = "function"}
<1>1. Top \in Nat /\ 1 \in F
    BY CodeTyped DEF BlocksShape
<1>2. F \in SUBSET (0..Top) /\ F # {}
    BY <1>1
<1>3. FunctionBase = Max(F)
    BY DEF FunctionBase
<1>4. FunctionBase \in F /\ \A y \in F : y <= FunctionBase
  <2> HIDE DEF F
  <2> QED
      BY <1>1, <1>2, <1>3, Greatest
<1>5. ASSUME NEW b \in (FunctionBase + 1)..Top PROVE b \notin F /\ b \in 1..Top
    BY <1>1, <1>4
<1> QED
    BY <1>4, <1>5

\* What a name of the function means: the innermost variable with the name,
\* which is this one in the innermost block, or where no name is hidden.
LEMMA ResolveSpec ==
    ASSUME BlocksShape, NoHiding, Top > 0, NEW b \in FunctionBase..Top,
           NEW i \in 1..Len(Locals(b)), NEW name, name = Locals(b)[i].name
    PROVE  \E c \in FunctionBase..Top : \E k \in 1..Len(Locals(c)) :
              /\ Resolve(name) = <<c, k>> /\ Locals(c)[k].name = name
              /\ b <= c /\ (c = b => k = i)
              /\ b = Top \/ "shadow" \notin features => c = b /\ k = i
<1> DEFINE D == {c \in FunctionBase..Top : Declares(c, name)}
<1>1. Top \in Nat /\ FunctionBase \in 1..Top
    BY BaseSpec, CodeTyped DEF BlocksShape
<1>2. b \in D
    BY DEF Declares
<1>3. PICK c : c = Max(D)
    OBVIOUS
<1>4. D \in SUBSET (0..Top) /\ D # {}
    BY <1>1, <1>2
<1>5. c \in D /\ \A y \in D : y <= c
  <2> HIDE DEF D
  <2> QED
      BY <1>1, <1>3, <1>4, Greatest
<1>6. c \in FunctionBase..Top /\ Declares(c, name)
    BY <1>5
<1>7. PICK k : k = Index(c, name)
    OBVIOUS
<1>8. k \in 1..Len(Locals(c)) /\ Locals(c)[k].name = name
    BY <1>6, <1>7 DEF Declares, Index
<1>9. Resolve(name) = <<c, k>>
    BY <1>3, <1>7 DEF Resolve
<1>10. ASSUME b = Top \/ "shadow" \notin features PROVE c = b /\ k = i
  <2>1. b <= c /\ c <= Top /\ b \in 1..Top /\ c \in 1..Top
      BY <1>1, <1>2, <1>5, <1>6
  <2>2. c = b
    <3>1. CASE b = Top
        BY <1>1, <2>1, <3>1
    <3>2. CASE "shadow" \notin features
      <4>1. SUFFICES ASSUME b < c PROVE FALSE
          BY <2>1
      <4>2. \A d \in (b + 1)..c : d \in (FunctionBase + 1)..Top
          BY <1>1, <2>1
      <4>3. \A d \in (b + 1)..c : blocks[d].kind # "function"
          BY <4>2, BaseSpec
      <4> QED
          BY <1>8, <2>1, <3>2, <4>1, <4>3 DEF NoHiding
    <3> QED
        BY <1>10, <3>1, <3>2
  <2> QED
      BY <1>8, <2>1, <2>2 DEF BlocksShape
<1>11. b <= c
    BY <1>2, <1>5
<1>12. c = b => k = i
  <2>1. b \in 1..Top
      BY <1>1
  <2> QED
      BY <1>8, <2>1 DEF BlocksShape
<1> QED
    BY <1>6, <1>8, <1>9, <1>10, <1>11, <1>12

LEMMA ScopeSpec ==
    ASSUME BlocksShape
    PROVE  /\ \A a \in InScope : /\ a \in StackAddresses /\ a = <<a[1], a[2]>>
                                 /\ a[1] \in 1..Top /\ a[2] \in 1..Len(Locals(a[1]))
           /\ \A b \in 1..Top : \A i \in 1..Len(Locals(b)) :
                /\ <<b, i>> \in InScope
                /\ <<b, i>> \in Pinned <=> Locals(b)[i].pinned
           /\ Pinned \subseteq InScope
<1>1. \A a \in InScope : /\ a \in StackAddresses /\ a = <<a[1], a[2]>>
                         /\ a[1] \in 1..Top /\ a[2] \in 1..Len(Locals(a[1]))
    BY DEF InScope, StackAddresses
<1>2. ASSUME NEW b \in 1..Top, NEW i \in 1..Len(Locals(b))
      PROVE  /\ <<b, i>> \in InScope
             /\ <<b, i>> \in Pinned <=> Locals(b)[i].pinned
  <2>1. b \in 1..MaxBlocks /\ i \in 1..MaxVars
      BY CodeTyped, RootScopesAssumption DEF BlocksShape
  <2>2. <<b, i>> \in StackAddresses /\ <<b, i>>[1] = b /\ <<b, i>>[2] = i
      BY <2>1 DEF StackAddresses
  <2>3. <<b, i>> \in InScope
      BY <2>2 DEF InScope
  <2> QED
      BY <2>2, <2>3 DEF Pinned
<1> QED
    BY <1>1, <1>2 DEF Pinned

\* What the names of some blocks of the function mean.
LEMMA AddressesMeant ==
    ASSUME BlocksShape, NoHiding, VariableKinds, Top > 0,
           NEW B \in SUBSET (FunctionBase..Top),
           NEW A, A = {Resolve(name) : name \in UNION {Saved(b) : b \in B}}
    PROVE  /\ \A a \in A : a \in InScope /\ a[1] \in FunctionBase..Top
           /\ B = {Top} \/ "shadow" \notin features => A = {a \in Pinned : a[1] \in B}
           /\ features \cap {"struct", "unheld"} = {} => A \subseteq Pinned
<1>1. Top \in Nat /\ FunctionBase \in 1..Top
    BY BaseSpec, CodeTyped DEF BlocksShape
<1>2. ASSUME NEW a
      PROVE  a \in A <=> \E b \in B : \E i \in 1..Len(Locals(b)) :
                           Locals(b)[i].pinned /\ a = Resolve(Locals(b)[i].name)
    BY DEF Saved
<1>3. ASSUME NEW b \in B, NEW i \in 1..Len(Locals(b))
      PROVE  \E c \in FunctionBase..Top : \E k \in 1..Len(Locals(c)) :
               /\ Resolve(Locals(b)[i].name) = <<c, k>>
               /\ b <= c /\ (c = b => k = i)
               /\ b = Top \/ "shadow" \notin features => c = b /\ k = i
  <2>1. PICK name : name = Locals(b)[i].name
      OBVIOUS
  <2>2. b \in FunctionBase..Top
      OBVIOUS
  <2> QED
      BY <2>1, <2>2, ResolveSpec
<1>4. ASSUME NEW a \in A
      PROVE  /\ a \in InScope /\ a[1] \in FunctionBase..Top
             /\ features \cap {"struct", "unheld"} = {} => a \in Pinned
  <2>1. PICK b \in B : \E i \in 1..Len(Locals(b)) :
          Locals(b)[i].pinned /\ a = Resolve(Locals(b)[i].name)
      BY <1>2
  <2>2. PICK i \in 1..Len(Locals(b)) : Locals(b)[i].pinned /\ a = Resolve(Locals(b)[i].name)
      BY <2>1
  <2>3. PICK c \in FunctionBase..Top : \E k \in 1..Len(Locals(c)) :
          a = <<c, k>> /\ b <= c /\ (c = b => k = i)
      BY <1>3, <2>2
  <2>4. PICK k \in 1..Len(Locals(c)) : a = <<c, k>> /\ b <= c /\ (c = b => k = i)
      BY <2>3
  <2>5. c \in 1..Top /\ a[1] = c
      BY <1>1, <2>4
  <2>6. a \in InScope /\ (a \in Pinned <=> Locals(c)[k].pinned)
      BY <2>4, <2>5, ScopeSpec
  <2>7. ASSUME features \cap {"struct", "unheld"} = {}, c # b PROVE Locals(c)[k].pinned
    <3>1. b \in FunctionBase..Top
        OBVIOUS
    <3>2. c \in (FunctionBase + 1)..Top
        BY <1>1, <2>4, <2>7, <3>1
    <3>3. blocks[c].kind # "function"
        BY <3>2, BaseSpec
    <3>4. VariableKind(c, k)
        BY <2>4, <2>5 DEF VariableKinds
    <3> QED
        BY <2>7, <3>3, <3>4 DEF VariableKind
  <2> QED
      BY <2>2, <2>4, <2>5, <2>6, <2>7
<1>5. ASSUME B = {Top} \/ "shadow" \notin features
      PROVE  A = {a \in Pinned : a[1] \in B}
  <2>1. ASSUME NEW b \in B, NEW i \in 1..Len(Locals(b))
        PROVE  Resolve(Locals(b)[i].name) = <<b, i>>
      BY <1>3, <1>5
  <2>2. \A b \in B : b \in 1..Top
      BY <1>1
  <2>3. ASSUME NEW a \in A PROVE a \in Pinned /\ a[1] \in B
    <3>1. PICK b \in B : \E i \in 1..Len(Locals(b)) :
            Locals(b)[i].pinned /\ a = Resolve(Locals(b)[i].name)
        BY <1>2
    <3>2. PICK i \in 1..Len(Locals(b)) :
            Locals(b)[i].pinned /\ a = Resolve(Locals(b)[i].name)
        BY <3>1
    <3>3. a = <<b, i>> /\ a[1] = b
        BY <2>1, <3>2
    <3> QED
        BY <2>2, <3>2, <3>3, ScopeSpec
  <2>4. ASSUME NEW a \in Pinned, a[1] \in B PROVE a \in A
    <3>1. PICK b \in B : b = a[1]
        BY <2>4
    <3>2. PICK i : i = a[2]
        OBVIOUS
    <3>3. a = <<b, i>> /\ i \in 1..Len(Locals(b))
        BY <3>1, <3>2, ScopeSpec
    <3>4. Locals(b)[i].pinned
        BY <3>1, <3>2 DEF Pinned
    <3>5. a = Resolve(Locals(b)[i].name)
        BY <2>1, <3>3
    <3> QED
        BY <1>2, <3>3, <3>4, <3>5
  <2> QED
      BY <2>3, <2>4
<1> QED
    BY <1>4, <1>5

\* The entries after addresses were forgotten.
LEMMA TableForgotten ==
    ASSUME BlocksShape, AllRooted, OnlyThoseRooted, ~returning,
           NEW A, entries' = ForgottenAll(entries, A)
    PROVE  /\ entries' \in Seq(CodeSlot)
           /\ \A a \in Pinned : a \notin A => RootsAt(a)' # {}
           /\ features \cap {"break", "shadow"} = {} =>
                \A i \in 1..Len(entries') : entries'[i].inUse =>
                   entries'[i].ptr \in Pinned \ A /\ IsFirst(entries', i)
           /\ A \subseteq Pinned => \A a \in A : Finds(entries, a)
<1>1. entries \in Seq(CodeSlot) /\ Len(entries) \in Nat
    BY CodeTyped DEF BlocksShape
<1>2. /\ entries' \in Seq(CodeSlot) /\ Len(entries') = Len(entries)
      /\ \A i \in 1..Len(entries) :
            /\ entries'[i].ptr = entries[i].ptr
            /\ entries'[i].inUse <=>
                  entries[i].inUse /\ ~ (entries[i].ptr \in A /\ IsFirst(entries, i))
  <2>1. PICK t : t = entries
      OBVIOUS
  <2>2. PICK f : f = entries'
      OBVIOUS
  <2>3. t \in Seq(CodeSlot) /\ f = ForgottenAll(t, A)
      BY <1>1, <2>1, <2>2
  <2>4. /\ f \in Seq(CodeSlot) /\ Len(f) = Len(t)
        /\ \A i \in 1..Len(t) :
             /\ f[i].ptr = t[i].ptr
             /\ f[i].inUse <=> t[i].inUse /\ ~ (t[i].ptr \in A /\ IsFirst(t, i))
      BY <2>3, ForgottenSpec
  <2> QED
      BY <2>1, <2>2, <2>4
<1>3. RootedNow = Pinned
    BY DEF RootedNow
<1>4. ASSUME NEW a \in Pinned
      PROVE  \E i \in 1..Len(entries) : entries[i].inUse /\ entries[i].ptr = a
    BY <1>3 DEF AllRooted, RootsAt
<1>5. ASSUME NEW a \in Pinned, a \notin A PROVE RootsAt(a)' # {}
  <2>1. PICK i \in 1..Len(entries) : entries[i].inUse /\ entries[i].ptr = a
      BY <1>4
  <2>2. i \in 1..Len(entries') /\ entries'[i].inUse /\ entries'[i].ptr = a
      BY <1>2, <1>5, <2>1
  <2> QED
      BY <2>2 DEF RootsAt
<1>6. ASSUME features \cap {"break", "shadow"} = {}, NEW i \in 1..Len(entries'), entries'[i].inUse
      PROVE  entries'[i].ptr \in Pinned \ A /\ IsFirst(entries', i)
  <2>1. /\ i \in 1..Len(entries) /\ entries[i].inUse
        /\ ~ (entries[i].ptr \in A /\ IsFirst(entries, i))
        /\ entries'[i].ptr = entries[i].ptr
      BY <1>2, <1>6
  <2>2. entries[i].ptr \in Pinned /\ IsFirst(entries, i)
      BY <1>3, <1>6, <2>1 DEF OnlyThoseRooted
  <2>3. \A j \in 1..(i - 1) : j \in 1..Len(entries)
      BY <1>1, <2>1
  <2>4. IsFirst(entries', i)
      BY <1>2, <2>1, <2>2, <2>3 DEF IsFirst
  <2> QED
      BY <2>1, <2>2, <2>4
<1>7. ASSUME A \subseteq Pinned, NEW a \in A PROVE Finds(entries, a)
    BY <1>4, <1>7 DEF Finds
<1> QED
    BY <1>2, <1>5, <1>6, <1>7

\* The blocks from the outermost to the n-th.
LEMMA BlocksCut ==
    ASSUME BlocksShape, NoHiding, VariableKinds, Lent,
           NEW n \in 0..Top, blocks' = SubSeq(blocks, 1, n),
           features' = features, memory' = memory
    PROVE  /\ blocks' \in Seq(CodeBlock) /\ Top' = n
           /\ Pinned' = {a \in Pinned : a[1] <= n}
           /\ InScope' = {a \in InScope : a[1] <= n}
           /\ n > 0 => blocks'[1].kind = "function"
           /\ \A b \in 1..n : blocks'[b] = blocks[b] /\ b \in 1..Top
           /\ NoHiding' /\ VariableKinds' /\ Lent'
<1>1. blocks \in Seq(CodeBlock) /\ Top \in Nat /\ Top = Len(blocks)
    BY CodeTyped DEF BlocksShape, Top
<1>2. blocks' \in Seq(CodeBlock) /\ Len(blocks') = n /\ \A b \in 1..n : blocks'[b] = blocks[b]
    BY <1>1, SubSeqProperties
<1>3. Top' = n /\ \A b \in 1..n : b \in 1..Top /\ Locals(b)' = Locals(b)
    BY <1>1, <1>2 DEF Top, Locals
<1>4. InScope' = {a \in InScope : a[1] <= n}
  <2>1. ASSUME NEW a \in StackAddresses PROVE a[1] \in 1..n <=> a[1] \in 1..Top /\ a[1] <= n
      BY <1>1 DEF StackAddresses
  <2> QED
      BY <1>3, <2>1 DEF InScope
<1>5. Pinned' = {a \in Pinned : a[1] <= n}
  <2>1. \A a \in InScope : a[1] <= n => a[1] \in 1..n
      BY <1>1 DEF InScope
  <2> QED
      BY <1>3, <1>4, <2>1 DEF Pinned
<1>6. n > 0 => blocks'[1].kind = "function"
    BY <1>1, <1>2 DEF BlocksShape
<1>7. VariableKinds'
  <2>1. ASSUME NEW b \in 1..n, NEW i \in 1..Len(Locals(b)) PROVE VariableKind(b, i)'
    <3>1. VariableKind(b, i) /\ blocks'[b] = blocks[b] /\ Locals(b)' = Locals(b)
        BY <1>2, <1>3 DEF VariableKinds
    <3> QED
        BY <3>1 DEF VariableKind
  <2> QED
      BY <1>3, <2>1 DEF VariableKinds
<1>8. NoHiding'
  <2> SUFFICES ASSUME "shadow" \notin features, NEW b \in 1..n, NEW c \in 1..n, b < c,
                      \A d \in (b + 1)..c : blocks'[d].kind # "function",
                      NEW i \in 1..Len(Locals(b)), NEW j \in 1..Len(Locals(c))
               PROVE  Locals(b)[i].name # Locals(c)[j].name
      BY <1>3 DEF NoHiding
  <2>1. \A d \in (b + 1)..c : d \in 1..n /\ blocks[d].kind # "function"
      BY <1>2
  <2> QED
      BY <1>3, <2>1 DEF NoHiding
<1>9. Lent'
  <2> SUFFICES ASSUME features \cap {"struct", "unheld"} = {}, NEW a \in InScope',
                      Locals(a[1])'[a[2]].bound, memory[a] # NoObject
               PROVE  \E p \in Pinned' : p[1] < a[1] /\ memory[p] = memory[a]
      BY DEF Lent
  <2>1. a \in InScope /\ a[1] <= n /\ a[1] \in 1..n
      BY <1>1, <1>4 DEF InScope
  <2>2. PICK p \in Pinned : p[1] < a[1] /\ memory[p] = memory[a]
      BY <1>3, <2>1 DEF Lent
  <2>3. p[1] \in 1..Top
      BY DEF Pinned, InScope
  <2>4. p[1] <= n
      BY <1>1, <2>1, <2>2, <2>3
  <2> QED
      BY <1>5, <2>2, <2>4
<1> QED
    BY <1>1, <1>2, <1>3, <1>4, <1>5, <1>6, <1>7, <1>8, <1>9

\* ... which keep their shape.
LEMMA ShapeCut ==
    ASSUME BlocksShape, NEW n \in 0..Top, Top' = n, blocks' \in Seq(CodeBlock),
           n > 0 => blocks'[1].kind = "function",
           \A b \in 1..n : blocks'[b] = blocks[b] /\ b \in 1..Top,
           CodeTypeOK', returning' => n > 0, ~returning' => operand' = NoObject
    PROVE  BlocksShape'
<1>1. Top \in Nat /\ n <= MaxBlocks
    BY CodeTyped, RootScopesAssumption DEF BlocksShape
<1>2. \A b \in 1..n : Locals(b)' = Locals(b) /\ b \in 1..Top
    BY DEF Locals
<1> QED
    BY <1>1, <1>2 DEF BlocksShape

\* A step that leaves the blocks alone.
LEMMA SameBlocks ==
    ASSUME BlocksShape, NoHiding, VariableKinds, Lent, blocks' = blocks, features' = features,
           CodeTypeOK', returning' => Top > 0, ~returning' => operand' = NoObject
    PROVE  /\ BlocksShape' /\ NoHiding' /\ VariableKinds' /\ (memory' = memory => Lent')
           /\ Top' = Top /\ FunctionBase' = FunctionBase
           /\ InScope' = InScope /\ Pinned' = Pinned
<1>1. Top' = Top /\ FunctionBase' = FunctionBase
    BY DEF Top, FunctionBase
<1>2. InScope' = InScope /\ Pinned' = Pinned
    BY DEF InScope, Pinned, Top, Locals
<1>3. BlocksShape'
    BY <1>1, SMTT(30) DEF BlocksShape, Locals
<1>4. NoHiding'
    BY <1>1, SMTT(30) DEF NoHiding, Locals
<1>5. VariableKinds'
    BY <1>1 DEF VariableKinds, VariableKind, Locals
<1>6. ASSUME memory' = memory PROVE Lent'
    BY <1>2, <1>6 DEF Lent, Locals
<1> QED
    BY <1>1, <1>2, <1>3, <1>4, <1>5, <1>6

-----------------------------------------------------------------------------
(* The steps of the generated code                                         *)

LEMMA CodeInitEstablishes ==
    ASSUME CodeInit PROVE RootedInv
<1>1. Top = 0 /\ Len(entries) = 0 /\ ~returning /\ operand = NoObject /\ ~codePanicked
    BY DEF CodeInit, Top
<1>2. \A n \in 1..0 : FALSE
    OBVIOUS
<1>3. InScope = {} /\ Pinned = {} /\ RootedNow = {} /\ Values = {}
    BY <1>1, <1>2 DEF InScope, Pinned, RootedNow, Values
<1>7. temporaries = {} /\ allocated = {}
    BY DEF CodeInit
<1>4. CodeTypeOK
  <2>1. features \subseteq AllFeatures
      BY RootScopesAssumption DEF CodeInit
  <2>2. blocks \in Seq([kind : Kinds, locals : Seq(Variable)])
      BY DEF CodeInit
  <2>3. entries \in Seq([inUse : BOOLEAN, ptr : StackAddresses])
      BY DEF CodeInit
  <2>4. memory \in [StackAddresses -> PointerValue]
      BY DEF CodeInit, PointerValue
  <2> QED
      BY <2>1, <2>2, <2>3, <2>4 DEF CodeInit, CodeTypeOK, PointerValue
<1>5. BlocksShape
    BY <1>1, <1>2, <1>4, RootScopesAssumption DEF BlocksShape
<1>6. NoHiding /\ VariableKinds /\ OnlyThoseRooted /\ Lent
    BY <1>1, <1>2, <1>3 DEF NoHiding, VariableKinds, OnlyThoseRooted, Lent
<1> QED
    BY <1>1, <1>3, <1>5, <1>6, <1>7 DEF RootedInv, AllRooted, CodeForgetFinds, VariablesAlive

\* What the running code can use.
LEMMA VisibleSpec ==
    Held \subseteq Values \cup {NoObject} /\ Visible \subseteq Values \cup temporaries \cup {NoObject}
    BY DEF Held, Visible, Values

\* A new block, with the parameters of a function or the iterator of a loop.
LEMMA CodeEnterKeeps ==
    ASSUME RootedInv, ~codePanicked, NEW kind \in Kinds, NEW bound \in Bindings, Enter(kind, bound)
    PROVE  RootedInv'
<1> USE DEF RootedInv
<1>1. blocks \in Seq(CodeBlock) /\ Top \in Nat /\ Top = Len(blocks)
    BY CodeTyped DEF BlocksShape, Top
<1>2. PICK n : n = Top
    OBVIOUS
<1>3. PICK m : m = Len(bound)
    OBVIOUS
<1>4. /\ m \in 0..MaxVars
      /\ \A i \in 1..m : bound[i].name \in Names /\ bound[i].value \in PointerValue
  <2>1. PICK k \in 0..MaxVars : bound \in [1..k -> [name : Names, value : PointerValue]]
      BY DEF Bindings
  <2>2. k \in Nat /\ Len(bound) = k
      BY <2>1
  <2> QED
      BY <1>3, <2>1, <2>2
<1>5. PICK locals : locals = [i \in 1..m |->
        [name |-> bound[i].name, type |-> "pointer", bound |-> TRUE, pinned |-> FALSE]]
    OBVIOUS
<1>6. /\ locals \in Seq(Variable) /\ Len(locals) = m
      /\ \A i \in 1..m : /\ locals[i].name = bound[i].name /\ locals[i].type = "pointer"
                         /\ locals[i].bound /\ ~locals[i].pinned
  <2>1. locals \in [1..m -> Variable]
      BY <1>4, <1>5 DEF Variable, Types
  <2> QED
      BY <1>4, <1>5, <2>1
<1>7. PICK new : new = [kind |-> kind, locals |-> locals]
    OBVIOUS
<1>8. new \in CodeBlock /\ new.kind = kind /\ new.locals = locals
    BY <1>6, <1>7 DEF CodeBlock
<1>9. /\ blocks' = Append(blocks, new) /\ temporaries' = {}
      /\ memory' = [a \in StackAddresses |->
            IF a[1] = n + 1 /\ a[2] \in 1..m THEN bound[a[2]].value ELSE memory[a]]
      /\ UNCHANGED <<features, entries, allocated, operand, returning, codePanicked>>
      /\ ~returning /\ n < MaxBlocks /\ (kind # "function" => n > 0)
    BY <1>2, <1>3, <1>5, <1>7 DEF Enter
<1>10. /\ \A i, j \in 1..m : bound[i].name = bound[j].name => i = j
       /\ \A i \in 1..m : "unheld" \notin features => bound[i].value \in Held
       /\ \A i \in 1..m : bound[i].value \in Visible
       /\ \A i \in 1..m : kind # "function" =>
             /\ kind = "loop" /\ "unheld" \in features
             /\ \A b \in FunctionBase..Top : Declares(b, bound[i].name) => "shadow" \in features
  <2>1. ASSUME NEW i \in 1..m PROVE kind = "function" \/ kind = "loop"
    <3>1. bound # <<>>
        BY <1>3, <1>4
    <3> QED
        BY <3>1 DEF Enter
  <2> QED
      BY <1>3, <2>1 DEF Enter, Visible
<1>11. /\ blocks' \in Seq(CodeBlock) /\ Top' = n + 1 /\ blocks'[n + 1] = new
       /\ \A b \in 1..n : blocks'[b] = blocks[b]
    BY <1>1, <1>2, <1>8, <1>9, AppendProperties DEF Top
<1>12. /\ Locals(n + 1)' = locals
       /\ \A b \in 1..n : Locals(b)' = Locals(b)
    BY <1>8, <1>11 DEF Locals
<1>13. n \in Nat /\ (\A b \in 1..(n + 1) : b = n + 1 \/ b \in 1..n) /\ n + 1 \notin 1..n
    BY <1>1, <1>2
<1>14. \A a \in InScope : /\ a \in StackAddresses /\ a[1] \in 1..n /\ memory'[a] = memory[a]
                          /\ Locals(a[1])'[a[2]] = Locals(a[1])[a[2]]
    BY <1>2, <1>9, <1>12, <1>13 DEF InScope
<1>15. \A a \in StackAddresses : a[1] = n + 1 /\ a[2] \in 1..m => memory'[a] = bound[a[2]].value
    BY <1>9
<1>16. PICK N : N = {a \in StackAddresses : a[1] = n + 1 /\ a[2] \in 1..m}
    OBVIOUS
<1>17. InScope' = InScope \cup N
  <2>1. ASSUME NEW a \in StackAddresses
        PROVE  a[1] \in 1..(n + 1) /\ a[2] \in 1..Len(Locals(a[1])') <=>
               (a[1] \in 1..n /\ a[2] \in 1..Len(Locals(a[1]))) \/ (a[1] = n + 1 /\ a[2] \in 1..m)
    <3>1. CASE a[1] = n + 1
      <4>1. Locals(a[1])' = locals
          BY <1>12, <3>1
      <4> QED
          BY <1>6, <1>13, <3>1, <4>1
    <3>2. CASE a[1] # n + 1
        BY <1>12, <1>13, <3>2
    <3> QED
        BY <3>1, <3>2
  <2> QED
      BY <1>2, <1>11, <1>16, <2>1 DEF InScope
<1>18. Pinned' = Pinned
  <2>1. \A a \in N : ~ Locals(a[1])'[a[2]].pinned
    <3>1. ASSUME NEW a \in N PROVE ~ Locals(a[1])'[a[2]].pinned
      <4>1. a[1] = n + 1 /\ a[2] \in 1..m
          BY <1>16
      <4>2. Locals(a[1])' = locals
          BY <1>12, <4>1
      <4> QED
          BY <1>6, <4>1, <4>2
    <3> QED
        BY <3>1
  <2> QED
      BY <1>14, <1>17, <2>1 DEF Pinned
<1>19. memory' \in [StackAddresses -> PointerValue]
    BY <1>4, <1>9 DEF BlocksShape, CodeTypeOK
<1>20. CodeTypeOK'
    BY <1>9, <1>11, <1>19 DEF BlocksShape, CodeTypeOK, CodeBlock
<1>21. BlocksShape'
  <2>1. n + 1 <= MaxBlocks /\ n + 1 > 0
      BY <1>9, <1>13, RootScopesAssumption
  <2>2. blocks'[1].kind = "function"
    <3>1. CASE n = 0
        BY <1>8, <1>9, <1>11, <3>1
    <3>2. CASE n > 0
        BY <1>2, <1>11, <1>13, <3>2 DEF BlocksShape
    <3> QED
        BY <1>13, <3>1, <3>2
  <2>3. \A b \in 1..(n + 1) : Len(Locals(b)') <= MaxVars
    <3>1. m <= MaxVars
        BY <1>4
    <3> QED
        BY <1>2, <1>6, <1>12, <1>13, <3>1 DEF BlocksShape
  <2>4. \A b \in 1..(n + 1) : \A i, j \in 1..Len(Locals(b)') :
           Locals(b)'[i].name = Locals(b)'[j].name => i = j
      BY <1>2, <1>6, <1>10, <1>12, <1>13 DEF BlocksShape
  <2> QED
      BY <1>9, <1>11, <1>20, <2>1, <2>2, <2>3, <2>4 DEF BlocksShape
<1>22. NoHiding'
  <2> SUFFICES ASSUME "shadow" \notin features, NEW b \in 1..(n + 1), NEW c \in 1..(n + 1), b < c,
                      \A d \in (b + 1)..c : blocks'[d].kind # "function",
                      NEW i \in 1..Len(Locals(b)'), NEW j \in 1..Len(Locals(c)')
               PROVE  Locals(b)'[i].name # Locals(c)'[j].name
      BY <1>9, <1>11 DEF NoHiding
  <2>1. b \in 1..n /\ c \in (b + 1)..c
      BY <1>13
  <2>2. ASSUME NEW d \in (b + 1)..c, d \in 1..n PROVE blocks[d].kind # "function"
    <3>1. blocks'[d] = blocks[d] /\ blocks'[d].kind # "function"
        BY <1>11, <2>2
    <3> QED
        BY <3>1
  <2>3. CASE c # n + 1
    <3>1. c \in 1..n /\ \A d \in (b + 1)..c : d \in 1..n
        BY <1>13, <2>1, <2>3
    <3> QED
        BY <1>2, <1>12, <2>1, <2>2, <3>1 DEF NoHiding
  <2>4. CASE c = n + 1
    <3>1. kind # "function" /\ j \in 1..m /\ Locals(c)'[j].name = bound[j].name
        BY <1>6, <1>8, <1>11, <1>12, <2>1, <2>4
    <3>2. FunctionBase \in 1..n /\ blocks[FunctionBase].kind = "function"
        BY <1>2, <1>9, <3>1, BaseSpec
    <3>3. ~ (FunctionBase \in (b + 1)..c)
        BY <2>2, <3>2
    <3>4. b \in FunctionBase..Top
        BY <1>2, <1>13, <2>1, <2>4, <3>2, <3>3
    <3>5. ~ Declares(b, bound[j].name)
        BY <1>10, <3>1, <3>4
    <3> QED
        BY <1>12, <2>1, <3>1, <3>5 DEF Declares
  <2> QED
      BY <2>3, <2>4
<1>23. VariableKinds'
  <2>1. ASSUME NEW b \in 1..n, NEW i \in 1..Len(Locals(b)) PROVE VariableKind(b, i)'
    <3>1. VariableKind(b, i) /\ blocks'[b] = blocks[b] /\ Locals(b)' = Locals(b)
        BY <1>2, <1>11, <1>12 DEF VariableKinds
    <3> QED
        BY <1>9, <3>1 DEF VariableKind
  <2>2. ASSUME NEW b, b = n + 1, NEW i \in 1..m PROVE VariableKind(b, i)'
    <3>1. blocks'[b].kind = kind /\ Locals(b)' = locals /\ (kind # "function" => "unheld" \in features)
        BY <1>8, <1>10, <1>11, <1>12, <2>2
    <3> QED
        BY <1>6, <1>9, <3>1 DEF VariableKind
  <2> QED
      BY <1>6, <1>11, <1>12, <1>13, <2>1, <2>2 DEF VariableKinds
<1>24. Lent'
  <2> SUFFICES ASSUME features \cap {"struct", "unheld"} = {}, NEW a \in InScope',
                      Locals(a[1])'[a[2]].bound, memory'[a] # NoObject
               PROVE  \E p \in Pinned : p[1] < a[1] /\ memory'[p] = memory'[a]
      BY <1>9, <1>18 DEF Lent
  <2>1. Pinned \subseteq InScope
      BY DEF Pinned
  <2>2. ASSUME NEW c \in InScope, Locals(c[1])[c[2]].bound, memory[c] # NoObject
        PROVE  \E p \in Pinned : p[1] < c[1] /\ memory'[p] = memory[c]
    <3>1. PICK p \in Pinned : p[1] < c[1] /\ memory[p] = memory[c]
        BY <2>2 DEF Lent
    <3> QED
        BY <1>14, <2>1, <3>1
  <2>3. CASE a \in InScope
      BY <1>14, <2>2, <2>3
  <2>4. CASE a \in N
    <3>1. a[1] = n + 1 /\ memory'[a] \in Held
        BY <1>10, <1>15, <1>16, <2>4
    <3>2. PICK c \in InScope : memory[c] = memory'[a]
        BY <3>1 DEF Held
    <3>3. c[1] \in 1..n /\ c[2] \in 1..Len(Locals(c[1]))
        BY <1>2 DEF InScope
    <3>4. CASE c \in Pinned
        BY <1>13, <1>14, <3>1, <3>2, <3>3, <3>4
    <3>5. CASE c \notin Pinned
      <4>1. VariableKind(c[1], c[2]) /\ ~ Locals(c[1])[c[2]].pinned
          BY <1>2, <3>3, <3>5 DEF VariableKinds, Pinned
      <4>2. Locals(c[1])[c[2]].bound
          BY <4>1 DEF VariableKind
      <4>3. PICK p \in Pinned : p[1] < c[1] /\ memory'[p] = memory[c]
          BY <2>2, <3>2, <4>2
      <4>4. p[1] \in 1..n
          BY <1>14, <2>1
      <4>5. p[1] < a[1]
          BY <1>13, <3>1, <3>3, <4>4
      <4> QED
          BY <3>2, <4>3, <4>5
    <3> QED
        BY <3>4, <3>5
  <2> QED
      BY <1>17, <2>3, <2>4
<1>25. RootedNow = Pinned /\ RootedNow' = Pinned'
    BY <1>9 DEF RootedNow
<1>26. AllRooted' /\ OnlyThoseRooted'
    BY <1>9, <1>18, <1>25 DEF AllRooted, OnlyThoseRooted, RootsAt, IsFirst
<1>27. VariablesAlive'
  <2>1. ASSUME NEW a \in InScope', features \cap {"struct", "call", "unheld"} = {}
        PROVE  memory'[a] \in Values \cup {NoObject}
    <3>1. CASE a \in InScope
        BY <1>14, <3>1 DEF Values
    <3>2. CASE a \in N
      <4>1. memory'[a] \in Held
          BY <1>10, <1>15, <1>16, <2>1, <3>2
      <4> QED
          BY <4>1, VisibleSpec
    <3> QED
        BY <1>17, <3>1, <3>2
  <2>2. features \cap {"struct", "call", "unheld"} = {} => Values' \subseteq Values
      BY <2>1 DEF Values
  <2> QED
      BY <1>9, <2>2 DEF VariablesAlive
<1>28. CodeForgetFinds'
    BY <1>9 DEF CodeForgetFinds
<1> QED
    BY <1>21, <1>22, <1>23, <1>24, <1>26, <1>27, <1>28

\* A new variable, which is a new root if it is a pointer.
LEMMA CodeLetKeeps ==
    ASSUME RootedInv, ~codePanicked, NEW name \in Names, NEW type \in Types,
           NEW o \in PointerValue, Let(name, type, o)
    PROVE  RootedInv'
<1> USE DEF RootedInv
<1>1. /\ blocks \in Seq(CodeBlock) /\ Top \in Nat /\ Top = Len(blocks)
      /\ entries \in Seq(CodeSlot) /\ Len(entries) \in Nat
    BY CodeTyped DEF BlocksShape, Top
<1>2. PICK n : n = Top
    OBVIOUS
<1>3. n \in Nat /\ n \in 1..n /\ n > 0
    BY <1>1, <1>2 DEF Let
<1>4. PICK m : m = Len(Locals(n)) + 1
    OBVIOUS
<1>5. /\ m \in Nat /\ m \in 1..m /\ Len(Locals(n)) = m - 1 /\ m - 1 \in Nat
      /\ Locals(n) \in Seq(Variable) /\ blocks[n] \in CodeBlock
    BY <1>2, <1>3, <1>4, CodeTyped DEF BlocksShape
<1>6. PICK v : v = [name |-> name, type |-> type, bound |-> FALSE, pinned |-> Pins(type)]
    OBVIOUS
<1>7. v \in Variable /\ v.name = name /\ v.type = type /\ ~v.bound /\ v.pinned = (type = "pointer")
    BY <1>6 DEF Variable, Pins
<1>8. PICK a : a = <<n, m>>
    OBVIOUS
<1>9. /\ UNCHANGED <<features, allocated, operand, returning, codePanicked>>
      /\ ~returning /\ (type = "struct" => "struct" \in features) /\ o \in Visible
      /\ temporaries' = {}
      /\ blocks' = [blocks EXCEPT ![n].locals = Append(@, v)]
      /\ memory' = [memory EXCEPT ![a] = o]
      /\ entries' = IF v.pinned THEN Remembered(entries, a) ELSE entries
      /\ Len(Locals(n)) < MaxVars
    BY <1>2, <1>4, <1>6, <1>8 DEF Let
<1>10. /\ a \in StackAddresses /\ a[1] = n /\ a[2] = m
    BY <1>2, <1>3, <1>5, <1>8, <1>9, RootScopesAssumption DEF StackAddresses, BlocksShape
<1>11. PICK new : new = [blocks[n] EXCEPT !.locals = Append(Locals(n), v)]
    OBVIOUS
<1>12. /\ Append(Locals(n), v) \in Seq(Variable) /\ Len(Append(Locals(n), v)) = m
       /\ Append(Locals(n), v)[m] = v
       /\ \A i \in 1..(m - 1) : Append(Locals(n), v)[i] = Locals(n)[i]
    BY <1>5, <1>7, AppendProperties
<1>13. new \in CodeBlock /\ new.kind = blocks[n].kind /\ new.locals = Append(Locals(n), v)
    BY <1>5, <1>11, <1>12 DEF CodeBlock
<1>14. blocks' = [blocks EXCEPT ![n] = new]
    BY <1>9, <1>11 DEF Locals
<1>15. /\ blocks' \in Seq(CodeBlock) /\ Top' = n
       /\ blocks'[n] = new /\ \A b \in 1..n : b # n => blocks'[b] = blocks[b]
    BY <1>1, <1>2, <1>3, <1>13, <1>14, ExceptSeq DEF Top
<1>16. /\ Len(Locals(n)') = m /\ Locals(n)'[m] = v
       /\ \A i \in 1..(m - 1) : Locals(n)'[i] = Locals(n)[i]
       /\ \A b \in 1..n : b # n => Locals(b)' = Locals(b)
       /\ \A b \in 1..n : blocks'[b].kind = blocks[b].kind
    BY <1>12, <1>13, <1>15 DEF Locals
<1>17. \A i \in 1..m : i = m \/ (i # m /\ i \in 1..(m - 1))
    BY <1>5
<1>18. \A i \in 1..(m - 1) : i \in 1..m /\ i # m
    BY <1>5
<1>19. a \notin InScope
  <2>1. ~ (m \in 1..(m - 1))
      BY <1>5
  <2> QED
      BY <1>5, <1>10, <2>1 DEF InScope
<1>20. InScope' = InScope \cup {a}
  <2>1. ASSUME NEW c \in StackAddresses
        PROVE  c[1] \in 1..n /\ c[2] \in 1..Len(Locals(c[1])') <=>
               (c[1] \in 1..n /\ c[2] \in 1..Len(Locals(c[1]))) \/ c = a
    <3>1. c = <<c[1], c[2]>>
        BY DEF StackAddresses
    <3>2. CASE c[1] = n
        BY <1>3, <1>5, <1>8, <1>16, <1>17, <1>18, <3>1, <3>2
    <3>3. CASE c[1] # n
        BY <1>10, <1>16, <3>3
    <3> QED
        BY <3>2, <3>3
  <2> QED
      BY <1>2, <1>10, <1>15, <2>1 DEF InScope
<1>21. ASSUME NEW c \in InScope PROVE Locals(c[1])'[c[2]] = Locals(c[1])[c[2]]
  <2>1. c[1] \in 1..n /\ c[2] \in 1..Len(Locals(c[1]))
      BY <1>2 DEF InScope
  <2> QED
      BY <1>5, <1>16, <2>1
<1>22. Pinned' = Pinned \cup (IF v.pinned THEN {a} ELSE {})
    BY <1>10, <1>16, <1>20, <1>21 DEF Pinned
<1>23. IF v.pinned
       THEN /\ entries' \in Seq(CodeSlot) /\ Len(entries) <= Len(entries')
            /\ \E k : EntryAt(entries', entries, a, k)
       ELSE entries' = entries
  <2>1. ASSUME v.pinned
        PROVE  /\ entries' \in Seq(CodeSlot) /\ Len(entries) <= Len(entries')
               /\ \E k : EntryAt(entries', entries, a, k)
    <3>1. PICK r : r = entries'
        OBVIOUS
    <3>2. r = Remembered(entries, a)
        BY <1>9, <2>1, <3>1
    <3> QED
        BY <1>1, <1>10, <3>1, <3>2, RememberedSpec
  <2> QED
      BY <1>9, <2>1
<1>24. CodeTypeOK'
  <2>1. entries' \in Seq(CodeSlot)
      BY <1>1, <1>23
  <2>2. memory' \in [StackAddresses -> PointerValue]
      BY <1>9, <1>10 DEF BlocksShape, CodeTypeOK, PointerValue
  <2> QED
      BY <1>9, <1>15, <2>1, <2>2 DEF BlocksShape, CodeTypeOK, CodeBlock, CodeSlot
<1>25. \A i \in 1..(m - 1) : Locals(n)[i].name # name
  <2>1. n \in FunctionBase..Top
      BY <1>1, <1>2, <1>3, BaseSpec
  <2>2. ~Declares(n, name)
      BY <1>2, <2>1 DEF Let
  <2>3. 1..(m - 1) = 1..Len(Locals(n))
      BY <1>5
  <2> QED
      BY <2>2, <2>3 DEF Declares
<1>26. BlocksShape'
  <2>1. n <= MaxBlocks /\ blocks'[1].kind = "function"
    <3>1. 1 \in 1..n
        BY <1>3
    <3> QED
        BY <1>2, <1>3, <1>16, <3>1 DEF BlocksShape
  <2>2. \A b \in 1..n : Len(Locals(b)') <= MaxVars
    <3>1. m <= MaxVars
        BY <1>5, <1>9, RootScopesAssumption
    <3> QED
        BY <1>2, <1>16, <3>1 DEF BlocksShape
  <2>3. ASSUME NEW b \in 1..n, NEW i \in 1..Len(Locals(b)'), NEW j \in 1..Len(Locals(b)'),
               Locals(b)'[i].name = Locals(b)'[j].name
        PROVE  i = j
    <3>1. CASE b # n
        BY <1>2, <1>16, <2>3, <3>1 DEF BlocksShape
    <3>2. CASE b = n
      <4>1. i \in 1..m /\ j \in 1..m
          BY <1>16, <3>2
      <4>2. CASE i # m /\ j # m
        <5>1. i \in 1..(m - 1) /\ j \in 1..(m - 1)
            BY <1>17, <4>1, <4>2
        <5>2. Locals(n)[i].name = Locals(n)[j].name
            BY <1>16, <2>3, <3>2, <5>1
        <5>3. n \in 1..Top /\ i \in 1..Len(Locals(n)) /\ j \in 1..Len(Locals(n))
            BY <1>2, <1>3, <1>5, <5>1
        <5> QED
            BY <5>2, <5>3 DEF BlocksShape
      <4>3. CASE i = m \/ j = m
          BY <1>7, <1>16, <1>17, <1>25, <2>3, <3>2, <4>1, <4>3
      <4> QED
          BY <4>2, <4>3
    <3> QED
        BY <3>1, <3>2
  <2> QED
      BY <1>9, <1>15, <1>24, <2>1, <2>2, <2>3 DEF BlocksShape
<1>27. NoHiding'
  <2> SUFFICES ASSUME "shadow" \notin features, NEW b \in 1..n, NEW c \in 1..n, b < c,
                      \A d \in (b + 1)..c : blocks'[d].kind # "function",
                      NEW i \in 1..Len(Locals(b)'), NEW j \in 1..Len(Locals(c)')
               PROVE  Locals(b)'[i].name # Locals(c)'[j].name
      BY <1>9, <1>15 DEF NoHiding
  <2>1. b # n /\ Locals(b)' = Locals(b) /\ i \in 1..Len(Locals(b))
      BY <1>3, <1>16
  <2>2. \A d \in (b + 1)..c : d \in 1..n /\ blocks[d].kind # "function"
      BY <1>3, <1>16
  <2>3. CASE c # n
      BY <1>2, <1>16, <2>1, <2>2, <2>3 DEF NoHiding
  <2>4. CASE c = n
    <3>1. CASE j # m
      <4>1. j \in 1..Len(Locals(n)) /\ Locals(c)'[j] = Locals(n)[j]
          BY <1>5, <1>16, <1>17, <2>4, <3>1
      <4>2. Locals(b)[i].name # Locals(n)[j].name
          BY <1>2, <1>3, <2>1, <2>2, <2>4, <4>1 DEF NoHiding
      <4> QED
          BY <2>1, <4>1, <4>2
    <3>2. CASE j = m
      <4>1. FunctionBase \in 1..n /\ blocks[FunctionBase].kind = "function"
          BY <1>2, <1>3, BaseSpec
      <4>2. ~ (FunctionBase \in (b + 1)..c)
          BY <2>2, <4>1
      <4>3. b \in FunctionBase..Top
          BY <1>2, <1>3, <2>4, <4>1, <4>2
      <4>4. ~ Declares(b, name)
          BY <4>3 DEF Let
      <4> QED
          BY <1>7, <1>16, <2>1, <2>4, <3>2, <4>4 DEF Declares
    <3> QED
        BY <3>1, <3>2
  <2> QED
      BY <2>3, <2>4
<1>28. VariableKinds'
  <2>1. ASSUME NEW b \in 1..n, NEW i \in 1..Len(Locals(b)), Locals(b)'[i] = Locals(b)[i]
        PROVE  VariableKind(b, i)'
    <3>1. VariableKind(b, i) /\ blocks'[b].kind = blocks[b].kind
        BY <1>2, <1>16 DEF VariableKinds
    <3> QED
        BY <1>9, <2>1, <3>1 DEF VariableKind
  <2>2. VariableKind(n, m)'
    <3>1. Locals(n)'[m] = v
        BY <1>16
    <3> QED
        BY <1>7, <1>9, <3>1 DEF VariableKind, Types
  <2>3. ASSUME NEW b \in 1..n, NEW i \in 1..Len(Locals(b)') PROVE VariableKind(b, i)'
    <3>1. CASE b # n
        BY <1>16, <2>1, <3>1
    <3>2. CASE b = n
        BY <1>5, <1>16, <1>17, <2>1, <2>2, <3>2
    <3> QED
        BY <3>1, <3>2
  <2> QED
      BY <1>15, <2>3 DEF VariableKinds
<1>29. RootedNow = Pinned /\ RootedNow' = Pinned'
    BY <1>9 DEF RootedNow
<1>30. ASSUME v.pinned
       PROVE  AllRooted' /\ OnlyThoseRooted'
  <2>1. PICK k : EntryAt(entries', entries, a, k)
      BY <1>23, <1>30
  <2>2. /\ k \in 1..Len(entries') /\ entries'[k].inUse /\ entries'[k].ptr = a
        /\ \A i \in 1..Len(entries') : i # k => i \in 1..Len(entries) /\ entries'[i] = entries[i]
        /\ k \in 1..Len(entries) => ~ entries[k].inUse
        /\ \A i \in 1..(k - 1) : i \in 1..Len(entries) /\ entries[i].inUse
      BY <2>1 DEF EntryAt, EntryFor
  <2>3. Len(entries') \in Nat /\ \A i \in 1..Len(entries) : i \in 1..Len(entries')
      BY <1>1, <1>23, <1>30, LenProperties
  <2>4. Pinned' = Pinned \cup {a} /\ a \notin Pinned
      BY <1>19, <1>22, <1>30 DEF Pinned
  <2>5. ASSUME NEW c \in Pinned' PROVE RootsAt(c)' # {}
    <3>1. CASE c = a
        BY <2>2, <3>1 DEF RootsAt
    <3>2. CASE c \in Pinned
      <4>1. PICK i \in 1..Len(entries) : entries[i].inUse /\ entries[i].ptr = c
          BY <1>29, <3>2 DEF AllRooted, RootsAt
      <4>2. i # k /\ i \in 1..Len(entries')
          BY <2>2, <2>3, <4>1
      <4> QED
          BY <2>2, <4>1, <4>2 DEF RootsAt
    <3> QED
        BY <2>4, <2>5, <3>1, <3>2
  <2>6. ASSUME features \cap {"break", "shadow"} = {}, NEW i \in 1..Len(entries'), entries'[i].inUse
        PROVE  entries'[i].ptr \in Pinned' /\ IsFirst(entries', i)
    <3>1. CASE i = k
      <4>1. \A j \in 1..(k - 1) : j \in 1..Len(entries') /\ j # k
          BY <2>2, <2>3
      <4>2. \A j \in 1..(k - 1) : entries'[j].ptr # a
          BY <1>29, <2>2, <2>4, <2>6, <4>1 DEF OnlyThoseRooted
      <4> QED
          BY <2>2, <2>4, <3>1, <4>2 DEF IsFirst
    <3>2. CASE i # k
      <4>1. i \in 1..Len(entries) /\ entries'[i] = entries[i]
          BY <2>2, <3>2
      <4>2. entries[i].ptr \in Pinned /\ IsFirst(entries, i)
          BY <1>29, <2>6, <4>1 DEF OnlyThoseRooted
      <4>3. \A j \in 1..(i - 1) : j \in 1..Len(entries')
          BY <2>3
      <4>4. \A j \in 1..(i - 1) : entries'[j].ptr # entries'[i].ptr
          BY <2>2, <2>4, <4>1, <4>2, <4>3 DEF IsFirst
      <4> QED
          BY <2>4, <4>1, <4>2, <4>4 DEF IsFirst
    <3> QED
        BY <3>1, <3>2
  <2> QED
      BY <1>9, <1>29, <2>5, <2>6 DEF AllRooted, OnlyThoseRooted
<1>31. ASSUME ~ v.pinned
       PROVE  AllRooted' /\ OnlyThoseRooted'
  <2>1. entries' = entries /\ Pinned' = Pinned
      BY <1>22, <1>23, <1>31
  <2> QED
      BY <1>9, <1>29, <2>1 DEF AllRooted, OnlyThoseRooted, RootsAt, IsFirst
<1>32. VariablesAlive'
  <2>1. memory'[a] = o /\ \A c \in InScope : memory'[c] = memory[c]
      BY <1>9, <1>10, <1>19 DEF InScope, BlocksShape, CodeTypeOK
  <2>2. Values' \subseteq Values \cup ({o} \ {NoObject})
      BY <1>20, <2>1 DEF Values
  <2> QED
      BY <1>9, <2>2, VisibleSpec DEF VariablesAlive
<1>34. Lent'
  <2>1. ASSUME NEW c \in InScope PROVE c # a /\ memory'[c] = memory[c]
      BY <1>9, <1>10, <1>19 DEF InScope, BlocksShape, CodeTypeOK
  <2>2. Pinned \subseteq InScope /\ Pinned \subseteq Pinned'
      BY <1>22 DEF Pinned
  <2>3. ~ Locals(a[1])'[a[2]].bound
      BY <1>7, <1>10, <1>16
  <2>4. \A c \in InScope' : c # a => c \in InScope
      BY <1>20
  <2> QED
      BY <1>9, <1>21, <2>1, <2>2, <2>3, <2>4 DEF Lent
<1>33. CodeForgetFinds'
    BY <1>9 DEF CodeForgetFinds
<1> QED
    BY <1>26, <1>27, <1>28, <1>30, <1>31, <1>32, <1>33, <1>34

LEMMA CodeAssignKeeps ==
    ASSUME RootedInv, ~codePanicked, NEW a \in StackAddresses, NEW o \in PointerValue, Reassign(a, o)
    PROVE  RootedInv'
<1> USE DEF RootedInv
<1>1. /\ UNCHANGED <<features, blocks, entries, allocated, operand, returning, codePanicked>>
      /\ memory' = [memory EXCEPT ![a] = o] /\ temporaries' = {} /\ o \in Visible
      /\ a \in InScope /\ InFunction(a[1]) /\ (Locals(a[1])[a[2]].bound => "unheld" \in features)
    BY DEF Reassign
<1>2. CodeTypeOK'
  <2>1. memory' \in [StackAddresses -> PointerValue]
      BY <1>1 DEF BlocksShape, CodeTypeOK
  <2> QED
      BY <1>1, <2>1 DEF BlocksShape, CodeTypeOK
<1>3. /\ BlocksShape' /\ NoHiding' /\ VariableKinds'
      /\ FunctionBase' = FunctionBase /\ InScope' = InScope /\ Pinned' = Pinned
    BY <1>1, <1>2, SameBlocks DEF BlocksShape
<1>4. RootedNow' = RootedNow
    BY <1>1, <1>3 DEF RootedNow
<1>5. AllRooted' /\ OnlyThoseRooted' /\ CodeForgetFinds'
    BY <1>1, <1>4 DEF AllRooted, OnlyThoseRooted, RootsAt, IsFirst, CodeForgetFinds
<1>6. \A c \in InScope : memory'[c] = IF c = a THEN o ELSE memory[c]
    BY <1>1 DEF InScope, BlocksShape, CodeTypeOK
<1>7. VariablesAlive'
  <2>1. Values' \subseteq Values \cup ({o} \ {NoObject})
      BY <1>3, <1>6 DEF Values
  <2> QED
      BY <1>1, <2>1, VisibleSpec DEF VariablesAlive
<1>8. Lent'
  <2> SUFFICES ASSUME features \cap {"struct", "unheld"} = {}, NEW c \in InScope,
                      Locals(c[1])[c[2]].bound, memory'[c] # NoObject
               PROVE  \E p \in Pinned : p[1] < c[1] /\ memory'[p] = memory'[c]
      BY <1>1, <1>3 DEF Lent, Locals
  <2>1. c # a /\ memory'[c] = memory[c]
      BY <1>1, <1>6
  <2>2. PICK p \in Pinned : p[1] < c[1] /\ memory[p] = memory[c]
      BY <2>1 DEF Lent
  <2>3. c[1] \in 1..Top /\ c[2] \in 1..Len(Locals(c[1])) /\ p \in InScope /\ p[1] \in 1..Top
      BY DEF InScope, Pinned
  <2>4. Top \in Nat /\ Top > 0 /\ FunctionBase \in 1..Top
    <3>1. Top \in Nat
        BY CodeTyped DEF BlocksShape
    <3>2. Top > 0
        BY <2>3, <3>1
    <3> QED
        BY <3>1, <3>2, BaseSpec
  <2>5. VariableKind(c[1], c[2])
      BY <2>3 DEF VariableKinds
  <2>6. blocks[c[1]].kind = "function"
      BY <2>5 DEF VariableKind
  <2>7. ~ (c[1] \in (FunctionBase + 1)..Top)
      BY <2>4, <2>6, BaseSpec
  <2>8. p[1] < FunctionBase
      BY <2>2, <2>3, <2>4, <2>7
  <2>9. a[1] \in FunctionBase..Top
      BY <1>1 DEF InFunction
  <2>10. p # a
      BY <2>3, <2>4, <2>8, <2>9
  <2> QED
      BY <1>6, <2>1, <2>2, <2>3, <2>10
<1> QED
    BY <1>3, <1>5, <1>7, <1>8

\* An object that the statement at work makes.
LEMMA CodeAllocateKeeps ==
    ASSUME RootedInv, ~codePanicked, NEW o \in Objects, Allocate(o) PROVE RootedInv'
<1> USE DEF RootedInv
<1>1. /\ UNCHANGED <<features, blocks, memory, entries, operand, returning, codePanicked>>
      /\ allocated' = allocated \cup {o} /\ temporaries' = temporaries \cup {o}
    BY DEF Allocate
<1>2. CodeTypeOK'
    BY <1>1 DEF BlocksShape, CodeTypeOK
<1>3. /\ BlocksShape' /\ NoHiding' /\ VariableKinds' /\ Lent'
      /\ FunctionBase' = FunctionBase /\ InScope' = InScope /\ Pinned' = Pinned
    BY <1>1, <1>2, SameBlocks DEF BlocksShape
<1>4. RootedNow' = RootedNow
    BY <1>1, <1>3 DEF RootedNow
<1>5. AllRooted' /\ OnlyThoseRooted' /\ CodeForgetFinds'
    BY <1>1, <1>4 DEF AllRooted, OnlyThoseRooted, RootsAt, IsFirst, CodeForgetFinds
<1>6. VariablesAlive'
    BY <1>1, <1>3 DEF VariablesAlive, Values
<1> QED
    BY <1>3, <1>5, <1>6

LEMMA CodeEndStatementKeeps ==
    ASSUME RootedInv, ~codePanicked, EndStatement PROVE RootedInv'
<1> USE DEF RootedInv
<1>1. /\ UNCHANGED <<features, blocks, memory, entries, allocated, operand, returning, codePanicked>>
      /\ temporaries' = {}
    BY DEF EndStatement
<1>2. CodeTypeOK'
    BY <1>1 DEF BlocksShape, CodeTypeOK
<1>3. /\ BlocksShape' /\ NoHiding' /\ VariableKinds' /\ Lent'
      /\ FunctionBase' = FunctionBase /\ InScope' = InScope /\ Pinned' = Pinned
    BY <1>1, <1>2, SameBlocks DEF BlocksShape
<1>4. RootedNow' = RootedNow
    BY <1>1, <1>3 DEF RootedNow
<1>5. AllRooted' /\ OnlyThoseRooted' /\ CodeForgetFinds'
    BY <1>1, <1>4 DEF AllRooted, OnlyThoseRooted, RootsAt, IsFirst, CodeForgetFinds
<1>6. VariablesAlive'
    BY <1>1, <1>3 DEF VariablesAlive, Values
<1> QED
    BY <1>3, <1>5, <1>6

\* The variables of a block go out of scope and out of the table.
LEMMA CodeExitBlockKeeps ==
    ASSUME RootedInv, ~codePanicked, ExitBlock PROVE RootedInv'
<1> USE DEF RootedInv
<1>1. /\ UNCHANGED <<features, memory, allocated, operand, returning>> /\ temporaries' = {}
      /\ ~returning /\ Top > 0 /\ blocks' = Front(blocks) /\ ForgetNames(Saved(Top))
    BY DEF ExitBlock
<1>2. /\ blocks \in Seq(CodeBlock) /\ Top \in Nat /\ Top = Len(blocks)
      /\ Top \in FunctionBase..Top
    BY <1>1, CodeTyped, BaseSpec DEF BlocksShape, Top
<1>3. PICK n : n = Top - 1
    OBVIOUS
<1>4. n \in 0..Top /\ Top = n + 1 /\ n \in Nat
    BY <1>1, <1>2, <1>3
<1>5. blocks' = SubSeq(blocks, 1, n)
    BY <1>1, <1>2, <1>3 DEF Front
<1>6. PICK A : A = {Resolve(name) : name \in Saved(Top)}
    OBVIOUS
<1>7. entries' = ForgottenAll(entries, A) /\ codePanicked' = \E a \in A : ~Finds(entries, a)
    BY <1>1, <1>6 DEF ForgetNames
<1>8. A = {a \in Pinned : a[1] = Top}
  <2>1. PICK B : B = {Top}
      OBVIOUS
  <2>2. UNION {Saved(b) : b \in B} = Saved(Top)
      BY <2>1
  <2>3. /\ B \in SUBSET (FunctionBase..Top)
        /\ A = {Resolve(name) : name \in UNION {Saved(b) : b \in B}}
      BY <1>2, <1>6, <2>1, <2>2
  <2>4. A = {a \in Pinned : a[1] \in B}
      BY <1>1, <2>1, <2>3, AddressesMeant
  <2> QED
      BY <2>1, <2>4
<1>9. /\ blocks' \in Seq(CodeBlock) /\ Top' = n
      /\ Pinned' = {a \in Pinned : a[1] <= n} /\ InScope' = {a \in InScope : a[1] <= n}
      /\ n > 0 => blocks'[1].kind = "function"
      /\ \A b \in 1..n : blocks'[b] = blocks[b] /\ b \in 1..Top
      /\ NoHiding' /\ VariableKinds' /\ Lent'
    BY <1>1, <1>4, <1>5, BlocksCut
<1>10. /\ entries' \in Seq(CodeSlot)
       /\ \A a \in Pinned : a \notin A => RootsAt(a)' # {}
       /\ features \cap {"break", "shadow"} = {} =>
            \A i \in 1..Len(entries') : entries'[i].inUse =>
               entries'[i].ptr \in Pinned \ A /\ IsFirst(entries', i)
       /\ A \subseteq Pinned => \A a \in A : Finds(entries, a)
    BY <1>1, <1>7, TableForgotten
<1>11. codePanicked' = FALSE
    BY <1>7, <1>8, <1>10
<1>12. CodeTypeOK'
    BY <1>1, <1>9, <1>10, <1>11 DEF BlocksShape, CodeTypeOK, CodeBlock, CodeSlot
<1>13. BlocksShape'
    BY <1>1, <1>4, <1>9, <1>12, ShapeCut DEF BlocksShape
<1>14. RootedNow' = Pinned'
    BY <1>1 DEF RootedNow
<1>15. \A a \in Pinned : a \notin A <=> a[1] <= n
  <2>1. \A a \in Pinned : a[1] \in 1..(n + 1)
      BY <1>4 DEF Pinned, InScope
  <2> QED
      BY <1>4, <1>8, <2>1
<1>16. AllRooted'
    BY <1>9, <1>10, <1>14, <1>15 DEF AllRooted
<1>17. OnlyThoseRooted'
    BY <1>1, <1>9, <1>10, <1>14, <1>15 DEF OnlyThoseRooted
<1>18. CodeForgetFinds' /\ VariablesAlive'
    BY <1>1, <1>9, <1>11 DEF CodeForgetFinds, VariablesAlive, Values
<1> QED
    BY <1>9, <1>13, <1>16, <1>17, <1>18

\* The variables of some blocks go out of scope and stay in the table.
LEMMA CodeBreakKeeps ==
    ASSUME RootedInv, ~codePanicked, Top > 0, Break PROVE RootedInv'
<1> USE DEF RootedInv
<1>1. /\ UNCHANGED <<features, memory, entries, allocated, operand, returning, codePanicked>>
      /\ ~returning /\ "break" \in features /\ temporaries' = {}
    BY DEF Break
<1>2. Top \in Nat /\ FunctionBase \in 1..Top
    BY CodeTyped, BaseSpec DEF BlocksShape
<1>3. PICK loop \in FunctionBase..Top : blocks' = SubSeq(blocks, 1, loop - 1)
    BY DEF Break
<1>4. PICK n : n = loop - 1
    OBVIOUS
<1>5. n \in 0..Top /\ blocks' = SubSeq(blocks, 1, n)
    BY <1>2, <1>3, <1>4
<1>6. /\ blocks' \in Seq(CodeBlock) /\ Top' = n
      /\ Pinned' = {a \in Pinned : a[1] <= n} /\ InScope' = {a \in InScope : a[1] <= n}
      /\ n > 0 => blocks'[1].kind = "function"
      /\ \A b \in 1..n : blocks'[b] = blocks[b] /\ b \in 1..Top
      /\ NoHiding' /\ VariableKinds' /\ Lent'
    BY <1>1, <1>5, BlocksCut
<1>7. CodeTypeOK'
    BY <1>1, <1>6 DEF BlocksShape, CodeTypeOK, CodeBlock
<1>8. BlocksShape'
    BY <1>1, <1>5, <1>6, <1>7, ShapeCut DEF BlocksShape
<1>9. RootedNow' \subseteq RootedNow
    BY <1>1, <1>6 DEF RootedNow
<1>10. AllRooted' /\ OnlyThoseRooted'
    BY <1>1, <1>9 DEF AllRooted, OnlyThoseRooted, RootsAt
<1>11. CodeForgetFinds' /\ VariablesAlive'
    BY <1>1, <1>6 DEF CodeForgetFinds, VariablesAlive, Values
<1> QED
    BY <1>6, <1>8, <1>10, <1>11

\* The variables of the function are given up before the operand is evaluated.
LEMMA CodeReturnKeeps ==
    ASSUME RootedInv, ~codePanicked, NEW o \in PointerValue, Return(o) PROVE RootedInv'
<1> USE DEF RootedInv
<1>1. /\ UNCHANGED <<features, blocks, memory, allocated>> /\ operand' = o /\ returning' = TRUE
      /\ temporaries' = {}
      /\ ~returning /\ Top > 0 /\ o \in Visible
      /\ ForgetNames(UNION {Saved(b) : b \in FunctionBase..Top})
    BY DEF Return
<1>2. Top \in Nat /\ FunctionBase \in 1..Top
    BY <1>1, CodeTyped, BaseSpec DEF BlocksShape
<1>3. PICK B : B = FunctionBase..Top
    OBVIOUS
<1>4. PICK A : A = {Resolve(name) : name \in UNION {Saved(b) : b \in B}}
    OBVIOUS
<1>5. entries' = ForgottenAll(entries, A) /\ codePanicked' = \E a \in A : ~Finds(entries, a)
    BY <1>1, <1>3, <1>4 DEF ForgetNames
<1>6. /\ \A a \in A : a \in InScope /\ a[1] \in FunctionBase..Top
      /\ "shadow" \notin features => A = {a \in Pinned : a[1] \in B}
      /\ features \cap {"struct", "unheld"} = {} => A \subseteq Pinned
  <2>1. B \in SUBSET (FunctionBase..Top)
      BY <1>3
  <2> QED
      BY <1>1, <1>4, <2>1, AddressesMeant
<1>7. /\ entries' \in Seq(CodeSlot)
      /\ \A a \in Pinned : a \notin A => RootsAt(a)' # {}
      /\ features \cap {"break", "shadow"} = {} =>
           \A i \in 1..Len(entries') : entries'[i].inUse =>
              entries'[i].ptr \in Pinned \ A /\ IsFirst(entries', i)
      /\ A \subseteq Pinned => \A a \in A : Finds(entries, a)
    BY <1>1, <1>5, TableForgotten
<1>8. CodeTypeOK'
  <2>1. codePanicked' \in BOOLEAN
      BY <1>5
  <2> QED
      BY <1>1, <1>7, <2>1 DEF BlocksShape, CodeTypeOK, CodeSlot
<1>9. /\ BlocksShape' /\ NoHiding' /\ VariableKinds' /\ Lent'
      /\ FunctionBase' = FunctionBase /\ InScope' = InScope /\ Pinned' = Pinned
    BY <1>1, <1>8, SameBlocks
<1>10. RootedNow' = {a \in Pinned : a[1] < FunctionBase}
    BY <1>1, <1>9 DEF RootedNow
<1>11. AllRooted'
  <2>1. ASSUME NEW a \in Pinned, a[1] < FunctionBase PROVE a \notin A
    <3>1. a[1] \in 1..Top
        BY DEF Pinned, InScope
    <3> QED
        BY <1>2, <1>6, <2>1, <3>1
  <2> QED
      BY <1>7, <1>10, <2>1 DEF AllRooted
<1>12. OnlyThoseRooted'
  <2>1. ASSUME features \cap {"break", "shadow"} = {}, NEW a \in Pinned, a \notin A
        PROVE  a[1] < FunctionBase
    <3>1. a[1] \in 1..Top /\ ~ (a[1] \in FunctionBase..Top)
        BY <1>3, <1>6, <2>1 DEF Pinned, InScope
    <3> QED
        BY <1>2, <3>1
  <2> QED
      BY <1>1, <1>7, <1>10, <2>1 DEF OnlyThoseRooted
<1>13. CodeForgetFinds'
  <2>1. ASSUME ~ ("shadow" \in features /\ features \cap {"struct", "unheld"} # {})
        PROVE  ~ codePanicked'
    <3>1. A \subseteq Pinned
        BY <1>6, <2>1
    <3> QED
        BY <1>5, <1>7, <3>1
  <2> QED
      BY <1>1, <2>1 DEF CodeForgetFinds
<1>14. VariablesAlive'
  <2>1. Values' = Values /\ o \in Values \cup temporaries \cup {NoObject}
      BY <1>1, <1>9, VisibleSpec DEF Values
  <2> QED
      BY <1>1, <2>1 DEF VariablesAlive
<1> QED
    BY <1>9, <1>11, <1>12, <1>13, <1>14

LEMMA CodeLeaveKeeps ==
    ASSUME RootedInv, ~codePanicked, Leave PROVE RootedInv'
<1> USE DEF RootedInv
<1>1. /\ UNCHANGED <<features, memory, entries, allocated, codePanicked>>
      /\ returning /\ operand' = NoObject /\ returning' = FALSE
      /\ temporaries' = {operand} \ {NoObject}
      /\ blocks' = SubSeq(blocks, 1, FunctionBase - 1)
    BY DEF Leave
<1>2. Top \in Nat /\ FunctionBase \in 1..Top
    BY <1>1, CodeTyped, BaseSpec DEF BlocksShape
<1>3. PICK n : n = FunctionBase - 1
    OBVIOUS
<1>4. n \in 0..Top /\ blocks' = SubSeq(blocks, 1, n) /\ FunctionBase = n + 1
    BY <1>1, <1>2, <1>3
<1>5. /\ blocks' \in Seq(CodeBlock) /\ Top' = n
      /\ Pinned' = {a \in Pinned : a[1] <= n} /\ InScope' = {a \in InScope : a[1] <= n}
      /\ n > 0 => blocks'[1].kind = "function"
      /\ \A b \in 1..n : blocks'[b] = blocks[b] /\ b \in 1..Top
      /\ NoHiding' /\ VariableKinds' /\ Lent'
    BY <1>1, <1>4, BlocksCut
<1>6. CodeTypeOK'
    BY <1>1, <1>5 DEF BlocksShape, CodeTypeOK, CodeBlock, PointerValue
<1>7. BlocksShape'
    BY <1>1, <1>4, <1>5, <1>6, ShapeCut DEF BlocksShape
<1>8. RootedNow' = RootedNow
  <2>1. \A a \in Pinned : a[1] <= n <=> a[1] < FunctionBase
    <3>1. \A a \in Pinned : a[1] \in 1..Top
        BY DEF Pinned, InScope
    <3> QED
        BY <1>2, <1>4, <3>1
  <2> QED
      BY <1>1, <1>5, <2>1 DEF RootedNow
<1>9. AllRooted' /\ OnlyThoseRooted'
    BY <1>1, <1>8 DEF AllRooted, OnlyThoseRooted, RootsAt, IsFirst
<1>10. CodeForgetFinds' /\ VariablesAlive'
    BY <1>1, <1>5 DEF CodeForgetFinds, VariablesAlive, Values
<1> QED
    BY <1>5, <1>7, <1>9, <1>10

\* A collection keeps what the entries in use point to.
LEMMA CodeCollectKeeps ==
    ASSUME RootedInv, ~codePanicked, Collect PROVE RootedInv'
<1> USE DEF RootedInv
<1>1. /\ UNCHANGED <<features, blocks, memory, entries, temporaries, operand, returning, codePanicked>>
      /\ returning \/ temporaries # {} => "call" \in features
      /\ allocated' = allocated \cap {memory[a] : a \in Followed(entries)}
    BY DEF Collect
<1>2. CodeTypeOK'
    BY <1>1 DEF BlocksShape, CodeTypeOK
<1>3. /\ BlocksShape' /\ NoHiding' /\ VariableKinds' /\ Lent'
      /\ FunctionBase' = FunctionBase /\ InScope' = InScope /\ Pinned' = Pinned
    BY <1>1, <1>2, SameBlocks DEF BlocksShape
<1>4. RootedNow' = RootedNow
    BY <1>1, <1>3 DEF RootedNow
<1>5. AllRooted' /\ OnlyThoseRooted' /\ CodeForgetFinds'
    BY <1>1, <1>4 DEF AllRooted, OnlyThoseRooted, RootsAt, IsFirst, CodeForgetFinds
<1>6. VariablesAlive'
  <2> SUFFICES ASSUME features \cap {"struct", "call", "unheld"} = {}
               PROVE  Values' \cup temporaries' \cup ({operand'} \ {NoObject}) \subseteq allocated'
      BY <1>1 DEF VariablesAlive
  <2>1. ~returning /\ operand = NoObject /\ temporaries = {}
      BY <1>1 DEF BlocksShape
  <2>2. Values \subseteq allocated /\ Values' = Values
      BY <1>1, <1>3 DEF VariablesAlive, Values
  <2>3. ASSUME NEW a \in Pinned PROVE memory[a] \in {memory[c] : c \in Followed(entries)}
    <3>1. PICK i \in 1..Len(entries) : entries[i].inUse /\ entries[i].ptr = a
        BY <2>1 DEF AllRooted, RootsAt, RootedNow
    <3> QED
        BY <3>1 DEF Followed
  <2>4. ASSUME NEW a \in InScope, memory[a] # NoObject
        PROVE  memory[a] \in {memory[c] : c \in Followed(entries)}
    <3>1. CASE a \in Pinned
        BY <2>3, <3>1
    <3>2. CASE a \notin Pinned
      <4>1. VariableKind(a[1], a[2]) /\ ~ Locals(a[1])[a[2]].pinned
          BY <3>2 DEF VariableKinds, Pinned, InScope
      <4>2. Locals(a[1])[a[2]].bound
          BY <4>1 DEF VariableKind
      <4>3. PICK p \in Pinned : memory[p] = memory[a]
          BY <2>4, <4>2 DEF Lent
      <4> QED
          BY <2>3, <4>3
    <3> QED
        BY <3>1, <3>2
  <2>5. Values \subseteq allocated'
      BY <1>1, <2>2, <2>4 DEF Values
  <2> QED
      BY <1>1, <2>1, <2>2, <2>5
<1> QED
    BY <1>3, <1>5, <1>6

LEMMA CodeNextKeeps ==
    ASSUME RootedInv, [CodeNext]_codeVars PROVE RootedInv'
<1>1. CASE UNCHANGED codeVars
  <2> USE DEF RootedInv
  <2>1. UNCHANGED <<features, blocks, memory, entries, allocated, temporaries, operand, returning,
                    codePanicked>>
      BY <1>1 DEF codeVars
  <2>2. CodeTypeOK'
      BY <2>1 DEF BlocksShape, CodeTypeOK
  <2>3. /\ BlocksShape' /\ NoHiding' /\ VariableKinds' /\ Lent'
        /\ FunctionBase' = FunctionBase /\ InScope' = InScope /\ Pinned' = Pinned
      BY <2>1, <2>2, SameBlocks DEF BlocksShape
  <2>4. RootedNow' = RootedNow
      BY <2>1, <2>3 DEF RootedNow
  <2>5. AllRooted' /\ OnlyThoseRooted' /\ CodeForgetFinds'
      BY <2>1, <2>4 DEF AllRooted, OnlyThoseRooted, RootsAt, IsFirst, CodeForgetFinds
  <2>6. VariablesAlive'
      BY <2>1, <2>3 DEF VariablesAlive, Values
  <2> QED
      BY <2>3, <2>5, <2>6
<1>2. CASE CodeNext
  <2>1. ~codePanicked
      BY <1>2 DEF CodeNext
  <2>2. ASSUME NEW kind \in Kinds, NEW bound \in Bindings, Enter(kind, bound) PROVE RootedInv'
      BY <2>1, <2>2, CodeEnterKeeps
  <2>10. ASSUME NEW o \in Objects, Allocate(o) PROVE RootedInv'
      BY <2>1, <2>10, CodeAllocateKeeps
  <2>11. CASE EndStatement
      BY <2>1, <2>11, CodeEndStatementKeeps
  <2>3. ASSUME NEW name \in Names, NEW type \in Types, NEW o \in PointerValue,
               Let(name, type, o)
        PROVE  RootedInv'
      BY <2>1, <2>3, CodeLetKeeps
  <2>4. ASSUME NEW a \in StackAddresses, NEW o \in PointerValue, Reassign(a, o) PROVE RootedInv'
      BY <2>1, <2>4, CodeAssignKeeps
  <2>5. CASE ExitBlock
      BY <2>1, <2>5, CodeExitBlockKeeps
  <2>6. CASE Top > 0 /\ Break
      BY <2>1, <2>6, CodeBreakKeeps
  <2>7. ASSUME NEW o \in PointerValue, Return(o) PROVE RootedInv'
      BY <2>1, <2>7, CodeReturnKeeps
  <2>8. CASE Leave
      BY <2>1, <2>8, CodeLeaveKeeps
  <2>9. CASE Collect
      BY <2>1, <2>9, CodeCollectKeeps
  <2> QED
      BY <1>2, <2>2, <2>3, <2>4, <2>5, <2>6, <2>7, <2>8, <2>9, <2>10, <2>11 DEF CodeNext
<1> QED
    BY <1>1, <1>2

LEMMA RootedInvImplies ==
    ASSUME RootedInv PROVE RootsInScope /\ CodeForgetFinds /\ VariablesAlive
<1> USE DEF RootedInv
<1>1. ASSUME ~returning PROVE RootedNow = Pinned
    BY <1>1 DEF RootedNow
<1>3. DeclaredPointers = Pinned
  <2>1. ASSUME NEW a \in InScope
        PROVE  Locals(a[1])[a[2]].pinned <=>
               Locals(a[1])[a[2]].type = "pointer" /\ ~Locals(a[1])[a[2]].bound
    <3>1. VariableKind(a[1], a[2])
        BY DEF InScope, VariableKinds
    <3> QED
        BY <3>1 DEF VariableKind
  <2> QED
      BY <2>1 DEF DeclaredPointers, Pinned
<1>2. ASSUME ~returning, features \cap {"break", "shadow"} = {}, NEW a \in StackAddresses
      PROVE  Cardinality(RootsAt(a)) = IF a \in Pinned THEN 1 ELSE 0
  <2>1. ASSUME NEW i \in RootsAt(a)
        PROVE  i \in 1..Len(entries) /\ entries[i].ptr = a /\ a \in Pinned /\ IsFirst(entries, i)
      BY <1>1, <1>2 DEF OnlyThoseRooted, RootsAt
  <2>2. CASE a \in Pinned
    <3>1. PICK i : i \in RootsAt(a)
        BY <1>1, <1>2, <2>2 DEF AllRooted
    <3>2. ASSUME NEW j \in RootsAt(a) PROVE j = i
      <4>1. i \in Nat /\ j \in Nat /\ i >= 1 /\ j >= 1 /\ entries[i].ptr = entries[j].ptr
          BY <2>1, <3>1
      <4>2. ~ (j \in 1..(i - 1)) /\ ~ (i \in 1..(j - 1))
          BY <2>1, <3>1, <4>1 DEF IsFirst
      <4> QED
          BY <4>1, <4>2
    <3>3. RootsAt(a) = {i}
        BY <3>1, <3>2
    <3> QED
        BY <2>2, <3>3, FS_Singleton
  <2>3. CASE a \notin Pinned
    <3>1. RootsAt(a) = {}
        BY <2>1, <2>3
    <3> QED
        BY <2>3, <3>1, FS_EmptySet
  <2> QED
      BY <2>2, <2>3
<1> QED
    BY <1>1, <1>2, <1>3 DEF RootsInScope, BlocksShape, AllRooted

-----------------------------------------------------------------------------
(* The table of the generated code is the collector's                       *)

\* What forgetting does to the entries, whatever their addresses are.
LEMMA ForgottenEntries ==
    ASSUME NEW T, NEW t \in Seq([inUse : BOOLEAN, ptr : T]), NEW A, NEW f, f = ForgottenAll(t, A)
    PROVE  /\ f \in Seq([inUse : BOOLEAN, ptr : T]) /\ Len(f) = Len(t)
           /\ f \in [1..Len(t) -> [inUse : BOOLEAN, ptr : T]]
           /\ \A i \in 1..Len(t) :
                /\ f[i].ptr = t[i].ptr
                /\ IsFirst(f, i) <=> IsFirst(t, i)
                /\ f[i] = IF t[i].ptr \in A /\ IsFirst(t, i)
                          THEN [inUse |-> FALSE, ptr |-> t[i].ptr] ELSE t[i]
<1> DEFINE E == [inUse : BOOLEAN, ptr : T]
<1>1. Len(t) \in Nat /\ \A i \in 1..Len(t) : t[i] \in E
    BY LenProperties, ElementOfSeq
<1>2. f = [i \in 1..Len(t) |-> IF t[i].ptr \in A /\ IsFirst(t, i)
                               THEN [inUse |-> FALSE, ptr |-> t[i].ptr] ELSE t[i]]
    BY DEF ForgottenAll
<1>3. ASSUME NEW i \in 1..Len(t)
      PROVE  /\ f[i] \in E /\ f[i].ptr = t[i].ptr
             /\ f[i] = IF t[i].ptr \in A /\ IsFirst(t, i)
                       THEN [inUse |-> FALSE, ptr |-> t[i].ptr] ELSE t[i]
  <2>1. t[i].ptr \in T
      BY <1>1
  <2> QED
      BY <1>1, <1>2, <2>1
<1>4. f \in [1..Len(t) -> E]
    BY <1>2, <1>3
<1>5. f \in Seq(E) /\ Len(f) = Len(t)
    BY <1>1, <1>4
<1>6. ASSUME NEW i \in 1..Len(t) PROVE IsFirst(f, i) <=> IsFirst(t, i)
  <2>1. \A j \in 1..(i - 1) : j \in 1..Len(t)
      BY <1>1
  <2> QED
      BY <1>3, <2>1 DEF IsFirst
<1> QED
    BY <1>3, <1>4, <1>5, <1>6

\* A call of remember or forget, as the collector's module has it, does what
\* RootScopes takes it to do (eyot-runtime-gc.c:369-407).
THEOREM TablesAgree ==
    ASSUME TypeOK, NEW p \in Addresses
    PROVE  /\ Remember(p) => slots' = Remembered(slots, p)
           /\ Forget(p) => /\ slots' = ForgottenAll(slots, {p})
                           /\ Finds(slots, p) => panicked' = panicked
                           /\ ~ Finds(slots, p) => panicked'
<1> DEFINE n == Len(slots)
<1>1. n \in Nat /\ \A i \in 1..n : slots[i] \in Slot
    BY TableShape
<1>2. slots \in Seq(Slot) /\ slots \in [1..n -> Slot]
    BY DEF TypeOK
<1>3. EntryFor(p) = Entry(p)
    BY DEF EntryFor, Entry
<1>4. ASSUME Remember(p) PROVE slots' = Remembered(slots, p)
  <2> DEFINE free == {i \in 1..n : ~slots[i].inUse}
  <2>1. Remembered(slots, p) =
            IF free = {} THEN Append(slots, Entry(p)) ELSE [slots EXCEPT ![Min(free)] = Entry(p)]
      BY <1>3 DEF Remembered
  <2>2. CASE \A i \in 1..n : slots[i].inUse
    <3>1. free = {} /\ slots' = Append(slots, Entry(p))
        BY <1>4, <2>2 DEF Remember, FirstFree
    <3> QED
        BY <2>1, <3>1
  <2>3. CASE ~ \A i \in 1..n : slots[i].inUse
    <3>1. PICK i \in 1..n : FirstFree(i) /\ slots' = [slots EXCEPT ![i] = Entry(p)]
        BY <1>4, <2>3 DEF Remember
    <3>2. i \in free /\ free \in SUBSET Nat /\ \A k \in free : ~ (k < i)
        BY <3>1 DEF FirstFree
    <3>3. free # {}
        BY <3>2
    <3>4. PICK m : m = Min(free)
        OBVIOUS
    <3>5. m \in free /\ m <= i
      <4> HIDE DEF free
      <4> QED
          BY <3>2, <3>3, <3>4, Smallest
    <3>6. m \in Nat /\ ~ (m < i)
        BY <3>2, <3>5
    <3>7. m = i
        BY <3>5, <3>6
    <3> QED
        BY <2>1, <3>1, <3>3, <3>4, <3>7
  <2> QED
      BY <2>2, <2>3
<1>5. ASSUME Forget(p)
      PROVE  /\ slots' = ForgottenAll(slots, {p})
             /\ Finds(slots, p) => panicked' = panicked
             /\ ~ Finds(slots, p) => panicked'
  <2>1. PICK f : f = ForgottenAll(slots, {p})
      OBVIOUS
  <2>2. /\ f \in [1..n -> Slot]
        /\ \A i \in 1..n : f[i] = IF slots[i].ptr \in {p} /\ IsFirst(slots, i)
                                  THEN [inUse |-> FALSE, ptr |-> slots[i].ptr] ELSE slots[i]
    <3>1. PICK T : T = Addresses \cup {NoAddress}
        OBVIOUS
    <3>2. slots \in Seq([inUse : BOOLEAN, ptr : T]) /\ Slot = [inUse : BOOLEAN, ptr : T]
        BY <1>2, <3>1 DEF Slot
    <3> QED
        BY <2>1, <3>2, ForgottenEntries
  <2>3. ASSUME NEW i \in 1..n
        PROVE  Found(p, i) <=> slots[i].ptr \in {p} /\ IsFirst(slots, i)
    <3>1. \A j : j \in 1..(i - 1) <=> j \in 1..n /\ j < i
        BY <1>1
    <3> QED
        BY <3>1 DEF Found, IsFirst
  <2>4. CASE \E i \in 1..n : Found(p, i)
    <3>1. PICK i \in 1..n : /\ Found(p, i) /\ UNCHANGED panicked
                            /\ slots' = [slots EXCEPT ![i].inUse = FALSE]
        BY <1>5, <2>4 DEF Forget
    <3>2. \A k \in 1..n : Found(p, k) => k = i
        BY <3>1 DEF Found
    <3>3. slots' \in [1..n -> Slot] /\ slots'[i] = [inUse |-> FALSE, ptr |-> slots[i].ptr]
          /\ \A k \in 1..n : k # i => slots'[k] = slots[k]
        BY <1>1, <1>2, <3>1 DEF Slot
    <3>4. \A k \in 1..n : slots'[k] = f[k]
        BY <2>2, <2>3, <3>1, <3>2, <3>3
    <3>5. slots' = f
        BY <2>2, <3>3, <3>4
    <3>6. Finds(slots, p)
        BY <3>1 DEF Finds, Found
    <3> QED
        BY <2>1, <3>1, <3>5, <3>6
  <2>5. CASE \A i \in 1..n : ~ Found(p, i)
    <3>1. slots' = slots /\ panicked' = TRUE
        BY <1>5, <2>5 DEF Forget
    <3>2. \A k \in 1..n : slots[k] = f[k]
        BY <2>2, <2>3, <2>5
    <3>3. slots = f
        BY <1>2, <2>2, <3>2
    <3>4. ~ Finds(slots, p)
      <4>1. SUFFICES ASSUME Finds(slots, p) PROVE FALSE
          OBVIOUS
      <4> DEFINE D == {i \in 1..n : slots[i].ptr = p}
      <4>2. D \in SUBSET Nat /\ D # {}
          BY <4>1 DEF Finds
      <4>3. PICK k : k = Min(D)
          OBVIOUS
      <4>4. k \in D /\ \A y \in D : k <= y
        <5> HIDE DEF D
        <5> QED
            BY <4>2, <4>3, Smallest
      <4>5. ASSUME NEW j \in 1..n, j < k PROVE slots[j].ptr # p
        <5>1. k \in Nat /\ ~ (k <= j)
            BY <4>4, <4>5
        <5> QED
            BY <4>4, <5>1
      <4>6. Found(p, k) /\ k \in 1..n
          BY <4>4, <4>5 DEF Found
      <4> QED
          BY <2>5, <4>6
    <3> QED
        BY <2>1, <3>1, <3>3, <3>4
  <2> QED
      BY <2>4, <2>5
<1> QED
    BY <1>4, <1>5

\* The end of a block and a return forget several variables by calls that follow
\* each other; RootScopes makes one step of them.  In whatever order they are
\* made, and if two are about the same address, the table is the same, and so is
\* what is found (write-c.go:95-122).
THEOREM ForgetsAddUp ==
    ASSUME NEW t \in Seq(CodeSlot), NEW A, NEW B
    PROVE  /\ ForgottenAll(ForgottenAll(t, A), B) = ForgottenAll(t, A \cup B)
           /\ \A a : Finds(ForgottenAll(t, A), a) <=> Finds(t, a)
<1> DEFINE n == Len(t)
<1>1. PICK f : f = ForgottenAll(t, A)
    OBVIOUS
<1>2. PICK g : g = ForgottenAll(f, B)
    OBVIOUS
<1>3. PICK h : h = ForgottenAll(t, A \cup B)
    OBVIOUS
<1>4. PICK T : T = StackAddresses
    OBVIOUS
<1>5. t \in Seq([inUse : BOOLEAN, ptr : T])
    BY <1>4 DEF CodeSlot
<1>6. /\ f \in Seq([inUse : BOOLEAN, ptr : T]) /\ Len(f) = Len(t)
      /\ \A i \in 1..Len(t) : IsFirst(f, i) <=> IsFirst(t, i)
      /\ \A i \in 1..Len(t) :
           /\ f[i].ptr = t[i].ptr
           /\ f[i] = IF t[i].ptr \in A /\ IsFirst(t, i)
                     THEN [inUse |-> FALSE, ptr |-> t[i].ptr] ELSE t[i]
  <2>1. f \in Seq([inUse : BOOLEAN, ptr : T]) /\ Len(f) = Len(t)
      BY <1>1, <1>5, ForgottenEntries
  <2>2. \A i \in 1..Len(t) : IsFirst(f, i) <=> IsFirst(t, i)
      BY <1>1, <1>5, ForgottenEntries
  <2>3. \A i \in 1..Len(t) : f[i] = IF t[i].ptr \in A /\ IsFirst(t, i)
                                    THEN [inUse |-> FALSE, ptr |-> t[i].ptr] ELSE t[i]
      BY <1>1, <1>5, ForgottenEntries
  <2>4. ASSUME NEW i \in 1..Len(t) PROVE f[i].ptr = t[i].ptr
    <3>1. \/ f[i] = [inUse |-> FALSE, ptr |-> t[i].ptr]
          \/ f[i] = t[i]
        BY <2>3
    <3> QED
        BY <3>1
  <2> QED
      BY <2>1, <2>2, <2>3, <2>4
<1>7. /\ g \in [1..n -> [inUse : BOOLEAN, ptr : T]]
      /\ \A i \in 1..n : g[i] = IF f[i].ptr \in B /\ IsFirst(f, i)
                                THEN [inUse |-> FALSE, ptr |-> f[i].ptr] ELSE f[i]
  <2>1. f \in Seq([inUse : BOOLEAN, ptr : T])
      BY <1>6
  <2>2. g \in [1..Len(f) -> [inUse : BOOLEAN, ptr : T]]
      BY <1>2, <2>1, ForgottenEntries
  <2>3. \A i \in 1..Len(f) : g[i] = IF f[i].ptr \in B /\ IsFirst(f, i)
                                    THEN [inUse |-> FALSE, ptr |-> f[i].ptr] ELSE f[i]
      BY <1>2, <2>1, ForgottenEntries
  <2> QED
      BY <1>6, <2>2, <2>3
<1>8. PICK AB : AB = A \cup B
    OBVIOUS
<1>9. /\ h \in [1..n -> [inUse : BOOLEAN, ptr : T]]
      /\ \A i \in 1..n : h[i] = IF t[i].ptr \in AB /\ IsFirst(t, i)
                                THEN [inUse |-> FALSE, ptr |-> t[i].ptr] ELSE t[i]
  <2>1. h = ForgottenAll(t, AB)
      BY <1>3, <1>8
  <2> QED
      BY <1>5, <2>1, ForgottenEntries
<1>10. ASSUME NEW i \in 1..n PROVE g[i] = h[i]
    BY <1>6, <1>7, <1>8, <1>9
<1>11. g = h
    BY <1>7, <1>9, <1>10
<1>12. \A a : Finds(f, a) <=> Finds(t, a)
    BY <1>6 DEF Finds
<1> QED
    BY <1>1, <1>2, <1>3, <1>11, <1>12

-----------------------------------------------------------------------------
(* What follows                                                            *)

\* RootedInv holds whatever code is generated and wherever a collection runs.
THEOREM CodeInvariance == CodeSpec => []RootedInv
<1>1. CodeInit => RootedInv
    BY CodeInitEstablishes
<1>2. RootedInv /\ [CodeNext]_codeVars => RootedInv'
    BY CodeNextKeeps
<1> QED
    BY <1>1, <1>2, PTL DEF CodeSpec

\* A pointer variable that let or const has declared is a root while it is in
\* scope, however the blocks are left; without break and hidden names it is one
\* once, and nothing else is a root: no parameter, no iterator and no address
\* that is out of scope (write-c.go:95-122, 614-627).
THEOREM PointersAreRoots == CodeSpec => []RootsInScope
    BY CodeInvariance, RootedInvImplies, PTL

\* Generated code forgets only what it remembered: the process does not end
\* with "The pointer is not found in the stack list" (eyot-runtime-gc.c:406),
\* unless a declared pointer is hidden by a variable that is not remembered.
THEOREM ForgetsWhatIsRemembered == CodeSpec => []CodeForgetFinds
    BY CodeInvariance, RootedInvImplies, PTL

\* A collection frees nothing that a variable, the statement at work or the
\* operand of a return refers to, although parameters are no roots: they hold
\* what a declared variable of a caller holds.  That is so in programs in which
\* parameters are not assigned and are given what variables hold, loops do not
\* iterate over pointers, other types hold no pointers and no function is called
\* in the middle of a statement that has objects in its hands (write-c.go:764,
\* 852-858, 1182-1209).
THEOREM VariablesStayAlive == CodeSpec => []VariablesAlive
    BY CodeInvariance, RootedInvImplies, PTL
=============================================================================
