-------------------------- MODULE CpuWorker_proofs ----------------------------
(***************************************************************************)
(* Proofs, for any number of callers and any values, that the counter of a *)
(* CPU worker is what its drain may wait for, that the worker implements   *)
(* the abstract one, that a drain waits for all that was sent before and   *)
(* goes on with each value, and that the thread of a finalised worker does.*)
(***************************************************************************)
EXTENDS CpuWorker, FiniteSetTheorems, SequenceTheorems, TLAPS

-----------------------------------------------------------------------------
(* Queues.  Values move through a chain of queues in the order in which    *)
(* they entered the first; each queue is a segment of the history of all   *)
(* values that entered, and a step moves the boundary between two.         *)

\* q is what comes in s after its first k elements, as far as q goes.
Segment(q, s, k) ==
    /\ k + Len(q) <= Len(s)
    /\ \A i \in 1..Len(q) : q[i] = s[k + i]

\* An empty queue is a segment anywhere in the history.
LEMMA EmptySegment ==
    ASSUME NEW S, NEW s \in Seq(S), NEW k \in Nat, k <= Len(s)
    PROVE  Segment(<<>>, s, k)
BY DEF Segment

\* Taking the head of a queue names the value, and moves the boundary by one.
LEMMA SegmentTail ==
    ASSUME NEW S, NEW s \in Seq(S), NEW q \in Seq(S), NEW k \in Nat,
           Segment(q, s, k), q # <<>>
    PROVE  /\ Head(q) = s[k + 1] /\ Head(q) \in S
           /\ Tail(q) \in Seq(S) /\ Len(Tail(q)) = Len(q) - 1
           /\ Segment(Tail(q), s, k + 1)
<1>1. /\ Head(q) \in S /\ Tail(q) \in Seq(S)
      /\ Len(Tail(q)) = Len(q) - 1
      /\ \A i \in 1 .. Len(Tail(q)) : Tail(q)[i] = q[i+1]
      /\ Len(q) \in Nat \ {0}
    BY HeadTailProperties, EmptySeq
<1>2. Head(q) = q[1]
    OBVIOUS
<1>3. Head(q) = s[k + 1]
    BY <1>1, <1>2 DEF Segment
<1>4. (k + 1) + Len(Tail(q)) <= Len(s)
    BY <1>1 DEF Segment
<1>5. ASSUME NEW i \in 1..Len(Tail(q)) PROVE Tail(q)[i] = s[(k + 1) + i]
    <2>1. i + 1 \in 1..Len(q) /\ k + (i + 1) = (k + 1) + i
        BY <1>1
    <2> QED
        BY <2>1, <1>1 DEF Segment
<1> QED
    BY <1>1, <1>3, <1>4, <1>5 DEF Segment

\* A queue takes the value that comes next in the history.
LEMMA SegmentAppend ==
    ASSUME NEW S, NEW s \in Seq(S), NEW q \in Seq(S), NEW k \in Nat,
           Segment(q, s, k), k + Len(q) < Len(s), NEW v \in S,
           v = s[k + Len(q) + 1]
    PROVE  /\ Append(q, v) \in Seq(S) /\ Len(Append(q, v)) = Len(q) + 1
           /\ Segment(Append(q, v), s, k)
<1>1. /\ Append(q, v) \in Seq(S)
      /\ Len(Append(q, v)) = Len(q) + 1
      /\ \A i \in 1 .. Len(q) : Append(q, v)[i] = q[i]
      /\ Append(q, v)[Len(q) + 1] = v
      /\ Len(q) \in Nat
    BY AppendProperties, LenProperties
<1>2. ASSUME NEW i \in 1..(Len(q) + 1) PROVE Append(q, v)[i] = s[k + i]
    BY <1>1 DEF Segment
<1> QED
    BY <1>1, <1>2, LenProperties DEF Segment

\* A segment stays one when the history grows.
LEMMA SegmentStays ==
    ASSUME NEW S, NEW s \in Seq(S), NEW q \in Seq(S), NEW k \in Nat,
           Segment(q, s, k), NEW r \in Seq(S)
    PROVE  /\ s \o r \in Seq(S) /\ Len(s \o r) = Len(s) + Len(r)
           /\ Segment(q, s \o r, k)
<1>1. /\ s \o r \in Seq(S)
      /\ Len(s \o r) = Len(s) + Len(r)
      /\ \A i \in 1 .. Len(s) + Len(r) :
            (s \o r)[i] = IF i <= Len(s) THEN s[i] ELSE r[i - Len(s)]
      /\ Len(q) \in Nat /\ Len(r) \in Nat /\ Len(s) \in Nat
    BY ConcatProperties, LenProperties
<1> QED
    BY <1>1 DEF Segment

\* The history before a step is a prefix of the history after it.
LEMMA PrefixOfConcat ==
    ASSUME NEW S, NEW s \in Seq(S), NEW r \in Seq(S)
    PROVE  /\ s \o r \in Seq(S) /\ Len(s) <= Len(s \o r)
           /\ s = SubSeq(s \o r, 1, Len(s))
<1>1. /\ s \o r \in Seq(S)
      /\ Len(s \o r) = Len(s) + Len(r)
      /\ \A i \in 1 .. Len(s) + Len(r) :
            (s \o r)[i] = IF i <= Len(s) THEN s[i] ELSE r[i - Len(s)]
      /\ Len(r) \in Nat /\ Len(s) \in Nat
    BY ConcatProperties, LenProperties
<1> DEFINE p == SubSeq(s \o r, 1, Len(s))
<1>2. \A i \in 1..Len(s) : i \in 1..Len(s \o r)
    BY <1>1
<1>3. p = [i \in 1..Len(s) |-> (s \o r)[i]]
    BY <1>1
<1>4. \A i \in 1..Len(s) : p[i] = s[i]
    BY <1>1, <1>3
<1>5. p = s
    BY <1>1, <1>3, <1>4
<1> QED
    BY <1>1, <1>5

-----------------------------------------------------------------------------
(* The inductive invariant                                                 *)

\* The callers that have taken a value and not counted it down.
Taken == {c \in Callers : cpc[c] = "count"}

ResultSet == {W!Result(v) : v \in Values}

\* What the accepted values become, in their order.
Results == [i \in 1..Len(accepted) |-> W!Result(accepted[i])]

\* The accepted values, oldest first, are delivered, in the output pipe, in the
\* worker thread and in the input pipe.
InOrder ==
    /\ accepted \in Seq(Values) /\ delivered \in Seq(ResultSet)
    /\ Len(accepted) = Len(delivered) + Len(output) + Len(item) + Len(input)
    /\ Segment(delivered, Results, 0)
    /\ Segment(output, Results, Len(delivered))
    /\ Segment(item, accepted, Len(delivered) + Len(output))
    /\ Segment(input, accepted, Len(delivered) + Len(output) + Len(item))

\* Where a caller is tells what it still has to do.
CallsKnown ==
    /\ IsFiniteSet(Places(todo))
    /\ \A c \in Callers :
        /\ cpc[c] = "put" <=> todo[c] # <<>>
        /\ cpc[c] \in {"take", "count"} => need[c] >= 1
        /\ c \in draining => cpc[c] \in {"take", "count"}

\* A drain still has enough receives to make to see everything that was in the
\* worker when it began, whoever takes the values.
DrainCovers ==
    \A c \in draining :
        asked[c] <= Len(delivered) + need[c] - (IF cpc[c] = "count" THEN 1 ELSE 0)

\* The inductive invariant.  That a drain covers all needs the counter when the
\* drain begins; that the counter stays a natural number needs CallsKnown.
IInv == /\ UnderwayIsOutstanding
        /\ InOrder
        /\ CallsKnown
        /\ DrainCovers

-----------------------------------------------------------------------------
(* Facts about the values callers hold and the callers that took one       *)

LEMMA TakenFinite == IsFiniteSet(Taken) /\ Cardinality(Taken) \in Nat
BY CpuWorkerAssumption, FS_Subset, FS_CardinalityType DEF Taken

LEMMA TakenEnters ==
    ASSUME TypeOK, NEW c \in Callers, cpc[c] # "count",
           cpc' = [cpc EXCEPT ![c] = "count"]
    PROVE  Cardinality(Taken') = Cardinality(Taken) + 1
<1>1. Taken' = Taken \cup {c} /\ c \notin Taken
    BY DEF TypeOK, Taken
<1> QED
    BY <1>1, TakenFinite, FS_AddElement

LEMMA TakenLeaves ==
    ASSUME TypeOK, NEW c \in Callers, cpc[c] = "count",
           NEW q \in {"idle", "take"}, cpc' = [cpc EXCEPT ![c] = q]
    PROVE  /\ Cardinality(Taken') = Cardinality(Taken) - 1
           /\ Cardinality(Taken) \in Nat \ {0}
<1>1. Taken' = Taken \ {c} /\ c \in Taken
    BY DEF TypeOK, Taken
<1>2. Cardinality(Taken) # 0
    BY <1>1, TakenFinite, FS_EmptySet
<1> QED
    BY <1>1, <1>2, TakenFinite, FS_RemoveElement

LEMMA TakenStays ==
    ASSUME TypeOK, NEW c \in Callers, cpc[c] # "count",
           NEW q \in {"idle", "put", "take"}, cpc' = [cpc EXCEPT ![c] = q]
    PROVE  Taken' = Taken
BY DEF TypeOK, Taken

\* A sequence put where there was none adds its length to the sum.
LEMMA PlacesFilled ==
    ASSUME NEW f \in [Callers -> Seq(Values)], IsFiniteSet(Places(f)),
           NEW c \in Callers, f[c] = <<>>, NEW vs \in Seq(Values),
           NEW g, g = [f EXCEPT ![c] = vs]
    PROVE  /\ IsFiniteSet(Places(g))
           /\ SumLen(g) = SumLen(f) + Len(vs)
<1> DEFINE new == {c} \X (1..Len(vs))
<1>1. Places(g) = Places(f) \cup new
    BY DEF Places
<1>2. Places(f) \cap new = {}
    BY DEF Places
<1>3. Len(vs) \in Nat
    BY LenProperties
<1>4. IsFiniteSet(new) /\ Cardinality(new) = Len(vs)
    <2>1. IsFiniteSet({c}) /\ Cardinality({c}) = 1
        BY FS_Singleton
    <2>2. /\ IsFiniteSet(1..Len(vs))
          /\ Cardinality(1..Len(vs)) = IF 1 > Len(vs) THEN 0 ELSE Len(vs) - 1 + 1
        <3>1. 1 \in Int /\ Len(vs) \in Int
            BY <1>3
        <3> QED
            BY <3>1, FS_Interval, Zenon
    <2>3. Cardinality(1..Len(vs)) = Len(vs)
        BY <1>3, <2>2
    <2>4. /\ IsFiniteSet({c} \X (1..Len(vs)))
          /\ Cardinality({c} \X (1..Len(vs))) = Cardinality({c}) * Cardinality(1..Len(vs))
        BY <2>1, <2>2, FS_Product
    <2>5. 1 * Len(vs) = Len(vs)
        BY <1>3
    <2> QED
        BY <2>1, <2>3, <2>4, <2>5
<1> HIDE DEF new
<1>5. /\ IsFiniteSet(Places(f) \cup new)
      /\ Cardinality(Places(f) \cup new)
            = Cardinality(Places(f)) + Cardinality(new) - Cardinality(Places(f) \cap new)
    BY <1>4, FS_Union
<1>6. Cardinality({}) = 0 /\ Cardinality(Places(f)) \in Nat
    BY FS_EmptySet, FS_CardinalityType
<1>7. Cardinality(Places(f) \cap new) = 0
    BY <1>2, <1>6
<1>8. Cardinality(Places(g)) = Cardinality(Places(f)) + Len(vs)
    <2>1. Cardinality(Places(g)) = Cardinality(Places(f) \cup new)
        BY <1>1
    <2>2. Cardinality(Places(f) \cup new) = Cardinality(Places(f)) + Len(vs) - 0
        BY <1>4, <1>5, <1>7, Zenon
    <2> QED
        BY <2>1, <2>2, <1>3, <1>6
<1> QED
    BY <1>1, <1>5, <1>8 DEF SumLen

\* The tail of one sequence takes one off the sum.
LEMMA PlacesTail ==
    ASSUME NEW f \in [Callers -> Seq(Values)], IsFiniteSet(Places(f)),
           NEW c \in Callers, f[c] # <<>>,
           NEW g, g = [f EXCEPT ![c] = Tail(@)]
    PROVE  /\ IsFiniteSet(Places(g))
           /\ SumLen(g) = SumLen(f) - 1
<1>1. /\ Len(f[c]) \in Nat \ {0}
      /\ Len(Tail(f[c])) = Len(f[c]) - 1
    BY HeadTailProperties, EmptySeq
<1>2. Places(g) = Places(f) \ {<<c, Len(f[c])>>}
    <2>1. \A d \in Callers : Len(g[d]) = IF d = c THEN Len(f[c]) - 1 ELSE Len(f[d])
        BY <1>1
    <2> QED
        BY <1>1, <2>1 DEF Places
<1>3. <<c, Len(f[c])>> \in Places(f)
    BY <1>1 DEF Places
<1> DEFINE last == <<c, Len(f[c])>>
<1> HIDE DEF last
<1>4. Places(g) = Places(f) \ {last} /\ last \in Places(f)
    BY <1>2, <1>3 DEF last
<1>5. /\ IsFiniteSet(Places(f) \ {last})
      /\ Cardinality(Places(f) \ {last}) = Cardinality(Places(f)) - 1
    BY <1>4, FS_RemoveElement
<1> QED
    BY <1>4, <1>5 DEF SumLen

\* The lengths and counts the accounting is about are natural numbers.
LEMMA Numbers ==
    ASSUME IInv
    PROVE  /\ TypeOK
           /\ underway \in Nat /\ SumLen(todo) \in Nat /\ Cardinality(Taken) \in Nat
           /\ Len(input) \in Nat /\ Len(item) \in Nat /\ Len(output) \in Nat
           /\ Len(accepted) \in Nat /\ Len(delivered) \in Nat
           /\ underway = SumLen(todo) + Len(input) + Len(item) + Len(output)
                         + Cardinality(Taken)
           /\ Len(accepted) = Len(delivered) + Len(output) + Len(item) + Len(input)
<1>1. TypeOK /\ underway = SumLen(todo) + Len(input) + Len(item) + Len(output)
                           + Cardinality(Taken)
    BY DEF IInv, UnderwayIsOutstanding, Taken
<1>2. SumLen(todo) \in Nat
    BY FS_CardinalityType DEF IInv, CallsKnown, SumLen
<1> QED
    BY <1>1, <1>2, TakenFinite, LenProperties DEF IInv, TypeOK, InOrder

LEMMA ResultsType ==
    ASSUME accepted \in Seq(Values)
    PROVE  Results \in Seq(ResultSet) /\ Len(Results) = Len(accepted)
<1>1. Len(accepted) \in Nat /\ \A i \in 1..Len(accepted) : accepted[i] \in Values
    OBVIOUS
<1>2. Results \in [1..Len(accepted) -> ResultSet]
    BY <1>1 DEF Results, ResultSet
<1> QED
    BY <1>1, <1>2 DEF Results

\* One more value is accepted, and one more result is due.
LEMMA ResultsGrow ==
    ASSUME accepted \in Seq(Values), NEW v \in Values, accepted' = accepted \o <<v>>
    PROVE  Results' = Results \o <<W!Result(v)>>
<1>1. /\ accepted' \in Seq(Values)
      /\ Len(accepted') = Len(accepted) + 1 /\ Len(accepted) \in Nat
      /\ \A i \in 1..Len(accepted) : accepted'[i] = accepted[i]
      /\ accepted'[Len(accepted) + 1] = v
    BY ConcatProperties, LenProperties
<1>2. Results \in Seq(ResultSet) /\ Len(Results) = Len(accepted)
    BY ResultsType
<1>3. W!Result(v) \in ResultSet
    BY DEF ResultSet
<1>4. Results' \in Seq(ResultSet) /\ Len(Results') = Len(accepted) + 1
    BY <1>1, ResultsType DEF Results, ResultSet
<1>5. /\ Results \o <<W!Result(v)>> \in Seq(ResultSet)
      /\ Len(Results \o <<W!Result(v)>>) = Len(accepted) + 1
      /\ \A i \in 1..Len(accepted) + 1 : (Results \o <<W!Result(v)>>)[i] =
            IF i <= Len(accepted) THEN Results[i] ELSE W!Result(v)
    BY <1>1, <1>2, <1>3, ConcatProperties
<1>6. ASSUME NEW i \in 1..Len(accepted) + 1
      PROVE  Results'[i] = (Results \o <<W!Result(v)>>)[i]
    <2>1. Results'[i] = W!Result(accepted'[i])
        BY <1>1 DEF Results, W!Result
    <2> QED
        BY <2>1, <1>1, <1>5 DEF Results
<1> QED
    BY <1>4, <1>5, <1>6, SeqEqual

-----------------------------------------------------------------------------
(* One lemma per action                                                    *)

LEMMA InitEstablishes == Init => IInv
<1> SUFFICES ASSUME Init PROVE IInv
    OBVIOUS
<1>1. TypeOK
    <2>1. setting \in Setting
        BY CpuWorkerAssumption DEF Init
    <2>2. input \in Seq(Values) /\ output \in Seq({W!Result(v) : v \in Values})
        BY DEF Init
    <2>3. item \in Seq(Values) /\ Len(item) = (IF wpc = "send" THEN 1 ELSE 0)
        BY DEF Init
    <2>4. /\ cpc \in [Callers -> CallerPCs] /\ todo \in [Callers -> Seq(Values)]
          /\ need \in [Callers -> Nat] /\ asked \in [Callers -> Nat]
        BY DEF Init, CallerPCs
    <2> QED
        BY <2>1, <2>2, <2>3, <2>4 DEF Init, TypeOK, WorkerPCs
<1>2. Places(todo) = {} /\ Taken = {}
    BY DEF Init, Places, Taken
<1>3. UnderwayIsOutstanding
    <2>1. SumLen(todo) = 0 /\ Cardinality(Taken) = 0
        BY <1>2, FS_EmptySet DEF SumLen
    <2> QED
        BY <1>1, <2>1 DEF Init, UnderwayIsOutstanding, Taken
<1>4. InOrder
    BY DEF Init, InOrder, Segment, Results
<1>5. CallsKnown
    BY <1>2, FS_EmptySet DEF Init, CallsKnown
<1>6. DrainCovers
    BY DEF Init, DrainCovers
<1> QED
    BY <1>3, <1>4, <1>5, <1>6 DEF IInv

\* What a step that leaves the queues and their history alone keeps.
LEMMA InOrderStays ==
    ASSUME InOrder, UNCHANGED <<accepted, delivered, output, item, input>>
    PROVE  InOrder'
BY DEF InOrder, Results, Segment

\* What a step of a caller leaves to be shown of the types.
LEMMA CallerTypes ==
    ASSUME TypeOK, UNCHANGED <<setting, inClosed, outClosed, wpc, item, pinned, panicked>>,
           underway' \in Nat, input' \in Seq(Values), output' \in Seq(ResultSet),
           cpc' \in [Callers -> CallerPCs], todo' \in [Callers -> Seq(Values)],
           need' \in [Callers -> Nat], asked' \in [Callers -> Nat],
           draining' \subseteq Consumers
    PROVE  TypeOK'
BY DEF TypeOK, ResultSet, Consumers

LEMMA SendBeginKeeps ==
    ASSUME IInv, NEW c \in Callers, NEW vs \in Batches, SendBegin(c, vs)
    PROVE  IInv'
<1> USE DEF SendBegin, workerThread
<1>1. vs \in Seq(Values) /\ Len(vs) \in Nat /\ (vs = <<>> <=> Len(vs) = 0)
    BY DEF Batches
<1>2. /\ TypeOK /\ todo[c] = <<>> /\ cpc[c] = "idle"
      /\ todo \in [Callers -> Seq(Values)] /\ IsFiniteSet(Places(todo))
    BY Numbers DEF IInv, CallsKnown, TypeOK
<1>3. IsFiniteSet(Places(todo')) /\ SumLen(todo') = SumLen(todo) + Len(vs)
    BY <1>1, <1>2, PlacesFilled
<1>4. underway' = underway + Len(vs) /\ underway' \in Nat
    BY <1>1, Numbers, SMTT(30) DEF Announced
<1>5. TypeOK'
    <2>1. cpc' \in [Callers -> CallerPCs] /\ todo' \in [Callers -> Seq(Values)]
        BY <1>1, <1>2 DEF TypeOK, CallerPCs
    <2> QED
        BY <1>2, <1>4, <2>1, CallerTypes DEF TypeOK, ResultSet
<1>6. Taken' = Taken
    BY <1>2 DEF TypeOK, Taken
<1>7. underway' = SumLen(todo') + Len(input') + Len(item') + Len(output')
                  + Cardinality(Taken')
    <2>1. UNCHANGED <<input, item, output>> /\ Cardinality(Taken') = Cardinality(Taken)
        BY <1>6
    <2> HIDE DEF SendBegin
    <2> QED
        BY <2>1, <1>1, <1>3, <1>4, Numbers, SMTT(30)
<1>8. UnderwayIsOutstanding'
    BY <1>5, <1>7 DEF UnderwayIsOutstanding, Taken
<1>9. CallsKnown'
    BY <1>1, <1>2, <1>3 DEF IInv, CallsKnown, TypeOK
<1>10. DrainCovers'
    BY <1>2 DEF IInv, DrainCovers, CallsKnown, TypeOK
<1> QED
    BY <1>8, <1>9, <1>10, InOrderStays DEF IInv

LEMMA SendOneKeeps ==
    ASSUME IInv, NEW c \in Callers, SendOne(c)
    PROVE  IInv'
<1> USE DEF SendOne, workerThread
<1>1. /\ TypeOK /\ cpc[c] = "put" /\ todo[c] # <<>> /\ c \notin draining
      /\ todo \in [Callers -> Seq(Values)] /\ IsFiniteSet(Places(todo))
    BY Numbers DEF IInv, CallsKnown, TypeOK
<1> DEFINE v == Head(todo[c])
<1>2. /\ v \in Values /\ Tail(todo[c]) \in Seq(Values)
      /\ Len(Tail(todo[c])) = Len(todo[c]) - 1 /\ Len(todo[c]) \in Nat \ {0}
      /\ (Tail(todo[c]) = <<>> <=> Len(todo[c]) = 1)
    <2>1. todo[c] \in Seq(Values)
        BY <1>1
    <2>2. v \in Values /\ Tail(todo[c]) \in Seq(Values)
          /\ Len(Tail(todo[c])) = Len(todo[c]) - 1
        BY <1>1, <2>1, HeadTailProperties
    <2>3. Len(todo[c]) \in Nat \ {0}
        BY <1>1, <2>1, EmptySeq
    <2>4. Tail(todo[c]) = <<>> <=> Len(Tail(todo[c])) = 0
        BY <2>2, EmptySeq
    <2> QED
        BY <2>2, <2>3, <2>4
<1>3. IsFiniteSet(Places(todo')) /\ SumLen(todo') = SumLen(todo) - 1
    BY <1>1, PlacesTail
<1> HIDE DEF v
<1>4. /\ input' = Append(input, v) /\ input \in Seq(Values)
      /\ accepted' = Append(accepted, v) /\ accepted \in Seq(Values)
    BY <1>1 DEF IInv, InOrder, TypeOK, v
<1>5. /\ input' \in Seq(Values) /\ Len(input') = Len(input) + 1
      /\ accepted' \in Seq(Values) /\ Len(accepted') = Len(accepted) + 1
      /\ accepted'[Len(accepted) + 1] = v
    BY <1>2, <1>4, AppendProperties
<1>6. TypeOK'
    <2>1. cpc' \in [Callers -> CallerPCs]
        BY <1>1 DEF TypeOK, CallerPCs
    <2>2. todo' \in [Callers -> Seq(Values)]
        BY <1>1, <1>2
    <2> QED
        BY <1>1, <1>2, <1>5, <2>1, <2>2, CallerTypes DEF TypeOK, ResultSet
<1>7. Taken' = Taken
    BY <1>1 DEF TypeOK, Taken
<1>8. underway' = SumLen(todo') + Len(input') + Len(item') + Len(output')
                  + Cardinality(Taken')
    BY <1>3, <1>5, <1>7, Numbers
<1>9. UnderwayIsOutstanding'
    BY <1>6, <1>8 DEF UnderwayIsOutstanding, Taken
<1>10. InOrder'
    <2>0. UNCHANGED <<delivered, output, item>>
        OBVIOUS
    <2> HIDE DEF SendOne
    <2>1. accepted' = accepted \o <<v>> /\ <<v>> \in Seq(Values)
        BY <1>2, <1>4, AppendIsConcat
    <2>2. Results' = Results \o <<W!Result(v)>> /\ Results \in Seq(ResultSet)
        BY <1>2, <1>4, <2>1, ResultsGrow, ResultsType
    <2>3. <<W!Result(v)>> \in Seq(ResultSet)
        BY <1>2 DEF ResultSet
    <2>4. /\ delivered \in Seq(ResultSet) /\ output \in Seq(ResultSet)
          /\ item \in Seq(Values) /\ Len(delivered) \in Nat
          /\ Len(output) \in Nat /\ Len(item) \in Nat
        BY <1>1, Numbers DEF IInv, InOrder, TypeOK, ResultSet
    <2>5. Segment(delivered, Results', 0) /\ Segment(output, Results', Len(delivered))
        BY <2>2, <2>3, <2>4, SegmentStays DEF IInv, InOrder
    <2> DEFINE k == Len(delivered) + Len(output)
               m == k + Len(item)
    <2>6. k \in Nat /\ m \in Nat /\ m + Len(input) = Len(accepted)
        BY <2>4, Numbers
    <2>7. Segment(item, accepted, k) /\ Segment(input, accepted, m)
        BY DEF IInv, InOrder
    <2> HIDE DEF k, m
    <2>8. Segment(item, accepted', k) /\ Segment(input, accepted', m)
        <3>1. accepted \o <<v>> \in Seq(Values) /\ input \in Seq(Values)
            BY <1>4, <2>1, ConcatProperties
        <3>2. Segment(item, accepted \o <<v>>, k) /\ Segment(input, accepted \o <<v>>, m)
            BY <1>4, <2>1, <2>4, <2>6, <2>7, SegmentStays
        <3> QED
            BY <2>1, <3>2
    <2>9. m + Len(input) < Len(accepted') /\ v = accepted'[m + Len(input) + 1]
        BY <1>5, <2>6, Numbers, SMTT(30)
    <2>10. Segment(input', accepted', m)
        BY <1>2, <1>4, <1>5, <2>6, <2>8, <2>9, SegmentAppend
    <2>11. Len(accepted') = Len(delivered) + Len(output) + Len(item) + Len(input')
        BY <1>5, Numbers, SMTT(30)
    <2> QED
        BY <1>5, <2>0, <2>4, <2>5, <2>8, <2>10, <2>11 DEF InOrder, k, m
<1>11. CallsKnown'
    BY <1>1, <1>2, <1>3 DEF IInv, CallsKnown, TypeOK
<1>12. DrainCovers'
    BY <1>1 DEF IInv, DrainCovers, TypeOK
<1> QED
    BY <1>9, <1>10, <1>11, <1>12 DEF IInv

LEMMA ReceiveBeginKeeps ==
    ASSUME IInv, NEW c \in Callers, ReceiveBegin(c)
    PROVE  IInv'
<1> USE DEF ReceiveBegin, workerThread
<1>1. /\ TypeOK /\ cpc[c] = "idle" /\ todo[c] = <<>> /\ c \notin draining
    BY Numbers DEF IInv, CallsKnown, TypeOK
<1>2. TypeOK'
    <2>1. cpc' \in [Callers -> CallerPCs] /\ need' \in [Callers -> Nat]
        BY <1>1 DEF TypeOK, CallerPCs
    <2> QED
        BY <1>1, <2>1, CallerTypes DEF TypeOK, ResultSet
<1>3. Taken' = Taken
    BY <1>1 DEF TypeOK, Taken
<1>4. UnderwayIsOutstanding'
    BY <1>2, <1>3 DEF IInv, UnderwayIsOutstanding, Taken, SumLen, Places
<1>5. CallsKnown'
    BY <1>1 DEF IInv, CallsKnown, TypeOK, Places
<1>6. DrainCovers'
    BY <1>1 DEF IInv, DrainCovers, TypeOK
<1> QED
    BY <1>4, <1>5, <1>6, InOrderStays DEF IInv

\* The counter a drain reads covers what is in the worker at that moment.
LEMMA DrainBeginKeeps ==
    ASSUME IInv, NEW c \in Consumers, c \in Callers, DrainBegin(c)
    PROVE  IInv'
<1> USE DEF DrainBegin, workerThread, Required
<1>1. /\ TypeOK /\ cpc[c] = "idle" /\ todo[c] = <<>> /\ c \notin draining
    BY Numbers DEF IInv, CallsKnown, TypeOK
<1>2. underway \in Nat /\ Len(accepted) \in Nat
      /\ Len(accepted) <= Len(delivered) + underway
    BY Numbers
<1>3. TypeOK'
    <2>1. need' \in [Callers -> Nat] /\ cpc' \in [Callers -> CallerPCs]
        BY <1>1, <1>2 DEF TypeOK, CallerPCs
    <2>2. asked' \in [Callers -> Nat] /\ draining' \subseteq Consumers'
        BY <1>1, <1>2 DEF TypeOK, Consumers
    <2> QED
        BY <1>1, <2>1, <2>2 DEF TypeOK
<1>4. Taken' = Taken
    BY <1>1 DEF TypeOK, Taken
<1>5. UnderwayIsOutstanding'
    BY <1>3, <1>4 DEF IInv, UnderwayIsOutstanding, Taken, SumLen, Places
<1>6. CallsKnown'
    BY <1>1, <1>2 DEF IInv, CallsKnown, TypeOK, Places
<1>7. DrainCovers'
    BY <1>1, <1>2, SMTT(30) DEF IInv, DrainCovers, TypeOK
<1> QED
    BY <1>5, <1>6, <1>7, InOrderStays DEF IInv

\* A value that is taken is counted down later, and is delivered already.
LEMMA TakeKeeps ==
    ASSUME IInv, NEW c \in Callers, Take(c)
    PROVE  /\ IInv'
           /\ delivered' = delivered \o <<Results[Len(delivered) + 1]>>
           /\ Len(delivered) + 1 <= Len(accepted)
<1> USE DEF Take, workerThread
<1>1. /\ TypeOK /\ cpc[c] = "take" /\ cpc' = [cpc EXCEPT ![c] = "count"]
      /\ output # <<>> /\ output \in Seq(ResultSet)
    BY Numbers DEF TypeOK, ResultSet
<1>2. /\ Results \in Seq(ResultSet) /\ Len(Results) = Len(accepted)
      /\ delivered \in Seq(ResultSet) /\ Len(delivered) \in Nat
    BY Numbers, ResultsType DEF IInv, InOrder
<1>3. /\ Head(output) = Results[Len(delivered) + 1] /\ Head(output) \in ResultSet
      /\ output' \in Seq(ResultSet) /\ Len(output') = Len(output) - 1
      /\ Segment(output', Results, Len(delivered) + 1)
    BY <1>1, <1>2, SegmentTail DEF IInv, InOrder
<1>4. Len(output) \in Nat \ {0} /\ Len(delivered) + 1 <= Len(accepted)
    BY <1>1, <1>3, Numbers, EmptySeq
<1>5. /\ delivered' = Append(delivered, Results[Len(delivered) + 1])
      /\ delivered' \in Seq(ResultSet)
      /\ Len(delivered') = Len(delivered) + 1
    BY <1>2, <1>3, AppendProperties
<1>6. delivered' = delivered \o <<Results[Len(delivered) + 1]>>
    BY <1>2, <1>3, <1>5, AppendIsConcat
<1>7. Segment(delivered', Results, 0)
    <2>1. Segment(delivered, Results, 0) /\ 0 + Len(delivered) + 1 = Len(delivered) + 1
        BY <1>2 DEF IInv, InOrder
    <2> QED
        BY <2>1, <1>2, <1>3, <1>4, <1>5, Numbers, SegmentAppend, SMTT(30)
<1>8. TypeOK'
    <2>1. cpc' \in [Callers -> CallerPCs]
        BY <1>1 DEF TypeOK, CallerPCs
    <2> QED
        BY <1>1, <1>3, <2>1, CallerTypes DEF TypeOK
<1>9. Cardinality(Taken') = Cardinality(Taken) + 1
    BY <1>1, TakenEnters
<1>10. underway' = SumLen(todo') + Len(input') + Len(item') + Len(output')
                   + Cardinality(Taken')
    BY <1>3, <1>9, Numbers DEF SumLen, Places
<1>11. UnderwayIsOutstanding'
    BY <1>8, <1>10 DEF UnderwayIsOutstanding, Taken
<1>12. InOrder'
    <2>1. Results' = Results
        BY DEF Results
    <2>2. Len(delivered') + Len(output') = Len(delivered) + Len(output)
        BY <1>3, <1>5, Numbers
    <2> QED
        BY <1>3, <1>5, <1>7, <2>1, <2>2 DEF IInv, InOrder
<1>13. CallsKnown'
    BY <1>1 DEF IInv, CallsKnown, TypeOK, Places
<1>14. DrainCovers'
    <2> SUFFICES ASSUME NEW d \in draining
                 PROVE  asked[d] <= Len(delivered') + need[d]
                                    - (IF cpc'[d] = "count" THEN 1 ELSE 0)
        BY DEF DrainCovers
    <2>1. d \in Callers /\ asked[d] \in Nat /\ need[d] \in Nat
        BY <1>1 DEF TypeOK, Setting, Consumers
    <2>2. asked[d] <= Len(delivered) + need[d] - (IF cpc[d] = "count" THEN 1 ELSE 0)
        BY DEF IInv, DrainCovers
    <2>3. cpc'[d] = IF d = c THEN "count" ELSE cpc[d]
        BY <1>1, <2>1 DEF TypeOK
    <2> QED
        BY <1>1, <1>2, <1>5, <2>1, <2>2, <2>3
<1> QED
    BY <1>4, <1>6, <1>11, <1>12, <1>13, <1>14 DEF IInv

LEMMA CountKeeps ==
    ASSUME IInv, NEW c \in Callers, Count(c)
    PROVE  IInv'
<1> USE DEF Count, workerThread, Counted, StillNeeded
<1>1. TypeOK /\ cpc[c] = "count" /\ need[c] \in Nat /\ need[c] >= 1 /\ todo[c] = <<>>
    BY Numbers DEF IInv, CallsKnown, TypeOK
<1>2. /\ Cardinality(Taken') = Cardinality(Taken) - 1
      /\ Cardinality(Taken) \in Nat \ {0}
    BY <1>1, TakenLeaves
<1>3. underway' \in Nat
      /\ underway' = SumLen(todo') + Len(input') + Len(item') + Len(output')
                     + Cardinality(Taken')
    BY <1>2, Numbers, SMTT(30) DEF SumLen, Places
<1>4. TypeOK'
    <2>1. need' \in [Callers -> Nat] /\ asked' \in [Callers -> Nat]
        BY <1>1 DEF TypeOK
    <2>2. cpc' \in [Callers -> CallerPCs] /\ draining' \subseteq Consumers'
        BY <1>1 DEF TypeOK, CallerPCs, Consumers
    <2> QED
        BY <1>1, <1>3, <2>1, <2>2 DEF TypeOK
<1>5. UnderwayIsOutstanding'
    BY <1>3, <1>4 DEF UnderwayIsOutstanding, Taken
<1>6. CallsKnown'
    BY <1>1 DEF IInv, CallsKnown, TypeOK, Places
<1>7. DrainCovers'
    <2> SUFFICES ASSUME NEW d \in draining'
                 PROVE  asked'[d] <= Len(delivered) + need'[d]
                                     - (IF cpc'[d] = "count" THEN 1 ELSE 0)
        BY DEF DrainCovers
    <2>1. d \in draining /\ d \in Callers /\ asked[d] \in Nat /\ need[d] \in Nat
        BY <1>1 DEF TypeOK, Setting, Consumers
    <2>2. asked[d] <= Len(delivered) + need[d] - (IF cpc[d] = "count" THEN 1 ELSE 0)
        BY <2>1 DEF IInv, DrainCovers
    <2>3. CASE d = c
        BY <1>1, <2>1, <2>2, <2>3, Numbers DEF TypeOK
    <2>4. CASE d # c
        BY <1>1, <2>1, <2>2, <2>4 DEF TypeOK
    <2> QED
        BY <2>3, <2>4
<1> QED
    BY <1>5, <1>6, <1>7, InOrderStays DEF IInv

\* What a step of the worker thread leaves to be shown: it only moves a value.
LEMMA WorkerKeeps ==
    ASSUME IInv, UNCHANGED <<setting, underway, inClosed, outClosed, pinned, callerVars,
                             panicked, accepted, delivered>>,
           wpc' \in WorkerPCs, input' \in Seq(Values), output' \in Seq(ResultSet),
           item' \in Seq(Values), Len(item') = (IF wpc' = "send" THEN 1 ELSE 0),
           underway = SumLen(todo) + Len(input') + Len(item') + Len(output')
                      + Cardinality(Taken),
           Len(accepted) = Len(delivered) + Len(output') + Len(item') + Len(input'),
           Segment(output', Results, Len(delivered)),
           Segment(item', accepted, Len(delivered) + Len(output')),
           Segment(input', accepted, Len(delivered) + Len(output') + Len(item'))
    PROVE  IInv'
<1> USE DEF callerVars
<1>1. TypeOK'
    BY Numbers DEF TypeOK, ResultSet, Consumers
<1>2. /\ Taken' = Taken /\ Cardinality(Taken') = Cardinality(Taken)
      /\ SumLen(todo') = SumLen(todo) /\ Results' = Results
    BY DEF Taken, Results
<1>3. /\ underway' = underway
      /\ Len(accepted') = Len(accepted) /\ Len(delivered') = Len(delivered)
    OBVIOUS
<1>4. /\ underway' = SumLen(todo') + Len(input') + Len(item') + Len(output')
                     + Cardinality(Taken')
      /\ Len(accepted') = Len(delivered') + Len(output') + Len(item') + Len(input')
    BY <1>2, <1>3, Zenon
<1>5. UnderwayIsOutstanding'
    BY <1>1, <1>4 DEF UnderwayIsOutstanding, Taken
<1>6. InOrder'
    BY <1>2, <1>4 DEF IInv, InOrder
<1>7. CallsKnown' /\ DrainCovers'
    BY DEF IInv, CallsKnown, DrainCovers
<1> QED
    BY <1>5, <1>6, <1>7 DEF IInv

LEMMA WorkerReceiveKeeps ==
    ASSUME IInv, WorkerReceive
    PROVE  IInv'
<1>1. /\ TypeOK /\ wpc = "receive" /\ input # <<>> /\ Len(item) = 0
      /\ item' = <<Head(input)>> /\ input' = Tail(input) /\ wpc' = "send"
      /\ output' = output /\ input \in Seq(Values) /\ output \in Seq(ResultSet)
      /\ accepted \in Seq(Values)
      /\ UNCHANGED <<setting, underway, inClosed, outClosed, pinned, callerVars,
                     panicked, accepted, delivered>>
    BY Numbers DEF WorkerReceive, TypeOK, ResultSet, IInv, InOrder
<1> DEFINE k == Len(delivered) + Len(output)
<1>2. k \in Nat /\ k + Len(item) = k
    BY <1>1, Numbers
<1>3. Segment(input, accepted, k) /\ Segment(output, Results, Len(delivered))
    BY <1>2 DEF IInv, InOrder
<1> HIDE DEF k
<1>4. /\ Head(input) = accepted[k + 1] /\ Head(input) \in Values
      /\ Tail(input) \in Seq(Values) /\ Len(Tail(input)) = Len(input) - 1
      /\ Segment(Tail(input), accepted, k + 1)
    BY <1>1, <1>2, <1>3, SegmentTail
<1>5. item' \in Seq(Values) /\ Len(item') = 1 /\ item'[1] = Head(input)
    BY <1>1, <1>4
<1>6. Segment(item', accepted, k)
    BY <1>2, <1>3, <1>4, <1>5, Numbers, <1>1, EmptySeq, SMTT(30) DEF Segment
<1>7. /\ underway = SumLen(todo) + Len(input') + Len(item') + Len(output')
                    + Cardinality(Taken)
      /\ Len(accepted) = Len(delivered) + Len(output') + Len(item') + Len(input')
    <2>1. /\ Len(input') = Len(input) - 1 /\ Len(item') = 1 /\ Len(item) = 0
          /\ Len(output') = Len(output)
        BY <1>1, <1>4, <1>5
    <2>2. /\ SumLen(todo) \in Nat /\ Cardinality(Taken) \in Nat
          /\ Len(input) \in Nat /\ Len(output) \in Nat /\ Len(delivered) \in Nat
          /\ underway = SumLen(todo) + Len(input) + 0 + Len(output) + Cardinality(Taken)
          /\ Len(accepted) = Len(delivered) + Len(output) + 0 + Len(input)
        BY <2>1, Numbers
    <2>3. underway = SumLen(todo) + (Len(input) - 1) + 1 + Len(output) + Cardinality(Taken)
        BY <2>2
    <2>4. Len(accepted) = Len(delivered) + Len(output) + 1 + (Len(input) - 1)
        BY <2>2
    <2> QED
        BY <2>1, <2>3, <2>4
<1>8. Segment(item', accepted, Len(delivered) + Len(output'))
    BY <1>1, <1>6 DEF k
<1>9. Segment(input', accepted, Len(delivered) + Len(output') + Len(item'))
    BY <1>1, <1>4, <1>5 DEF k
<1> QED
    BY <1>1, <1>3, <1>4, <1>5, <1>7, <1>8, <1>9, WorkerKeeps DEF WorkerPCs

LEMMA WorkerSendKeeps ==
    ASSUME IInv, WorkerSend
    PROVE  IInv'
<1> DEFINE r == W!Result(item[1])
           k == Len(delivered) + Len(output)
<1>1. /\ TypeOK /\ wpc = "send" /\ Len(item) = 1 /\ item \in Seq(Values)
      /\ item' = <<>> /\ wpc' = "receive" /\ input' = input
      /\ output' = output \o <<r>>
      /\ input \in Seq(Values) /\ output \in Seq(ResultSet)
      /\ accepted \in Seq(Values)
      /\ UNCHANGED <<setting, underway, inClosed, outClosed, pinned, callerVars,
                     panicked, accepted, delivered>>
    BY Numbers DEF WorkerSend, Emitted, TypeOK, ResultSet, IInv, InOrder
<1>2. /\ k \in Nat /\ k + 1 <= Len(accepted)
      /\ Len(delivered) \in Nat
    BY <1>1, Numbers
<1>3. /\ item[1] = accepted[k + 1] /\ item[1] \in Values
      /\ Segment(input, accepted, k + 1)
    BY <1>1, <1>2 DEF IInv, InOrder, Segment
<1>4. r \in ResultSet /\ r = Results[k + 1]
    BY <1>2, <1>3 DEF ResultSet, Results
<1> HIDE DEF r
<1>5. Results \in Seq(ResultSet) /\ Len(Results) = Len(accepted)
    BY <1>1, ResultsType
<1>6. output' = Append(output, r)
    BY <1>1, <1>4, AppendIsConcat
<1>7. Segment(output, Results, Len(delivered))
    BY DEF IInv, InOrder
<1>8. /\ output' \in Seq(ResultSet) /\ Len(output') = Len(output) + 1
      /\ Segment(output', Results, Len(delivered))
    <2>1. Len(delivered) + Len(output) < Len(Results)
        BY <1>2, <1>5, Numbers
    <2> QED
        <3>1. /\ output \in Seq(ResultSet) /\ Len(delivered) \in Nat
              /\ r = Results[Len(delivered) + Len(output) + 1]
            BY <1>1, <1>2, <1>4
        <3>2. /\ Append(output, r) \in Seq(ResultSet)
              /\ Len(Append(output, r)) = Len(output) + 1
              /\ Segment(Append(output, r), Results, Len(delivered))
            BY <2>1, <3>1, <1>4, <1>5, <1>7, SegmentAppend
        <3> QED
            BY <3>2, <1>6
<1>9. /\ underway = SumLen(todo) + Len(input') + Len(item') + Len(output')
                    + Cardinality(Taken)
      /\ Len(accepted) = Len(delivered) + Len(output') + Len(item') + Len(input')
    BY <1>1, <1>8, Numbers, SMTT(30)
<1>10. Len(delivered) + Len(output') = k + 1 /\ k + 1 \in Nat
    BY <1>2, <1>8, Numbers
<1> HIDE DEF k
<1>11. Segment(item', accepted, Len(delivered) + Len(output'))
    BY <1>1, <1>2, <1>10, EmptySegment
<1>12. Segment(input', accepted, Len(delivered) + Len(output') + Len(item'))
    <2>1. Len(delivered) + Len(output') + Len(item') = k + 1
        BY <1>1, <1>10
    <2> QED
        BY <2>1, <1>1, <1>3
<1> QED
    BY <1>1, <1>8, <1>9, <1>11, <1>12, WorkerKeeps DEF WorkerPCs

\* The end of the thread, the finaliser and the panics move nothing.
LEMMA OthersKeep ==
    ASSUME IInv,
           \/ WorkerEnd \/ Finalise
           \/ \E c \in Callers : SendPanic(c) \/ TakePanic(c)
    PROVE  IInv'
<1>1. /\ UNCHANGED <<setting, underway, input, output, item, callerVars, accepted, delivered>>
      /\ inClosed' \in BOOLEAN /\ outClosed' \in BOOLEAN /\ pinned' \in BOOLEAN
      /\ panicked' \in BOOLEAN
      /\ wpc' = wpc \/ (wpc = "receive" /\ wpc' = "ended")
    BY Numbers DEF WorkerEnd, Finalise, SendPanic, TakePanic, workerThread, TypeOK, Setting
<1>2. TypeOK'
    BY <1>1, Numbers DEF TypeOK, callerVars, WorkerPCs, Consumers
<1>3. UnderwayIsOutstanding'
    BY <1>1, <1>2 DEF IInv, UnderwayIsOutstanding, callerVars, SumLen, Places
<1>4. CallsKnown' /\ DrainCovers'
    BY <1>1 DEF IInv, CallsKnown, DrainCovers, callerVars
<1> QED
    BY <1>1, <1>3, <1>4, InOrderStays DEF IInv

-----------------------------------------------------------------------------
(* The theorems                                                            *)

LEMMA StepKeeps == IInv /\ [Next]_vars => IInv'
<1> SUFFICES ASSUME IInv, [Next]_vars PROVE IInv'
    OBVIOUS
<1>1. CASE UNCHANGED vars
    <2>1. UNCHANGED <<setting, underway, inClosed, outClosed, wpc, item, pinned, input, output,
                      cpc, todo, need, draining, asked, panicked, accepted, delivered>>
        BY <1>1 DEF vars
    <2> QED
        BY <2>1 DEF IInv, UnderwayIsOutstanding, TypeOK, Consumers, InOrder, Results,
                    CallsKnown, DrainCovers
<1>2. ASSUME NEW c \in Callers, NEW vs \in Batches, SendBegin(c, vs)
      PROVE  IInv'
    BY <1>2, SendBeginKeeps
<1>3. ASSUME NEW c \in Callers, SendOne(c)
      PROVE  IInv'
    BY <1>3, SendOneKeeps
<1>4. ASSUME NEW c \in Callers, ReceiveBegin(c)
      PROVE  IInv'
    BY <1>4, ReceiveBeginKeeps
<1>5. ASSUME NEW c \in Callers, c \in Consumers, DrainBegin(c)
      PROVE  IInv'
    BY <1>5, DrainBeginKeeps
<1>6. ASSUME NEW c \in Callers, Take(c)
      PROVE  IInv'
    BY <1>6, TakeKeeps
<1>7. ASSUME NEW c \in Callers, Count(c)
      PROVE  IInv'
    BY <1>7, CountKeeps
<1>8. CASE WorkerReceive
    BY <1>8, WorkerReceiveKeeps
<1>9. CASE WorkerSend
    BY <1>9, WorkerSendKeeps
<1>10. CASE \/ WorkerEnd \/ Finalise
            \/ \E c \in Callers : SendPanic(c) \/ TakePanic(c)
    BY <1>10, OthersKeep
<1> QED
    BY <1>1, <1>2, <1>3, <1>4, <1>5, <1>6, <1>7, <1>8, <1>9, <1>10
    DEF Next, Call, CallStep, WorkerStep

LEMMA Invariance == Spec => []IInv
BY InitEstablishes, StepKeeps, PTL DEF Spec

\* The counter of a worker is at every moment the number of values announced
\* and not counted down, wherever they are (EyCpuWorker.underway_count).
THEOREM UnderwayOutstanding == Spec => []UnderwayIsOutstanding
<1>1. IInv => UnderwayIsOutstanding
    BY DEF IInv
<1> QED
    BY <1>1, Invariance, PTL

\* A drain that returns has seen everything that was in the worker when it
\* began, whatever the other callers do meanwhile (ey_worker_drain).
THEOREM DrainsWaitForAll == Spec => DrainWaitsForAll
<1>1. IInv /\ [Next]_vars =>
        [\A c \in draining : c \notin draining' => Len(delivered') >= asked[c]]_vars
    <2> SUFFICES ASSUME IInv, Next, NEW c \in draining, c \notin draining'
                 PROVE  Len(delivered') >= asked[c]
        OBVIOUS
    <2>1. c \in Callers /\ Count(c)
        BY Numbers, SMTT(30)
        DEF TypeOK, Setting, Consumers, Next, Call, CallStep, WorkerStep, SendBegin, SendOne,
            SendPanic, ReceiveBegin, DrainBegin, Take, TakePanic, Count, WorkerReceive,
            WorkerSend, WorkerEnd, Finalise, workerThread, callerVars
    <2>2. need[c] = 1 /\ cpc[c] = "count" /\ delivered' = delivered
        BY <2>1, Numbers DEF Count, StillNeeded, TypeOK
    <2>3. asked[c] <= Len(delivered) + need[c] - 1
        BY <2>2 DEF IInv, DrainCovers
    <2>4. asked[c] \in Nat
        BY <2>1, Numbers DEF TypeOK
    <2> QED
        BY <2>2, <2>3, <2>4, Numbers
<1> QED
    BY <1>1, Invariance, PTL DEF Spec, DrainWaitsForAll

LEMMA StepRefines == IInv /\ [Next]_vars => [W!Next]_(W!workerVars)
<1> SUFFICES ASSUME IInv, [Next]_vars
             PROVE  W!Next \/ UNCHANGED <<accepted, delivered>>
    BY DEF W!workerVars
<1>1. CASE UNCHANGED vars
    BY <1>1 DEF vars
<1>2. ASSUME NEW c \in Callers, SendOne(c)
      PROVE  W!Accept
    <2> DEFINE v == Head(todo[c])
    <2>1. v \in Values /\ accepted \in Seq(Values) /\ delivered' = delivered
        <3>1. todo[c] \in Seq(Values) /\ todo[c] # <<>>
            BY <1>2, Numbers DEF SendOne, IInv, CallsKnown, TypeOK
        <3> QED
            BY <3>1, <1>2, HeadTailProperties DEF SendOne, IInv, InOrder
    <2>2. accepted' = Append(accepted, v)
        BY <1>2 DEF SendOne
    <2> HIDE DEF v
    <2>3. accepted' = accepted \o <<v>> /\ <<v>> \in Seq(Values)
        BY <2>1, <2>2, AppendIsConcat
    <2>4. /\ accepted \o <<v>> \in Seq(Values)
          /\ Len(accepted) <= Len(accepted \o <<v>>)
          /\ accepted = SubSeq(accepted \o <<v>>, 1, Len(accepted))
        BY <2>1, <2>3, PrefixOfConcat
    <2> QED
        BY <2>1, <2>3, <2>4 DEF W!Accept
<1>3. ASSUME NEW c \in Callers, Take(c)
      PROVE  \E n \in 1..Len(accepted) : W!Deliver(n)
    <2>1. /\ delivered' = delivered \o <<Results[Len(delivered) + 1]>>
          /\ Len(delivered) + 1 <= Len(accepted)
          /\ accepted' = accepted
        BY <1>3, TakeKeeps DEF Take
    <2>2. Len(delivered) \in Nat /\ Len(accepted) \in Nat
        BY Numbers
    <2>3. [i \in 1..1 |-> W!Result(accepted[Len(delivered) + i])]
            = <<Results[Len(delivered) + 1]>>
        BY <2>1, <2>2 DEF Results
    <2>4. W!Deliver(1) /\ 1 \in 1..Len(accepted)
        BY <2>1, <2>2, <2>3 DEF W!Deliver
    <2> QED
        BY <2>4
<1>4. CASE /\ Next
           /\ \A c \in Callers : ~SendOne(c) /\ ~Take(c)
    BY <1>4
    DEF Next, Call, CallStep, WorkerStep, SendBegin, SendPanic, ReceiveBegin, DrainBegin,
        TakePanic, Count, WorkerReceive, WorkerSend, WorkerEnd, Finalise
<1> QED
    BY <1>1, <1>2, <1>3, <1>4 DEF W!Next

\* A worker processes every value it accepts once and hands the results out in
\* order, however its callers interleave, and also when the collector finalises
\* it (ey_worker_send, ey_worker_receive, ey_worker_entry_point).
THEOREM CpuWorkerImplementsWorker == Spec => ImplementsWorker
<1>1. Init => W!Init
    BY DEF Init, W!Init
<1> QED
    BY <1>1, StepRefines, Invariance, PTL DEF Spec, ImplementsWorker, W!Spec

-----------------------------------------------------------------------------
(* What a drain waits for is on its way.  The drain of the only consumer   *)
(* counts what is announced, and each such value is moved on by one step   *)
(* of one thread: into the input pipe, to the worker, into the output      *)
(* pipe, to the drain, off the counter.                                    *)

\* The thread ends after the last value and the close.
ThreadKnown == wpc = "ended" => inClosed /\ ~pinned /\ input = <<>>

\* Only consumers receive.
RolesKept == \A c \in Callers : cpc[c] \in {"take", "count"} => c \in Consumers

\* What the drain of the only consumer waits for is counted.
SoleCovered == \A c \in draining : Consumers = {c} => need[c] <= underway

LInv == IInv /\ ThreadKnown /\ RolesKept /\ SoleCovered

LEMMA ThreadKnownKeeps ==
    ASSUME LInv, [Next]_vars
    PROVE  ThreadKnown'
<1> USE DEF LInv, ThreadKnown
<1>1. CASE UNCHANGED vars
    BY <1>1 DEF vars
<1>2. ASSUME NEW c \in Callers, Call(c) \/ CallStep(c) PROVE ThreadKnown'
    BY <1>2 DEF Call, CallStep, SendBegin, SendOne, SendPanic, ReceiveBegin, DrainBegin, Take,
                TakePanic, Count, workerThread
<1>3. CASE WorkerStep
    BY <1>3 DEF WorkerStep, WorkerReceive, WorkerSend, WorkerEnd, NothingMore
<1>4. CASE Finalise
    BY <1>4 DEF Finalise, workerThread
<1> QED
    BY <1>1, <1>2, <1>3, <1>4 DEF Next

LEMMA RolesKeep ==
    ASSUME LInv, [Next]_vars
    PROVE  RolesKept'
<1>1. cpc \in [Callers -> CallerPCs]
    BY Numbers DEF LInv, TypeOK
<1> USE DEF LInv, RolesKept, Consumers
<1>2. CASE UNCHANGED vars
    BY <1>2 DEF vars
<1>3. ASSUME NEW c \in Callers, Call(c) PROVE RolesKept'
    BY <1>1, <1>3 DEF Call, SendBegin, ReceiveBegin, DrainBegin
<1>4. ASSUME NEW c \in Callers, CallStep(c) PROVE RolesKept'
    BY <1>1, <1>4 DEF CallStep, SendOne, SendPanic, Take, TakePanic, Count, callerVars
<1>5. CASE WorkerStep \/ Finalise
    BY <1>5 DEF WorkerStep, WorkerReceive, WorkerSend, WorkerEnd, Finalise, callerVars
<1> QED
    BY <1>2, <1>3, <1>4, <1>5 DEF Next

LEMMA SoleCoveredKeeps ==
    ASSUME LInv, [Next]_vars
    PROVE  SoleCovered'
<1>1. /\ cpc \in [Callers -> CallerPCs] /\ need \in [Callers -> Nat] /\ underway \in Nat
      /\ draining \subseteq Callers
    BY Numbers DEF LInv, TypeOK, Setting, Consumers
<1>2. \A c \in draining : cpc[c] \in {"take", "count"}
    BY <1>1 DEF LInv, IInv, CallsKnown
<1> USE DEF LInv, SoleCovered, Consumers
<1>3. CASE UNCHANGED vars
    BY <1>3 DEF vars
<1>4. ASSUME NEW c \in Callers, NEW vs \in Batches, SendBegin(c, vs) PROVE SoleCovered'
    <2>1. Len(vs) \in Nat
        BY CpuWorkerAssumption, LenProperties DEF Batches
    <2> QED
        BY <1>1, <1>4, <2>1 DEF SendBegin, Announced
<1>5. ASSUME NEW c \in Callers, ReceiveBegin(c) PROVE SoleCovered'
    BY <1>1, <1>2, <1>5 DEF ReceiveBegin
<1>6. ASSUME NEW c \in Callers, DrainBegin(c) PROVE SoleCovered'
    BY <1>1, <1>2, <1>6 DEF DrainBegin, Required
<1>7. ASSUME NEW c \in Callers, Count(c) PROVE SoleCovered'
    <2>1. c \in Consumers
        BY <1>7 DEF Count, RolesKept
    <2> SUFFICES ASSUME NEW d \in draining', Consumers' = {d} PROVE need'[d] <= underway'
        OBVIOUS
    <2>2. d = c /\ d \in draining
        BY <1>7, <2>1 DEF Count
    <2>3. need'[c] = need[c] - 1 /\ underway' = underway - 1
        BY <1>1, <1>7 DEF Count, StillNeeded, Counted
    <2>4. need[c] <= underway
        BY <1>7, <2>2 DEF Count
    <2> QED
        BY <1>1, <2>2, <2>3, <2>4
<1>8. ASSUME NEW c \in Callers, SendOne(c) \/ SendPanic(c) \/ Take(c) \/ TakePanic(c)
      PROVE  SoleCovered'
    BY <1>8 DEF SendOne, SendPanic, Take, TakePanic, callerVars
<1>9. CASE WorkerStep \/ Finalise
    BY <1>9 DEF WorkerStep, WorkerReceive, WorkerSend, WorkerEnd, Finalise, callerVars
<1> QED
    BY <1>3, <1>4, <1>5, <1>6, <1>7, <1>8, <1>9 DEF Next, Call, CallStep

LEMMA LInvariance == Spec => []LInv
<1>1. Init => ThreadKnown /\ RolesKept /\ SoleCovered
    BY DEF Init, ThreadKnown, RolesKept, SoleCovered
<1> QED
    BY <1>1, Invariance, ThreadKnownKeeps, RolesKeep, SoleCoveredKeeps, PTL DEF Spec, LInv

\* What is true of a behaviour from any state on.  (That the fairness of a
\* behaviour is that of each of its suffixes is said with the box.)
Always == []LInv /\ [][Next]_vars /\ []Fairness /\ []StepsAreEnabled

\* The drain of the only consumer has k receives to make; it has made one.
Waits(c, k) == ~panicked /\ c \in draining /\ Consumers = {c} /\ need[c] = k
Gone(c, k)  == c \notin draining \/ need[c] < k \/ panicked

\* The way of the value it waits for, the last station first.
AtTake(c, k)       == Waits(c, k) /\ cpc[c] = "take"
Counting(c, k)     == Waits(c, k) /\ cpc[c] = "count"
Ready(c, k)        == AtTake(c, k) /\ output # <<>>
Sending(c, k)      == AtTake(c, k) /\ wpc = "send"
Queued(c, k)       == AtTake(c, k) /\ wpc = "receive" /\ input # <<>>
Promising(c, k, d) == AtTake(c, k) /\ todo[d] # <<>>
Promised(c, k)     == \E d \in Callers : Promising(c, k, d)

\* The value a drain waits for is at one of the stations: the counter is that
\* of UnderwayIsOutstanding, and no other thread has taken a value.
LEMMA WaitsSomewhere ==
    ASSUME LInv, NEW c \in Callers, NEW k \in Nat, Waits(c, k)
    PROVE  \/ Counting(c, k) \/ Ready(c, k) \/ Sending(c, k) \/ Queued(c, k)
           \/ Promised(c, k)
<1> USE DEF LInv
<1>1. cpc[c] \in {"take", "count"} /\ need[c] >= 1 /\ need[c] <= underway
    BY DEF Waits, IInv, CallsKnown, SoleCovered
<1> SUFFICES ASSUME AtTake(c, k), output = <<>>, wpc # "send",
                    ~(wpc = "receive" /\ input # <<>>)
             PROVE  Promised(c, k)
    BY <1>1 DEF Counting, Ready, Sending, Queued, AtTake
<1>2. Len(output) = 0 /\ Len(item) = 0 /\ Len(input) = 0
    BY Numbers DEF TypeOK, WorkerPCs, ThreadKnown
<1>3. Cardinality(Taken) = 0
    <2>1. Taken = {}
        BY DEF Taken, RolesKept, AtTake, Waits
    <2> QED
        BY <2>1, FS_EmptySet
<1>4. SumLen(todo) >= 1
    <2>1. need[c] \in Nat
        BY Numbers DEF TypeOK
    <2> QED
        BY <1>1, <1>2, <1>3, <2>1, Numbers
<1>5. Places(todo) # {}
    BY <1>4, FS_EmptySet DEF SumLen
<1>6. PICK d \in Callers : Len(todo[d]) >= 1
    <2>1. \A d \in Callers : Len(todo[d]) \in Nat
        BY Numbers DEF TypeOK
    <2>2. PICK d \in Callers : 1..Len(todo[d]) # {}
        BY <1>5 DEF Places
    <2> QED
        BY <2>1, <2>2
<1> QED
    BY <1>6 DEF Promised, Promising

\* While the drain waits for a value, no step of another thread ends or
\* changes its wait, and none takes what it waits for.
LEMMA AtTakeStep ==
    ASSUME LInv, [Next]_vars, NEW c \in Callers, NEW k \in Nat, AtTake(c, k)
    PROVE  \/ panicked'
           \/ Take(c) /\ Counting(c, k)'
           \/ /\ AtTake(c, k)'
              /\ \/ \E d \in Callers : SendOne(d)
                 \/ WorkerStep
                 \/ /\ UNCHANGED <<input, output, wpc>>
                    /\ \A d \in Callers : todo[d] # <<>> => todo'[d] = todo[d]
<1> USE DEF LInv, AtTake, Waits, Consumers
<1>1. /\ cpc \in [Callers -> CallerPCs] /\ todo \in [Callers -> Seq(Values)]
      /\ need \in [Callers -> Nat]
    BY Numbers DEF TypeOK
<1>2. CASE UNCHANGED vars
    BY <1>2 DEF vars
<1>3. ASSUME NEW d \in Callers, NEW vs \in Batches, SendBegin(d, vs)
      PROVE  /\ AtTake(c, k)' /\ UNCHANGED <<input, output, wpc>>
             /\ \A e \in Callers : todo[e] # <<>> => todo'[e] = todo[e]
    <2>1. todo[d] = <<>> /\ d # c
        BY <1>3 DEF SendBegin, IInv, CallsKnown
    <2> QED
        BY <1>1, <1>3, <2>1 DEF SendBegin, workerThread
<1>4. ASSUME NEW d \in Callers
      PROVE  ~(d \in Consumers /\ (ReceiveBegin(d) \/ DrainBegin(d))) /\ ~Count(d)
    BY DEF ReceiveBegin, DrainBegin, Count, RolesKept
<1>5. ASSUME NEW d \in Callers, SendOne(d) PROVE AtTake(c, k)'
    BY <1>1, <1>5 DEF SendOne
<1>6. ASSUME NEW d \in Callers, SendPanic(d) \/ TakePanic(d) PROVE panicked'
    BY <1>6 DEF SendPanic, TakePanic
<1>7. ASSUME NEW d \in Callers, Take(d) PROVE Take(c) /\ Counting(c, k)'
    <2>1. d = c
        BY <1>7 DEF Take, RolesKept
    <2> QED
        BY <1>1, <1>7, <2>1 DEF Take, Counting
<1>8. ASSUME WorkerStep PROVE AtTake(c, k)'
    BY <1>8 DEF WorkerStep, WorkerReceive, WorkerSend, WorkerEnd, callerVars
<1>9. ASSUME Finalise
      PROVE  AtTake(c, k)' /\ UNCHANGED <<input, output, wpc, todo>>
    BY <1>9 DEF Finalise, callerVars, workerThread
<1> QED
    BY <1>2, <1>3, <1>4, <1>5, <1>6, <1>7, <1>8, <1>9 DEF Next, Call, CallStep

LEMMA CountingStep ==
    ASSUME LInv, [Next]_vars, NEW c \in Callers, NEW k \in Nat, Counting(c, k)
    PROVE  /\ Counting(c, k)' \/ Gone(c, k)'
           /\ CallRuns(c) => Gone(c, k)'
<1> USE DEF LInv, Counting, Waits, Consumers
<1>1. /\ cpc \in [Callers -> CallerPCs] /\ todo \in [Callers -> Seq(Values)]
      /\ need \in [Callers -> Nat]
    BY Numbers DEF TypeOK
<1>2. ASSUME Count(c) PROVE Gone(c, k)'
    <2>1. need'[c] = need[c] - 1 /\ k \in Nat
        BY <1>1, <1>2 DEF Count, StillNeeded
    <2> QED
        BY <2>1 DEF Gone
<1>3. /\ CallRuns(c) => Count(c)
      /\ CallStep(c) => Count(c)
      /\ ~Call(c)
    BY DEF CallRuns, CallStep, SendOne, SendPanic, Take, TakePanic, Call, SendBegin,
           ReceiveBegin, DrainBegin
<1>4. Counting(c, k)' \/ Gone(c, k)'
    <2>1. CASE UNCHANGED vars
        BY <2>1 DEF vars
    <2>2. ASSUME NEW d \in Callers, d # c, Call(d) \/ CallStep(d)
          PROVE  Counting(c, k)' \/ Gone(c, k)'
        <3>1. d \notin Consumers
            BY <2>2
        <3>2. ~Take(d) /\ ~TakePanic(d) /\ ~Count(d)
            BY <3>1 DEF Take, TakePanic, Count, RolesKept
        <3> QED
            BY <1>1, <2>2, <3>1, <3>2
            DEF Call, CallStep, SendBegin, SendOne, SendPanic, Gone, callerVars
    <2>3. CASE WorkerStep \/ Finalise
        BY <2>3 DEF WorkerStep, WorkerReceive, WorkerSend, WorkerEnd, Finalise, callerVars
    <2> QED
        BY <1>2, <1>3, <2>1, <2>2, <2>3 DEF Next
<1> QED
    BY <1>2, <1>3, <1>4

LEMMA ReadyStep ==
    ASSUME LInv, [Next]_vars, NEW c \in Callers, NEW k \in Nat, Ready(c, k)
    PROVE  /\ Ready(c, k)' \/ Counting(c, k)' \/ Gone(c, k)'
           /\ CallRuns(c) => Counting(c, k)' \/ Gone(c, k)'
<1>1. /\ AtTake(c, k) /\ output # <<>> /\ cpc[c] = "take"
      /\ cpc \in [Callers -> CallerPCs] /\ output \in Seq(ResultSet)
    BY Numbers DEF Ready, AtTake, LInv, TypeOK, ResultSet
<1>2. Take(c) => Counting(c, k)'
    BY <1>1 DEF Take, AtTake, Counting, Waits, Consumers
<1>3. CallRuns(c) => Take(c)
    BY <1>1 DEF CallRuns, CallStep, SendOne, SendPanic, TakePanic, Count
<1>4. \A d \in Callers : SendOne(d) => output' = output
    BY DEF SendOne
<1>5. WorkerStep => output' # <<>>
    <2>1. WorkerSend => output' = Append(output, W!Result(item[1]))
        BY <1>1 DEF WorkerSend, Emitted
    <2>2. \A x : Append(output, x) # <<>>
        BY <1>1
    <2> QED
        BY <1>1, <2>1, <2>2 DEF WorkerStep, WorkerReceive, WorkerEnd
<1>6. Ready(c, k)' \/ Counting(c, k)' \/ Gone(c, k)'
    BY <1>1, <1>4, <1>5, AtTakeStep DEF Ready, Gone
<1> QED
    BY <1>2, <1>3, <1>6

LEMMA AppendFilled ==
    ASSUME NEW S, NEW s \in Seq(S), NEW x \in S
    PROVE  Append(s, x) # <<>>
BY AppendProperties, EmptySeq

LEMMA SendingStep ==
    ASSUME LInv, [Next]_vars, NEW c \in Callers, NEW k \in Nat, Sending(c, k)
    PROVE  /\ Sending(c, k)' \/ Ready(c, k)' \/ Counting(c, k)' \/ Gone(c, k)'
           /\ <<ThreadRuns>>_vars => Ready(c, k)' \/ Gone(c, k)'
<1>1. /\ AtTake(c, k) /\ wpc = "send" /\ output \in Seq(ResultSet)
    BY Numbers DEF Sending, LInv, TypeOK, ResultSet
<1>2. WorkerStep => /\ output' # <<>>
                    /\ UNCHANGED <<setting, callerVars, panicked>>
    <2>1. WorkerSend => output' = Append(output, W!Result(item[1]))
        BY <1>1 DEF WorkerSend, Emitted
    <2>2. item[1] \in Values
        <3>1. item \in Seq(Values) /\ Len(item) = 1
            BY <1>1, Numbers DEF LInv, TypeOK
        <3> QED
            BY <3>1, ElementOfSeq
    <2>3. Append(output, W!Result(item[1])) # <<>>
        BY <1>1, <2>2, AppendFilled DEF ResultSet
    <2> QED
        BY <1>1, <2>1, <2>3 DEF WorkerStep, WorkerReceive, WorkerEnd, WorkerSend
<1>3. WorkerStep => Ready(c, k)'
    BY <1>1, <1>2 DEF Ready, AtTake, Waits, Consumers, callerVars
<1>4. \A d \in Callers : SendOne(d) => wpc' = wpc
    BY DEF SendOne, workerThread
<1>5. Sending(c, k)' \/ Ready(c, k)' \/ Counting(c, k)' \/ Gone(c, k)'
    BY <1>1, <1>3, <1>4, AtTakeStep DEF Sending, Gone
<1> QED
    BY <1>3, <1>5 DEF ThreadRuns

LEMMA QueuedStep ==
    ASSUME LInv, [Next]_vars, NEW c \in Callers, NEW k \in Nat, Queued(c, k)
    PROVE  /\ Queued(c, k)' \/ Sending(c, k)' \/ Counting(c, k)' \/ Gone(c, k)'
           /\ <<ThreadRuns>>_vars => Sending(c, k)'
<1>1. /\ AtTake(c, k) /\ wpc = "receive" /\ input # <<>> /\ input \in Seq(Values)
      /\ accepted \in Seq(Values)
    BY Numbers DEF Queued, LInv, TypeOK, IInv, InOrder
<1>2. WorkerStep => wpc' = "send" /\ UNCHANGED <<setting, callerVars, panicked>>
    BY <1>1 DEF WorkerStep, WorkerReceive, WorkerSend, WorkerEnd, NothingMore
<1>3. WorkerStep => Sending(c, k)'
    BY <1>1, <1>2 DEF Sending, AtTake, Waits, Consumers, callerVars
<1>4. \A d \in Callers : SendOne(d) => wpc' = wpc /\ input' # <<>>
    <2>1. \A x : Append(input, x) # <<>>
        BY <1>1
    <2> QED
        BY <2>1 DEF SendOne, workerThread
<1>5. Queued(c, k)' \/ Sending(c, k)' \/ Counting(c, k)' \/ Gone(c, k)'
    BY <1>1, <1>3, <1>4, AtTakeStep DEF Queued, Gone
<1> QED
    BY <1>3, <1>5 DEF ThreadRuns

LEMMA PromisingStep ==
    ASSUME LInv, LInv', [Next]_vars, NEW c \in Callers, NEW k \in Nat, NEW d \in Callers,
           Promising(c, k, d)
    PROVE  /\ \/ Promising(c, k, d)' \/ Queued(c, k)' \/ Sending(c, k)'
              \/ Counting(c, k)' \/ Gone(c, k)'
           /\ <<CallRuns(d)>>_vars => Queued(c, k)' \/ Sending(c, k)' \/ Gone(c, k)'
<1>1. /\ AtTake(c, k) /\ todo[d] # <<>> /\ cpc[d] = "put" /\ d # c
      /\ input \in Seq(Values) /\ wpc \in WorkerPCs
      /\ todo \in [Callers -> Seq(Values)] /\ cpc \in [Callers -> CallerPCs]
    BY Numbers DEF Promising, AtTake, LInv, TypeOK, IInv, CallsKnown
<1>2. ASSUME NEW e \in Callers, SendOne(e)
      PROVE  AtTake(c, k)' => Queued(c, k)' \/ Sending(c, k)'
    <2>1. Append(input, Head(todo[e])) # <<>>
        <3>1. todo[e] \in Seq(Values) /\ todo[e] # <<>>
            BY <1>1, <1>2 DEF SendOne, LInv, IInv, CallsKnown
        <3> QED
            BY <1>1, <3>1, HeadTailProperties, AppendFilled
    <2>2. input' # <<>> /\ wpc' = wpc /\ wpc # "ended"
        BY <1>2, <2>1 DEF SendOne, workerThread, LInv, ThreadKnown
    <2> QED
        BY <1>1, <2>2 DEF Queued, Sending, WorkerPCs
<1>3. WorkerStep => todo' = todo
    BY DEF WorkerStep, WorkerReceive, WorkerSend, WorkerEnd, callerVars
<1>4. CallRuns(d) => SendOne(d) \/ panicked'
    BY <1>1 DEF CallRuns, CallStep, SendPanic, Take, TakePanic, Count
<1>5. SendOne(d) => AtTake(c, k)'
    BY <1>1 DEF SendOne, AtTake, Waits, Consumers
<1>6. \/ Promising(c, k, d)' \/ Queued(c, k)' \/ Sending(c, k)'
      \/ Counting(c, k)' \/ Gone(c, k)'
    BY <1>1, <1>2, <1>3, AtTakeStep DEF Promising, Gone
<1> QED
    BY <1>2, <1>4, <1>5, <1>6 DEF Gone

LEMMA CountingGoes ==
    ASSUME NEW c \in Callers, NEW k \in Nat
    PROVE  Always => (Counting(c, k) ~> Gone(c, k))
<1>1. LInv /\ [Next]_vars /\ Counting(c, k) => (Counting(c, k) \/ Gone(c, k))'
    BY CountingStep
<1>2. LInv /\ [Next]_vars /\ <<CallRuns(c)>>_vars /\ Counting(c, k) => Gone(c, k)'
    BY CountingStep
<1>3. StepsAreEnabled /\ Counting(c, k) => ENABLED <<CallRuns(c)>>_vars
    BY DEF StepsAreEnabled, CallGoesOn, Counting, Waits
<1>4. FairCalls => FairCall(c)
    BY DEF FairCalls
<1> QED
    BY <1>1, <1>2, <1>3, <1>4, PTL DEF Always, Fairness, FairCall

LEMMA ReadyGoes ==
    ASSUME NEW c \in Callers, NEW k \in Nat
    PROVE  Always => (Ready(c, k) ~> Gone(c, k))
<1>1. LInv /\ [Next]_vars /\ Ready(c, k) => (Ready(c, k) \/ Counting(c, k) \/ Gone(c, k))'
    BY ReadyStep
<1>2. LInv /\ [Next]_vars /\ <<CallRuns(c)>>_vars /\ Ready(c, k)
        => (Counting(c, k) \/ Gone(c, k))'
    BY ReadyStep
<1>3. StepsAreEnabled /\ Ready(c, k) => ENABLED <<CallRuns(c)>>_vars
    BY DEF StepsAreEnabled, CallGoesOn, Ready, AtTake, Waits
<1>4. FairCalls => FairCall(c)
    BY DEF FairCalls
<1> QED
    BY <1>1, <1>2, <1>3, <1>4, CountingGoes, PTL DEF Always, Fairness, FairCall

LEMMA SendingGoes ==
    ASSUME NEW c \in Callers, NEW k \in Nat
    PROVE  Always => (Sending(c, k) ~> Gone(c, k))
<1>1. LInv /\ [Next]_vars /\ Sending(c, k)
        => (Sending(c, k) \/ Ready(c, k) \/ Counting(c, k) \/ Gone(c, k))'
    BY SendingStep
<1>2. LInv /\ [Next]_vars /\ <<ThreadRuns>>_vars /\ Sending(c, k)
        => (Ready(c, k) \/ Gone(c, k))'
    BY SendingStep
<1>3. StepsAreEnabled /\ Sending(c, k) => ENABLED <<ThreadRuns>>_vars
    BY DEF StepsAreEnabled, WorkerGoesOn, Sending, AtTake, Waits
<1> QED
    BY <1>1, <1>2, <1>3, ReadyGoes, CountingGoes, PTL DEF Always, Fairness

LEMMA QueuedGoes ==
    ASSUME NEW c \in Callers, NEW k \in Nat
    PROVE  Always => (Queued(c, k) ~> Gone(c, k))
<1>1. LInv /\ [Next]_vars /\ Queued(c, k)
        => (Queued(c, k) \/ Sending(c, k) \/ Counting(c, k) \/ Gone(c, k))'
    BY QueuedStep
<1>2. LInv /\ [Next]_vars /\ <<ThreadRuns>>_vars /\ Queued(c, k) => Sending(c, k)'
    BY QueuedStep
<1>3. StepsAreEnabled /\ Queued(c, k) => ENABLED <<ThreadRuns>>_vars
    BY DEF StepsAreEnabled, WorkerGoesOn, Queued, AtTake, Waits
<1> QED
    BY <1>1, <1>2, <1>3, SendingGoes, CountingGoes, PTL DEF Always, Fairness

LEMMA PromisedGoes ==
    ASSUME NEW c \in Callers, NEW k \in Nat
    PROVE  Always => (Promised(c, k) ~> Gone(c, k))
<1>1. ASSUME NEW d \in Callers PROVE Always => (Promising(c, k, d) => <>Gone(c, k))
    <2>1. LInv /\ LInv' /\ [Next]_vars /\ Promising(c, k, d)
            => (\/ Promising(c, k, d) \/ Queued(c, k) \/ Sending(c, k)
                \/ Counting(c, k) \/ Gone(c, k))'
        BY PromisingStep
    <2>2. LInv /\ LInv' /\ [Next]_vars /\ <<CallRuns(d)>>_vars /\ Promising(c, k, d)
            => (Queued(c, k) \/ Sending(c, k) \/ Gone(c, k))'
        BY PromisingStep
    <2>3. LInv /\ StepsAreEnabled /\ Promising(c, k, d) => ENABLED <<CallRuns(d)>>_vars
        <3>1. LInv /\ Promising(c, k, d) => cpc[d] = "put" /\ ~panicked
            BY DEF Promising, AtTake, Waits, LInv, IInv, CallsKnown
        <3>2. StepsAreEnabled /\ ~panicked => CallGoesOn(d)
            BY DEF StepsAreEnabled
        <3>3. CallGoesOn(d) /\ cpc[d] = "put" => ENABLED <<CallRuns(d)>>_vars
            BY DEF CallGoesOn
        <3> QED
            BY <3>1, <3>2, <3>3
    <2>4. FairCalls => FairCall(d)
        BY DEF FairCalls
    <2> QED
        BY <2>1, <2>2, <2>3, <2>4, QueuedGoes, SendingGoes, CountingGoes, PTL
        DEF Always, Fairness, FairCall
<1>2. Always => (Promised(c, k) => <>Gone(c, k))
    BY <1>1 DEF Promised
<1> QED
    BY <1>2, PTL DEF Always

\* The drain of the only consumer receives the value it waits for, wherever that
\* is: a caller puts it, the worker takes, computes and puts it, the drain takes
\* and counts it.  So it does for every number of receives it still has to make
\* (ey_worker_drain, ey_worker_entry_point).
THEOREM DrainsAdvance ==
    Spec /\ []Fairness /\ []StepsAreEnabled => DrainAdvances
<1>1. ASSUME NEW c \in Callers, NEW k \in 0..MaxSent
      PROVE  Spec /\ []Fairness /\ []StepsAreEnabled => DrainGoesOn(c, k)
    <2>1. k \in Nat
        BY CpuWorkerAssumption
    <2>2. LInv /\ Waits(c, k)
            => \/ Counting(c, k) \/ Ready(c, k) \/ Sending(c, k) \/ Queued(c, k)
               \/ Promised(c, k)
        BY <2>1, WaitsSomewhere
    <2>3. /\ Always => (Counting(c, k) ~> Gone(c, k))
          /\ Always => (Ready(c, k) ~> Gone(c, k))
          /\ Always => (Sending(c, k) ~> Gone(c, k))
          /\ Always => (Queued(c, k) ~> Gone(c, k))
          /\ Always => (Promised(c, k) ~> Gone(c, k))
        BY <2>1, CountingGoes, ReadyGoes, SendingGoes, QueuedGoes, PromisedGoes
    <2>4. (c \in draining /\ Consumers = {c} /\ need[c] = k) => Waits(c, k) \/ panicked
        BY DEF Waits
    <2>5. Gone(c, k) <=> (c \notin draining \/ need[c] < k \/ panicked)
        BY DEF Gone
    <2> QED
        BY <2>2, <2>3, <2>4, <2>5, LInvariance, PTL DEF Always, Spec, DrainGoesOn
<1> QED
    BY <1>1 DEF DrainAdvances

-----------------------------------------------------------------------------
(* The thread of a finalised worker works off what it was sent and ends.   *)

ThreadLeft(n) == ~panicked /\ inClosed /\ Len(input) = n
ThreadMoved(n) ==
    (wpc = "ended" /\ ~pinned /\ input = <<>>) \/ Len(input) < n \/ panicked

Fetching(n)  == ThreadLeft(n) /\ wpc = "receive"
Finishing(n) == ThreadLeft(n) /\ wpc = "send"

LEMMA ThreadLeftStep ==
    ASSUME LInv, [Next]_vars, NEW n \in Nat, ThreadLeft(n)
    PROVE  \/ panicked'
           \/ WorkerStep
           \/ ThreadLeft(n)' /\ UNCHANGED wpc
<1> USE DEF ThreadLeft
<1>1. CASE UNCHANGED vars
    BY <1>1 DEF vars
<1>2. ASSUME NEW c \in Callers, Call(c) \/ CallStep(c)
      PROVE  panicked' \/ (ThreadLeft(n)' /\ UNCHANGED wpc)
    BY <1>2 DEF Call, CallStep, SendBegin, SendOne, SendPanic, ReceiveBegin, DrainBegin, Take,
                TakePanic, Count, workerThread
<1>3. ~Finalise
    BY DEF Finalise
<1> QED
    BY <1>1, <1>2, <1>3 DEF Next

LEMMA FinishingStep ==
    ASSUME LInv, [Next]_vars, NEW n \in Nat, Finishing(n)
    PROVE  /\ Finishing(n)' \/ Fetching(n)' \/ ThreadMoved(n)'
           /\ <<ThreadRuns>>_vars => Fetching(n)'
<1>1. WorkerStep => Fetching(n)'
    BY DEF WorkerStep, WorkerReceive, WorkerSend, WorkerEnd, Finishing, Fetching, ThreadLeft
<1> QED
    BY <1>1, ThreadLeftStep DEF Finishing, ThreadMoved, ThreadRuns

LEMMA FetchingStep ==
    ASSUME LInv, [Next]_vars, NEW n \in Nat, Fetching(n)
    PROVE  /\ Fetching(n)' \/ ThreadMoved(n)'
           /\ <<ThreadRuns>>_vars => ThreadMoved(n)'
<1>1. input \in Seq(Values) /\ Len(input) = n
    BY Numbers DEF LInv, TypeOK, Fetching, ThreadLeft
<1>2. WorkerReceive => Len(input') < n
    BY <1>1, HeadTailProperties DEF WorkerReceive
<1>3. WorkerEnd => wpc' = "ended" /\ ~pinned' /\ input' = <<>>
    BY DEF WorkerEnd, NothingMore
<1>4. WorkerStep => ThreadMoved(n)'
    BY <1>2, <1>3 DEF WorkerStep, WorkerSend, ThreadMoved, Fetching
<1> QED
    BY <1>4, ThreadLeftStep DEF Fetching, ThreadMoved, ThreadRuns

\* The thread of a worker that was finalised takes each value that is left in
\* its input pipe, and after the last one it ends and gives up its root reference
\* (ey_worker_entry_point), for every number of values that are left.
THEOREM ThreadsAdvance ==
    Spec /\ []Fairness /\ []StepsAreEnabled => ThreadAdvances
<1>1. ASSUME NEW n \in 0..MaxSent
      PROVE  Spec /\ []Fairness /\ []StepsAreEnabled => ThreadGoesOn(n)
    <2>1. n \in Nat
        BY CpuWorkerAssumption
    <2>2. LInv /\ [Next]_vars /\ Fetching(n) => (Fetching(n) \/ ThreadMoved(n))'
        BY <2>1, FetchingStep
    <2>3. LInv /\ [Next]_vars /\ <<ThreadRuns>>_vars /\ Fetching(n) => ThreadMoved(n)'
        BY <2>1, FetchingStep
    <2>4. StepsAreEnabled /\ Fetching(n) => ENABLED <<ThreadRuns>>_vars
        BY DEF StepsAreEnabled, WorkerGoesOn, Fetching, ThreadLeft
    <2>5. LInv /\ [Next]_vars /\ Finishing(n)
            => (Finishing(n) \/ Fetching(n) \/ ThreadMoved(n))'
        BY <2>1, FinishingStep
    <2>6. LInv /\ [Next]_vars /\ <<ThreadRuns>>_vars /\ Finishing(n) => Fetching(n)'
        BY <2>1, FinishingStep
    <2>7. StepsAreEnabled /\ Finishing(n) => ENABLED <<ThreadRuns>>_vars
        BY DEF StepsAreEnabled, WorkerGoesOn, Finishing, ThreadLeft
    <2>8. LInv /\ inClosed /\ Len(input) = n => Fetching(n) \/ Finishing(n) \/ ThreadMoved(n)
        BY Numbers DEF LInv, TypeOK, WorkerPCs, ThreadKnown, Fetching, Finishing, ThreadLeft,
                       ThreadMoved
    <2>9. ThreadMoved(n)
            <=> (wpc = "ended" /\ ~pinned /\ input = <<>>) \/ Len(input) < n \/ panicked
        BY DEF ThreadMoved
    <2> QED
        BY <2>2, <2>3, <2>4, <2>5, <2>6, <2>7, <2>8, <2>9, LInvariance, PTL
        DEF Spec, Fairness, ThreadGoesOn
<1> QED
    BY <1>1 DEF ThreadAdvances

\* Nobody who waits for a worker, or whom it waits for, waits for ever: the drain
\* of the only consumer and the thread of a finalised worker go on with the next
\* value, however many are left (ey_worker_drain, ey_worker_entry_point).
THEOREM WorkersAdvance ==
    Spec /\ []Fairness /\ []StepsAreEnabled => WorkerAdvances
BY DrainsAdvance, ThreadsAdvance DEF WorkerAdvances
=============================================================================
