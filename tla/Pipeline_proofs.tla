--------------------------- MODULE Pipeline_proofs ----------------------------
(***************************************************************************)
(* Proofs, for any values and vectors, that the counter of a pipeline is   *)
(* the number of values in it, that a pipeline is again a worker, and that *)
(* the drain of its copying thread finds what it counted and goes on.      *)
(***************************************************************************)
EXTENDS Pipeline, SequenceTheorems, TLAPS

-----------------------------------------------------------------------------
(* Queues.  Values move through a chain of queues in the order in which    *)
(* they entered the first; each queue is a segment of the history of all   *)
(* values that entered, and a step moves the boundary between two.         *)

\* q is what comes in s after its first k elements, as far as q goes.
Segment(q, s, k) ==
    /\ k + Len(q) <= Len(s)
    /\ \A i \in 1..Len(q) : q[i] = s[k + i]

\* An empty queue is a segment anywhere in the history.
LEMMA EmptySegment ==
    ASSUME NEW S, NEW s \in Seq(S), NEW k \in Nat, k <= Len(s)
    PROVE  Segment(<<>>, s, k)
BY DEF Segment

\* Taking the head of a queue names the value, and moves the boundary by one.
LEMMA SegmentTail ==
    ASSUME NEW S, NEW s \in Seq(S), NEW q \in Seq(S), NEW k \in Nat,
           Segment(q, s, k), q # <<>>
    PROVE  /\ Head(q) = s[k + 1] /\ Head(q) \in S
           /\ Tail(q) \in Seq(S) /\ Len(Tail(q)) = Len(q) - 1
           /\ Segment(Tail(q), s, k + 1)
<1>1. /\ Head(q) \in S /\ Tail(q) \in Seq(S)
      /\ Len(Tail(q)) = Len(q) - 1
      /\ \A i \in 1 .. Len(Tail(q)) : Tail(q)[i] = q[i+1]
      /\ Len(q) \in Nat \ {0}
    BY HeadTailProperties, EmptySeq
<1>2. Head(q) = q[1]
    OBVIOUS
<1>3. Head(q) = s[k + 1]
    BY <1>1, <1>2 DEF Segment
<1>4. (k + 1) + Len(Tail(q)) <= Len(s)
    BY <1>1 DEF Segment
<1>5. ASSUME NEW i \in 1..Len(Tail(q)) PROVE Tail(q)[i] = s[(k + 1) + i]
    <2>1. i + 1 \in 1..Len(q) /\ k + (i + 1) = (k + 1) + i
        BY <1>1
    <2> QED
        BY <2>1, <1>1 DEF Segment
<1> QED
    BY <1>1, <1>3, <1>4, <1>5 DEF Segment

\* A queue takes the value that comes next in the history.
LEMMA SegmentAppend ==
    ASSUME NEW S, NEW s \in Seq(S), NEW q \in Seq(S), NEW k \in Nat,
           Segment(q, s, k), k + Len(q) < Len(s), NEW v \in S,
           v = s[k + Len(q) + 1]
    PROVE  /\ Append(q, v) \in Seq(S) /\ Len(Append(q, v)) = Len(q) + 1
           /\ Segment(Append(q, v), s, k)
<1>1. /\ Append(q, v) \in Seq(S)
      /\ Len(Append(q, v)) = Len(q) + 1
      /\ \A i \in 1 .. Len(q) : Append(q, v)[i] = q[i]
      /\ Append(q, v)[Len(q) + 1] = v
      /\ Len(q) \in Nat
    BY AppendProperties, LenProperties
<1>2. ASSUME NEW i \in 1..(Len(q) + 1) PROVE Append(q, v)[i] = s[k + i]
    BY <1>1 DEF Segment
<1> QED
    BY <1>1, <1>2, LenProperties DEF Segment

\* The head of a queue moves to the end of the queue before it: the boundary
\* between the two is moved, and nothing behind them is.
LEMMA SegmentMove ==
    ASSUME NEW S, NEW s \in Seq(S), NEW q \in Seq(S), NEW r \in Seq(S), NEW k \in Nat,
           Segment(q, s, k), Segment(r, s, k + Len(q)), r # <<>>
    PROVE  /\ Append(q, Head(r)) \in Seq(S) /\ Len(Append(q, Head(r))) = Len(q) + 1
           /\ Segment(Append(q, Head(r)), s, k)
           /\ Tail(r) \in Seq(S) /\ Len(Tail(r)) = Len(r) - 1
           /\ Segment(Tail(r), s, k + (Len(q) + 1))
<1>1. Len(q) \in Nat /\ Len(r) \in Nat \ {0} /\ k + Len(q) \in Nat
    BY LenProperties, EmptySeq
<1>2. /\ Head(r) = s[k + Len(q) + 1] /\ Head(r) \in S
      /\ Tail(r) \in Seq(S) /\ Len(Tail(r)) = Len(r) - 1
      /\ Segment(Tail(r), s, k + Len(q) + 1)
    BY <1>1, SegmentTail
<1>3. k + Len(q) < Len(s)
    BY <1>1, LenProperties DEF Segment
<1> DEFINE v == Head(r)
<1> HIDE DEF v
<1>4. /\ Append(q, v) \in Seq(S) /\ Len(Append(q, v)) = Len(q) + 1
      /\ Segment(Append(q, v), s, k)
    BY <1>2, <1>3, SegmentAppend DEF v
<1>5. k + Len(q) + 1 = k + (Len(q) + 1)
    BY <1>1
<1> QED
    BY <1>2, <1>4, <1>5 DEF v

\* What is behind a segment may be added to it as a whole.
LEMMA SegmentConcat ==
    ASSUME NEW S, NEW s \in Seq(S), NEW q \in Seq(S), NEW r \in Seq(S), NEW k \in Nat,
           Segment(q, s, k), Segment(r, s, k + Len(q))
    PROVE  /\ q \o r \in Seq(S) /\ Len(q \o r) = Len(q) + Len(r)
           /\ Segment(q \o r, s, k)
<1>1. /\ q \o r \in Seq(S)
      /\ Len(q \o r) = Len(q) + Len(r)
      /\ \A i \in 1 .. Len(q) + Len(r) :
            (q \o r)[i] = IF i <= Len(q) THEN q[i] ELSE r[i - Len(q)]
      /\ Len(q) \in Nat /\ Len(r) \in Nat /\ Len(s) \in Nat
    BY ConcatProperties, LenProperties
<1>2. ASSUME NEW i \in 1..Len(q \o r) PROVE (q \o r)[i] = s[k + i]
    <2>1. CASE i <= Len(q)
        BY <2>1, <1>1 DEF Segment
    <2>2. CASE i > Len(q)
        <3>1. i - Len(q) \in 1..Len(r) /\ (k + Len(q)) + (i - Len(q)) = k + i
            BY <2>2, <1>1
        <3> QED
            BY <3>1, <2>2, <1>1 DEF Segment
    <2> QED
        BY <2>1, <2>2, <1>1
<1> QED
    BY <1>1, <1>2 DEF Segment

\* A segment stays one when the history grows.
LEMMA SegmentStays ==
    ASSUME NEW S, NEW s \in Seq(S), NEW q \in Seq(S), NEW k \in Nat,
           Segment(q, s, k), NEW r \in Seq(S)
    PROVE  /\ s \o r \in Seq(S) /\ Len(s \o r) = Len(s) + Len(r)
           /\ Segment(q, s \o r, k)
<1>1. /\ s \o r \in Seq(S)
      /\ Len(s \o r) = Len(s) + Len(r)
      /\ \A i \in 1 .. Len(s) + Len(r) :
            (s \o r)[i] = IF i <= Len(s) THEN s[i] ELSE r[i - Len(s)]
      /\ Len(q) \in Nat /\ Len(r) \in Nat /\ Len(s) \in Nat
    BY ConcatProperties, LenProperties
<1> QED
    BY <1>1 DEF Segment

\* What enters the history is a segment at its end.
LEMMA SegmentAtEnd ==
    ASSUME NEW S, NEW s \in Seq(S), NEW r \in Seq(S)
    PROVE  Segment(r, s \o r, Len(s))
<1>1. /\ Len(s \o r) = Len(s) + Len(r)
      /\ \A i \in 1 .. Len(s) + Len(r) :
            (s \o r)[i] = IF i <= Len(s) THEN s[i] ELSE r[i - Len(s)]
      /\ Len(r) \in Nat /\ Len(s) \in Nat
    BY ConcatProperties, LenProperties
<1>2. ASSUME NEW i \in 1..Len(r) PROVE r[i] = (s \o r)[Len(s) + i]
    BY <1>1
<1> QED
    BY <1>1, <1>2 DEF Segment

\* The history before a step is a prefix of the history after it.
LEMMA PrefixOfConcat ==
    ASSUME NEW S, NEW s \in Seq(S), NEW r \in Seq(S)
    PROVE  /\ s \o r \in Seq(S) /\ Len(s) <= Len(s \o r)
           /\ s = SubSeq(s \o r, 1, Len(s))
<1>1. /\ s \o r \in Seq(S)
      /\ Len(s \o r) = Len(s) + Len(r)
      /\ \A i \in 1 .. Len(s) + Len(r) :
            (s \o r)[i] = IF i <= Len(s) THEN s[i] ELSE r[i - Len(s)]
      /\ Len(r) \in Nat /\ Len(s) \in Nat
    BY ConcatProperties, LenProperties
<1> DEFINE p == SubSeq(s \o r, 1, Len(s))
<1>2. \A i \in 1..Len(s) : i \in 1..Len(s \o r)
    BY <1>1
<1>3. p = [i \in 1..Len(s) |-> (s \o r)[i]]
    BY <1>1
<1>4. \A i \in 1..Len(s) : p[i] = s[i]
    BY <1>1, <1>3
<1>5. p = s
    BY <1>1, <1>3, <1>4
<1> QED
    BY <1>1, <1>5

-----------------------------------------------------------------------------
(* The inductive invariant                                                 *)

\* The parts of the two workers, each under a name of its own.
BusyL  == busy["lhs"]
BusyR  == busy["rhs"]
ReadyL == ready["lhs"]
ReadyR == ready["rhs"]
CountL == count["lhs"]
CountR == count["rhs"]

\* Where each part is in the history of accepted values: a value leaves through
\* rhs, so what is there was accepted before the rest.
ReadyRAt == Len(delivered)
BusyRAt  == ReadyRAt + Len(ReadyR)
BatchAt  == BusyRAt + Len(BusyR)
ReadyLAt == BatchAt + Len(batch)
BusyLAt  == ReadyLAt + Len(ReadyL)

\* The accepted values, oldest first, are delivered, in rhs, with the copying
\* thread and in lhs.
InOrder ==
    /\ accepted \in Seq(Values) /\ delivered \in Seq(Values)
    /\ Segment(delivered, accepted, 0)
    /\ Segment(ReadyR, accepted, ReadyRAt)
    /\ Segment(BusyR, accepted, BusyRAt)
    /\ Segment(batch, accepted, BatchAt)
    /\ Segment(ReadyL, accepted, ReadyLAt)
    /\ Segment(BusyL, accepted, BusyLAt)
    /\ Len(accepted) = BusyLAt + Len(BusyL)

\* Each worker's counter is what it holds, and while the thread drains lhs it
\* has not counted more than there still is.
WorkersCount ==
    /\ CountL = Len(BusyL) + Len(ReadyL)
    /\ CountR = Len(BusyR) + Len(ReadyR)
    /\ tpc = "drain" => required <= CountL

\* Where the program's thread is tells what it still has to do.
CallKnown ==
    /\ upc # "send" => todo = <<>>
    /\ upc \in {"take", "count"} => need >= 1

\* The inductive invariant.  That the counters stay natural numbers needs
\* WorkersCount and CallKnown.
IInv == /\ UnderwayIsOutstanding
        /\ InOrder
        /\ WorkersCount
        /\ CallKnown

-----------------------------------------------------------------------------
(* Facts about the state                                                   *)

\* The values in the pipeline, by where they are.
Held == Len(todo) + Len(BusyL) + Len(ReadyL) + Len(batch) + Len(BusyR) + Len(ReadyR)

LEMMA Outstanding ==
    UnderwayIsOutstanding <=>
        TypeOK /\ underway = Held + (IF upc = "count" THEN 1 ELSE 0)
BY DEF UnderwayIsOutstanding, Held, BusyL, BusyR, ReadyL, ReadyR

\* What the invariant says of the parts of the state.
LEMMA Typed ==
    ASSUME IInv
    PROVE  /\ TypeOK
           /\ BusyL \in Seq(Values) /\ BusyR \in Seq(Values)
           /\ ReadyL \in Seq(Values) /\ ReadyR \in Seq(Values)
           /\ batch \in Seq(Values) /\ todo \in Seq(Values)
           /\ accepted \in Seq(Values) /\ delivered \in Seq(Values)
BY DEF IInv, UnderwayIsOutstanding, InOrder, TypeOK, Workers, BusyL, BusyR, ReadyL, ReadyR

LEMMA Lengths ==
    ASSUME IInv
    PROVE  /\ Len(BusyL) \in Nat /\ Len(BusyR) \in Nat
           /\ Len(ReadyL) \in Nat /\ Len(ReadyR) \in Nat
           /\ Len(batch) \in Nat /\ Len(todo) \in Nat
           /\ Len(accepted) \in Nat /\ Len(delivered) \in Nat
BY Typed, LenProperties

LEMMA Positions ==
    ASSUME IInv
    PROVE  /\ ReadyRAt \in Nat /\ BusyRAt \in Nat /\ BatchAt \in Nat
           /\ ReadyLAt \in Nat /\ BusyLAt \in Nat
           /\ Len(accepted) = BusyLAt + Len(BusyL)
BY Lengths DEF IInv, InOrder, ReadyRAt, BusyRAt, BatchAt, ReadyLAt, BusyLAt

LEMMA Accounting ==
    ASSUME IInv
    PROVE  /\ underway \in Nat /\ need \in Nat /\ required \in Nat /\ Held \in Nat
           /\ CountL \in Nat /\ CountR \in Nat
           /\ underway = Held + (IF upc = "count" THEN 1 ELSE 0)
<1>1. Held \in Nat
    BY Lengths DEF Held
<1>2. CountL \in Nat /\ CountR \in Nat
    BY Lengths DEF IInv, WorkersCount
<1> QED
    BY <1>1, <1>2, Typed, Outstanding DEF IInv, TypeOK

LEMMA InOrderStays ==
    ASSUME InOrder, UNCHANGED <<accepted, delivered, ready, busy, batch>>
    PROVE  InOrder'
BY DEF InOrder, BusyL, BusyR, ReadyL, ReadyR, ReadyRAt, BusyRAt, BatchAt, ReadyLAt, BusyLAt

LEMMA InitEstablishes == Init => IInv
<1> SUFFICES ASSUME Init PROVE IInv
    OBVIOUS
<1>1. /\ BusyL = <<>> /\ BusyR = <<>> /\ ReadyL = <<>> /\ ReadyR = <<>>
      /\ CountL = 0 /\ CountR = 0
    BY DEF Init, Workers, BusyL, BusyR, ReadyL, ReadyR, CountL, CountR
<1>2. TypeOK
    <2>1. /\ count \in [Workers -> Nat]
          /\ busy \in [Workers -> Seq(Values)] /\ ready \in [Workers -> Seq(Values)]
        BY DEF Init
    <2>2. batch \in Seq(Values) /\ todo \in Seq(Values)
        BY DEF Init
    <2> QED
        BY <2>1, <2>2 DEF Init, TypeOK, ThreadPCs, UserPCs
<1>3. Held = 0 /\ BusyLAt = 0
    BY <1>1 DEF Init, Held, ReadyRAt, BusyRAt, BatchAt, ReadyLAt, BusyLAt
<1>4. UnderwayIsOutstanding
    BY <1>2, <1>3, Outstanding DEF Init
<1>5. InOrder
    BY <1>1 DEF Init, InOrder, Segment, ReadyRAt, BusyRAt, BatchAt, ReadyLAt, BusyLAt
<1>6. WorkersCount /\ CallKnown
    BY <1>1 DEF Init, WorkersCount, CallKnown
<1> QED
    BY <1>4, <1>5, <1>6 DEF IInv

-----------------------------------------------------------------------------
(* One lemma per action that moves values                                  *)

\* What an action that moves values about leaves to be shown.
LEMMA PartsKeep ==
    ASSUME TypeOK', underway' = Held' + (IF upc' = "count" THEN 1 ELSE 0),
           InOrder', WorkersCount', CallKnown'
    PROVE  IInv'
<1>1. UnderwayIsOutstanding'
    BY DEF UnderwayIsOutstanding, Held, BusyL, BusyR, ReadyL, ReadyR
<1> QED
    BY <1>1 DEF IInv

LEMMA ProcessRhsKeeps ==
    ASSUME IInv, Process("rhs")
    PROVE  IInv'
<1>1. /\ BusyR # <<>> /\ BusyR' = Tail(BusyR) /\ ReadyR' = Append(ReadyR, Head(BusyR))
      /\ UNCHANGED <<BusyL, ReadyL, CountL, CountR, underway, tpc, required, batch, upc,
                     need, draining, todo, accepted, delivered>>
    BY Typed DEF Process, threadVars, userVars, TypeOK, Workers, BusyL, BusyR, ReadyL,
                 ReadyR, CountL, CountR
<1>2. /\ Segment(ReadyR, accepted, ReadyRAt)
      /\ Segment(BusyR, accepted, ReadyRAt + Len(ReadyR))
    BY DEF IInv, InOrder, BusyRAt
<1>3. /\ ReadyR' \in Seq(Values) /\ Len(ReadyR') = Len(ReadyR) + 1
      /\ Segment(ReadyR', accepted, ReadyRAt)
      /\ BusyR' \in Seq(Values) /\ Len(BusyR') = Len(BusyR) - 1
      /\ Segment(BusyR', accepted, ReadyRAt + Len(ReadyR'))
    <2>1. /\ ReadyR \in Seq(Values) /\ BusyR \in Seq(Values) /\ accepted \in Seq(Values)
          /\ ReadyRAt \in Nat /\ BusyR # <<>>
        BY <1>1, Typed, Positions
    <2>2. /\ Append(ReadyR, Head(BusyR)) \in Seq(Values)
          /\ Len(Append(ReadyR, Head(BusyR))) = Len(ReadyR) + 1
          /\ Segment(Append(ReadyR, Head(BusyR)), accepted, ReadyRAt)
          /\ Tail(BusyR) \in Seq(Values) /\ Len(Tail(BusyR)) = Len(BusyR) - 1
          /\ Segment(Tail(BusyR), accepted, ReadyRAt + (Len(ReadyR) + 1))
        BY <2>1, <1>2, SegmentMove
    <2>3. ReadyR' = Append(ReadyR, Head(BusyR)) /\ BusyR' = Tail(BusyR)
        BY <1>1
    <2> QED
        BY <2>1, <2>2, <2>3, Zenon
<1>4. TypeOK'
    BY <1>1, <1>3, Typed DEF Process, TypeOK, threadVars, userVars, Workers, BusyR, ReadyR
<1>5. Held' = Held
    BY <1>1, <1>3, Lengths DEF Held
<1>6. InOrder'
    <2>1. ReadyRAt' = ReadyRAt /\ BatchAt' = BatchAt
        BY <1>1, <1>3, Lengths, Positions DEF ReadyRAt, BusyRAt, BatchAt
    <2>2. ReadyLAt' = ReadyLAt /\ BusyLAt' = BusyLAt
        BY <1>1, <2>1 DEF ReadyLAt, BusyLAt
    <2> QED
        BY <1>1, <1>3, <2>1, <2>2 DEF IInv, InOrder, BusyRAt
<1>7. WorkersCount' /\ CallKnown'
    BY <1>1, <1>3, Lengths, Accounting DEF IInv, WorkersCount, CallKnown
<1> QED
    BY <1>1, <1>4, <1>5, <1>6, <1>7, Accounting, PartsKeep

LEMMA ProcessLhsKeeps ==
    ASSUME IInv, Process("lhs")
    PROVE  IInv'
<1>1. /\ BusyL # <<>> /\ BusyL' = Tail(BusyL) /\ ReadyL' = Append(ReadyL, Head(BusyL))
      /\ UNCHANGED <<BusyR, ReadyR, CountL, CountR, underway, tpc, required, batch, upc,
                     need, draining, todo, accepted, delivered>>
    BY Typed DEF Process, threadVars, userVars, TypeOK, Workers, BusyL, BusyR, ReadyL,
                 ReadyR, CountL, CountR
<1>2. /\ Segment(ReadyL, accepted, ReadyLAt)
      /\ Segment(BusyL, accepted, ReadyLAt + Len(ReadyL))
    BY DEF IInv, InOrder, BusyLAt
<1>3. /\ ReadyL' \in Seq(Values) /\ Len(ReadyL') = Len(ReadyL) + 1
      /\ Segment(ReadyL', accepted, ReadyLAt)
      /\ BusyL' \in Seq(Values) /\ Len(BusyL') = Len(BusyL) - 1
      /\ Segment(BusyL', accepted, ReadyLAt + Len(ReadyL'))
    <2>1. /\ ReadyL \in Seq(Values) /\ BusyL \in Seq(Values) /\ accepted \in Seq(Values)
          /\ ReadyLAt \in Nat /\ BusyL # <<>>
        BY <1>1, Typed, Positions
    <2>2. /\ Append(ReadyL, Head(BusyL)) \in Seq(Values)
          /\ Len(Append(ReadyL, Head(BusyL))) = Len(ReadyL) + 1
          /\ Segment(Append(ReadyL, Head(BusyL)), accepted, ReadyLAt)
          /\ Tail(BusyL) \in Seq(Values) /\ Len(Tail(BusyL)) = Len(BusyL) - 1
          /\ Segment(Tail(BusyL), accepted, ReadyLAt + (Len(ReadyL) + 1))
        BY <2>1, <1>2, SegmentMove
    <2>3. ReadyL' = Append(ReadyL, Head(BusyL)) /\ BusyL' = Tail(BusyL)
        BY <1>1
    <2> QED
        BY <2>1, <2>2, <2>3, Zenon
<1>4. TypeOK'
    BY <1>1, <1>3, Typed DEF Process, TypeOK, threadVars, userVars, Workers, BusyL, ReadyL
<1>5. Held' = Held
    BY <1>1, <1>3, Lengths DEF Held
<1>6. InOrder'
    <2>1. UNCHANGED <<ReadyRAt, BusyRAt, BatchAt, ReadyLAt>>
        BY <1>1 DEF ReadyRAt, BusyRAt, BatchAt, ReadyLAt
    <2>2. Len(accepted') = BusyLAt' + Len(BusyL')
        <3>1. /\ Len(ReadyL') = Len(ReadyL) + 1 /\ Len(BusyL') = Len(BusyL) - 1
              /\ ReadyLAt' = ReadyLAt /\ Len(accepted') = Len(accepted)
            BY <1>1, <1>3, <2>1
        <3>2. /\ ReadyLAt \in Nat /\ Len(ReadyL) \in Nat /\ Len(BusyL) \in Nat
              /\ Len(accepted) = ReadyLAt + Len(ReadyL) + Len(BusyL)
            BY Lengths, Positions DEF BusyLAt
        <3> QED
            BY <3>1, <3>2 DEF BusyLAt
    <2> QED
        BY <1>1, <1>3, <2>1, <2>2 DEF IInv, InOrder, BusyLAt
<1>7. WorkersCount' /\ CallKnown'
    BY <1>1, <1>3, Lengths, Accounting DEF IInv, WorkersCount, CallKnown
<1> QED
    BY <1>1, <1>4, <1>5, <1>6, <1>7, Accounting, PartsKeep

LEMMA ThreadReceiveKeeps ==
    ASSUME IInv, ThreadReceive
    PROVE  IInv'
<1>1. /\ tpc = "drain" /\ required > 0 /\ required' = required - 1
      /\ ReadyL # <<>> /\ ReadyL' = Tail(ReadyL) /\ CountL' = CountL - 1
      /\ batch' = Append(batch, Head(ReadyL))
      /\ UNCHANGED <<BusyL, BusyR, ReadyR, CountR, underway, tpc, upc, need, draining,
                     todo, accepted, delivered>>
    BY Typed DEF ThreadReceive, ReceiveFrom, userVars, TypeOK, Workers, BusyL, BusyR,
                 ReadyL, ReadyR, CountL, CountR
<1>2. /\ Segment(batch, accepted, BatchAt)
      /\ Segment(ReadyL, accepted, BatchAt + Len(batch))
    BY DEF IInv, InOrder, ReadyLAt
<1>3. /\ batch' \in Seq(Values) /\ Len(batch') = Len(batch) + 1
      /\ Segment(batch', accepted, BatchAt)
      /\ ReadyL' \in Seq(Values) /\ Len(ReadyL') = Len(ReadyL) - 1
      /\ Segment(ReadyL', accepted, BatchAt + Len(batch'))
    <2>1. /\ batch \in Seq(Values) /\ ReadyL \in Seq(Values) /\ accepted \in Seq(Values)
          /\ BatchAt \in Nat /\ ReadyL # <<>>
        BY <1>1, Typed, Positions
    <2>2. /\ Append(batch, Head(ReadyL)) \in Seq(Values)
          /\ Len(Append(batch, Head(ReadyL))) = Len(batch) + 1
          /\ Segment(Append(batch, Head(ReadyL)), accepted, BatchAt)
          /\ Tail(ReadyL) \in Seq(Values) /\ Len(Tail(ReadyL)) = Len(ReadyL) - 1
          /\ Segment(Tail(ReadyL), accepted, BatchAt + (Len(batch) + 1))
        BY <2>1, <1>2, SegmentMove
    <2>3. batch' = Append(batch, Head(ReadyL)) /\ ReadyL' = Tail(ReadyL)
        BY <1>1
    <2> QED
        BY <2>1, <2>2, <2>3, Zenon
<1>4. CountL' \in Nat /\ required' \in Nat
    <2>1. Len(ReadyL) \in Nat \ {0}
        BY <1>1, Typed, EmptySeq
    <2> QED
        <3>1. CountL = Len(BusyL) + Len(ReadyL) /\ Len(BusyL) \in Nat
            BY Lengths DEF IInv, WorkersCount
        <3>2. CountL' = CountL - 1 /\ required' = required - 1 /\ required > 0
              /\ required \in Nat
            BY <1>1, Accounting
        <3> QED
            BY <2>1, <3>1, <3>2
<1>5. TypeOK'
    BY <1>1, <1>3, <1>4, Typed
    DEF ThreadReceive, ReceiveFrom, TypeOK, userVars, Workers, ReadyL, CountL
<1>6. Held' = Held
    BY <1>1, <1>3, Lengths DEF Held
<1>7. InOrder'
    <2>1. UNCHANGED <<ReadyRAt, BusyRAt, BatchAt>>
        BY <1>1 DEF ReadyRAt, BusyRAt, BatchAt
    <2>2. BusyLAt' = BusyLAt
        <3>1. /\ Len(batch') = Len(batch) + 1 /\ Len(ReadyL') = Len(ReadyL) - 1
              /\ BatchAt' = BatchAt
            BY <1>3, <2>1
        <3>2. BatchAt \in Nat /\ Len(batch) \in Nat /\ Len(ReadyL) \in Nat
            BY Lengths, Positions
        <3> QED
            BY <3>1, <3>2 DEF ReadyLAt, BusyLAt
    <2> QED
        BY <1>1, <1>3, <2>1, <2>2 DEF IInv, InOrder, ReadyLAt
<1>8. WorkersCount' /\ CallKnown'
    BY <1>1, <1>3, Lengths, Accounting, SMTT(30) DEF IInv, WorkersCount, CallKnown
<1> QED
    BY <1>1, <1>5, <1>6, <1>7, <1>8, Accounting, PartsKeep

\* The whole batch is sent on: it joins what rhs has not processed.
LEMMA ThreadSendKeeps ==
    ASSUME IInv, ThreadSend
    PROVE  IInv'
<1>1. /\ tpc' = "gone" /\ batch' = <<>> /\ Len(batch') = 0
      /\ BusyR' = BusyR \o batch /\ CountR' = CountR + Len(batch)
      /\ UNCHANGED <<BusyL, ReadyL, ReadyR, CountL, underway, required, upc, need,
                     draining, todo, accepted, delivered>>
    BY Typed DEF ThreadSend, SendTo, Moved, userVars, TypeOK, Workers, BusyL, BusyR,
                 ReadyL, ReadyR, CountL, CountR
<1>2. /\ BusyR' \in Seq(Values) /\ Len(BusyR') = Len(BusyR) + Len(batch)
      /\ Segment(BusyR', accepted, BusyRAt)
    BY <1>1, Typed, Lengths, Positions, SegmentConcat, SMTT(30) DEF IInv, InOrder, BatchAt
<1>3. CountR' \in Nat
    BY <1>1, Lengths, Accounting, SMTT(30)
<1>4. TypeOK'
    BY <1>1, <1>2, <1>3, Typed, SMTT(30)
    DEF ThreadSend, SendTo, Moved, TypeOK, userVars, Workers, ThreadPCs, BusyR, CountR
<1>5. Held' = Held
    BY <1>1, <1>2, Lengths DEF Held
<1>6. InOrder'
    <2>1. UNCHANGED <<ReadyRAt, BusyRAt>>
        BY <1>1 DEF ReadyRAt, BusyRAt
    <2>2. BatchAt' = ReadyLAt /\ ReadyLAt' = ReadyLAt
        <3>1. BatchAt' = BusyRAt + (Len(BusyR) + Len(batch))
            BY <1>2, <2>1 DEF BatchAt
        <3>2. ReadyLAt = (BusyRAt + Len(BusyR)) + Len(batch)
            BY DEF ReadyLAt, BatchAt
        <3>3. ReadyLAt' = BatchAt' + 0
            BY <1>1 DEF ReadyLAt
        <3> DEFINE a == BusyRAt
                   b == Len(BusyR)
                   c == Len(batch)
        <3>4. a \in Nat /\ b \in Nat /\ c \in Nat
            BY Lengths, Positions
        <3>5. BatchAt' = a + (b + c) /\ ReadyLAt = (a + b) + c
            BY <3>1, <3>2
        <3> HIDE DEF a, b, c
        <3> QED
            BY <3>3, <3>4, <3>5
    <2>3. BusyLAt' = BusyLAt
        BY <1>1, <2>2 DEF BusyLAt
    <2>4. ReadyLAt <= Len(accepted)
        BY Lengths, Positions, SMTT(30) DEF BusyLAt
    <2>5. Segment(batch', accepted, ReadyLAt)
        BY <2>4, <1>1, Typed, Positions, EmptySegment
    <2> QED
        BY <1>1, <1>2, <2>1, <2>2, <2>3, <2>5 DEF IInv, InOrder
<1>7. WorkersCount' /\ CallKnown'
    BY <1>1, <1>2, Lengths, Accounting DEF IInv, WorkersCount, CallKnown
<1> QED
    BY <1>1, <1>4, <1>5, <1>6, <1>7, Accounting, PartsKeep

\* The values passed to lhs are accepted: they are the newest in the history.
LEMMA SendForwardKeeps ==
    ASSUME IInv, SendForward
    PROVE  /\ IInv'
           /\ accepted' = accepted \o todo /\ delivered' = delivered
<1>1. /\ upc = "send" /\ upc' = "idle" /\ todo' = <<>> /\ Len(todo') = 0
      /\ BusyL' = BusyL \o todo /\ CountL' = CountL + Len(todo)
      /\ accepted' = accepted \o todo
      /\ UNCHANGED <<BusyR, ReadyL, ReadyR, CountR, batch, underway, tpc, required, need,
                     draining, delivered>>
    BY Typed DEF SendForward, SendTo, threadVars, TypeOK, Workers, BusyL, BusyR,
                 ReadyL, ReadyR, CountL, CountR
<1> DEFINE new == accepted \o todo
<1>2. /\ new \in Seq(Values) /\ Len(new) = Len(accepted) + Len(todo)
      /\ Segment(delivered, new, 0) /\ Segment(ReadyR, new, ReadyRAt)
      /\ Segment(BusyR, new, BusyRAt) /\ Segment(batch, new, BatchAt)
      /\ Segment(ReadyL, new, ReadyLAt)
    BY Typed, Positions, SegmentStays, SMTT(30) DEF IInv, InOrder
<1>3. /\ BusyL \o todo \in Seq(Values)
      /\ Len(BusyL \o todo) = Len(BusyL) + Len(todo)
      /\ Segment(BusyL \o todo, new, BusyLAt)
    <2>1. Segment(BusyL, new, BusyLAt)
        BY Typed, Positions, SegmentStays DEF IInv, InOrder
    <2>2. Segment(todo, new, BusyLAt + Len(BusyL))
        BY Typed, Positions, SegmentAtEnd
    <2> QED
        <3>1. /\ BusyL \in Seq(Values) /\ todo \in Seq(Values) /\ new \in Seq(Values)
              /\ BusyLAt \in Nat
            BY <1>2, Typed, Positions
        <3> HIDE DEF new
        <3> QED
            BY <2>1, <2>2, <3>1, SegmentConcat
<1> HIDE DEF new
<1>4. accepted' = new /\ new = accepted \o todo
    BY <1>1 DEF new
<1>5. CountL' \in Nat
    BY <1>1, Lengths, Accounting, SMTT(30)
<1>6. TypeOK'
    <2>1. /\ busy' = [busy EXCEPT !["lhs"] = BusyL \o todo]
          /\ count' = [count EXCEPT !["lhs"] = CountL + Len(todo)]
          /\ ready' = ready /\ UNCHANGED <<batch, underway, tpc, required, need, draining>>
        BY DEF SendForward, SendTo, threadVars, BusyL, CountL
    <2>2. /\ busy' \in [Workers -> Seq(Values)] /\ count' \in [Workers -> Nat]
          /\ ready' \in [Workers -> Seq(Values)]
        <3>1. CountL + Len(todo) \in Nat
            BY <1>1, <1>5
        <3> QED
            BY <2>1, <3>1, <1>3, Typed DEF TypeOK, Workers
    <2>3. upc' \in UserPCs /\ todo' \in Seq(Values)
        BY <1>1 DEF UserPCs
    <2> QED
        BY <2>1, <2>2, <2>3, Typed DEF TypeOK
<1>7. Held' = Held
    <2>1. Len(BusyL') = Len(BusyL) + Len(todo) /\ Len(todo') = 0
        BY <1>1, <1>3
    <2>2. UNCHANGED <<ReadyL, batch, BusyR, ReadyR>>
        BY <1>1
    <2> QED
        BY <2>1, <2>2, Lengths DEF Held
<1>8. InOrder'
    <2>1. UNCHANGED <<ReadyRAt, BusyRAt, BatchAt, ReadyLAt, BusyLAt>>
        BY <1>1 DEF ReadyRAt, BusyRAt, BatchAt, ReadyLAt, BusyLAt
    <2>2. Len(new) = BusyLAt + (Len(BusyL) + Len(todo))
        <3>1. Len(new) = Len(accepted) + Len(todo)
            BY <1>2
        <3>2. /\ Len(accepted) = BusyLAt + Len(BusyL) /\ BusyLAt \in Nat
              /\ Len(BusyL) \in Nat /\ Len(todo) \in Nat
            BY Lengths, Positions
        <3> QED
            BY <3>1, <3>2
    <2> QED
        BY <1>1, <1>2, <1>3, <1>4, <2>1, <2>2, Typed DEF InOrder
<1>9. WorkersCount' /\ CallKnown'
    <2>1. /\ Len(BusyL') = Len(BusyL) + Len(todo) /\ CountL' = CountL + Len(todo)
          /\ UNCHANGED <<ReadyL, ReadyR, BusyR, CountR, tpc, required>>
        BY <1>1, <1>3
    <2>2. WorkersCount'
        BY <2>1, Lengths, Accounting, SMTT(30) DEF IInv, WorkersCount
    <2> QED
        BY <2>2, <1>1 DEF CallKnown
<1>10. IInv'
    BY <1>1, <1>6, <1>7, <1>8, <1>9, Accounting, PartsKeep
<1> QED
    BY <1>1, <1>10

LEMMA TakeKeeps ==
    ASSUME IInv, Take
    PROVE  /\ IInv'
           /\ delivered' = Append(delivered, accepted[Len(delivered) + 1])
           /\ Len(delivered) + 1 <= Len(accepted)
           /\ accepted' = accepted
<1>1. /\ upc = "take" /\ upc' = "count"
      /\ ReadyR # <<>> /\ ReadyR' = Tail(ReadyR) /\ CountR' = CountR - 1
      /\ delivered' = Append(delivered, Head(ReadyR))
      /\ UNCHANGED <<BusyL, BusyR, ReadyL, CountL, batch, underway, tpc, required, need,
                     draining, todo, accepted>>
    BY Typed DEF Take, ReceiveFrom, threadVars, TypeOK, Workers, BusyL, BusyR,
                 ReadyL, ReadyR, CountL, CountR
<1>2. /\ Segment(delivered, accepted, 0) /\ 0 + Len(delivered) = ReadyRAt
      /\ Segment(ReadyR, accepted, 0 + Len(delivered))
    BY Lengths DEF IInv, InOrder, ReadyRAt
<1>3. /\ Append(delivered, Head(ReadyR)) \in Seq(Values)
      /\ Len(Append(delivered, Head(ReadyR))) = Len(delivered) + 1
      /\ Segment(Append(delivered, Head(ReadyR)), accepted, 0)
      /\ Tail(ReadyR) \in Seq(Values) /\ Len(Tail(ReadyR)) = Len(ReadyR) - 1
      /\ Segment(Tail(ReadyR), accepted, 0 + (Len(delivered) + 1))
    BY <1>1, <1>2, Typed, SegmentMove
<1>4. Len(ReadyR) \in Nat \ {0} /\ Len(delivered) \in Nat
    BY <1>1, Typed, EmptySeq, Lengths
<1>5. /\ Head(ReadyR) = accepted[Len(delivered) + 1]
      /\ Len(delivered) + 1 <= Len(accepted)
    <2>1. Segment(ReadyR, accepted, ReadyRAt) /\ ReadyRAt \in Nat
        BY Positions DEF IInv, InOrder
    <2>2. Head(ReadyR) = accepted[ReadyRAt + 1]
        BY <2>1, <1>1, Typed, SegmentTail
    <2>3. ReadyRAt + Len(ReadyR) <= Len(accepted)
        BY <2>1 DEF Segment
    <2> QED
        BY <2>2, <2>3, <1>4, Lengths DEF ReadyRAt
<1>6. CountR' \in Nat
    <2>1. CountR = Len(BusyR) + Len(ReadyR) /\ Len(BusyR) \in Nat /\ CountR' = CountR - 1
        BY <1>1, Lengths DEF IInv, WorkersCount
    <2> QED
        BY <2>1, <1>4
<1>7. TypeOK'
    BY <1>1, <1>3, <1>6, Typed
    DEF Take, ReceiveFrom, TypeOK, threadVars, Workers, UserPCs, ReadyR, CountR
<1>8. Held' = Held - 1
    <2>1. /\ Len(ReadyR') = Len(ReadyR) - 1
          /\ UNCHANGED <<BusyL, BusyR, ReadyL, batch, todo>>
        BY <1>1, <1>3
    <2> QED
        BY <2>1, Lengths DEF Held
<1>9. underway' = Held' + (IF upc' = "count" THEN 1 ELSE 0)
    <2>1. underway' = underway /\ upc = "take" /\ upc' = "count"
        BY <1>1
    <2> QED
        BY <1>8, <2>1, Accounting
<1>10. InOrder'
    <2>1. ReadyRAt' = Len(delivered) + 1 /\ BusyRAt' = BusyRAt
        <3>1. /\ Len(delivered') = Len(delivered) + 1
              /\ Len(ReadyR') = Len(ReadyR) - 1
            BY <1>1, <1>3
        <3> QED
            BY <3>1, <1>4 DEF ReadyRAt, BusyRAt
    <2>2. UNCHANGED <<BatchAt, ReadyLAt, BusyLAt>>
        BY <1>1, <2>1 DEF BatchAt, ReadyLAt, BusyLAt
    <2>3. Segment(ReadyR', accepted, ReadyRAt')
        <3>1. 0 + (Len(delivered) + 1) = Len(delivered) + 1
            BY <1>4
        <3> QED
            BY <3>1, <1>1, <1>3, <2>1
    <2>4. Segment(delivered', accepted, 0) /\ delivered' \in Seq(Values)
        BY <1>1, <1>3
    <2> QED
        BY <1>1, <2>1, <2>2, <2>3, <2>4 DEF IInv, InOrder
<1>11. WorkersCount' /\ CallKnown'
    <2>1. /\ Len(ReadyR') = Len(ReadyR) - 1 /\ CountR' = CountR - 1
          /\ UNCHANGED <<BusyL, ReadyL, CountL, BusyR, tpc, required>>
        BY <1>1, <1>3
    <2>2. WorkersCount'
        BY <2>1, Lengths, Accounting DEF IInv, WorkersCount
    <2> QED
        BY <2>2, <1>1 DEF IInv, CallKnown
<1>12. IInv'
    BY <1>7, <1>9, <1>10, <1>11, PartsKeep
<1> QED
    BY <1>1, <1>5, <1>12

-----------------------------------------------------------------------------
(* The actions that move none                                              *)

\* What they leave to be shown.
LEMMA NothingMoves ==
    ASSUME IInv, UNCHANGED <<accepted, delivered, ready, busy, batch, count>>,
           Len(todo') \in Nat
    PROVE  /\ InOrder'
           /\ Held' = Len(todo') + (Held - Len(todo))
           /\ UNCHANGED <<CountL, CountR>>
           /\ CountL' = Len(BusyL') + Len(ReadyL')
           /\ CountR' = Len(BusyR') + Len(ReadyR')
<1>1. UNCHANGED <<BusyL, BusyR, ReadyL, ReadyR, CountL, CountR, batch>>
    BY DEF BusyL, BusyR, ReadyL, ReadyR, CountL, CountR
<1>2. Held' = Len(todo') + Len(BusyL) + Len(ReadyL) + Len(batch) + Len(BusyR) + Len(ReadyR)
    BY <1>1 DEF Held
<1>3. Held' = Len(todo') + (Held - Len(todo))
    BY <1>2, Lengths DEF Held
<1> QED
    BY <1>1, <1>3, InOrderStays DEF IInv, WorkersCount

LEMMA SendBeginKeeps ==
    ASSUME IInv, NEW vs \in Batches, SendBegin(vs)
    PROVE  IInv'
<1>1. /\ upc = "idle" /\ upc' = "send" /\ todo' = vs /\ underway' = underway + Len(vs)
      /\ UNCHANGED <<accepted, delivered, ready, busy, batch, count, tpc, required, need,
                     draining>>
    BY DEF SendBegin, Announced, workerVars, threadVars
<1>2. vs \in Seq(Values) /\ Len(vs) \in Nat
    BY DEF Batches
<1>3. todo = <<>> /\ Len(todo) = 0
    BY <1>1 DEF IInv, CallKnown
<1>4. /\ InOrder' /\ Held' = Len(todo') + (Held - Len(todo))
      /\ WorkersCount'
    BY <1>1, <1>2, NothingMoves DEF IInv, WorkersCount
<1>5. TypeOK'
    <2>1. underway' \in Nat /\ upc' \in UserPCs /\ todo' \in Seq(Values)
        BY <1>1, <1>2, Accounting DEF UserPCs
    <2> QED
        BY <2>1, <1>1, Typed DEF TypeOK
<1>6. underway' = Held' + (IF upc' = "count" THEN 1 ELSE 0)
    <2>1. Held' = Len(vs) + (Held - 0) /\ underway' = underway + Len(vs)
        BY <1>1, <1>3, <1>4
    <2> QED
        BY <2>1, <1>1, <1>2, Accounting
<1>7. CallKnown'
    BY <1>1 DEF CallKnown
<1> QED
    BY <1>4, <1>5, <1>6, <1>7, PartsKeep

\* receive and drain begin: the counter read says how many values to take.
LEMMA CallBeginKeeps ==
    ASSUME IInv, ReceiveBegin \/ DrainBegin
    PROVE  IInv'
<1>1. /\ upc = "idle" /\ need' \in Nat /\ draining' \in BOOLEAN
      /\ upc' = "idle" \/ (upc' = "take" /\ need' >= 1)
      /\ UNCHANGED <<accepted, delivered, ready, busy, batch, count, underway, todo, tpc,
                     required>>
    <2>1. CASE ReceiveBegin
        BY <2>1, Typed DEF ReceiveBegin, workerVars, threadVars, TypeOK
    <2>2. CASE DrainBegin
        BY <2>2, Accounting DEF DrainBegin, workerVars, threadVars
    <2> QED
        BY <2>1, <2>2
<1>2. InOrder' /\ Held' = Len(todo') + (Held - Len(todo)) /\ WorkersCount'
    BY <1>1, Lengths, NothingMoves DEF IInv, WorkersCount
<1>3. TypeOK'
    BY <1>1, Typed DEF TypeOK, UserPCs
<1>4. underway' = Held' + (IF upc' = "count" THEN 1 ELSE 0)
    <2>1. Held' = Held
        BY <1>1, <1>2, Lengths, Accounting
    <2> QED
        BY <2>1, <1>1, Accounting
<1>5. CallKnown'
    BY <1>1 DEF IInv, CallKnown
<1> QED
    BY <1>2, <1>3, <1>4, <1>5, PartsKeep

LEMMA CountKeeps ==
    ASSUME IInv, Count
    PROVE  IInv'
<1>1. /\ upc = "count" /\ underway' = underway - 1 /\ need' = need - 1
      /\ upc' = (IF need = 1 THEN "idle" ELSE "take") /\ draining' \in BOOLEAN
      /\ UNCHANGED <<accepted, delivered, ready, busy, batch, count, todo, tpc, required>>
    BY Typed DEF Count, Uncounted, workerVars, threadVars, TypeOK
<1>2. InOrder' /\ Held' = Len(todo') + (Held - Len(todo)) /\ WorkersCount'
    BY <1>1, Lengths, NothingMoves DEF IInv, WorkersCount
<1>3. underway = Held + 1 /\ need \in Nat /\ need >= 1 /\ Held \in Nat
    BY <1>1, Accounting DEF IInv, CallKnown
<1>4. TypeOK'
    <2>1. underway' \in Nat /\ need' \in Nat /\ upc' \in UserPCs
        BY <1>1, <1>3 DEF UserPCs
    <2> QED
        BY <2>1, <1>1, Typed DEF TypeOK
<1>5. underway' = Held' + (IF upc' = "count" THEN 1 ELSE 0)
    <2>1. Held' = Held
        BY <1>1, <1>2, <1>3, Lengths
    <2> QED
        BY <2>1, <1>1, <1>3
<1>6. CallKnown'
    BY <1>1, <1>3 DEF IInv, CallKnown
<1> QED
    BY <1>2, <1>4, <1>5, <1>6, PartsKeep

LEMMA DrainOfLhsKeeps ==
    ASSUME IInv, ThreadCount \/ ThreadDrained
    PROVE  IInv'
<1>1. /\ UNCHANGED <<accepted, delivered, ready, busy, batch, count, underway, upc, need,
                     draining, todo>>
      /\ required' \in Nat /\ tpc' \in ThreadPCs
      /\ tpc' = "drain" => required' = CountL
    BY Accounting DEF ThreadCount, ThreadDrained, workerVars, userVars, ThreadPCs, CountL
<1>2. /\ InOrder' /\ Held' = Len(todo') + (Held - Len(todo)) /\ CountL' = CountL
      /\ CountL' = Len(BusyL') + Len(ReadyL')
      /\ CountR' = Len(BusyR') + Len(ReadyR')
    BY <1>1, Lengths, NothingMoves
<1>3. TypeOK'
    BY <1>1, Typed DEF TypeOK
<1>4. WorkersCount' /\ CallKnown'
    BY <1>1, <1>2, Accounting DEF IInv, WorkersCount, CallKnown
<1>5. underway' = Held' + (IF upc' = "count" THEN 1 ELSE 0)
    <2>1. Held' = Held
        BY <1>1, <1>2, Lengths, Accounting, SMTT(30)
    <2> QED
        BY <2>1, <1>1, Accounting
<1> QED
    BY <1>2, <1>3, <1>4, <1>5, PartsKeep

-----------------------------------------------------------------------------
(* The theorems                                                            *)

LEMMA StepKeeps == IInv /\ [Next]_vars => IInv'
<1> SUFFICES ASSUME IInv, [Next]_vars PROVE IInv'
    OBVIOUS
<1>1. CASE UNCHANGED vars
    <2>1. UNCHANGED <<underway, count, busy, ready, tpc, required, batch, upc, need, draining,
                      todo, accepted, delivered>>
        BY <1>1 DEF vars
    <2>2. UnderwayIsOutstanding' /\ CallKnown'
        BY <2>1 DEF IInv, UnderwayIsOutstanding, TypeOK, CallKnown
    <2>3. WorkersCount'
        BY <2>1 DEF IInv, WorkersCount, CountL, CountR, BusyL, BusyR, ReadyL, ReadyR
    <2> QED
        BY <2>1, <2>2, <2>3, InOrderStays DEF IInv
<1>2. ASSUME NEW w \in Workers, Process(w)
      PROVE  IInv'
    BY <1>2, ProcessLhsKeeps, ProcessRhsKeeps DEF Workers
<1>3. CASE ThreadCount \/ ThreadDrained
    BY <1>3, DrainOfLhsKeeps
<1>4. CASE ThreadReceive
    BY <1>4, ThreadReceiveKeeps
<1>5. CASE ThreadSend
    BY <1>5, ThreadSendKeeps
<1>6. ASSUME NEW vs \in Batches, SendBegin(vs)
      PROVE  IInv'
    BY <1>6, SendBeginKeeps
<1>7. CASE ReceiveBegin \/ DrainBegin
    BY <1>7, CallBeginKeeps
<1>8. CASE SendForward
    BY <1>8, SendForwardKeeps
<1>9. CASE Take
    BY <1>9, TakeKeeps
<1>10. CASE Count
    BY <1>10, CountKeeps
<1> QED
    BY <1>1, <1>2, <1>3, <1>4, <1>5, <1>6, <1>7, <1>8, <1>9, <1>10
    DEF Next, ThreadStep, CallStep

LEMMA Invariance == Spec => []IInv
BY InitEstablishes, StepKeeps, PTL DEF Spec

\* The counter of a pipeline is at every moment the number of values that were
\* sent into it and not counted down (EyNaivePipeline.underway_count), so that a
\* drain of the pipeline waits for what is in either worker or between them.
THEOREM PipelineOutstanding == Spec => []UnderwayIsOutstanding
<1>1. IInv => UnderwayIsOutstanding
    BY DEF IInv
<1> QED
    BY <1>1, Invariance, PTL

\* While the copying thread drains lhs, what it still waits for is there: in
\* lhs, processed or not (ey_naive_pipeline_entry_point).
THEOREM DrainFindsCounted ==
    Spec => [](tpc = "drain" => required <= Len(busy["lhs"]) + Len(ready["lhs"]))
<1>1. IInv => (tpc = "drain" => required <= Len(busy["lhs"]) + Len(ready["lhs"]))
    BY DEF IInv, WorkersCount, CountL, BusyL, ReadyL
<1> QED
    BY <1>1, Invariance, PTL

\* What the abstract worker has delivered.
Results == [i \in DOMAIN delivered |-> <<"result", delivered[i]>>]

LEMMA StepRefines ==
    IInv /\ [Next]_vars => W!Next \/ UNCHANGED <<accepted, Results>>
<1> SUFFICES ASSUME IInv, [Next]_vars
             PROVE  W!Next \/ UNCHANGED <<accepted, Results>>
    OBVIOUS
<1>1. CASE UNCHANGED <<accepted, delivered>>
    BY <1>1 DEF Results
<1>2. CASE SendForward
    <2>1. accepted' = accepted \o todo /\ Results' = Results
        BY <1>2, SendForwardKeeps DEF Results
    <2>2. /\ accepted \o todo \in Seq(Values)
          /\ Len(accepted) <= Len(accepted \o todo)
          /\ accepted = SubSeq(accepted \o todo, 1, Len(accepted))
        BY Typed, PrefixOfConcat
    <2>3. W!Accept
        BY <2>1, <2>2 DEF W!Accept, Results
    <2> QED
        BY <2>3 DEF W!Next
<1>3. CASE Take
    <2> DEFINE n == Len(delivered)
               v == accepted[n + 1]
               r == [i \in 1..1 |-> W!Result(accepted[n + i])]
    <2>1. /\ delivered' = Append(delivered, v) /\ accepted' = accepted
          /\ n + 1 <= Len(accepted) /\ n \in Nat /\ Len(accepted) \in Nat
          /\ delivered \in Seq(Values) /\ v \in Values
        BY <1>3, TakeKeeps, Typed, Lengths
    <2>2. /\ delivered' \in Seq(Values) /\ Len(delivered') = n + 1
          /\ \A i \in 1..n : delivered'[i] = delivered[i]
          /\ delivered'[n + 1] = v
        BY <2>1, AppendProperties
    <2> DEFINE S == {W!Result(u) : u \in Values}
    <2>3. Results \in Seq(S) /\ Len(Results) = n
        BY <2>1 DEF Results, W!Result
    <2>4. Results' \in Seq(S) /\ Len(Results') = n + 1
        BY <2>1, <2>2 DEF Results, W!Result
    <2>5. r \in Seq(S) /\ Len(r) = 1 /\ r[1] = <<"result", v>>
        BY <2>1 DEF W!Result
    <2>6. /\ Results \o r \in Seq(S) /\ Len(Results \o r) = n + 1
          /\ \A i \in 1..n + 1 : (Results \o r)[i] = IF i <= n THEN Results[i] ELSE r[i - n]
        BY <2>3, <2>5, ConcatProperties
    <2>7. ASSUME NEW i \in 1..n + 1 PROVE Results'[i] = (Results \o r)[i]
        <3>1. CASE i <= n
            BY <3>1, <2>1, <2>2, <2>6 DEF Results
        <3>2. CASE i = n + 1
            BY <3>2, <2>1, <2>2, <2>5, <2>6 DEF Results
        <3>3. n \in Nat
            BY <2>1
        <3>4. i <= n \/ i = n + 1
            <4> HIDE DEF n
            <4> QED
                BY <3>3
        <3> QED
            BY <3>1, <3>2, <3>4
    <2>8. Results' = Results \o r
        BY <2>4, <2>6, <2>7, SeqEqual
    <2>9. W!Deliver(1) /\ 1 \in 1..Len(accepted)
        <3>1. Len(Results) + 1 <= Len(accepted) /\ 1 \in 1..Len(accepted)
            BY <2>1, <2>3
        <3>2. Results' = Results \o [i \in 1..1 |-> W!Result(accepted[Len(Results) + i])]
            BY <2>3, <2>8
        <3> QED
            BY <3>1, <3>2, <2>1 DEF W!Deliver, Results
    <2> QED
        BY <2>9 DEF W!Next
<1>4. CASE Next /\ ~SendForward /\ ~Take
    BY <1>1, <1>4
    DEF Next, ThreadStep, CallStep, Process, ThreadCount, ThreadReceive, ThreadDrained,
        ThreadSend, SendBegin, ReceiveBegin, DrainBegin, Count
<1>5. CASE UNCHANGED vars
    BY <1>1, <1>5 DEF vars
<1> QED
    BY <1>2, <1>3, <1>4, <1>5

\* A pipeline is a worker: every value sent into it comes out once, processed by
\* both workers, in the order in which the values were sent.
THEOREM PipelineImplementsWorker == Spec => ImplementsWorker
<1>1. Init => W!Init
    BY DEF Init, W!Init
<1>2. IInv /\ [Next]_vars => [W!Next]_(W!workerVars)
    BY StepRefines DEF W!workerVars, Results
<1> QED
    BY <1>1, <1>2, Invariance, PTL DEF Spec, ImplementsWorker, W!Spec

-----------------------------------------------------------------------------
(* The copying thread comes to the end of its drain.  By WorkersCount what *)
(* it waits for is in lhs; lhs processes it and the thread receives it.    *)

\* What is true of a behaviour from any state on.  (That the fairness of a
\* behaviour is that of each of its suffixes is said with the box.)
Always == []IInv /\ [][Next]_vars /\ []Fairness /\ []StepsAreEnabled

Waits(n) == tpc = "drain" /\ required = n
Nearer(n) == tpc = "gone" \/ required < n

\* The way of the value the thread waits for, the last station first; then that
\* of the thread when it waits for no more.
Fetching(n) == Waits(n) /\ n > 0 /\ ReadyL # <<>>
Queued(n)   == Waits(n) /\ n > 0 /\ BusyL # <<>>
Passing     == tpc = "send"
Complete    == Waits(0)
Passed      == tpc = "gone"

\* No step of another thread changes what the copying thread waits for, nor
\* takes anything from lhs.
LEMMA WaitsStep ==
    ASSUME IInv, [Next]_vars, NEW n \in Nat, Waits(n)
    PROVE  \/ ThreadStep
           \/ Process("lhs")
           \/ /\ Waits(n)' /\ ReadyL' = ReadyL
              /\ BusyL # <<>> => BusyL' # <<>>
<1> USE DEF Waits, ReadyL, BusyL
<1>1. /\ ready \in [Workers -> Seq(Values)] /\ busy \in [Workers -> Seq(Values)]
      /\ todo \in Seq(Values) /\ "lhs" \in Workers
    BY Typed DEF TypeOK, Workers
<1>2. CASE UNCHANGED vars
    BY <1>2 DEF vars
<1>3. ASSUME NEW w \in Workers, Process(w), w # "lhs"
      PROVE  Waits(n)' /\ ReadyL' = ReadyL /\ BusyL' = BusyL
    BY <1>1, <1>3 DEF Process, threadVars
<1>4. ASSUME NEW vs \in Batches, SendBegin(vs)
      PROVE  Waits(n)' /\ ReadyL' = ReadyL /\ BusyL' = BusyL
    BY <1>4 DEF SendBegin, workerVars, threadVars
<1>5. CASE ReceiveBegin \/ DrainBegin \/ Count
    BY <1>5 DEF ReceiveBegin, DrainBegin, Count, workerVars, threadVars
<1>6. CASE Take
    BY <1>1, <1>6 DEF Take, ReceiveFrom, threadVars, Workers
<1>7. CASE SendForward
    <2>1. /\ BusyL' = BusyL \o todo /\ ReadyL' = ReadyL /\ Waits(n)'
          /\ BusyL \in Seq(Values)
        BY <1>1, <1>7 DEF SendForward, SendTo, threadVars
    <2> QED
        BY <1>1, <2>1, ConcatEmptySeq
<1> QED
    BY <1>2, <1>3, <1>4, <1>5, <1>6, <1>7 DEF Next, CallStep

LEMMA ProcessFills ==
    ASSUME IInv, NEW n \in Nat, Waits(n), Process("lhs")
    PROVE  Waits(n)' /\ ReadyL' # <<>>
<1>1. /\ ready \in [Workers -> Seq(Values)] /\ BusyL \in Seq(Values) /\ BusyL # <<>>
      /\ "lhs" \in Workers /\ ReadyL \in Seq(Values)
    BY Typed DEF TypeOK, Workers, Process, BusyL
<1>2. Head(BusyL) \in Values /\ ReadyL' = Append(ReadyL, Head(BusyL))
    BY <1>1, HeadTailProperties DEF Process, ReadyL, BusyL
<1>3. ReadyL' # <<>>
    BY <1>1, <1>2, AppendProperties, EmptySeq
<1> QED
    BY <1>3 DEF Process, Waits, threadVars

LEMMA FetchingStep ==
    ASSUME IInv, [Next]_vars, NEW n \in Nat, Fetching(n)
    PROVE  /\ Fetching(n)' \/ Nearer(n)'
           /\ <<ThreadStep>>_vars => Nearer(n)'
<1>1. Waits(n) /\ n > 0 /\ ReadyL # <<>>
    BY DEF Fetching
<1>2. ThreadStep => Nearer(n)'
    <2>1. ThreadStep => ThreadReceive
        BY <1>1 DEF ThreadStep, ThreadCount, ThreadDrained, ThreadSend, Drained, Waits
    <2>2. ThreadReceive => required' = n - 1
        BY <1>1 DEF ThreadReceive, Waits
    <2> QED
        BY <2>1, <2>2 DEF Nearer
<1>3. Fetching(n)' \/ Nearer(n)'
    BY <1>1, <1>2, WaitsStep, ProcessFills DEF Fetching
<1> QED
    BY <1>2, <1>3

LEMMA QueuedStep ==
    ASSUME IInv, [Next]_vars, NEW n \in Nat, Queued(n)
    PROVE  /\ Queued(n)' \/ Fetching(n)' \/ Nearer(n)'
           /\ <<Process("lhs")>>_vars => Fetching(n)'
<1>1. Waits(n) /\ n > 0 /\ BusyL # <<>>
    BY DEF Queued
<1>2. ThreadStep => Nearer(n)'
    <2>1. ThreadStep => ThreadReceive
        BY <1>1 DEF ThreadStep, ThreadCount, ThreadDrained, ThreadSend, Drained, Waits
    <2>2. ThreadReceive => required' = n - 1
        BY <1>1 DEF ThreadReceive, Waits
    <2> QED
        BY <2>1, <2>2 DEF Nearer
<1>3. Queued(n)' \/ Fetching(n)' \/ Nearer(n)'
    BY <1>1, <1>2, WaitsStep, ProcessFills DEF Fetching, Queued
<1> QED
    BY <1>1, <1>3, ProcessFills DEF Fetching

LEMMA CompleteStep ==
    ASSUME IInv, [Next]_vars, Complete
    PROVE  /\ Complete' \/ Passing'
           /\ <<ThreadStep>>_vars => Passing'
<1>1. Waits(0)
    BY DEF Complete
<1>2. ThreadStep => Passing'
    BY <1>1 DEF ThreadStep, ThreadCount, ThreadReceive, ThreadDrained, ThreadSend, Waits, Passing
<1>3. Process("lhs") => Waits(0)'
    BY <1>1, ProcessFills
<1> QED
    BY <1>1, <1>2, <1>3, WaitsStep DEF Complete

LEMMA PassingStep ==
    ASSUME IInv, [Next]_vars, Passing
    PROVE  /\ Passing' \/ Passed'
           /\ <<ThreadStep>>_vars => Passed'
<1>1. ThreadStep => Passed'
    BY DEF ThreadStep, ThreadCount, ThreadReceive, ThreadDrained, ThreadSend, Passing,
        Passed
<1>2. Passing' \/ Passed'
    BY <1>1
    DEF Next, vars, Process, SendBegin, ReceiveBegin, DrainBegin, CallStep, SendForward, Take,
        Count, Passing, threadVars
<1> QED
    BY <1>1, <1>2

\* The drain in the copying thread goes on to its end: for every number of values
\* it still waits for, lhs processes the next one and the thread receives it; when
\* it waits for none it passes on what it has (ey_naive_pipeline_entry_point).
THEOREM CopyingAdvances ==
    Spec /\ []Fairness /\ []StepsAreEnabled => CopyAdvances
<1>1. IInv /\ [Next]_vars /\ Passing => Passing' \/ Passed'
    BY PassingStep
<1>2. IInv /\ [Next]_vars /\ <<ThreadStep>>_vars /\ Passing => Passed'
    BY PassingStep
<1>3. IInv /\ [Next]_vars /\ Complete => Complete' \/ Passing'
    BY CompleteStep
<1>4. IInv /\ [Next]_vars /\ <<ThreadStep>>_vars /\ Complete => Passing'
    BY CompleteStep
<1>5. StepsAreEnabled /\ (Passing \/ Complete) => ENABLED <<ThreadStep>>_vars
    BY DEF StepsAreEnabled, CopyingGoesOn, Passing, Complete, Waits
<1>6. Always => (Complete ~> Passed)
    BY <1>1, <1>2, <1>3, <1>4, <1>5, PTL DEF Always, Fairness
<1>7. ASSUME NEW n \in 0..MaxSent
      PROVE  Spec /\ []Fairness /\ []StepsAreEnabled => CopyGoesOn(n)
    <2>1. n \in Nat
        BY PipelineAssumption
    <2>2. IInv /\ [Next]_vars /\ Fetching(n) => (Fetching(n) \/ Nearer(n))'
        BY <2>1, FetchingStep
    <2>3. IInv /\ [Next]_vars /\ <<ThreadStep>>_vars /\ Fetching(n) => Nearer(n)'
        BY <2>1, FetchingStep
    <2>4. StepsAreEnabled /\ Fetching(n) => ENABLED <<ThreadStep>>_vars
        BY DEF StepsAreEnabled, CopyingGoesOn, Fetching, Waits, ReadyL
    <2>5. IInv /\ [Next]_vars /\ Queued(n) => (Queued(n) \/ Fetching(n) \/ Nearer(n))'
        BY <2>1, QueuedStep
    <2>6. IInv /\ [Next]_vars /\ <<Process("lhs")>>_vars /\ Queued(n) => Fetching(n)'
        BY <2>1, QueuedStep
    <2>7. StepsAreEnabled /\ Queued(n) => ENABLED <<Process("lhs")>>_vars
        <3>1. StepsAreEnabled => WorkerGoesOn("lhs")
            BY DEF StepsAreEnabled, Workers
        <3>2. WorkerGoesOn("lhs") /\ Queued(n) => ENABLED <<Process("lhs")>>_vars
            BY DEF WorkerGoesOn, Queued, BusyL
        <3> QED
            BY <3>1, <3>2
    <2>8. FairWorkers => FairWorker("lhs")
        BY DEF FairWorkers, Workers
    <2>9. IInv /\ Waits(n) => Fetching(n) \/ Queued(n) \/ Complete
        <3> SUFFICES ASSUME IInv, Waits(n), n > 0, ReadyL = <<>>, BusyL = <<>>
                     PROVE  FALSE
            BY <2>1 DEF Fetching, Queued, Complete
        <3> QED
            BY DEF IInv, WorkersCount, Waits
    <2>10. /\ Passed => Nearer(n)
           /\ Nearer(n) <=> (tpc = "gone" \/ required < n)
        BY DEF Nearer, Passed
    <2>11. Waits(n) <=> tpc = "drain" /\ required = n
        BY DEF Waits
    <2> QED
        BY <1>6, <2>2, <2>3, <2>4, <2>5, <2>6, <2>7, <2>8, <2>9, <2>10, <2>11, Invariance, PTL
        DEF Always, Spec, Fairness, FairWorker, CopyGoesOn
<1> QED
    BY <1>7 DEF CopyAdvances
=============================================================================
