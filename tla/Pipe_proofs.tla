----------------------------- MODULE Pipe_proofs -----------------------------
(***************************************************************************)
(* Proofs, for any number of threads and any values, that the pipe keeps   *)
(* its safety invariants and implements the abstract channel, and that no  *)
(* receiver sleeps on while a value or the end is due.                     *)
(***************************************************************************)
EXTENDS Pipe, FiniteSetTheorems, SequenceTheorems, TLAPS

\* A pipe that was never closed has not reported its end.
CloseAccounting == /\ closed <=> closes > 0
                   /\ ~closed => ends = 0

\* What the array holds was allocated.
Fits == Len(buf) <= allocated

\* The inductive invariant.  The accounting needs the close counters, and
\* that a woken receiver finds a value follows only from the accounting.
IInv == /\ TypeOK
        /\ TokenAccounting
        /\ CloseAccounting
        /\ Fits
        /\ NothingLost

-----------------------------------------------------------------------------
(* Facts about the threads that owe or hold a unit of the semaphore        *)

\* There are finitely many of them.
LEMMA HoldersFinite ==
    IsFiniteSet(Holders) /\ Cardinality(Holders) \in Nat
<1>1. IsFiniteSet(Threads)
    BY PipeAssumption, FS_Union DEF Threads
<1>2. Holders \in SUBSET Threads
    BY DEF Holders
<1> QED
    BY <1>1, <1>2, FS_Subset, FS_CardinalityType

\* A thread that leaves "idle" joins them.
LEMMA HolderEnters ==
    ASSUME TypeOK, NEW t \in Threads, pc[t] = "idle",
           NEW q \in {"post", "take"}, pc' = [pc EXCEPT ![t] = q]
    PROVE  /\ Cardinality(Holders') = Cardinality(Holders) + 1
           /\ Cardinality(Holders) \in Nat
<1>1. Holders' = Holders \cup {t}
    BY DEF TypeOK, Holders, Threads, PCs
<1>2. t \notin Holders
    BY DEF Holders
<1> QED
    BY <1>1, <1>2, HoldersFinite, FS_AddElement

\* A thread that returns to "idle" leaves them.
LEMMA HolderLeaves ==
    ASSUME TypeOK, NEW t \in Threads, pc[t] # "idle",
           pc' = [pc EXCEPT ![t] = "idle"]
    PROVE  /\ Cardinality(Holders') = Cardinality(Holders) - 1
           /\ Cardinality(Holders) \in Nat \ {0}
<1>1. Holders' = Holders \ {t}
    BY DEF TypeOK, Holders, Threads, PCs
<1>2. t \in Holders
    BY DEF Holders
<1>3. Cardinality(Holders) # 0
    BY <1>2, HoldersFinite, FS_EmptySet
<1> QED
    BY <1>1, <1>2, <1>3, HoldersFinite, FS_RemoveElement

-----------------------------------------------------------------------------
(* Facts about the array as a sequence                                     *)

\* Appending to the array appends to everything sent.
LEMMA AppendToTail ==
    ASSUME NEW r \in Seq(Values), NEW b \in Seq(Values), NEW v \in Values
    PROVE  Append(r \o b, v) = r \o Append(b, v)
<1>1. r \o b \in Seq(Values) /\ Append(b, v) \in Seq(Values)
    BY ConcatProperties, AppendProperties
<1>2. /\ Append(r \o b, v) \in Seq(Values)
      /\ r \o Append(b, v) \in Seq(Values)
    BY <1>1, ConcatProperties, AppendProperties
<1>3. Append(r \o b, v) = (r \o b) \o <<v>>
    BY <1>1, AppendIsConcat
<1>4. <<v>> \in Seq(Values)
    OBVIOUS
<1>5. (r \o b) \o <<v>> = r \o (b \o <<v>>)
    BY <1>4, ConcatAssociative
<1>6. Append(b, v) = b \o <<v>>
    BY AppendIsConcat
<1> QED
    BY <1>3, <1>5, <1>6

\* Moving the first element of the second sequence to the end of the first
\* leaves their concatenation as it was, and names the element moved.
LEMMA MoveHead ==
    ASSUME NEW S, NEW r \in Seq(S), NEW b \in Seq(S), b # <<>>
    PROVE  /\ r \o b = Append(r, Head(b)) \o Tail(b)
           /\ Head(b) \in S
           /\ Tail(b) \in Seq(S)
           /\ Append(r, Head(b)) \in Seq(S)
           /\ Len(Tail(b)) = Len(b) - 1
           /\ Len(r) < Len(r \o b)
           /\ (r \o b)[Len(r) + 1] = Head(b)
<1>1. /\ Head(b) \in S
      /\ Tail(b) \in Seq(S)
      /\ Len(Tail(b)) = Len(b) - 1
      /\ \A i \in 1 .. Len(Tail(b)) : Tail(b)[i] = b[i+1]
      /\ Len(b) \in Nat \ {0}
    BY HeadTailProperties, EmptySeq
<1>2. /\ Append(r, Head(b)) \in Seq(S)
      /\ Len(Append(r, Head(b))) = Len(r) + 1
      /\ \A i \in 1 .. Len(r) : Append(r, Head(b))[i] = r[i]
      /\ Append(r, Head(b))[Len(r) + 1] = Head(b)
      /\ Len(r) \in Nat
    BY <1>1, AppendProperties, LenProperties
<1>3. /\ r \o b \in Seq(S)
      /\ Len(r \o b) = Len(r) + Len(b)
      /\ \A i \in 1 .. Len(r) + Len(b) :
            (r \o b)[i] = IF i <= Len(r) THEN r[i] ELSE b[i - Len(r)]
    BY ConcatProperties
<1> DEFINE c == Append(r, Head(b)) \o Tail(b)
<1>4. /\ c \in Seq(S)
      /\ Len(c) = Len(r) + 1 + Len(Tail(b))
      /\ \A i \in 1 .. Len(r) + 1 + Len(Tail(b)) :
            c[i] = IF i <= Len(r) + 1 THEN Append(r, Head(b))[i]
                                      ELSE Tail(b)[i - (Len(r) + 1)]
    BY <1>1, <1>2, ConcatProperties
<1>5. Head(b) = b[1]
    OBVIOUS
<1>6. Len(c) = Len(r \o b)
    BY <1>1, <1>3, <1>4
<1>7. ASSUME NEW i \in 1 .. Len(r \o b) PROVE (r \o b)[i] = c[i]
    <2>1. CASE i <= Len(r)
        BY <2>1, <1>1, <1>2, <1>3, <1>4, <1>6
    <2>2. CASE i = Len(r) + 1
        BY <2>2, <1>1, <1>2, <1>3, <1>4, <1>5, <1>6
    <2>3. CASE i > Len(r) + 1
        <3>1. i - (Len(r) + 1) \in 1 .. Len(Tail(b))
            BY <2>3, <1>1, <1>2, <1>3
        <3>2. Tail(b)[i - (Len(r) + 1)] = b[i - (Len(r) + 1) + 1]
            BY <3>1, <1>1
        <3>3. i - (Len(r) + 1) + 1 = i - Len(r)
            BY <1>2, <1>3
        <3> QED
            BY <2>3, <3>2, <3>3, <1>1, <1>2, <1>3, <1>4
    <2> QED
        BY <2>1, <2>2, <2>3, <1>2, <1>3
<1>8. r \o b = c
    BY <1>3, <1>4, <1>6, <1>7, SeqEqual
<1> HIDE DEF c
<1>9. (r \o b)[Len(r) + 1] = Head(b)
    BY <1>1, <1>2, <1>3, <1>5
<1> QED
    BY <1>1, <1>2, <1>3, <1>8, <1>9 DEF c

-----------------------------------------------------------------------------
(* The inductive invariant                                                 *)

\* The numbers of the invariant and the equation between them.
LEMMA Numbers ==
    ASSUME IInv
    PROVE  /\ semaphore \in Nat /\ ends \in Nat /\ closes \in Nat /\ Len(buf) \in Nat
           /\ semaphore + Cardinality(Holders) + ends = Len(buf) + closes
<1>1. TypeOK /\ TokenAccounting
    BY DEF IInv
<1>2. buf \in Seq(Values) /\ semaphore \in Nat /\ ends \in Nat /\ closes \in Nat
    BY <1>1 DEF TypeOK
<1> QED
    BY <1>1, <1>2, LenProperties DEF TokenAccounting

LEMMA InitEstablishes == Init => IInv
<1> SUFFICES ASSUME Init PROVE IInv
    OBVIOUS
<1>1. TypeOK
    <2>1. closed \in BOOLEAN /\ panicked \in BOOLEAN
        BY DEF Init
    <2>2. buf \in Seq(Values) /\ sent \in Seq(Values) /\ received \in Seq(Values)
        BY DEF Init
    <2>3. pc \in [Threads -> PCs]
        BY DEF Init, PCs
    <2>4. allocated \in Nat /\ semaphore \in Nat /\ closes \in Nat /\ ends \in Nat
        BY PipeAssumption DEF Init
    <2> QED
        BY <2>1, <2>2, <2>3, <2>4 DEF TypeOK
<1>2. Holders = {}
    BY DEF Init, Holders
<1>3. TokenAccounting
    BY <1>2, FS_EmptySet DEF Init, TokenAccounting
<1>4. NothingLost
    BY DEF Init, NothingLost
<1>5. CloseAccounting /\ Fits
    BY PipeAssumption DEF Init, CloseAccounting, Fits
<1> QED
    BY <1>1, <1>3, <1>4, <1>5 DEF IInv

\* A critical section of receive that does not report the end finds a value.
LEMMA TakeFindsValue ==
    ASSUME IInv, NEW t \in Threads, pc[t] # "idle", ~AtEnd
    PROVE  buf # <<>>
<1> SUFFICES ASSUME buf = <<>> PROVE FALSE
    OBVIOUS
<1>1. ~closed /\ closes = 0 /\ ends = 0
    BY DEF AtEnd, IInv, TypeOK, CloseAccounting
<1>2. t \in Holders
    BY DEF Holders
<1>3. Cardinality(Holders) # 0
    BY <1>2, HoldersFinite, FS_EmptySet
<1> QED
    BY <1>1, <1>3, HoldersFinite DEF IInv, TypeOK, TokenAccounting

LEMMA SendAppendKeeps ==
    ASSUME IInv, NEW t \in Senders, NEW v \in Values, SendAppend(t, v)
    PROVE  IInv'
<1> USE DEF SendAppend
<1>0. t \in Threads /\ Len(Append(buf, v)) = Len(buf) + 1 /\ Len(buf) \in Nat
    BY DEF Threads, IInv, TypeOK
<1>1. TypeOK'
    <2>1. allocated' \in Nat
        BY DEF IInv, TypeOK, Grown
    <2>2. buf' \in Seq(Values) /\ sent' \in Seq(Values)
        BY AppendProperties DEF IInv, TypeOK
    <2> QED
        BY <2>1, <2>2, <1>0 DEF IInv, TypeOK, PCs
<1>2. TokenAccounting'
    <2>1. Cardinality(Holders') = Cardinality(Holders) + 1 /\ Cardinality(Holders) \in Nat
        BY <1>0, HolderEnters DEF IInv
    <2> QED
        <3>1. /\ Len(buf') = Len(buf) + 1
              /\ semaphore' = semaphore /\ ends' = ends /\ closes' = closes
            BY <1>0
        <3> HIDE DEF SendAppend
        <3> QED
            BY <3>1, <2>1, Numbers, SMTT(30) DEF TokenAccounting
<1>3. CloseAccounting'
    BY DEF IInv, CloseAccounting
<1>4. Fits'
    BY <1>0 DEF IInv, TypeOK, Fits, Grown
<1>5. NothingLost'
    <2>1. Append(received \o buf, v) = received \o Append(buf, v)
        <3>1. received \in Seq(Values) /\ buf \in Seq(Values)
            BY DEF IInv, TypeOK
        <3> HIDE DEF SendAppend
        <3> QED
            BY <3>1, AppendToTail
    <2> QED
        BY <2>1 DEF IInv, NothingLost
<1> QED
    BY <1>1, <1>2, <1>3, <1>4, <1>5 DEF IInv

LEMMA PostKeeps ==
    ASSUME IInv, NEW t \in Senders, Post(t)
    PROVE  IInv'
<1> USE DEF Post, pipe, hist
<1>0. t \in Threads
    BY DEF Threads
<1>1. TypeOK'
    <2>1. closed' \in BOOLEAN /\ panicked' \in BOOLEAN
        BY DEF IInv, TypeOK
    <2>2. pc' \in [Threads -> PCs]
        BY DEF IInv, TypeOK, PCs
    <2>3. semaphore' \in Nat /\ closes' \in Nat /\ ends' \in Nat
        BY Numbers
    <2> QED
        BY <2>1, <2>2, <2>3 DEF IInv, TypeOK
<1>2. TokenAccounting'
    <2>1. Cardinality(Holders') = Cardinality(Holders) - 1 /\ Cardinality(Holders) \in Nat \ {0}
        BY <1>0, HolderLeaves DEF IInv
    <2> QED
        BY <2>1, Numbers DEF TokenAccounting
<1>3. CloseAccounting' /\ Fits' /\ NothingLost'
    BY DEF IInv, CloseAccounting, Fits, NothingLost
<1> QED
    BY <1>1, <1>2, <1>3 DEF IInv

LEMMA WaitKeeps ==
    ASSUME IInv, NEW t \in Receivers, Wait(t)
    PROVE  IInv'
<1> USE DEF Wait, pipe, hist
<1>0. t \in Threads
    BY DEF Threads
<1>1. TypeOK'
    <2>1. closed' \in BOOLEAN /\ panicked' \in BOOLEAN
        BY DEF IInv, TypeOK
    <2>2. pc' \in [Threads -> PCs]
        BY DEF IInv, TypeOK, PCs
    <2>3. semaphore' \in Nat /\ closes' \in Nat /\ ends' \in Nat
        BY Numbers
    <2> QED
        BY <2>1, <2>2, <2>3 DEF IInv, TypeOK
<1>2. TokenAccounting'
    <2>1. Cardinality(Holders') = Cardinality(Holders) + 1 /\ Cardinality(Holders) \in Nat
        BY <1>0, HolderEnters DEF IInv
    <2> QED
        BY <2>1, Numbers DEF TokenAccounting
<1>3. CloseAccounting' /\ Fits' /\ NothingLost'
    BY DEF IInv, CloseAccounting, Fits, NothingLost
<1> QED
    BY <1>1, <1>2, <1>3 DEF IInv

LEMMA TakeEndKeeps ==
    ASSUME IInv, NEW t \in Receivers, TakeEnd(t)
    PROVE  IInv'
<1> USE DEF TakeEnd, AtEnd, pipe
<1>0. t \in Threads
    BY DEF Threads
<1>1. TypeOK'
    <2>1. closed' \in BOOLEAN /\ panicked' \in BOOLEAN
        BY DEF IInv, TypeOK
    <2>2. pc' \in [Threads -> PCs]
        BY DEF IInv, TypeOK, PCs
    <2>3. semaphore' \in Nat /\ closes' \in Nat /\ ends' \in Nat
        BY Numbers
    <2> QED
        BY <2>1, <2>2, <2>3 DEF IInv, TypeOK
<1>2. TokenAccounting'
    <2>1. Cardinality(Holders') = Cardinality(Holders) - 1 /\ Cardinality(Holders) \in Nat \ {0}
        BY <1>0, HolderLeaves DEF IInv
    <2> QED
        BY <2>1, Numbers DEF TokenAccounting
<1>3. CloseAccounting' /\ Fits' /\ NothingLost'
    BY DEF IInv, CloseAccounting, Fits, NothingLost
<1> QED
    BY <1>1, <1>2, <1>3 DEF IInv

LEMMA TakeValueKeeps ==
    ASSUME IInv, NEW t \in Receivers, TakeValue(t)
    PROVE  IInv'
<1> USE DEF TakeValue, MovedDown
<1>0. t \in Threads /\ buf # <<>>
    BY TakeFindsValue DEF Threads
<1>m. /\ received \o buf = Append(received, Head(buf)) \o Tail(buf)
      /\ Tail(buf) \in Seq(Values)
      /\ Append(received, Head(buf)) \in Seq(Values)
      /\ Len(Tail(buf)) = Len(buf) - 1
      /\ Len(buf) \in Nat
    <2>1. received \in Seq(Values) /\ buf \in Seq(Values)
        BY DEF IInv, TypeOK
    <2> HIDE DEF TakeValue, MovedDown
    <2> QED
        BY <1>0, <2>1, MoveHead, Numbers
<1>1. TypeOK'
    <2>1. closed' \in BOOLEAN /\ panicked' \in BOOLEAN
        BY DEF IInv, TypeOK
    <2>2. pc' \in [Threads -> PCs]
        BY DEF IInv, TypeOK, PCs
    <2>3. buf' \in Seq(Values) /\ received' \in Seq(Values)
        BY <1>m
    <2> QED
        BY <2>1, <2>2, <2>3 DEF IInv, TypeOK
<1>2. TokenAccounting'
    <2>1. Cardinality(Holders') = Cardinality(Holders) - 1 /\ Cardinality(Holders) \in Nat \ {0}
        BY <1>0, HolderLeaves DEF IInv
    <2> QED
        <3>1. /\ Len(buf') = Len(buf) - 1
              /\ semaphore' = semaphore /\ ends' = ends /\ closes' = closes
            BY <1>m
        <3> QED
            BY <3>1, <2>1, Numbers, SMTT(30) DEF TokenAccounting
<1>3. CloseAccounting'
    BY DEF IInv, CloseAccounting
<1>4. Fits'
    BY <1>m DEF IInv, TypeOK, Fits
<1>5. NothingLost'
    BY <1>m DEF IInv, NothingLost
<1> QED
    BY <1>1, <1>2, <1>3, <1>4, <1>5 DEF IInv

LEMMA CloseMarkKeeps ==
    ASSUME IInv, NEW t \in Senders, CloseMark(t)
    PROVE  IInv'
<1> USE DEF CloseMark
<1>0. t \in Threads
    BY DEF Threads
<1>1. TypeOK'
    <2>1. closed' \in BOOLEAN /\ panicked' \in BOOLEAN
        BY DEF IInv, TypeOK
    <2>2. pc' \in [Threads -> PCs]
        BY DEF IInv, TypeOK, PCs
    <2>3. semaphore' \in Nat /\ closes' \in Nat /\ ends' \in Nat
        BY Numbers
    <2> QED
        BY <2>1, <2>2, <2>3 DEF IInv, TypeOK
<1>2. TokenAccounting'
    <2>1. Cardinality(Holders') = Cardinality(Holders) + 1 /\ Cardinality(Holders) \in Nat
        BY <1>0, HolderEnters DEF IInv
    <2> QED
        BY <2>1, Numbers, SMTT(30) DEF TokenAccounting
<1>3. CloseAccounting' /\ Fits' /\ NothingLost'
    BY DEF IInv, TypeOK, CloseAccounting, Fits, NothingLost
<1> QED
    BY <1>1, <1>2, <1>3 DEF IInv

LEMMA NextKeeps == IInv /\ [Next]_vars => IInv'
<1> SUFFICES ASSUME IInv, [Next]_vars PROVE IInv'
    OBVIOUS
<1>1. CASE UNCHANGED vars
    BY <1>1 DEF IInv, vars, TypeOK, TokenAccounting, Holders, CloseAccounting,
                Fits, NothingLost
<1>2. ASSUME NEW t \in Senders, SendPanic(t) PROVE IInv'
    BY <1>2 DEF SendPanic, pipe, hist, IInv, TypeOK, TokenAccounting, Holders,
                CloseAccounting, Fits, NothingLost
<1> QED
    BY <1>1, <1>2, SendAppendKeeps, PostKeeps, WaitKeeps, TakeEndKeeps,
       TakeValueKeeps, CloseMarkKeeps DEF Next, SendStep, ReceiveStep

-----------------------------------------------------------------------------
(* The theorems                                                            *)

\* The strengthened invariant holds of every behaviour of the pipe.
THEOREM Invariance == Spec => []IInv
    BY InitEstablishes, NextKeeps, PTL DEF Spec

\* Every variable of the pipe keeps its type.
THEOREM TypeCorrect == Spec => []TypeOK
<1>1. IInv => TypeOK
    BY DEF IInv
<1> QED
    BY <1>1, Invariance, PTL

\* Semaphore units, threads inside a call, values and closes always balance.
THEOREM Accounting == Spec => []TokenAccounting
<1>1. IInv => TokenAccounting
    BY DEF IInv
<1> QED
    BY <1>1, Invariance, PTL

\* ey_pipe_receive never takes from an empty array of an open pipe.
THEOREM NoUnderflow == Spec => []WokenReceiverFindsValue
<1>1. IInv => WokenReceiverFindsValue
    <2> SUFFICES ASSUME IInv, NEW t \in Receivers, pc[t] = "take", ~closed
                 PROVE  buf # <<>>
        BY DEF WokenReceiverFindsValue
    <2> QED
        BY TakeFindsValue DEF Threads, AtEnd
<1> QED
    BY <1>1, Invariance, PTL

\* ey_pipe_send never writes beyond the allocation.
THEOREM NoOverrun == Spec => []BufferFits
<1>1. IInv => BufferFits
    BY DEF IInv, Fits, BufferFits
<1> QED
    BY <1>1, Invariance, PTL

\* What was received, followed by what the array holds, is what was sent.
THEOREM Fifo == Spec => []NothingLost
<1>1. IInv => NothingLost
    BY DEF IInv
<1> QED
    BY <1>1, Invariance, PTL

\* Every step of the pipe is a step of the abstract channel or changes
\* nothing the channel shows.
LEMMA StepRefines == IInv /\ [Next]_vars => [Chan!Next]_(Chan!chanVars)
<1> SUFFICES ASSUME IInv, [Next]_vars PROVE [Chan!Next]_(Chan!chanVars)
    OBVIOUS
<1> USE DEF Chan!chanVars
<1>1. CASE UNCHANGED vars
    BY <1>1 DEF vars
<1>2. ASSUME NEW t \in Senders, NEW v \in Values, SendAppend(t, v)
      PROVE  Chan!Send(v)
    BY <1>2 DEF SendAppend, Chan!Send, IInv, TypeOK, CloseAccounting
<1>3. ASSUME NEW t \in Senders, SendPanic(t) \/ Post(t)
      PROVE  UNCHANGED Chan!chanVars
    BY <1>3 DEF SendPanic, Post, hist
<1>4. ASSUME NEW t \in Senders, CloseMark(t)
      PROVE  Chan!Close
    BY <1>4 DEF CloseMark, Chan!Close
<1>5. ASSUME NEW t \in Receivers, Wait(t)
      PROVE  UNCHANGED Chan!chanVars
    BY <1>5 DEF Wait, hist
<1>6. ASSUME NEW t \in Receivers, TakeEnd(t)
      PROVE  Chan!End
    <2>1. received = sent
        BY <1>6, ConcatEmptySeq DEF TakeEnd, AtEnd, IInv, TypeOK, NothingLost
    <2>2. Cardinality(Holders) \in Nat \ {0}
        <3>1. t \in Holders
            BY <1>6 DEF TakeEnd, Holders, Threads
        <3> QED
            BY <3>1, HoldersFinite, FS_EmptySet
    <2>3. Len(buf) = 0
        BY <1>6 DEF TakeEnd, AtEnd
    <2>4. ends < closes
        BY <2>2, <2>3 DEF IInv, TypeOK, TokenAccounting
    <2> QED
        BY <1>6, <2>1, <2>4 DEF TakeEnd, Chan!End
<1>7. ASSUME NEW t \in Receivers, TakeValue(t)
      PROVE  Chan!Receive
    <2>1. buf # <<>>
        BY <1>7, TakeFindsValue DEF TakeValue, Threads
    <2>2. /\ Len(received) < Len(sent)
          /\ sent[Len(received) + 1] = Head(buf)
        BY <2>1, MoveHead DEF IInv, TypeOK, NothingLost
    <2> QED
        BY <1>7, <2>2 DEF TakeValue, MovedDown, Chan!Receive
<1> QED
    BY <1>1, <1>2, <1>3, <1>4, <1>5, <1>6, <1>7
       DEF Next, SendStep, ReceiveStep, Chan!Next

\* The pipe implements the channel: first in first out, nothing lost or
\* received twice, and the end reported only after everything was received.
THEOREM PipeImplementsChannel == Spec => ImplementsChannel
<1>1. Init => Chan!Init
    BY DEF Init, Chan!Init
<1> QED
    BY <1>1, StepRefines, Invariance, PTL DEF Spec, ImplementsChannel, Chan!Spec

-----------------------------------------------------------------------------
(* No receiver sleeps on.  Where something is due, a unit of the semaphore *)
(* is there, or owed by a sender, or in the hands of a receiver; each of   *)
(* the three leads to the next, and the last to a report.                  *)

\* Senders never hold a unit, receivers never owe one.
RolesKept == /\ \A t \in Senders : pc[t] # "take"
             /\ \A t \in Receivers : pc[t] # "post"

\* What is true of a behaviour from any state on.  (That the fairness of a
\* behaviour is that of each of its suffixes is said with the box.)
Always == []IInv /\ []RolesKept /\ [][Next]_vars /\ []Fairness /\ []CallsGoOn

\* A value or the end is due after n values; it was reported.
Due(n)  == /\ ~panicked /\ Len(received) = n /\ ends = 0
           /\ buf # <<>> \/ closed
Told(n) == Len(received) > n \/ ends > 0 \/ panicked

Taking(n, t) == Due(n) /\ pc[t] = "take"
Owing(n, t)  == Due(n) /\ pc[t] = "post"
Ready(n)     == Due(n) /\ semaphore > 0 /\ \A t \in Receivers : pc[t] = "idle"
Taken(n)     == \E t \in Receivers : Taking(n, t)
Owed(n)      == \E t \in Senders : Owing(n, t)

LEMMA RolesInvariance == Spec => []RolesKept
<1>1. Init => RolesKept
    BY DEF Init, RolesKept, Threads
<1>2. IInv /\ RolesKept /\ [Next]_vars => RolesKept'
    <2> SUFFICES ASSUME IInv, RolesKept, [Next]_vars PROVE RolesKept'
        OBVIOUS
    <2>1. pc \in [Threads -> PCs] /\ Senders \cap Receivers = {}
        BY PipeAssumption DEF IInv, TypeOK
    <2>2. CASE UNCHANGED vars
        BY <2>2 DEF vars, RolesKept
    <2>3. ASSUME NEW t \in Senders, SendStep(t) PROVE RolesKept'
        BY <2>1, <2>3 DEF SendStep, SendAppend, SendPanic, Post, CloseMark, RolesKept, Threads
    <2>4. ASSUME NEW t \in Receivers, ReceiveStep(t) PROVE RolesKept'
        BY <2>1, <2>4 DEF ReceiveStep, Wait, TakeEnd, TakeValue, RolesKept, Threads
    <2> QED
        BY <2>2, <2>3, <2>4 DEF Next
<1> QED
    BY <1>1, <1>2, Invariance, PTL DEF Spec

\* Where something is due there is a unit for it.
LEMMA DueHasUnit ==
    ASSUME NEW n \in Nat, IInv, RolesKept, Due(n)
    PROVE  Taken(n) \/ Owed(n) \/ Ready(n)
<1>1. Len(buf) + closes > 0
    <2>1. buf # <<>> => Len(buf) > 0
        BY EmptySeq, LenProperties DEF IInv, TypeOK
    <2>2. closed => closes > 0
        BY DEF IInv, CloseAccounting
    <2> QED
        BY <2>1, <2>2, Numbers DEF Due
<1>2. pc \in [Threads -> PCs]
    BY DEF IInv, TypeOK
<1>3. CASE Holders = {}
    <2>1. semaphore > 0
        BY <1>1, <1>3, Numbers, FS_EmptySet DEF Due
    <2> QED
        BY <1>3, <2>1 DEF Due, Ready, Holders, Threads
<1>4. CASE Holders # {}
    <2>1. PICK t \in Threads : pc[t] # "idle"
        BY <1>4 DEF Holders
    <2> QED
        BY <1>2, <2>1 DEF RolesKept, Taken, Taking, Owed, Owing, Threads, PCs
<1> QED
    BY <1>3, <1>4

\* A critical section of receive reports the value or the end.
LEMMA TakeTells ==
    ASSUME NEW n \in Nat, IInv, Due(n), NEW t \in Receivers, TakeEnd(t) \/ TakeValue(t)
    PROVE  Told(n)'
<1>1. CASE TakeEnd(t)
    BY <1>1 DEF TakeEnd, Due, Told
<1>2. CASE TakeValue(t)
    <2>1. buf # <<>>
        BY <1>2, TakeFindsValue DEF TakeValue, Threads
    <2>2. Head(buf) \in Values /\ received \in Seq(Values) /\ Len(received) \in Nat
        BY <2>1, HeadTailProperties, LenProperties DEF IInv, TypeOK
    <2>3. Len(Append(received, Head(buf))) = Len(received) + 1
        BY <2>2, AppendProperties
    <2> QED
        BY <1>2, <2>2, <2>3 DEF TakeValue, Due, Told
<1> QED
    BY <1>1, <1>2

\* What a step does to what is due: it stays due, or is reported.
LEMMA DueStep ==
    ASSUME NEW n \in Nat, IInv, [Next]_vars, Due(n)
    PROVE  (Due(n) \/ Told(n))'
<1>1. Len(received) \in Nat /\ received \in Seq(Values) /\ buf \in Seq(Values)
    BY LenProperties DEF IInv, TypeOK
<1> USE DEF Due, Told
<1>2. CASE UNCHANGED vars
    BY <1>2 DEF vars
<1>3. ASSUME NEW t \in Senders, NEW v \in Values, SendAppend(t, v) PROVE (Due(n) \/ Told(n))'
    <2>1. Append(buf, v) # <<>>
        BY <1>1, AppendProperties
    <2> QED
        BY <1>3, <2>1 DEF SendAppend
<1>4. ASSUME NEW t \in Senders, SendPanic(t) \/ Post(t) \/ CloseMark(t)
      PROVE  (Due(n) \/ Told(n))'
    BY <1>4 DEF SendPanic, Post, CloseMark, pipe, hist
<1>5. ASSUME NEW t \in Receivers, Wait(t) PROVE (Due(n) \/ Told(n))'
    BY <1>5 DEF Wait, pipe, hist
<1>6. ASSUME NEW t \in Receivers, TakeEnd(t) \/ TakeValue(t) PROVE Told(n)'
    BY <1>6, TakeTells
<1> QED
    BY <1>2, <1>3, <1>4, <1>5, <1>6 DEF Next, SendStep, ReceiveStep

\* One lemma for each place at which the unit can be.
LEMMA TakingStep ==
    ASSUME NEW n \in Nat, NEW t \in Receivers, IInv, [Next]_vars, Taking(n, t)
    PROVE  (Taking(n, t) \/ Told(n))'
<1>1. (Due(n) \/ Told(n))'
    BY DueStep DEF Taking
<1>2. pc \in [Threads -> PCs] /\ Senders \cap Receivers = {} /\ t \in Threads
    BY PipeAssumption DEF IInv, TypeOK, Threads
<1> USE DEF Taking, Told
<1>3. CASE UNCHANGED vars
    BY <1>1, <1>3 DEF vars
<1>4. ASSUME NEW u \in Senders, SendStep(u) PROVE pc'[t] = "take"
    BY <1>2, <1>4 DEF SendStep, SendAppend, SendPanic, Post, CloseMark
<1>5. ASSUME NEW u \in Receivers, Wait(u) PROVE pc'[t] = "take"
    BY <1>2, <1>5 DEF Wait
<1>6. ASSUME NEW u \in Receivers, TakeEnd(u) \/ TakeValue(u) PROVE Told(n)'
    BY <1>6, TakeTells
<1> QED
    BY <1>1, <1>3, <1>4, <1>5, <1>6 DEF Next, ReceiveStep

LEMMA OwingStep ==
    ASSUME NEW n \in Nat, NEW t \in Senders, IInv, RolesKept, RolesKept', [Next]_vars, Owing(n, t)
    PROVE  /\ (Owing(n, t) \/ Ready(n) \/ Taken(n) \/ Told(n))'
           /\ PostOf(t) => (Ready(n) \/ Taken(n) \/ Told(n))'
<1>1. (Due(n) \/ Told(n))'
    BY DueStep DEF Owing
<1>2. pc \in [Threads -> PCs] /\ Senders \cap Receivers = {} /\ t \in Threads
    BY PipeAssumption DEF IInv, TypeOK, Threads
<1> USE DEF Owing
<1>3. CASE UNCHANGED vars
    BY <1>1, <1>2, <1>3 DEF vars, PostOf, Post
<1>4. ASSUME NEW u \in Senders, SendStep(u)
      PROVE  pc'[t] = "post" \/ (u = t /\ Post(u))
    BY <1>2, <1>4 DEF SendStep, SendAppend, SendPanic, Post, CloseMark
<1>5. ASSUME NEW u \in Receivers, Wait(u) PROVE pc'[t] = "post"
    BY <1>2, <1>5 DEF Wait
<1>6. ASSUME NEW u \in Receivers, TakeEnd(u) \/ TakeValue(u) PROVE pc'[t] = "post"
    BY <1>2, <1>6 DEF TakeEnd, TakeValue
<1>7. Post(t) => (Ready(n) \/ Taken(n) \/ Told(n))'
    <2> SUFFICES ASSUME Post(t), Due(n)' PROVE (Ready(n) \/ Taken(n))'
        BY <1>1
    <2>1. semaphore' > 0 /\ pc' \in [Threads -> PCs]
        BY <1>2, Numbers DEF Post, PCs
    <2> QED
        BY <2>1 DEF Ready, Taken, Taking, RolesKept, Threads, PCs
<1> QED
    BY <1>1, <1>3, <1>4, <1>5, <1>6, <1>7 DEF Next, ReceiveStep, PostOf

LEMMA ReadyStep ==
    ASSUME NEW n \in Nat, IInv, IInv', RolesKept', [Next]_vars, Ready(n)
    PROVE  /\ (Ready(n) \/ Taken(n) \/ Told(n))'
           /\ SomeWait => (Taken(n) \/ Told(n))'
<1>1. (Due(n) \/ Told(n))'
    BY DueStep DEF Ready
<1>2. /\ pc \in [Threads -> PCs] /\ pc' \in [Threads -> PCs]
      /\ Receivers \subseteq Threads
    BY DEF IInv, TypeOK, Threads
<1>3. ASSUME NEW u \in Receivers, Wait(u) PROVE (Taken(n) \/ Told(n))'
    BY <1>1, <1>2, <1>3 DEF Wait, Taken, Taking
<1>4. CASE semaphore' = semaphore \/ semaphore' = semaphore + 1
    <2>1. semaphore' > 0
        BY <1>4, Numbers DEF Ready
    <2>2. Due(n)' => (Ready(n) \/ Taken(n))'
        BY <1>2, <2>1 DEF Ready, Taken, Taking, RolesKept, PCs
    <2> QED
        BY <1>1, <1>3, <2>2 DEF SomeWait
<1>5. \/ semaphore' = semaphore \/ semaphore' = semaphore + 1
      \/ \E u \in Receivers : Wait(u)
    BY DEF Next, vars, SendStep, ReceiveStep, SendAppend, SendPanic, Post, CloseMark,
           TakeEnd, TakeValue
<1> QED
    BY <1>3, <1>4, <1>5 DEF SomeWait

\* The unit reaches a receiver, and the receiver reports.
LEMMA TakingTells ==
    ASSUME NEW n \in Nat
    PROVE  Always => (Taken(n) ~> Told(n))
<1>1. ASSUME NEW t \in Receivers PROVE Always => (Taking(n, t) => <>Told(n))
    <2>1. IInv /\ [Next]_vars /\ Taking(n, t) => (Taking(n, t) \/ Told(n))'
        BY TakingStep
    <2>2. IInv /\ <<TakeOf(t)>>_vars /\ Taking(n, t) => Told(n)'
        BY TakeTells DEF TakeOf, Taking
    <2>3. CallsGoOn /\ Taking(n, t) => ENABLED <<TakeOf(t)>>_vars
        BY DEF CallsGoOn, Taking, Due
    <2>4. FairTakes => FairTake(t)
        BY DEF FairTakes
    <2> QED
        BY <2>1, <2>2, <2>3, <2>4, PTL DEF Always, Fairness, FairTake
<1>2. Always => (Taken(n) => <>Told(n))
    BY <1>1 DEF Taken
<1> QED
    BY <1>2, PTL DEF Always

LEMMA ReadyTells ==
    ASSUME NEW n \in Nat, Receivers # {}
    PROVE  Always => (Ready(n) ~> Told(n))
<1>1. IInv /\ IInv' /\ RolesKept' /\ [Next]_vars /\ Ready(n)
        => (Ready(n) \/ Taken(n) \/ Told(n))'
    BY ReadyStep
<1>2. IInv /\ IInv' /\ RolesKept' /\ [Next]_vars /\ <<SomeWait>>_vars /\ Ready(n)
        => (Taken(n) \/ Told(n))'
    BY ReadyStep
<1>3. CallsGoOn /\ Ready(n) => ENABLED <<SomeWait>>_vars
    BY DEF CallsGoOn, Ready, Due
<1> QED
    BY <1>1, <1>2, <1>3, TakingTells, PTL DEF Always, Fairness

LEMMA OwingTells ==
    ASSUME NEW n \in Nat, Receivers # {}
    PROVE  Always => (Owed(n) ~> Told(n))
<1>1. ASSUME NEW t \in Senders PROVE Always => (Owing(n, t) => <>Told(n))
    <2>1. IInv /\ RolesKept /\ RolesKept' /\ [Next]_vars /\ Owing(n, t)
            => (Owing(n, t) \/ Ready(n) \/ Taken(n) \/ Told(n))'
        BY OwingStep
    <2>2. IInv /\ RolesKept /\ RolesKept' /\ [Next]_vars /\ <<PostOf(t)>>_vars /\ Owing(n, t)
            => (Ready(n) \/ Taken(n) \/ Told(n))'
        BY OwingStep
    <2>3. CallsGoOn /\ Owing(n, t) => ENABLED <<PostOf(t)>>_vars
        BY DEF CallsGoOn, Owing, Due
    <2>4. FairPosts => FairPost(t)
        BY DEF FairPosts
    <2> QED
        BY <2>1, <2>2, <2>3, <2>4, ReadyTells, TakingTells, PTL
        DEF Always, Fairness, FairPost
<1>2. Always => (Owed(n) => <>Told(n))
    BY <1>1 DEF Owed
<1> QED
    BY <1>2, PTL DEF Always

LEMMA DueTells ==
    ASSUME NEW n \in Nat, Receivers # {}
    PROVE  Always => (Due(n) ~> Told(n))
<1>1. IInv /\ RolesKept /\ Due(n) => Taken(n) \/ Owed(n) \/ Ready(n)
    BY DueHasUnit
<1> QED
    BY <1>1, TakingTells, OwingTells, ReadyTells, PTL DEF Always

\* The end is reported only when nothing is left, and nothing is added then.
EndIsLast == ends > 0 => closed /\ buf = <<>>

LEMMA EndInvariance == Spec => []EndIsLast
<1>1. Init => EndIsLast
    BY DEF Init, EndIsLast
<1>2. IInv /\ EndIsLast /\ [Next]_vars => EndIsLast'
    <2> SUFFICES ASSUME IInv, EndIsLast, [Next]_vars PROVE EndIsLast'
        OBVIOUS
    <2> USE DEF EndIsLast
    <2>1. CASE UNCHANGED vars
        BY <2>1 DEF vars
    <2>2. ASSUME NEW t \in Senders, SendStep(t) PROVE EndIsLast'
        BY <2>2 DEF SendStep, SendAppend, SendPanic, Post, CloseMark, IInv, CloseAccounting,
                    pipe, hist
    <2>3. ASSUME NEW t \in Receivers, Wait(t) \/ TakeEnd(t) PROVE EndIsLast'
        BY <2>3 DEF Wait, TakeEnd, AtEnd, pipe, hist
    <2>4. ASSUME NEW t \in Receivers, TakeValue(t) PROVE EndIsLast'
        <3>1. ends = 0
            BY <2>4, Numbers DEF TakeValue, AtEnd
        <3> QED
            BY <2>4, <3>1 DEF TakeValue
    <2> QED
        BY <2>1, <2>2, <2>3, <2>4 DEF Next, ReceiveStep
<1> QED
    BY <1>1, <1>2, Invariance, PTL DEF Spec

\* A value that is due stays in the array until it is received.
HeadDue(n) == Due(n) /\ buf # <<>>

LEMMA HeadDueStep ==
    ASSUME NEW n \in Nat, IInv, EndIsLast', [Next]_vars, HeadDue(n)
    PROVE  (HeadDue(n) \/ Len(received) > n \/ panicked)'
<1>1. (Due(n) \/ Told(n))' /\ Len(received) \in Nat
    BY DueStep, LenProperties DEF HeadDue, IInv, TypeOK
<1>2. CASE buf' # <<>>
    BY <1>1, <1>2 DEF HeadDue, Told, EndIsLast, Due
<1>3. CASE buf' = <<>>
    <2>1. \A v \in Values : Append(buf, v) # <<>>
        BY AppendProperties DEF IInv, TypeOK
    <2>2. \E t \in Receivers : TakeValue(t)
        BY <1>3, <2>1 DEF Next, vars, SendStep, ReceiveStep, SendAppend, SendPanic, Post,
                          CloseMark, Wait, TakeEnd, HeadDue, pipe
    <2>3. Told(n)' /\ ends' = ends
        BY <2>2, TakeTells DEF HeadDue, TakeValue
    <2> QED
        BY <2>3 DEF Told, HeadDue, Due
<1> QED
    BY <1>2, <1>3

\* No interleaving of posts and waits leaves a receiver asleep while a value is
\* in the array or a close was not reported (ey_pipe_send and ey_pipe_close post
\* outside the mutex; several receivers share the semaphore).
THEOREM NobodySleepsOn ==
    ASSUME Receivers # {}
    PROVE  Spec /\ []Fairness /\ []CallsGoOn => NoReceiverSleepsOn
<1> SUFFICES ASSUME NEW n \in 0..MaxSends
             PROVE  Spec /\ []Fairness /\ []CallsGoOn => HeadIsReceived(n) /\ EndIsReported(n)
    BY DEF NoReceiverSleepsOn
<1>n. n \in Nat
    BY PipeAssumption
<1>1. Spec => [](IInv /\ RolesKept /\ EndIsLast) /\ [][Next]_vars
    BY Invariance, RolesInvariance, EndInvariance, PTL DEF Spec
<1>2. Always => (Due(n) ~> Told(n))
    BY <1>n, DueTells
<1>3. Spec /\ []Fairness /\ []CallsGoOn => HeadIsReceived(n)
    <2>1. IInv /\ EndIsLast /\ Len(received) = n /\ Len(sent) > n => panicked \/ HeadDue(n)
        <3> SUFFICES ASSUME IInv, EndIsLast, Len(received) = n, Len(sent) > n
                     PROVE  buf # <<>> /\ ends = 0
            BY <1>n DEF HeadDue, Due
        <3>1. buf # <<>>
            BY ConcatEmptySeq DEF IInv, TypeOK, NothingLost
        <3> QED
            BY <3>1, Numbers DEF EndIsLast
    <2>2. IInv /\ EndIsLast' /\ [Next]_vars /\ HeadDue(n)
            => (HeadDue(n) \/ Len(received) > n \/ panicked)'
        BY <1>n, HeadDueStep
    <2>3. HeadDue(n) => Due(n) /\ ~Told(n)
        BY <1>n DEF HeadDue, Due, Told
    <2> QED
        BY <1>1, <1>2, <2>1, <2>2, <2>3, PTL DEF Always, HeadIsReceived
<1>4. Spec /\ []Fairness /\ []CallsGoOn => EndIsReported(n)
    <2>1. IInv /\ Len(received) = n /\ closed => panicked \/ ends > 0 \/ Due(n)
        BY <1>n, Numbers DEF Due
    <2>2. Told(n) => Len(received) > n \/ ends > 0 \/ panicked
        BY DEF Told
    <2> QED
        BY <1>1, <1>2, <2>1, <2>2, PTL DEF Always, EndIsReported
<1> QED
    BY <1>3, <1>4, PTL
=============================================================================
