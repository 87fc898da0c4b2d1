---------------------------- MODULE ClWorker_proofs ----------------------------
(***************************************************************************)
(* A GPU worker that is used with care hands its results out once and in   *)
(* order, shows every line, gets its log space back and never panics.      *)
(*                                                                         *)
(* A drain puts the rests of all batches behind each other.  That these    *)
(* are the next results is an induction over the batches, which here is    *)
(* the choice of the first batch for which it fails.                       *)
(***************************************************************************)
EXTENDS ClWorker, SequenceTheorems, WellFoundedInduction, TLAPS

-----------------------------------------------------------------------------
(* Sequences behind each other                                             *)

\* A set of natural numbers has a least element.
LEMMA Least ==
    ASSUME NEW T \in SUBSET Nat, T # {}
    PROVE  \E x \in T : \A y \in T : x <= y
<1> DEFINE R == OpToRel(<, Nat)
<1>1. \A x, y \in Nat : y < x => <<y, x>> \in R
    BY DEF OpToRel
<1>2. IsWellFoundedOn(R, Nat)
    BY NatLessThanWellFounded
<1> HIDE DEF R
<1>3. PICK x \in T : \A y \in T : ~ (<<y, x>> \in R)
    BY <1>2, WFMin
<1>4. ASSUME NEW y \in T PROVE x <= y
    <2>1. x \in Nat /\ y \in Nat
        OBVIOUS
    <2>2. ~ (y < x)
        BY <2>1, <1>1, <1>3
    <2> QED
        BY <2>1, <2>2
<1> QED
    BY <1>4

\* g holds what the first sequences of s are behind each other, up to the n-th.
Joined(g, s, n) == g = [i \in 1..n |-> IF i = 1 THEN s[i] ELSE g[i - 1] \o s[i]]

LEMMA JoinedExists ==
    ASSUME NEW s, NEW n \in Nat
    PROVE  \E g : Joined(g, s, n)
<1> DEFINE T == {k \in Nat : ~ \E g : Joined(g, s, k)}
<1>1. SUFFICES ASSUME T # {} PROVE FALSE
    OBVIOUS
<1>2. PICK k \in T : \A y \in T : k <= y
    BY <1>1, Least
<1>3. k \in Nat /\ ~ \E g : Joined(g, s, k)
    OBVIOUS
<1>4. CASE k = 0
    <2>1. 1..0 = {}
        OBVIOUS
    <2>2. Joined([i \in 1..0 |-> i], s, 0)
        BY <2>1 DEF Joined
    <2> QED
        BY <2>2, <1>3, <1>4
<1>5. CASE k # 0
    <2>1. k - 1 \in Nat /\ k - 1 \notin T
        BY <1>5, <1>2, <1>3
    <2>2. PICK g : Joined(g, s, k - 1)
        BY <2>1
    <2> DEFINE h == [i \in 1..k |-> IF i # k THEN g[i]
                                    ELSE IF k = 1 THEN s[k] ELSE g[k - 1] \o s[k]]
    <2>3. \A i \in 1..k : h[i] = IF i = 1 THEN s[i] ELSE h[i - 1] \o s[i]
        <3> TAKE i \in 1..k
        <3>1. CASE i = k
            BY <3>1, <1>3, <1>5
        <3>2. CASE i # k
            <4>1. i \in 1..(k - 1) /\ (i # 1 => i - 1 \in 1..k /\ i - 1 # k)
                BY <3>2, <1>3
            <4>2. g[i] = IF i = 1 THEN s[i] ELSE g[i - 1] \o s[i]
                BY <4>1, <2>2 DEF Joined
            <4>3. h[i] = g[i] /\ (i # 1 => h[i - 1] = g[i - 1])
                BY <4>1, <3>2
            <4> QED
                BY <4>2, <4>3
        <3> QED
            BY <3>1, <3>2
    <2>4. h = [i \in 1..k |-> h[i]]
        OBVIOUS
    <2>5. Joined(h, s, k)
        <3> HIDE DEF h
        <3> QED
            BY <2>3, <2>4 DEF Joined
    <2> QED
        BY <2>5, <1>3
<1> QED
    BY <1>4, <1>5

\* FlattenSeq is the last of them.
LEMMA FlattenIsLast ==
    ASSUME NEW s, Len(s) \in Nat \ {0}
    PROVE  \E g : Joined(g, s, Len(s)) /\ FlattenSeq(s) = g[Len(s)]
<1> DEFINE f == CHOOSE g : g = [i \in 1..Len(s) |-> IF i = 1 THEN s[i] ELSE g[i - 1] \o s[i]]
<1>1. \E g : g = [i \in 1..Len(s) |-> IF i = 1 THEN s[i] ELSE g[i - 1] \o s[i]]
    BY JoinedExists DEF Joined
<1>2. f = [i \in 1..Len(s) |-> IF i = 1 THEN s[i] ELSE f[i - 1] \o s[i]]
    BY <1>1
<1>3. FlattenSeq(s) = f[Len(s)]
    BY DEF FlattenSeq
<1> QED
    BY <1>2, <1>3 DEF Joined

\* Sequences over S behind each other are one over S.
LEMMA FlattenType ==
    ASSUME NEW S, NEW n \in Nat, NEW s \in [1..n -> Seq(S)]
    PROVE  FlattenSeq(s) \in Seq(S)
<1>1. Len(s) = n
    OBVIOUS
<1>2. CASE n = 0
    <2>1. s = <<>>
        BY <1>2
    <2> QED
        BY <2>1, EmptySeq DEF FlattenSeq
<1>3. CASE n # 0
    <2>1. PICK g : Joined(g, s, n) /\ FlattenSeq(s) = g[n]
        BY <1>1, <1>3, FlattenIsLast
    <2> DEFINE T == {k \in 1..n : g[k] \notin Seq(S)}
    <2>2. SUFFICES ASSUME T # {} PROVE FALSE
        BY <2>1, <1>3
    <2>3. PICK k \in T : \A y \in T : k <= y
        <3>1. T \in SUBSET Nat
            OBVIOUS
        <3> HIDE DEF T
        <3> QED
            BY <2>2, <3>1, Least
    <2>4. k \in 1..n /\ g[k] \notin Seq(S)
        OBVIOUS
    <2>5. g[k] = IF k = 1 THEN s[k] ELSE g[k - 1] \o s[k]
        BY <2>1, <2>4 DEF Joined
    <2>6. k # 1 => k - 1 \in 1..n /\ k - 1 \notin T
        BY <2>3, <2>4
    <2>7. k # 1 => g[k - 1] \in Seq(S)
        BY <2>6
    <2>8. s[k] \in Seq(S)
        BY <2>4
    <2>9. k # 1 => g[k - 1] \o s[k] \in Seq(S)
        BY <2>7, <2>8, ConcatProperties
    <2> QED
        BY <2>4, <2>5, <2>8, <2>9
<1> QED
    BY <1>2, <1>3

\* q begins in h behind place a: what is in q is what is there.
PlacedAt(q, h, a) == \A i \in 1..Len(q) : q[i] = h[a + i]

LEMMA ConcatPlaced ==
    ASSUME NEW S, NEW q \in Seq(S), NEW r \in Seq(S), NEW h, NEW a \in Nat, NEW b \in Nat,
           Len(q) = b - a, PlacedAt(q, h, a), PlacedAt(r, h, b)
    PROVE  q \o r \in Seq(S) /\ Len(q \o r) = (b + Len(r)) - a /\ PlacedAt(q \o r, h, a)
<1>1. /\ q \o r \in Seq(S) /\ Len(q \o r) = Len(q) + Len(r)
      /\ \A i \in 1..(Len(q) + Len(r)) :
            (q \o r)[i] = IF i <= Len(q) THEN q[i] ELSE r[i - Len(q)]
      /\ Len(q) \in Nat /\ Len(r) \in Nat
    BY ConcatProperties, LenProperties
<1>2. ASSUME NEW i \in 1..Len(q \o r) PROVE (q \o r)[i] = h[a + i]
    <2>1. CASE i <= Len(q)
        BY <2>1, <1>1 DEF PlacedAt
    <2>2. CASE i > Len(q)
        <3>1. i - Len(q) \in 1..Len(r) /\ b + (i - Len(q)) = a + i
            BY <2>2, <1>1
        <3> QED
            BY <3>1, <2>2, <1>1 DEF PlacedAt
    <2> QED
        BY <2>1, <2>2, <1>1
<1> QED
    BY <1>1, <1>2 DEF PlacedAt

\* What of each sequence is at its place in h, is as a whole.
LEMMA FlattenPlaced ==
    ASSUME NEW S, NEW n \in Nat, NEW s \in [1..n -> Seq(S)], NEW h,
           NEW pos \in [1..(n + 1) -> Nat],
           \A b \in 1..n : pos[b + 1] = pos[b] + Len(s[b]) /\ PlacedAt(s[b], h, pos[b])
    PROVE  /\ FlattenSeq(s) \in Seq(S) /\ Len(FlattenSeq(s)) = pos[n + 1] - pos[1]
           /\ PlacedAt(FlattenSeq(s), h, pos[1])
<1>1. Len(s) = n
    OBVIOUS
<1>2. CASE n = 0
    <2>1. FlattenSeq(s) = <<>>
        BY <1>2 DEF FlattenSeq
    <2> QED
        BY <2>1, <1>2 DEF PlacedAt
<1>3. CASE n # 0
    <2>1. PICK g : Joined(g, s, n) /\ FlattenSeq(s) = g[n]
        BY <1>1, <1>3, FlattenIsLast
    <2> DEFINE Good(k) == /\ g[k] \in Seq(S) /\ Len(g[k]) = pos[k + 1] - pos[1]
                          /\ PlacedAt(g[k], h, pos[1])
               T == {k \in 1..n : ~ Good(k)}
    <2>2. \A k \in 1..n : /\ g[k] = IF k = 1 THEN s[k] ELSE g[k - 1] \o s[k]
                          /\ s[k] \in Seq(S) /\ Len(s[k]) \in Nat
                          /\ pos[k] \in Nat /\ pos[k + 1] \in Nat /\ pos[1] \in Nat
        <3> TAKE k \in 1..n
        <3>1. g[k] = IF k = 1 THEN s[k] ELSE g[k - 1] \o s[k]
            BY <2>1 DEF Joined
        <3>2. s[k] \in Seq(S) /\ Len(s[k]) \in Nat
            BY LenProperties
        <3>3. k \in 1..(n + 1) /\ k + 1 \in 1..(n + 1) /\ 1 \in 1..(n + 1)
            OBVIOUS
        <3> QED
            BY <3>1, <3>2, <3>3
    <2>3. Good(n)
        <3>1. SUFFICES ASSUME ~ Good(n) PROVE FALSE
            OBVIOUS
        <3>2. n \in T /\ T \in SUBSET Nat
            BY <3>1, <1>3
        <3> HIDE DEF T
        <3>3. PICK k \in T : \A y \in T : k <= y
            BY <3>2, Least
        <3> USE DEF T
        <3>4. k \in 1..n /\ ~ Good(k)
            BY <3>3
        <3>5. CASE k = 1
            BY <3>4, <3>5, <2>2
        <3>6. CASE k # 1
            <4>1. k - 1 \in 1..n /\ (k - 1) + 1 = k /\ ~ (k <= k - 1)
                BY <3>4, <3>6
            <4>2. Good(k - 1)
                BY <3>3, <4>1
            <4> DEFINE q == g[k - 1]
                       r == s[k]
                       a == pos[1]
                       b == pos[k]
            <4>3. /\ q \in Seq(S) /\ Len(q) = b - a /\ PlacedAt(q, h, a)
                  /\ r \in Seq(S) /\ PlacedAt(r, h, b) /\ a \in Nat /\ b \in Nat
                BY <4>1, <4>2, <2>2, <3>4
            <4>4. g[k] = q \o r /\ pos[k + 1] = b + Len(r)
                BY <3>4, <3>6, <2>2
            <4> HIDE DEF q, r, a, b
            <4>5. q \o r \in Seq(S) /\ Len(q \o r) = (b + Len(r)) - a /\ PlacedAt(q \o r, h, a)
                BY <4>3, ConcatPlaced
            <4>6. g[k] \in Seq(S) /\ Len(g[k]) = pos[k + 1] - a /\ PlacedAt(g[k], h, a)
                BY <4>4, <4>5
            <4>7. Good(k)
                BY <4>6 DEF a
            <4> QED
                BY <4>7, <3>4
        <3> QED
            BY <3>5, <3>6
    <2> QED
        BY <2>1, <2>3
<1> QED
    BY <1>2, <1>3

-----------------------------------------------------------------------------
(* The inductive invariant                                                 *)

HistoryOK ==
    /\ accepted \in Seq(Values) /\ delivered \in Seq(Results)
    /\ printed \in [Items -> Seq(Values)] /\ shown \in [Items -> Seq(Values)]

\* A batch in use has results left, and only the first one was read from.
InUse ==
    \A b \in 1..used : /\ batches[b].read < Len(batches[b].output)
                       /\ b # 1 => batches[b].read < 0

\* Nothing that a panic depends on is ever released, unless with a closure.
BuffersHeld == /\ ~Closure => shared = 1
               /\ Careful /\ ~Closure => ~panicked

\* The lines that are kept are those that were shown and those that wait.
LinesKept == \A i \in Items : shown[i] \o Unshown(i) = printed[i]

\* A line waits only behind a batch that nobody has read from yet, the last one.
LastPumps ==
    (\E i \in Items : shown[i] # printed[i]) => used > 0 /\ batches[used].read < 0

\* The results left in the batches in use follow those handed out: batch b
\* begins behind the result pos[b].  The count is at most what is left in the
\* batches nobody has read from (it is less when drain counts results down that
\* receive has counted down with their batch).
Placed(pos) ==
    /\ pos \in [1..(used + 1) -> Nat]
    /\ pos[1] = Len(delivered) /\ pos[used + 1] = Len(accepted)
    /\ \A b \in 1..used :
          /\ pos[b + 1] = pos[b] + Len(Rest(batches[b]))
          /\ \A i \in 1..Len(Rest(batches[b])) :
                Rest(batches[b])[i] = W!Result(accepted[pos[b] + i])
    /\ activity <= Len(accepted)
                     - pos[IF used > 0 /\ batches[1].read >= 0 THEN 2 ELSE 1]

InOrder ==
    /\ \A i \in 1..Len(delivered) : delivered[i] = W!Result(accepted[i])
    /\ \E pos \in [1..(used + 1) -> 0..Len(accepted)] : Placed(pos)

\* No lines are left when no batch is left that nobody has read from.
LogsGoEarly ==
    (\A b \in 1..used : batches[b].read >= 0) => \A i \in Items : log[i] = <<>>

\* Receive finds something in the first batch, also before anybody read from it.
NoneEmpty == \A b \in 1..used : Len(batches[b].output) > 0

Always == TypeOK /\ HistoryOK /\ InUse /\ BuffersHeld /\ LinesKept /\ LastPumps

IInv == Always /\ (Careful => InOrder /\ LogsGoEarly /\ NoneEmpty)

-----------------------------------------------------------------------------
(* The array of batches                                                    *)

\* What is left of a batch begins where it was read to.
LEMMA RestOfBatch ==
    ASSUME NEW b \in Batch, b.read <= Len(b.output), NEW at,
           at = IF b.read < 0 THEN 0 ELSE b.read
    PROVE  /\ b.output \in Seq(Results) /\ Len(b.output) \in Nat /\ b.read \in Int /\ at \in Nat
           /\ Rest(b) \in Seq(Results) /\ Len(Rest(b)) = Len(b.output) - at
           /\ \A i \in 1..Len(Rest(b)) : Rest(b)[i] = b.output[at + i]
<1> DEFINE o == b.output
<1>1. o \in Seq(Results) /\ b.read \in Int /\ Len(o) \in Nat
    BY LenProperties DEF Batch
<1>2. at \in Nat /\ at <= Len(o)
    BY <1>1
<1>3. Rest(b) = SubSeq(o, at + 1, Len(o))
    BY DEF Rest
<1> HIDE DEF o
<1>4. /\ SubSeq(o, at + 1, Len(o)) \in Seq(Results)
      /\ Len(SubSeq(o, at + 1, Len(o))) = Len(o) - at
      /\ \A i \in 1..(Len(o) - at) : SubSeq(o, at + 1, Len(o))[i] = o[at + i]
    <2>1. \A i \in (at + 1)..Len(o) : o[i] \in Results
        BY <1>1, <1>2, ElementOfSeq
    <2>2. SubSeq(o, at + 1, Len(o)) = [i \in 1..(Len(o) - at) |-> o[at + i]]
        BY <1>1, <1>2
    <2> QED
        BY <2>1, <2>2, <1>1, <1>2, SMTT(30)
<1> QED
    BY <1>1, <1>2, <1>3, <1>4 DEF o

\* send writes the entry behind those in use, and keeps the others.
Written(bs, u, x) == Append(SubSeq(bs, 1, u), x) \o SubSeq(bs, u + 2, Len(bs))

\* cs is bs with x behind the first u.
EntryIs(cs, bs, u, x) ==
    /\ Len(cs) \in Nat /\ u + 1 <= Len(cs)
    /\ cs[u + 1] = x
    /\ \A b \in 1..Len(cs) : b # u + 1 => b \in 1..Len(bs) /\ cs[b] = bs[b]

LEMMA EntryWritten ==
    ASSUME NEW S, NEW bs \in Seq(S), NEW u \in 0..Len(bs), NEW x \in S,
           NEW cs, cs = Written(bs, u, x)
    PROVE  cs \in Seq(S) /\ EntryIs(cs, bs, u, x)
<1> DEFINE p == SubSeq(bs, 1, u)
           q == Append(p, x)
           r == SubSeq(bs, u + 2, Len(bs))
<1>1. Len(bs) \in Nat /\ u \in Nat /\ u <= Len(bs)
    BY LenProperties
<1>2. p \in Seq(S) /\ Len(p) = u /\ \A i \in 1..u : p[i] = bs[i]
    BY <1>1, SubSeqProperties
<1> HIDE DEF p
<1>3. /\ q \in Seq(S) /\ Len(q) = u + 1 /\ q[u + 1] = x
      /\ \A i \in 1..u : q[i] = bs[i]
    BY <1>2, AppendProperties
<1>4. /\ r \in Seq(S) /\ Len(r) = (IF u + 1 <= Len(bs) THEN Len(bs) - (u + 1) ELSE 0)
      /\ \A i \in 1..Len(r) : r[i] = bs[(u + 1) + i]
    <2>1. r = [i \in 1..(IF u + 1 <= Len(bs) THEN Len(bs) - (u + 1) ELSE 0) |-> bs[(u + 1) + i]]
        BY <1>1
    <2>2. \A i \in (u + 2)..Len(bs) : bs[i] \in S
        BY <1>1, ElementOfSeq
    <2> QED
        BY <1>1, <2>1, <2>2
<1>5. cs = q \o r
    BY DEF q, r, p, Written
<1> HIDE DEF q, r
<1>6. /\ cs \in Seq(S) /\ Len(cs) = (u + 1) + Len(r) /\ Len(r) \in Nat
      /\ \A i \in 1..Len(cs) : cs[i] = IF i <= u + 1 THEN q[i] ELSE r[i - (u + 1)]
    <2>1. /\ q \o r \in Seq(S) /\ Len(q \o r) = Len(q) + Len(r)
          /\ \A i \in 1..(Len(q) + Len(r)) :
                (q \o r)[i] = IF i <= Len(q) THEN q[i] ELSE r[i - Len(q)]
          /\ Len(r) \in Nat
        BY <1>3, <1>4, ConcatProperties, LenProperties
    <2> QED
        BY <2>1, <1>3, <1>5
<1>7. ASSUME NEW b \in 1..Len(cs), b # u + 1 PROVE b \in 1..Len(bs) /\ cs[b] = bs[b]
    <2>1. CASE b <= u
        BY <2>1, <1>1, <1>3, <1>6
    <2>2. CASE b > u + 1
        <3>1. b - (u + 1) \in 1..Len(r) /\ (u + 1) + (b - (u + 1)) = b
            BY <2>2, <1>1, <1>6
        <3>2. b \in 1..Len(bs)
            BY <3>1, <1>1, <1>4, <2>2
        <3>3. cs[b] = r[b - (u + 1)]
            BY <2>2, <1>1, <1>6
        <3> QED
            BY <3>1, <3>2, <3>3, <1>4
    <2>3. b <= u \/ b > u + 1
        BY <1>1, <1>6, <1>7
    <2> QED
        BY <2>1, <2>2, <2>3
<1>8. cs[u + 1] = x
    BY <1>1, <1>3, <1>6
<1>9. Len(cs) \in Nat /\ u + 1 <= Len(cs)
    BY <1>1, <1>6
<1> QED
    BY <1>6, <1>7, <1>8, <1>9 DEF EntryIs

\* clworker_pop_batch moves the others in use down, and keeps the rest.
MovedDown(bs, u) == SubSeq(bs, 2, u) \o SubSeq(bs, u, Len(bs))

LEMMA EntriesMoved ==
    ASSUME NEW S, NEW bs \in Seq(S), NEW u \in 1..Len(bs),
           NEW cs, cs = MovedDown(bs, u)
    PROVE  /\ cs \in Seq(S) /\ Len(cs) = Len(bs)
           /\ \A b \in 1..Len(bs) : /\ cs[b] = bs[IF b < u THEN b + 1 ELSE b]
                                    /\ (IF b < u THEN b + 1 ELSE b) \in 1..Len(bs)
<1> DEFINE p == SubSeq(bs, 2, u)
           r == SubSeq(bs, u, Len(bs))
<1>1. Len(bs) \in Nat /\ u \in Nat /\ 1 <= u /\ u <= Len(bs)
    BY LenProperties
<1>2. \A i \in 1..Len(bs) : bs[i] \in S
    BY ElementOfSeq
<1>3. p \in Seq(S) /\ Len(p) = u - 1 /\ \A i \in 1..(u - 1) : p[i] = bs[i + 1]
    <2>1. p = [i \in 1..(u - 1) |-> bs[i + 1]]
        BY <1>1
    <2> QED
        BY <2>1, <1>1, <1>2
<1>4. /\ r \in Seq(S) /\ Len(r) = Len(bs) - (u - 1)
      /\ \A i \in 1..Len(r) : r[i] = bs[(u - 1) + i]
    <2>1. r = [i \in 1..(Len(bs) - (u - 1)) |-> bs[(u - 1) + i]]
        BY <1>1
    <2> QED
        BY <2>1, <1>1, <1>2
<1>5. cs = p \o r
    BY DEF MovedDown
<1> HIDE DEF p, r
<1>6. /\ cs \in Seq(S) /\ Len(cs) = Len(bs)
      /\ \A i \in 1..Len(bs) : cs[i] = IF i <= u - 1 THEN p[i] ELSE r[i - (u - 1)]
    <2>1. /\ p \o r \in Seq(S) /\ Len(p \o r) = Len(p) + Len(r)
          /\ \A i \in 1..(Len(p) + Len(r)) :
                (p \o r)[i] = IF i <= Len(p) THEN p[i] ELSE r[i - Len(p)]
        BY <1>3, <1>4, ConcatProperties
    <2>2. Len(p) + Len(r) = Len(bs)
        BY <1>1, <1>3, <1>4
    <2> QED
        BY <2>1, <2>2, <1>3, <1>5
<1>7. ASSUME NEW b \in 1..Len(bs)
      PROVE  /\ cs[b] = bs[IF b < u THEN b + 1 ELSE b]
             /\ (IF b < u THEN b + 1 ELSE b) \in 1..Len(bs)
    <2>1. CASE b < u
        <3>1. b \in 1..(u - 1)
            BY <2>1, <1>1
        <3> QED
            BY <2>1, <3>1, <1>1, <1>3, <1>6
    <2>2. CASE b >= u
        <3>1. b - (u - 1) \in 1..Len(r) /\ (u - 1) + (b - (u - 1)) = b /\ ~ (b <= u - 1)
            BY <2>2, <1>1, <1>4
        <3>2. cs[b] = r[b - (u - 1)]
            BY <3>1, <1>6
        <3>3. r[b - (u - 1)] = bs[b]
            BY <3>1, <1>4
        <3> QED
            BY <2>2, <3>2, <3>3, <1>1
    <2> QED
        BY <2>1, <2>2, <1>1
<1> QED
    BY <1>6, <1>7

-----------------------------------------------------------------------------
(* The log buffers                                                         *)

\* What waits of a log is what comes after the lines shown.
LEMMA Waiting ==
    ASSUME NEW S, NEW l \in Seq(S), NEW p \in Nat, p <= Len(l)
    PROVE  /\ SubSeq(l, p + 1, Len(l)) \in Seq(S)
           /\ Len(SubSeq(l, p + 1, Len(l))) = Len(l) - p
           /\ \A i \in 1..(Len(l) - p) : SubSeq(l, p + 1, Len(l))[i] = l[p + i]
<1>1. Len(l) \in Nat /\ \A i \in 1..Len(l) : l[i] \in S
    BY LenProperties, ElementOfSeq
<1>2. SubSeq(l, p + 1, Len(l)) = [i \in 1..(Len(l) - p) |-> l[p + i]]
    BY <1>1
<1> QED
    BY <1>1, <1>2

\* When the lines shown are those kept, none waits.
LEMMA NoneWaits ==
    ASSUME NEW S, NEW l \in Seq(S), NEW p \in Nat, p <= Len(l), NEW s \in Seq(S),
           s \o SubSeq(l, p + 1, Len(l)) = s
    PROVE  p = Len(l)
<1> DEFINE w == SubSeq(l, p + 1, Len(l))
<1>1. w \in Seq(S) /\ Len(w) = Len(l) - p
    BY Waiting
<1> HIDE DEF w
<1>2. Len(s \o w) = Len(s) + Len(w) /\ s \o w = s
    BY <1>1, ConcatProperties DEF w
<1>3. Len(s) = Len(s) + Len(w)
    BY <1>2
<1>4. Len(s) \in Nat /\ Len(l) \in Nat
    BY LenProperties
<1> QED
    BY <1>1, <1>3, <1>4

\* Lines that were all shown: nothing waits.
LEMMA AllShown ==
    ASSUME NEW S, NEW l \in Seq(S), NEW s \in Seq(S)
    PROVE  /\ SubSeq(l, Len(l) + 1, Len(l)) = <<>>
           /\ s \o SubSeq(l, Len(l) + 1, Len(l)) = s
<1>1. Len(l) \in Nat
    BY LenProperties
<1>2. SubSeq(l, Len(l) + 1, Len(l)) = <<>>
    BY <1>1, SubSeqEmpty
<1> QED
    BY <1>2, ConcatEmptySeq

\* The lines shown and those that wait.
AllLines(s, l, p) == s \o SubSeq(l, p + 1, Len(l))

\* A line that is printed waits behind the others.
LEMMA LineAdded ==
    ASSUME NEW S, NEW l \in Seq(S), NEW p \in Nat, p <= Len(l), NEW s \in Seq(S), NEW v \in S
    PROVE  AllLines(s, Append(l, v), p) = Append(AllLines(s, l, p), v)
<1> DEFINE m == Append(l, v)
           w == SubSeq(l, p + 1, Len(l))
           x == SubSeq(m, p + 1, Len(m))
           t == s \o w
<1>1. /\ m \in Seq(S) /\ Len(m) = Len(l) + 1 /\ m[Len(l) + 1] = v
      /\ \A i \in 1..Len(l) : m[i] = l[i]
      /\ Len(l) \in Nat /\ Len(s) \in Nat
    BY AppendProperties, LenProperties
<1>2. w \in Seq(S) /\ Len(w) = Len(l) - p /\ \A i \in 1..(Len(l) - p) : w[i] = l[p + i]
    BY Waiting
<1> HIDE DEF m, w
<1>3. x \in Seq(S) /\ Len(x) = Len(m) - p /\ \A i \in 1..(Len(m) - p) : x[i] = m[p + i]
    BY <1>1, Waiting
<1> HIDE DEF x
<1>4. /\ t \in Seq(S) /\ Len(t) = Len(s) + Len(w)
      /\ \A i \in 1..(Len(s) + Len(w)) : t[i] = IF i <= Len(s) THEN s[i] ELSE w[i - Len(s)]
    BY <1>2, ConcatProperties
<1> HIDE DEF t
<1>5. /\ s \o x \in Seq(S) /\ Len(s \o x) = Len(s) + Len(x)
      /\ \A i \in 1..(Len(s) + Len(x)) :
            (s \o x)[i] = IF i <= Len(s) THEN s[i] ELSE x[i - Len(s)]
    BY <1>3, ConcatProperties, ZenonT(30)
<1>6. /\ Append(t, v) \in Seq(S) /\ Len(Append(t, v)) = Len(t) + 1
      /\ \A i \in 1..Len(t) : Append(t, v)[i] = t[i]
      /\ Append(t, v)[Len(t) + 1] = v
    <2>1. t \in Seq(S)
        BY <1>4
    <2> QED
        BY <2>1, AppendProperties
<1>7. Len(s \o x) = Len(Append(t, v))
    BY <1>1, <1>2, <1>3, <1>4, <1>5, <1>6
<1>8. ASSUME NEW i \in 1..Len(s \o x) PROVE (s \o x)[i] = Append(t, v)[i]
    <2>1. i \in Nat /\ 1 <= i /\ i <= Len(s) + (Len(l) + 1 - p)
        BY <1>1, <1>3, <1>5
    <2>2. CASE i <= Len(s)
        <3>1. i \in 1..(Len(s) + Len(x)) /\ i \in 1..(Len(s) + Len(w)) /\ i \in 1..Len(t)
            BY <2>1, <2>2, <1>1, <1>2, <1>3, <1>4
        <3>2. (s \o x)[i] = s[i]
            BY <3>1, <2>2, <1>5
        <3>3. t[i] = s[i]
            BY <3>1, <2>2, <1>4
        <3>4. Append(t, v)[i] = t[i]
            BY <3>1, <1>6
        <3> QED
            BY <3>2, <3>3, <3>4
    <2>3. CASE i > Len(s)
        <3> DEFINE j == i - Len(s)
        <3>1. j \in 1..(Len(l) + 1 - p) /\ i = Len(s) + j
            BY <2>1, <2>3, <1>1
        <3> HIDE DEF j
        <3>2. (s \o x)[i] = x[j] /\ x[j] = m[p + j]
            <4>1. ~ (i <= Len(s)) /\ i - Len(s) = j /\ i \in 1..(Len(s) + Len(x)) /\ j \in 1..(Len(m) - p)
                BY <3>1, <2>1, <2>3, <1>1, <1>3
            <4> QED
                BY <4>1, <1>3, <1>5
        <3>3. CASE j <= Len(l) - p
            <4>1. p + j \in 1..Len(l) /\ j \in 1..(Len(l) - p)
                BY <3>1, <3>3, <1>1
            <4>2. ~ (i <= Len(s)) /\ i - Len(s) = j /\ i \in 1..(Len(s) + Len(w)) /\ i \in 1..Len(t)
                BY <3>1, <3>3, <2>1, <2>3, <1>1, <1>2, <1>4, SMTT(30)
            <4>3. m[p + j] = l[p + j] /\ w[j] = l[p + j]
                BY <4>1, <1>1, <1>2
            <4>4. t[i] = w[j] /\ Append(t, v)[i] = t[i]
                BY <4>2, <1>4, <1>6
            <4> QED
                BY <3>2, <4>3, <4>4
        <3>4. CASE j = Len(l) + 1 - p
            <4>1. p + j = Len(l) + 1 /\ i = Len(t) + 1
                BY <3>1, <3>4, <1>1, <1>2, <1>4
            <4> QED
                BY <4>1, <3>2, <1>1, <1>6
        <3>5. j <= Len(l) - p \/ j = Len(l) + 1 - p
            BY <3>1, <1>1
        <3> QED
            BY <3>3, <3>4, <3>5
    <2>4. i <= Len(s) \/ i > Len(s)
        BY <2>1, <1>1
    <2> QED
        BY <2>2, <2>3, <2>4
<1>9. s \o x = Append(t, v)
    <2> DEFINE y == s \o x
               z == Append(t, v)
    <2>1. y \in Seq(S) /\ z \in Seq(S) /\ Len(y) = Len(z) /\ \A i \in 1..Len(y) : y[i] = z[i]
        BY <1>5, <1>6, <1>7, <1>8
    <2> HIDE DEF y, z
    <2>2. y = z
        BY <2>1, SeqEqual
    <2> QED
        BY <2>2 DEF y, z
<1> QED
    BY <1>9 DEF x, t, m, w, AllLines

\* The logs are pumped, or there is nothing to pump; they may be cleared.
LEMMA PumpedOrClear ==
    ASSUME TypeOK, HistoryOK, LinesKept, NEW pump \in BOOLEAN, NEW n \in Int, Reduced(pump, n),
           ~pump => \A i \in Items : shown[i] = printed[i]
    PROVE  /\ log' \in [Items -> Seq(Values)] /\ \A i \in Items : Len(log'[i]) <= LogLimit
           /\ pumped' \in [Items -> Nat] /\ \A i \in Items : pumped'[i] <= Len(log'[i])
           /\ printed' = printed /\ shown' = printed
           /\ LinesKept'
           /\ n <= 0 => \A i \in Items : log'[i] = <<>>
<1> DEFINE done == IF pump THEN [i \in Items |-> Len(log[i])] ELSE pumped
<1>1. /\ log \in [Items -> Seq(Values)] /\ \A i \in Items : Len(log[i]) <= LogLimit
      /\ pumped \in [Items -> Nat] /\ \A i \in Items : pumped[i] <= Len(log[i])
      /\ \A i \in Items : Len(log[i]) \in Nat
      /\ LogLimit \in Nat
    BY ClWorkerAssumption, LenProperties DEF TypeOK
<1>2. \A i \in Items : shown[i] \o Unshown(i) = printed[i]
    BY DEF LinesKept
<1>3. printed \in [Items -> Seq(Values)] /\ shown \in [Items -> Seq(Values)]
    BY DEF HistoryOK
<1>4. \A i \in Items : done[i] = Len(log[i])
    <2> TAKE i \in Items
    <2>1. CASE pump
        BY <2>1
    <2>2. CASE ~pump
        <3>1. shown[i] \o SubSeq(log[i], pumped[i] + 1, Len(log[i])) = shown[i]
            BY <1>2, <2>2 DEF Unshown
        <3>2. log[i] \in Seq(Values) /\ pumped[i] \in Nat /\ pumped[i] <= Len(log[i]) /\ shown[i] \in Seq(Values)
            BY <1>1, <1>3
        <3>3. pumped[i] = Len(log[i])
            BY <3>1, <3>2, NoneWaits
        <3> QED
            BY <3>3, <2>2
    <2> QED
        BY <2>1, <2>2
<1>5. done \in [Items -> Nat]
    BY <1>1
<1>6. shown' = printed /\ printed' = printed
    <2>1. CASE pump
        <3>1. shown' = [i \in Items |-> shown[i] \o Unshown(i)]
            BY <2>1 DEF Reduced
        <3> QED
            BY <3>1, <1>2, <1>3 DEF Reduced
    <2>2. CASE ~pump
        BY <2>2, <1>3 DEF Reduced
    <2> QED
        BY <2>1, <2>2
<1>7. Cleared(n, done)
    BY DEF Reduced
<1> HIDE DEF done
<1>8. CASE Idle(n) /\ \E i \in Items : done[i] # 0
    <2>1. log' = [i \in Items |-> <<>>] /\ pumped' = [i \in Items |-> 0]
        BY <1>7, <1>8 DEF Cleared
    <2>2. \A i \in Items : log'[i] = <<>> /\ pumped'[i] = 0
        BY <2>1
    <2>3. /\ log' \in [Items -> Seq(Values)] /\ pumped' \in [Items -> Nat]
          /\ \A i \in Items : Len(log'[i]) = 0
        BY <2>1, EmptySeq
    <2>4. ASSUME NEW i \in Items PROVE shown'[i] \o Unshown(i)' = printed'[i]
        <3>1. Unshown(i)' = SubSeq(log'[i], pumped'[i] + 1, Len(log'[i]))
            BY DEF Unshown
        <3>2. Unshown(i)' = SubSeq(<<>>, Len(<<>>) + 1, Len(<<>>))
            BY <3>1, <2>2
        <3>3. printed[i] \in Seq(Values) /\ <<>> \in Seq(Values)
            BY <1>3, EmptySeq
        <3>4. printed[i] \o SubSeq(<<>>, Len(<<>>) + 1, Len(<<>>)) = printed[i]
            BY <3>3, AllShown
        <3> QED
            BY <3>2, <3>4, <1>6
    <2> QED
        BY <1>1, <1>6, <2>1, <2>2, <2>3, <2>4 DEF LinesKept
<1>9. CASE ~ (Idle(n) /\ \E i \in Items : done[i] # 0)
    <2>1. log' = log /\ pumped' = done
        BY <1>7, <1>9 DEF Cleared
    <2>2. ASSUME NEW i \in Items PROVE shown'[i] \o Unshown(i)' = printed'[i]
        <3>1. Unshown(i)' = SubSeq(log[i], Len(log[i]) + 1, Len(log[i]))
            BY <2>1, <1>4 DEF Unshown
        <3>2. log[i] \in Seq(Values) /\ printed[i] \in Seq(Values)
            BY <1>1, <1>3
        <3>3. printed[i] \o SubSeq(log[i], Len(log[i]) + 1, Len(log[i])) = printed[i]
            BY <3>2, AllShown
        <3> QED
            BY <3>1, <3>3, <1>6
    <2>3. ASSUME n <= 0, NEW i \in Items PROVE log[i] = <<>>
        <3>1. Len(log[i]) = 0
            BY <2>3, <1>4, <1>9 DEF Idle
        <3> QED
            BY <3>1, <1>1, EmptySeq
    <2>4. pumped' \in [Items -> Nat] /\ \A i \in Items : pumped'[i] <= Len(log'[i])
        BY <2>1, <1>1, <1>4, <1>5
    <2> QED
        BY <1>1, <1>6, <2>1, <2>2, <2>3, <2>4 DEF LinesKept
<1> QED
    BY <1>8, <1>9

-----------------------------------------------------------------------------
(* What the handlers do to the batches                                     *)

LEMMA BatchesOK ==
    ASSUME TypeOK
    PROVE  /\ batches \in Seq(Batch) /\ Len(batches) \in Nat
           /\ used \in Nat /\ used <= Len(batches)
           /\ \A b \in 1..Len(batches) :
                 /\ batches[b] \in Batch /\ batches[b].output \in Seq(Results)
                 /\ Len(batches[b].output) \in Nat /\ batches[b].read \in Int
                 /\ -1 <= batches[b].read /\ batches[b].read <= Len(batches[b].output)
<1>1. batches \in Seq(Batch) /\ Len(batches) \in Nat /\ used \in 0..Len(batches)
    BY LenProperties DEF TypeOK
<1>2. ASSUME NEW b \in 1..Len(batches)
      PROVE  /\ batches[b] \in Batch /\ batches[b].output \in Seq(Results)
             /\ Len(batches[b].output) \in Nat /\ batches[b].read \in Int
             /\ -1 <= batches[b].read /\ batches[b].read <= Len(batches[b].output)
    <2>1. batches[b] \in Batch
        BY <1>1, ElementOfSeq
    <2>2. batches[b].output \in Seq(Results) /\ batches[b].read \in Int
        BY <2>1 DEF Batch
    <2>3. Len(batches[b].output) \in Nat
        BY <2>2, LenProperties
    <2>4. batches[b].read \in -1..Len(batches[b].output)
        BY DEF TypeOK
    <2> QED
        BY <2>1, <2>2, <2>3, <2>4
<1> QED
    BY <1>1, <1>2

LEMMA VectorIsSeq ==
    ASSUME NEW vs \in Vectors
    PROVE  /\ vs \in Seq(Values) /\ Len(vs) \in Nat /\ Len(vs) <= MaxBatch
           /\ \A i \in 1..Len(vs) : vs[i] \in Values
<1>1. PICK n \in 0..MaxBatch : vs \in [1..n -> Values]
    BY DEF Vectors
<1>2. n \in Nat /\ n <= MaxBatch
    BY <1>1, ClWorkerAssumption
<1> QED
    BY <1>1, <1>2

LEMMA NewBatchOK ==
    ASSUME NEW vs \in Vectors
    PROVE  /\ NewBatch(vs) \in Batch /\ NewBatch(vs).read = -1
           /\ Len(NewBatch(vs).output) = Len(vs)
           /\ \A i \in 1..Len(vs) : NewBatch(vs).output[i] = W!Result(vs[i])
<1>1. /\ vs \in Seq(Values) /\ Len(vs) \in Nat /\ DOMAIN vs = 1..Len(vs)
      /\ \A i \in 1..Len(vs) : vs[i] \in Values
    BY VectorIsSeq, LenProperties
<1> DEFINE o == [i \in DOMAIN vs |-> W!Result(vs[i])]
<1>2. o \in [1..Len(vs) -> Results]
    BY <1>1 DEF Results
<1>3. o \in Seq(Results) /\ Len(o) = Len(vs) /\ \A i \in 1..Len(vs) : o[i] = W!Result(vs[i])
    <2>1. \A i \in 1..Len(vs) : o[i] = W!Result(vs[i])
        BY <1>1
    <2> HIDE DEF o
    <2> QED
        BY <1>1, <1>2, <2>1
<1>4. NewBatch(vs).output = o /\ NewBatch(vs).read = -1 /\ NewBatch(vs) = [output |-> o, read |-> -1]
    BY DEF NewBatch
<1> HIDE DEF o
<1>5. [output |-> o, read |-> -1] \in Batch
    BY <1>3 DEF Batch
<1> QED
    BY <1>3, <1>4, <1>5

LEMMA SentBatches ==
    ASSUME TypeOK, NEW vs \in Vectors, Send(vs)
    PROVE  /\ batches' \in Seq(Batch) /\ Len(batches') \in Nat
           /\ used' = used + 1 /\ used' <= Len(batches')
           /\ batches'[used + 1] = NewBatch(vs)
           /\ \A b \in 1..Len(batches') : b # used + 1 =>
                 b \in 1..Len(batches) /\ batches'[b] = batches[b]
           /\ \A b \in 1..Len(batches') : batches'[b].read \in -1..Len(batches'[b].output)
<1>1. batches \in Seq(Batch) /\ used \in 0..Len(batches)
    BY DEF TypeOK
<1>2. NewBatch(vs) \in Batch
    BY NewBatchOK
<1> DEFINE nb == NewBatch(vs)
           cs == Written(batches, used, nb)
<1>3. batches' = cs /\ used' = used + 1
    BY DEF Send, Written
<1>4. /\ batches' \in Seq(Batch) /\ Len(batches') \in Nat /\ used + 1 <= Len(batches')
      /\ batches'[used + 1] = NewBatch(vs)
      /\ \A b \in 1..Len(batches') : b # used + 1 =>
            b \in 1..Len(batches) /\ batches'[b] = batches[b]
    <2>1. nb \in Batch
        BY <1>2
    <2>2. cs = Written(batches, used, nb)
        OBVIOUS
    <2> HIDE DEF nb, cs
    <2>3. cs \in Seq(Batch) /\ EntryIs(cs, batches, used, nb)
        BY <1>1, <2>1, <2>2, EntryWritten
    <2> QED
        BY <1>3, <2>3 DEF nb, EntryIs
<1>5. ASSUME NEW b \in 1..Len(batches') PROVE batches'[b].read \in -1..Len(batches'[b].output)
    <2>1. CASE b = used + 1
        BY <2>1, <1>4, NewBatchOK, VectorIsSeq
    <2>2. CASE b # used + 1
        BY <2>2, <1>4 DEF TypeOK
    <2> QED
        BY <2>1, <2>2
<1> QED
    BY <1>3, <1>4, <1>5

LEMMA ReceivedBatches ==
    ASSUME TypeOK, Receive
    PROVE  /\ 1 \in 1..Len(batches) /\ First = batches[1]
           /\ At \in Nat /\ At < Len(First.output)
           /\ batches' \in Seq(Batch) /\ Len(batches') = Len(batches)
           /\ \A b \in 1..Len(batches') : batches'[b].read \in -1..Len(batches'[b].output)
           /\ At + 1 # Len(First.output) =>
                 /\ used' = used
                 /\ batches'[1] = [output |-> First.output, read |-> At + 1]
                 /\ \A b \in 2..Len(batches) : batches'[b] = batches[b]
           /\ At + 1 = Len(First.output) =>
                 /\ used >= 1 /\ used' = used - 1
                 /\ \A b \in 1..(used - 1) : batches'[b] = batches[b + 1]
<1>1. /\ batches \in Seq(Batch) /\ Len(batches) \in Nat
      /\ used \in Nat /\ used <= Len(batches)
      /\ \A b \in 1..Len(batches) :
            /\ batches[b] \in Batch /\ batches[b].output \in Seq(Results)
            /\ Len(batches[b].output) \in Nat /\ batches[b].read \in Int
            /\ -1 <= batches[b].read /\ batches[b].read <= Len(batches[b].output)
    BY BatchesOK
<1>2. ~ NothingToReceive
    BY DEF Receive
<1>3. 1 \in 1..Len(batches) /\ First = batches[1]
    <2>1. ASSUME batches = <<>> PROVE FALSE
        <3>1. First = [output |-> <<>>, read |-> 0]
            BY <2>1 DEF First
        <3>2. At = 0 /\ Len(First.output) = 0
            BY <3>1 DEF At, Unread
        <3> QED
            BY <3>2, <1>2 DEF NothingToReceive
    <2>2. Len(batches) \in Nat \ {0}
        BY <1>1, <2>1, EmptySeq
    <2> QED
        BY <2>1, <2>2 DEF First
<1>4. /\ First \in Batch /\ First.output \in Seq(Results) /\ Len(First.output) \in Nat
      /\ First.read \in Int /\ At \in Nat
    BY <1>1, <1>3 DEF At, Unread
<1>5. At < Len(First.output) /\ (At + 1 = Len(First.output) => used >= 1)
    BY <1>1, <1>2, <1>4 DEF NothingToReceive
<1> DEFINE g == [output |-> First.output, read |-> At + 1]
           r == [batches EXCEPT ![1] = g]
<1>6. [batches EXCEPT ![1].read = At + 1] = r
    <2>1. [batches[1] EXCEPT !.read = At + 1] = g
        BY <1>3, <1>4 DEF Batch
    <2> QED
        BY <2>1
<1>7. /\ used' = IF At + 1 = Len(First.output) THEN used - 1 ELSE used
      /\ batches' = IF At + 1 = Len(First.output) THEN Popped(r) ELSE r
    BY <1>6 DEF Receive
<1>8. g \in Batch /\ g.read = At + 1 /\ g.output = First.output
    BY <1>4 DEF Batch
<1> HIDE DEF g
<1>9. /\ r \in Seq(Batch) /\ Len(r) = Len(batches)
      /\ \A b \in 1..Len(batches) : r[b] = IF b = 1 THEN g ELSE batches[b]
    BY <1>1, <1>3, <1>8, ExceptSeq
<1> HIDE DEF r
<1>10. \A b \in 1..Len(batches) : r[b].read \in -1..Len(r[b].output)
    <2> TAKE b \in 1..Len(batches)
    <2>1. CASE b = 1
        BY <2>1, <1>4, <1>5, <1>8, <1>9
    <2>2. CASE b # 1
        BY <2>2, <1>1, <1>9
    <2> QED
        BY <2>1, <2>2
<1>11. CASE At + 1 # Len(First.output)
    <2>1. batches' = r /\ used' = used
        BY <1>7, <1>11
    <2>2. r[1] = g /\ \A b \in 2..Len(batches) : r[b] = batches[b]
        BY <1>1, <1>3, <1>9
    <2> QED
        BY <1>3, <1>4, <1>5, <1>9, <1>10, <1>11, <2>1, <2>2 DEF g
<1>12. CASE At + 1 = Len(First.output)
    <2>1. batches' = MovedDown(r, used) /\ used' = used - 1
        BY <1>7, <1>12 DEF Popped, MovedDown
    <2>2. used \in 1..Len(r)
        BY <1>1, <1>5, <1>9, <1>12
    <2>3. /\ batches' \in Seq(Batch) /\ Len(batches') = Len(r)
          /\ \A b \in 1..Len(r) : /\ batches'[b] = r[IF b < used THEN b + 1 ELSE b]
                                  /\ (IF b < used THEN b + 1 ELSE b) \in 1..Len(r)
        BY <1>9, <2>1, <2>2, EntriesMoved
    <2>4. \A b \in 1..Len(batches') : batches'[b].read \in -1..Len(batches'[b].output)
        BY <1>9, <1>10, <2>3
    <2>5. ASSUME NEW b \in 1..(used - 1) PROVE batches'[b] = batches[b + 1]
        <3>1. b \in 1..Len(r) /\ b < used /\ b + 1 \in 1..Len(batches) /\ b + 1 # 1
            BY <1>1, <1>9, <2>2
        <3> QED
            BY <3>1, <2>3, <1>9
    <2> QED
        BY <1>3, <1>4, <1>5, <1>9, <1>12, <2>1, <2>3, <2>4, <2>5
<1> QED
    BY <1>11, <1>12

LEMMA DrainedBatches ==
    ASSUME TypeOK, Drain
    PROVE  /\ batches' \in Seq(Batch) /\ Len(batches') = Len(batches) /\ used' = 0
           /\ \A b \in 1..Len(batches') : batches'[b].read \in -1..Len(batches'[b].output)
           /\ Drained \in Seq(Results) /\ Len(Drained) \in Nat
<1>1. /\ batches \in Seq(Batch) /\ Len(batches) \in Nat
      /\ used \in Nat /\ used <= Len(batches)
      /\ \A b \in 1..Len(batches) :
            /\ batches[b] \in Batch /\ batches[b].output \in Seq(Results)
            /\ Len(batches[b].output) \in Nat /\ batches[b].read \in Int
            /\ -1 <= batches[b].read /\ batches[b].read <= Len(batches[b].output)
    BY BatchesOK
<1> DEFINE new(b) == IF b <= used /\ batches[b].read >= 0
                     THEN [batches[b] EXCEPT !.read = Len(batches[b].output)] ELSE batches[b]
<1>2. batches' = [b \in 1..Len(batches) |-> new(b)] /\ used' = 0
    BY <1>1, LenProperties DEF Drain
<1>3. ASSUME NEW b \in 1..Len(batches)
      PROVE  new(b) \in Batch /\ new(b).read \in -1..Len(new(b).output)
    <2>1. CASE b <= used /\ batches[b].read >= 0
        <3>1. [batches[b] EXCEPT !.read = Len(batches[b].output)]
                = [output |-> batches[b].output, read |-> Len(batches[b].output)]
            <4>1. \A p \in Batch : \A x : [p EXCEPT !.read = x] = [output |-> p.output, read |-> x]
                BY DEF Batch
            <4> QED
                BY <4>1, <1>1
        <3>2. new(b) = [output |-> batches[b].output, read |-> Len(batches[b].output)]
            BY <2>1, <3>1
        <3>3. Len(batches[b].output) \in -1..Len(batches[b].output)
            BY <1>1
        <3>4. [output |-> batches[b].output, read |-> Len(batches[b].output)] \in Batch
            <4> DEFINE o == batches[b].output
            <4>1. o \in Seq(Results) /\ Len(o) \in Int
                BY <1>1
            <4> HIDE DEF o
            <4>2. [output |-> o, read |-> Len(o)] \in Batch
                BY <4>1 DEF Batch
            <4> QED
                BY <4>2 DEF o
        <3> QED
            BY <3>2, <3>3, <3>4
    <2>2. CASE ~ (b <= used /\ batches[b].read >= 0)
        BY <2>2, <1>1
    <2> QED
        BY <2>1, <2>2
<1> HIDE DEF new
<1>4. /\ batches' \in Seq(Batch) /\ Len(batches') = Len(batches)
      /\ \A b \in 1..Len(batches') : batches'[b].read \in -1..Len(batches'[b].output)
    <2>1. [b \in 1..Len(batches) |-> new(b)] \in [1..Len(batches) -> Batch]
        BY <1>3
    <2>2. Len(batches') = Len(batches) /\ batches' \in Seq(Batch)
        BY <1>1, <1>2, <2>1
    <2> QED
        BY <1>2, <1>3, <2>2
<1>5. [b \in 1..used |-> Rest(batches[b])] \in [1..used -> Seq(Results)]
    <2>1. ASSUME NEW b \in 1..used PROVE Rest(batches[b]) \in Seq(Results)
        <3>1. b \in 1..Len(batches)
            BY <1>1
        <3> QED
            BY <3>1, <1>1, RestOfBatch
    <2> QED
        BY <2>1
<1>6. Drained \in Seq(Results)
    BY <1>1, <1>5, FlattenType DEF Drained
<1> QED
    BY <1>2, <1>4, <1>6, LenProperties

-----------------------------------------------------------------------------
(* What holds also of a worker that is used without care                   *)

LEMMA SendAlways ==
    ASSUME Always, ~panicked, NEW vs \in Vectors, Send(vs)
    PROVE  Always'
<1>1. TypeOK /\ HistoryOK /\ InUse /\ BuffersHeld /\ LinesKept /\ LastPumps
    BY DEF Always
<1>2. /\ batches' \in Seq(Batch) /\ Len(batches') \in Nat
      /\ used' = used + 1 /\ used' <= Len(batches')
      /\ batches'[used + 1] = NewBatch(vs)
      /\ \A b \in 1..Len(batches') : b # used + 1 =>
            b \in 1..Len(batches) /\ batches'[b] = batches[b]
      /\ \A b \in 1..Len(batches') : batches'[b].read \in -1..Len(batches'[b].output)
    BY <1>1, SentBatches
<1>3. /\ vs \in Seq(Values) /\ Len(vs) \in Nat /\ Len(vs) <= MaxBatch
      /\ \A i \in 1..Len(vs) : vs[i] \in Values
    BY VectorIsSeq
<1>4. vs # <<>> /\ Len(vs) > 0
    BY <1>3, EmptySeq DEF Send, Refused
<1>5. used \in Nat /\ used' \in 0..Len(batches')
    BY <1>1, <1>2, BatchesOK
<1>6. /\ UNCHANGED <<setting, shared, closure, pins, pumped, panicked, delivered, shown>>
      /\ activity' = activity + Len(vs) /\ accepted' = accepted \o vs
      /\ log' = Kept(vs, log) /\ printed' = Kept(vs, printed)
    BY DEF Send
<1>7. /\ log \in [Items -> Seq(Values)] /\ \A i \in Items : Len(log[i]) <= LogLimit
      /\ pumped \in [Items -> Nat] /\ \A i \in Items : pumped[i] <= Len(log[i])
      /\ LogLimit \in Nat
    BY <1>1, ClWorkerAssumption DEF TypeOK
<1>8. printed \in [Items -> Seq(Values)] /\ shown \in [Items -> Seq(Values)]
    BY <1>1 DEF HistoryOK
<1>9. ASSUME NEW i \in Items
      PROVE  /\ log'[i] \in Seq(Values) /\ Len(log'[i]) <= LogLimit /\ pumped'[i] <= Len(log'[i])
             /\ printed'[i] \in Seq(Values)
             /\ shown'[i] \o Unshown(i)' = printed'[i]
    <2>1. /\ log'[i] = IF Prints(vs, log, i) THEN Append(log[i], vs[i]) ELSE log[i]
          /\ printed'[i] = IF Prints(vs, log, i) THEN Append(printed[i], vs[i]) ELSE printed[i]
        BY <1>6 DEF Kept
    <2>2. /\ log[i] \in Seq(Values) /\ Len(log[i]) \in Nat /\ Len(log[i]) <= LogLimit
          /\ pumped[i] \in Nat /\ pumped[i] <= Len(log[i])
          /\ printed[i] \in Seq(Values) /\ shown[i] \in Seq(Values)
        BY <1>7, <1>8, LenProperties
    <2>3. shown[i] \o SubSeq(log[i], pumped[i] + 1, Len(log[i])) = printed[i]
        BY <1>1 DEF LinesKept, Unshown
    <2>4. CASE ~ Prints(vs, log, i)
        BY <2>1, <2>2, <2>3, <2>4, <1>6 DEF Unshown
    <2>5. CASE Prints(vs, log, i)
        <3>1. vs[i] \in Values /\ Len(log[i]) < LogLimit
            BY <2>5, <1>3 DEF Prints, Items
        <3> DEFINE v == vs[i]
                   l == log[i]
                   s == shown[i]
                   p == pumped[i]
        <3>2. /\ v \in Values /\ l \in Seq(Values) /\ s \in Seq(Values) /\ p \in Nat
              /\ p <= Len(l) /\ Len(l) < LogLimit /\ Len(l) \in Nat
            BY <2>2, <3>1
        <3>3. /\ log'[i] = Append(l, v) /\ printed'[i] = Append(printed[i], v)
              /\ printed[i] \in Seq(Values) /\ printed[i] = AllLines(s, l, p)
            BY <2>1, <2>2, <2>3, <2>5 DEF AllLines
        <3>4. shown'[i] \o Unshown(i)' = AllLines(s, Append(l, v), p)
            BY <3>3, <1>6 DEF Unshown, AllLines
        <3>5. pumped'[i] = p
            BY <1>6
        <3> HIDE DEF v, l, s, p
        <3>6. AllLines(s, Append(l, v), p) = Append(AllLines(s, l, p), v)
            BY <3>2, LineAdded
        <3>7. Append(l, v) \in Seq(Values) /\ Len(Append(l, v)) = Len(l) + 1
            BY <3>2, AppendProperties
        <3>8. Append(printed[i], v) \in Seq(Values)
            BY <3>2, <3>3, AppendProperties
        <3>9. Len(log'[i]) <= LogLimit /\ pumped'[i] <= Len(log'[i])
            BY <3>2, <3>3, <3>5, <3>7, <1>7
        <3> QED
            BY <3>3, <3>4, <3>6, <3>7, <3>8, <3>9
    <2> QED
        BY <2>4, <2>5
<1>10. TypeOK'
    <2>1. log' \in [Items -> Seq(Values)] /\ pumped' \in [Items -> Nat]
        <3>1. log' = [i \in Items |-> log'[i]]
            BY <1>6 DEF Kept
        <3> QED
            BY <3>1, <1>6, <1>7, <1>9
    <2>2. activity' \in Int
        BY <1>1, <1>3, <1>6 DEF TypeOK
    <2>3. /\ setting' \in [closure : BOOLEAN, careful : BOOLEAN]
          /\ shared' \in Int /\ closure' \in Int /\ pins' \in Int /\ panicked' \in BOOLEAN
        BY <1>1, <1>6 DEF TypeOK
    <2> QED
        BY <1>2, <1>5, <1>9, <2>1, <2>2, <2>3 DEF TypeOK
<1>11. HistoryOK'
    <2>1. accepted' \in Seq(Values)
        BY <1>1, <1>3, <1>6, ConcatProperties DEF HistoryOK
    <2>2. printed' \in [Items -> Seq(Values)]
        <3>1. printed' = [i \in Items |-> printed'[i]]
            BY <1>6 DEF Kept
        <3> QED
            BY <3>1, <1>9
    <2> QED
        BY <2>1, <2>2, <1>1, <1>6 DEF HistoryOK
<1>12. InUse'
    <2>1. ASSUME NEW b \in 1..used'
          PROVE  /\ batches'[b].read < Len(batches'[b].output)
                 /\ b # 1 => batches'[b].read < 0
        <3>1. CASE b = used + 1
            BY <3>1, <1>2, <1>3, <1>4, NewBatchOK
        <3>2. CASE b # used + 1
            <4>1. b \in 1..used /\ b \in 1..Len(batches')
                BY <3>2, <1>2, <1>5
            <4> QED
                BY <4>1, <3>2, <1>1, <1>2 DEF InUse
        <3> QED
            BY <3>1, <3>2
    <2> QED
        BY <2>1 DEF InUse
<1>13. BuffersHeld'
    BY <1>1, <1>6 DEF BuffersHeld, Closure, Careful
<1>14. LinesKept'
    BY <1>9 DEF LinesKept
<1>15. LastPumps'
    BY <1>2, <1>5, NewBatchOK DEF LastPumps
<1> QED
    BY <1>10, <1>11, <1>12, <1>13, <1>14, <1>15 DEF Always

LEMMA PanicAlways ==
    ASSUME Always, (Careful /\ ~Closure => FALSE), panicked' = TRUE,
           UNCHANGED <<setting, batches, used, activity, shared, closure, pins, logs, accepted, delivered>>
    PROVE  Always'
<1>1. TypeOK /\ HistoryOK /\ InUse /\ BuffersHeld /\ LinesKept /\ LastPumps
    BY DEF Always
<1>2. UNCHANGED <<log, pumped, printed, shown>>
    BY DEF logs
<1>3. TypeOK'
    BY <1>1, <1>2 DEF TypeOK
<1>4. HistoryOK' /\ InUse' /\ LastPumps'
    BY <1>1, <1>2 DEF HistoryOK, InUse, LastPumps
<1>5. BuffersHeld'
    BY <1>1 DEF BuffersHeld, Closure, Careful
<1>6. LinesKept'
    BY <1>1, <1>2 DEF LinesKept, Unshown
<1> QED
    BY <1>3, <1>4, <1>5, <1>6 DEF Always

LEMMA ReceiveAlways ==
    ASSUME Always, ~panicked, Receive
    PROVE  /\ Always'
           /\ Unread /\ activity' <= 0 => \A i \in Items : log'[i] = <<>>
<1>1. TypeOK /\ HistoryOK /\ InUse /\ BuffersHeld /\ LinesKept /\ LastPumps
    BY DEF Always
<1>2. /\ 1 \in 1..Len(batches) /\ First = batches[1]
      /\ At \in Nat /\ At < Len(First.output)
      /\ batches' \in Seq(Batch) /\ Len(batches') = Len(batches)
      /\ \A b \in 1..Len(batches') : batches'[b].read \in -1..Len(batches'[b].output)
      /\ At + 1 # Len(First.output) =>
            /\ used' = used
            /\ batches'[1] = [output |-> First.output, read |-> At + 1]
            /\ \A b \in 2..Len(batches) : batches'[b] = batches[b]
      /\ At + 1 = Len(First.output) =>
            /\ used >= 1 /\ used' = used - 1
            /\ \A b \in 1..(used - 1) : batches'[b] = batches[b + 1]
    BY <1>1, ReceivedBatches
<1>3. /\ used \in Nat /\ used <= Len(batches) /\ Len(batches) \in Nat
      /\ First.read \in Int /\ First.output \in Seq(Results) /\ Len(First.output) \in Nat
    BY <1>1, <1>2, BatchesOK
<1>4. used' \in 0..Len(batches')
    BY <1>2, <1>3
<1>5. /\ UNCHANGED <<setting, pins, panicked, accepted>>
      /\ delivered' = Append(delivered, First.output[At + 1])
      /\ activity' = IF Unread THEN activity - Len(First.output) ELSE activity
      /\ IF Unread THEN Reduced(TRUE, activity') ELSE UNCHANGED logs
      /\ \E free \in 0..1 : /\ shared' = shared - free /\ closure' = closure - free
                            /\ ~Closure => free = 0
    <2> DEFINE n == IF Unread THEN activity - Len(First.output) ELSE activity
               free == IF At + 1 = Len(First.output) /\ Closure THEN 1 ELSE 0
    <2>1. /\ activity' = n /\ (IF Unread THEN Reduced(TRUE, n) ELSE UNCHANGED logs)
          /\ shared' = shared - free /\ closure' = closure - free
          /\ delivered' = Append(delivered, First.output[At + 1])
          /\ UNCHANGED <<setting, pins, panicked, accepted>>
        BY DEF Receive
    <2>2. free \in 0..1 /\ (~Closure => free = 0)
        OBVIOUS
    <2> HIDE DEF free
    <2>3. \E x \in 0..1 : shared' = shared - x /\ closure' = closure - x /\ (~Closure => x = 0)
        BY <2>1, <2>2
    <2> QED
        BY <2>1, <2>3
<1>6. activity' \in Int /\ shared' \in Int /\ closure' \in Int
    BY <1>1, <1>3, <1>5 DEF TypeOK
<1>7. ASSUME Unread
      PROVE  /\ TypeOK' /\ LinesKept' /\ printed' = printed /\ shown' = printed
             /\ activity' <= 0 => \A i \in Items : log'[i] = <<>>
    <2>1. /\ log' \in [Items -> Seq(Values)] /\ \A i \in Items : Len(log'[i]) <= LogLimit
          /\ pumped' \in [Items -> Nat] /\ \A i \in Items : pumped'[i] <= Len(log'[i])
          /\ printed' = printed /\ shown' = printed
          /\ LinesKept'
          /\ activity' <= 0 => \A i \in Items : log'[i] = <<>>
        BY <1>1, <1>5, <1>6, <1>7, PumpedOrClear
    <2>2. TypeOK'
        BY <1>1, <1>2, <1>4, <1>5, <1>6, <2>1 DEF TypeOK
    <2> QED
        BY <2>1, <2>2
<1>8. ASSUME ~Unread
      PROVE  TypeOK' /\ LinesKept' /\ UNCHANGED <<log, pumped, printed, shown>>
    <2>1. UNCHANGED <<log, pumped, printed, shown>>
        BY <1>5, <1>8 DEF logs
    <2>2. TypeOK'
        BY <1>1, <1>2, <1>4, <1>5, <1>6, <2>1 DEF TypeOK
    <2>3. LinesKept'
        BY <1>1, <2>1 DEF LinesKept, Unshown
    <2> QED
        BY <2>1, <2>2, <2>3, <1>8
<1>9. HistoryOK'
    <2> DEFINE v == First.output[At + 1]
    <2>1. v \in Results
        <3>1. At + 1 \in 1..Len(First.output)
            BY <1>2, <1>3
        <3> QED
            BY <3>1, <1>3, ElementOfSeq
    <2>2. delivered' = Append(delivered, v)
        BY <1>5
    <2> HIDE DEF v
    <2>3. delivered' \in Seq(Results)
        BY <2>1, <2>2, <1>1, AppendProperties DEF HistoryOK
    <2>4. printed' = printed /\ (shown' = shown \/ shown' = printed)
        BY <1>7, <1>8
    <2> QED
        BY <2>3, <2>4, <1>1, <1>5 DEF HistoryOK
<1>10. InUse'
    <2>1. ASSUME NEW b \in 1..used'
          PROVE  /\ batches'[b].read < Len(batches'[b].output)
                 /\ b # 1 => batches'[b].read < 0
        <3>1. CASE At + 1 # Len(First.output)
            <4>1. CASE b = 1
                BY <4>1, <3>1, <1>2, <1>3
            <4>2. CASE b # 1
                <5>1. b \in 1..used /\ b \in 2..Len(batches)
                    BY <4>2, <3>1, <1>2, <1>3
                <5> QED
                    BY <5>1, <4>2, <3>1, <1>1, <1>2 DEF InUse
            <4> QED
                BY <4>1, <4>2
        <3>2. CASE At + 1 = Len(First.output)
            <4>1. b \in 1..(used - 1) /\ b + 1 \in 1..used /\ b + 1 # 1 /\ b + 1 \in 1..Len(batches)
                BY <3>2, <1>2, <1>3
            <4>2. batches'[b] = batches[b + 1]
                BY <4>1, <3>2, <1>2
            <4>3. batches[b + 1].read < 0 /\ batches[b + 1].read < Len(batches[b + 1].output)
                BY <4>1, <1>1 DEF InUse
            <4> QED
                BY <4>2, <4>3
        <3> QED
            BY <3>1, <3>2
    <2> QED
        BY <2>1 DEF InUse
<1>11. BuffersHeld'
    BY <1>1, <1>5 DEF BuffersHeld, Closure, Careful, TypeOK
<1>12. LastPumps'
    <2>1. CASE Unread
        BY <2>1, <1>7 DEF LastPumps
    <2>2. CASE ~Unread
        <3>1. SUFFICES ASSUME \E i \in Items : shown[i] # printed[i]
                       PROVE  used' > 0 /\ batches'[used'].read < 0
            BY <2>2, <1>8 DEF LastPumps
        <3>2. used > 0 /\ batches[used].read < 0
            BY <3>1, <1>1 DEF LastPumps
        <3>3. used # 1
            BY <2>2, <3>2, <1>2 DEF Unread
        <3>4. used \in 2..Len(batches) /\ used - 1 \in 1..(used - 1)
            BY <3>2, <3>3, <1>3
        <3>5. CASE At + 1 # Len(First.output)
            BY <3>2, <3>4, <3>5, <1>2
        <3>6. CASE At + 1 = Len(First.output)
            <4>1. batches'[used - 1] = batches[(used - 1) + 1] /\ used' = used - 1
                BY <3>4, <3>6, <1>2
            <4>2. (used - 1) + 1 = used /\ used - 1 > 0
                BY <3>4
            <4> QED
                BY <4>1, <4>2, <3>2
        <3> QED
            BY <3>5, <3>6
    <2> QED
        BY <2>1, <2>2
<1> QED
    BY <1>7, <1>8, <1>9, <1>10, <1>11, <1>12 DEF Always

LEMMA DrainAlways ==
    ASSUME Always, ~panicked, Drain
    PROVE  /\ Always'
           /\ activity' = activity - Len(Drained)
           /\ activity' <= 0 => \A i \in Items : log'[i] = <<>>
<1>1. TypeOK /\ HistoryOK /\ InUse /\ BuffersHeld /\ LinesKept /\ LastPumps
    BY DEF Always
<1>2. /\ batches' \in Seq(Batch) /\ Len(batches') = Len(batches) /\ used' = 0
      /\ \A b \in 1..Len(batches') : batches'[b].read \in -1..Len(batches'[b].output)
      /\ Drained \in Seq(Results) /\ Len(Drained) \in Nat
    BY <1>1, DrainedBatches
<1>3. /\ used \in Nat /\ Len(batches) \in Nat /\ used <= Len(batches)
      /\ \A b \in 1..Len(batches) : batches[b].read \in Int
    BY <1>1, BatchesOK
<1>4. PICK pump \in IF used > 0 THEN {batches[used].read < 0} ELSE BOOLEAN :
         activity' = activity - Len(Drained) /\ Reduced(pump, activity')
    BY DEF Drain
<1>5. pump \in BOOLEAN /\ (~pump /\ used > 0 => ~ (batches[used].read < 0))
    <2>1. CASE used > 0
        <3>1. pump = (batches[used].read < 0)
            BY <2>1, <1>4
        <3>2. (batches[used].read < 0) \in BOOLEAN
            BY <1>3, <2>1
        <3> QED
            BY <3>1, <3>2, Zenon
    <2>2. CASE ~ (used > 0)
        BY <2>2, <1>4
    <2> QED
        BY <2>1, <2>2
<1>6. ~pump => \A i \in Items : shown[i] = printed[i]
    BY <1>1, <1>5 DEF LastPumps
<1>7. activity' \in Int
    BY <1>1, <1>2, <1>4 DEF TypeOK
<1>8. /\ log' \in [Items -> Seq(Values)] /\ \A i \in Items : Len(log'[i]) <= LogLimit
      /\ pumped' \in [Items -> Nat] /\ \A i \in Items : pumped'[i] <= Len(log'[i])
      /\ printed' = printed /\ shown' = printed
      /\ LinesKept'
      /\ activity' <= 0 => \A i \in Items : log'[i] = <<>>
    BY <1>1, <1>4, <1>5, <1>6, <1>7, PumpedOrClear
<1>9. /\ UNCHANGED <<setting, shared, panicked, accepted>>
      /\ closure' = (IF Closure THEN closure - 1 ELSE closure) /\ pins' = pins - 1
      /\ delivered' = delivered \o Drained
    BY DEF Drain
<1>10. TypeOK'
    <2>1. closure' \in Int /\ pins' \in Int /\ shared' \in Int
        BY <1>1, <1>9 DEF TypeOK
    <2>2. used' \in 0..Len(batches')
        BY <1>2, <1>3
    <2> QED
        BY <2>1, <2>2, <1>1, <1>2, <1>7, <1>8, <1>9 DEF TypeOK
<1>11. HistoryOK'
    <2>1. delivered' \in Seq(Results)
        BY <1>1, <1>2, <1>9, ConcatProperties DEF HistoryOK
    <2> QED
        BY <2>1, <1>1, <1>8, <1>9 DEF HistoryOK
<1>12. InUse' /\ LastPumps'
    BY <1>2, <1>8 DEF InUse, LastPumps
<1>13. BuffersHeld'
    BY <1>1, <1>9 DEF BuffersHeld, Closure, Careful
<1> QED
    BY <1>4, <1>8, <1>10, <1>11, <1>12, <1>13 DEF Always

-----------------------------------------------------------------------------
(* What holds of a worker that is used with care: the order                *)

\* The places of the results left, with what is known of the numbers in it.
LEMMA PlacesOK ==
    ASSUME Always, NEW pos \in [1..(used + 1) -> 0..Len(accepted)], Placed(pos)
    PROVE  /\ Len(accepted) \in Nat /\ Len(delivered) \in Nat /\ activity \in Int
           /\ \A b \in 1..(used + 1) : pos[b] \in Nat /\ pos[b] <= Len(accepted)
           /\ \A b \in 1..used :
                 /\ b \in 1..Len(batches) /\ b \in 1..(used + 1) /\ b + 1 \in 1..(used + 1)
                 /\ Len(Rest(batches[b])) \in Nat
                 /\ pos[b + 1] = pos[b] + Len(Rest(batches[b]))
                 /\ \A i \in 1..Len(Rest(batches[b])) :
                       /\ Rest(batches[b])[i] = W!Result(accepted[pos[b] + i])
                       /\ pos[b] + i \in 1..Len(accepted)
           /\ 1 \in 1..(used + 1) /\ used + 1 \in 1..(used + 1)
<1>1. Len(accepted) \in Nat /\ Len(delivered) \in Nat /\ activity \in Int
    BY LenProperties DEF Always, TypeOK, HistoryOK
<1>2. TypeOK
    BY DEF Always
<1>3. used \in Nat /\ used <= Len(batches) /\ Len(batches) \in Nat
    BY <1>2, BatchesOK
<1>4. \A b \in 1..(used + 1) : pos[b] \in Nat /\ pos[b] <= Len(accepted)
    BY <1>1
<1>5. ASSUME NEW b \in 1..used
      PROVE  /\ b \in 1..Len(batches) /\ b \in 1..(used + 1) /\ b + 1 \in 1..(used + 1)
             /\ Len(Rest(batches[b])) \in Nat
             /\ pos[b + 1] = pos[b] + Len(Rest(batches[b]))
             /\ \A i \in 1..Len(Rest(batches[b])) :
                   /\ Rest(batches[b])[i] = W!Result(accepted[pos[b] + i])
                   /\ pos[b] + i \in 1..Len(accepted)
    <2>1. b \in 1..Len(batches) /\ b \in 1..(used + 1) /\ b + 1 \in 1..(used + 1)
        BY <1>3
    <2>2. Len(Rest(batches[b])) \in Nat
        <3>1. batches[b] \in Batch /\ batches[b].read <= Len(batches[b].output)
            BY <1>2, <2>1, BatchesOK
        <3>2. Rest(batches[b]) \in Seq(Results)
            BY <3>1, RestOfBatch
        <3> QED
            BY <3>2, LenProperties
    <2>3. /\ pos[b + 1] = pos[b] + Len(Rest(batches[b]))
          /\ \A i \in 1..Len(Rest(batches[b])) :
                Rest(batches[b])[i] = W!Result(accepted[pos[b] + i])
        BY DEF Placed
    <2> DEFINE p == pos[b]
               q == pos[b + 1]
               k == Len(Rest(batches[b]))
    <2>4. p \in Nat /\ q \in Nat /\ q <= Len(accepted) /\ k \in Nat /\ q = p + k
        BY <1>4, <2>1, <2>2, <2>3
    <2>5. \A i \in 1..k : p + i \in 1..Len(accepted)
        <3> HIDE DEF p, q, k
        <3> QED
            BY <1>1, <2>4
    <2> QED
        BY <2>1, <2>2, <2>3, <2>5
<1> QED
    BY <1>1, <1>3, <1>4, <1>5

LEMMA SendCareful ==
    ASSUME Always, InOrder, NEW vs \in Vectors, Send(vs)
    PROVE  InOrder' /\ LogsGoEarly'
<1>1. TypeOK
    BY DEF Always
<1>2. /\ batches' \in Seq(Batch) /\ Len(batches') \in Nat
      /\ used' = used + 1 /\ used' <= Len(batches')
      /\ batches'[used + 1] = NewBatch(vs)
      /\ \A b \in 1..Len(batches') : b # used + 1 =>
            b \in 1..Len(batches) /\ batches'[b] = batches[b]
      /\ used \in Nat
    BY <1>1, SentBatches, BatchesOK
<1>3. vs \in Seq(Values) /\ Len(vs) \in Nat
    BY VectorIsSeq
<1>4. accepted' = accepted \o vs /\ delivered' = delivered /\ activity' = activity + Len(vs)
    BY DEF Send
<1>5. PICK pos \in [1..(used + 1) -> 0..Len(accepted)] : Placed(pos)
    BY DEF InOrder
<1>6. /\ Len(accepted) \in Nat /\ Len(delivered) \in Nat /\ activity \in Int
      /\ \A b \in 1..(used + 1) : pos[b] \in Nat /\ pos[b] <= Len(accepted)
      /\ \A b \in 1..used :
            /\ b \in 1..Len(batches) /\ b \in 1..(used + 1) /\ b + 1 \in 1..(used + 1)
            /\ Len(Rest(batches[b])) \in Nat
            /\ pos[b + 1] = pos[b] + Len(Rest(batches[b]))
            /\ \A i \in 1..Len(Rest(batches[b])) :
                  /\ Rest(batches[b])[i] = W!Result(accepted[pos[b] + i])
                  /\ pos[b] + i \in 1..Len(accepted)
      /\ 1 \in 1..(used + 1) /\ used + 1 \in 1..(used + 1)
    BY <1>5, PlacesOK
<1> DEFINE m == Len(accepted)
           k == Len(vs)
           new == [b \in 1..(used + 2) |-> IF b <= used + 1 THEN pos[b] ELSE m + k]
<1>7. /\ Len(accepted') = m + k
      /\ \A i \in 1..m : accepted'[i] = accepted[i]
      /\ \A i \in 1..k : accepted'[m + i] = vs[i]
    <2>1. accepted \in Seq(Values)
        BY DEF Always, HistoryOK
    <2>2. /\ Len(accepted') = m + k
          /\ \A i \in 1..(m + k) : accepted'[i] = IF i <= m THEN accepted[i] ELSE vs[i - m]
        BY <2>1, <1>3, <1>4, ConcatProperties
    <2>3. \A i \in 1..k : m + i \in 1..(m + k) /\ ~ (m + i <= m) /\ (m + i) - m = i
        BY <1>3, <1>6
    <2>4. \A i \in 1..m : i \in 1..(m + k) /\ i <= m
        BY <1>3, <1>6
    <2> QED
        BY <2>2, <2>3, <2>4
<1>8. /\ \A b \in 1..(used + 1) : new[b] = pos[b] /\ b \in 1..(used' + 1)
      /\ new[used + 2] = m + k /\ used' + 1 = used + 2
      /\ DOMAIN new = 1..(used' + 1)
    BY <1>2
<1>9. m \in Nat /\ k \in Nat
    BY <1>3, <1>6
<1>10. new \in [1..(used' + 1) -> 0..Len(accepted')] /\ new \in [1..(used' + 1) -> Nat]
    <2>1. \A b \in 1..(used + 2) : (IF b <= used + 1 THEN pos[b] ELSE m + k) \in 0..(m + k)
        <3> TAKE b \in 1..(used + 2)
        <3>1. CASE b <= used + 1
            BY <3>1, <1>2, <1>6, <1>9
        <3>2. CASE ~ (b <= used + 1)
            BY <3>2, <1>9
        <3> QED
            BY <3>1, <3>2
    <2>2. 0..(m + k) \subseteq Nat
        BY <1>9
    <2> QED
        BY <1>7, <1>8, <2>1, <2>2
<1> HIDE DEF new, m, k
<1>11. pos[1] = Len(delivered) /\ pos[used + 1] = m
       /\ activity <= m - pos[IF used > 0 /\ batches[1].read >= 0 THEN 2 ELSE 1]
    BY <1>5 DEF Placed, m
<1>12. ASSUME NEW b \in 1..used'
       PROVE  /\ new[b + 1] = new[b] + Len(Rest(batches'[b]))
              /\ \A i \in 1..Len(Rest(batches'[b])) :
                    Rest(batches'[b])[i] = W!Result(accepted'[new[b] + i])
    <2>1. CASE b = used + 1
        <3> DEFINE r == Rest(batches'[b])
        <3>1. Len(r) = k /\ \A i \in 1..k : r[i] = W!Result(vs[i])
            <4> DEFINE nb == NewBatch(vs)
            <4>1. /\ nb \in Batch /\ nb.read = -1 /\ Len(nb.output) = k
                  /\ \A i \in 1..k : nb.output[i] = W!Result(vs[i])
                BY NewBatchOK DEF k
            <4>2. r = Rest(nb)
                BY <2>1, <1>2
            <4> HIDE DEF nb
            <4>3. nb.read <= Len(nb.output) /\ 0 = IF nb.read < 0 THEN 0 ELSE nb.read
                BY <4>1, <1>9
            <4>4. Len(Rest(nb)) = Len(nb.output) - 0 /\ \A i \in 1..Len(Rest(nb)) : Rest(nb)[i] = nb.output[0 + i]
                BY <4>1, <4>3, RestOfBatch
            <4> HIDE DEF r
            <4>5. Len(r) = k
                BY <4>1, <4>2, <4>4, <1>9
            <4> QED
                BY <4>1, <4>2, <4>4, <4>5, <1>9
        <3> HIDE DEF r
        <3>2. new[b] = m /\ new[b + 1] = m + k
            BY <2>1, <1>2, <1>6, <1>8, <1>11
        <3> QED
            BY <3>1, <3>2, <1>7 DEF r
    <2>2. CASE b # used + 1
        <3>1. b \in 1..used /\ b \in 1..Len(batches')
            BY <2>2, <1>2
        <3>2. batches'[b] = batches[b] /\ b \in 1..(used + 1) /\ b + 1 \in 1..(used + 1)
            BY <3>1, <2>2, <1>2
        <3>3. new[b] = pos[b] /\ new[b + 1] = pos[b + 1]
            BY <3>2, <1>8
        <3>4. \A i \in 1..Len(Rest(batches[b])) : accepted'[pos[b] + i] = accepted[pos[b] + i]
            BY <3>1, <1>6, <1>7 DEF m
        <3> QED
            BY <3>1, <3>2, <3>3, <3>4, <1>6, ZenonT(30)
    <2> QED
        BY <2>1, <2>2
<1>13. activity' <= (m + k) - new[IF used' > 0 /\ batches'[1].read >= 0 THEN 2 ELSE 1]
    <2>1. CASE used = 0
        <3>1. batches'[1].read = -1
            BY <2>1, <1>2, NewBatchOK
        <3>2. new[1] = pos[1] /\ pos[1] \in Nat
            BY <1>6, <1>8
        <3>3. activity <= m - pos[1]
            BY <2>1, <1>11
        <3>4. activity' = activity + k
            BY <1>4 DEF k
        <3> DEFINE p == pos[1]
        <3>5. activity + k <= (m + k) - p
            <4> HIDE DEF p
            <4>1. p \in Nat /\ activity <= m - p /\ activity \in Int
                BY <3>2, <3>3, <1>6 DEF p
            <4> QED
                BY <4>1, <1>9
        <3> QED
            BY <3>1, <3>2, <3>4, <3>5
    <2>2. CASE used # 0
        <3> DEFINE j == IF batches[1].read >= 0 THEN 2 ELSE 1
                   p == pos[j]
        <3>1. batches'[1] = batches[1] /\ used > 0 /\ used' > 0
            <4>1. 1 \in 1..Len(batches') /\ 1 # used + 1
                BY <2>2, <1>2
            <4> QED
                BY <4>1, <2>2, <1>2
        <3>2. j \in 1..(used + 1)
            BY <2>2, <1>2
        <3>3. new[j] = p /\ p \in Nat /\ activity <= m - p
            BY <3>1, <3>2, <1>6, <1>8, <1>11
        <3>4. activity' = activity + k /\ activity \in Int
            BY <1>4, <1>6 DEF k
        <3> HIDE DEF p
        <3>5. activity' <= (m + k) - p
            BY <3>3, <3>4, <1>9
        <3> QED
            BY <3>1, <3>3, <3>5
    <2> QED
        BY <2>1, <2>2
<1>14. \A i \in 1..Len(delivered) : i \in 1..m
    BY <1>6, <1>11, <1>9 DEF m
<1>15. InOrder'
    <2>1. new[1] = Len(delivered') /\ new[used' + 1] = Len(accepted')
        BY <1>4, <1>6, <1>7, <1>8, <1>11
    <2>2. PICK next : next = new
        OBVIOUS
    <2>3. Placed(next)' /\ next \in [1..(used' + 1) -> 0..Len(accepted')]
        BY <2>1, <2>2, <1>7, <1>10, <1>12, <1>13 DEF Placed
    <2>4. \A i \in 1..Len(delivered') : delivered'[i] = W!Result(accepted'[i])
        BY <1>4, <1>7, <1>14 DEF InOrder
    <2> QED
        BY <2>3, <2>4 DEF InOrder
<1>16. LogsGoEarly'
    <2>1. used + 1 \in 1..used' /\ ~ (batches'[used + 1].read >= 0)
        BY <1>2, NewBatchOK
    <2> QED
        BY <2>1 DEF LogsGoEarly
<1> QED
    BY <1>15, <1>16

LEMMA ReceiveCareful ==
    ASSUME Always, InOrder, LogsGoEarly, ~panicked, used > 0, Receive
    PROVE  /\ InOrder' /\ LogsGoEarly'
           /\ Len(delivered) + 1 <= Len(accepted)
           /\ delivered' = Append(delivered, W!Result(accepted[Len(delivered) + 1]))
<1>1. TypeOK /\ InUse /\ delivered \in Seq(Results)
    BY DEF Always, HistoryOK
<1> DEFINE o  == First.output
           at == At
<1>2. /\ 1 \in 1..Len(batches) /\ First = batches[1]
      /\ at \in Nat /\ at < Len(o)
      /\ Len(batches') = Len(batches)
      /\ at + 1 # Len(o) =>
            /\ used' = used
            /\ batches'[1] = [output |-> o, read |-> at + 1]
            /\ \A b \in 2..Len(batches) : batches'[b] = batches[b]
      /\ at + 1 = Len(o) =>
            /\ used >= 1 /\ used' = used - 1
            /\ \A b \in 1..(used - 1) : batches'[b] = batches[b + 1]
    BY <1>1, ReceivedBatches
<1>3. /\ used \in Nat /\ used <= Len(batches) /\ Len(batches) \in Nat
      /\ First \in Batch /\ First.read \in Int /\ First.read <= Len(o)
      /\ o \in Seq(Results) /\ Len(o) \in Nat
    BY <1>1, <1>2, BatchesOK
<1>4. at = IF First.read < 0 THEN 0 ELSE First.read
    BY DEF At, Unread
<1>5. /\ accepted' = accepted /\ delivered' = Append(delivered, o[at + 1])
      /\ activity' = IF Unread THEN activity - Len(o) ELSE activity
      /\ ~Unread => UNCHANGED log
    BY DEF Receive, logs
<1>6. Unread /\ activity' <= 0 => \A i \in Items : log'[i] = <<>>
    BY ReceiveAlways
<1>7. Unread <=> First.read < 0
    BY DEF Unread
<1>8. PICK pos \in [1..(used + 1) -> 0..Len(accepted)] : Placed(pos)
    BY DEF InOrder
<1>9. /\ Len(accepted) \in Nat /\ Len(delivered) \in Nat /\ activity \in Int
      /\ \A b \in 1..(used + 1) : pos[b] \in Nat /\ pos[b] <= Len(accepted)
      /\ \A b \in 1..used :
            /\ b \in 1..Len(batches) /\ b \in 1..(used + 1) /\ b + 1 \in 1..(used + 1)
            /\ Len(Rest(batches[b])) \in Nat
            /\ pos[b + 1] = pos[b] + Len(Rest(batches[b]))
            /\ \A i \in 1..Len(Rest(batches[b])) :
                  /\ Rest(batches[b])[i] = W!Result(accepted[pos[b] + i])
                  /\ pos[b] + i \in 1..Len(accepted)
      /\ 1 \in 1..(used + 1) /\ used + 1 \in 1..(used + 1)
    BY <1>8, PlacesOK
<1>10. /\ pos[1] = Len(delivered) /\ pos[used + 1] = Len(accepted)
       /\ activity <= Len(accepted) - pos[IF used > 0 /\ batches[1].read >= 0 THEN 2 ELSE 1]
    BY <1>8 DEF Placed
<1> HIDE DEF o, at
\* The batch that is read from begins behind the results handed out.
<1> DEFINE p == Len(delivered)
           q == pos[2]
           m == Len(accepted)
           k == Len(o) - at
<1>11. /\ k \in Nat \ {0} /\ p \in Nat /\ m \in Nat /\ q \in Nat /\ q = p + k /\ q <= m
       /\ \A i \in 1..k : o[at + i] = W!Result(accepted[p + i])
    <2>1. /\ Len(Rest(First)) = k
          /\ \A i \in 1..Len(Rest(First)) : Rest(First)[i] = o[at + i]
        BY <1>3, <1>4, RestOfBatch DEF o
    <2>2. 1 \in 1..used /\ 2 \in 1..(used + 1)
        BY <1>3
    <2>3. /\ pos[1 + 1] = pos[1] + Len(Rest(First))
          /\ \A i \in 1..Len(Rest(First)) : Rest(First)[i] = W!Result(accepted[pos[1] + i])
        BY <1>2, <1>9, <2>2
    <2>4. k \in Nat \ {0}
        BY <1>2, <1>3
    <2>5. q \in Nat /\ q <= m /\ p \in Nat /\ m \in Nat
        BY <1>9, <2>2
    <2>6. q = p + k
        BY <2>1, <2>3, <1>10
    <2>7. \A i \in 1..k : o[at + i] = W!Result(accepted[p + i])
        BY <2>1, <2>3, <1>10
    <2> QED
        BY <2>4, <2>5, <2>6, <2>7
<1>12. activity <= m - (IF Unread THEN p ELSE q)
    <2>1. CASE Unread
        <3>1. (IF used > 0 /\ batches[1].read >= 0 THEN 2 ELSE 1) = 1
            BY <2>1, <1>2, <1>3, <1>7
        <3> QED
            BY <2>1, <3>1, <1>10
    <2>2. CASE ~Unread
        <3>1. (IF used > 0 /\ batches[1].read >= 0 THEN 2 ELSE 1) = 2
            BY <2>2, <1>2, <1>3, <1>7
        <3> QED
            BY <2>2, <3>1, <1>10
    <2> QED
        BY <2>1, <2>2
<1>13. o[at + 1] = W!Result(accepted[p + 1]) /\ p + 1 <= m
    <2> HIDE DEF p, q, m, k
    <2> QED
        BY <1>11
<1>14. /\ Len(delivered') = p + 1
       /\ \A i \in 1..Len(delivered') : delivered'[i] = W!Result(accepted'[i])
    <2> DEFINE v == o[at + 1]
    <2>1. v \in Results
        <3>1. at + 1 \in 1..Len(o)
            BY <1>2, <1>3
        <3> QED
            BY <3>1, <1>3, ElementOfSeq
    <2>2. v = W!Result(accepted[p + 1]) /\ delivered' = Append(delivered, v)
        BY <1>5, <1>13
    <2> HIDE DEF v
    <2>3. /\ Len(delivered') = p + 1
          /\ \A i \in 1..p : delivered'[i] = delivered[i]
          /\ delivered'[p + 1] = v
        BY <1>1, <2>1, <2>2, AppendProperties
    <2>4. \A i \in 1..p : delivered[i] = W!Result(accepted[i])
        BY DEF InOrder
    <2> HIDE DEF p, m, q, k
    <2>5. \A i \in 1..(p + 1) : i \in 1..p \/ i = p + 1
        BY <1>11
    <2> QED
        BY <2>2, <2>3, <2>4, <2>5, <1>5
\* The batch has results left.
<1>15. ASSUME at + 1 # Len(o) PROVE InOrder' /\ LogsGoEarly'
    <2> DEFINE g == [output |-> o, read |-> at + 1]
    <2>1. /\ used' = used /\ batches'[1] = g
          /\ \A b \in 2..Len(batches) : batches'[b] = batches[b]
        BY <1>2, <1>15
    <2>2. /\ Len(Rest(g)) = k - 1
          /\ \A i \in 1..(k - 1) : Rest(g)[i] = W!Result(accepted[(p + 1) + i])
        <3>1. g \in Batch /\ g.output = o /\ g.read = at + 1 /\ g.read <= Len(o)
            BY <1>2, <1>3 DEF Batch
        <3>2. at + 1 = IF g.read < 0 THEN 0 ELSE g.read
            BY <3>1, <1>2
        <3> HIDE DEF g
        <3>3. /\ Len(Rest(g)) = Len(g.output) - (at + 1)
              /\ \A i \in 1..Len(Rest(g)) : Rest(g)[i] = g.output[(at + 1) + i]
            BY <3>1, <3>2, RestOfBatch
        <3>4. Len(Rest(g)) = k - 1
            BY <3>1, <3>3, <1>2, <1>3
        <3>5. ASSUME NEW i \in 1..(k - 1) PROVE Rest(g)[i] = W!Result(accepted[(p + 1) + i])
            <4>1. Rest(g)[i] = o[(at + 1) + i]
                BY <3>1, <3>3, <3>4
            <4> HIDE DEF k, p
            <4>2. 1 + i \in 1..k /\ (at + 1) + i = at + (1 + i) /\ (p + 1) + i = p + (1 + i)
                BY <1>2, <1>11
            <4> QED
                BY <4>1, <4>2, <1>11
        <3> QED
            BY <3>4, <3>5
    <2>3. PICK next : next = [pos EXCEPT ![1] = p + 1]
        OBVIOUS
    <2>4. /\ next \in [1..(used' + 1) -> 0..m] /\ next \in [1..(used' + 1) -> Nat]
          /\ next[1] = p + 1 /\ \A b \in 2..(used' + 1) : next[b] = pos[b]
        <3>1. p + 1 \in 0..m
            <4> HIDE DEF p, m
            <4> QED
                BY <1>11, <1>13
        <3>2. 0..m \subseteq Nat /\ used' + 1 = used + 1
            BY <2>1, <1>11
        <3>3. next \in [1..(used + 1) -> 0..m]
            BY <2>3, <3>1
        <3>4. next[1] = p + 1 /\ \A b \in 2..(used + 1) : next[b] = pos[b]
            BY <2>3, <1>3
        <3> QED
            BY <3>2, <3>3, <3>4
    <2>5. next[used' + 1] = m
        BY <2>1, <2>4, <1>3, <1>10
    <2>6. ASSUME NEW b \in 1..used'
          PROVE  /\ next[b + 1] = next[b] + Len(Rest(batches'[b]))
                 /\ \A i \in 1..Len(Rest(batches'[b])) :
                       Rest(batches'[b])[i] = W!Result(accepted'[next[b] + i])
        <3>1. CASE b = 1
            <4>1. next[b + 1] = q /\ next[b] = p + 1
                BY <3>1, <2>1, <2>4, <1>3
            <4>2. Len(Rest(batches'[b])) = k - 1
                BY <3>1, <2>1, <2>2
            <4>3. \A i \in 1..Len(Rest(batches'[b])) :
                       Rest(batches'[b])[i] = W!Result(accepted'[next[b] + i])
                BY <3>1, <4>1, <4>2, <2>1, <2>2, <1>5
            <4> HIDE DEF q, p, k
            <4>4. q = (p + 1) + (k - 1)
                BY <1>11
            <4> QED
                BY <4>1, <4>2, <4>3, <4>4
        <3>2. CASE b # 1
            <4>1. b \in 2..(used' + 1) /\ b + 1 \in 2..(used' + 1) /\ b \in 2..Len(batches) /\ b \in 1..used
                BY <3>2, <2>1, <1>3
            <4>2. next[b] = pos[b] /\ next[b + 1] = pos[b + 1] /\ batches'[b] = batches[b]
                BY <4>1, <2>1, <2>4
            <4> QED
                BY <4>1, <4>2, <1>5, <1>9
        <3> QED
            BY <3>1, <3>2
    <2>7. activity' <= m - q
        <3> DEFINE l == Len(o)
        <3>1. activity' = (IF Unread THEN activity - l ELSE activity) /\ l \in Nat /\ k = l - at
            BY <1>3, <1>5
        <3>2. Unread => at = 0
            BY <1>4, <1>7
        <3> HIDE DEF m, p, q, k, l
        <3> QED
            BY <3>1, <3>2, <1>9, <1>11, <1>12, SMTT(30)
    <2>8. (IF used' > 0 /\ batches'[1].read >= 0 THEN 2 ELSE 1) = 2
        BY <2>1, <1>2
    <2>9. next[2] = q
        BY <2>1, <2>4, <1>3
    <2>10. Placed(next)'
        BY <2>4, <2>5, <2>6, <2>7, <2>8, <2>9, <1>5, <1>14 DEF Placed
    <2>11. InOrder'
        BY <2>4, <2>10, <1>5, <1>14 DEF InOrder
    <2>12. LogsGoEarly'
        <3>1. SUFFICES ASSUME \A b \in 1..used' : batches'[b].read >= 0
                       PROVE  \A i \in Items : log'[i] = <<>>
            BY DEF LogsGoEarly
        <3>2. used = 1
            <4>1. SUFFICES ASSUME used # 1 PROVE FALSE
                OBVIOUS
            <4>2. 2 \in 1..used /\ 2 \in 2..Len(batches) /\ 2 \in 1..used'
                BY <4>1, <2>1, <1>3
            <4>3. batches'[2] = batches[2] /\ batches[2].read < 0 /\ batches[2].read \in Int
                BY <4>2, <2>1, <1>1, BatchesOK DEF InUse
            <4> QED
                BY <4>2, <4>3, <3>1
        <3>3. CASE Unread
            <4>1. q = m
                BY <3>2, <1>10
            <4>2. activity' <= 0
                <5> HIDE DEF q, m
                <5> QED
                    BY <4>1, <2>7, <1>11
            <4> QED
                BY <3>3, <4>2, <1>6
        <3>4. CASE ~Unread
            <4>1. \A b \in 1..used : batches[b].read >= 0
                BY <3>2, <3>4, <1>2, <1>3, <1>7
            <4> QED
                BY <3>4, <4>1, <1>5 DEF LogsGoEarly
        <3> QED
            BY <3>3, <3>4
    <2> QED
        BY <2>11, <2>12
\* The batch was read to its end, and the others move down.
<1>16. ASSUME at + 1 = Len(o) PROVE InOrder' /\ LogsGoEarly'
    <2>1. /\ used' = used - 1 /\ used >= 1
          /\ \A b \in 1..(used - 1) : batches'[b] = batches[b + 1]
        BY <1>2, <1>16
    <2>2. k = 1 /\ q = p + 1
        <3>1. k = 1
            BY <1>2, <1>3, <1>16
        <3> QED
            BY <3>1, <1>11
    <2>3. PICK next : next = [b \in 1..used |-> pos[b + 1]]
        OBVIOUS
    <2>4. /\ used' + 1 = used /\ next \in [1..(used' + 1) -> 0..m] /\ next \in [1..(used' + 1) -> Nat]
          /\ \A b \in 1..(used' + 1) : next[b] = pos[b + 1]
        <3>1. used' + 1 = used /\ \A b \in 1..used : b + 1 \in 1..(used + 1)
            BY <2>1, <1>3
        <3>2. 0..m \subseteq Nat
            BY <1>11
        <3> QED
            BY <2>3, <3>1, <3>2
    <2>5. next[1] = p + 1 /\ next[used' + 1] = m
        BY <2>1, <2>2, <2>4, <1>3, <1>10, SMTT(30)
    <2>6. ASSUME NEW b \in 1..used'
          PROVE  /\ next[b + 1] = next[b] + Len(Rest(batches'[b]))
                 /\ \A i \in 1..Len(Rest(batches'[b])) :
                       Rest(batches'[b])[i] = W!Result(accepted'[next[b] + i])
        <3>1. b \in 1..(used - 1) /\ b \in 1..(used' + 1) /\ b + 1 \in 1..(used' + 1) /\ b + 1 \in 1..used
            BY <2>1, <1>3
        <3>2. next[b] = pos[b + 1] /\ next[b + 1] = pos[(b + 1) + 1] /\ batches'[b] = batches[b + 1]
            BY <3>1, <2>1, <2>4
        <3> QED
            BY <3>1, <3>2, <1>5, <1>9
    <2>7. used' > 0 => batches'[1].read < 0 /\ batches'[1].read \in Int
        <3>1. SUFFICES ASSUME used' > 0 PROVE batches'[1].read < 0 /\ batches'[1].read \in Int
            OBVIOUS
        <3>2. 1 \in 1..(used - 1) /\ 2 \in 1..used /\ 2 \in 1..Len(batches)
            BY <3>1, <2>1, <1>3
        <3>3. batches'[1] = batches[1 + 1]
            BY <3>2, <2>1
        <3> QED
            BY <3>2, <3>3, <1>1, BatchesOK DEF InUse
    <2>8. (IF used' > 0 /\ batches'[1].read >= 0 THEN 2 ELSE 1) = 1
        BY <2>7
    <2>9. activity' <= m - (p + 1)
        <3> DEFINE l == Len(o)
        <3>1. activity' = (IF Unread THEN activity - l ELSE activity) /\ l \in Nat /\ l >= 1
            BY <1>2, <1>3, <1>5
        <3> HIDE DEF m, p, q, k, l
        <3> QED
            BY <3>1, <2>2, <1>9, <1>11, <1>12
    <2>10. Placed(next)'
        BY <2>4, <2>5, <2>6, <2>8, <2>9, <1>5, <1>14 DEF Placed
    <2>11. InOrder'
        BY <2>4, <2>10, <1>5, <1>14 DEF InOrder
    <2>12. LogsGoEarly'
        <3>1. SUFFICES ASSUME \A b \in 1..used' : batches'[b].read >= 0
                       PROVE  \A i \in Items : log'[i] = <<>>
            BY DEF LogsGoEarly
        <3>2. used = 1
            <4>1. SUFFICES ASSUME used # 1 PROVE FALSE
                OBVIOUS
            <4>2. 1 \in 1..used' /\ used' > 0
                BY <4>1, <2>1, <1>3
            <4> QED
                BY <4>2, <3>1, <2>7
        <3>3. CASE Unread
            <4>1. q = m
                BY <3>2, <1>10
            <4>2. activity' <= 0
                <5> HIDE DEF q, m, p
                <5>1. activity' \in Int
                    BY <1>3, <1>5, <1>9
                <5> QED
                    BY <4>1, <5>1, <2>2, <2>9, <1>11
            <4> QED
                BY <3>3, <4>2, <1>6
        <3>4. CASE ~Unread
            <4>1. \A b \in 1..used : batches[b].read >= 0
                BY <3>2, <3>4, <1>2, <1>3, <1>7
            <4> QED
                BY <3>4, <4>1, <1>5 DEF LogsGoEarly
        <3> QED
            BY <3>3, <3>4
    <2> QED
        BY <2>11, <2>12
<1> QED
    BY <1>5, <1>13, <1>15, <1>16

\* What a drain hands out are all results left, in order.
LEMMA DrainCareful ==
    ASSUME Always, InOrder, ~panicked, used > 0, Drain
    PROVE  /\ InOrder' /\ LogsGoEarly'
           /\ Drained \in Seq(Results) /\ Len(Drained) = Len(accepted) - Len(delivered)
           /\ \A i \in 1..Len(Drained) : Drained[i] = W!Result(accepted[Len(delivered) + i])
<1>1. TypeOK /\ delivered \in Seq(Results)
    BY DEF Always, HistoryOK
<1>2. PICK pos \in [1..(used + 1) -> 0..Len(accepted)] : Placed(pos)
    BY DEF InOrder
<1> DEFINE p == Len(delivered)
           m == Len(accepted)
           n == used
           h == [i \in 1..m |-> W!Result(accepted[i])]
           s == [b \in 1..n |-> Rest(batches[b])]
<1>3. /\ m \in Nat /\ p \in Nat /\ activity \in Int
      /\ \A b \in 1..(n + 1) : pos[b] \in Nat /\ pos[b] <= m
      /\ \A b \in 1..n :
            /\ b \in 1..Len(batches) /\ b \in 1..(n + 1) /\ b + 1 \in 1..(n + 1)
            /\ Len(Rest(batches[b])) \in Nat
            /\ pos[b + 1] = pos[b] + Len(Rest(batches[b]))
            /\ \A i \in 1..Len(Rest(batches[b])) :
                  /\ Rest(batches[b])[i] = W!Result(accepted[pos[b] + i])
                  /\ pos[b] + i \in 1..m
      /\ 1 \in 1..(n + 1) /\ n + 1 \in 1..(n + 1)
    BY <1>2, PlacesOK
<1>4. /\ pos[1] = p /\ pos[n + 1] = m
      /\ activity <= m - pos[IF used > 0 /\ batches[1].read >= 0 THEN 2 ELSE 1]
    BY <1>2 DEF Placed
<1>5. n \in Nat
    BY <1>1, BatchesOK
<1>6. s \in [1..n -> Seq(Results)]
    <2>1. ASSUME NEW b \in 1..n PROVE Rest(batches[b]) \in Seq(Results)
        <3>1. batches[b] \in Batch /\ batches[b].read <= Len(batches[b].output)
            BY <1>1, <1>3, BatchesOK
        <3> QED
            BY <3>1, RestOfBatch
    <2> QED
        BY <2>1
<1>7. \A b \in 1..n : pos[b + 1] = pos[b] + Len(s[b]) /\ PlacedAt(s[b], h, pos[b])
    <2> TAKE b \in 1..n
    <2>1. s[b] = Rest(batches[b])
        OBVIOUS
    <2>2. \A i \in 1..m : h[i] = W!Result(accepted[i])
        OBVIOUS
    <2> HIDE DEF s, h, m
    <2> QED
        BY <2>1, <2>2, <1>3 DEF PlacedAt
<1>8. Drained = FlattenSeq(s)
    BY DEF Drained
<1>9. pos \in [1..(n + 1) -> Nat]
    BY <1>3
<1>10. \A i \in 1..m : h[i] = W!Result(accepted[i])
    OBVIOUS
<1> DEFINE d == Drained
<1> HIDE DEF s, h, n, m, p, d
<1>11. d \in Seq(Results) /\ Len(d) = pos[n + 1] - pos[1] /\ PlacedAt(d, h, pos[1])
    <2> DEFINE f == FlattenSeq(s)
    <2>1. f \in Seq(Results) /\ Len(f) = pos[n + 1] - pos[1] /\ PlacedAt(f, h, pos[1])
        BY <1>5, <1>6, <1>7, <1>9, FlattenPlaced
    <2>2. d = f
        BY <1>8 DEF d
    <2> HIDE DEF f
    <2> QED
        BY <2>1, <2>2
<1>12. d \in Seq(Results) /\ Len(d) = m - p /\ PlacedAt(d, h, p) /\ p <= m
    <2>1. pos[1] \in Nat /\ pos[1] <= m
        BY <1>3
    <2> QED
        BY <2>1, <1>4, <1>11
<1>13. \A i \in 1..Len(d) : d[i] = W!Result(accepted[p + i])
    <2> TAKE i \in 1..Len(d)
    <2>1. d[i] = h[p + i] /\ p + i \in 1..m
        BY <1>3, <1>12 DEF PlacedAt
    <2> QED
        BY <2>1, <1>10
<1>14. /\ delivered' = delivered \o d /\ accepted' = accepted /\ used' = 0
       /\ activity' = activity - Len(d)
    BY DrainAlways DEF Drain, d
<1>15. activity' <= 0
    <2> DEFINE j == IF used > 0 /\ batches[1].read >= 0 THEN 2 ELSE 1
               a == pos[j]
    <2>1. a \in Nat /\ p <= a
        <3>1. CASE used > 0 /\ batches[1].read >= 0
            <4>1. 1 \in 1..n
                BY <1>5 DEF n
            <4> DEFINE k == Len(Rest(batches[1]))
                       b == pos[2]
            <4>2. b = pos[1] + k /\ k \in Nat /\ b \in Nat
                BY <4>1, <1>3
            <4>3. a = b
                BY <3>1
            <4> HIDE DEF k, b, a
            <4> QED
                BY <4>2, <4>3, <1>3, <1>4
        <3>2. CASE ~ (used > 0 /\ batches[1].read >= 0)
            <4>1. a = p
                BY <3>2, <1>4
            <4> HIDE DEF a
            <4> QED
                BY <4>1, <1>3
        <3> QED
            BY <3>1, <3>2
    <2>2. activity <= m - a
        BY <1>4
    <2> HIDE DEF a
    <2> QED
        BY <2>1, <2>2, <1>3, <1>12, <1>14
<1>16. /\ Len(delivered') = m
       /\ \A i \in 1..Len(delivered') : delivered'[i] = W!Result(accepted'[i])
    <2>1. /\ Len(delivered \o d) = Len(delivered) + Len(d)
          /\ \A i \in 1..(Len(delivered) + Len(d)) :
                (delivered \o d)[i] = IF i <= Len(delivered) THEN delivered[i]
                                      ELSE d[i - Len(delivered)]
        BY <1>1, <1>12, ConcatProperties
    <2>2. Len(delivered') = m
        BY <2>1, <1>3, <1>12, <1>14 DEF p
    <2>3. ASSUME NEW i \in 1..m PROVE delivered'[i] = W!Result(accepted[i])
        <3>1. delivered'[i] = IF i <= p THEN delivered[i] ELSE d[i - p]
            <4>1. i \in 1..(p + Len(d))
                BY <1>3, <1>12
            <4> QED
                BY <4>1, <2>1, <1>14 DEF p
        <3>2. CASE i <= p
            <4>1. i \in 1..p
                BY <3>2, <1>3
            <4> QED
                BY <3>1, <3>2, <4>1 DEF InOrder, p
        <3>3. CASE ~ (i <= p)
            <4>1. i - p \in 1..Len(d) /\ p + (i - p) = i
                BY <3>3, <1>3, <1>12
            <4> QED
                BY <3>1, <3>3, <4>1, <1>13
        <3> QED
            BY <3>2, <3>3
    <2> QED
        BY <2>2, <2>3, <1>14
<1>17. InOrder'
    <2>1. PICK next : next = [b \in 1..1 |-> Len(accepted)]
        OBVIOUS
    <2>2. next[1] = Len(accepted)
        BY <2>1
    <2>3. next \in [1..1 -> 0..Len(accepted)] /\ next \in [1..1 -> Nat]
        BY <2>1, <1>3 DEF m
    <2>4. used' + 1 = 1
        BY <1>14
    <2>5. (IF used' > 0 /\ batches'[1].read >= 0 THEN 2 ELSE 1) = 1
        BY <1>14
    <2>6. activity' <= Len(accepted) - next[1]
        <3>1. Len(accepted) - next[1] = 0
            BY <2>2, <1>3 DEF m
        <3> QED
            BY <3>1, <1>15
    <2>7. 1..used' = {}
        BY <1>14
    <2>8. Placed(next)'
        BY <2>2, <2>3, <2>4, <2>5, <2>6, <2>7, <1>14, <1>16 DEF Placed, m
    <2> QED
        BY <2>3, <2>4, <2>8, <1>14, <1>16 DEF InOrder
<1>18. LogsGoEarly'
    BY <1>15, DrainAlways DEF LogsGoEarly
<1> QED
    BY <1>12, <1>13, <1>17, <1>18 DEF d, m, p

-----------------------------------------------------------------------------
(* The invariant                                                           *)

LEMMA InitEstablishes == Init => IInv
<1> SUFFICES ASSUME Init PROVE IInv
    OBVIOUS
<1>1. /\ setting \in [closure : BOOLEAN, careful : BOOLEAN]
      /\ batches = <<>> /\ used = 0 /\ activity = 0 /\ shared = 1 /\ pins = 0
      /\ closure = (IF Closure THEN 1 ELSE 0) /\ panicked = FALSE
      /\ log = [i \in Items |-> <<>>] /\ pumped = [i \in Items |-> 0]
      /\ accepted = <<>> /\ delivered = <<>>
      /\ printed = [i \in Items |-> <<>>] /\ shown = [i \in Items |-> <<>>]
    BY DEF Init
<1>2. Len(batches) = 0 /\ batches \in Seq(Batch) /\ Len(accepted) = 0 /\ Len(delivered) = 0
    BY <1>1, EmptySeq
<1>3. 1..used = {} /\ 1..Len(batches) = {} /\ 1..Len(delivered) = {} /\ used + 1 = 1
    BY <1>1, <1>2
<1>4. \A i \in Items : /\ log[i] = <<>> /\ Len(log[i]) = 0 /\ pumped[i] = 0
                       /\ printed[i] = <<>> /\ shown[i] = <<>>
    BY <1>1
<1>5. TypeOK
    <2>1. /\ used \in 0..Len(batches) /\ closure \in Int
          /\ activity \in Int /\ shared \in Int /\ pins \in Int /\ panicked \in BOOLEAN
        <3>1. closure = 1 \/ closure = 0
            BY <1>1
        <3>2. activity = 0 /\ shared = 1 /\ pins = 0
            BY <1>1
        <3>3. panicked \in BOOLEAN
            BY <1>1
        <3>4. used \in 0..Len(batches)
            BY <1>1, <1>2
        <3> QED
            BY <3>1, <3>2, <3>3, <3>4
    <2>2. log \in [Items -> Seq(Values)] /\ pumped \in [Items -> Nat]
        BY <1>1, EmptySeq
    <2>3. \A i \in Items : Len(log[i]) <= LogLimit /\ pumped[i] <= Len(log[i])
        BY <1>4, ClWorkerAssumption
    <2> QED
        BY <2>1, <2>2, <2>3, <1>1, <1>2, <1>3 DEF TypeOK
<1>6. HistoryOK
    BY <1>1, EmptySeq DEF HistoryOK
<1>7. LinesKept
    <2>1. \A i \in Items : shown[i] \o Unshown(i) = printed[i]
        <3> TAKE i \in Items
        <3>1. Unshown(i) = SubSeq(<<>>, 1, 0)
            BY <1>4 DEF Unshown
        <3>2. SubSeq(<<>>, 1, 0) = <<>>
            OBVIOUS
        <3>3. <<>> \o <<>> = <<>>
            OBVIOUS
        <3> QED
            BY <3>1, <3>2, <3>3, <1>4
    <2> QED
        BY <2>1 DEF LinesKept
<1>8. Always
    BY <1>1, <1>3, <1>4, <1>5, <1>6, <1>7 DEF Always, InUse, BuffersHeld, LastPumps
<1>9. InOrder
    <2>1. PICK pos : pos = [b \in 1..1 |-> 0]
        OBVIOUS
    <2>2. pos \in [1..1 -> 0..0] /\ pos \in [1..1 -> Nat] /\ pos[1] = 0
        BY <2>1
    <2>3. (IF used > 0 /\ batches[1].read >= 0 THEN 2 ELSE 1) = 1
        BY <1>1
    <2>4. activity <= Len(accepted) - pos[1]
        BY <2>2, <1>1, <1>2
    <2>5. Placed(pos)
        BY <2>2, <2>3, <2>4, <1>2, <1>3 DEF Placed
    <2> QED
        BY <2>2, <2>5, <1>2, <1>3 DEF InOrder
<1> QED
    BY <1>3, <1>4, <1>8, <1>9 DEF IInv, LogsGoEarly, NoneEmpty

LEMMA SendKeeps ==
    ASSUME IInv, ~panicked, NEW vs \in Vectors, Careful => vs # <<>>, Send(vs)
    PROVE  IInv'
<1>1. Always /\ Always'
    BY SendAlways DEF IInv
<1>2. Careful' = Careful
    BY DEF Send, Careful
<1>3. ASSUME Careful PROVE InOrder' /\ LogsGoEarly'
    BY <1>3, <1>1, SendCareful DEF IInv
<1>4. ASSUME Careful PROVE NoneEmpty'
    <2>1. /\ used' = used + 1 /\ used' <= Len(batches') /\ Len(batches') \in Nat /\ used \in Nat
          /\ batches'[used + 1] = NewBatch(vs)
          /\ \A b \in 1..Len(batches') : b # used + 1 => batches'[b] = batches[b]
        BY <1>1, SentBatches, BatchesOK DEF Always
    <2>2. Len(NewBatch(vs).output) > 0
        <3>1. vs \in Seq(Values) /\ vs # <<>> /\ Len(vs) \in Nat
            BY <1>4, VectorIsSeq
        <3>2. Len(vs) # 0
            BY <3>1, EmptySeq
        <3> QED
            BY <3>1, <3>2, NewBatchOK
    <2>3. ASSUME NEW b \in 1..used' PROVE Len(batches'[b].output) > 0
        <3>1. CASE b = used + 1
            BY <3>1, <2>1, <2>2
        <3>2. CASE b # used + 1
            <4>1. b \in 1..used /\ b \in 1..Len(batches')
                BY <3>2, <2>1
            <4> QED
                BY <4>1, <3>2, <2>1, <1>4 DEF IInv, NoneEmpty
        <3> QED
            BY <3>1, <3>2
    <2> QED
        BY <2>3 DEF NoneEmpty
<1> QED
    BY <1>1, <1>2, <1>3, <1>4 DEF IInv

LEMMA ReceiveKeeps ==
    ASSUME IInv, ~panicked, Receive
    PROVE  IInv'
<1>1. Always /\ Always'
    BY ReceiveAlways DEF IInv
<1>2. Careful' = Careful /\ (Careful => used > 0)
    BY DEF Receive, Careful
<1>3. ASSUME Careful PROVE InOrder' /\ LogsGoEarly'
    BY <1>1, <1>2, <1>3, ReceiveCareful DEF IInv
<1>4. ASSUME Careful PROVE NoneEmpty'
    <2>1. /\ 1 \in 1..Len(batches) /\ First = batches[1]
          /\ At + 1 # Len(First.output) =>
                /\ used' = used
                /\ batches'[1] = [output |-> First.output, read |-> At + 1]
                /\ \A b \in 2..Len(batches) : batches'[b] = batches[b]
          /\ At + 1 = Len(First.output) =>
                /\ used >= 1 /\ used' = used - 1
                /\ \A b \in 1..(used - 1) : batches'[b] = batches[b + 1]
        BY <1>1, ReceivedBatches DEF Always
    <2>2. used \in Nat /\ used <= Len(batches) /\ Len(batches) \in Nat
        BY <1>1, BatchesOK DEF Always
    <2>3. \A b \in 1..used : Len(batches[b].output) > 0
        BY <1>4 DEF IInv, NoneEmpty
    <2>4. ASSUME NEW b \in 1..used' PROVE Len(batches'[b].output) > 0
        <3>1. CASE At + 1 # Len(First.output)
            <4>1. CASE b = 1
                <5>1. 1 \in 1..used /\ batches'[1].output = batches[1].output
                    BY <4>1, <3>1, <2>1
                <5> QED
                    BY <5>1, <4>1, <2>3
            <4>2. CASE b # 1
                <5>1. b \in 1..used /\ b \in 2..Len(batches)
                    BY <4>2, <3>1, <2>1, <2>2
                <5> QED
                    BY <5>1, <3>1, <2>1, <2>3
            <4> QED
                BY <4>1, <4>2
        <3>2. CASE At + 1 = Len(First.output)
            <4>1. b \in 1..(used - 1) /\ b + 1 \in 1..used
                BY <3>2, <2>1, <2>2
            <4> QED
                BY <4>1, <3>2, <2>1, <2>3
        <3> QED
            BY <3>1, <3>2
    <2> QED
        BY <2>4 DEF NoneEmpty
<1> QED
    BY <1>1, <1>2, <1>3, <1>4 DEF IInv

LEMMA DrainKeeps ==
    ASSUME IInv, ~panicked, Drain
    PROVE  IInv'
<1>1. Always /\ Always'
    BY DrainAlways DEF IInv
<1>2. Careful' = Careful /\ (Careful => used > 0) /\ used' = 0
    BY DEF Drain, Careful
<1>3. ASSUME Careful PROVE InOrder' /\ LogsGoEarly'
    BY <1>1, <1>2, <1>3, DrainCareful DEF IInv
<1>4. NoneEmpty'
    BY <1>2 DEF NoneEmpty
<1> QED
    BY <1>1, <1>2, <1>3, <1>4 DEF IInv

\* A panic changes nothing else.
LEMMA PanicKeeps ==
    ASSUME IInv, (Careful /\ ~Closure => FALSE), panicked' = TRUE,
           UNCHANGED <<setting, batches, used, activity, shared, closure, pins, logs, accepted, delivered>>
    PROVE  IInv'
<1>1. Always'
    BY PanicAlways DEF IInv
<1>2. UNCHANGED <<log, pumped, printed, shown>>
    BY DEF logs
<1>3. InOrder' = InOrder /\ LogsGoEarly' = LogsGoEarly /\ NoneEmpty' = NoneEmpty
    BY <1>2 DEF InOrder, Placed, LogsGoEarly, NoneEmpty
<1> QED
    BY <1>1, <1>3 DEF IInv, Careful

\* With care, and no closure, there is always a buffer to send and a result to
\* receive.
LEMMA NoCareNoPanic ==
    ASSUME IInv, Careful, ~Closure
    PROVE  /\ \A vs \in Vectors : vs # <<>> => ~SendPanic(vs)
           /\ ~ReceivePanic
<1>1. TypeOK /\ InUse /\ BuffersHeld /\ NoneEmpty
    BY DEF IInv, Always
<1>2. \A vs \in Vectors : vs # <<>> => ~SendPanic(vs)
    BY <1>1 DEF SendPanic, Refused, BuffersHeld
<1>3. ASSUME ReceivePanic PROVE FALSE
    <2>1. used > 0 /\ NothingToReceive
        BY <1>3 DEF ReceivePanic
    <2>2. used \in Nat /\ used <= Len(batches) /\ Len(batches) \in Nat
        BY <1>1, BatchesOK
    <2>3. 1 \in 1..used /\ 1 \in 1..Len(batches)
        BY <2>1, <2>2
    <2>4. First = batches[1]
        <3>1. batches # <<>>
            BY <2>3
        <3> QED
            BY <3>1 DEF First
    <2>5. /\ Len(First.output) > 0 /\ First.read < Len(First.output)
          /\ Len(First.output) \in Nat /\ First.read \in Int
        BY <2>3, <2>4, <1>1, BatchesOK DEF InUse, NoneEmpty
    <2>6. At < Len(First.output) /\ At \in Int
        BY <2>5 DEF At, Unread
    <2> QED
        BY <2>1, <2>5, <2>6 DEF NothingToReceive
<1> QED
    BY <1>2, <1>3

LEMMA StepKeeps == IInv /\ [Next]_vars => IInv'
<1> SUFFICES ASSUME IInv, [Next]_vars PROVE IInv'
    OBVIOUS
<1>1. CASE UNCHANGED vars
    <2>1. UNCHANGED <<setting, batches, used, activity, shared, closure, pins, log, pumped,
                      panicked, accepted, delivered, printed, shown>>
        BY <1>1 DEF vars
    <2> QED
        BY <2>1, ZenonT(30)
        DEF IInv, Always, TypeOK, HistoryOK, InUse, BuffersHeld, LinesKept, LastPumps, InOrder,
            Placed, LogsGoEarly, NoneEmpty, Unshown, Careful, Closure
<1>2. ASSUME ~panicked, NEW vs \in Vectors, Careful => vs # <<>>, Send(vs) PROVE IInv'
    BY <1>2, SendKeeps
<1>3. ASSUME NEW vs \in Vectors, Careful => vs # <<>>, SendPanic(vs) PROVE IInv'
    <2>1. /\ panicked' = TRUE
          /\ UNCHANGED <<setting, batches, used, activity, shared, closure, pins, logs, accepted, delivered>>
        BY <1>3 DEF SendPanic
    <2>2. Careful /\ ~Closure => FALSE
        BY <1>3, NoCareNoPanic
    <2> QED
        BY <2>1, <2>2, PanicKeeps
<1>4. ASSUME ~panicked, Receive PROVE IInv'
    BY <1>4, ReceiveKeeps
<1>5. ASSUME ReceivePanic PROVE IInv'
    <2>1. /\ panicked' = TRUE
          /\ UNCHANGED <<setting, batches, used, activity, shared, closure, pins, logs, accepted, delivered>>
        BY <1>5 DEF ReceivePanic
    <2>2. Careful /\ ~Closure => FALSE
        BY <1>5, NoCareNoPanic
    <2> QED
        BY <2>1, <2>2, PanicKeeps
<1>6. ASSUME ~panicked, Drain PROVE IInv'
    BY <1>6, DrainKeeps
<1> QED
    BY <1>1, <1>2, <1>3, <1>4, <1>5, <1>6 DEF Next

LEMMA Invariance == Spec => []IInv
BY InitEstablishes, StepKeeps, PTL DEF Spec

\* Sending to, receiving from and draining a GPU worker that was not made from a
\* partial application never ends the program, when no empty vector is sent and a
\* batch is in use whenever results are asked for (ey_cl_send, ey_cl_receive).
THEOREM WorkerNeverPanics == Spec => []NeverPanics
<1>1. IInv => NeverPanics
    BY DEF IInv, Always, BuffersHeld, NeverPanics
<1> QED
    BY <1>1, Invariance, PTL

\* Lines of work items are shown once and in the order printed; when every result
\* has been handed out all of them were shown, and the log buffers are empty again
\* (_ey_cl_pump_logs, _ey_clear_logs).
THEOREM EveryLineShown == Spec => []LinesShown
<1>1. IInv => LinesShown
    <2> SUFFICES ASSUME IInv PROVE LinesShown
        OBVIOUS
    <2>1. TypeOK /\ HistoryOK /\ LinesKept /\ LastPumps /\ (Careful => LogsGoEarly)
        BY DEF IInv, Always
    <2>2. ASSUME NEW i \in Items PROVE IsPrefix(shown[i], printed[i])
        <3> DEFINE s == shown[i]
                   w == Unshown(i)
        <3>1. s \in Seq(Values) /\ printed[i] = s \o w
            BY <2>1 DEF HistoryOK, LinesKept
        <3>2. w \in Seq(Values)
            <4>1. log[i] \in Seq(Values) /\ pumped[i] \in Nat /\ pumped[i] <= Len(log[i])
                BY <2>1 DEF TypeOK
            <4> QED
                BY <4>1, Waiting DEF Unshown
        <3> HIDE DEF s, w
        <3>3. /\ s \o w \in Seq(Values) /\ Len(s \o w) = Len(s) + Len(w)
              /\ \A k \in 1..(Len(s) + Len(w)) :
                    (s \o w)[k] = IF k <= Len(s) THEN s[k] ELSE w[k - Len(s)]
              /\ Len(s) \in Nat /\ Len(w) \in Nat
            BY <3>1, <3>2, ConcatProperties, LenProperties
        <3>4. SubSeq(s, 1, Len(s)) = [k \in 1..Len(s) |-> s[k]]
            BY <3>3
        <3>5. SubSeq(s \o w, 1, Len(s)) = [k \in 1..Len(s) |-> (s \o w)[k]]
            BY <3>3
        <3>6. \A k \in 1..Len(s) : (s \o w)[k] = s[k]
            BY <3>3
        <3>7. SubSeq(s, 1, Len(s)) = SubSeq(s \o w, 1, Len(s))
            BY <3>4, <3>5, <3>6
        <3> QED
            BY <3>1, <3>3, <3>7 DEF IsPrefix, s
    <2>3. ASSUME used = 0, NEW i \in Items PROVE shown[i] = printed[i]
        BY <2>1, <2>3 DEF LastPumps
    <2>4. ASSUME used = 0, Careful, NEW i \in Items PROVE log[i] = <<>>
        BY <2>1, <2>4 DEF LogsGoEarly
    <2> QED
        BY <2>1, <2>2, <2>3, <2>4 DEF LinesShown, LinesKept
<1> QED
    BY <1>1, Invariance, PTL

-----------------------------------------------------------------------------
(* The abstract worker                                                     *)

\* The history as the abstract worker sees it.
Taken == IF Careful THEN accepted ELSE <<>>
HandedOut == IF Careful THEN delivered ELSE <<>>

\* What was taken in before a step comes first after it.
LEMMA PrefixOfConcat ==
    ASSUME NEW S, NEW s \in Seq(S), NEW r \in Seq(S)
    PROVE  /\ s \o r \in Seq(S) /\ Len(s) <= Len(s \o r)
           /\ s = SubSeq(s \o r, 1, Len(s))
<1>1. /\ s \o r \in Seq(S)
      /\ Len(s \o r) = Len(s) + Len(r)
      /\ \A i \in 1 .. Len(s) + Len(r) :
            (s \o r)[i] = IF i <= Len(s) THEN s[i] ELSE r[i - Len(s)]
      /\ Len(r) \in Nat /\ Len(s) \in Nat
    BY ConcatProperties, LenProperties
<1> DEFINE p == SubSeq(s \o r, 1, Len(s))
<1>2. p = [i \in 1..Len(s) |-> (s \o r)[i]]
    BY <1>1
<1>3. \A i \in 1..Len(s) : p[i] = s[i]
    BY <1>1, <1>2
<1>4. p = s
    BY <1>1, <1>2, <1>3
<1> QED
    BY <1>1, <1>4

\* Results that come next are those that the abstract worker delivers.
LEMMA NextResults ==
    ASSUME HistoryOK, NEW n \in Nat \ {0}, NEW d \in Seq(Results), Len(d) = n, Careful, Careful',
           Len(delivered) + n <= Len(accepted),
           \A i \in 1..n : d[i] = W!Result(accepted[Len(delivered) + i]),
           delivered' = delivered \o d, accepted' = accepted
    PROVE  n \in 1..Len(accepted) /\ W!Deliver(n)
<1>1. Len(accepted) \in Nat /\ Len(delivered) \in Nat
    BY LenProperties DEF HistoryOK
<1> DEFINE r == [i \in 1..n |-> W!Result(accepted[Len(delivered) + i])]
<1>2. d = r
    <2>1. d = [i \in 1..n |-> d[i]]
        BY LenProperties
    <2> QED
        BY <2>1
<1>3. n \in 1..Len(accepted)
    BY <1>1
<1>4. delivered' = delivered \o r
    BY <1>2
<1> QED
    BY <1>3, <1>4 DEF W!Deliver

LEMMA StepRefines ==
    ASSUME IInv, [Next]_vars
    PROVE  W!Next \/ UNCHANGED <<Taken, HandedOut>>
<1>1. CASE UNCHANGED <<setting, accepted, delivered>>
    BY <1>1 DEF Taken, HandedOut, Careful
<1>2. CASE ~Careful /\ setting' = setting
    BY <1>2 DEF Taken, HandedOut, Careful
<1>3. Always /\ HistoryOK
    BY DEF IInv, Always
<1>4. ASSUME Careful, NEW vs \in Vectors, Send(vs) PROVE W!Next
    <2>1. accepted' = accepted \o vs /\ delivered' = delivered /\ Careful'
        BY <1>4 DEF Send, Careful
    <2>2. vs \in Seq(Values) /\ accepted \in Seq(Values)
        BY <1>3, VectorIsSeq DEF HistoryOK
    <2>3. /\ accepted \o vs \in Seq(Values) /\ Len(accepted) <= Len(accepted \o vs)
          /\ accepted = SubSeq(accepted \o vs, 1, Len(accepted))
        BY <2>2, PrefixOfConcat
    <2>4. W!Accept
        BY <2>1, <2>3, <1>4 DEF W!Accept
    <2> QED
        BY <2>4 DEF W!Next
<1>5. ASSUME Careful, ~panicked, Receive PROVE W!Next
    <2>1. used > 0 /\ accepted' = accepted /\ Careful'
        BY <1>5 DEF Receive, Careful
    <2> DEFINE v == W!Result(accepted[Len(delivered) + 1])
               d == <<v>>
    <2>2. Len(delivered) + 1 <= Len(accepted) /\ delivered' = Append(delivered, v)
        BY <1>3, <1>5, <2>1, ReceiveCareful DEF IInv
    <2>3. v \in Results
        <3>1. Len(delivered) + 1 \in 1..Len(accepted)
            BY <2>2, <1>3, LenProperties DEF HistoryOK
        <3>2. accepted[Len(delivered) + 1] \in Values
            BY <3>1, <1>3, ElementOfSeq DEF HistoryOK
        <3> QED
            BY <3>2 DEF Results
    <2>4. \A i \in 1..1 : d[i] = W!Result(accepted[Len(delivered) + i])
        OBVIOUS
    <2> HIDE DEF v
    <2>5. delivered' = delivered \o d
        <3>1. delivered \in Seq(Results)
            BY <1>3 DEF HistoryOK
        <3> QED
            BY <2>2, <2>3, <3>1, AppendIsConcat
    <2>6. d \in Seq(Results) /\ Len(d) = 1
        BY <2>3
    <2> HIDE DEF d
    <2>7. PICK n : n = 1
        OBVIOUS
    <2>8. /\ n \in Nat \ {0} /\ Len(d) = n /\ Len(delivered) + n <= Len(accepted)
          /\ \A i \in 1..n : d[i] = W!Result(accepted[Len(delivered) + i])
        BY <2>2, <2>4, <2>6, <2>7
    <2>9. n \in 1..Len(accepted) /\ W!Deliver(n)
        BY <1>3, <1>5, <2>1, <2>5, <2>6, <2>8, NextResults
    <2> QED
        BY <2>9, <1>5 DEF W!Next
<1>6. ASSUME Careful, ~panicked, Drain PROVE W!Next \/ UNCHANGED <<Taken, HandedOut>>
    <2>1. used > 0 /\ accepted' = accepted /\ Careful' /\ delivered' = delivered \o Drained
        BY <1>6 DEF Drain, Careful
    <2> DEFINE d == Drained
               n == Len(d)
    <2>2. /\ d \in Seq(Results) /\ n = Len(accepted) - Len(delivered)
          /\ \A i \in 1..n : d[i] = W!Result(accepted[Len(delivered) + i])
        BY <1>3, <1>6, <2>1, DrainCareful DEF IInv
    <2>3. n \in Nat /\ Len(accepted) \in Nat /\ Len(delivered) \in Nat
        BY <1>3, <2>2, LenProperties DEF HistoryOK
    <2>4. delivered' = delivered \o d
        BY <2>1
    <2> HIDE DEF d
    <2>5. CASE n = 0
        <3>1. delivered \in Seq(Results) /\ d = <<>>
            BY <2>2, <2>5, <1>3, EmptySeq DEF HistoryOK
        <3>2. delivered' = delivered
            BY <2>4, <3>1, ConcatEmptySeq
        <3> QED
            BY <2>1, <3>2, <1>6 DEF Taken, HandedOut
    <2>6. CASE n # 0
        <3> HIDE DEF n
        <3>1. n \in Nat \ {0} /\ Len(d) = n /\ Len(delivered) + n <= Len(accepted)
            BY <2>2, <2>3, <2>6 DEF n
        <3>2. n \in 1..Len(accepted) /\ W!Deliver(n)
            BY <1>3, <1>6, <2>1, <2>2, <2>4, <3>1, NextResults
        <3> QED
            BY <3>2, <1>6 DEF W!Next
    <2> QED
        BY <2>5, <2>6
<1>7. \/ UNCHANGED <<setting, accepted, delivered>>
      \/ ~panicked /\ (\E vs \in Vectors : Send(vs)) /\ setting' = setting
      \/ ~panicked /\ Receive /\ setting' = setting
      \/ ~panicked /\ Drain /\ setting' = setting
    BY DEF Next, vars, Send, SendPanic, Receive, ReceivePanic, Drain
<1> QED
    BY <1>1, <1>2, <1>4, <1>5, <1>6, <1>7

\* A GPU worker that is used with care is a worker: every value sent to it comes
\* out once, as a result, in the order sent, by receive or by drain.
THEOREM ClWorkerImplementsWorker == Spec => ImplementsWorker
<1>1. Init => W!Init
    BY DEF Init, W!Init
<1>2. IInv /\ [Next]_vars => [W!Next]_(W!workerVars)
    BY StepRefines DEF W!workerVars, Taken, HandedOut
<1> QED
    BY <1>1, <1>2, Invariance, PTL DEF Spec, ImplementsWorker, W!Spec
=============================================================================
