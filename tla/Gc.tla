---------------------------------- MODULE Gc ----------------------------------
(***************************************************************************)
(* The garbage-collected region (eyot-runtime-gc.c): the linked list of    *)
(* pages, allocation, reallocation, root objects, and a mark-and-sweep     *)
(* collection, with one thread that uses the heap.  The thread's variables *)
(* are remembered when they are declared and forgotten when they leave     *)
(* their scope, in the table of module GcRoots: what a collection follows  *)
(* is that table, what the program can still use is not.  A page is        *)
(* its address, so a freed page may be handed out again.  The sweep takes  *)
(* one page at a time, as the code does, because it rewires the list it is *)
(* walking; the thread that collects does nothing else meanwhile.          *)
(***************************************************************************)
EXTENDS GcRoots, Integers, FiniteSets

CONSTANTS Pages,      \* addresses malloc may return
          Null,       \* the null pointer
          Sizes,      \* sizes of blocks, in words
          MaxRoots,   \* bound on the root count of a page
          MaxRefs     \* bound on the pointers in all blocks

ASSUME GcAssumption == /\ IsFiniteSet(Pages)
                       /\ Null \notin Pages
                       /\ Sizes \subseteq Nat \ {0}
                       /\ MaxRoots \in Nat /\ MaxRefs \in Nat

VARIABLES alive,      \* the pages malloc has handed out
          head,       \* EyGCRegion.root_page
          next, prev, \* PageHeader.next, .prev
          size,       \* PageHeader.size
          rootCount,  \* PageHeader.root_count
          refs,       \* the page pointers stored in the block of a page
          var,        \* what the thread's variables hold, by their addresses
          nPages,     \* stats.pages_allocated
          nBytes,     \* stats.bytes_allocated
          marked,     \* the pages whose marked flag is set
          cursor,     \* the page the sweep is at
          sweeping

list  == <<head, next, prev>>
stats == <<nPages, nBytes>>
heap  == <<size, rootCount, refs, var>>
table == <<slots, panicked, live>>
heapVars == <<alive, list, heap, stats, marked, cursor, sweeping, table>>

Pointer == Pages \cup {Null}

HeapOK ==
    /\ TypeOK
    /\ alive \subseteq Pages
    /\ head \in Pointer /\ next \in [Pages -> Pointer] /\ prev \in [Pages -> Pointer]
    /\ size \in [Pages -> Sizes \cup {0}]
    /\ rootCount \in [Pages -> 0..MaxRoots]
    /\ refs \in [Pages -> SUBSET Pages]
    /\ var \in [Addresses -> Pointer]
    /\ nPages \in Nat /\ nBytes \in Nat
    /\ marked \subseteq Pages /\ cursor \in Pointer /\ sweeping \in BOOLEAN

\* ey_runtime_gc_create
HeapInit ==
    /\ Init
    /\ alive = {}
    /\ head = Null
    /\ next = [p \in Pages |-> Null] /\ prev = [p \in Pages |-> Null]
    /\ size = [p \in Pages |-> 0]
    /\ rootCount = [p \in Pages |-> 0]
    /\ refs = [p \in Pages |-> {}]
    /\ var = [v \in Addresses |-> Null]
    /\ nPages = 0 /\ nBytes = 0
    /\ marked = {} /\ cursor = Null /\ sweeping = FALSE

\* A variable that is set for the first time is declared, and remembered.
Declared(v) == IF v \in live THEN UNCHANGED table ELSE Remember(v)

\* gc_mark_page: the pages that some roots lead to, the least set with the roots
\* that no pointer leaves.
Closed(S) == \A p \in S : refs[p] \cap alive \subseteq S
From(roots) ==
    LET closed == {S \in SUBSET alive : roots \subseteq S /\ Closed(S)}
    IN  {p \in alive : \A S \in closed : p \in S}

\* The pages the thread can name: those its variables lead to.
InVariables == {var[v] : v \in live} \cap alive
Named == From(InVariables)

-----------------------------------------------------------------------------
(* ey_runtime_gc_alloc: the new page goes to the front of the list.  The   *)
(* generated code stores it in a variable and registers that variable.     *)

\* Mutant of Linked: the old first page is not linked back.
LinkedForward(p) == prev

Linked(p) == IF head = Null THEN prev ELSE [prev EXCEPT ![head] = p]

Alloc(p, n, v) ==
    /\ ~sweeping /\ p \notin alive
    /\ alive' = alive \cup {p}
    /\ size' = [size EXCEPT ![p] = n]
    /\ rootCount' = [rootCount EXCEPT ![p] = 0]
    /\ refs' = [refs EXCEPT ![p] = {}]
    /\ prev' = [Linked(p) EXCEPT ![p] = Null]
    /\ next' = [next EXCEPT ![p] = head]
    /\ head' = p
    /\ nPages' = nPages + 1 /\ nBytes' = nBytes + n
    /\ var' = [var EXCEPT ![v] = p]
    /\ Declared(v)
    /\ UNCHANGED <<marked, cursor, sweeping>>

(* ey_runtime_gc_realloc, which may move the page: its neighbours and its  *)
(* owner, the only one with a pointer to it, are told the new address.     *)
(* A smaller block has lost pointers: which ones, ey_vector_erase says.    *)

Owner(o, p) == /\ p \in refs[o] /\ p # o
               /\ \A q \in alive \ {o} : p \notin refs[q]
               /\ p \notin InVariables /\ rootCount[p] = 0
               /\ o \in Named

\* The page at p is at q from now on, and links to it follow.
Relinked(f, p, q) ==
    [x \in Pages |-> LET at == IF x = q THEN f[p] ELSE f[x]
                     IN  CASE x = p /\ p # q -> Null
                           [] at = p -> q
                           [] OTHER -> at]

Resized(p, q, n) == [[size EXCEPT ![p] = 0] EXCEPT ![q] = n]

Realloc(o, p, q, n, kept) ==
    /\ ~sweeping /\ (q = p \/ q \notin alive) /\ n # size[p]
    /\ Cardinality(kept) <= n /\ (n > size[p] => kept = refs[p])
    /\ Owner(o, p)
    /\ alive' = (alive \ {p}) \cup {q}
    /\ size' = Resized(p, q, n)
    /\ nBytes' = nBytes + n - size[p]
    /\ refs' = [[[refs EXCEPT ![p] = {}] EXCEPT ![q] = kept]
                    EXCEPT ![o] = (@ \ {p}) \cup {q}]
    /\ next' = Relinked(next, p, q)
    /\ prev' = Relinked(prev, p, q)
    /\ head' = IF head = p THEN q ELSE head
    /\ UNCHANGED <<rootCount, var, nPages, marked, cursor, sweeping, table>>

-----------------------------------------------------------------------------
(* What the program does with the pages it can name                        *)

Assign(v, p) ==
    /\ ~sweeping /\ p \in Named \cup {Null}
    /\ var' = [var EXCEPT ![v] = p]
    /\ Declared(v)
    /\ UNCHANGED <<alive, list, size, rootCount, refs, stats, marked, cursor, sweeping>>

\* The end of a scope; what is left on the stack is of no interest.
LeaveScope(v) ==
    /\ ~sweeping
    /\ Forget(v)
    /\ var' = [var EXCEPT ![v] = Null]
    /\ UNCHANGED <<alive, list, size, rootCount, refs, stats, marked, cursor, sweeping>>

Store(p, S) ==
    /\ ~sweeping /\ Cardinality(S) <= size[p] /\ S \cup {p} \subseteq Named
    /\ refs' = [refs EXCEPT ![p] = S]
    /\ Cardinality({link \in Pages \X Pages : link[2] \in refs'[link[1]]}) <= MaxRefs
    /\ UNCHANGED <<alive, list, size, rootCount, var, stats, marked, cursor, sweeping, table>>

RememberObject(p) ==
    /\ ~sweeping /\ p \in Named /\ rootCount[p] < MaxRoots
    /\ rootCount' = [rootCount EXCEPT ![p] = @ + 1]
    /\ UNCHANGED <<alive, list, size, refs, var, stats, marked, cursor, sweeping, table>>

\* The thread that remembered an object is the one that forgets it.
ForgetObject(p) ==
    /\ ~sweeping /\ p \in alive /\ rootCount[p] > 0
    /\ rootCount' = [rootCount EXCEPT ![p] = @ - 1]
    /\ UNCHANGED <<alive, list, size, refs, var, stats, marked, cursor, sweeping, table>>

-----------------------------------------------------------------------------
(* ey_runtime_gc_collect                                                   *)

\* Mutant of RootObjects: only the registered variables are followed.
NoRootObjects == {}

InTable     == {var[slots[i].ptr] : i \in Used} \cap alive
RootObjects == {p \in alive : rootCount[p] # 0}

\* gc_mark_page from every root, a root object or what an entry in use points to
CollectMark ==
    /\ ~sweeping
    /\ marked' = From(RootObjects \cup InTable)
    /\ cursor' = head
    /\ sweeping' = TRUE
    /\ UNCHANGED <<alive, list, heap, stats, table>>

\* gc_free_page: what the unlinking does to the backward links
Unlinked(p) == IF next[p] = Null THEN prev ELSE [prev EXCEPT ![next[p]] = prev[p]]

\* A freed address holds nothing of interest until it is handed out again.
Forgotten(p) == /\ size' = [size EXCEPT ![p] = 0]
                /\ rootCount' = [rootCount EXCEPT ![p] = 0]
                /\ refs' = [refs EXCEPT ![p] = {}]

SweepFree ==
    /\ sweeping /\ cursor # Null /\ cursor \notin marked
    /\ alive' = alive \ {cursor}
    /\ nPages' = nPages - 1 /\ nBytes' = nBytes - size[cursor]
    /\ IF prev[cursor] # Null
       THEN /\ next' = [[next EXCEPT ![prev[cursor]] = next[cursor]] EXCEPT ![cursor] = Null]
            /\ UNCHANGED head
       ELSE /\ head' = next[cursor]
            /\ next' = [next EXCEPT ![cursor] = Null]
    /\ prev' = [Unlinked(cursor) EXCEPT ![cursor] = Null]
    /\ cursor' = next[cursor]
    /\ Forgotten(cursor)
    /\ UNCHANGED <<var, marked, sweeping, table>>

SweepKeep ==
    /\ sweeping /\ cursor # Null /\ cursor \in marked
    /\ cursor' = next[cursor]
    /\ UNCHANGED <<alive, list, heap, stats, marked, sweeping, table>>

\* The lock is released; the flags stay as they are until the next mark.
CollectEnd ==
    /\ sweeping /\ cursor = Null
    /\ sweeping' = FALSE
    /\ marked' = {}
    /\ UNCHANGED <<alive, list, heap, stats, cursor, table>>

-----------------------------------------------------------------------------
HeapNext ==
    /\ ~panicked
    /\ \/ \E p \in Pages, n \in Sizes, v \in Addresses : Alloc(p, n, v)
       \/ \E o, p, q \in Pages, n \in Sizes : \E kept \in SUBSET refs[p] :
               Realloc(o, p, q, n, kept)
       \/ \E v \in Addresses, p \in Pointer : Assign(v, p)
       \/ \E p \in Pages, S \in SUBSET Pages : Store(p, S)
       \/ \E p \in Pages : RememberObject(p) \/ ForgetObject(p)
       \/ \E v \in Addresses : LeaveScope(v)
       \/ CollectMark \/ SweepFree \/ SweepKeep \/ CollectEnd

HeapSpec == HeapInit /\ [][HeapNext]_heapVars

-----------------------------------------------------------------------------
(* Correctness                                                             *)

\* What the program may still use: the pages its variables and the objects
\* with a root count above zero (gc.c:31) lead to.
Reachable == From(InVariables \cup {p \in alive : rootCount[p] > 0})

\* The words of the blocks in use.
Words == UNION {{p} \X (1..size[p]) : p \in alive}

\* gc_check, which the code runs in debug mode only: every page's backward
\* link is the page before it.  The list holds exactly the pages alive, and the
\* statistics (runtime::allocated_bytes) are theirs: collection.ey compares
\* them before and after a collection.
ListConsistent ==
    /\ HeapOK
    /\ head = Null <=> alive = {}
    /\ \A p \in alive : /\ (prev[p] = Null) <=> (p = head)
                        /\ prev[p] # Null => prev[p] \in alive /\ next[prev[p]] = p
                        /\ next[p] # Null => next[p] \in alive /\ prev[next[p]] = p
    /\ nPages = Cardinality(alive)
    /\ nBytes = Cardinality(Words)

\* No variable, and nothing the program can reach from a variable or a root
\* object, points to memory that has been freed.
NoDanglingPointer ==
    /\ \A v \in Addresses : var[v] \in alive \cup {Null}
    /\ \A p \in Reachable : refs[p] \subseteq alive

\* The list and what it holds: both are easily lost when a page moves or goes
\* in the middle of a walk.
HeapIsSound == ListConsistent /\ NoDanglingPointer

\* A collection frees everything the program can no longer reach, cycles
\* included, and at no step of it anything the program can reach.
CollectionIsExact ==
    [][sweeping => /\ (alive \ alive') \cap Reachable = {}
                   /\ ~sweeping' => alive' = Reachable']_heapVars
=============================================================================
