--------------------------- MODULE PlainPrograms ---------------------------
(* The programs that are written as they are meant.  Each of the conditions
   names a construct that the checker or the writer is known to get wrong, at
   the lines that are given; what is said of compiled programs elsewhere is
   about all the others. *)
EXTENDS Ast

FunctionNames(els) == {el.n : el \in {f \in Range(els) : f.k = "fn"}}
Called(n)          == n.a[1]
Named(els, t)      == t.k = "id" /\ t.n \in FunctionNames(els)

\* What is called is neither a function nor a method: a closure, or print.
CallsByStatements(els, n) ==
  n.k = "call" /\ Called(n).k \notin {"access", "gpufn"} /\ ~Named(els, Called(n))

\* What is made statements that are put before the one it is part of.
Hoisted(els, n) ==
  \/ n.k \in {"closure", "new", "veclit"}
  \/ n.k = "receive" /\ ~n.set
  \/ n.k = "worker" /\ n.a[1].k # "id"
  \/ CallsByStatements(els, n)
Hoists(els, t) == \E n \in Nodes(t) : Hoisted(els, n)

\* What is not evaluated where its statement begins, or not always
\* (ast/check.go:211): a condition that is asked again or later, and the right
\* side of an operator that may not need it.
HoistsFromCondition(els, n) ==
  \/ n.k = "while" /\ Hoists(els, n.a[1])
  \/ n.k = "if" /\ \E k \in DOMAIN n.a : k > 1 /\ k % 2 = 1 /\ Hoists(els, n.a[k])
  \/ n.k = "bin" /\ n.n \in {"&&", "||"} /\ Hoists(els, n.a[2])

\* What is checked twice in the pass that inserts (ast/expressions.go:791 and
\* :893), or after what was inserted for the call it is an argument of (:1096).
HoistsTwiceOrLate(els, n) ==
  /\ n.k = "call"
  /\ \/ Called(n).k = "access" /\ Hoists(els, Called(n).a[1])
     \/ Called(n).k = "access" /\ Called(n).n \in {"erase", "resize"} /\ \E k \in 2..Len(n.a) : Hoists(els, n.a[k])
     \/ CallsByStatements(els, n) /\ \E k \in 2..Len(n.a) : Hoists(els, n.a[k])

\* A worker that is asked is written twice (worker-expressions.go:366,
\* write-c.go:866): it may only be looked up.
AsksTwice(n) ==
  n.k \in {"receive", "send"} /\ \E u \in Nodes(n.a[1]) : u.k \notin {"id", "self", "access"}

\* No parentheses are written around an operator and its operands
\* (write-c.go:310), a cast, a dereference or an element.
ReadOtherwise(n) ==
  \/ n.k \in {"un", "cast", "deref"} /\ n.a[1].k = "bin"
  \/ n.k = "un" /\ n.a[1].k = "un" /\ n.n = n.a[1].n
  \/ n.k = "access" /\ n.a[1].k \in {"un", "cast", "deref", "index", "bin"}

\* A method is given the address of a value that has no place
\* (expressions.go:811).
MethodOfValue(n) ==
  n.k = "call" /\ Called(n).k = "access" /\ Called(n).a[1].k \notin {"id", "access", "self"}

\* What is given to a partial application is checked by the last pass alone,
\* after its variable was made (closure.go:84-108): a variable is kept as an
\* integer, and of what has parts no type is known.
Literals == {"int", "char", "float", "bool", "str", "null"}
GivenTo(n) == {k \in 2..Len(n.a) : n.a[k] # None}
ParametersOf(els, name) == SelectSeq(els, LAMBDA el : el.k = "fn" /\ el.n = name)[1].ps
KeepsUnchecked(n) == n.k = "closure" /\ \E k \in GivenTo(n) : n.a[k].k \notin Literals \cup {"id"}
KeepsAsInteger(els, n) ==
  n.k = "closure" /\ \E k \in GivenTo(n) : n.a[k].k = "id" /\ ParametersOf(els, Called(n).n)[k - 1].ty # I64

\* A literal of 32 bits is written as one of 64 (write-c.go:259).
WrittenWider(n) == n.k = "float" /\ n.ty = F32

Plain(els, fn) == \A n \in Nodes(fn.body) :
  ~ \/ HoistsFromCondition(els, n)
    \/ HoistsTwiceOrLate(els, n)
    \/ AsksTwice(n)
    \/ ReadOtherwise(n)
    \/ MethodOfValue(n)
    \/ KeepsUnchecked(n)
    \/ KeepsAsInteger(els, n)
    \/ WrittenWider(n)

-----------------------------------------------------------------------------
(* What is refused, or ends the compiler, though it is right.              *)

\* null is no pointer where the types are compared with their sides exchanged
\* (statements.go:292, expressions.go:1401 and :57).
NullExchanged(n) == n.k \in {"return", "veclit", "cast"} /\ NullLit \in Range(n.a)

\* The size of a closure is asked of types that have none (types.go:402-439).
Sized == {"int", "f32", "f64", "bool", "char", "tuple", "struct"}
Unsized(els, n) ==
  n.k = "closure" /\ \E p \in Range(ParametersOf(els, Called(n).n)) : p.ty.s \notin Sized

\* The type of what is returned is asked for in the first pass, when that of a
\* variable is not known yet: the compiler panics (statements.go:288).
RECURSIVE AskedEarly(_)
AskedEarly(t) ==
  \/ t.k \in {"deref", "receive"}
  \/ t.k = "closure" /\ \E k \in DOMAIN t.a : t.a[k] = None
  \/ t.k \in {"new", "tuple"} /\ \E k \in DOMAIN t.a : AskedEarly(t.a[k])
ReturnsEarly(n) == n.k = "return" /\ AskedEarly(n.a[1])

-----------------------------------------------------------------------------
(* What only one of the targets can do.                                    *)

Locations(els, name) == {f.loc : f \in {el \in Range(els) : el.k = "fn" /\ el.n = name}}
Available(els, t, targets) ==
  Named(els, t) => \A on \in targets : Locations(els, t.n) \cap {on, "anywhere"} # {}
MethodLocations(els, name) ==
  UNION {{f.loc : f \in {g \in Range(el.fns) : g.n = name}} : el \in {d \in Range(els) : d.k = "struct"}}

NeedsCpu(els, n) ==
  \/ n.k \in {"new", "veclit", "worker", "receive", "pipeline", "send"}
  \/ n.k # "foreach" /\ \E k \in DOMAIN n.a : n.a[k].k = "range"
  \/ n.k \in {"float", "cast"} /\ n.ty = F64
  \/ n.k = "call" /\ Called(n).k = "access" /\ Called(n).n \in {"append", "erase", "resize"}
  \/ n.k = "call" /\ ~Available(els, Called(n), {"gpu"})
  \/ n.k = "call" /\ Called(n).k = "access" /\ "cpu" \in MethodLocations(els, Called(n).n)

NeedsGpu(n) == n.k = "gpufn"

\* A function has what it is compiled for, among those of its nodes.
Located(els, fn, nodes) ==
  \A n \in nodes : (fn.loc # "cpu" => ~NeedsCpu(els, n)) /\ (fn.loc # "gpu" => ~NeedsGpu(n))

\* What is given to a partial application is not asked where it runs
\* (closure.go:63): it comes after the pass that asks.
RECURSIVE AskedNodes(_)
AskedNodes(t) == {t} \cup UNION {AskedNodes(t.a[k]) : k \in IF t.k = "closure" THEN {1} ELSE DOMAIN t.a}

\* So have the functions that it uses.  The checker does not look at a use of a
\* function of the GPU (expressions.go:1204), nor at what a worker of the other
\* target needs (worker-expressions.go:80).
TargetsOf(fn) == IF fn.loc = "anywhere" THEN {"cpu", "gpu"} ELSE {fn.loc}
OnOtherTarget(els, fn, n) ==
  \/ n.k = "call" /\ fn.loc # "gpu" /\ ~Available(els, Called(n), {"cpu"})
  \/ n.k = "worker" /\ \E u \in {v \in Nodes(n.a[1]) : v.k = "id"} : ~Available(els, u, {n.n})
  \/ n.k = "closure" /\ ~Available(els, Called(n), TargetsOf(fn))
UsesLocated(els, fn) == \A n \in Nodes(fn.body) : ~OnOtherTarget(els, fn, n)
=============================================================================
