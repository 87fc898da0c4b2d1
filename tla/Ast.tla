-------------------------------- MODULE Ast --------------------------------
(* The tree of a module, and the heap in which the checker changes it.

   A node has a kind k, a name or value n, its children a and the type ty that
   it declares or caches; rep is the name it was replaced by, w other names
   that it was given, set a flag.  In a tree the children are trees, in the
   heap they are the ids of nodes: a node that is the child of two nodes is
   checked, changed and written in both places.  The id of a node of the
   source is its path in the module; the checker adds nodes of its own. *)
EXTENDS Types

\* The type that is not set yet is the zero value of Type, the integer.
E(k, n, a) == [k |-> k, n |-> n, a |-> a, ty |-> I64, rep |-> "", w |-> <<>>, set |-> FALSE]

Typed(k, n, a, ty) == [E(k, n, a) EXCEPT !.ty = ty]

Nil    == <<0>>
None   == E("none", "", <<>>)       \* a child that is nil
Ref(x) == [k |-> "ref", id |-> x]   \* a child that is already in the heap

Id(n)       == E("id", n, <<>>)
\* An identifier that the checker or the parser makes with its type.
IdOf(n, ty) == [Typed("id", n, <<>>, ty) EXCEPT !.set = TRUE]
LId(n)      == E("lid", n, <<>>)
IntLit(v)   == E("int", v, <<>>)
NullLit     == Typed("null", "", <<>>, Null)
GpuBuiltin(n) == Typed("gpufn", n, <<>>, Fun(<<F32>>, F32, "gpu"))
\* The count is what is checked first.
Range3(start, count, step) == Typed("range", "", <<count, start, step>>, MakeVector(I64))

Call(f, args)         == E("call", "", <<f>> \o args)
Assign(how, lhs, rhs) == E("assign", how, <<lhs, rhs>>)
Expr(e)               == E("expr", "", <<e>>)
Block(ss)             == E("block", "", ss)

\* The other nodes that the parser makes.  A drain is a receive of everything;
\* a cast that the source asks for is one that is checked.
Self             == E("self", "", <<>>)
Bin(op, l, r)    == E("bin", op, <<l, r>>)
Un(op, e)        == E("un", op, <<e>>)
As(ty, e)        == [Typed("cast", "", <<e>>, ty) EXCEPT !.set = TRUE]
Access(e, n)     == E("access", n, <<e>>)
Index(e, k)      == E("index", "", <<e, k>>)
Deref(e)         == E("deref", "", <<e>>)
New(e)           == E("new", "", <<e>>)
Tup(es)          == E("tuple", "", es)
StructLit(n, w, es) == [Typed("struct", n, es, Struct(n)) EXCEPT !.w = w]
VecLit(ty, es)   == Typed("veclit", "", es, ty)
Partial(f, args) == E("closure", "", <<f>> \o args)
WorkerOf(d, e)   == Typed("worker", d, <<e>>, Worker(I64, I64))
PipelineOf(l, r) == Typed("pipeline", "", <<l, r>>, Worker(I64, I64))
Receive(e)       == E("receive", "", <<e>>)
Drain(e)         == [E("receive", "", <<e>>) EXCEPT !.set = TRUE]

LSelf        == E("lself", "", <<>>)
LField(l, n) == E("lfield", n, <<l>>)
LIndex(l, e) == E("lindex", "", <<l, e>>)
LDeref(l)    == E("lderef", "", <<l>>)
LMulti(ls)   == E("lmulti", "", ls)

\* An if has a condition and a block for each segment, none for the else.
If(segments)      == E("if", "", segments)
While(e, b)       == E("while", "", <<e, b>>)
Foreach(n, e, b)  == E("foreach", n, <<e, b>>)
Modify(op, l, e)  == E("modify", op, <<l, e>>)
Return(e)         == E("return", "", <<e>>)
Send(w, e)        == E("send", "", <<w, e>>)
Break             == E("break", "", <<>>)

\* Elements of a module, and what a function is given.
Param(n, ty) == [n |-> n, ty |-> ty]
Fn(n, loc, ps, ret, body) ==
  [k |-> "fn", n |-> n, loc |-> loc, ps |-> ps, ret |-> ret, struct |-> "", avoid |-> FALSE, body |-> body]
StructOf(n, fields, fns) ==
  [k |-> "struct", n |-> n, fields |-> fields, fns |-> [k \in DOMAIN fns |-> [fns[k] EXCEPT !.struct = n]]]
ConstOf(assign) == [k |-> "const", n |-> "", assign |-> assign]

\* An assignment and a call that the checker makes.
Let(n, ty, rhs)      == [Assign("let", LId(n), rhs) EXCEPT !.ty = ty]
Generated(f, args)   == [Call(IdOf(f, Void), args) EXCEPT !.set = TRUE]
GeneratedCall(f, args) == Expr(Generated(f, args))
AddressOf(t)         == E("un", "&", <<t>>)

RECURSIVE Load(_, _)
Load(t, p) ==
  LET ChildId(k) == CASE t.a[k].k = "ref"  -> t.a[k].id
                      [] t.a[k].k = "none" -> Nil
                      [] OTHER             -> Append(p, k)
  IN FoldSeq(LAMBDA h, rest : h @@ rest,
             p :> [t EXCEPT !.a = [k \in DOMAIN t.a |-> ChildId(k)]],
             [k \in DOMAIN t.a |-> IF t.a[k].k \in {"ref", "none"} THEN <<>>
                                   ELSE Load(t.a[k], Append(p, k))])

RECURSIVE Nodes(_)
Nodes(t) == {t} \cup UNION {Nodes(t.a[k]) : k \in DOMAIN t.a}
=============================================================================
