------------------------------ MODULE CMeaning ------------------------------
(* What the written program means: the effects of a function of C, in the terms
   of SourceMeaning.  A variable that the source does not name is a stage of a
   computation and stands for its value; the functions of the runtime that fill
   such a variable do so here.

   X has the program that the function is of (p), the one for the GPU (gpu), the
   structures (G) and the variables that the source names (src).  V has the
   value and the type of every variable. *)
EXTENDS CWriter, SourceMeaning

Undeclared(n) == T("undeclared", n, <<>>)
Unset         == T("unset", "", <<>>)

\* A value that is read through an address as another type than it was put.
ReadAs(ty, v, at) ==
  IF v.op = "address" /\ at # MakePointer(ty) THEN Term("reinterpreted", "", ty, <<v>>) ELSE PointedTo(v)

\* Structures are not converted, and those of two names not assigned.
PutInC(to, from, v) ==
  IF to.s \in {"struct", "tuple"} /\ to # from THEN Term("mismatch", "", to, <<v>>) ELSE Converted(to, from, v)

FunctionNamed(p, n) == SelectSeq(p.functions, LAMBDA f : f.n = n)

FieldType(X, at, n) == SelectSeq(X.G.structs[at.id].fields, LAMBDA f : f.n = n)[1].ty
PartNumber(n)       == CHOOSE k \in 1..9 : n = "f" \o ToString(k - 1)

RECURSIVE EC(_, _, _)
ECs(X, V, es) == [k \in DOMAIN es |-> EC(X, V, es[k])]

ECField(X, m, k, n) ==
  LET at == Unwrapped(m.ty) IN
  CASE (k = "->") # (m.ty.s = "ptr") \/ at.s \notin {"struct", "tuple"} -> Meaning(T("mismatch", n, <<m.v>>), Void, m.effects)
    [] at.s = "tuple" -> Meaning(PartOf(m.v, PartNumber(n)), at.t[PartNumber(n)], m.effects)
    [] OTHER          -> Meaning(FieldOf(m, n), FieldType(X, at, n), m.effects)

ECBinary(op, l, r) ==
  LET right == IF op \in {"&&", "||"} THEN Under(T(op, "", <<l.v>>), r.effects) ELSE r.effects
      ty == CASE op \notin {"+", "-", "*", "/", "%"} -> Bool
              [] F64 \in {l.ty, r.ty} -> F64
              [] F32 \in {l.ty, r.ty} -> F32
              [] OTHER -> l.ty
  IN Meaning(T("bin", op, <<l.v, r.v>>), ty, l.effects \o right)

\* Only what has a place has an address.
HasPlace(e) == e.k \in {"var", "deref", "->", "index", "compound"} \/ (e.k = "." /\ e.a[1].k # "call")

ECUnary(e, m) ==
  CASE e.n = "&" /\ ~HasPlace(e.a[1]) -> Meaning(T("mismatch", "&", <<m.v>>), Void, m.effects)
    [] e.n = "&" -> Meaning(AddressOfTerm(m.v), MakePointer(m.ty), m.effects)
    [] OTHER     -> Meaning(T("un", e.n, <<m.v>>), m.ty, m.effects)

ECCompound(X, V, e) ==
  LET ms == ECs(X, V, e.a)
      fs == X.G.structs[e.ty.id].fields
      Field(f) == LET k == CHOOSE k \in DOMAIN e.w : e.w[k] = f.n IN PutInC(f.ty, ms[k].ty, ms[k].v)
  IN IF e.ty.s = "tuple"
     THEN Meaning(T("tuple", "", [k \in DOMAIN ms |-> PutInC(e.ty.t[k], ms[k].ty, ms[k].v)]), e.ty, Effects(ms))
     ELSE Meaning(Term("structure", "", e.ty, [k \in DOMAIN fs |-> Field(fs[k])]), e.ty, Effects(ms))

-----------------------------------------------------------------------------
(* Calls.                                                                  *)

PoolEntry(X, n) ==
  IF \E k \in DOMAIN X.p.pool : ToString(k) = n
  THEN T("string", X.p.pool[CHOOSE k \in DOMAIN X.p.pool : ToString(k) = n], <<>>) ELSE Undeclared("string")

\* The closure of a function and of the addresses in an array.
CreateClosure(X, V, f, array) ==
  LET fn   == FunctionNamed(X.p, f)[1]
      tys  == ParameterTypes(fn)
      at   == V[array]
      Open == {k \in DOMAIN at.v.a : at.v.a[k].op = "lit"}
      Supplied(k) == IF k \in Open THEN T("open", "", <<>>) ELSE ReadAs(tys[k], at.v.a[k], at.ty.t[k])
      open == SetToSortSeq(Open, <)
  IN IF FunctionNamed(X.p, f) = <<>> \/ Len(tys) # Len(at.v.a) THEN Pure(Undeclared(f), Void)
     ELSE Pure(T("closure", f, [k \in DOMAIN tys |-> Supplied(k)]), Closure([k \in DOMAIN open |-> tys[open[k]]], fn.ret))

RuntimeResult(n) ==
  CASE n \in {"ey_vector_length", "ey_runtime_string_character_length"} -> I64
    [] n = "ey_runtime_range" -> MakeVector(I64)
    [] n \in {"sqrt", "exp"}  -> F32
    [] OTHER -> Void

\* A function of the runtime.
CallRuntime(X, V, n, args, ms) ==
  LET es == Effects(ms) IN
  CASE n = "ey_runtime_string_get"       -> Pure(PoolEntry(X, args[1].n), Str)
    [] n = "ey_runtime_string_use_literal"    -> ms[1]
    [] n = "ey_runtime_string_join"           -> Meaning(T("bin", "+", Values(ms)), Str, es)
    [] n = "ey_runtime_string_equality"       -> Meaning(T("bin", "==", Values(ms)), Bool, es)
    [] n = "ey_runtime_string_get_character"  -> Meaning(T("character", "", Values(ms)), Char, es)
    [] n = "ey_vector_access" -> Meaning(AddressOfTerm(T("element", "", Values(ms))), MakePointer(Void), es)
    [] n = "ey_closure_create"                -> CreateClosure(X, V, args[1].n, args[2].n)
    [] n = "ey_runtime_gc_alloc"              -> Meaning(Term("new", "", args[1].ty, <<Unset>>), MakePointer(args[1].ty),
                                                   <<Effect(Term("allocate", "", args[1].ty, <<>>))>>)
    [] n = "ey_vector_create"                 -> Meaning(Term("vector", "", args[1].ty, <<>>), MakeVector(args[1].ty),
                                                   <<Effect(Term("allocate vector", "", args[1].ty, <<>>))>>)
    [] n = "ey_worker_create_pipeline"        -> Performed(T("pipeline", "", Values(ms)), Worker(ms[1].ty.t[1], ms[2].ty.t[2]), es)
    [] n = "vector_add" -> Performed(T("call", n, <<ms[1].v, Converted(ms[1].ty.t[1].t[1], ms[2].ty, ms[2].v)>>), Void, es)
    [] n \in {"sqrt", "exp"} -> Performed(T("call", n, <<Converted(F32, ms[1].ty, ms[1].v)>>), F32, es)
    [] OTHER -> Performed(T("call", n, Values(ms)), RuntimeResult(n), es)

\* A worker is asked through itself: it is written, and evaluated, twice.
CallWorker(m, n, ms) ==
  LET es == m.effects \o Effects(ms)
      ty == m.ty.t[2]
  IN IF m.ty.s # "worker" \/ ms[1].v # m.v THEN Meaning(T("mismatch", n, <<>>), Void, es)
     ELSE Performed(T(n, "", Values(ms)), CASE n # "drain" \/ ty = Void -> Void [] OTHER -> MakeVector(ty), es)

ECCall(X, V, f, args) ==
  LET ms == ECs(X, V, args)
      fn == FunctionNamed(X.p, f.n)
  IN CASE f.k = "->"            -> CallWorker(EC(X, V, f.a[1]), f.n, ms)
       [] f.k = "var" /\ f.n \in DOMAIN V -> Meaning(T("not a function", f.n, Values(ms)), Void, Effects(ms))
       [] f.k = "var" /\ fn # <<>> /\ Len(fn[1].ps) = Len(ms) ->
            Performed(T("call", f.n, [k \in DOMAIN ms |-> PutInC(fn[1].ps[k].ty, ms[k].ty, ms[k].v)]), fn[1].ret, Effects(ms))
       [] f.k = "var" /\ f.n \in X.G.names -> Meaning(Undeclared(f.n), Void, Effects(ms))
       [] f.k = "var"           -> CallRuntime(X, V, f.n, args, ms)
       [] OTHER                 -> Meaning(T("not a function", "", Values(ms)), Void, Effects(ms))

-----------------------------------------------------------------------------
(* Statements: the effects in order and the variables after it.            *)

C0(V, effects) == [V |-> V, effects |-> effects]

RECURSIVE CS(_, _, _, _)
RECURSIVE CSAll(_, _, _, _)
CSAll(X, V, R, ss) ==
  IF ss = <<>> THEN C0(V, <<>>)
  ELSE LET s    == CS(X, V, R, Head(ss))
           rest == CSAll(X, s.V, R, Tail(ss))
       IN C0(rest.V, s.effects \o rest.effects)

\* The effects of a function with its parameters.
BodyEffects(X, fn) ==
  LET V == [n \in {fn.ps[k].n : k \in DOMAIN fn.ps} |->
              [v |-> Variable(n), ty |-> SelectSeq(fn.ps, LAMBDA q : q.n = n)[1].ty]]
      Global(d) == d.n :> [v |-> Variable(d.n), ty |-> d.ty]
      globals == FoldLeft(LAMBDA g, d : Global(d) @@ g, Global(CTyped("decl", "closure_buffer", <<>>, Void)), X.p.consts)
  IN CSAll(X, V @@ globals, fn.ret, fn.body.a).effects

\* What a worker runs: what its wrapper or its kernel does with the value that
\* was sent, if it does nothing else but put the result where it belongs.
WorkerTarget(X, V, e) ==
  LET p     == IF e.n = "gpu" THEN X.gpu ELSE X.p
      fn    == FunctionNamed(p, e.w[1])[1]
      es    == BodyEffects([X EXCEPT !.p = p, !.src = {}], fn)
      in    == IF e.n = "gpu" THEN T("place", "global_input", <<>>) ELSE PointedTo(Variable("input"))
      out   == IF e.n = "gpu" THEN T("place", "global_output", <<>>) ELSE PointedTo(Variable("output"))
      held  == Variable(IF e.n = "gpu" THEN "closure_buffer" ELSE "ctx")
      put   == IF e.ty.t[2] = Void THEN <<>> ELSE <<Effect(T("assign", "=", <<out, es[1].t>>))>>
  IN CASE FunctionNamed(p, e.w[1]) = <<>> \/ es = <<>>                       -> Undeclared(e.w[1])
       [] Tail(es) # put                                                    -> T("misplaced", "", <<>>)
       [] e.a = <<>> /\ es[1].t.op = "call" /\ es[1].t.a = <<in>>           -> T("fn", es[1].t.n, <<>>)
       [] e.a # <<>> /\ es[1].t.op = "invoke" /\ es[1].t.a = <<held, in>>   -> EC(X, V, e.a[1]).v
       [] OTHER                                                             -> T("other", "", <<>>)

EC(X, V, e) ==
  LET m == EC(X, V, e.a[1]) IN
  CASE e.k = "var" /\ e.n \in DOMAIN V -> Pure(V[e.n].v, V[e.n].ty)
    [] e.k = "var"       -> Pure(Undeclared(e.n), Void)
    [] e.k = "lit"       -> Pure(Literal(e.n), IF e.n = "0" /\ e.ty = Void THEN Null ELSE e.ty)
    [] e.k \in {"sizeof", "fid"} -> Pure(T(e.k, e.n, <<>>), I64)
    [] e.k = "cast"      -> Meaning(PutInC(e.ty, m.ty, m.v), e.ty, m.effects)
    [] e.k = "deref"     -> IF m.ty.s # "ptr" THEN Meaning(T("mismatch", "*", <<m.v>>), Void, m.effects)
                            ELSE Meaning(PointedTo(m.v), m.ty.t[1], m.effects)
    [] e.k = "un"        -> ECUnary(e, m)
    [] e.k = "bin"       -> ECBinary(e.n, m, EC(X, V, e.a[2]))
    [] e.k \in {"->", "."} -> ECField(X, m, e.k, e.n)
    [] e.k = "compound"  -> ECCompound(X, V, e)
    [] e.k = "character" -> LET i == EC(X, V, e.a[2])
                            IN Meaning(T("character", "", <<m.v, i.v>>), Char, m.effects \o i.effects)
    [] e.k = "index"     -> Pure(T("place", e.a[1].n, <<>>), m.ty.t[1])
    [] e.k = "worker"    -> Performed(Term("worker", e.n, e.ty, <<WorkerTarget(X, V, e)>>), e.ty, <<>>)
    [] e.k = "call"      -> ECCall(X, V, e.a[1], Tail(e.a))
    [] OTHER             -> Pure(T("no expression", e.k, <<>>), Void)

-----------------------------------------------------------------------------

Declare(X, V, s) ==
  LET m == EC(X, V, s.a[1])
      v == IF s.a = <<>> THEN Unset ELSE PutInC(s.ty, m.ty, m.v)
      before == IF s.a = <<>> THEN <<>> ELSE m.effects
  IN IF s.n \in X.src
     THEN C0((s.n :> [v |-> Variable(s.n), ty |-> s.ty]) @@ V, Append(before, Effect(Term("set", s.n, s.ty, <<v>>))))
     ELSE C0((s.n :> [v |-> v, ty |-> s.ty]) @@ V, before)

\* Where a name stands for what was allocated for it, the initial value is part
\* of that.
Fills(V, s) ==
  /\ s.n = "=" /\ s.a[1].k = "deref" /\ s.a[1].a[1].k = "var" /\ s.a[1].a[1].n \in DOMAIN V
  /\ V[s.a[1].a[1].n].v.op = "new"

AssignInC(X, V, s) ==
  LET x == EC(X, V, s.a[1])
      m == EC(X, V, s.a[2])
      v == IF s.n = "=" THEN PutInC(x.ty, m.ty, m.v) ELSE m.v
  IN IF Fills(V, s) THEN C0([V EXCEPT ![s.a[1].a[1].n].v.a = <<v>>], m.effects)
     ELSE C0(V, m.effects \o x.effects \o <<Effect(T("assign", s.n, <<x.v, v>>))>>)

\* The result of a closure or a worker is put where a pointer says: in a
\* variable, in what is outside of the function, or nowhere.
PutResult(V, to, ty, t, before) ==
  CASE to.k = "un"  -> C0([V EXCEPT ![to.a[1].n].v = IF V[to.a[1].n].ty = ty \/ ty = Void THEN t
                                                     ELSE Term("reinterpreted", "", ty, <<t>>)],
                          Append(before, Effect(t)))
    [] to.k = "var" -> C0(V, before \o <<Effect(t), Effect(T("assign", "=", <<PointedTo(V[to.n].v), t>>))>>)
    [] OTHER        -> C0(V, Append(before, Effect(t)))

CallsClosure(X, V, args) ==
  LET f     == EC(X, V, args[1])
      array == V[args[3].n]
      tys   == IF f.ty.s = "closure" THEN f.ty.t ELSE <<>>
      Given(k) == IF k \in DOMAIN tys THEN ReadAs(tys[k], array.v.a[k], array.ty.t[k]) ELSE PointedTo(array.v.a[k])
  IN PutResult(V, args[2], IF f.ty.s = "closure" THEN f.ty.r ELSE Void,
               T("invoke", "", <<f.v>> \o [k \in DOMAIN array.v.a |-> Given(k)]), f.effects)

Receives(X, V, callee, args) ==
  LET w == EC(X, V, callee.a[1])
      u == EC(X, V, args[1])
  IN PutResult(V, args[2], IF w.ty.s = "worker" THEN w.ty.t[2] ELSE Void, T("receive", "", <<w.v>>), w.effects \o u.effects)

Appends(X, V, args) ==
  LET u == EC(X, V, args[2])
  IN C0([V EXCEPT ![args[1].n].v.a = Append(@, ReadAs(V[args[1].n].v.ty, u.v, u.ty))], u.effects)

PerformInC(X, V, e) ==
  LET f == e.a[1]
      args == Tail(e.a)
  IN CASE e.k = "call" /\ f.n = "ey_closure_call" -> CallsClosure(X, V, args)
       [] e.k = "call" /\ f.k = "->" /\ f.n = "receive" -> Receives(X, V, f, args)
       [] e.k = "call" /\ f.n = "ey_vector_append" -> Appends(X, V, args)
       [] OTHER -> C0(V, EC(X, V, e).effects)

\* An array of addresses, or of nothing.
DeclareArray(X, V, s) ==
  LET ms == ECs(X, V, s.a)
  IN C0((s.n :> [v |-> T("array", "", Values(ms)), ty |-> Tuple([k \in DOMAIN ms |-> ms[k].ty])]) @@ V, Effects(ms))

\* A branch is under the conditions that came before it and its own.
IfInC(X, V, R, s) ==
  LET m(k)      == EC(X, V, s.a[k])
      Before(k) == T("branch", "", [j \in 1..((k - 1) \div 2) |-> m(2 * j - 1).v])
      Own(k)    == T("branch", IF s.a[k].k = "else" THEN "else" ELSE "if",
                     Before(k).a \o IF s.a[k].k = "else" THEN <<>> ELSE <<m(k).v>>)
      Segment(j) == LET k == 2 * j - 1 IN
        (CASE s.a[k].k = "else" -> <<>> [] k = 1 -> m(k).effects [] OTHER -> Under(Before(k), m(k).effects))
          \o Under(Own(k), CSAll(X, V, R, s.a[k + 1].a).effects)
  IN C0(V, FlattenSeq([j \in 1..(Len(s.a) \div 2) |-> Segment(j)]))

\* A loop that walks a vector with an index, from its first element.
Walks(V, s) ==
  LET index  == s.a[1].a[1]
      vector == s.a[1].a[2].a[2]
      body   == s.a[2].a
  IN /\ s.a[1].k = "bin" /\ s.a[1].n = "<" /\ index.k = "var" /\ s.a[1].a[2].k = "call"
     /\ s.a[1].a[2].a[1].n = "ey_vector_length"
     /\ Len(body) = 3 /\ Last(body) = C("increment", index.n, <<>>)
     /\ body[1] = CTyped("decl", body[1].n, <<Element(body[1].ty, vector, index)>>, body[1].ty)
     /\ index.n \in DOMAIN V /\ V[index.n].v = Literal("0")

WhileInC(X, V, R, s) ==
  LET m    == EC(X, V, s.a[1])
      x    == s.a[2].a[1]
      inner == (x.n :> [v |-> Variable(x.n), ty |-> x.ty]) @@ V
      loop == T("while", "", <<m.v>>)
  IN IF Walks(V, s)
     THEN C0(V, Under(T("foreach", x.n, <<EC(X, V, s.a[1].a[2].a[2]).v>>), CSAll(X, inner, R, s.a[2].a[2].a).effects))
     ELSE C0(V, Under(loop, m.effects \o CSAll(X, V, R, s.a[2].a).effects))

\* for (x = start; ey_runtime_continue_iterating(step, x, end); x += step)
ForInC(X, V, R, s) ==
  LET inner == (s.n :> [v |-> Variable(s.n), ty |-> s.ty]) @@ V
      bounds == <<EC(X, V, s.a[1]).v, EC(X, V, s.a[2].a[4]).v, EC(X, V, s.a[2].a[2]).v>>
      loop == IF s.a[2].a[3] = CVar(s.n) /\ s.a[3] = s.a[2].a[2] THEN T("range", s.n, bounds) ELSE T("for", s.n, <<>>)
  IN C0(V, Under(loop, CSAll(X, inner, R, s.a[4].a).effects))

ReturnInC(X, V, R, s) ==
  LET m == EC(X, V, s.a[1]) IN
  IF s.a = <<>> THEN C0(V, <<Effect(T("return", "", <<>>))>>)
  ELSE C0(V, Append(m.effects, Effect(T("return", "", <<PutInC(R, m.ty, m.v)>>))))

CS(X, V, R, s) ==
  CASE s.k = "decl"      -> Declare(X, V, s)
    [] s.k = "assign"    -> AssignInC(X, V, s)
    [] s.k = "expr"      -> PerformInC(X, V, s.a[1])
    [] s.k = "array"     -> DeclareArray(X, V, s)
    [] s.k = "if"        -> IfInC(X, V, R, s)
    [] s.k = "while"     -> WhileInC(X, V, R, s)
    [] s.k = "for"       -> ForInC(X, V, R, s)
    [] s.k = "return"    -> ReturnInC(X, V, R, s)
    [] s.k = "break"     -> C0(V, <<Effect(T("break", "", <<>>))>>)
    [] s.k = "increment" -> C0(V, <<Effect(T("increment", s.n, <<>>))>>)
    [] s.k = "block"     -> [CSAll(X, V, R, s.a) EXCEPT !.V = V]

-----------------------------------------------------------------------------

\* One group after the other, each in some order.
Times(e, es) == Cardinality({k \in DOMAIN es : es[k] = e})
RECURSIVE SameEffects(_, _)
SameEffects(groups, es) ==
  IF groups = <<>> THEN es = <<>>
  ELSE LET g == Head(groups) IN
       /\ Len(g) <= Len(es)
       /\ \A k \in DOMAIN g : Times(g[k], g) = Times(g[k], SubSeq(es, 1, Len(g)))
       /\ SameEffects(Tail(groups), SubSeq(es, Len(g) + 1, Len(es)))
=============================================================================
