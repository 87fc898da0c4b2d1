--------------------------- MODULE SourceMeaning ---------------------------
(* What a function of the source means, read from its tree alone: the types of
   its expressions and its effects in order.  This is what the checker and the
   writer are held against, and does not use them.

   A value is a term.  A call, a message or an assignment is an effect: a term
   with the conditions and loops that it is under.  Effects come in groups: in
   a group the order is free, as the order of the operands is in C.

   In a program that is right everything fits.  The checker does not look
   everywhere: where it does not, Asked names what it leaves out, with its
   lines, and a program that fits but for that is one that is accepted. *)
EXTENDS Ast

Term(op, n, ty, a) == [op |-> op, n |-> n, ty |-> ty, a |-> a]
T(op, n, a)        == Term(op, n, Void, a)
Variable(n)        == T("var", n, <<>>)
Literal(n)         == T("lit", n, <<>>)

Effect(t)          == [under |-> <<>>, t |-> t]
Under(g, es)       == [k \in DOMAIN es |-> [es[k] EXCEPT !.under = <<g>> \o @]]

AddressOfTerm(v)   == T("address", "", <<v>>)
PointedTo(v)       == IF v.op = "address" THEN v.a[1] ELSE T("deref", "", <<v>>)

\* A number takes the type of where it is put.
Converted(to, from, v) ==
  IF IsNumeric(to) /\ IsNumeric(from) /\ to # from THEN Term("convert", "", to, <<v>>) ELSE v

\* The meaning of an expression: its value, its type and its effects.
Meaning(v, ty, effects) == [v |-> v, ty |-> ty, effects |-> effects]
Pure(v, ty)             == Meaning(v, ty, <<>>)
Effects(ms)             == FlattenSeq([k \in DOMAIN ms |-> ms[k].effects])
Values(ms)              == [k \in DOMAIN ms |-> ms[k].v]
\* An effect whose term is also its value.
Performed(t, ty, before) == Meaning(t, ty, Append(before, Effect(t)))

Wrong == Basic("wrong")
WrongMeaning == Pure(Literal("wrong"), Wrong)

\* G.all tells whether everything has to fit, or only what the checker looks at.
Asked(G, fits) == G.all => fits

AnyWrong(ms) == \E k \in DOMAIN ms : ms[k].ty = Wrong

\* A value that can be kept has a type that can be written.
CanBeKept(ty) == ty.s \notin {"wrong", "void", "null", "fun"}

\* What may be put where a value of another type is expected.  Tuples of other
\* parts are other structures in C, which are taken for each other when their
\* parts may be, and nothing for nothing (types.go:277-306).
RECURSIVE Fits(_, _, _)
PartsFit(G, to, from) ==
  /\ to.s = "tuple" /\ from.s = "tuple" /\ Len(to.t) = Len(from.t)
  /\ \A k \in DOMAIN to.t : Fits(G, to.t[k], from.t[k])
Fits(G, to, from) ==
  \/ to = from /\ to # Wrong /\ Asked(G, to # Void)
  \/ IsNumeric(to) /\ IsNumeric(from)
  \/ to.s = "ptr" /\ from.s = "null"
  \/ Asked(G, FALSE) /\ PartsFit(G, to, from)

PutMeaning(to, m) == Converted(to, m.ty, m.v)

AllFit(G, tys, ms) == Len(tys) = Len(ms) /\ \A k \in DOMAIN ms : Fits(G, tys[k], ms[k].ty)
PutAll(tys, ms)    == [k \in DOMAIN ms |-> IF k \in DOMAIN tys THEN PutMeaning(tys[k], ms[k]) ELSE ms[k].v]

-----------------------------------------------------------------------------
(* Expressions.  G has the functions (fns) and the structures (structs) of the
   program by name, and all; V the type of each variable and whether it is
   fixed.                                                                  *)

Known(ty, fixed) == [ty |-> ty, fixed |-> fixed]

RECURSIVE M(_, _, _)
Ms(G, V, ts) == [k \in DOMAIN ts |-> M(G, V, ts[k])]

ParameterTypes(fn) == [k \in DOMAIN fn.ps |-> fn.ps[k].ty]

RECURSIVE DefaultValue(_, _)
DefaultValue(G, ty) ==
  CASE ty.s \in {"int", "char", "ptr"} -> Literal("0")
    [] ty.s = "bool" -> Literal("k_false")
    [] ty.s = "str"  -> T("string", "", <<>>)
    [] IsFloat(ty)   -> Converted(ty, F64, Literal("0.00"))
    [] ty.s = "struct" -> LET fs == G.structs[ty.id].fields
                          IN Term("structure", "", ty, [k \in DOMAIN fs |-> DefaultValue(G, fs[k].ty)])

\* The names and the types of the fields are not looked at
\* (expressions.go:282-317).
MStruct(G, V, t) ==
  LET fs == G.structs[t.n].fields
      ms == Ms(G, V, t.a)
      Given(f) == {k \in DOMAIN t.w : t.w[k] = f.n}
      fit == /\ IsInjective(t.w) /\ Range(t.w) \subseteq {f.n : f \in Range(fs)}
             /\ \A f \in Range(fs) : \A k \in Given(f) : Fits(G, f.ty, ms[k].ty)
      Field(f) == IF Given(f) = {} THEN DefaultValue(G, f.ty)
                  ELSE LET k == CHOOSE k \in Given(f) : TRUE IN PutMeaning(f.ty, ms[k])
  IN IF AnyWrong(ms) \/ ~Asked(G, fit) THEN WrongMeaning
     ELSE Meaning(Term("structure", "", Struct(t.n), [k \in DOMAIN fs |-> Field(fs[k])]), Struct(t.n), Effects(ms))

\* Strings that differ are strings that are not equal.
Operation(op, l, r) ==
  IF op = "!=" /\ l.ty = Str THEN T("un", "!", <<T("bin", "==", <<l.v, r.v>>)>>) ELSE T("bin", op, <<l.v, r.v>>)

\* What an operator is for; that its operands are alike is what is looked at
\* (expressions.go:502-546).
TakesOperand(op, ty) ==
  CASE op \in {"+", "-", "*", "/", "%"}   -> IsNumeric(ty) \/ (op = "+" /\ ty = Str)
    [] op \in {"<", "<=", ">", ">="}      -> IsNumeric(ty) \/ ty = Char
    [] op \in {"&&", "||"}                -> ty = Bool
    [] op \in {"==", "!="}                -> ty.s \notin {"void", "fun", "struct", "tuple"}

\* Functions are alike whatever they are compiled for.
Alike(l, r) == l = r \/ (l.s = "fun" /\ r.s = "fun" /\ [l EXCEPT !.location = ""] = [r EXCEPT !.location = ""])

\* The right side of && and || is under the left.
MBinary(G, V, t) ==
  LET l  == M(G, V, t.a[1])
      r  == M(G, V, t.a[2])
      ty == CASE t.n \in {"+", "-", "*", "/"} /\ IsFloat(l.ty) /\ IsFloat(r.ty) ->
                   IF F64 \in {l.ty, r.ty} THEN F64 ELSE F32
              [] t.n \in {"+", "-", "*", "/"} /\ Alike(l.ty, r.ty) -> l.ty
              [] t.n = "%" /\ l.ty = I64 /\ r.ty = I64       -> I64
              [] t.n \in {"==", "!="} /\ {l.ty.s, r.ty.s} = {"ptr", "null"} -> Bool
              [] t.n \notin {"+", "-", "*", "/", "%"} /\ Alike(l.ty, r.ty) -> Bool
              [] OTHER -> Wrong
      fails == \/ Wrong \in {l.ty, r.ty}
               \/ {l.ty, r.ty} = {Null}
               \/ l.ty = Str /\ t.n \notin {"+", "==", "!="}
               \/ ~Asked(G, TakesOperand(t.n, l.ty) /\ TakesOperand(t.n, r.ty))
      right == IF t.n \in {"&&", "||"} THEN Under(T(t.n, "", <<l.v>>), r.effects) ELSE r.effects
  IN IF fails THEN WrongMeaning
     ELSE Meaning(Operation(t.n, l, r), ty, l.effects \o right)

MUnary(op, m) ==
  CASE m.ty = Wrong               -> m
    [] op = "!" /\ m.ty = Bool    -> Meaning(T("un", "!", <<m.v>>), Bool, m.effects)
    [] op = "-" /\ IsNumeric(m.ty) -> Meaning(T("un", "-", <<m.v>>), m.ty, m.effects)
    [] OTHER                      -> WrongMeaning

MPointedTo(m) == IF m.ty.s = "ptr" THEN Meaning(PointedTo(m.v), m.ty.t[1], m.effects) ELSE WrongMeaning

\* A field of what a pointer points to needs no dereference in the source.
FieldOf(m, n) == T("field", n, <<IF m.ty.s = "ptr" THEN PointedTo(m.v) ELSE m.v>>)

\* A member that is called, or the name of one that is not (expressions.go:392).
Uncalled(G, at, n) ==
  CASE at.s = "struct" /\ HasField(G.structs[at.id], n) -> GetField(G.structs[at.id], n)
    [] \/ at.s = "str" /\ n \in {"length", "resize"}
       \/ at.s = "vec" /\ n \in {"length", "resize", "erase", "append"} ->
         Fun(<<>>, IF n = "length" THEN I64 ELSE Void, "cpu")
    [] OTHER -> Wrong

MField(G, m, n) ==
  LET at == Unwrapped(m.ty)
      fs == IF at.s = "struct" THEN SelectSeq(G.structs[at.id].fields, LAMBDA f : f.n = n) ELSE <<>>
  IN CASE fs # <<>>        -> Meaning(FieldOf(m, n), fs[1].ty, m.effects)
       [] Asked(G, FALSE)  -> Meaning(FieldOf(m, n), Uncalled(G, at, n), m.effects)
       [] OTHER            -> WrongMeaning

MIndex(m, i, fits) ==
  LET at == Unwrapped(m.ty) IN
  CASE i.ty = Wrong \/ ~fits -> WrongMeaning
    [] at.s = "vec"  -> Meaning(T("element", "", <<m.v, i.v>>), at.t[1], m.effects \o i.effects)
    [] at.s = "str"  -> Meaning(T("character", "", <<m.v, i.v>>), Char, m.effects \o i.effects)
    [] OTHER         -> WrongMeaning

\* A call of a function, or of a closure, with arguments that are put into the
\* types of the parameters.
Calling(name, before, fn, first, ms) ==
  Performed(T("call", name, first \o PutAll(ParameterTypes(fn), ms)), fn.ret, before \o Effects(ms))
MCallOf(G, name, fn, ms) ==
  IF AllFit(G, ParameterTypes(fn), ms) THEN Calling(name, <<>>, fn, <<>>, ms) ELSE WrongMeaning

\* A closure takes its arguments as they are, a number for another one too
\* (expressions.go:1090-1117).
MInvoke(G, f, ms) ==
  IF f.ty.s # "closure" \/ ~AllFit(G, f.ty.t, ms) \/ ~Asked(G, \A k \in DOMAIN ms : ms[k].ty = f.ty.t[k]) THEN WrongMeaning
  ELSE Performed(T("invoke", "", <<f.v>> \o PutAll(f.ty.t, ms)), f.ty.r, f.effects \o Effects(ms))

\* What the methods of a string and of a vector are for.  The arguments of the
\* method of a structure, and those that length has none of, are not looked at
\* (expressions.go:828-841, :848, :970).
MMethod(G, m, n, ms) ==
  LET at   == Unwrapped(m.ty)
      Runtime(name, ret, more) ==
        Performed(T("call", name, <<m.v>> \o Values(ms) \o more), ret, m.effects \o Effects(ms))
      Ints == \A k \in DOMAIN ms : ms[k].ty = I64
      self == IF m.ty.s = "ptr" THEN m.v ELSE AddressOfTerm(m.v)
      fns  == IF at.s = "struct" THEN SelectSeq(G.structs[at.id].fns, LAMBDA f : f.n = n) ELSE <<>>
  IN CASE AnyWrong(ms) -> WrongMeaning
       [] at.s = "struct" /\ fns # <<>> /\ Asked(G, AllFit(G, ParameterTypes(fns[1]), ms)) ->
            Calling(at.id \o "." \o n, m.effects, fns[1], <<self>>, ms)
       [] at.s = "str" /\ n = "length" /\ Asked(G, ms = <<>>) -> Runtime("ey_runtime_string_character_length", I64, <<>>)
       [] at.s = "str" /\ n = "resize" /\ Len(ms) = 1 /\ Ints -> Runtime("ey_runtime_string_resize", Void, <<>>)
       [] at.s = "vec" /\ n = "length" /\ Asked(G, ms = <<>>) -> Runtime("ey_vector_length", I64, <<>>)
       [] at.s = "vec" /\ n = "resize" /\ Len(ms) = 1 /\ Ints -> Runtime("ey_vector_resize", Void, <<>>)
       [] at.s = "vec" /\ n = "erase" /\ Len(ms) = 1 /\ Ints -> Runtime("ey_vector_erase", Void, <<Literal("1")>>)
       [] at.s = "vec" /\ n = "erase" /\ Len(ms) = 2 /\ Ints -> Runtime("ey_vector_erase", Void, <<>>)
       [] at.s = "vec" /\ n = "append" /\ AllFit(G, at.t, ms) ->
            Performed(T("call", "vector_add", <<m.v>> \o PutAll(at.t, ms)), Void, m.effects \o Effects(ms))
       [] OTHER -> WrongMeaning

MCall(G, V, t) ==
  LET f  == t.a[1]
      ms == Ms(G, V, Tail(t.a))
  IN CASE f.k = "gpufn"  -> MCallOf(G, f.n, [ps |-> <<[n |-> "x", ty |-> F32]>>, ret |-> F32], ms)
       [] f.k = "access" -> LET m == M(G, V, f.a[1]) IN
                            IF m.ty = Wrong THEN m ELSE MMethod(G, m, f.n, ms)
       [] f.k = "id" /\ f.n \in DOMAIN G.fns /\ f.n \notin DOMAIN V -> MCallOf(G, f.n, G.fns[f.n], ms)
       [] OTHER          -> MInvoke(G, M(G, V, f), ms)

\* The arguments that are given are kept in the closure, as they are; they are
\* not looked at (closure.go:84-108).
MPartial(G, V, t) ==
  LET args == Tail(t.a)
      fn   == G.fns[t.a[1].n]
      tys  == ParameterTypes(fn)
      Open == {k \in DOMAIN args : args[k].k = "none"}
      ms   == [k \in DOMAIN args |-> IF k \in Open THEN Pure(T("open", "", <<>>), Void) ELSE M(G, V, args[k])]
  IN IF Len(args) # Len(tys) \/ ~Asked(G, \A k \in DOMAIN args \ Open : ms[k].ty = tys[k]) THEN WrongMeaning
     ELSE Meaning(T("closure", t.a[1].n, PutAll(tys, ms)),
                  Closure([k \in 1..Cardinality(Open) |-> tys[SetToSortSeq(Open, <)[k]]], fn.ret), Effects(ms))

\* A worker runs a function or a closure of one parameter, that may be sent to
\* where it runs; on the GPU a function that has a name.
MWorker(G, V, t) ==
  LET f  == M(G, V, t.a[1])
      ty == Worker(f.ty.t[1], f.ty.r)
  IN CASE ~IsCallable(f.ty) \/ Len(f.ty.t) # 1                  -> WrongMeaning
       [] t.n = "gpu" /\ ~CanPassToGpu(G.structs, f.ty.t[1])     -> WrongMeaning
       [] t.n = "gpu" /\ f.ty.s = "fun" /\ t.a[1].k # "id"       -> WrongMeaning
       [] OTHER -> Performed(Term("worker", t.n, ty, <<f.v>>), ty, f.effects)

\* Of a worker without results everything can be waited for, but none received.
MReceive(m, drain) ==
  CASE m.ty.s # "worker"    -> WrongMeaning
    [] m.ty.t[2] # Void     -> Performed(T(IF drain THEN "drain" ELSE "receive", "", <<m.v>>),
                                         IF drain THEN MakeVector(m.ty.t[2]) ELSE m.ty.t[2], m.effects)
    [] drain                -> Performed(T("drain", "", <<m.v>>), Void, m.effects)
    [] OTHER                -> WrongMeaning

MPipeline(l, r) ==
  IF l.ty.s # "worker" \/ r.ty.s # "worker" THEN WrongMeaning
  ELSE IF l.ty.t[2] # r.ty.t[1] THEN WrongMeaning
  ELSE Performed(T("pipeline", "", <<l.v, r.v>>), Worker(l.ty.t[1], r.ty.t[2]), l.effects \o r.effects)

MIdentifier(G, V, n) ==
  CASE n \in DOMAIN V     -> Pure(Variable(n), V[n].ty)
    [] n \in DOMAIN G.fns -> Pure(T("fn", n, <<>>), Fun(ParameterTypes(G.fns[n]), G.fns[n].ret, G.fns[n].loc))
    [] OTHER              -> WrongMeaning

MNew(m) ==
  IF ~CanBeKept(m.ty) THEN WrongMeaning
  ELSE Meaning(Term("new", "", m.ty, <<m.v>>), MakePointer(m.ty),
               Append(m.effects, Effect(Term("allocate", "", m.ty, <<>>))))

\* That the parts can be kept is not looked at (expressions.go:352-364).
MTuple(G, ms) ==
  IF AnyWrong(ms) \/ ~Asked(G, \A k \in DOMAIN ms : CanBeKept(ms[k].ty)) THEN WrongMeaning
  ELSE Meaning(T("tuple", "", Values(ms)), Tuple([k \in DOMAIN ms |-> ms[k].ty]), Effects(ms))

MVector(G, ty, ms) ==
  IF \E k \in DOMAIN ms : ~Fits(G, ty, ms[k].ty) THEN WrongMeaning
  ELSE Meaning(Term("vector", "", ty, [k \in DOMAIN ms |-> PutMeaning(ty, ms[k])]), MakeVector(ty),
               Append(Effects(ms), Effect(Term("allocate vector", "", ty, <<>>))))

M(G, V, t) ==
  LET m == M(G, V, t.a[1]) IN
  CASE t.k \in {"int", "char", "float"} -> Pure(Literal(t.n), CASE t.k = "int" -> I64 [] t.k = "char" -> Char [] OTHER -> t.ty)
    [] t.k = "bool"     -> Pure(Literal("k_" \o t.n), Bool)
    [] t.k = "null"     -> Pure(Literal("0"), Null)
    [] t.k = "str"      -> Pure(T("string", t.n, <<>>), Str)
    [] t.k = "self"     -> Pure(Variable("ey_self"), V["ey_self"].ty)
    [] t.k = "id"       -> MIdentifier(G, V, t.n)
    [] t.k = "cast"     -> IF Fits(G, t.ty, m.ty) THEN Meaning(PutMeaning(t.ty, m), t.ty, m.effects) ELSE WrongMeaning
    [] t.k = "deref"    -> MPointedTo(m)
    [] t.k = "un"       -> MUnary(t.n, m)
    [] t.k = "bin"      -> MBinary(G, V, t)
    [] t.k = "access"   -> MField(G, m, t.n)
    [] t.k = "index"    -> LET i == M(G, V, t.a[2]) IN MIndex(m, i, i.ty = I64)
    [] t.k = "tuple"    -> MTuple(G, Ms(G, V, t.a))
    [] t.k = "struct"   -> MStruct(G, V, t)
    [] t.k = "call"     -> MCall(G, V, t)
    [] t.k = "new"      -> MNew(m)
    [] t.k = "veclit"   -> MVector(G, t.ty, Ms(G, V, t.a))
    [] t.k = "closure"  -> MPartial(G, V, t)
    [] t.k = "worker"   -> MWorker(G, V, t)
    [] t.k = "receive"  -> MReceive(m, t.set)
    [] t.k = "pipeline" -> MPipeline(m, M(G, V, t.a[2]))
    [] t.k = "range"    -> LET ms == Ms(G, V, t.a) IN
                           IF \E k \in 1..3 : ms[k].ty # I64 THEN WrongMeaning ELSE
                           Performed(T("call", "ey_runtime_range", <<ms[2].v, ms[1].v, ms[3].v>>), MakeVector(I64), Effects(ms))

-----------------------------------------------------------------------------
(* Statements: the groups of effects, the variables after it, and whether its
   types are right.  R is the type that the function returns.               *)

S0(V, groups, ok) == [V |-> V, groups |-> groups, ok |-> ok]
UnderAll(g, groups) == [k \in DOMAIN groups |-> Under(g, groups[k])]
Only(t)             == <<Effect(t)>>

\* The index of an element that is set is not looked at (lvalues.go:176-200).
RECURSIVE ML(_, _, _)
ML(G, V, t) ==
  CASE t.k = "lid" /\ t.n \notin DOMAIN V -> WrongMeaning
    [] t.k = "lid"    -> Pure(Variable(t.n), V[t.n].ty)
    [] t.k = "lself"  -> Pure(Variable("ey_self"), V["ey_self"].ty)
    [] t.k = "lderef" -> MPointedTo(ML(G, V, t.a[1]))
    [] t.k = "lfield" -> MField(G, ML(G, V, t.a[1]), t.n)
    [] t.k = "lindex" -> LET i == M(G, V, t.a[2]) IN MIndex(ML(G, V, t.a[1]), i, Asked(G, i.ty = I64))

\* A constant is fixed with all that it has; self is, but not its fields.
RECURSIVE MayBeSet(_, _)
MayBeSet(V, t) ==
  CASE t.k = "lid"    -> t.n \in DOMAIN V => ~V[t.n].fixed
    [] t.k = "lself"  -> FALSE
    [] t.k = "lmulti" -> \A k \in DOMAIN t.a : MayBeSet(V, t.a[k])
    [] OTHER          -> t.a[1].k = "lself" \/ MayBeSet(V, t.a[1])

\* The parts of a tuple that several variables are given.
PartOf(v, k) == IF v.op = "tuple" THEN v.a[k] ELSE T("part", ToString(k - 1), <<v>>)
Targets(t)   == IF t.k = "lmulti" THEN t.a ELSE <<t>>
Parts(t, m)  == IF t.k = "lmulti" THEN [k \in DOMAIN t.a |-> Pure(PartOf(m.v, k), m.ty.t[k])] ELSE <<m>>
Matches(t, m) == t.k = "lmulti" => m.ty.s = "tuple" /\ Len(m.ty.t) = Len(t.a)

SLet(G, V, t) ==
  LET m  == M(G, V, t.a[2])
      xs == Targets(t.a[1])
      ps == Parts(t.a[1], m)
      ok == ~AnyWrong(ps) /\ (t.a[1].k # "lmulti" \/ G.all => \A k \in DOMAIN ps : CanBeKept(ps[k].ty))
  IN IF ~Matches(t.a[1], m) THEN S0(V, <<>>, FALSE)
     ELSE S0([x \in {xs[k].n : k \in DOMAIN xs} |->
                Known(ps[CHOOSE k \in DOMAIN xs : xs[k].n = x].ty, t.n = "const")] @@ V,
             <<m.effects>> \o [k \in DOMAIN xs |-> Only(Term("set", xs[k].n, ps[k].ty, <<ps[k].v>>))], ok)

SAssign(G, V, t) ==
  LET m  == M(G, V, t.a[2])
      xs == [k \in DOMAIN Targets(t.a[1]) |-> ML(G, V, Targets(t.a[1])[k])]
      ps == Parts(t.a[1], m)
  IN IF ~Matches(t.a[1], m) THEN S0(V, <<>>, FALSE)
     ELSE S0(V, <<m.effects \o Effects(xs)>> \o
                [k \in DOMAIN xs |-> Only(T("assign", "=", <<xs[k].v, PutMeaning(xs[k].ty, ps[k])>>))],
             MayBeSet(V, t.a[1]) /\ \A k \in DOMAIN xs : Fits(G, xs[k].ty, ps[k].ty))

\* Neither what is changed nor by what is looked at (statements.go:479-491).
SModify(G, V, t) ==
  LET x == ML(G, V, t.a[1])
      m == M(G, V, t.a[2])
  IN S0(V, <<m.effects \o x.effects, Only(T("assign", t.n, <<x.v, m.v>>))>>,
        MayBeSet(V, t.a[1]) /\ ~AnyWrong(<<x, m>>) /\ Asked(G, IsNumeric(x.ty) /\ IsNumeric(m.ty)))

\* The values are there before the first is printed.
SPrint(V, t, ms) ==
  S0(V, <<Effects(ms)>> \o [k \in DOMAIN ms |-> Only(T("call", "ey_print_" \o ms[k].ty.s, <<ms[k].v>>))] \o
        <<Only(T("call", IF t.a[1].n = "print_ln" THEN "ey_print_nl" ELSE "ey_noop", <<>>))>>,
     \A k \in DOMAIN ms : ms[k].ty.s \in {"int", "f32", "f64", "str", "bool", "char"})

RECURSIVE S(_, _, _, _)
RECURSIVE SAll(_, _, _, _)
SAll(G, V, R, ts) ==
  IF ts = <<>> THEN S0(V, <<>>, TRUE)
  ELSE LET s    == S(G, V, R, Head(ts))
           rest == SAll(G, s.V, R, Tail(ts))
       IN IF ~s.ok THEN s ELSE S0(rest.V, s.groups \o rest.groups, rest.ok)

\* A name is bound once in a block.
NamesBound(t) ==
  IF t.k = "assign" /\ t.n # "normal" THEN [k \in DOMAIN Targets(t.a[1]) |-> Targets(t.a[1])[k].n] ELSE <<>>
SBlock(G, V, R, t) ==
  LET s == SAll(G, V, R, t.a)
  IN [s EXCEPT !.ok = @ /\ IsInjective(FlattenSeq([k \in DOMAIN t.a |-> NamesBound(t.a[k])]))]

\* A branch is under the conditions that came before it and its own.
SIf(G, V, R, t) ==
  LET Conditions == {k \in DOMAIN t.a : k % 2 = 1 /\ t.a[k].k # "none"}
      m(k) == M(G, V, t.a[k])
      Before(k) == T("branch", "", [j \in 1..((k - 1) \div 2) |-> m(2 * j - 1).v])
      Own(k)    == T("branch", IF k \in Conditions THEN "if" ELSE "else",
                     Before(k).a \o IF k \in Conditions THEN <<m(k).v>> ELSE <<>>)
      block(k)  == SBlock(G, V, R, t.a[k + 1])
      Segment(j) == LET k == 2 * j - 1 IN
        (IF k \notin Conditions THEN <<>> ELSE IF k = 1 THEN <<m(k).effects>> ELSE <<Under(Before(k), m(k).effects)>>)
          \o UnderAll(Own(k), block(k).groups)
  IN S0(V, FlattenSeq([j \in 1..(Len(t.a) \div 2) |-> Segment(j)]),
        /\ \A k \in Conditions : m(k).ty = Bool
        /\ \A k \in DOMAIN t.a : k % 2 = 1 => block(k).ok)

\* The type of the condition is not looked at (statements.go:261-264).
SWhile(G, V, R, t) ==
  LET m    == M(G, V, t.a[1])
      loop == T("while", "", <<m.v>>)
      body == SBlock(G, V, R, t.a[2])
  IN S0(V, UnderAll(loop, <<m.effects>> \o body.groups), m.ty # Wrong /\ Asked(G, m.ty = Bool) /\ body.ok)

\* A range that is walked is no vector.
SForeach(G, V, R, t) ==
  LET range == t.a[1].k = "range"
      m     == M(G, V, t.a[1])
      ms    == Ms(G, V, t.a[1].a)
      ty    == IF range THEN I64 ELSE Unwrapped(m.ty).t[1]
      loop  == IF range THEN T("range", t.n, <<ms[2].v, ms[1].v, ms[3].v>>) ELSE T("foreach", t.n, <<m.v>>)
      body  == SBlock(G, (t.n :> Known(ty, FALSE)) @@ V, R, t.a[2])
  IN IF range /\ ms[1].ty = I64 /\ ms[2].ty = I64 /\ ms[3].ty = I64
     THEN S0(V, <<Effects(ms)>> \o UnderAll(loop, body.groups), body.ok)
     ELSE IF range \/ Unwrapped(m.ty).s # "vec" THEN S0(V, <<>>, FALSE)
     ELSE S0(V, <<m.effects>> \o UnderAll(loop, body.groups), body.ok)

\* A tuple that is returned as it is written is one of the returned type.
Repacked(R, m) ==
  IF R.s = "tuple" /\ m.v.op = "tuple" THEN [m.v EXCEPT !.a = [k \in DOMAIN @ |-> Converted(R.t[k], m.ty.t[k], @[k])]]
  ELSE PutMeaning(R, m)
SReturn(G, V, R, t) ==
  LET m == M(G, V, t.a[1]) IN
  IF t.a[1].k = "none" THEN S0(V, <<Only(T("return", "", <<>>))>>, R = Void)
  ELSE S0(V, <<m.effects, Only(T("return", "", <<Repacked(R, m)>>))>>,
          Fits(G, R, m.ty) \/ (m.v.op = "tuple" /\ PartsFit(G, R, m.ty)))

\* Numbers are taken for other numbers (statements.go:359).
SSend(G, V, w, v) ==
  S0(V, <<w.effects \o v.effects, Only(T("send", "", <<w.v, v.v>>))>>,
     /\ w.ty.s = "worker" /\ v.ty.s = "ptr"
     /\ v.ty.t[1].s = "vec" /\ Fits(G, w.ty.t[1], v.ty.t[1].t[1])
     /\ Asked(G, v.ty = MakeVector(w.ty.t[1])))

S(G, V, R, t) ==
  LET m == M(G, V, t.a[1]) IN
  CASE t.k = "expr" /\ t.a[1].k = "call" /\ t.a[1].a[1].k = "id" /\ t.a[1].a[1].n \in {"print", "print_ln"} ->
         SPrint(V, t.a[1], Ms(G, V, Tail(t.a[1].a)))
    [] t.k = "expr"    -> S0(V, <<m.effects>>, m.ty # Wrong)
    [] t.k = "assign"  -> IF t.n = "normal" THEN SAssign(G, V, t) ELSE SLet(G, V, t)
    [] t.k = "modify"  -> SModify(G, V, t)
    [] t.k = "return"  -> SReturn(G, V, R, t)
    [] t.k = "send"    -> SSend(G, V, m, M(G, V, t.a[2]))
    [] t.k = "if"      -> SIf(G, V, R, t)
    [] t.k = "while"   -> SWhile(G, V, R, t)
    [] t.k = "foreach" -> SForeach(G, V, R, t)
    [] t.k = "break"   -> S0(V, <<Only(T("break", "", <<>>))>>, TRUE)
    [] t.k = "block"   -> [SBlock(G, V, R, t) EXCEPT !.V = V]
=============================================================================
