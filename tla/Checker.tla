------------------------------ MODULE Checker ------------------------------
(* The checker (ast/check.go, expressions.go, lvalues.go, statements.go,
   worker-expressions.go, closure.go, functions.go, structs.go, tles.go,
   module.go).  Four passes go over the same tree, each with one method, Check,
   on every kind of node; here Check(c, x, s) is the context c after node x was
   checked in scope s.  After the first error only the refusal of the module
   matters: a context with an error is left alone. *)
EXTENDS Ast

\* NewCheckContext, with the tree of the module and its scopes: what a scope
\* binds is under the path of the scope and the name.
NewContext(els, heap, vars) ==
  [pass |-> "tle", err |-> "", els |-> els, heap |-> heap, vars |-> vars,
   structs |-> <<>>,      \* the structures that the scope of the module knows
   required |-> <<>>,     \* Structs: identifiers with the type that took each
   vectors |-> {}, strings |-> <<>>, closureSize |-> 0, gpuRequired |-> FALSE,
   insert |-> <<>>,       \* insertStatements, a stack
   insertEls |-> <<>>, return |-> <<>>, temp |-> 0, cpu |-> 0, gpu |-> 0,
   functions |-> {}]

Fail(c, how) == [c EXCEPT !.err = how]
Error(c)     == Fail(c, "error")
Panic(c)     == Fail(c, "panic")

\* Further steps of a method, unless an error was logged.
Then(c, Step(_)) == IF c.err = "" THEN Step(c) ELSE c

\* Mutant: a function of both targets may use what only the CPU has.
NoteCpuRequiredOnGpu(c) == IF c.gpu > 0 THEN Error(c) ELSE c

NoteCpuRequired(c) == IF c.cpu = 0 THEN Error(c) ELSE c
NoteGpuRequired(c) == IF c.gpu = 0 THEN Error(c) ELSE c

\* GetUniqueId and GetTemporaryName: the name of the last number that was taken.
NewTemp(c)  == [c EXCEPT !.temp = @ + 1]
TempName(k) == "ey_temp_" \o ToString(k)
Temp(c)     == TempName(c.temp)

SetTy(c, x, ty) == [c EXCEPT !.heap[x].ty = ty]

\* Trees that the checker makes have ids that no path of the source has.
Added(c)     == <<0, c.temp>>
AddHere(c, t) == [c EXCEPT !.heap = Load(t, Added(c)) @@ @]
Add(c, t)    == AddHere(NewTemp(c), t)

\* Mutant: what is inserted last comes first.
InsertStatementFirst(c, t) ==
  IF c.insert = <<>> THEN Panic(c)
  ELSE LET d == Add(c, t)
       IN [d EXCEPT !.insert[Len(d.insert)] = <<Added(d)>> \o @]

InsertAdded(c) == [c EXCEPT !.insert[Len(c.insert)] = Append(@, Added(c))]
InsertStatementBefore(c, t) ==
  IF c.insert = <<>> THEN Panic(c) ELSE InsertAdded(Add(c, t))

InsertElementBefore(c, el) == [c EXCEPT !.insertEls = Append(@, el)]

-----------------------------------------------------------------------------
(* Scopes.                                                                 *)

RECURSIVE Binding(_, _, _)
Binding(c, s, n) ==
  CASE <<s, n>> \in DOMAIN c.vars -> <<c.vars[<<s, n>>]>>
    [] s = <<>>                   -> <<>>
    [] OTHER                      -> Binding(c, Front(s), n)

CannotBeDefinedAtThisLevel(c, s, n) == <<s, n>> \in DOMAIN c.vars

\* A function that has a definition for each target can be called anywhere.
SetVariable(c, s, n, ty, assignable) ==
  LET old == c.vars[<<s, n>>].ty
      bound == <<s, n>> \in DOMAIN c.vars
      new == [ty |-> ty, assignable |-> assignable]
  IN CASE IsCallable(ty) /\ bound /\ ~IsCallable(old) -> Panic(c)
       [] IsCallable(ty) /\ bound /\ {old.location, ty.location} = {"cpu", "gpu"}
            -> [c EXCEPT !.vars[<<s, n>>].ty.location = "anywhere"]
       [] OTHER -> [c EXCEPT !.vars = (<<s, n>> :> new) @@ @]

-----------------------------------------------------------------------------
(* The type of an expression, cached or made of the types of its parts.    *)

RECURSIVE NodeType(_, _)
TypeOf(c, x)   == NodeType(c, c.heap[x])
TypesOf(c, xs) == [k \in DOMAIN xs |-> TypeOf(c, xs[k])]

\* That of a partial application has the parameters that no argument is for; of
\* what has no type yet nothing is returned.
OpenParameters(n) == SetToSortSeq({k \in 1..Len(n.a) - 1 : n.a[k + 1] = Nil}, <)
ClosureType(open, called) ==
  Closure([k \in DOMAIN open |-> called.t[open[k]]], IF IsCallable(called) THEN called.r ELSE Void)

\* A pointer to what is allocated, what a pointer points to, what a worker returns.
MadeOf(n, ty) ==
  CASE n.k = "new"     -> MakePointer(ty)
    [] n.k = "closure" -> ClosureType(OpenParameters(n), ty)
    [] n.k = "receive" -> IF n.set /\ ty.t[2] # Void THEN MakeVector(ty.t[2]) ELSE ty.t[2]
    [] n.k \in {"deref", "lderef"} -> ty.t[1]

NodeType(c, n) ==
  CASE n.k = "sizeof"              -> I64
    [] n.k = "veclit"              -> MakeVector(n.ty)
    [] n.k \in {"tuple", "lmulti"} -> Tuple(TypesOf(c, n.a))
    [] n.k \in {"new", "deref", "lderef", "closure", "receive"} -> MadeOf(n, TypeOf(c, n.a[1]))
    [] OTHER                       -> n.ty

\* Before it was checked the type of what is made of others may not exist: to
\* ask for it panics.
LastPartNeeded(n) ==
  CASE n.k = "deref"   -> 1
    [] n.k = "receive" -> 2
    [] n.k = "closure" -> Max({0} \cup Range(OpenParameters(n)))
    [] OTHER           -> 0

RECURSIVE NodeTypeFails(_, _)
TypeFails(c, x) == NodeTypeFails(c, c.heap[x])
NodeTypeFails(c, n) ==
  CASE n.k = "tuple" -> \E k \in DOMAIN n.a : TypeFails(c, n.a[k])
    [] n.k \in {"new", "deref", "receive", "closure"} ->
         TypeFails(c, n.a[1]) \/ Len(TypeOf(c, n.a[1]).t) < LastPartNeeded(n)
    [] OTHER -> FALSE

-----------------------------------------------------------------------------
(* What is collected in passing.                                           *)

GetStringId(c, v) ==
  IF \E k \in DOMAIN c.strings : c.strings[k] = v THEN c
  ELSE [c EXCEPT !.strings = Append(@, v)]
StringId(c, v) == CHOOSE k \in DOMAIN c.strings : c.strings[k] = v

RequireVector(c, ty) == [c EXCEPT !.vectors = @ \cup {WriteId(ty)}]

\* A tuple or a structure is required under its identifier, once.
RequireType(c, ty) ==
  Then(IF ty = F64 THEN NoteCpuRequired(c) ELSE c, LAMBDA d :
    CASE ty.s \notin {"tuple", "struct"} -> d
      [] \E r \in Range(d.required) : r.id = TupleIdentifier(ty) -> d
      [] ty.s = "struct" /\ ty.id \notin DOMAIN d.structs -> Error(d)
      [] OTHER -> [d EXCEPT !.required = Append(@, [id |-> TupleIdentifier(ty), ty |-> ty])])

RECURSIVE Check(_, _, _)

RECURSIVE CheckAll(_, _, _)
CheckAll(c, xs, s) ==
  IF xs = <<>> THEN c ELSE CheckAll(Check(c, Head(xs), s), Tail(xs), s)

-----------------------------------------------------------------------------
(* Expressions.                                                            *)

CheckLiteral(c, x) ==
  CASE c.pass = "types" -> RequireType(c, TypeOf(c, x))
    [] c.pass = "check" /\ c.heap[x].k = "str" ->
         LET d == GetStringId(c, c.heap[x].n)
         IN [d EXCEPT !.heap[x].rep = ToString(StringId(d, c.heap[x].n))]
    [] OTHER -> c

CheckCast(c, x, s) ==
  LET n == c.heap[x] IN
  Then(Check(c, n.a[1], s), LAMBDA d :
    CASE d.pass = "types" -> RequireType(d, n.ty)
      [] d.pass = "check" /\ n.set /\ ~CanAssignTo(TypeOf(d, n.a[1]), n.ty) -> Error(d)
      [] OTHER -> d)

\* The type of a variable, self being one.
SetVariableType(c, x, s, name) ==
  LET b == Binding(c, s, name) IN
  IF b = <<>> THEN Error(c) ELSE RequireType(SetTy(c, x, b[1].ty), b[1].ty)

CheckSelf(c, x, s) == IF c.pass = "types" THEN SetVariableType(c, x, s, "__self__") ELSE c

CheckGpuBuiltin(c, x) ==
  IF c.heap[x].n \in {"sqrt", "exp"} THEN NoteGpuRequired(c) ELSE Error(c)

\* Module.LookupFunction, by name: functions of structures are not among them.
IsFunctionOf(c, name) == \E f \in Range(c.els) : f.k = "fn" /\ f.n = name

CheckIdentifier(c, x, s) ==
  LET n == c.heap[x] IN
  CASE n.set -> c
    [] c.pass = "types" -> SetVariableType(c, x, s, n.n)
    [] c.pass = "mutate" /\ n.ty.s = "fun" ->
         IF IsFunctionOf(c, n.n) THEN [c EXCEPT !.heap[x].rep = n.n] ELSE Error(c)
    [] OTHER -> c

-----------------------------------------------------------------------------
(* DefaultValueExpression: the value of a field that a literal leaves out. *)

HasNoCaseForDefault(ty) == ty.s \in {"tuple", "void"}

RECURSIVE HasDefault(_, _)
HasDefault(c, ty) ==
  IF ty.s = "struct"
  THEN ty.id \in DOMAIN c.structs /\ \A f \in Range(c.structs[ty.id].fields) : HasDefault(c, f.ty)
  ELSE ty.s \notin {"closure", "fun", "worker", "vec"}

RECURSIVE Default(_, _)
Default(c, ty) ==
  CASE ty.s = "int"  -> IntLit("0")
    [] ty.s = "str"  -> Typed("str", "", <<>>, Str)
    [] ty.s = "bool" -> Typed("bool", "false", <<>>, Bool)
    [] ty.s = "char" -> Typed("char", "0", <<>>, Char)
    [] IsFloat(ty)   -> Typed("float", "0.00", <<>>, ty)
    [] ty.s \in {"ptr", "null"} -> NullLit
    [] ty.s = "struct" ->
         LET fs == c.structs[ty.id].fields
         IN [Typed("struct", ty.id, [k \in DOMAIN fs |-> Default(c, fs[k].ty)], ty)
               EXCEPT !.w = [k \in DOMAIN fs |-> fs[k].n]]

RECURSIVE AddDefaults(_, _, _)
AddDefaults(c, x, fs) ==
  CASE fs = <<>> -> c
    [] fs # <<>> /\ Head(fs).n \in Range(c.heap[x].w) -> AddDefaults(c, x, Tail(fs))
    [] fs # <<>> /\ HasNoCaseForDefault(Head(fs).ty)  -> Panic(c)
    [] fs # <<>> /\ ~HasDefault(c, Head(fs).ty)       -> Error(c)
    [] OTHER ->
         LET d == Add(c, Default(c, Head(fs).ty))
         IN AddDefaults([d EXCEPT !.heap[x].a = Append(@, Added(d)),
                                  !.heap[x].w = Append(@, Head(fs).n)], x, Tail(fs))

CheckStructLiteral(c, x, s) ==
  LET n == c.heap[x] IN
  Then(CheckAll(c, n.a, s), LAMBDA d :
    CASE d.pass = "types" -> RequireType(d, n.ty)
      [] d.pass = "mutate" /\ n.n \in DOMAIN d.structs -> AddDefaults(d, x, d.structs[n.n].fields)
      [] OTHER -> d)

CheckTuple(c, x, s) ==
  Then(CheckAll(c, c.heap[x].a, s), LAMBDA d :
    IF d.pass = "types" THEN RequireType(d, TypeOf(d, x)) ELSE d)

StringMember(name) ==
  IF name = "length" THEN Fun(<<>>, I64, "anywhere") ELSE Fun(<<>>, Void, "cpu")
VectorMember(name) ==
  Fun(<<>>, IF name = "length" THEN I64 ELSE Void, "cpu")

CheckAccess(c, x, s) ==
  LET n == c.heap[x] IN
  Then(Check(c, n.a[1], s), LAMBDA d :
    LET ty == Unwrapped(TypeOf(d, n.a[1])) IN
    CASE d.pass # "types" -> d
      [] ty.s = "struct" /\ ty.id \in DOMAIN d.structs /\ HasField(d.structs[ty.id], n.n) ->
           LET fty == GetField(d.structs[ty.id], n.n) IN RequireType(SetTy(d, x, fty), fty)
      [] ty.s = "str" /\ n.n \in {"resize", "length"} -> SetTy(d, x, StringMember(n.n))
      [] ty.s = "vec" /\ n.n \in {"append", "resize", "erase", "length"} -> SetTy(d, x, VectorMember(n.n))
      [] OTHER -> Error(d))

\* The type of a binary expression, <<>> when its operands do not fit.
BinaryType(op, l, r) ==
  CASE op \in {"+", "-", "*", "/"} ->
         IF NumericallyCompatible(l, r) THEN <<ArithmeticTypeCombine(l, r)>> ELSE <<>>
    [] op = "%" -> IF l.s = "int" /\ r.s = "int" THEN <<l>> ELSE <<>>
    [] op \in {"==", "!="} ->
         IF {l.s, r.s} = {"ptr", "null"} \/ Equal(l, r) THEN <<Bool>> ELSE <<>>
    [] op \in {"<", "<=", ">", ">=", "&&", "||"} -> IF Equal(l, r) THEN <<Bool>> ELSE <<>>

CheckBinary(c, x, s) ==
  LET n == c.heap[x] IN
  Then(CheckAll(c, n.a, s), LAMBDA d :
    LET ty == BinaryType(n.n, TypeOf(d, n.a[1]), TypeOf(d, n.a[2])) IN
    CASE d.pass # "types" -> d
      [] n.n # "%" /\ EqualPanics(TypeOf(d, n.a[1]), TypeOf(d, n.a[2])) -> Panic(d)
      [] ty = <<>>        -> Error(d)
      [] OTHER            -> RequireType(SetTy(d, x, ty[1]), ty[1]))

UnaryType(op, ty) ==
  CASE op = "!" -> IF ty.s = "bool" THEN <<Bool>> ELSE <<>>
    [] op = "&" -> <<MakePointer(ty)>>
    [] op = "-" -> IF IsNumeric(ty) THEN <<ty>> ELSE <<>>

CheckUnary(c, x, s) ==
  LET n == c.heap[x] IN
  Then(Check(c, n.a[1], s), LAMBDA d :
    LET ty == UnaryType(n.n, TypeOf(d, n.a[1])) IN
    CASE d.pass # "types" -> d
      [] ty = <<>>        -> Error(d)
      [] OTHER            -> RequireType(SetTy(d, x, ty[1]), ty[1]))

CheckIndex(c, x, s) ==
  LET n == c.heap[x] IN
  Then(CheckAll(c, n.a, s), LAMBDA d :
    LET at == Unwrapped(TypeOf(d, n.a[1]))
        ty == IF at.s = "vec" THEN at.t[1] ELSE Char
    IN CASE d.pass # "types" -> d
         [] at.s \notin {"vec", "str"} \/ TypeOf(d, n.a[2]).s # "int" -> Error(d)
         [] OTHER -> RequireType([SetTy(d, x, ty) EXCEPT !.heap[x].rep = at.s], ty))

CheckDereference(c, x, s) ==
  LET p == c.heap[x].a[1] IN
  Then(Check(c, p, s), LAMBDA d :
    CASE d.pass = "types" /\ TypeOf(d, p).t = <<>>     -> Panic(d)  \* by whoever asks for the type
      [] d.pass = "check" /\ TypeOf(d, p).s # "ptr"    -> Error(d)
      [] OTHER                                         -> d)

CheckRange(c, x, s) ==
  LET n == c.heap[x] IN
  Then(CheckAll(c, n.a, s), LAMBDA d :
    CASE d.pass = "types" /\ \E k \in 1..3 : TypeOf(d, n.a[k]).s # "int" -> Error(d)
      [] d.pass = "check" -> NoteCpuRequired(d)
      [] OTHER            -> d)

-----------------------------------------------------------------------------
(* Calls.  The first child is what is called.                              *)

\* A call is made one of a function of the runtime, or of another function.
CallAdded(c, x, args, ignore) ==
  [c EXCEPT !.heap[x].a = <<Added(c)>> \o args, !.heap[x].set = ignore]
Become(c, x, called, args, ignore) == CallAdded(Add(c, called), x, args, ignore)

Runtime(c, x, name, ret, args) == Become(c, x, IdOf(name, Fun(<<>>, ret, "cpu")), args, TRUE)

\* Each argument that is given is kept in a variable, whose names are returned
\* with the context; the variables have the types of the arguments.  scopes
\* has the scope in which they are checked first, if they are.
KeepArgument(c, names, e) ==
  CASE c.err # ""       -> <<c, names>>
    [] TypeFails(c, e)  -> <<Panic(c), names>>
    [] OTHER            -> <<InsertStatementBefore(c, Let(Temp(c), TypeOf(c, e), Ref(e))), Append(names, Temp(c))>>

Freeze(c, args, scopes) ==
  FoldLeft(LAMBDA d, e :
             CASE d[1].err # "" -> d
               [] e = Nil       -> <<d[1], Append(d[2], "")>>
               [] OTHER         -> KeepArgument(
                    NewTemp(FoldSet(LAMBDA s, checked : Check(checked, e, s), d[1], scopes)), d[2], e),
           <<c, <<>>>>, args)

ArgArray(name, names, addresses) ==
  [E("args", name, <<>>) EXCEPT !.w = names, !.set = addresses]

\* A method: the function of the structure, with the address of the receiver.
\* The types that its arguments are checked against are their own.
CallMember(c, x, access, name, args) ==
  Become(c, x, [E("id", "junk", <<>>) EXCEPT !.rep = name,
                  !.ty = Fun(TypesOf(c, args), access.ty.r, "cpu")], args, c.heap[x].set)

WithAddress(c, x, access, name, args) == CallMember(c, x, access, name, <<Added(c)>> \o args)

CallMethod(c, x, access, at, args) ==
  LET name == Unwrapped(at).id \o "." \o access.n IN
  IF at.s = "ptr" THEN CallMember(c, x, access, name, access.a \o args)
  ELSE WithAddress(Add(c, AddressOf(Ref(access.a[1]))), x, access, name, args)

CallOfString(c, x, access, args) ==
  CASE access.n = "length" ->
         Runtime(c, x, "ey_runtime_string_character_length", I64, access.a \o args)
    [] access.n = "resize" ->
         IF Len(args) = 1 /\ TypeOf(c, args[1]).s = "int"
         THEN Runtime(c, x, "ey_runtime_string_resize", Void, access.a \o args) ELSE Error(c)

\* erase and resize check their arguments, which are checked once more later.
EraseOne(c, x, args) == Runtime(c, x, "ey_vector_erase", Void, args \o <<Added(c)>>)

ChangeVector(c, x, access, args) ==
  CASE access.n = "resize" -> Runtime(c, x, "ey_vector_resize", Void, access.a \o args)
    [] access.n = "erase"  -> IF Len(args) = 1 THEN EraseOne(Add(c, IntLit("1")), x, access.a \o args)
                              ELSE Runtime(c, x, "ey_vector_erase", Void, access.a \o args)

CallOfVector(c, x, access, at, args, s) ==
  CASE access.n = "length" -> Runtime(c, x, "ey_vector_length", I64, access.a \o args)
    [] access.n = "append" ->
         Become(c, x, IdOf("vector_add", Fun(<<at, Unwrapped(at).t[1]>>, Void, "cpu")), access.a \o args, c.heap[x].set)
    [] OTHER ->
         IF /\ Len(args) = 1 \/ (access.n = "erase" /\ Len(args) = 2)
            /\ \A k \in DOMAIN args : TypeOf(c, args[k]).s = "int"
         THEN Then(CheckAll(c, args, s), LAMBDA d : ChangeVector(d, x, access, args)) ELSE Error(c)

IsPrint(n)     == n.k = "id" /\ n.n \in {"print", "print_ln"}
Printable(ty)  == ty.s \in {"int", "f32", "f64", "str", "bool", "char"}
PrintName(ty)  == "ey_print_" \o ty.s

RECURSIVE InsertPrints(_, _, _)
InsertPrints(c, tys, names) ==
  CASE names = <<>> \/ c.err # "" -> c
    [] OTHER -> IF ~Printable(Head(tys)) THEN Error(c)
                ELSE InsertPrints(InsertStatementBefore(c,
                       GeneratedCall(PrintName(Head(tys)), <<IdOf(Head(names), I64)>>)), Tail(tys), Tail(names))

\* The values are kept before the first is printed; what is left of the call
\* ends the line.
PrintKept(kept, x, args, end) ==
  Then(kept[1], LAMBDA d :
  Then(InsertPrints(d, TypesOf(d, args), kept[2]), LAMBDA e : Runtime(e, x, end, Void, <<>>)))

CallPrint(c, x, f, args, s) ==
  PrintKept(Freeze(c, args, {s}), x, args, IF f.n = "print_ln" THEN "ey_print_nl" ELSE "ey_noop")

\* A closure is called in statements of its own, and its result replaces the
\* call; the arguments are checked after that.  Without a result nothing is
\* inserted that calls it.
CallInto(c, x, ret, f, array) ==
  [InsertStatementBefore(InsertStatementBefore(c, Let(Temp(c), ret, None)),
     GeneratedCall("ey_closure_call", <<Ref(f), AddressOf(IdOf(Temp(c), I64)), IdOf(array, I64)>>))
     EXCEPT !.heap[x].rep = Temp(c)]

CallWithKept(kept, x, ret, f, array) ==
  Then(kept[1], LAMBDA d :
  Then(InsertStatementBefore(d, ArgArray(array, kept[2], TRUE)), LAMBDA e :
    IF ret = Void THEN e ELSE CallInto(NewTemp(e), x, ret, f, array)))

CallClosure(c, x, called) ==
  CallWithKept(Freeze(NewTemp(c), Tail(c.heap[x].a), {}), x, called.r, c.heap[x].a[1], TempName(c.temp + 1))

CallTypes(c, x, s) ==
  LET f == c.heap[x].a[1] IN
  IF IsPrint(c.heap[f]) THEN [SetTy(c, f, Fun(<<>>, Void, "anywhere")) EXCEPT !.heap[x].set = TRUE]
  ELSE Then(Check(c, f, s), LAMBDA d :
         LET ty == Unwrapped(TypeOf(d, d.heap[f].a[1]))
         IN IF d.heap[f].k = "access" /\ ty.s = "vec" THEN RequireVector(d, ty.t[1]) ELSE d)

\* The call of a member of a value of type at.
CallOf(c, x, access, at, args, s) ==
  CASE Unwrapped(at).s = "struct" -> CallMethod(c, x, access, at, args)
    [] Unwrapped(at).s = "str"    -> CallOfString(c, x, access, args)
    [] Unwrapped(at).s = "vec"    -> CallOfVector(c, x, access, at, args, s)

CallIfClosure(c, x, called) == IF called.s = "closure" THEN CallClosure(c, x, called) ELSE c

CallMutate(c, x, s) ==
  LET f    == c.heap[x].a[1]
      args == Tail(c.heap[x].a)
  IN Then(CASE c.heap[f].k = "gpufn" -> c
            [] IsPrint(c.heap[f])    -> CallPrint(c, x, c.heap[f], args, s)
            [] OTHER                 -> Then(Check(c, f, s), LAMBDA d :
                 IF d.heap[f].k = "access"
                 THEN CallOf(d, x, d.heap[f], TypeOf(d, d.heap[f].a[1]), args, s) ELSE d),
          LAMBDA d : CallIfClosure(d, x, TypeOf(d, d.heap[x].a[1])))

CallCheck(c, x) ==
  LET n  == c.heap[x]
      ty == TypeOf(c, n.a[1])
      Fits == /\ IsCallable(ty) /\ Len(ty.t) = Len(n.a) - 1
              /\ \A k \in DOMAIN ty.t : CanAssignTo(ty.t[k], TypeOf(c, n.a[k + 1]))
      NullForNull == IsCallable(ty) /\ Len(ty.t) = Len(n.a) - 1 /\ \E k \in DOMAIN ty.t : EqualPanics(ty.t[k], TypeOf(c, n.a[k + 1]))
  IN CASE n.set        -> c
       [] NullForNull  -> Panic(c)
       [] Fits         -> c
       [] OTHER        -> Error(c)

CallResult(c, x) ==
  LET ty == TypeOf(c, c.heap[x].a[1]) IN
  CASE c.pass # "types"    -> c
    [] ~IsCallable(ty)     -> Error(c)
    [] ty.location = "cpu" -> SetTy(NoteCpuRequired(c), x, ty.r)
    [] OTHER               -> SetTy(c, x, ty.r)

CheckCall(c, x, s) ==
  LET d == CASE c.pass = "types"  -> CallTypes(c, x, s)
             [] c.pass = "mutate" -> CallMutate(c, x, s)
             [] c.pass = "check"  -> CallCheck(c, x)
             [] OTHER             -> c
  IN Then(CheckAll(d, Tail(d.heap[x].a), s), LAMBDA e : CallResult(e, x))

-----------------------------------------------------------------------------
(* Allocation.                                                             *)

\* T *t = alloc(sizeof(T)); *t = initialiser; and t replaces the expression.
\* The initialiser is checked last in statements that were inserted.
MutateNew(c, x, s) ==
  LET d  == NewTemp(Check(c, c.heap[x].a[1], s))
      ty == TypeOf(d, d.heap[x].a[1])
      alloc == [Generated("ey_runtime_gc_alloc", <<Typed("sizeof", "", <<>>, ty)>>)
                  EXCEPT !.ty = MakePointer(ty)]
      store == [Assign("normal", E("lderef", "", <<LId(Temp(d))>>), Ref(d.heap[x].a[1]))
                  EXCEPT !.ty = ty]
  IN Then(d, LAMBDA u :
     LET v == SetVariable(InsertStatementBefore(u, Let(Temp(d), MakePointer(ty), alloc)),
                          s, Temp(d), MakePointer(ty), TRUE)
     IN Then(v, LAMBDA w : [InsertStatementBefore(w, store) EXCEPT !.heap[x].rep = Temp(d)]))

CheckNew(c, x, s) ==
  Then(NoteCpuRequired(c), LAMBDA d :
    CASE d.pass = "types" ->
           Then(Check(d, d.heap[x].a[1], s), LAMBDA e : RequireType(e, TypeOf(e, e.heap[x].a[1])))
      [] d.pass = "mutate" -> MutateNew(d, x, s)
      [] OTHER -> d)

RECURSIVE AppendAll(_, _, _, _)
AppendAll(c, vector, ty, es) ==
  IF es = <<>> \/ c.err # "" THEN c
  ELSE LET d == NewTemp(c)
           e == InsertStatementBefore(d, Let(Temp(d), ty, Ref(Head(es))))
       IN AppendAll(InsertStatementBefore(e, GeneratedCall("ey_vector_append",
                      <<IdOf(vector, I64), AddressOf(IdOf(Temp(d), I64))>>)), vector, ty, Tail(es))

CheckVectorLiteral(c, x, s) ==
  LET n == c.heap[x]
      create == [Generated("ey_vector_create", <<Typed("sizeof", "", <<>>, n.ty)>>)
                   EXCEPT !.ty = MakeVector(n.ty)]
  IN Then(CheckAll(NoteCpuRequired(c), n.a, s), LAMBDA d :
       CASE d.pass = "types" ->
              IF \A k \in DOMAIN n.a : CanAssignTo(TypeOf(d, n.a[k]), n.ty) THEN d ELSE Error(d)
         [] d.pass = "mutate" ->
              LET e == NewTemp(d)
                  f == InsertStatementBefore(e, Let(Temp(e), MakeVector(n.ty), create))
              IN [AppendAll(f, Temp(e), n.ty, n.a) EXCEPT !.heap[x].rep = Temp(e)]
         [] OTHER -> d)

-----------------------------------------------------------------------------
(* Partial application.  The arguments that are supplied are no more than put
   in variables: no pass checks them before they are part of an inserted
   statement, which only the last pass checks.                             *)

HaveKept(kept, x, n, a) ==
  Then(kept[1], LAMBDA d :
  Then(InsertStatementBefore(d, ArgArray(n.rep, kept[2], TRUE)), LAMBDA e :
    [e EXCEPT !.heap[x].w = kept[2], !.heap[x].a = a]))

\* Mutant: the arguments are given up once they are kept.
MutateClosureForgets(c, x, n) == HaveKept(Freeze(c, Tail(n.a), {}), x, n, <<n.a[1]>>)

MutateClosure(c, x, n) == HaveKept(Freeze(c, Tail(n.a), {}), x, n, n.a)

ClosureSize(c, ty) == 8 + FoldSeq(LAMBDA t, n : EstimateCSize(c.structs, t) + 8 + n, 0, ty.t)

CheckClosure(c, x, s) ==
  LET f == c.heap[x].a[1] IN
  Then(Check(c, f, s), LAMBDA d :
    LET n  == d.heap[x]
        ty == TypeOf(d, f)
    IN CASE d.pass = "types" ->
              IF Len(ty.t) # Len(n.a) - 1 THEN Error(d)
              ELSE LET e == NewTemp(d) IN [e EXCEPT !.heap[x].rep = Temp(e)]
         [] d.pass = "mutate" -> MutateClosure(d, x, n)
         [] d.pass = "check" ->
              CASE ~ \A k \in DOMAIN ty.t : HasEstimate(d.structs, ty.t[k]) -> Panic(d)
                [] ty.s # "fun" \/ d.heap[f].k # "id" -> Error(d)
                [] OTHER -> LET size == ClosureSize(d, ty)
                            IN [d EXCEPT !.closureSize = IF size > @ THEN size ELSE @,
                                         !.heap[x].n = d.heap[f].rep]
         [] OTHER -> d)

-----------------------------------------------------------------------------
(* Workers.                                                                *)

SetWorkerTypes(c, x) ==
  LET n  == c.heap[x]
      ty == TypeOf(c, n.a[1])
      d  == IF ty.s = "closure" THEN NewTemp(c) ELSE c
  IN IF ~IsCallable(ty) \/ Len(ty.t) # 1 THEN Error(c)
     ELSE [d EXCEPT !.gpuRequired = @ \/ n.n = "gpu",
                    !.heap[x].rep = IF ty.s = "closure" THEN Temp(d) ELSE "",
                    !.heap[x].ty  = Worker(ty.t[1], ty.r)]

\* AddToContext: a function has one signature, whatever it is compiled for.
AddFunction(c, fn) ==
  LET signature == <<WriteId(fn.ret), [k \in DOMAIN fn.ps |-> WriteId(fn.ps[k].ty)]>>
      id == <<fn.struct, fn.n>>
  IN IF \E g \in c.functions : g.id = id /\ g.signature # signature THEN Error(c)
     ELSE [c EXCEPT !.functions = @ \cup {[id |-> id, signature |-> signature, loc |-> fn.loc]}]

\* The function that a thread of a CPU worker calls: it takes the value that
\* was sent and the result from where they are, or calls the closure.
WrapperBody(x, ty, closure) ==
  LET in   == MakePointer(ty.t[1])
      out  == MakePointer(ty.r)
      call == [Call(Ref(x), <<E("deref", "", <<IdOf("typed_input", in)>>)>>) EXCEPT !.ty = Void]
  IN Block(<<Let("typed_input", in, IdOf("input", in)), Let("typed_output", out, IdOf("output", out))>> \o
       CASE closure ->
              <<ArgArray("args", <<"input">>, FALSE),
                GeneratedCall("ey_closure_call", <<IdOf("ctx", MakePointer(MakePointer(Void))),
                                                   IdOf("output", I64), IdOf("args", I64)>>)>>
         [] ty.r = Void -> <<Expr(call)>>
         [] OTHER -> <<[Assign("normal", E("lderef", "", <<LId("typed_output")>>), call) EXCEPT !.ty = out]>>)

InsertWrapper(c, x, name) ==
  LET n == c.heap[x]
      d == Add(c, WrapperBody(n.a[1], TypeOf(c, n.a[1]), n.rep # ""))
      pointer(p) == [n |-> p, ty |-> MakePointer(Void)]
      fn == [k |-> "fn", n |-> name, loc |-> "cpu", struct |-> "", avoid |-> TRUE, ret |-> Void,
             ps |-> <<pointer("input"), pointer("output"), pointer("ctx")>>, body |-> Added(d)]
  IN Then(AddFunction(d, fn), LAMBDA e : InsertElementBefore(e, fn))

InsertKernel(c, x) ==
  LET f  == c.heap[c.heap[x].a[1]]
      ty == TypeOf(c, c.heap[x].a[1])
      d  == NewTemp(c)
      name == "ey_generated_kernel_" \o ToString(d.temp)
      kernel == [k |-> "kernel", n |-> name, closure |-> ty.s = "closure",
                 calls |-> IF ty.s = "closure" THEN "" ELSE f.rep, in |-> ty.t[1], out |-> ty.r]
  IN CASE ty.s # "closure" /\ f.k # "id"    -> Error(c)
       [] ty.s # "closure" /\ f.rep = ""    -> Panic(c)
       [] OTHER -> InsertElementBefore([d EXCEPT !.heap[x].w = Append(@, name)], kernel)

MutateWorker(c, x) ==
  LET n    == c.heap[x]
      ty   == TypeOf(c, n.a[1])
      d    == NewTemp(c)
      name == "generated_wrapper_" \o ToString(d.temp)
      e    == IF n.n = "gpu" /\ \E k \in DOMAIN ty.t : ~CanPassToGpu(d.structs, ty.t[k]) THEN Error(d)
              ELSE IF n.rep = "" THEN d
              ELSE InsertStatementBefore(d, Let(n.rep, ty, Ref(n.a[1])))
  IN Then([e EXCEPT !.heap[x].w = <<name>>], LAMBDA f :
       IF n.n = "gpu" THEN InsertKernel(f, x) ELSE InsertWrapper(f, x, name))

CheckWorker(c, x, s) ==
  LET d == NoteCpuRequired(c) IN
  CASE d.err # "" \/ d.pass \in {"tle", "check"} -> d
    [] d.pass = "types"  -> Then(Check(d, d.heap[x].a[1], s), LAMBDA e : SetWorkerTypes(e, x))
    [] d.pass = "mutate" -> Then(Check(d, d.heap[x].a[1], s), LAMBDA e : MutateWorker(e, x))

\* receive is made a statement that fills a variable, drain a call.
MutateReceive(c, x) ==
  LET n  == c.heap[x]
      w  == n.a[1]
      ty == TypeOf(c, w).t[2]
      d  == NewTemp(c)
      method(m, args, r) ==
        [Call(E("access", m, <<Ref(w)>>), <<Ref(w)>> \o args) EXCEPT !.set = TRUE, !.ty = r]
      drain == Add(d, method("drain", <<>>, TypeOf(d, x)))
  IN IF n.set THEN [drain EXCEPT !.heap[x].a = <<w, Added(drain)>>]
     ELSE Then(InsertStatementBefore(d, Let(Temp(d), ty, None)), LAMBDA e :
          Then(InsertStatementBefore(e, Expr(method("receive", <<AddressOf(Id(Temp(d)))>>, Void))), LAMBDA f :
            [f EXCEPT !.heap[x].rep = Temp(d)]))

CheckReceive(c, x, s) ==
  Then(NoteCpuRequired(c), LAMBDA b :
  Then(Check(b, b.heap[x].a[1], s), LAMBDA d :
    CASE d.pass = "types" /\ TypeOf(d, d.heap[x].a[1]).s # "worker" -> Error(d)
      [] d.pass = "mutate" -> MutateReceive(d, x)
      [] OTHER -> d))

CheckPipeline(c, x, s) ==
  Then(NoteCpuRequired(c), LAMBDA b :
  Then(CheckAll(b, b.heap[x].a, s), LAMBDA d :
    LET l == TypeOf(d, d.heap[x].a[1])
        r == TypeOf(d, d.heap[x].a[2])
    IN CASE d.pass # "types" -> d
         [] l.s # "worker" \/ r.s # "worker" -> Error(d)
         [] ~Equal(r.t[1], l.t[2])           -> Error(d)
         [] OTHER -> SetTy(d, x, Worker(l.t[1], r.t[2]))))

-----------------------------------------------------------------------------
(* What is assigned to.  Its children are what it is part of and an index.  *)

\* Whether it may be assigned to, known once CheckAssignable has set its type.
RECURSIVE Assignable(_, _, _)
Assignable(c, x, s) ==
  LET n == c.heap[x] IN
  CASE n.k = "lid"    -> Binding(c, s, n.n)[1].assignable
    [] n.k = "lself"  -> FALSE
    [] n.k = "lfield" -> c.heap[n.a[1]].k = "lself" \/ Assignable(c, n.a[1], s)
    [] n.k = "lmulti" -> \A k \in DOMAIN n.a : Assignable(c, n.a[k], s)
    [] OTHER          -> Assignable(c, n.a[1], s)

SetLValueType(c, x, s, name) ==
  LET b == Binding(c, s, name) IN IF b = <<>> THEN Error(c) ELSE SetTy(c, x, b[1].ty)

SetFieldType(c, x) ==
  LET n  == c.heap[x]
      ty == Unwrapped(TypeOf(c, n.a[1]))
  IN IF ty.s = "struct" /\ ty.id \in DOMAIN c.structs /\ HasField(c.structs[ty.id], n.n)
     THEN SetTy(c, x, GetField(c.structs[ty.id], n.n)) ELSE Error(c)

SetIndexedType(c, x) ==
  LET ty == Unwrapped(TypeOf(c, c.heap[x].a[1])) IN
  CASE ty.s = "vec" -> SetTy(c, x, ty.t[1])
    [] ty.s = "str" -> SetTy(c, x, Char)
    [] OTHER        -> Error(c)

RECURSIVE CheckAssignable(_, _, _)
CheckAssignable(c, x, s) ==
  LET n     == c.heap[x]
      inner == CheckAssignable(c, n.a[1], s)
  IN CASE n.k = "lid"    -> SetLValueType(c, x, s, n.n)
       [] n.k = "lself"  -> SetLValueType(c, x, s, "__self__")
       [] n.k = "lderef" -> Then(inner, LAMBDA d : IF TypeOf(d, n.a[1]).s = "ptr" THEN d ELSE Error(d))
       [] n.k = "lfield" -> Then(inner, LAMBDA d : SetFieldType(d, x))
       [] n.k = "lindex" -> Then(Check(c, n.a[2], s), LAMBDA d :
                            Then(CheckAssignable(d, n.a[1], s), LAMBDA e : SetIndexedType(e, x)))
       [] n.k = "lmulti" -> FoldLeft(LAMBDA d, y : Then(d, LAMBDA e : CheckAssignable(e, y, s)), c, n.a)

RECURSIVE UpdateScope(_, _, _, _, _)
UpdateScope(c, x, s, ty, assignable) ==
  LET n == c.heap[x] IN
  CASE n.k = "lid" /\ ~CannotBeDefinedAtThisLevel(c, s, n.n) -> SetVariable(c, s, n.n, ty, assignable)
    [] n.k = "lself" -> SetVariable(c, s, "__self__", MakePointer(ty), assignable)
    [] n.k = "lmulti" /\ ty.s = "tuple" /\ Len(ty.t) = Len(n.a) ->
         FoldLeft(LAMBDA d, k : Then(d, LAMBDA e : UpdateScope(e, n.a[k], s, ty.t[k], assignable)),
                  c, [k \in DOMAIN n.a |-> k])
    [] OTHER -> Error(c)

-----------------------------------------------------------------------------
(* Statements.  The path of a block is its scope.  What a statement inserts is
   put before it, and is not checked in the same pass.                      *)

RECURSIVE CheckStatements(_, _, _, _)
CheckStatements(c, x, statements, checked) ==
  IF statements = <<>> THEN [c EXCEPT !.heap[x].a = checked]
  ELSE Then(Check([c EXCEPT !.insert = Append(@, <<>>)], Head(statements), x), LAMBDA d :
         CheckStatements([d EXCEPT !.insert = Front(@)], x, Tail(statements),
                         checked \o Append(Last(d.insert), Head(statements))))

CheckBlock(c, x) == CheckStatements(c, x, c.heap[x].a, <<>>)

DefineLhs(c, x, s) ==
  LET n == c.heap[x] IN
  IF n.n = "normal" THEN c ELSE UpdateScope(c, n.a[1], s, n.ty, n.n = "let")

CheckAssignTypes(c, x) ==
  LET n == c.heap[x] IN
  CASE n.n = "normal" /\ EqualPanics(TypeOf(c, n.a[1]), n.ty) -> Panic(c)
    [] n.ty = Void \/ (n.n = "normal" /\ ~CanAssignTo(TypeOf(c, n.a[1]), n.ty)) -> Error(c)
    [] OTHER -> c

CheckAssign(c, x, s) ==
  LET n == c.heap[x]
      d == IF n.a[2] = Nil THEN c ELSE Check(c, n.a[2], s)
  IN Then(d, LAMBDA e :
     CASE e.pass = "types" ->
            LET ty == IF n.a[2] = Nil THEN n.ty ELSE TypeOf(e, n.a[2])
                f  == SetTy(IF n.a[2] = Nil THEN e ELSE RequireType(e, ty), x, ty)
            IN Then(Then(f, LAMBDA g : DefineLhs(g, x, s)), LAMBDA g : CheckAssignable(g, n.a[1], s))
       [] e.pass = "mutate" -> CheckAssignable(e, n.a[1], s)
       [] e.pass = "check" /\ n.n = "normal" ->
            Then(CheckAssignable(e, n.a[1], s), LAMBDA f :
              IF Assignable(f, n.a[1], s) THEN CheckAssignTypes(f, x) ELSE Error(f))
       [] e.pass = "check" -> CheckAssignTypes(e, x)
       [] OTHER -> e)

RECURSIVE CheckSegments(_, _, _, _)
CheckSegments(c, segments, k, s) ==
  IF k > Len(segments) THEN c
  ELSE LET d == IF segments[k] = Nil THEN c
                ELSE Then(Check(c, segments[k], s), LAMBDA e :
                       IF e.pass = "types" /\ TypeOf(e, segments[k]) # Bool THEN Error(e) ELSE e)
       IN Then(Then(d, LAMBDA e : Check(e, segments[k + 1], s)), LAMBDA e : CheckSegments(e, segments, k + 2, s))

\* A tuple is repacked part by part when its type is not that of the function.
RECURSIVE CastAll(_, _, _, _)
CastAll(c, x, tys, k) ==
  IF k > Len(tys) THEN c
  ELSE LET d == Add(c, Typed("cast", "", <<Ref(c.heap[x].a[k])>>, tys[k]))
       IN CastAll([d EXCEPT !.heap[x].a[k] = Added(d)], x, tys, k + 1)

CheckReturnedType(c, y, ret) ==
  LET ty == TypeOf(c, y) IN
  CASE TypeFails(c, y) -> Panic(c)
    [] c.pass = "types" /\ ~CanAssignTo(ty, ret) -> Error(c)
    [] c.pass = "mutate" /\ ret.s = "tuple" /\ ~Equal(ty, ret) ->
         IF c.heap[y].k = "tuple" THEN CastAll(c, y, ret.t, 1) ELSE Panic(c)
    [] OTHER -> c

CheckReturn(c, x, s) ==
  LET y == c.heap[x].a[1] IN
  IF y = Nil THEN IF Last(c.return) = Void THEN c ELSE Error(c)
  ELSE LET d == Check(c, y, s) IN
       IF d.err = "error" /\ TypeFails(d, y) THEN Panic(d) ELSE Then(d, LAMBDA e : CheckReturnedType(e, y, Last(e.return)))

IsVector(ty) == ty.s = "ptr" /\ ty.t[1].s = "vec"

CheckSend(c, x, s) ==
  LET n == c.heap[x] IN
  Then(CheckAll(NoteCpuRequired(c), n.a, s), LAMBDA d :
    LET pipe  == TypeOf(d, n.a[1])
        value == TypeOf(d, n.a[2])
    IN CASE d.pass = "check" /\ pipe.s # "worker" -> Error(d)
         [] d.pass = "types" /\ pipe.t = <<>>     -> Panic(d)
         [] d.pass = "types" /\ ~IsVector(value)  -> Error(d)
         [] d.pass = "types" /\ ~CanAssignTo(value.t[1].t[1], pipe.t[1]) -> Error(d)
         [] OTHER -> d)

\* The type of what is iterated over is that of its elements.
IterateOver(c, x) ==
  LET n  == c.heap[x]
      ty == Unwrapped(TypeOf(c, n.a[1]))
  IN IF ty.s # "vec" THEN (IF ty.t = <<>> THEN Panic(c) ELSE Error(c))
     ELSE SetVariable(SetTy(c, x, ty.t[1]), n.a[2], n.n, ty.t[1], TRUE)

\* The bounds of a range are kept in variables: the count, the start, the step.
MutateRange(c, x) ==
  LET r == c.heap[c.heap[x].a[1]]
      Keep(d, k) == LET e == NewTemp(d)
                    IN InsertStatementBefore(e, Let(Temp(e), TypeOf(e, r.a[k]), Ref(r.a[k])))
      names == <<TempName(c.temp + 1), TempName(c.temp + 3), TempName(c.temp + 5)>>
  IN [FoldLeft(Keep, c, <<1, 2, 3>>) EXCEPT !.heap[x].w = names, !.heap[x].rep = "range"]

CheckForeach(c, x, s) ==
  LET n == c.heap[x]
      d == IF n.rep = "range" \/ c.pass \notin {"types", "mutate"} THEN c
           ELSE Then(Check(c, n.a[1], s), LAMBDA e :
                  CASE e.pass = "types" -> IterateOver(e, x)
                    [] e.heap[n.a[1]].k = "range" -> MutateRange(e, x)
                    [] OTHER -> e)
  IN Then(d, LAMBDA e : Check(e, n.a[2], s))

CheckModify(c, x, s) ==
  LET n == c.heap[x]
      d == IF c.pass = "tle" THEN c
           ELSE Then(CheckAssignable(c, n.a[1], s), LAMBDA e :
                  IF Assignable(e, n.a[1], s) THEN e ELSE Error(e))
  IN Then(d, LAMBDA e : Check(e, n.a[2], s))

-----------------------------------------------------------------------------
(* Every node.                                                             *)

CheckExpression(c, x, s) ==
  LET n == c.heap[x] IN
  CASE n.k \in {"bool", "char", "str", "int", "float", "null", "sizeof"} -> CheckLiteral(c, x)
    [] n.k = "self"     -> CheckSelf(c, x, s)
    [] n.k = "gpufn"    -> CheckGpuBuiltin(c, x)
    [] n.k = "id"       -> CheckIdentifier(c, x, s)
    [] n.k = "cast"     -> CheckCast(c, x, s)
    [] n.k = "struct"   -> CheckStructLiteral(c, x, s)
    [] n.k = "tuple"    -> CheckTuple(c, x, s)
    [] n.k = "access"   -> CheckAccess(c, x, s)
    [] n.k = "bin"      -> CheckBinary(c, x, s)
    [] n.k = "un"       -> CheckUnary(c, x, s)
    [] n.k = "index"    -> CheckIndex(c, x, s)
    [] n.k = "deref"    -> CheckDereference(c, x, s)
    [] n.k = "range"    -> CheckRange(c, x, s)
    [] n.k = "call"     -> CheckCall(c, x, s)
    [] n.k = "new"      -> CheckNew(c, x, s)
    [] n.k = "veclit"   -> CheckVectorLiteral(c, x, s)
    [] n.k = "closure"  -> CheckClosure(c, x, s)
    [] n.k = "worker"   -> CheckWorker(c, x, s)
    [] n.k = "receive"  -> CheckReceive(c, x, s)
    [] n.k = "pipeline" -> CheckPipeline(c, x, s)

CheckStatement(c, x, s) ==
  LET n == c.heap[x] IN
  CASE n.k = "block"   -> CheckBlock(c, x)
    [] n.k = "assign"  -> CheckAssign(c, x, s)
    [] n.k = "expr"    -> Check(c, n.a[1], s)
    [] n.k = "if"      -> CheckSegments(c, n.a, 1, s)
    [] n.k = "while"   -> Then(Check(c, n.a[1], s), LAMBDA d : Check(d, n.a[2], s))
    [] n.k = "return"  -> CheckReturn(c, x, s)
    [] n.k = "send"    -> CheckSend(c, x, s)
    [] n.k = "foreach" -> CheckForeach(c, x, s)
    [] n.k = "modify"  -> CheckModify(c, x, s)
    [] n.k \in {"args", "break"} -> c

Statements == {"block", "assign", "expr", "if", "while", "return", "send", "foreach", "modify", "args", "break"}

Check(c, x, s) ==
  CASE c.err # ""                  -> c
    [] c.heap[x].k \in Statements  -> CheckStatement(c, x, s)
    [] OTHER                       -> CheckExpression(c, x, s)

-----------------------------------------------------------------------------
(* Functions, structures and the module.                                   *)

\* An if counts when all its branches do, with or without an else.
RECURSIVE EndsWithReturn(_, _)
EndsWithReturn(c, x) ==
  LET last == c.heap[Last(c.heap[x].a)] IN
  /\ c.heap[x].a # <<>>
  /\ \/ last.k = "return"
     \/ last.k = "if" /\ \A k \in DOMAIN last.a : k % 2 = 0 => EndsWithReturn(c, last.a[k])

OurType(fn) == Fun([k \in DOMAIN fn.ps |-> fn.ps[k].ty], fn.ret, fn.loc)

EnterFunction(c, fn) ==
  LET d == IF fn.struct = "" THEN SetVariable(c, <<>>, fn.n, OurType(fn), FALSE) ELSE c IN
  CASE c.pass = "tle" ->
         IF fn.ret # Void /\ ~EndsWithReturn(c, fn.body) THEN Error(c)
         ELSE Then(d, LAMBDA e : AddFunction(e, fn))
    [] c.pass = "types" -> FoldLeft(LAMBDA e, ty : RequireType(e, ty), c,
                                    <<fn.ret>> \o [k \in DOMAIN fn.ps |-> fn.ps[k].ty])
    [] OTHER -> c

EnterTarget(c, fn) ==
  [c EXCEPT !.cpu = IF fn.loc = "cpu" THEN 1 ELSE 0, !.gpu = IF fn.loc = "gpu" THEN 1 ELSE 0,
            !.return = <<fn.ret>>]

CheckFunction(c, fn) ==
  IF c.err # "" \/ (c.pass = "check" /\ fn.avoid) THEN c
  ELSE Then(EnterFunction(EnterTarget(c, fn), fn), LAMBDA e :
         [Check(e, fn.body, <<>>) EXCEPT !.cpu = 0, !.gpu = 0, !.return = <<>>])

\* A structure is known to what comes after it, once its types are set.
KnowStruct(c, el) ==
  IF c.pass # "types" THEN c
  ELSE RequireType([c EXCEPT !.structs = (el.n :> [fields |-> el.fields, fns |-> el.fns]) @@ @], Struct(el.n))

CheckStruct(c, el) == FoldLeft(CheckFunction, KnowStruct(c, el), el.fns)

CheckElement(c, el) ==
  CASE el.k = "fn"     -> CheckFunction(c, el)
    [] el.k = "struct" -> CheckStruct(c, el)
    [] el.k = "const"  -> Check(c, el.assign, <<>>)
    [] el.k = "kernel" -> c

\* Module.Check: elements are inserted before the one that needed them.
RECURSIVE CheckElements(_, _, _)
CheckElements(c, els, checked) ==
  IF els = <<>> THEN [c EXCEPT !.els = checked]
  ELSE Then(CheckElement(c, Head(els)), LAMBDA d :
         CheckElements([d EXCEPT !.insertEls = <<>>], Tail(els), checked \o Append(d.insertEls, Head(els))))

CheckModule(c, pass) == CheckElements([c EXCEPT !.pass = pass], c.els, <<>>)
=============================================================================
