----------------------------- MODULE MCCompiler -----------------------------
(* Every module has the same functions to call and a function z whose body is
   made of one construct, or of one construct in another, for each construct of
   the language and operands of every type; a last function starts a worker on
   the GPU where z is compiled for it. *)
EXTENDS Compiler

FnOf(n, loc, ps, ret, ss) == Fn(n, loc, ps, ret, Block(ss))
Method(e, n, args) == Call(Access(e, n), args)
Set(l, e) == Assign("normal", l, e)

N1 == ConstOf(Assign("const", LId("n1"), IntLit("1")))
StructS ==
  StructOf("S", <<Param("x", I64), Param("y", F32)>>,
    << FnOf("m", "anywhere", <<Param("a", I64)>>, I64, <<Return(Bin("+", Access(Self, "x"), Id("a")))>>),
       FnOf("n", "cpu", <<>>, Void, <<Set(LField(LSelf, "x"), IntLit("1")), Expr(Method(Self, "m", <<IntLit("2")>>))>>) >>)
Prelude ==
  << FnOf("f", "anywhere", <<Param("a", I64)>>, I64, <<Return(Id("a"))>>),
     FnOf("fd", "cpu", <<Param("a", F64)>>, F64, <<Return(Id("a"))>>),
     FnOf("c", "cpu", <<Param("a", I64)>>, I64, <<Return(Id("a"))>>),
     FnOf("g", "gpu", <<Param("a", I64)>>, I64, <<Return(Id("n1"))>>),
     FnOf("h", "cpu", <<Param("a", I64)>>, I64, <<Return(Id("n1"))>>),
     FnOf("h", "gpu", <<Param("a", I64)>>, I64, <<Return(Id("a"))>>),
     FnOf("p2", "anywhere", <<Param("a", I64), Param("b", F32)>>, I64, <<Return(Id("a"))>>),
     FnOf("t", "anywhere", <<Param("a", I64)>>, Tuple(<<I64, F32>>), <<Return(Tup(<<Id("a"), Id("a")>>))>>),
     FnOf("u", "anywhere", <<Param("a", I64)>>, Void, <<>>),
     FnOf("l", "cpu", <<Param("a", Str)>>, I64, <<Return(IntLit("1"))>>) >>

\* What z is given: on the GPU there are no vectors and workers.  The type of a
\* closure cannot be written: one that is used is made first.
Params(loc) ==
  <<Param("i", I64), Param("b", Bool), Param("s", Str), Param("e", F32), Param("o", Struct("S")), Param("q", MakePointer(Struct("S"))),
    Param("p", MakePointer(I64))>> \o
  IF loc = "cpu" THEN <<Param("v", MakeVector(I64)), Param("w", Worker(I64, I64))>> ELSE <<>>

RECURSIVE Names(_)
Names(t) == (IF t.k \in {"id", "lid"} THEN {t.n} ELSE {}) \cup UNION {Names(t.a[k]) : k \in DOMAIN t.a}
NamesOf(ss) == UNION {Names(ss[k]) : k \in DOMAIN ss}

MakeK == Assign("let", LId("k"), Partial(Id("f"), <<None>>))

Z(loc, body) ==
  FnOf("z", loc, Params(loc), I64, (IF "k" \in NamesOf(body) THEN <<MakeK>> ELSE <<>>) \o body \o <<Return(Id("i"))>>)
StartOnGpu   == FnOf("r", "cpu", <<>>, Void, <<Expr(WorkerOf("gpu", Id("f")))>>)

ModuleWith(loc, body) == <<N1, StructS, Z(loc, body)>> \o Prelude \o IF loc = "cpu" THEN <<>> ELSE <<StartOnGpu>>

-----------------------------------------------------------------------------
(* Expressions.                                                            *)

F64Lit == Typed("float", "2.5", <<>>, F64)
F32Lit == Typed("float", "2.5", <<>>, F32)
StrLit == Typed("str", "a", <<>>, Str)
Ids    == {Id(n) : n \in {"i", "b", "s", "e", "o", "q", "p", "v", "w", "k"}}
Leaves == Ids \cup {IntLit("1"), F64Lit, Typed("bool", "true", <<>>, Bool), StrLit, NullLit, Id("n1"), Id("c")}

\* One construct whose operands are from X, and leaves, those of Y beside X.
Constructs(X, Y) ==
  {Bin(op, x, y) : op \in {"+", "&&", "=="}, x \in X, y \in Y} \cup
  {Bin(op, y, x) : op \in {"%", "||", "!="}, x \in X, y \in Y} \cup
  {Un(op, x) : op \in {"-", "!"}, x \in X} \cup
  {Deref(x) : x \in X} \cup
  {As(ty, x) : ty \in {I64, F32}, x \in X} \cup
  {Index(x, y) : x \in {Id("v"), Id("s")}, y \in X} \cup {Index(x, IntLit("1")) : x \in X} \cup
  {Access(x, n) : n \in {"x", "y", "m", "length"}, x \in X} \cup
  {StructLit("S", <<"x">>, <<x>>) : x \in X} \cup {StructLit("S", <<"y", "x">>, <<x, Id("i")>>) : x \in X} \cup
  {Call(Id(f), <<x>>) : f \in {"f", "fd", "c", "g", "h", "t"}, x \in X} \cup
  {Call(Id("p2"), <<x, y>>) : x \in X, y \in {Id("e"), Id("s")}} \cup
  {Call(Id("k"), <<x>>) : x \in X} \cup {Call(GpuBuiltin("sqrt"), <<x>>) : x \in X} \cup
  {Partial(Id("p2"), <<x, None>>) : x \in X} \cup {Partial(Id("p2"), <<None, x>>) : x \in X} \cup
  {Method(x, "m", <<Id("i")>>) : x \in X} \cup {Method(Id("o"), "m", <<x>>) : x \in X} \cup
  {Method(Id("v"), n, <<x>>) : n \in {"append", "erase", "resize", "length"}, x \in X} \cup
  {Method(Id("s"), n, <<x>>) : n \in {"resize", "length"}, x \in X} \cup
  {Method(x, "length", <<>>) : x \in X} \cup
  {New(x) : x \in X} \cup
  {VecLit(F32, <<x, Id("i")>>) : x \in X} \cup
  {WorkerOf(d, x) : d \in {"cpu", "gpu"}, x \in X \cup {Id("f"), Id("c"), Id("g"), Id("h")}} \cup
  {Receive(x) : x \in X} \cup {Drain(x) : x \in X} \cup {PipelineOf(x, y) : x, y \in {Id("w"), Id("i"), WorkerOf("cpu", Id("fd"))}} \cup
  {Range3(x, IntLit("1"), IntLit("1")) : x \in X} \cup {Range3(IntLit("0"), x, IntLit("1")) : x \in X}

\* Integers, each of another construct.
Integers == {Id("i"), Id("n1"), IntLit("1"), Bin("+", Id("i"), IntLit("1")), Call(Id("c"), <<Id("i")>>), Deref(Id("p")),
             Index(Id("v"), Id("i")), Access(Id("o"), "x"), Call(Id("k"), <<Id("i")>>), Receive(Id("w"))}

\* Constructs of which what is looked at, or a number of operands, is particular.
VoidCall == Call(Id("u"), <<Id("i")>>)
Particular ==
  {Bin(op, x, x) : op \in {"==", "+", "<", "&&"},
                   x \in {VoidCall, NullLit, Id("c"), Id("i"), Id("b"), Id("s"), Id("e"), Id("o"), Id("q"), Id("v"), Id("w"), Id("k"),
                          Call(Id("t"), <<Id("i")>>), Access(Id("o"), "m"), Access(Id("v"), "length")}} \cup
  { Bin("==", Id("c"), Id("f")), Bin("==", Id("p"), NullLit), Bin("==", Access(Id("o"), "m"), Access(Id("q"), "m")), Bin("==", Access(Id("o"), "m"), Id("f")),
    Call(Id("k"), <<>>), Call(Id("f"), <<>>), Call(Id("f"), <<Id("i"), Id("i")>>),
    Method(Id("o"), "m", <<>>), Method(Id("o"), "m", <<Id("i"), Id("s")>>), Method(Id("o"), "n", <<>>), Method(Id("o"), "x", <<>>),
    Method(Id("v"), "erase", <<Id("i"), Id("i")>>), Method(Id("v"), "erase", <<>>), Method(Id("v"), "append", <<>>),
    StructLit("S", <<>>, <<>>), StructLit("S", <<"z">>, <<Id("i")>>), StructLit("S", <<"x", "x">>, <<Id("i"), Id("i")>>),
    Partial(Id("p2"), <<None>>), Partial(Id("c"), <<None>>), Partial(Id("f"), <<IntLit("1")>>), Partial(Id("p2"), <<None, F32Lit>>),
    Partial(Id("fd"), <<F64Lit>>), Partial(Id("l"), <<None>>), Partial(Id("l"), <<StrLit>>),
    WorkerOf("cpu", Id("k")), WorkerOf("gpu", Id("fd")), WorkerOf("cpu", Id("fd")), WorkerOf("cpu", Id("p2")), WorkerOf("cpu", Access(Id("o"), "m")),
    WorkerOf("gpu", Access(Id("o"), "m")), Receive(WorkerOf("cpu", Id("u"))), Drain(WorkerOf("cpu", Id("u"))),
    As(MakePointer(I64), NullLit), As(MakePointer(I64), Id("p")), VecLit(MakePointer(I64), <<NullLit>>), VecLit(MakePointer(I64), <<Id("p")>>) }

\* Of each construct one that is accepted.
Picks ==
  Integers \cup
  { Call(Id("k"), <<Receive(Id("w"))>>), StructLit("S", <<"x">>, <<Id("i")>>), StructLit("S", <<"y", "x">>, <<Id("e"), Receive(Id("w"))>>),
    Partial(Id("p2"), <<Id("n1"), None>>), Partial(Id("f"), <<None>>), Partial(Id("c"), <<None>>), Partial(Id("f"), <<IntLit("1")>>),
    WorkerOf("cpu", Id("k")), Method(Id("v"), "append", <<Id("e")>>), Method(Id("v"), "erase", <<Id("i")>>), Method(Id("v"), "erase", <<Id("i"), Id("i")>>),
    Method(Id("v"), "resize", <<Receive(Id("w"))>>), Method(Id("s"), "resize", <<Id("i")>>), Call(GpuBuiltin("sqrt"), <<Id("e")>>) } \cup
  { Bin("==", Id("i"), IntLit("1")), Bin("&&", Id("b"), Id("b")), Bin("+", Id("s"), StrLit), Bin("+", Id("e"), F64Lit),
    Un("-", Id("i")), Un("!", Id("b")), Deref(Id("q")), As(F32, Id("i")),
    Index(Id("s"), Id("i")), Access(Id("q"), "y"), Method(Id("o"), "m", <<Id("i")>>), Method(Id("q"), "m", <<Id("i")>>),
    Method(Id("v"), "length", <<>>), New(Id("i")), New(Id("o")), VecLit(I64, <<Id("i"), F64Lit>>),
    Drain(Id("w")), WorkerOf("cpu", Id("f")), WorkerOf("gpu", Id("u")),
    Range3(IntLit("0"), Id("i"), IntLit("1")), Call(Id("fd"), <<Id("e")>>), Call(Id("u"), <<Id("i")>>),
    Call(Id("t"), <<Id("i")>>) }

-----------------------------------------------------------------------------
(* Statements.                                                             *)

PrintLn(es)        == Expr(Call(Id("print_ln"), es))
Let1(n, e)         == Assign("let", LId(n), e)
SetI               == Set(LId("i"), IntLit("2"))

\* The statements that an expression is put in, the first as it is given.
Forms(e) ==
  << <<Expr(e)>>,
     <<Let1("x", e)>>,
     <<Assign("const", LId("x"), e), PrintLn(<<Id("x")>>)>>,
     <<Return(e)>>,
     <<Set(LId("i"), e)>>,
     <<Set(LId("o"), e)>>,
     <<Set(LField(LId("o"), "y"), e)>>,
     <<Set(LField(LId("q"), "x"), e)>>,
     <<Set(LIndex(LId("v"), IntLit("1")), e)>>,
     <<Set(LDeref(LId("p")), e)>>,
     <<Set(LMulti(<<LId("i"), LId("e")>>), Tup(<<e, Id("i")>>))>>,
     <<Set(LMulti(<<LId("i"), LId("e")>>), e)>>,
     <<Return(Tup(<<Id("i"), e>>))>>,
     <<Assign("let", LMulti(<<LId("x"), LId("y")>>), e), PrintLn(<<Id("x"), Id("y")>>)>>,
     <<Modify("+=", LId("i"), IntLit("1")), PrintLn(<<e, Id("i")>>)>>,
     <<If(<<e, Block(<<SetI>>), None, Block(<<Return(Id("i"))>>)>>)>>,
     <<If(<<Id("b"), Block(<<Let1("x", e)>>), e, Block(<<SetI>>), None, Block(<<Expr(e)>>)>>)>>,
     <<While(Id("b"), Block(<<Let1("x", e), Let1("y", Id("x"))>>))>>,
     <<Foreach("t", e, Block(<<PrintLn(<<Id("t")>>)>>))>>,
     <<Foreach("t", Range3(IntLit("0"), e, IntLit("2")), Block(<<Let1("x", e), PrintLn(<<Id("t")>>)>>))>>,
     <<Send(Id("w"), e)>>,
     <<Send(e, VecLit(I64, <<Id("i")>>))>>,
     <<If(<<Id("b"), Block(<<Let1("x", e)>>)>>), Let1("x", Id("i"))>>,
     <<Let1("x", e), Let1("x", e)>>,
     <<While(e, Block(<<SetI>>))>>,
     <<Modify("+=", LId("i"), e)>>,
     <<Modify("-=", LField(LId("o"), "y"), e), Set(LIndex(LId("v"), e), Id("i"))>>,
     <<Set(LId("e"), StructLit("S", <<"y">>, <<e>>))>>,
     <<Let1("x", Partial(Id("f"), <<e>>))>> >>

\* Programs that are not made of one expression.
Others ==
  { <<Assign("const", LId("x"), Id("i")), Set(LId("x"), IntLit("1"))>>,
    <<Set(LField(LId("q"), "z"), IntLit("1"))>>, <<Set(LId("zz"), Id("i"))>>, <<Expr(Id("zz"))>>,
    <<Let1("x", New(Id("i"))), Set(LId("x"), NullLit)>>,
    <<Return(None)>>,
    <<Set(LMulti(<<LId("i"), LId("b")>>), Tup(<<IntLit("1"), Id("b")>>))>>,
    <<Let1("x", Partial(Id("p2"), <<Id("i"), None>>)), Let1("y", Call(Id("x"), <<Id("e")>>)),
      Let1("y2", WorkerOf("cpu", Id("x")))>>,
    <<Let1("x", WorkerOf("gpu", Partial(Id("p2"), <<IntLit("1"), None>>))), Send(Id("x"), VecLit(F32, <<Id("e")>>))>>,
    <<Let1("x", WorkerOf("cpu", Partial(Id("p2"), <<IntLit("1"), None>>))), Let1("y", Receive(Id("x")))>>,
    <<While(Bin("==", Method(Id("v"), "length", <<>>), Call(Id("c"), <<Id("i")>>)), Block(<<SetI>>))>>,
    <<Let1("x", WorkerOf("gpu", Id("f"))), Send(Id("x"), VecLit(I64, <<IntLit("1"), Id("i")>>)), Let1("y", Drain(Id("x")))>>,
    <<If(<<Bin("==", Id("p"), NullLit), Block(<<SetI>>), Id("b"), Block(<<Return(IntLit("1"))>>)>>)>>,
    <<While(Bin("<", Id("i"), IntLit("3")), Block(<<Modify("+=", LId("i"), IntLit("1")), If(<<Id("b"), Block(<<Break>>)>>)>>))>>,
    <<PrintLn(<<Call(Id("k"), <<Id("i")>>), Receive(Id("w"))>>), PrintLn(<<>>)>>,
    <<Send(Id("w"), VecLit(F64, <<F64Lit>>))>>, <<Send(Id("w"), VecLit(Str, <<Id("s")>>))>>,
    <<Let1("x", Call(Id("t"), <<Id("i")>>)), Set(LId("x"), Tup(<<Id("i"), Id("i")>>))>>,
    <<Let1("x", Call(Id("t"), <<Id("i")>>)), Set(LId("x"), Call(Id("t"), <<Id("i")>>))>>,
    <<Modify("+=", LId("s"), Id("s"))>>, <<Modify("+=", LId("zz"), Id("i"))>>, <<Modify("+=", LId("q"), NullLit)>>,
    <<Assign("const", LId("x"), Id("i")), Modify("+=", LId("x"), IntLit("1"))>>, <<Modify("*=", LId("e"), F64Lit)>>,
    <<Modify("+=", LDeref(LId("i")), IntLit("1"))>> }

\* Tuples, that can only be set and returned.
Tuples ==
  { <<Set(LMulti(<<LId("i"), LId("e")>>), Tup(<<x, y>>))>> : x \in Leaves, y \in Leaves \cup {VoidCall} } \cup
  { <<Set(LId("i"), Tup(<<x, y>>))>> : x, y \in {VoidCall, NullLit, Id("i"), Id("c"), Call(Id("t"), <<Id("i")>>)} }

\* A function that returns something else than an integer.
Returns ==
  ({Void} \X {None, VoidCall, Id("i")}) \cup ({MakePointer(I64)} \X {NullLit, Id("p"), New(Id("i")), Id("q")}) \cup
  ({Tuple(<<I64, F32>>), Tuple(<<F32, I64>>)} \X
     {Call(Id("t"), <<Id("i")>>), Tup(<<Id("i"), Id("e")>>), Tup(<<Id("e"), Id("i")>>), Tup(<<Id("s"), Id("i")>>), Tup(<<Id("i")>>), Id("i")})

\* A form, and what is put in it; a program of its own is a form of its own.
Kept   == {2}
Alone  == {1, 2}
Within == 3..Len(Forms(None))
Whole  == 0
BodyOf(choice) == IF choice[1] = Whole THEN choice[2].a ELSE Forms(choice[2])[choice[1]]

Bodies ==
  (Kept \X (Constructs(Leaves \cup {F32Lit}, {Id("i"), Id("b"), Id("s"), Id("e")}) \cup Particular \cup
             Constructs(Picks, {Id("i"), Id("b")}))) \cup
  ((Alone \cup Within) \X (Picks \cup Leaves)) \cup ({Whole} \X {Block(ss) : ss \in Others \cup Tuples})
PortableBodies ==
  {b \in (Kept \X Particular) \cup ((Alone \cup Within) \X (Picks \cup Leaves)) \cup ({Whole} \X {Block(ss) : ss \in Others}) :
     NamesOf(BodyOf(b)) \cap {"v", "w", "k"} = {}}

AllPrograms ==
  {ModuleWith(choice[1], BodyOf(choice[2])) :
     choice \in ({"cpu"} \X Bodies) \cup ({"anywhere"} \X PortableBodies) \cup
                {g \in {"gpu"} \X PortableBodies : g[2][1] \in Alone \cup {Whole}}} \cup
  {<<N1, StructS, FnOf("z", "cpu", Params("cpu"), r[1], <<Return(r[2])>>)>> \o Prelude : r \in Returns}

-----------------------------------------------------------------------------
(* Texts.                                                                  *)

TextOf(els, next) == [tokens |-> ModuleText(els), of |-> els, next |-> next]

\* Modules that are compiled from their texts: each form, each construct.
WholeBodies ==
  ((Alone \cup Within) \X {Id("i"), StructLit("S", <<"x">>, <<Id("i")>>), Receive(Id("w"))}) \cup (Kept \X Picks) \cup
  ({Whole} \X {Block(ss) : ss \in Others})
\* Functions that are only parsed: an expression of each kind that can be
\* written, in each place that another can be; next to what follows it, or is
\* before it, that may be read as a part of it.
Shapes ==
  {Id("i"), IntLit("1"), NullLit, Self, Un("-", Id("i")), As(F32, Id("i")), Index(Id("v"), Id("i")), Access(Id("o"), "x"),
   Call(Id("c"), <<Id("i")>>), StructLit("S", <<"x">>, <<Id("i")>>), VecLit(I64, <<Id("i"), Id("i")>>), New(Id("i")), Deref(Id("p")),
   Receive(Id("w")), WorkerOf("cpu", Id("f")), PipelineOf(Id("w"), Id("w")), Partial(Id("f"), <<None>>),
   Range3(IntLit("0"), Id("i"), IntLit("1"))} \cup
  {Bin(op, Id("i"), Id("b")) : op \in {"||", "&&", "==", "<", "+", "*"}}
Neighbours == {Id("i"), Un("-", Id("i")), Deref(Id("p")), VecLit(I64, <<Id("i")>>)}
Operators  == {"||", "&&", "!=", ">=", "-", "/", "%"}
MadeOfShapes ==
  {Bin(op, x, y) : op \in Operators, x \in Shapes, y \in Neighbours} \cup
  {Bin(op, Bin(o, Id("i"), Id("b")), y) : op, o \in Operators, y \in Neighbours} \cup
  {Bin(op, Id("i"), x) : op \in Operators, x \in Shapes} \cup
  {PipelineOf(x, y) : x \in Shapes, y \in Neighbours \cup {Receive(Id("w"))}} \cup
  UNION { {Call(x, <<Id("i")>>), Call(Id("c"), <<x, x>>), Index(x, x), Un("!", x), Deref(x), As(I64, x), Access(x, "y"), New(x), Drain(x),
           Partial(x, <<x, None>>), WorkerOf("gpu", x), Range3(x, Id("i"), x), StructLit("S", <<"x", "y">>, <<x, x>>)} : x \in Shapes }
Short(ss) == <<FnOf("z", "gpu", <<>>, Void, ss)>>
ShortFunctions ==
  {Short(<<Let1("x", e)>>) : e \in MadeOfShapes} \cup {Short(Forms(e)[k]) : e \in Shapes, k \in DOMAIN Forms(None)} \cup
  {Short(<<Let1("x", e), Set(LDeref(LId("p")), e)>>) : e \in Shapes} \cup
  {Short(<<If(<<Id("b"), Block(<<>>), Bin("==", Id("i"), e), Block(<<Return(None)>>)>>), Expr(e)>>) : e \in Shapes}

\* Functions whose text is damaged: a token is left out, is there twice, or
\* changes places with the next.
Damaged(tokens) ==
  {RemoveAt(tokens, k) : k \in DOMAIN tokens} \cup {InsertAt(tokens, k, tokens[k]) : k \in DOMAIN tokens} \cup
  {[tokens EXCEPT ![k] = tokens[k + 1], ![k + 1] = tokens[k]] : k \in 1..Len(tokens) - 1}
Fragments ==
  { <<Let1("x", StructLit("S", <<"x", "y">>, <<Id("a"), Un("-", Id("a"))>>))>>,
    <<Set(LIndex(LField(LId("o"), "v"), Id("a")), Bin("+", Id("a"), Bin("*", Id("a"), Id("b"))))>>,
    <<Set(LMulti(<<LId("a"), LDeref(LId("p"))>>), Tup(<<Id("b"), Deref(Id("p"))>>))>>,
    <<Expr(Call(Access(Id("o"), "m"), <<Id("a"), Index(Id("v"), Id("a"))>>))>>,
    <<Let1("x", Receive(Id("w"))), Send(Id("w"), VecLit(I64, <<Id("a"), Id("b")>>))>>,
    <<Let1("x", Drain(Id("w"))), Modify("-=", LId("a"), As(F32, Id("b")))>>,
    <<If(<<Bin("<", Id("a"), Id("b")), Block(<<Return(None)>>), Un("!", Bin("==", Id("a"), NullLit)), Block(<<>>), None, Block(<<Break>>)>>)>>,
    <<While(Id("a"), Block(<<Break>>)), Foreach("t", Range3(IntLit("2"), Id("a"), IntLit("3")), Block(<<Expr(Id("t"))>>))>>,
    <<Let1("x", Partial(Id("f"), <<None, Id("a")>>)), Let1("y", WorkerOf("gpu", Id("f"))), Let1("z", PipelineOf(Id("y"), Id("w")))>>,
    <<Assign("const", LId("x"), New(Bin("||", Id("a"), Bin("&&", Id("b"), Self)))), Return(Call(GpuBuiltin("sqrt"), <<Id("x")>>))>> }
DamagedTexts ==
  LET DamagesOf(els) == Damaged(ModuleText(els))
      Given(ty, ret, ss) == FnOf("z", "gpu", <<Param("a", ty)>>, ret, ss)
  IN UNION ({DamagesOf(<<Given(I64, Void, ss)>>) : ss \in Fragments} \cup
            {DamagesOf(<<N1, Given(Worker(I64, MakePointer(Struct("S"))), Tuple(<<MakeVector(F64), Bool>>), <<>>)>>),
             DamagesOf(<<StructOf("S", <<Param("x", I64), Param("y", MakeVector(F32))>>, <<FnOf("m", "anywhere", <<>>, I64, <<>>)>>)>>)})

AllTexts ==
  {TextOf(ModuleWith("cpu", BodyOf(b)), "parsed") : b \in WholeBodies} \cup
  {TextOf(f, "read") : f \in ShortFunctions} \cup
  {[tokens |-> tokens, of |-> <<>>, next |-> "read"] : tokens \in DamagedTexts}
=============================================================================
