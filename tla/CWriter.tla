------------------------------ MODULE CWriter ------------------------------
(* The C writer (output/cwriter/write-c.go): what it writes for a checked tree,
   as the tree that a C compiler reads in it.  A node has a kind k, a name or an
   operator n, its children a, a type ty and names w.  The level l says how
   tightly the text of an expression holds together: 3 is a primary or postfix
   expression or one in parentheses, 2 begins with a prefix operator, 1 is
   "(L)op(R)".  The execution context that every call passes on, and the rooting
   of pointers, are left out. *)
EXTENDS Checker

C(k, n, a)       == [k |-> k, n |-> n, a |-> a, ty |-> Void, w |-> <<>>, l |-> 3]
CTyped(k, n, a, ty) == [C(k, n, a) EXCEPT !.ty = ty]
CVar(n)          == C("var", n, <<>>)
CCall(f, args)   == C("call", "", <<CVar(f)>> \o args)
Parenthesised(e) == [e EXCEPT !.l = 3]
Binary(op, l, r) == [C("bin", op, <<Parenthesised(l), Parenthesised(r)>>) EXCEPT !.l = 1]

\* What is put before a text is read with its first operand, and two equal
\* signs that meet as one operator.
RECURSIVE Prefix(_, _, _, _)
Prefix(k, op, ty, e) ==
  CASE e.l = 1 -> [e EXCEPT !.a[1] = Prefix(k, op, ty, @)]
    [] k = "un" /\ op # "!" /\ e.l = 2 /\ e.k = "un" /\ e.n = op ->
         [e EXCEPT !.n = op \o op]
    [] OTHER -> [CTyped(k, op, <<e>>, ty) EXCEPT !.l = 2]

\* What is put after a text is read with its last operand.
RECURSIVE Postfix(_, _, _)
Postfix(k, n, e) ==
  IF e.l = 3 THEN C(k, n, <<e>>) ELSE [e EXCEPT !.a[3 - e.l] = Postfix(k, n, @)]

RECURSIVE WriteExpression(_, _)
WriteAll(c, xs) == [k \in DOMAIN xs |-> WriteExpression(c, xs[k])]

\* A string that is assigned is copied from the pool.
WriteAssignedExpression(c, x) ==
  IF TypeOf(c, x) = Str THEN CCall("ey_runtime_string_use_literal", <<WriteExpression(c, x)>>)
  ELSE WriteExpression(c, x)

WriteLiteral(n) ==
  CASE n.k = "null"   -> C("lit", "0", <<>>)
    [] n.k = "bool"   -> CTyped("lit", IF n.n = "true" THEN "k_true" ELSE "k_false", <<>>, Bool)
    [] n.k = "str"    -> CCall("ey_runtime_string_get", <<C("lit", n.rep, <<>>)>>)
    [] n.k = "sizeof" -> CTyped("sizeof", "", <<>>, n.ty)
    [] n.k = "int"    -> CTyped("lit", n.n, <<>>, I64)
    [] n.k = "float"  -> CTyped("lit", n.n, <<>>, F64)
    [] n.k = "char"   -> CTyped("lit", n.n, <<>>, Char)

\* What was to be replaced by a variable and was not leaves the writer at a loss.
Replaced(n) == IF n.rep = "" THEN C("panic", "", <<>>) ELSE CVar(n.rep)

WriteIdentifier(n) ==
  CASE n.rep # ""                 -> C("var", n.rep, <<>>)
    [] n.ty.s = "fun" /\ ~n.set   -> C("panic", "", <<>>)
    [] OTHER                      -> CVar(n.n)

StringOperator(op, l, r) ==
  CASE op = "+"  -> CCall("ey_runtime_string_join", <<l, r>>)
    [] op = "==" -> CCall("ey_runtime_string_equality", <<l, r>>)
    [] op = "!=" -> Parenthesised(Prefix("un", "!", Void, CCall("ey_runtime_string_equality", <<l, r>>)))
    [] OTHER     -> C("panic", "", <<>>)

\* "the excess parens are not pretty, but they are precise"
WriteBinary(c, n) ==
  LET l == WriteExpression(c, n.a[1])
      r == WriteExpression(c, n.a[2])
  IN IF TypeOf(c, n.a[1]) = Str THEN StringOperator(n.n, l, r) ELSE Binary(n.n, l, r)

Arrow(ty) == IF ty.s \in {"ptr", "worker"} THEN "->" ELSE "."

\* An element of a vector is what a pointer that is cast to its type points to.
Element(ty, vector, index) ==
  Prefix("deref", "*", Void, Prefix("cast", "", MakePointer(ty), CCall("ey_vector_access", <<vector, index>>)))

WriteIndex(c, n) ==
  LET indexed == WriteExpression(c, n.a[1])
      index   == WriteExpression(c, n.a[2])
  IN CASE n.rep = "vec" -> Element(n.ty, indexed, index)
       [] n.rep = "str" -> CCall("ey_runtime_string_get_character", <<indexed, index>>)
       [] OTHER         -> C("nothing", "", <<>>)

WriteCall(c, n) ==
  IF n.rep # "" THEN CVar(n.rep)
  ELSE C("call", "", <<WriteExpression(c, n.a[1])>> \o WriteAll(c, Tail(n.a)))

\* A literal of a tuple copies its strings, one of a structure does not.
WriteCompound(c, n, ty) ==
  IF n.k = "tuple"
  THEN [CTyped("compound", "", [k \in DOMAIN n.a |-> WriteAssignedExpression(c, n.a[k])], ty)
          EXCEPT !.w = [k \in DOMAIN n.a |-> "f" \o ToString(k - 1)]]
  ELSE [CTyped("compound", "", WriteAll(c, n.a), ty) EXCEPT !.w = n.w]

\* The wrapper or the kernel, the closure if there is one, and the sizes.  One
\* that was not made has no module to be written with.
WriteWorker(n) ==
  IF n.w = <<>> THEN C("panic", "", <<>>)
  ELSE [CTyped("worker", n.n, IF n.rep = "" THEN <<>> ELSE <<CVar(n.rep)>>, n.ty) EXCEPT !.w = <<Last(n.w)>>]

WriteExpression(c, x) ==
  LET n == c.heap[x]
      Sub(k) == WriteExpression(c, n.a[k])
  IN CASE n.k \in {"null", "bool", "str", "sizeof", "int", "char", "float"} -> WriteLiteral(n)
       [] n.k = "self"     -> CVar("ey_self")
       [] n.k = "gpufn"    -> CVar(n.n)
       [] n.k = "id"       -> WriteIdentifier(n)
       [] n.k = "cast"     -> Prefix("cast", "", n.ty, Sub(1))
       [] n.k = "deref"    -> Prefix("deref", "*", Void, Sub(1))
       [] n.k = "un"       -> Prefix("un", n.n, Void, Sub(1))
       [] n.k = "bin"      -> WriteBinary(c, n)
       [] n.k = "access"   -> Postfix(Arrow(TypeOf(c, n.a[1])), n.n, Sub(1))
       [] n.k = "index"    -> WriteIndex(c, n)
       [] n.k = "range"    -> CCall("ey_runtime_range", <<Sub(2), Sub(1), Sub(3)>>)
       [] n.k = "call"     -> WriteCall(c, n)
       [] n.k \in {"tuple", "struct"} -> WriteCompound(c, n, TypeOf(c, x))
       [] n.k \in {"new", "veclit"}   -> Replaced(n)
       [] n.k = "closure"  -> CCall("ey_closure_create", <<C("fid", n.n, <<>>), CVar(n.rep)>>)
       [] n.k = "pipeline" -> CCall("ey_worker_create_pipeline", <<Sub(1), Sub(2)>>)
       [] n.k = "worker"   -> WriteWorker(n)
       [] n.k = "receive"  -> IF n.set THEN Sub(2) ELSE Replaced(n)

RECURSIVE WriteLValue(_, _)
WriteLValue(c, x) ==
  LET n     == c.heap[x]
      inner == WriteLValue(c, n.a[1])
      index == WriteExpression(c, n.a[2])
      at    == Unwrapped(TypeOf(c, n.a[1]))
  IN CASE n.k = "lid"    -> CVar(n.n)
       [] n.k = "lself"  -> CVar("ey_self")
       [] n.k = "lderef" -> Prefix("deref", "*", Void, inner)
       [] n.k = "lfield" -> Postfix(Arrow(TypeOf(c, n.a[1])), n.n, inner)
       [] n.k = "lindex" /\ at.s = "vec" -> Element(n.ty, inner, index)
       [] n.k = "lindex" /\ at.s = "str" -> C("character", "", <<inner, index>>)
       [] n.k = "lmulti" -> C("panic", "", <<>>)

-----------------------------------------------------------------------------
(* Statements.  Each is written as a sequence of statements of C.          *)

\* GetTemporaryName: a name that no other node takes.
WriterTemp(x, what) == "ey_tempb_" \o ToString(x) \o what

Store(how, ty, lhs, rhs) ==
  IF how = "normal" THEN C("assign", "=", <<lhs>> \o rhs) ELSE CTyped("decl", lhs.n, rhs, ty)

WriteAssign(c, x) ==
  LET n     == c.heap[x]
      lhs   == c.heap[n.a[1]]
      temp  == WriterTemp(x, "")
      rhs   == IF n.a[2] = Nil THEN <<>> ELSE <<WriteAssignedExpression(c, n.a[2])>>
      Part(k) == Store(n.n, n.ty.t[k], WriteLValue(c, lhs.a[k]),
                       <<Postfix(".", "f" \o ToString(k - 1), CVar(temp))>>)
  IN IF lhs.k = "lmulti" THEN <<CTyped("decl", temp, rhs, n.ty)>> \o [k \in DOMAIN lhs.a |-> Part(k)]
     ELSE <<Store(n.n, n.ty, WriteLValue(c, n.a[1]), rhs)>>

RECURSIVE WriteStatement(_, _)
WriteBlock(c, x) ==
  C("block", "", FlattenSeq([k \in DOMAIN c.heap[x].a |-> WriteStatement(c, c.heap[x].a[k])]))

\* A vector is walked with an index, a range with the variable itself.
WriteForeach(c, x) ==
  LET n      == c.heap[x]
      vector == WriterTemp(x, "v")
      index  == WriterTemp(x, "i")
      body   == WriteBlock(c, n.a[2])
  IN IF n.rep = "range"
     THEN <<[CTyped("for", n.n, <<CVar(n.w[2]), CCall("ey_runtime_continue_iterating",
                                       <<CVar(n.w[3]), CVar(n.n), CVar(n.w[1])>>), CVar(n.w[3]), body>>, I64)
               EXCEPT !.w = n.w]>>
     ELSE <<CTyped("decl", vector, <<WriteExpression(c, n.a[1])>>, MakeVector(n.ty)),
            CTyped("decl", index, <<C("lit", "0", <<>>)>>, I64),
            C("while", "", <<Binary("<", CVar(index), CCall("ey_vector_length", <<CVar(vector)>>)),
              C("block", "", <<CTyped("decl", n.n, <<Element(n.ty, CVar(vector), CVar(index))>>, n.ty),
                               body, C("increment", index, <<>>)>>)>>)>>

WriteArgArray(n) ==
  C("array", n.n, [k \in DOMAIN n.w |-> CASE n.w[k] = "" -> C("lit", "0", <<>>)
                                          [] n.set       -> Prefix("un", "&", Void, CVar(n.w[k]))
                                          [] OTHER       -> CVar(n.w[k])])

WriteStatement(c, x) ==
  LET n == c.heap[x] IN
  CASE n.k = "assign"  -> WriteAssign(c, x)
    [] n.k = "modify"  -> <<C("assign", n.n, <<WriteLValue(c, n.a[1]), WriteExpression(c, n.a[2])>>)>>
    [] n.k = "expr"    -> <<C("expr", "", <<WriteExpression(c, n.a[1])>>)>>
    [] n.k = "break"   -> <<C("break", "", <<>>)>>
    [] n.k = "while"   -> <<C("while", "", <<WriteExpression(c, n.a[1]), WriteBlock(c, n.a[2])>>)>>
    [] n.k = "foreach" -> WriteForeach(c, x)
    [] n.k = "args"    -> <<WriteArgArray(n)>>
    [] n.k = "return"  -> <<C("return", "", IF n.a[1] = Nil THEN <<>> ELSE <<WriteExpression(c, n.a[1])>>)>>
    [] n.k = "send"    -> LET pipe == WriteExpression(c, n.a[1])
                          IN <<C("expr", "", <<C("call", "", <<Postfix("->", "send", pipe), pipe,
                                                              WriteExpression(c, n.a[2])>>)>>)>>
    [] n.k = "if"      -> <<C("if", "", [k \in DOMAIN n.a |->
                              CASE k % 2 = 0      -> WriteBlock(c, n.a[k])
                                [] n.a[k] = Nil   -> C("else", "", <<>>)
                                [] OTHER          -> WriteExpression(c, n.a[k])])>>

-----------------------------------------------------------------------------
(* The elements of the module, once for each target.                       *)

CanWriteRequirement(target, loc) == loc \in {target, "anywhere"}

\* namespaceFunctionId: one name for each function, whatever it belongs to.
FunctionId(fn) == IF fn.struct = "" THEN fn.n ELSE fn.struct \o "." \o fn.n

EffectiveParameters(fn) ==
  (IF fn.struct = "" THEN <<>> ELSE <<[n |-> "ey_self", ty |-> MakePointer(Struct(fn.struct))]>>) \o fn.ps

WriteFunction(c, target, fn) ==
  IF ~CanWriteRequirement(target, fn.loc) THEN <<>>
  ELSE <<[n |-> FunctionId(fn), ret |-> fn.ret, ps |-> EffectiveParameters(fn), body |-> WriteBlock(c, fn.body)]>>

\* A kernel calls the function, or a copy of the closure, with the value of its
\* place, and puts the result into its place.
WriteKernel(target, el) ==
  LET at(array) == C("index", "i", <<CVar(array)>>)
      result(e) == IF el.out = Void THEN C("expr", "", <<e>>) ELSE C("assign", "=", <<at("global_output"), e>>)
      out == IF el.out = Void THEN C("lit", "0", <<>>) ELSE Prefix("un", "&", Void, CVar("output"))
      declared == IF el.out = Void THEN <<>> ELSE <<CTyped("decl", "output", <<>>, el.out)>>
      body == IF el.closure
              THEN <<CTyped("decl", "input", <<at("global_input")>>, el.in)>> \o declared \o
                   <<C("array", "args", <<Prefix("un", "&", Void, CVar("input"))>>),
                     C("expr", "", <<CCall("ey_closure_call", <<CVar("closure_buffer"), out, CVar("args")>>)>>)>> \o
                   (IF el.out = Void THEN <<>> ELSE <<result(CVar("output"))>>)
              ELSE <<result(CCall(el.calls, <<at("global_input")>>))>>
  IN IF target = "cpu" THEN <<>>
     ELSE <<[n |-> el.n, ret |-> Void, body |-> C("block", "", body),
             ps |-> <<[n |-> "global_input", ty |-> MakePointer(el.in)],
                      [n |-> "global_output", ty |-> MakePointer(el.out)]>>]>>

WriteTopLevelElement(c, target, el) ==
  CASE el.k = "fn"     -> WriteFunction(c, target, el)
    [] el.k = "kernel" -> WriteKernel(target, el)
    [] el.k = "struct" -> FlattenSeq([k \in DOMAIN el.fns |-> WriteFunction(c, target, el.fns[k])])
    [] el.k = "const"  -> <<>>

\* The constants come first, then functions; the pool has every string.
WriteProgram(c, target) ==
  LET Of(kind) == SelectSeq(c.els, LAMBDA el : el.k \in kind) IN
  [target    |-> target,
   pool      |-> c.strings,
   consts    |-> FlattenSeq([k \in DOMAIN Of({"const"}) |-> WriteAssign(c, Of({"const"})[k].assign)]),
   structs   |-> c.required,
   functions |-> FlattenSeq([k \in DOMAIN c.els |-> WriteTopLevelElement(c, target, c.els[k])])]

\* WriteType panics at a type of null or of a function, and the writer at a
\* node that it does not know.
RECURSIVE UnwritableType(_)
UnwritableType(ty) == ty.s \in {"null", "fun"} \/ (ty.s = "ptr" /\ UnwritableType(ty.t[1]))

RECURSIVE Unwritable(_)
Unwritable(e) ==
  \/ e.k = "panic"
  \/ UnwritableType(e.ty)
  \/ \E k \in DOMAIN e.a : Unwritable(e.a[k])

WritingPanics(p) ==
  \/ \E r \in Range(p.structs) : \E k \in DOMAIN r.ty.t : UnwritableType(r.ty.t[k])
  \/ \E d \in Range(p.consts) : Unwritable(d)
  \/ \E f \in Range(p.functions) : UnwritableType(f.ret) \/ Unwritable(f.body)
=============================================================================
