------------------------------- MODULE Parser -------------------------------
(* How a text is read (token/tokeniser.go, parser/parser.go).

   A text is a sequence of tokens and line ends.  The tokeniser turns line ends
   into semicolons.  The parser goes down the grammar: a method on parser p is
   the parser after it, which has found what it looks for, its value then being
   that, or not.  What was read when a method fails is given back only where
   the code says so: a frame is a place to go back to.  A method of the code
   that uses a frame that is not there panics; here no frame is left then and
   no token is found any more. *)
EXTENDS Ast

\* A token has a type and, for a name or a literal, a value.
Sign(ty)     == <<ty, "">>
Ident(n)     == <<"Identifier", n>>
Newline      == Sign("newline")

-----------------------------------------------------------------------------
(* The tokeniser.                                                          *)

\* shouldInsertSemicolon: a line that ends with one of these ends a statement.
EndsStatement ==
  {"Integer", "Float64", "Float32", "Identifier", "Character", "String", "}", ")", ":", "true", "false",
   "i64", "f32", "f64", "bool", "char", "string", "self"}

LinesOf(text) ==
  LET ends == <<0>> \o SelectSeq([k \in DOMAIN text |-> k], LAMBDA k : text[k] = Newline) \o <<Len(text) + 1>>
  IN [k \in 1..Len(ends) - 1 |-> SubSeq(text, ends[k] + 1, ends[k + 1] - 1)]

\* getNext for the tokens of a line, after a line end that may be a semicolon.
\* The token that waited for the semicolon does not become the last token: a
\* line of one token is ended as the line before was.
ReadLine(t, line) ==
  CASE line = <<>> -> t
    [] line # <<>> /\ t.lastTokenType \notin EndsStatement ->
         [out |-> t.out \o line, lastTokenType |-> Last(line)[1]]
    [] line # <<>> /\ t.lastTokenType \in EndsStatement ->
         [out |-> t.out \o <<Sign(";")>> \o line,
          lastTokenType |-> IF Len(line) = 1 THEN t.lastTokenType ELSE Last(line)[1]]

Tokenise(text) ==
  FoldLeft(ReadLine, [out |-> <<>>, lastTokenType |-> "eof"], LinesOf(Append(text, Sign("eof")))).out

-----------------------------------------------------------------------------
(* Frames and tokens.                                                      *)

NewParser(tokens) ==
  [tokens |-> tokens, frames |-> <<1>>, structLiteralOk |-> 0, breakOk |-> 0,
   logged |-> FALSE, found |-> FALSE, value |-> None]

Save(p)   == IF p.frames = <<>> THEN p ELSE [p EXCEPT !.frames = Append(@, Last(@))]
Reject(p) == IF p.frames = <<>> THEN p ELSE [p EXCEPT !.frames = Front(@)]
Accept(p) == IF Len(p.frames) < 2 THEN [p EXCEPT !.frames = <<>>]
             ELSE [p EXCEPT !.frames = Append(SubSeq(@, 1, Len(@) - 2), Last(@))]

Here(p)    == IF p.frames = <<>> \/ Last(p.frames) > Len(p.tokens) THEN Sign("none") ELSE p.tokens[Last(p.frames)]
At(p, ty)  == Here(p)[1] = ty
Skip(p)    == [p EXCEPT !.frames[Len(p.frames)] = @ + 1]

Found(p, v) == [p EXCEPT !.found = TRUE, !.value = v]
Absent(p)   == [p EXCEPT !.found = FALSE]
LogError(p) == [p EXCEPT !.found = FALSE, !.logged = TRUE]

Token(p, ty) == IF At(p, ty) THEN Found(Skip(p), Here(p)[2]) ELSE Absent(p)

\* An error is logged and the method goes on.
Wanted(p, ty)   == IF At(p, ty) THEN Skip(p) ELSE LogError(p)
SkipOver(p, ty) == IF At(p, ty) THEN Skip(p) ELSE p
\* What is not found is an error.
Required(p)     == IF p.found THEN p ELSE LogError(p)
\* What is not found is left out; what is found is a list of one.
Optional(p)     == Found(p, IF p.found THEN <<p.value>> ELSE <<>>)
\* What was found makes something, and the frame is kept or given back.
Made(p, Of(_))    == IF p.found THEN Found(p, Of(p.value)) ELSE p
Attempt(p, Of(_)) == IF p.found THEN Made(Accept(p), Of) ELSE Reject(p)
\* A frame is given back, and not before an error is logged.
GiveBack(p)       == Reject(Absent(p))
LogAndGiveBack(p) == Reject(LogError(p))

-----------------------------------------------------------------------------
(* What is read next is named: the type of a token, or one of the names that
   Read knows at the end.                                                  *)

RECURSIVE Read(_, _)
RECURSIVE AllOf(_, _, _)
RECURSIVE MoreOf(_, _, _)
RECURSIVE FirstOf(_, _)
RECURSIVE EatSemicolons(_)

\* One after the other, each of which has to be there.
AllOf(p, whats, vs) ==
  IF ~p.found THEN LogError(p)
  ELSE IF whats = <<>> THEN Found(p, Append(vs, p.value))
  ELSE AllOf(Read(p, Head(whats)), Tail(whats), Append(vs, p.value))
All(p, whats)  == AllOf(Read(p, Head(whats)), Tail(whats), <<>>)
\* When the first is there.
AndThen(p, whats) == IF p.found THEN AllOf(p, whats, <<>>) ELSE p

\* With commas between them.  The last element of a vector may have one too.
MoreOf(p, what, vs) ==
  IF ~p.found THEN IF what = "Element" THEN Found(p, vs) ELSE LogError(p)
  ELSE IF At(p, ",") THEN MoreOf(Read(Skip(p), what), what, Append(vs, p.value))
  ELSE Found(p, Append(vs, p.value))
Several(p, what) == IF p.found THEN MoreOf(p, what, <<>>) ELSE p
\* One, or several that make one.
OneOrMore(vs, Of(_)) == IF Len(vs) = 1 THEN vs[1] ELSE Of(vs)

\* In order, each from where the one before gave up.
FirstOf(p, whats) == IF p.found \/ whats = <<>> THEN p ELSE FirstOf(Read(p, Head(whats)), Tail(whats))

EatSemicolons(p) == IF At(p, ";") THEN EatSemicolons(Skip(p)) ELSE p

-----------------------------------------------------------------------------
(* Types.                                                                  *)

BasicTypes ==
  [i64 |-> I64, f32 |-> F32, f64 |-> F64, char |-> Char, bool |-> Bool, string |-> Str]

VectorType(p) == Made(All(p, <<"Type", "]">>), LAMBDA vs : MakeVector(vs[1]))

\* A worker that is sent nothing is left with one type.
WorkerType(p) ==
  Made(All(p, <<"(", "Type?", ")", "Type?">>), LAMBDA vs :
    [s |-> "worker", t |-> vs[2] \o (IF vs[4] = <<>> THEN <<Void>> ELSE vs[4])])

TupleType(p) == Made(All(p, <<"Types", ")">>), LAMBDA vs : Tuple(vs[1]))

WholeType(p) ==
  LET ty == Here(p)[1] IN
  CASE ty \in DOMAIN BasicTypes -> Found(Skip(p), BasicTypes[ty])
    [] ty = "["                 -> VectorType(Skip(p))
    [] ty = "worker"            -> WorkerType(Skip(p))
    [] ty = "("                 -> TupleType(Skip(p))
    [] ty = "Identifier"        -> Found(Skip(p), Struct(Here(p)[2]))
    [] OTHER                    -> Absent(p)

Type(p) ==
  Attempt(WholeType(SkipOver(Save(p), "*")), LAMBDA t : IF At(p, "*") THEN MakePointer(t) ELSE t)

-----------------------------------------------------------------------------
(* Expressions.                                                            *)

RECURSIVE LiteralPairs(_, _, _, _, _)
RECURSIVE Postfixes(_)
RECURSIVE InfixExpression(_, _)
RECURSIVE MoreOperands(_, _)

\* _ stands for an argument that is left out.
Argument(p) == IF At(p, "_") THEN Found(Skip(p), None) ELSE Read(p, "Expression")
NoneOrMore(p, what) == IF p.found THEN MoreOf(p, what, <<>>) ELSE Found(p, <<>>)
ExpressionList(p, what) == NoneOrMore(Read(p, what), what)

LiteralPair(p) ==
  Made(AndThen(Token(p, "Identifier"), <<":", "Expression">>), LAMBDA vs : [n |-> vs[1], e |-> vs[3]])

\* A comma may be followed by a comma, or by nothing.
AfterPair(pair, name, w, es) ==
  IF pair.found THEN LiteralPairs(pair, name, Append(w, pair.value.n), Append(es, pair.value.e), FALSE)
  ELSE LiteralPairs(pair, name, w, es, FALSE)
LiteralPairs(p, name, w, es, first) ==
  LET q == EatSemicolons(p)
  IN IF At(q, "}") THEN Found(Skip(q), StructLit(name, w, es))
     ELSE IF (es # <<>> /\ ~At(q, ",")) \/ (es = <<>> /\ ~first) THEN LogError(q)
     ELSE AfterPair(LiteralPair(IF es = <<>> THEN q ELSE EatSemicolons(Skip(q))), name, w, es)

StructLiteralBody(p, name) == IF At(p, "{") THEN LiteralPairs(Skip(p), name, <<>>, <<>>, TRUE) ELSE Absent(p)

\* A name, or the literal of a structure where one may be.
BodyOrName(body, name) == IF body.found THEN body ELSE Found(body, Id(name))
NameOrStruct(p) ==
  LET name == Here(p)[2] IN
  IF p.structLiteralOk < 0 THEN Found(Skip(p), Id(name)) ELSE BodyOrName(StructLiteralBody(Skip(p), name), name)

VectorEnd(es, ty) == Found(Wanted(es, "}"), VecLit(ty, es.value))
VectorBody(t) ==
  IF t.found THEN VectorEnd(ExpressionList(Wanted(Wanted(t, "]"), "{"), "Element"), t.value) ELSE LogError(t)

LiteralOf(tk) ==
  CASE tk[1] = "Integer"   -> IntLit(tk[2])
    [] tk[1] = "Float32"   -> Typed("float", tk[2], <<>>, F32)
    [] tk[1] = "Float64"   -> Typed("float", tk[2], <<>>, F64)
    [] tk[1] = "String"    -> Typed("str", tk[2], <<>>, Str)
    [] tk[1] = "Character" -> Typed("char", tk[2], <<>>, Char)
    [] tk[1] \in {"true", "false"} -> Typed("bool", tk[1], <<>>, Bool)
    [] tk[1] = "null"      -> NullLit
    [] tk[1] = "self"      -> Self
LiteralTokens == {"Integer", "Float32", "Float64", "String", "Character", "true", "false", "null", "self"}

LiteralValueExpression(p) ==
  CASE Here(p)[1] \in LiteralTokens -> Found(Skip(p), LiteralOf(Here(p)))
    [] At(p, "gpubuiltin")          -> Made(All(Skip(p), <<"::", "Identifier">>), LAMBDA vs : GpuBuiltin(vs[2]))
    [] At(p, "Identifier")          -> NameOrStruct(p)
    [] At(p, "[")                   -> VectorBody(Type(Skip(p)))
    [] OTHER                        -> Absent(p)

PrimaryExpression(p) ==
  IF At(p, "(") THEN Made(All(Skip(p), <<"Expression", ")">>), Head) ELSE LiteralValueExpression(p)

\* What follows an expression; after a cast there may not be another.
Suffix(p) ==
  CASE At(p, "(") -> Postfixes(Made(AndThen(ExpressionList(Skip(p), "Expression"), <<")">>), LAMBDA vs : Call(p.value, vs[1])))
    [] At(p, "[") -> Postfixes(Made(AndThen(Read(Skip(p), "Expression"), <<"]">>), LAMBDA vs : Index(p.value, vs[1])))
    [] At(p, ".") -> Postfixes(Made(Required(Token(Skip(p), "Identifier")), LAMBDA n : Access(p.value, n)))
    [] OTHER      -> p
Cast(ty, e) == Found(IF ty.found THEN ty ELSE LogError(ty), As(ty.value, e))
Postfixes(p) ==
  IF ~p.found THEN p ELSE Suffix(IF At(p, "as") THEN Cast(Type(Skip(p)), p.value) ELSE p)

PostfixExpression(p) == Postfixes(PrimaryExpression(p))

UnaryExpression(p) ==
  IF At(p, "not") \/ At(p, "-")
  THEN Made(Required(PostfixExpression(Skip(p))), LAMBDA e : Un(IF At(p, "not") THEN "!" ELSE "-", e))
  ELSE PostfixExpression(p)

\* The operators from those that bind least: LogicalOrExpression to
\* MultiplicativeExpression.
InfixOperators ==
  << "or" :> "||", "and" :> "&&", "==" :> "==" @@ "!=" :> "!=",
     "<" :> "<" @@ "<=" :> "<=" @@ ">" :> ">" @@ ">=" :> ">=",
     "+" :> "+" @@ "-" :> "-", "*" :> "*" @@ "/" :> "/" @@ "%" :> "%" >>
OperatorHere(p, level) == IF Here(p)[1] \in DOMAIN InfixOperators[level] THEN InfixOperators[level][Here(p)[1]] ELSE ""

InfixExpression(p, level) ==
  IF level > Len(InfixOperators) THEN UnaryExpression(p) ELSE MoreOperands(InfixExpression(p, level + 1), level)

\* Mutant: the operand on the right takes what follows with it.
MoreOperandsToTheRight(l, level) ==
  LET op == OperatorHere(l, level) IN
  IF ~l.found \/ op = "" THEN l
  ELSE Made(Required(InfixExpression(Skip(l), level)), LAMBDA r : Bin(op, l.value, r))
MoreOperands(l, level) ==
  LET op == OperatorHere(l, level) IN
  IF ~l.found \/ op = "" THEN l
  ELSE MoreOperands(Made(Required(InfixExpression(Skip(l), level + 1)), LAMBDA r : Bin(op, l.value, r)), level)

AllocationExpression(p) ==
  Attempt(InfixExpression(SkipOver(Save(p), "new"), 1), LAMBDA e : IF At(p, "new") THEN New(e) ELSE e)

\* One to three expressions; the frame was accepted before.
NextOfRange(p) == IF At(p, ",") THEN Made(Read(Skip(p), "Expression"), LAMBDA e : <<e>>) ELSE Found(p, <<>>)
RangeOf(vs) ==
  CASE Len(vs) = 1 -> Range3(IntLit("0"), vs[1], IntLit("1"))
    [] Len(vs) = 2 -> Range3(vs[1], vs[2], IntLit("1"))
    [] Len(vs) = 3 -> Range3(vs[1], vs[2], vs[3])
RangeArguments(p) ==
  Made(All(p, <<"(", "Expression", "NextOfRange", "NextOfRange", ")">>), LAMBDA vs : RangeOf(<<vs[2]>> \o vs[3] \o vs[4]))

\* The worker that is drained or received from; Missing is what is done when
\* the bracket is not closed.  The frame was accepted then.
Closed(p, Missing(_)) == IF ~p.found THEN p ELSE IF At(p, ")") THEN Skip(p) ELSE Missing(p)
FromWorker(p, Of(_), Missing(_)) ==
  IF At(p, "(") THEN Closed(Attempt(AllocationExpression(Skip(p)), Of), Missing) ELSE LogAndGiveBack(p)

\* Errors leave the frame, but for one in the arguments.
PartialEnd(es, f) ==
  IF ~es.found THEN GiveBack(es)
  ELSE IF ~At(es, ")") \/ es.value = <<>> THEN LogError(SkipOver(es, ")"))
  ELSE Found(Accept(Skip(es)), Partial(f, es.value))
PartialArguments(p) == IF p.found THEN PartialEnd(ExpressionList(p, "Argument"), p.value[1]) ELSE p

\* Here an error leaves the frame too.
AcceptFound(p) == IF p.found THEN Accept(p) ELSE p

PrefixedExpression(p) ==
  LET s == Save(p)
      q == Skip(s)
  IN CASE At(s, "range")    -> RangeArguments(Accept(q))
       [] At(s, "*")        -> Attempt(AllocationExpression(q), Deref)
       [] At(s, "drain")    -> FromWorker(q, Drain, LogError)
       [] At(s, "partial")  -> PartialArguments(All(q, <<"PrimaryExpression", "(">>))
       [] At(s, "pipeline") -> Made(AcceptFound(All(q, <<"Expression", "Expression">>)), LAMBDA vs : PipelineOf(vs[1], vs[2]))
       [] At(s, "receive")  -> FromWorker(q, Receive, LogAndGiveBack)
       [] Here(s)[1] \in {"cpu", "gpu"} -> Attempt(Read(q, "Expression"), LAMBDA e : WorkerOf(Here(s)[1], e))
       [] OTHER             -> AllocationExpression(Reject(s))

\* Inside another expression a name may begin the literal of a structure.
Leave(e)      == [e EXCEPT !.structLiteralOk = @ - 1]
Expression(p) == Leave(PrefixedExpression([p EXCEPT !.structLiteralOk = @ + 1]))

TupleExpression(p) == Made(Several(Expression(p), "Expression"), LAMBDA es : OneOrMore(es, Tup))

-----------------------------------------------------------------------------
(* What can be assigned to.                                                *)

RECURSIVE Indexes(_)

SimpleLValue(p) == IF At(p, "self") THEN Found(Skip(p), LSelf) ELSE Made(Token(p, "Identifier"), LId)

AccessOf(l) ==
  IF l.found /\ At(l, ".") THEN Made(Required(Token(Skip(l), "Identifier")), LAMBDA n : LField(l.value, n)) ELSE l
AccessLValue(p) == AccessOf(SimpleLValue(p))

Indexes(l) ==
  IF l.found /\ At(l, "[")
  THEN Indexes(Made(All(Skip(l), <<"Expression", "]">>), LAMBDA vs : LIndex(l.value, vs[1])))
  ELSE l
IndexingLValue(p) == Indexes(AccessLValue(p))

DereferenceLValue(p) ==
  Attempt(IndexingLValue(SkipOver(Save(p), "*")), LAMBDA l : IF At(p, "*") THEN LDeref(l) ELSE l)

LValue(p) == Made(Several(DereferenceLValue(p), "DereferenceLValue"), LAMBDA ls : OneOrMore(ls, LMulti))

-----------------------------------------------------------------------------
(* Statements.  Those that begin with a keyword have read it.              *)

RECURSIVE MoreSegments(_)
RECURSIVE StatementList(_, _)

LetLikeStatement(p, how) ==
  Made(All(p, <<"LValue", "=", "Expression">>), LAMBDA vs : Assign(how, vs[1], vs[3]))

SendStatement(p) ==
  Made(All(p, <<"(", "Expression", ",", "Expression", ")">>), LAMBDA vs : Send(vs[2], vs[4]))

\* Where the block of a statement follows, a name and { are not the literal of
\* a structure.
InCondition(p)    == [p EXCEPT !.structLiteralOk = @ - 2]
AfterCondition(p) == [p EXCEPT !.structLiteralOk = @ + 2]
Condition(p)      == AfterCondition(Expression(InCondition(p)))

\* An error leaves the counter as it is.
AfterLoop(b) == IF b.found THEN [b EXCEPT !.breakOk = @ - 1] ELSE LogError(b)
LoopBlock(p) == AfterLoop(Read([p EXCEPT !.breakOk = @ + 1], "StatementBlock"))

ForeachStatement(p) ==
  Made(All(p, <<"Identifier", ":", "Condition", "LoopBlock">>), LAMBDA vs : Foreach(vs[1], vs[3], vs[4]))

WhileCondition(e) == IF e.found THEN AfterCondition(e) ELSE LogError(e)
WhileStatement(p) ==
  Made(AndThen(WhileCondition(Expression(InCondition(p))), <<"LoopBlock">>), LAMBDA vs : While(vs[1], vs[2]))

\* The segments after the first: the condition of an elseif is read as any
\* other expression.
MoreSegments(p) ==
  CASE p.found /\ At(p, "elseif") ->
         MoreSegments(Made(All(Skip(p), <<"Expression", "StatementBlock">>), LAMBDA vs : p.value \o vs))
    [] p.found /\ At(p, "else") -> Made(All(Skip(p), <<"StatementBlock">>), LAMBDA vs : p.value \o <<None>> \o vs)
    [] OTHER -> p
IfStatement(p) == Made(MoreSegments(All(p, <<"Condition", "StatementBlock">>)), If)

Returned(e) == IF e.found THEN Found(Accept(e), Return(e.value)) ELSE Found(Reject(e), Return(None))
ReturnStatement(p) == Returned(TupleExpression(Save(p)))

BreakStatement(p) == IF p.breakOk = 0 THEN LogError(p) ELSE Found(p, Break)

ModifyOperators == {"+=", "-=", "*=", "/="}
ModifyOf(l) ==
  IF l.found /\ Here(l)[1] \in ModifyOperators
  THEN Made(Required(Expression(Accept(Skip(l)))), LAMBDA e : Modify(Here(l)[1], l.value, e))
  ELSE GiveBack(l)
ModifyInPlaceStatement(p) == ModifyOf(LValue(Save(p)))

AssignedTo(l) == Required(Attempt(TupleExpression(Skip(l)), LAMBDA e : Assign("normal", l.value, e)))
\* Mutant: what could be assigned to is not given back.
AssignOfKeeping(l) ==
  IF ~l.found THEN GiveBack(l) ELSE IF At(l, "=") THEN AssignedTo(l) ELSE Absent(Accept(l))
AssignOf(l) == IF l.found /\ At(l, "=") THEN AssignedTo(l) ELSE GiveBack(l)
AssignStatement(p) == AssignOf(LValue(Save(p)))

ExpressionStatement(p) == Made(Expression(p), Expr)

AfterKeyword(p, keyword) ==
  CASE keyword = "for"             -> ForeachStatement(p)
    [] keyword \in {"let", "const"} -> LetLikeStatement(p, keyword)
    [] keyword = "send"            -> SendStatement(p)
    [] keyword = "return"          -> ReturnStatement(p)
    [] keyword = "if"              -> IfStatement(p)
    [] keyword = "while"           -> WhileStatement(p)
    [] keyword = "break"           -> BreakStatement(p)
KeywordStatement(p, keyword) == IF At(p, keyword) THEN AfterKeyword(Skip(p), keyword) ELSE Absent(p)

\* A keyword that begins a statement stands for that statement.
StatementKeywords == <<"for", "let", "const", "send", "return", "if", "while", "break">>
SemicolonsAfter(s) == IF s.found THEN EatSemicolons(s) ELSE s
Statement(p) ==
  SemicolonsAfter(FirstOf(Absent(EatSemicolons(p)),
    StatementKeywords \o <<"ModifyInPlaceStatement", "AssignStatement", "ExpressionStatement">>))

StatementList(s, ss) ==
  IF s.found THEN StatementList(Statement(s), Append(ss, s.value))
  ELSE Made(Required(Token(s, "}")), LAMBDA v : Block(ss))
StatementBlock(p) == IF At(p, "{") THEN StatementList(Statement(Skip(p)), <<>>) ELSE Absent(p)

-----------------------------------------------------------------------------
(* Functions, structures and the elements of a module.  Import lines and what
   they bring in are left to the loader of modules.                        *)

RECURSIVE StructBody(_, _, _, _)
RECURSIVE ModuleElements(_, _)

\* Names with one type; none is a segment too.
ParameterListSegment(p) ==
  IF ~At(p, "Identifier") THEN Found(p, <<>>)
  ELSE Made(All(p, <<"Names", "Type">>), LAMBDA vs : [k \in DOMAIN vs[1] |-> Param(vs[1][k], vs[2])])

MoreParameters(p) ==
  IF p.found /\ p.value # <<>>
  THEN Made(MoreOf(p, "ParameterListSegment", <<>>), LAMBDA pss : FlattenSeq(pss))
  ELSE Found(p, <<>>)
ParameterList(p) == MoreParameters(ParameterListSegment(p))

\* A function without a block is an error, and is found.
FunctionBlock(b) == IF b.found THEN b ELSE Found(LogError(b), None)

FunctionDefinition(p) ==
  LET e   == SkipOver(Save(p), "export")
      loc == IF Here(e)[1] \in {"cpu", "gpu"} THEN Here(e)[1] ELSE "anywhere"
      f   == IF loc = "anywhere" THEN e ELSE Skip(e)
  IN IF ~At(f, "fn") THEN GiveBack(f)
     ELSE Made(All(Accept(Skip(f)), <<"Identifier", "(", "ParameterList", ")", "Type?", "FunctionBlock">>), LAMBDA vs :
            Fn(vs[1], loc, vs[3], IF vs[5] = <<>> THEN Void ELSE vs[5][1], vs[6]))

AfterFields(more, n, fields, fns) ==
  IF more.found /\ more.value # <<>> THEN StructBody(more, n, fields \o more.value, fns)
  ELSE Made(Required(Token(EatSemicolons(more), "}")), LAMBDA v : StructOf(n, fields, fns))
AfterFunction(fn, n, fields, fns) ==
  IF fn.found THEN StructBody(fn, n, fields, Append(fns, fn.value))
  ELSE AfterFields(ParameterListSegment(fn), n, fields, fns)
StructBody(p, n, fields, fns) == AfterFunction(FunctionDefinition(EatSemicolons(p)), n, fields, fns)

AfterStructName(p) == IF p.found THEN StructBody(p, p.value[1], <<>>, <<>>) ELSE p
StructDefinition(p) ==
  LET e == SkipOver(Save(p), "export") IN
  IF At(e, "struct") THEN AfterStructName(All(Accept(Skip(e)), <<"Identifier", "{">>)) ELSE GiveBack(e)

ConstTle(p) == IF At(p, "const") THEN Made(LetLikeStatement(Skip(p), "const"), ConstOf) ELSE Absent(p)

SemicolonsWithout(el) == IF el.found THEN el ELSE EatSemicolons(el)
TopLevelElement(p) ==
  SemicolonsWithout(FirstOf(Absent(p), <<"StructDefinition", "FunctionDefinition", "ConstTle">>))

ModuleElements(el, els) ==
  IF ~el.found THEN Made(Required(Token(el, "eof")), LAMBDA v : els)
  ELSE IF el.logged THEN Absent(el)
  ELSE ModuleElements(TopLevelElement(el), Append(els, el.value))

-----------------------------------------------------------------------------

Read(p, what) ==
  CASE what = "Type"                 -> Type(p)
    [] what = "Types"                -> Several(Type(p), "Type")
    [] what = "Type?"                -> Optional(Type(p))
    [] what \in {"Expression", "Element"} -> Expression(p)
    [] what = "Argument"             -> Argument(p)
    [] what = "PrimaryExpression"    -> PrimaryExpression(p)
    [] what = "NextOfRange"          -> NextOfRange(p)
    [] what = "DereferenceLValue"    -> DereferenceLValue(p)
    [] what = "LValue"               -> LValue(p)
    [] what = "Condition"            -> Condition(p)
    [] what = "LoopBlock"            -> LoopBlock(p)
    [] what = "StatementBlock"       -> StatementBlock(p)
    [] what \in Range(StatementKeywords) -> KeywordStatement(p, what)
    [] what = "ModifyInPlaceStatement" -> ModifyInPlaceStatement(p)
    [] what = "AssignStatement"      -> AssignStatement(p)
    [] what = "ExpressionStatement"  -> ExpressionStatement(p)
    [] what = "Names"                -> Several(Token(p, "Identifier"), "Identifier")
    [] what = "ParameterListSegment" -> ParameterListSegment(p)
    [] what = "ParameterList"        -> ParameterList(p)
    [] what = "FunctionBlock"        -> FunctionBlock(StatementBlock(p))
    [] what = "StructDefinition"     -> StructDefinition(EatSemicolons(p))
    [] what = "FunctionDefinition"   -> FunctionDefinition(EatSemicolons(p))
    [] what = "ConstTle"             -> ConstTle(EatSemicolons(p))
    [] OTHER                         -> Token(p, what)

Module(text) == ModuleElements(TopLevelElement(NewParser(Tokenise(text))), <<>>)

\* How it ends.
Panicked(p) == p.frames = <<>>
Refused(p)  == ~Panicked(p) /\ (p.logged \/ ~p.found)
=============================================================================
