----------------------------- MODULE SourceText -----------------------------
(* How a module is written: the text of a tree, with no more brackets than the
   order of the operators needs and one statement on a line.  This is what the
   parser is held against, and does not use it but for the tokens. *)
EXTENDS Parser

SignsOf(tys)    == [k \in DOMAIN tys |-> Sign(tys[k])]
InBrackets(s)   == <<Sign("(")>> \o s \o <<Sign(")")>>
RECURSIVE Separated(_)
Separated(ss) == IF Len(ss) < 2 THEN FlattenSeq(ss) ELSE ss[1] \o <<Sign(",")>> \o Separated(Tail(ss))

-----------------------------------------------------------------------------
BasicNames == [int |-> "i64", f32 |-> "f32", f64 |-> "f64", char |-> "char", bool |-> "bool", str |-> "string"]

RECURSIVE TypeText(_)
TypeTexts(tys) == [k \in DOMAIN tys |-> TypeText(tys[k])]
TypeText(ty) ==
  CASE ty.s \in DOMAIN BasicNames -> <<Sign(BasicNames[ty.s])>>
    [] ty.s = "void"   -> <<>>
    [] ty.s = "struct" -> <<Ident(ty.id)>>
    [] ty.s = "vec"    -> <<Sign("[")>> \o TypeText(ty.t[1]) \o <<Sign("]")>>
    [] ty.s = "ptr"    -> IF ty.t[1].s = "vec" THEN TypeText(ty.t[1]) ELSE <<Sign("*")>> \o TypeText(ty.t[1])
    [] ty.s = "tuple"  -> InBrackets(Separated(TypeTexts(ty.t)))
    [] ty.s = "worker" -> <<Sign("worker")>> \o InBrackets(FlattenSeq(TypeTexts(Front(ty.t)))) \o TypeText(Last(ty.t))

-----------------------------------------------------------------------------
(* Expressions.  What binds least has level 0.                             *)

OperatorLevel(op) ==
  CASE op = "||"                     -> 2
    [] op = "&&"                     -> 3
    [] op \in {"==", "!="}           -> 4
    [] op \in {"<", "<=", ">", ">="} -> 5
    [] op \in {"+", "-"}             -> 6
    [] op \in {"*", "/", "%"}        -> 7

Level(e) ==
  CASE e.k \in {"range", "closure", "pipeline", "receive", "worker", "deref"} -> 0
    [] e.k = "new" -> 1
    [] e.k = "bin" -> OperatorLevel(e.n)
    [] e.k = "un"  -> 8
    [] e.k \in {"call", "index", "access", "cast"} -> 9
    [] OTHER       -> 10

Spelled(op) == Sign(CASE op = "&&" -> "and" [] op = "||" -> "or" [] op = "!" -> "not" [] OTHER -> op)

LiteralTypes == [int |-> "Integer", str |-> "String", char |-> "Character"]
FloatTypes   == [f32 |-> "Float32", f64 |-> "Float64"]

RECURSIVE ExpressionText(_)
TextAt(e, level)  == IF Level(e) < level THEN InBrackets(ExpressionText(e)) ELSE ExpressionText(e)
ListText(es)        == Separated([k \in DOMAIN es |-> IF es[k] = None THEN <<Sign("_")>> ELSE ExpressionText(es[k])])

\* The start and the step are written when they are not 0 and 1.
RangeText(count, start, step) ==
  ListText(IF step # IntLit("1") THEN <<start, count, step>>
        ELSE IF start # IntLit("0") THEN <<start, count>> ELSE <<count>>)

ExpressionText(e) ==
  LET One == e.a[1]
      Two == e.a[2]
  IN CASE e.k = "id"    -> <<Ident(e.n)>>
       [] e.k \in DOMAIN LiteralTypes -> << <<LiteralTypes[e.k], e.n>> >>
       [] e.k = "float" -> << <<FloatTypes[e.ty.s], e.n>> >>
       [] e.k = "bool"  -> <<Sign(e.n)>>
       [] e.k \in {"null", "self"} -> <<Sign(e.k)>>
       [] e.k = "gpufn" -> <<Sign("gpubuiltin"), Sign("::"), Ident(e.n)>>
       [] e.k = "bin"   -> TextAt(One, Level(e)) \o <<Spelled(e.n)>> \o TextAt(Two, Level(e) + 1)
       [] e.k = "un"    -> <<Spelled(e.n)>> \o TextAt(One, 9)
       [] e.k = "deref" -> <<Sign("*")>> \o TextAt(One, 1)
       [] e.k = "new"   -> <<Sign("new")>> \o TextAt(One, 2)
       [] e.k = "cast"  -> TextAt(One, IF One.k = "cast" THEN 10 ELSE 9) \o <<Sign("as")>> \o TypeText(e.ty)
       [] e.k = "index" -> TextAt(One, 9) \o <<Sign("[")>> \o ExpressionText(Two) \o <<Sign("]")>>
       [] e.k = "access" -> TextAt(One, 9) \o <<Sign("."), Ident(e.n)>>
       [] e.k = "call"  -> TextAt(One, 9) \o InBrackets(ListText(Tail(e.a)))
       [] e.k = "closure" -> <<Sign("partial")>> \o TextAt(One, 10) \o InBrackets(ListText(Tail(e.a)))
       [] e.k = "worker" -> <<Sign(e.n)>> \o ExpressionText(One)
       [] e.k = "receive" -> <<Sign(IF e.set THEN "drain" ELSE "receive")>> \o InBrackets(TextAt(One, 1))
       [] e.k = "pipeline" -> <<Sign("pipeline")>> \o ExpressionText(One) \o ExpressionText(Two)
       [] e.k = "range" -> <<Sign("range")>> \o InBrackets(RangeText(One, Two, e.a[3]))
       [] e.k = "tuple" -> ListText(e.a)
       [] e.k = "veclit" -> TypeText(MakeVector(e.ty)) \o <<Sign("{")>> \o ListText(e.a) \o <<Sign("}")>>
       [] e.k = "struct" ->
            <<Ident(e.n), Sign("{")>> \o
            Separated([k \in DOMAIN e.a |-> <<Ident(e.w[k]), Sign(":")>> \o ExpressionText(e.a[k])]) \o <<Sign("}")>>

\* A condition with the literal of a structure, or with an expression that
\* takes all that follows, is written in brackets.
ConditionText(e) ==
  IF \E n \in Nodes(e) : n.k \in {"struct", "worker", "pipeline"} THEN InBrackets(ExpressionText(e)) ELSE ExpressionText(e)

RECURSIVE LValueText(_)
LValueText(l) ==
  CASE l.k = "lself"  -> <<Sign("self")>>
    [] l.k = "lid"    -> <<Ident(l.n)>>
    [] l.k = "lfield" -> LValueText(l.a[1]) \o <<Sign("."), Ident(l.n)>>
    [] l.k = "lindex" -> LValueText(l.a[1]) \o <<Sign("[")>> \o ExpressionText(l.a[2]) \o <<Sign("]")>>
    [] l.k = "lderef" -> <<Sign("*")>> \o LValueText(l.a[1])
    [] l.k = "lmulti" -> Separated([k \in DOMAIN l.a |-> LValueText(l.a[k])])

-----------------------------------------------------------------------------
(* Statements and elements.                                                *)

Line(s)   == Append(s, Newline)
Lines(ss) == FlattenSeq([k \in DOMAIN ss |-> Line(ss[k])])

RECURSIVE StatementText(_)
BlockText(b) ==
  <<Sign("{"), Newline>> \o Lines([k \in DOMAIN b.a |-> StatementText(b.a[k])]) \o <<Sign("}")>>

\* Segment k of an if has its condition before its block.
SegmentText(s, k) ==
  (IF s.a[k] = None THEN <<Sign("else")>>
   ELSE <<Sign(IF k = 1 THEN "if" ELSE "elseif")>> \o ConditionText(s.a[k])) \o BlockText(s.a[k + 1])

StatementText(s) ==
  LET One == s.a[1]
      Two == s.a[2]
  IN CASE s.k = "expr"    -> ExpressionText(One)
       [] s.k = "assign"  -> (IF s.n = "normal" THEN <<>> ELSE <<Sign(s.n)>>) \o LValueText(One) \o <<Sign("=")>> \o ExpressionText(Two)
       [] s.k = "modify"  -> LValueText(One) \o <<Sign(s.n)>> \o ExpressionText(Two)
       [] s.k = "return"  -> <<Sign("return")>> \o IF One = None THEN <<>> ELSE ExpressionText(One)
       [] s.k = "send"    -> <<Sign("send")>> \o InBrackets(ListText(s.a))
       [] s.k = "break"   -> <<Sign("break")>>
       [] s.k = "while"   -> <<Sign("while")>> \o ConditionText(One) \o BlockText(Two)
       [] s.k = "foreach" -> <<Sign("for"), Ident(s.n), Sign(":")>> \o ConditionText(One) \o BlockText(Two)
       [] s.k = "if"      -> FlattenSeq([j \in 1..(Len(s.a) \div 2) |-> SegmentText(s, 2 * j - 1)])

ParameterTexts(ps) == [k \in DOMAIN ps |-> <<Ident(ps[k].n)>> \o TypeText(ps[k].ty)]
FunctionText(fn) ==
  (IF fn.loc = "anywhere" THEN <<>> ELSE <<Sign(fn.loc)>>) \o <<Sign("fn"), Ident(fn.n)>> \o
  InBrackets(Separated(ParameterTexts(fn.ps))) \o TypeText(fn.ret) \o BlockText(fn.body)

ElementText(el) ==
  CASE el.k = "fn"     -> FunctionText(el)
    [] el.k = "const"  -> StatementText(el.assign)
    [] el.k = "struct" ->
         <<Sign("struct"), Ident(el.n), Sign("{"), Newline>> \o Lines(ParameterTexts(el.fields)) \o
         Lines([k \in DOMAIN el.fns |-> FunctionText(el.fns[k])]) \o <<Sign("}")>>

ModuleText(els) == Lines([k \in DOMAIN els |-> ElementText(els[k])])

-----------------------------------------------------------------------------
(* What is read otherwise than it is written.                              *)

\* The condition of an elseif ends with a name: the block that follows is read
\* as the literal of a structure (parser/parser.go:1732).
EndsWithName(text) ==
  Last(text)[1] = "Identifier" /\ (Len(text) = 1 \/ text[Len(text) - 1][1] \notin {".", "::", "as"})
ElseIfOfName(s) ==
  s.k = "if" /\ \E k \in DOMAIN s.a : k > 1 /\ k % 2 = 1 /\ s.a[k] # None /\ EndsWithName(ConditionText(s.a[k]))

\* What may go on with an expression, and may begin another.
MayGoOn == {"(", "[", "*", "-"}
\* The second worker of a pipeline goes on with the first (parser.go:1060).
PipelineRunsOn(e) == e.k = "pipeline" /\ ExpressionText(e.a[2])[1][1] \in MayGoOn

\* A line that ends without a semicolon goes on with the next line
\* (token/tokeniser.go:173).
LineRunsOn(text, k) ==
  /\ k < Len(text) /\ text[k] = Newline
  /\ text[k - 1][1] \notin EndsStatement \cup {"{"}
  /\ text[k + 1][1] \in MayGoOn \/ (text[k - 1] = Sign("return") /\ text[k + 1][1] \notin Range(StatementKeywords) \cup {"}"})

BodiesOf(els) ==
  UNION { CASE el.k = "fn"     -> {el.body}
            [] el.k = "const"  -> {el.assign}
            [] el.k = "struct" -> {fn.body : fn \in Range(el.fns)} : el \in Range(els) }
Misread(els) ==
  \/ \E n \in UNION {Nodes(t) : t \in BodiesOf(els)} : ElseIfOfName(n) \/ PipelineRunsOn(n)
  \/ LET text == ModuleText(els) IN \E k \in DOMAIN text : LineRunsOn(text, k)
=============================================================================
