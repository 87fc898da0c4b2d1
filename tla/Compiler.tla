------------------------------ MODULE Compiler ------------------------------
(* The compilation of a module (program.go, ast/check.go, the C writer): its
   text is parsed, the passes of the checker go one after the other over the
   same tree, and the writer writes the tree for the GPU when that is needed
   and then for the CPU.  An error ends the compilation, as does a panic. *)
EXTENDS CMeaning, PlainPrograms, SourceText

\* A text has its tokens, the elements of which it is the text, if it is one,
\* and the stage it is taken to: of some texts the reading is all that is looked
\* at.
CONSTANTS Programs,  \* modules that are given as they are parsed: their elements
          Texts      \* modules that are given as texts

VARIABLES text,      \* the text, until it is parsed
          program,   \* the elements as they were parsed, with trees for bodies
          c,         \* the context of the checker, with the tree it changes
          stage,     \* the pass that was done last, or the target written
          out        \* what was written for each target

vars == <<text, program, c, stage, out>>

Stages == {"text", "read", "parsed", "tle", "types", "mutate", "check", "gpu", "cpu", "refused", "panicked"}

\* The scopes that the parser makes: parameters are known in a scope between
\* that of the module and that of the body, self in that of a structure.
Bound(s, ps)   == [k \in {<<s, ps[p].n>> : p \in DOMAIN ps} |->
                     [ty |-> SelectSeq(ps, LAMBDA q : q.n = k[2])[1].ty, assignable |-> TRUE]]
SelfIn(s, el)  == <<s, "__self__">> :> [ty |-> MakePointer(Struct(el.n)), assignable |-> FALSE]

\* The heap, the bindings and the elements of a module; the body of a function
\* is the first child of its scope.
LoadFunction(fn, s) ==
  [heap |-> Load(fn.body, Append(s, 1)), vars |-> Bound(s, fn.ps), el |-> [fn EXCEPT !.body = Append(s, 1)]]

LoadElement(el, k) ==
  CASE el.k = "fn"    -> LoadFunction(el, <<k>>)
    [] el.k = "const" -> [heap |-> Load(el.assign, <<k, 1>>), vars |-> <<>>, el |-> [el EXCEPT !.assign = <<k, 1>>]]
    [] el.k = "struct" ->
         LET fns == [m \in DOMAIN el.fns |-> LoadFunction(el.fns[m], <<k, m>>)]
         IN [heap |-> FoldLeft(LAMBDA h, f : f.heap @@ h, <<>>, fns),
             vars |-> FoldLeft(LAMBDA h, f : f.vars @@ h, SelfIn(<<k>>, el), fns),
             el   |-> [el EXCEPT !.fns = [m \in DOMAIN fns |-> fns[m].el]]]

Loaded(els) ==
  LET ls == [k \in DOMAIN els |-> LoadElement(els[k], k)]
  IN NewContext([k \in DOMAIN ls |-> ls[k].el],
                FoldLeft(LAMBDA h, l : l.heap @@ h, <<>>, ls), FoldLeft(LAMBDA h, l : l.vars @@ h, <<>>, ls))

Nothing == [cpu |-> <<>>, gpu |-> <<>>]

NoText  == [tokens |-> <<>>, of |-> <<>>, next |-> "parsed"]

Init ==
  /\ \/ text \in Texts /\ program = <<>> /\ stage = "text"
     \/ text = NoText /\ program \in Programs /\ stage = "parsed"
  /\ c = Loaded(program)
  /\ out = Nothing

\* ParseFile: the tokens of the file and the elements that they are.
Parse ==
  /\ stage = "text"
  /\ \E p \in {Module(text.tokens)} :
       /\ stage' = CASE Panicked(p) -> "panicked" [] Refused(p) -> "refused" [] OTHER -> text.next
       /\ program' = IF Panicked(p) \/ Refused(p) THEN <<>> ELSE p.value
  /\ c' = IF stage' = "parsed" THEN Loaded(program') ELSE c
  /\ text' = NoText
  /\ UNCHANGED out

NextPass == [parsed |-> "tle", tle |-> "types", types |-> "mutate", mutate |-> "check"]

CheckPass ==
  /\ stage \in DOMAIN NextPass
  /\ c' = CheckModule(c, NextPass[stage])
  /\ stage' = CASE c'.err = "error" -> "refused" [] c'.err = "panic" -> "panicked" [] OTHER -> NextPass[stage]
  /\ UNCHANGED <<text, program, out>>

\* What is written for a target, unless writing it panics.
Keep(written, target) ==
  IF WritingPanics(written)
  THEN stage' = "panicked" /\ UNCHANGED out
  ELSE stage' = target /\ out' = [out EXCEPT ![target] = written]

Write ==
  LET target == IF c.gpuRequired /\ stage = "check" THEN "gpu" ELSE "cpu" IN
  /\ stage \in {"check", "gpu"}
  /\ Keep(WriteProgram(c, target), target)
  /\ UNCHANGED <<text, program, c>>

Ended == stage \in {"read", "cpu", "refused", "panicked"} /\ UNCHANGED vars

Next == Parse \/ CheckPass \/ Write \/ Ended

Spec == Init /\ [][Next]_vars

-----------------------------------------------------------------------------
(* What the module means, from its source alone.                           *)

FunctionsOf(els) ==
  {el \in Range(els) : el.k = "fn"} \cup UNION {Range(el.fns) : el \in {e \in Range(els) : e.k = "struct"}}

\* all: whether everything has to fit, or what the checker looks at.
Globals(els, all) ==
  LET Of(kind) == SelectSeq(els, LAMBDA el : el.k = kind) IN
  [fns     |-> [n \in FunctionNames(els) |-> SelectSeq(els, LAMBDA el : el.k = "fn" /\ el.n = n)[1]],
   structs |-> [n \in {el.n : el \in Range(Of("struct"))} |-> SelectSeq(els, LAMBDA el : el.n = n)[1]],
   names   |-> FunctionNames(els),
   all     |-> all]

\* The constants, in order: their types and what they are set to.
Constants(G, els) ==
  FoldLeft(LAMBDA s, el : LET t == SLet(G, s.V, el.assign)
                          IN S0(t.V, s.groups \o t.groups, s.ok /\ t.ok),
           S0(<<>>, <<>>, TRUE), SelectSeq(els, LAMBDA el : el.k = "const"))

VariablesIn(G, els, fn) ==
  [n \in {p.n : p \in Range(EffectiveParameters(fn))} |->
     Known(SelectSeq(EffectiveParameters(fn), LAMBDA p : p.n = n)[1].ty, FALSE)] @@ Constants(G, els).V

MeaningOf(G, els, fn) == SBlock(G, VariablesIn(G, els, fn), fn.ret, fn.body)

Fitting(G, els) ==
  /\ Constants(G, els).ok
  /\ \A fn \in FunctionsOf(els) :
       /\ MeaningOf(G, els, fn).ok
       /\ Located(els, fn, IF G.all THEN Nodes(fn.body) ELSE AskedNodes(fn.body))
       /\ Asked(G, UsesLocated(els, fn))

\* A program that is right all over, and one that is where it is looked at.
Right(els)          == Fitting(Globals(els, TRUE), els)
RightWhereLooked(els) == Fitting(Globals(els, FALSE), els)

-----------------------------------------------------------------------------
(* Properties.                                                             *)

Compiled(target) == target = "cpu" \/ c.gpuRequired

\* The names in a body that are the source's own.
SourceNames(els, fn) ==
  {n.n : n \in {m \in Nodes(fn.body) : m.k \in {"lid", "foreach"}}} \cup DOMAIN VariablesIn(Globals(els, TRUE), els, fn)

Context(w, target, names) == [p |-> w[target], gpu |-> w.gpu, G |-> Globals(program, TRUE), src |-> names]

WrittenAsMeant(w, target, fn) ==
  SameEffects(MeaningOf(Globals(program, TRUE), program, fn).groups,
              BodyEffects(Context(w, target, SourceNames(program, fn)), FunctionNamed(w[target], FunctionId(fn))[1]))

ConstantsAsMeant(w, target) ==
  LET meant == Constants(Globals(program, TRUE), program)
  IN SameEffects(meant.groups, CSAll(Context(w, target, DOMAIN meant.V), <<>>, Void, w[target].consts).effects)

\* A type invariant: the tree has no loose ends, and no pass leaves behind a
\* statement or an element that has no place yet, or the target of a function.
TypeOK ==
  /\ stage \in Stages
  /\ c.err = "" \/ stage \in {"refused", "panicked"}
  /\ \A x \in DOMAIN c.heap : \A k \in DOMAIN c.heap[x].a : c.heap[x].a[k] \in {Nil} \cup DOMAIN c.heap
  /\ c.err = "" => c.insert = <<>> /\ c.insertEls = <<>> /\ c.return = <<>> /\ c.cpu = 0 /\ c.gpu = 0

\* A module that is written as it should be is read as it is meant: with each
\* operator over its operands, each statement whole and each block where it
\* belongs, though line ends end statements, a name may begin a literal, and
\* what failed may have read on (parser.go:536, :1774).
ReadsAsMeant ==
  stage = "text" /\ text.of # <<>> /\ ~Misread(text.of) => stage' = text.next /\ program' = text.of
ParsedAsMeant == [][ReadsAsMeant]_vars

\* Whatever text is accepted, nothing of it is lost or read in another order:
\* the tree has every token but the ones that only separate, where they are.
\* Only a receive makes the parser panic (parser.go:1092).
Content(tokens) == SelectSeq(tokens, LAMBDA tk : tk[1] \notin {"(", ")", ",", ";", "newline"})
ReadsAll ==
  stage = "text" =>
    /\ stage' = text.next => Content(ModuleText(program')) = Content(text.tokens)
    /\ stage' = "panicked" => \E tk \in Range(text.tokens) : tk = Sign("receive")
AcceptedAsRead == [][ReadsAll]_vars

\* What the written program does is what the source means: each call, message
\* and assignment happens as often, in the same order, under the same
\* conditions and loops, with the same values converted to the same types, in
\* the code for each target; a worker runs the function that it was given.
\* The checker rewrites calls, closures, receives and allocations into
\* statements in a pass of its own (check.go:211, expressions.go:762-1317).
MeansTheSame(w) ==
  Right(program) =>
    \A target \in {t \in {"cpu", "gpu"} : Compiled(t)} :
      /\ ConstantsAsMeant(w, target)
      /\ \A fn \in FunctionsOf(program) :
           Plain(program, fn) /\ CanWriteRequirement(target, fn.loc) => WrittenAsMeant(w, target, fn)
SameMeaning == [][stage' = "cpu" => MeansTheSame(out')]_vars

Has(Kind(_)) == \E fn \in FunctionsOf(program) : \E n \in Nodes(fn.body) : Kind(n)

\* The checker accepts the modules whose types fit, and whose functions use
\* only what their target has, wherever it looks, and it refuses no others: what
\* Asked is asked of is all that is accepted wrongly, as the condition of a
\* while or what is added to a variable (statements.go:261, :479).  A module
\* that is right all over does not end it with a panic, but for a type that is
\* asked for too early or has no size (types.go:339, :437, write-c.go:933).
VerdictIsRight(verdict) ==
  /\ verdict = "cpu" => RightWhereLooked(program)
  /\ verdict = "refused" => ~RightWhereLooked(program) \/ Has(NullExchanged) \/ Has(KeepsUnchecked)
  /\ verdict = "panicked" =>
       ~Right(program) \/ Has(ReturnsEarly) \/ Has(KeepsUnchecked) \/ Has(LAMBDA n : Unsized(program, n))
VerdictFits == [][stage # "text" => VerdictIsRight(stage')]_vars

\* The tree stays whole, and once the types are set no later pass changes that
\* of an expression of the source: what was decided with it, as the type of a
\* variable that was inserted or of a structure that is written, stays decided
\* (check.go:37).
\* A returned tuple is the exception, it is converted in place.
SourceNodes(h) == {x \in DOMAIN h : x[1] # 0 /\ h[x].k \notin Statements \cup {"tuple", "lmulti"}}
KeepsTypes ==
  stage \in {"types", "mutate"} /\ c'.err = "" =>
    \A x \in SourceNodes(c.heap) : ~TypeFails(c, x) => TypeOf(c', x) = TypeOf(c, x)
TypesStay == []TypeOK /\ [][KeepsTypes]_vars

=============================================================================
