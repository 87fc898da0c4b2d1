------------------------------- MODULE Types -------------------------------
(* The types of the language and what may be done with a value of each
   (ast/types.go, ast/scope.go).

   A type has a selector s and the types t it is made of; a callable has a
   result r and a location, a structure its id.  A float of each width has a
   selector of its own. *)
EXTENDS Naturals, Sequences, FiniteSets, TLC, SequencesExt

Basic(s) == [s |-> s, t |-> <<>>]

I64  == Basic("int")
Bool == Basic("bool")
Char == Basic("char")
Str  == Basic("str")
F32  == Basic("f32")
F64  == Basic("f64")
Void == Basic("void")
Null == Basic("null")

MakePointer(ty)    == [s |-> "ptr", t |-> <<ty>>]
MakeVector(ty)     == MakePointer([s |-> "vec", t |-> <<ty>>])
Worker(send, recv) == [s |-> "worker", t |-> <<send, recv>>]
Tuple(ts)          == [s |-> "tuple", t |-> ts]
Struct(id)         == [s |-> "struct", t |-> <<>>, id |-> id]

\* The location of a Type that names none is the zero value, the CPU.
Callable(s, params, ret, location) ==
  [s |-> s, t |-> params, r |-> ret, location |-> location, bound |-> ""]
Fun(params, ret, location) == Callable("fun", params, ret, location)
Closure(params, ret)       == Callable("closure", params, ret, "cpu")

IsCallable(ty) == ty.s \in {"fun", "closure"}
IsFloat(ty)    == ty.s \in {"f32", "f64"}
IsNumeric(ty)  == ty.s = "int" \/ IsFloat(ty)
Unwrapped(ty)  == IF ty.s = "ptr" THEN ty.t[1] ELSE ty

\* That of null is not to be compared with itself: Equal panics.
RECURSIVE EqualPanics(_, _)
EqualPanics(l, r) ==
  /\ l.s = r.s
  /\ Len(l.t) = Len(r.t)
  /\ l.s = "null" \/ \E k \in DOMAIN l.t : EqualPanics(l.t[k], r.t[k])

RECURSIVE Equal(_, _)
Equal(l, r) ==
  /\ l.s = r.s
  /\ Len(l.t) = Len(r.t)
  /\ \A k \in DOMAIN l.t : Equal(r.t[k], l.t[k])
  /\ IsCallable(l) => Equal(l.r, r.r) /\ l.bound = r.bound
  /\ l.s = "struct" => l.id = r.id

NumericallyCompatible(l, r) == Equal(l, r) \/ (IsFloat(l) /\ IsFloat(r))

\* The code also assigns with the sides exchanged, which only null notices.
RECURSIVE CanAssignTo(_, _)
CanAssignTo(l, r) ==
  \/ NumericallyCompatible(l, r)
  \/ /\ l.s = "tuple" /\ r.s = "tuple" /\ Len(l.t) = Len(r.t)
     /\ \A k \in DOMAIN l.t : CanAssignTo(l.t[k], r.t[k])
  \/ IsNumeric(l) /\ IsNumeric(r)
  \/ l.s = "ptr" /\ r.s = "null"

ArithmeticTypeCombine(l, r) ==
  IF IsFloat(l) /\ IsFloat(r) /\ l.s = "f32" THEN r ELSE l

-----------------------------------------------------------------------------
(* Names.  The identifier of a type is written character by character, and
   the table of the structures of a program is searched by it.             *)

RECURSIVE WriteId(_)
WriteIds(ts) == FlattenSeq([k \in DOMAIN ts |-> WriteId(ts[k])])
WriteId(ty) ==
  CASE ty.s = "null"    -> <<"l">>
    [] ty.s = "int"     -> <<"i">>
    [] ty.s = "str"     -> <<"s">>
    [] ty.s = "bool"    -> <<"b">>
    [] ty.s = "char"    -> <<"a">>
    [] ty.s = "f64"     -> <<"F">>
    [] ty.s = "f32"     -> <<"f">>
    [] ty.s = "void"    -> <<"v">>
    [] ty.s = "fun"     -> <<"n">> \o WriteId(ty.r) \o <<"N">>
    [] ty.s = "closure" -> <<"b">> \o WriteId(ty.r) \o <<"B">>
    [] ty.s = "struct"  -> <<"s", "_", ty.id, "_", "S">>
    [] ty.s = "vec"     -> <<"v">> \o WriteIds(ty.t) \o <<"V">>
    [] ty.s = "ptr"     -> <<"p">> \o WriteIds(ty.t) \o <<"P">>
    [] ty.s = "worker"  -> <<"c">> \o WriteId(ty.t[1]) \o <<"c">> \o WriteId(ty.t[2]) \o <<"C">>
    [] ty.s = "tuple"   -> <<"_">> \o WriteIds(ty.t) \o <<"_">>

\* namespacedIdentifier: a "_" at the end is cut.
TupleIdentifier(ty) ==
  LET id == WriteId(ty) IN IF Last(id) = "_" THEN Front(id) ELSE id

-----------------------------------------------------------------------------
(* What needs the definitions of structures: ds has those that the scope
   knows, each with its fields and its functions in order.                 *)

RECURSIVE CanPassToGpu(_, _)
CanPassToGpu(ds, ty) ==
  CASE ty.s = "tuple"  -> \A k \in DOMAIN ty.t : CanPassToGpu(ds, ty.t[k])
    [] ty.s = "struct" -> \A f \in Range(ds[ty.id].fields) : CanPassToGpu(ds, f.ty)
    [] ty.s \in {"f32", "int", "str", "bool", "void"} -> TRUE
    [] ty.s \in {"f64", "closure", "fun", "ptr", "vec", "worker"} -> FALSE

\* A type that EstimateCSize has no case for: the compiler panics.
RECURSIVE HasEstimate(_, _)
HasEstimate(ds, ty) ==
  CASE ty.s = "tuple"  -> \A k \in DOMAIN ty.t : HasEstimate(ds, ty.t[k])
    [] ty.s = "struct" -> \A f \in Range(ds[ty.id].fields) : HasEstimate(ds, f.ty)
    [] OTHER -> ty.s \in {"f32", "f64", "int", "bool", "char", "void"}

RECURSIVE EstimateCSize(_, _)
EstimateCSize(ds, ty) ==
  LET SizeOfAll(ts) == FoldSeq(LAMBDA u, n : EstimateCSize(ds, u) + n, 0, ts)
  IN CASE ty.s = "f32"    -> 4
       [] ty.s = "void"   -> 0
       [] ty.s = "tuple"  -> SizeOfAll(ty.t)
       [] ty.s = "struct" -> SizeOfAll([k \in DOMAIN ds[ty.id].fields |-> ds[ty.id].fields[k].ty])
       [] OTHER           -> 8

\* GetField: the fields come first, then the functions.
Members(def) ==
  def.fields \o [k \in DOMAIN def.fns |->
    [n |-> def.fns[k].n,
     ty |-> [Fun([p \in DOMAIN def.fns[k].ps |-> def.fns[k].ps[p].ty], def.fns[k].ret, def.fns[k].loc)
               EXCEPT !.bound = def.fns[k].n]]]
HasField(def, n) == \E m \in Range(Members(def)) : m.n = n
GetField(def, n) == SelectSeq(Members(def), LAMBDA m : m.n = n)[1].ty
=============================================================================
