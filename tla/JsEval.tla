------------------------------- MODULE JsEval -------------------------------
(***************************************************************************)
(* The abstract evaluator of front/js: evaluator.exec, evaluator.eval and  *)
(* the builtin models of bind.BindJS.                                      *)
(*                                                                         *)
(* The evaluator is one synchronous function of the program, so it is      *)
(* written as one: m is the evaluator (its state s and the fields of       *)
(* evaluator and Result), Eval and Exec take it and give it back.  A panic *)
(* for the budget is m.failed, after which nothing changes.                *)
(***************************************************************************)
EXTENDS JsProgram

CONSTANT WorkBudget  \* defaultBudget

ASSUME WorkAssumption == WorkBudget \in Nat \ {0}

VARIABLE result      \* what AnalyzeWith returned, [done |-> FALSE] before

-----------------------------------------------------------------------------
\* Values

Labels  == {"file", "secret", "input"}
NoObject == [id |-> 0, keys |-> << >>, fields |-> << >>, array |-> FALSE]
Value(kind, data, taint) ==
  [kind |-> kind, data |-> data, obj |-> NoObject, settled |-> << >>,
   symbolic |-> FALSE, taint |-> taint]

Unknown(taint)  == Value("", << >>, taint)
Undefined       == Value("undefined", << >>, {})
StringValue(s)  == Value("string", s, {})
BoolValue(b)    == Value("boolean", << IF b THEN "true" ELSE "false" >>, {})
FunctionValue(f) == Value("function", << f >>, {})
ModuleValue(mod) == Value("module", << mod >>, {})
BuiltinValue(f) == Value("builtin", << f >>, {})
Loader          == Value("loader", << >>, {})
SymbolicHome    == [StringValue(<< "home" >>) EXCEPT !.symbolic = TRUE]
PromiseOf(v, id) ==
  [Value("promise", << >>, v.taint) EXCEPT !.settled = << v >>, !.obj.id = id]

Tainted(v, t)   == [v EXCEPT !.taint = @ \cup t]
Imprecise(v)    == v.kind \in {"", "content", "boolean-unknown"}

\* sameValue: objects and promises are compared by identity.
SameValue(a, b) ==
  /\ a.kind = b.kind
  /\ CASE a.kind \in {"object", "promise"} -> a.obj.id = b.obj.id
       [] a.kind = "string"                -> a.data = b.data /\ a.symbolic = b.symbolic
       [] OTHER                            -> a.data = b.data

JoinValue(a, b) ==
  IF SameValue(a, b) THEN Tainted(a, b.taint) ELSE Unknown(a.taint \cup b.taint)

Truth(v) ==
  CASE v.kind = "undefined" -> "no"
    [] v.kind = "boolean"   -> IF v.data = << "true" >> THEN "yes" ELSE "no"
    [] v.kind = "string"    -> IF v.data = << >> THEN "no" ELSE "yes"
    [] v.kind \in {"object", "function", "module", "builtin", "promise", "loader"} -> "yes"
    [] OTHER                -> "maybe"

\* primitiveString
HasString(v)   == v.kind \in {"string", "boolean", "undefined"}
AsString(v)    == IF v.kind = "undefined" THEN << "undefined" >> ELSE v.data

-----------------------------------------------------------------------------
\* State: a sequence of scopes, innermost last, and whether unknown code ran.

NoState      == [scopes |-> << >>, poisoned |-> FALSE]   \* nil
Binding(v, constant, initialized) ==
  [value |-> v, constant |-> constant, initialized |-> initialized]

\* lookup: the scope that binds x, innermost first; 0 if none does.
ScopeOf(s, x) ==
  LET I == {i \in DOMAIN s.scopes : x \in DOMAIN s.scopes[i]} IN
  IF I = {} THEN 0 ELSE CHOOSE i \in I : \A j \in I : j <= i

Bind(s, i, x, b) == [s EXCEPT !.scopes[i] = (x :> b) @@ @]
Push(s)          == [s EXCEPT !.scopes = Append(@, << >>)]
Pop(s)           == [s EXCEPT !.scopes = Front(@)]
Truncate(s, d)   == [s EXCEPT !.scopes = SubSeq(@, 1, IF Len(@) < d THEN Len(@) ELSE d)]

\* joinStates: a name one side does not bind may be uninitialised.
JoinBindings(a, b, x) ==
  IF x \in DOMAIN a /\ x \in DOMAIN b
  THEN Binding(JoinValue(a[x].value, b[x].value), a[x].constant,
               a[x].initialized /\ b[x].initialized)
  ELSE LET c == IF x \in DOMAIN a THEN a[x] ELSE b[x] IN
       Binding(Unknown(c.value.taint), c.constant, FALSE)

JoinStates(a, b) ==
  IF a.scopes = << >> THEN b
  ELSE [scopes |-> AsTuple([i \in DOMAIN a.scopes |->
          [x \in DOMAIN a.scopes[i] \cup DOMAIN b.scopes[i] |->
             JoinBindings(a.scopes[i], b.scopes[i], x)]]),
        poisoned |-> a.poisoned \/ b.poisoned]

\* Mutant: a const object keeps its fields although unknown code ran.
HavocSparesConstants(s) ==
  [scopes |-> AsTuple([i \in DOMAIN s.scopes |-> [x \in DOMAIN s.scopes[i] |->
      LET b == s.scopes[i][x] IN
      IF b.constant THEN b ELSE [b EXCEPT !.value = Unknown(@.taint)]]]),
   poisoned |-> TRUE]

Havoc(s) ==
  [scopes |-> AsTuple([i \in DOMAIN s.scopes |-> [x \in DOMAIN s.scopes[i] |->
      LET b == s.scopes[i][x] IN
      IF b.constant /\ b.value.kind \notin {"object", "module", "builtin", "loader"}
      THEN b ELSE [b EXCEPT !.value = Unknown(@.taint)]]]),
   poisoned |-> TRUE]

-----------------------------------------------------------------------------
\* Flows and the evaluator's fields

Completions == << "normal", "breaking", "continuing", "returning", "throwing" >>
Kinds       == {"normal", "breaking", "continuing", "returning", "throwing"}
NoFlow      == [state |-> NoState, value |-> Undefined]
Flow(s, v)  == [state |-> s, value |-> v]
Live(f)     == f.state.scopes # << >>
NoFlows     == [k \in Kinds |-> NoFlow]
Single(k, s, v) == [NoFlows EXCEPT ![k] = Flow(s, v)]

MergeFlow(a, b) ==
  IF ~Live(b) THEN a
  ELSE IF ~Live(a) THEN b
  ELSE Flow(JoinStates(a.state, b.state), JoinValue(a.value, b.value))
Merge(out, k, f)     == [out EXCEPT ![k] = MergeFlow(@, f)]
MergeAll(out, other) == [k \in Kinds |-> MergeFlow(out[k], other[k])]
PopScope(out) ==
  [k \in Kinds |-> IF Live(out[k]) THEN Flow(Pop(out[k].state), out[k].value) ELSE out[k]]

NewEvaluator ==
  [s |-> [scopes |-> << << >> >>, poisoned |-> FALSE], budget |-> WorkBudget,
   failed |-> FALSE, conservative |-> FALSE, effs |-> {}, throws |-> NoState,
   predeclared |-> {}]

\* Mutant: the panic comes one unit of work late.
LateStep(m) == IF m.failed THEN m ELSE [m EXCEPT !.budget = @ - 1, !.failed = m.budget < 0]

Step(m)    == IF m.failed THEN m ELSE [m EXCEPT !.budget = @ - 1, !.failed = m.budget = 0]
Degrade(m) == [m EXCEPT !.conservative = TRUE]
With(m, s) == [m EXCEPT !.s = s]

PossibleThrow(m) == [m EXCEPT !.throws = JoinStates(@, m.s)]
Unmodelled(m)    == PossibleThrow(With(Degrade(m), Havoc(m.s)))

\* A call's outcome: r.v, r.m (values) or r.out, r.m (flows).
Gives(v, m)      == [v |-> v, m |-> m]
Ends(out, m)     == [out |-> out, m |-> m]
Normally(m)      == Ends(Single("normal", m.s, Undefined), m)

RECURSIVE Eval(_, _), Exec(_, _), BindPattern(_, _, _, _), Sequence(_, _)

-----------------------------------------------------------------------------
\* bind.BindJS

PathScope(v) == IF v.kind = "string" THEN v.data ELSE << "*" >>
ReadTaint(t, path) ==
  t \cup {"file"} \cup (IF path \in {<< "*" >>, SecretFile} THEN {"secret"} ELSE {})

Arg(args, i) == IF i \in DOMAIN args THEN args[i] ELSE Unknown({})

\* The effect add() records for one row of a model, before writes inherit.
ApiEffect(api, args, e) ==
  LET v == Arg(args, e.arg)
      t == IF e.kind = "FSRead" THEN ReadTaint(v.taint, PathScope(v))
           ELSE IF e.kind = "FSWrite" THEN v.taint \cup Arg(args, api.data).taint
           ELSE v.taint IN
  [kind |-> e.kind, target |-> PathScope(v), taint |-> t]

SourceTaint(api, args) ==
  UNION {ReadTaint(Arg(args, e.arg).taint, PathScope(Arg(args, e.arg))) :
         e \in {f \in Range(api.effects) : f.kind \in {"FSRead", "FSMeta"}}}

ApiEffects(api, args) ==
  {LET e == ApiEffect(api, args, api.effects[i]) IN
   IF e.kind = "FSWrite" THEN [e EXCEPT !.taint = @ \cup SourceTaint(api, args)] ELSE e :
   i \in DOMAIN api.effects}

Doubtful(api, args) ==
  \/ Len(args) # api.args
  \/ api.style = "callback"
  \/ \E i \in DOMAIN api.effects : PathScope(Arg(args, api.effects[i].arg)) = << "*" >>
  \/ api.data # 0 /\ Arg(args, api.data).kind \notin {"string", "content"}

ReadLabels(api, args) ==
  UNION {ReadTaint(Arg(args, e.arg).taint, PathScope(Arg(args, e.arg))) :
         e \in {f \in Range(api.effects) : f.kind = "FSRead"}}

ApiValue(api, args, id) ==
  LET read == CASE api.ret = "content"   -> Value("content", << >>, ReadLabels(api, args))
                [] api.ret = "boolean"   -> Value("boolean-unknown", << >>, ReadLabels(api, args))
                [] api.ret = "home"      -> SymbolicHome
                [] api.ret = "undefined" -> Undefined IN
  IF api.style = "promise" THEN PromiseOf(read, id)
  ELSE IF api.style = "callback" THEN Undefined
  ELSE read

\* Module and property lookups; an identity unknown code may have changed is
\* not asked for.
ResolveModule(s, name) ==
  IF ~s.poisoned /\ Len(name) = 1 /\ name[1] \in DOMAIN Modules
  THEN ModuleValue(name[1]) ELSE Unknown({})
ModuleExports(s, v, key) ==
  v.kind = "module" /\ ~s.poisoned /\ key \in Modules[v.data[1]]

-----------------------------------------------------------------------------
\* Names, patterns and properties

ReadProperty(v, key, m) ==
  IF ModuleExports(m.s, v, key) THEN Gives(BuiltinValue(key), m)
  ELSE IF v.kind = "object" /\ key \in DOMAIN v.obj.fields
       THEN Gives(Tainted(v.obj.fields[key], v.taint), m)
  ELSE Gives(Unknown(v.taint), Unmodelled(m))

EvalName(x, m) ==
  LET i == ScopeOf(m.s, x) IN
  IF i = 0
  THEN Gives(IF x = "require" /\ ~m.s.poisoned THEN Loader ELSE Unknown({}), PossibleThrow(m))
  ELSE LET b == m.s.scopes[i][x] IN
       IF b.initialized THEN Gives(b.value, m)
       ELSE Gives(Unknown(b.value.taint), PossibleThrow(Degrade(m)))

\* bindName with a kind: a declaration.
Declare(x, v, m, dk) ==
  LET i == IF dk # "var" THEN Len(m.s.scopes)
           ELSE IF ScopeOf(m.s, x) = 0 THEN 1 ELSE ScopeOf(m.s, x)
      taken == x \in DOMAIN m.s.scopes[i] /\ m.s.scopes[i][x].initialized
                 /\ m.s.scopes[i][x].constant IN
  IF taken THEN PossibleThrow(Degrade(m))
  ELSE With(m, Bind(m.s, i, x, Binding(v, dk = "const", TRUE)))

\* bindName without a kind: an assignment.
AssignName(x, v, m) ==
  LET i == ScopeOf(m.s, x) IN
  IF i = 0 THEN With(Degrade(m), Bind(m.s, 1, x, Binding(v, FALSE, TRUE)))
  ELSE IF m.s.scopes[i][x].constant \/ ~m.s.scopes[i][x].initialized
       THEN PossibleThrow(Degrade(m))
  ELSE With(m, Bind(m.s, i, x, Binding(v, FALSE, TRUE)))

\* v may be undefined: the default may not have been evaluated.
EitherValue(v, s, r) == Gives(JoinValue(v, r.v), With(r.m, JoinStates(s, r.m.s)))

DefaultOr(p, v, m) ==
  CASE v.kind = "undefined" -> Eval(p.right, m)
    [] v.kind = ""          -> EitherValue(v, m.s, Eval(p.right, m))
    [] OTHER                -> Gives(v, m)

BindGiven(p, r, dk) == BindPattern(p, r.v, r.m, dk)

BindDefault(p, v, m, dk) == BindGiven(p.left, DefaultOr(p, v, m), dk)

RECURSIVE BindEach(_, _, _, _)
BindEach(props, v, m, dk) ==
  IF props = << >> THEN m
  ELSE BindEach(Tail(props), v,
                BindGiven(props[1].target, ReadProperty(v, props[1].key, m), dk), dk)

BindProps(p, v, m, dk) ==
  LET shaped == IF p.array THEN v.kind = "object" /\ v.obj.array
                ELSE v.kind \in {"object", "module"} IN
  BindEach(p.props, v, IF shaped THEN m ELSE Unmodelled(m), dk)

BindPattern(p, v, m0, dk) ==
  LET m == Step(m0) IN
  CASE m.failed                          -> m
    [] p.kind = "identifier" /\ dk # ""  -> Declare(p.name, v, Step(m), dk)
    [] p.kind = "identifier"             -> AssignName(p.name, v, Step(m))
    [] p.kind = "assignment_pattern"     -> BindDefault(p, v, m, dk)
    [] p.kind = "destructuring_pattern"  -> BindProps(p, v, m, dk)

\* predeclarePattern: the names are in their temporal dead zone.
RECURSIVE PredeclareNames(_, _, _)
PredeclareNames(names, m, constant) ==
  IF names = << >> THEN m
  ELSE LET d == Len(m.s.scopes)
           seen == IF names[1] \in DOMAIN m.s.scopes[d] THEN Degrade(m) ELSE m
           bound == Bind(m.s, d, names[1], Binding(Unknown({}), constant, FALSE)) IN
       PredeclareNames(Tail(names), With(seen, bound), constant)

PredeclareOne(stmt, m0) ==
  LET m == [Step(m0) EXCEPT !.predeclared = @ \cup {stmt}]
      d == Len(m.s.scopes) IN
  CASE stmt.kind = "declaration" /\ stmt.dk # "var" ->
         PredeclareNames(PatternNames(stmt.pat), m, stmt.dk = "const")
    [] stmt.kind = "function_declaration" ->
         With(m, Bind(m.s, d, stmt.name, Binding(FunctionValue(stmt.name), FALSE, TRUE)))
    [] stmt.kind = "import_statement" ->
         LET v == ResolveModule(m.s, << stmt.mod >>)
             bound == With(m, Bind(m.s, d, stmt.name, Binding(v, TRUE, TRUE))) IN
         IF v.kind = "module" THEN bound ELSE Unmodelled(bound)
    [] OTHER -> m

RECURSIVE Predeclare(_, _)
Predeclare(nodes, m) ==
  IF nodes = << >> THEN m ELSE Predeclare(Tail(nodes), PredeclareOne(nodes[1], m))

HoistVars(n, m) ==
  With(m, [m.s EXCEPT !.scopes[1] =
             @ @@ [x \in DeclaredIn(n, {"declaration"}) |-> Binding(Undefined, FALSE, TRUE)]])

-----------------------------------------------------------------------------
\* Expressions

ReadOf(r, key) == ReadProperty(r.v, key, r.m)

EvalMember(n, m) == ReadOf(Eval(n.o, m), n.key)

AssignTo(pat, r) == Gives(r.v, BindGiven(pat, r, ""))

EvalAssign(n, m) == AssignTo(n.pat, Eval(n.e, m))

EvalSetMember(n, m) ==
  LET o == Eval(n.o, m)
      r == Eval(n.e, o.m) IN Gives(r.v, Unmodelled(r.m))

\* Mutant: only the branch evaluated last leaves its state.
TernaryForgets(n, m) ==
  LET c == Eval(n.c, m)
      a == Eval(n.t, c.m)
      b == Eval(n.f, With(a.m, c.m.s)) IN
  CASE Truth(c.v) = "yes" -> a
    [] Truth(c.v) = "no"  -> Eval(n.f, c.m)
    [] OTHER -> Gives(JoinValue(a.v, b.v), b.m)

\* One branch gave a, the other starts from the state s the condition left.
OtherBranch(n, s, a) == EitherValue(a.v, a.m.s, Eval(n.f, With(a.m, s)))

TernaryOf(n, c) ==
  CASE Truth(c.v) = "yes" -> Eval(n.t, c.m)
    [] Truth(c.v) = "no"  -> Eval(n.f, c.m)
    [] OTHER              -> OtherBranch(n, c.m.s, Eval(n.t, c.m))

EvalTernary(n, m) == TernaryOf(n, Eval(n.c, m))

\* Whether the right operand of a logical operator is evaluated.
TakesRight(op, v) ==
  CASE op = "&&" -> Truth(v)
    [] op = "||" -> (CASE Truth(v) = "yes" -> "no" [] Truth(v) = "no" -> "yes" [] OTHER -> "maybe")
    [] op = "??" -> IF v.kind = "" THEN "maybe" ELSE IF v.kind = "undefined" THEN "yes" ELSE "no"

LogicalOf(n, l) ==
  CASE TakesRight(n.op, l.v) = "yes" -> Eval(n.r, l.m)
    [] TakesRight(n.op, l.v) = "no"  -> l
    [] OTHER                         -> EitherValue(l.v, l.m.s, Eval(n.r, l.m))

EvalLogical(n, m) == LogicalOf(n, Eval(n.l, m))

EvalNot(n, m) ==
  LET r == Eval(n.e, m) IN
  Gives(IF Truth(r.v) = "maybe" THEN Unknown(r.v.taint)
        ELSE Tainted(BoolValue(Truth(r.v) = "no"), r.v.taint), r.m)

TypeName(k) ==
  CASE k = "boolean-unknown"        -> "boolean"
    [] k \in {"module", "promise"}  -> "object"
    [] k = "builtin"                -> "function"
    [] OTHER                        -> k
EvalTypeOf(n, m) ==
  LET r == Eval(n.e, m) IN
  Gives(IF r.v.kind \in {"", "content", "loader"} THEN Unknown(r.v.taint)
        ELSE Tainted(StringValue(<< TypeName(r.v.kind) >>), r.v.taint), r.m)

\* binary, for === and +.
BinaryValue(op, a, b) ==
  LET t == a.taint \cup b.taint IN
  CASE Imprecise(a) \/ Imprecise(b) \/ (op # "+" /\ (a.symbolic \/ b.symbolic)) -> Unknown(t)
    [] op = "===" /\ "function" \in {a.kind, b.kind} -> Unknown(t)
    [] op = "==="  -> Tainted(BoolValue(SameValue(a, b)), t)
    [] op = "+" /\ "string" \in {a.kind, b.kind} /\ HasString(a) /\ HasString(b) ->
         [Value("string", AsString(a) \o AsString(b), t) EXCEPT !.symbolic = a.symbolic \/ b.symbolic]
    [] OTHER       -> Unknown(t)
BinaryOf(op, a, r) ==
  LET v == BinaryValue(op, a, r.v) IN
  Gives(v, IF v.kind = "" /\ op # "===" THEN Unmodelled(r.m) ELSE r.m)

EvalBinary(n, m) ==
  LET l == Eval(n.l, m) IN BinaryOf(n.op, l.v, Eval(n.r, l.m))

\* container: a new object has the identity of the moment it is made.
WithField(v, key, field) ==
  [v EXCEPT !.obj.keys = IF key \in DOMAIN v.obj.fields THEN @ ELSE Append(@, key),
            !.obj.fields = (key :> field) @@ @, !.taint = @ \cup field.taint]

RECURSIVE AddFields(_, _, _)
AddFields(props, v, m) ==
  IF props = << >> THEN Gives(v, m)
  ELSE LET r == Eval(props[1].e, m) IN
       AddFields(Tail(props), WithField(v, props[1].key, r.v), r.m)

EvalContainer(n, m) ==
  AddFields(n.props, [Value("object", << >>, {}) EXCEPT !.obj.id = m.budget, !.obj.array = n.array], m)

EvalAwait(n, m) ==
  LET r == Eval(n.e, m) IN
  CASE r.v.kind = "promise"                     -> Gives(r.v.settled[1], PossibleThrow(r.m))
    [] r.v.kind \in {"", "object", "function"}  -> Gives(Unknown(r.v.taint), Unmodelled(r.m))
    [] OTHER                                    -> r

RECURSIVE EvalArgs(_, _, _)
EvalArgs(args, vs, m) ==
  IF args = << >> THEN [vs |-> vs, m |-> m]
  ELSE LET r == Eval(args[1], m) IN EvalArgs(Tail(args), Append(vs, r.v), r.m)

\* A call the binder models.
CallBuiltin(api, args, m) ==
  LET m1 == [m EXCEPT !.effs = IF m.failed THEN @ ELSE @ \cup ApiEffects(api, args)]
      m2 == IF api.style \in {"promise", "pure"} THEN m1 ELSE PossibleThrow(m1) IN
  Gives(ApiValue(api, args, m.budget), IF Doubtful(api, args) THEN Unmodelled(m2) ELSE m2)

\* What the callee f is, once the arguments a are evaluated.
CallOf(f, a) ==
  LET args == a.vs
      loaded == IF Len(args) = 1 /\ args[1].kind = "string"
                THEN ResolveModule(a.m.s, args[1].data) ELSE Unknown({}) IN
  CASE f.v.kind = "loader" /\ loaded.kind = "module" -> Gives(loaded, a.m)
    [] f.v.kind = "builtin" /\ ~f.m.s.poisoned ->
         LET api == Api[f.v.data[1]] IN
         CallBuiltin(api, IF api.style = "callback" /\ args # << >> THEN Front(args) ELSE args, a.m)
    [] OTHER -> Gives(Unknown(Labels), Unmodelled(a.m))

CallWith(f, args) == CallOf(f, EvalArgs(args, << >>, f.m))

EvalCall(n, m) == CallWith(Eval(n.f, m), n.args)

Eval(n, m0) ==
  LET m == Step(m0) IN
  CASE m.failed -> Gives(Unknown({}), m)
    [] n.kind \in {"nil", "undefined"}     -> Gives(Undefined, m)
    [] n.kind \in {"string", "boolean"}    -> Gives(Value(n.kind, n.text, {}), m)
    [] n.kind = "name"                     -> EvalName(n.name, m)
    [] n.kind = "arrow_function"           -> Gives(FunctionValue(n.name), m)
    [] n.kind = "container"                -> EvalContainer(n, m)
    [] n.kind = "member_expression"        -> EvalMember(n, m)
    [] n.kind = "assignment_expression"    -> EvalAssign(n, m)
    [] n.kind = "member_assignment"        -> EvalSetMember(n, m)
    [] n.kind = "ternary_expression"       -> EvalTernary(n, m)
    [] n.kind = "logical"                  -> EvalLogical(n, m)
    [] n.kind = "not"                      -> EvalNot(n, m)
    [] n.kind = "typeof"                   -> EvalTypeOf(n, m)
    [] n.kind = "binary_expression"        -> EvalBinary(n, m)
    [] n.kind = "await_expression"         -> EvalAwait(n, m)
    [] n.kind = "call_expression"          -> EvalCall(n, m)

-----------------------------------------------------------------------------
\* Statements

RECURSIVE SequenceFrom(_, _, _)
SequenceFrom(nodes, out, m) ==
  IF nodes = << >> \/ ~Live(out["normal"]) THEN Ends(out, m)
  ELSE LET r == Exec(nodes[1], With(m, out["normal"].state)) IN
       SequenceFrom(Tail(nodes), MergeAll([out EXCEPT !["normal"] = NoFlow], r.out), r.m)

Sequence(nodes, m) == SequenceFrom(nodes, Normally(m).out, m)

ExecProgram(n, m) ==
  LET r == Sequence(n.body, Predeclare(n.body, HoistVars(n, m)))
      stray == \E k \in {"breaking", "continuing", "returning"} : Live(r.out[k]) IN
  Ends(r.out, IF stray THEN Degrade(r.m) ELSE r.m)

Scoped(r) == Ends(PopScope(r.out), r.m)

ExecBlock(n, m) == Scoped(Sequence(n.body, Predeclare(n.body, With(m, Push(m.s)))))

ExecDecl(n, m) ==
  IF n.init.kind = "nil" /\ n.dk = "var" THEN Normally(m)
  ELSE Normally(BindGiven(n.pat, IF n.init.kind = "nil" THEN Gives(Undefined, m)
                                 ELSE Eval(n.init, m), n.dk))

IfElseEnds(a, b) == Ends(MergeAll(a.out, b.out), b.m)

IfBoth(n, s, a) == IfElseEnds(a, Exec(n.f, With(a.m, s)))

IfTested(n, c) ==
  CASE Truth(c.v) = "yes" -> Exec(n.t, c.m)
    [] Truth(c.v) = "no"  -> Exec(n.f, c.m)
    [] OTHER              -> IfBoth(n, c.m.s, Exec(n.t, c.m))

ExecIf(n, m) == IfTested(n, Eval(n.c, m))

\* absorbBody: the flows that leave the loop, and the one that goes on.
Absorb(out, body) ==
  Merge(Merge(Merge(out, "normal", body["breaking"]), "returning", body["returning"]),
        "throwing", body["throwing"])
NextIteration(body) ==
  IF Live(body["continuing"]) /\ Live(body["normal"])
  THEN Flow(JoinStates(body["normal"].state, body["continuing"].state), Undefined)
  ELSE IF Live(body["normal"]) THEN body["normal"] ELSE body["continuing"]

\* The bound is unknown: the body may run any number of times.
BoundUnknown(m) == With(Degrade(m), Havoc(m.s))

RECURSIVE Iterate(_, _, _, _)

Increment(n, m) == IF n.inc.kind = "nil" THEN m ELSE Eval(n.inc, m).m

\* The iteration is over in m: out leaves the loop.
GoesOn(n, t, out, m) ==
  IF t = "maybe"
  THEN Ends(Merge(out, "normal", Flow(Havoc(m.s), Undefined)), With(m, Havoc(m.s)))
  ELSE Iterate(n, out, m, FALSE)

\* The body ended in r.
Turned(n, t, out, r) ==
  LET next == NextIteration(r.out) IN
  IF Live(next) THEN GoesOn(n, t, Absorb(out, r.out), Increment(n, With(r.m, next.state)))
  ELSE Ends(Absorb(out, r.out), r.m)

\* The condition gave c.
Tested(n, out, c) ==
  LET t == Truth(c.v)
      exits == Merge(out, "normal", Flow(c.m.s, Undefined)) IN
  CASE t = "no"    -> Ends(exits, c.m)
    [] t = "maybe" -> Turned(n, t, exits, Exec(n.b, BoundUnknown(c.m)))
    [] OTHER       -> Turned(n, t, out, Exec(n.b, c.m))

Iterate(n, out, m0, first) ==
  LET m == Step(m0) IN
  IF m.failed THEN Ends(out, m)
  ELSE Tested(n, out, IF n.do /\ first THEN Gives(BoolValue(TRUE), m) ELSE Eval(n.c, m))

ExecLoop(n, m) == Scoped(Iterate(n, NoFlows, With(m, Push(m.s)), TRUE))

\* The rounds of forEach: fresh names, the element bound, the body run.
RECURSIVE Rounds(_, _, _, _)

\* The body ended in r.
RoundOver(n, values, out, r) ==
  LET next == NextIteration(r.out) IN
  IF Live(next) THEN Rounds(n, values, Absorb(out, r.out), With(r.m, next.state))
  ELSE [out |-> Absorb(out, r.out), going |-> FALSE, m |-> r.m]

FreshNames(n, m) ==
  LET names == PatternNames(n.pat)
      fresh == With(Step(m), [m.s EXCEPT !.scopes[Len(m.s.scopes)] =
                  [x \in DOMAIN @ \ Range(names) |-> @[x]]]) IN
  CASE n.dk = ""    -> Step(m)
    [] n.dk = "var" -> fresh
    [] OTHER        -> PredeclareNames(names, fresh, n.dk = "const")

Rounds(n, values, out, m) ==
  IF values = << >> THEN [out |-> out, going |-> TRUE, m |-> m]
  ELSE RoundOver(n, Tail(values), out,
                 Exec(n.b, BindPattern(n.pat, values[1], FreshNames(n, m), n.dk)))

LoopLeft(r, last) ==
  Ends(PopScope(IF r.going THEN Merge(r.out, "normal", Flow(last, Undefined)) ELSE r.out), r.m)

\* The rounds are over in r: a loop that ran to its end leaves its last state,
\* or any state if the elements were not known.
RoundsOver(precise, r) == LoopLeft(r, IF precise THEN r.m.s ELSE Havoc(r.m.s))

OverKnown(n, v, m) ==
  Rounds(n, [i \in DOMAIN v.obj.keys |-> Tainted(v.obj.fields[v.obj.keys[i]], v.taint)],
         NoFlows, m)

OverUnknown(n, v, m) ==
  Rounds(n, << Unknown(v.taint) >>, Single("normal", m.s, Undefined), m)

OverElements(n, it) ==
  LET precise == it.v.kind = "object" /\ it.v.obj.array IN
  RoundsOver(precise, IF precise THEN OverKnown(n, it.v, it.m)
                      ELSE OverUnknown(n, it.v, Unmodelled(it.m)))

ExecForOf(n, m) ==
  LET m0 == With(m, Push(m.s)) IN
  OverElements(n, Eval(n.e, IF n.dk \in {"let", "const"}
                            THEN PredeclareNames(PatternNames(n.pat), m0, n.dk = "const")
                            ELSE m0))

\* The cases from i on that control may enter, each with the state its test
\* leaves, and whether one certainly matches.
RECURSIVE SwitchEntries(_, _, _, _)

\* The test of case i gave t.
SwitchTested(n, v, i, t) ==
  LET known == ~Imprecise(v) /\ ~Imprecise(t.v) /\ ~v.symbolic /\ ~t.v.symbolic
                 /\ "function" \notin {v.kind, t.v.kind}
      eq == SameValue(v, t.v)
      entry == IF ~known \/ eq THEN << [at |-> i, s |-> t.m.s] >> ELSE << >> IN
  IF known /\ eq THEN [entries |-> entry, matched |-> TRUE, m |-> t.m]
  ELSE [SwitchEntries(n, v, i + 1, t.m) EXCEPT !.entries = entry \o @]

SwitchEntries(n, v, i, m) ==
  IF i > Len(n.cases) THEN [entries |-> << >>, matched |-> FALSE, m |-> m]
  ELSE IF n.cases[i].test.kind = "nil" THEN SwitchEntries(n, v, i + 1, m)
  ELSE SwitchTested(n, v, i, Eval(n.cases[i].test, m))

Bodies(n, i) ==
  FlattenSeq([j \in 1..(Len(n.cases) - i + 1) |-> n.cases[i + j - 1].body])

StopBreaks(r) ==
  Ends([Merge(r.out, "normal", r.out["breaking"]) EXCEPT !["breaking"] = NoFlow], r.m)

\* The bodies from case i on, until one does not fall through.
RunCases(n, i, s, m) == StopBreaks(Sequence(Bodies(n, i), With(m, s)))

RECURSIVE RunEntries(_, _, _, _)
RunEntry(n, entries, out, c) == RunEntries(n, entries, MergeAll(out, c.out), c.m)

RunEntries(n, entries, out, m) ==
  IF entries = << >> THEN Ends(out, m)
  ELSE RunEntry(n, Tail(entries), out, RunCases(n, entries[1].at, entries[1].s, m))

\* The tests found the entries e: the default case is one if no test certainly
\* matched, and without it the switch may be skipped.
SwitchBodies(n, e) ==
  LET defaults == SelectSeq([i \in DOMAIN n.cases |-> i], LAMBDA i : n.cases[i].test.kind = "nil") IN
  IF e.matched THEN RunEntries(n, e.entries, NoFlows, e.m)
  ELSE IF defaults = << >> THEN RunEntries(n, e.entries, Single("normal", e.m.s, Undefined), e.m)
  ELSE RunEntries(n, Append(e.entries, [at |-> defaults[1], s |-> e.m.s]), NoFlows, e.m)

SwitchOn(n, v) ==
  SwitchBodies(n, SwitchEntries(n, v.v, 1, Predeclare(Bodies(n, 1), With(v.m, Push(v.m.s)))))

ExecSwitch(n, m) == Scoped(SwitchOn(n, Eval(n.e, m)))

Handled(out, bound, r) ==
  Ends(MergeAll([out EXCEPT !["throwing"] = NoFlow],
                PopScope(Merge(r.out, "throwing", Flow(bound.throws, Unknown({}))))), r.m)

HandleBound(n, out, bound, throws) ==
  Handled(out, bound, Exec(n.h, [bound EXCEPT !.throws = throws]))

\* The handler runs on the state of every throw, in a scope of its own.
Handle(n, out, m) ==
  LET caught == With([m EXCEPT !.throws = NoState], Push(out["throwing"].state)) IN
  HandleBound(n, out,
    BindPattern(n.pat, out["throwing"].value,
                PredeclareNames(PatternNames(n.pat), caught, FALSE), "let"), m.throws)

\* The completions after the finalizer ran on flow k: its own, when it has one.
Finalized(kept, k, flow, r) ==
  MergeAll(IF Live(r["normal"]) THEN Merge(kept, k, Flow(r["normal"].state, flow.value)) ELSE kept,
           [r EXCEPT !["normal"] = NoFlow])

\* The finalizer runs on every completion, in order.
RECURSIVE Finalize(_, _, _, _, _)
FinalizedOne(n, ks, out, kept, r) ==
  Finalize(n, Tail(ks), out, Finalized(kept, ks[1], out[ks[1]], r.out), r.m)

Finalize(n, ks, out, kept, m) ==
  IF ks = << >> THEN Ends(kept, m)
  ELSE IF ~Live(out[ks[1]]) THEN Finalize(n, Tail(ks), out, kept, m)
  ELSE FinalizedOne(n, ks, out, kept, Exec(n.f, With(m, out[ks[1]].state)))

TryHandled(n, b) ==
  IF n.h.kind # "nil" /\ Live(b.out["throwing"]) THEN Handle(n, b.out, b.m) ELSE b

TryFinalized(n, h) ==
  IF n.f.kind # "nil" THEN Finalize(n, Completions, h.out, NoFlows, h.m) ELSE h

ExecTry(n, m) == TryFinalized(n, TryHandled(n, Exec(n.b, m)))

Completes(k, e, m) == LET r == Eval(e, m) IN Ends(Single(k, r.m.s, r.v), r.m)

Statement(n, m) ==
  CASE n.kind = "program"                -> ExecProgram(n, m)
    [] n.kind = "statement_block"        -> ExecBlock(n, m)
    [] n.kind \in {"nil", "function_declaration"} -> Normally(m)
    [] n.kind = "import_statement"       ->
         Normally(IF n \in m.predeclared THEN m ELSE Unmodelled(m))
    [] n.kind = "declaration"            -> ExecDecl(n, m)
    [] n.kind = "expression_statement"   -> Normally(Eval(n.e, m).m)
    [] n.kind = "if_statement"           -> ExecIf(n, m)
    [] n.kind = "loop"                   -> ExecLoop(n, m)
    [] n.kind = "for_in_statement"       -> ExecForOf(n, m)
    [] n.kind = "switch_statement"       -> ExecSwitch(n, m)
    [] n.kind = "try_statement"          -> ExecTry(n, m)
    [] n.kind = "jump"                   -> Ends(Single(n.k, m.s, Undefined), m)
    [] n.kind = "return_statement"       -> Completes("returning", n.e, m)
    [] n.kind = "throw_statement"        -> Completes("throwing", n.e, m)

\* Every throw inside the statement is one of its completions.
Caught(r, m) ==
  Ends(Merge(r.out, "throwing",
             Flow(Truncate(r.m.throws, Len(m.s.scopes)), Unknown({}))),
       [r.m EXCEPT !.throws = m.throws])

Exec(n, m0) ==
  LET m == Step(m0) IN
  IF m.failed THEN Normally(m)
  ELSE Caught(Statement(n, [m EXCEPT !.throws = NoState]), m)

-----------------------------------------------------------------------------
\* AnalyzeWith

\* What AnalyzeWith makes of the flows the program ended in.
ResultOf(r) ==
  [done |-> TRUE, top |-> r.m.failed, conservative |-> r.m.conservative \/ r.m.failed,
   effs |-> r.m.effs, out |-> r.out, left |-> r.m.budget]

Analysis == ResultOf(Exec(Program(Main), NewEvaluator))

AnalyzeInit == (\E family \in Programs : prog \in family) /\ result = [done |-> FALSE]

Analyze ==
  /\ ~result.done
  /\ result' = Analysis
  /\ UNCHANGED prog
=============================================================================
