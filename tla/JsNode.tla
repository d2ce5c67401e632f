------------------------------- MODULE JsNode -------------------------------
(***************************************************************************)
(* Node.js running the program (external): what a program may do, as the   *)
(* set of its outcomes.                                                    *)
(*                                                                         *)
(* Written independently of the evaluator: objects live in a heap and are  *)
(* shared, a local function runs its body, unknown code (a value of kind   *)
(* "host") may change the objects it is given and the exports of builtin   *)
(* modules, and every builtin call that touches the disk may fail.         *)
(*                                                                         *)
(* An outcome is [k, v, c]: how the piece completed, with which value, and *)
(* the process after it.  "stuck" means the bound Fuel was reached.        *)
(***************************************************************************)
EXTENDS JsProgram

CONSTANT Fuel  \* how many pieces of syntax a run evaluates

ASSUME FuelAssumption == Fuel \in Nat

VARIABLE run   \* an outcome of the whole program, [k |-> "waiting"] before

-----------------------------------------------------------------------------
\* Values: labels are the files whose bytes the value holds.

V(kind, data, ref, inner, labels) ==
  [kind |-> kind, data |-> data, ref |-> ref, inner |-> inner, labels |-> labels]
Plain(kind, data) == V(kind, data, 0, << >>, {})
UndefinedV == Plain("undefined", << >>)
HostV      == Plain("host", << >>)
BoolV(b)   == Plain("boolean", << IF b THEN "true" ELSE "false" >>)
RefV(r)    == V("ref", << >>, r, << >>, {})

\* The process: scopes, heap, what it did, fuel, and whether unknown code has
\* replaced builtin exports.
Boot == [scopes |-> << << >> >>, heap |-> << >>, trace |-> {}, fuel |-> Fuel, patched |-> FALSE]
Cell(v, constant, live) == [v |-> v, constant |-> constant, live |-> live]

Out(k, v, c)  == {[k |-> k, v |-> v, c |-> c]}
Ok(v, c)      == Out("normal", v, c)
Fails(c)      == Out("throwing", HostV, c)
Then(S, F(_)) == UNION {IF o.k = "normal" THEN F(o) ELSE {o} : o \in S}

\* What a value is when it is tested.
Tests(v) ==
  CASE v.kind = "undefined"              -> {FALSE}
    [] v.kind = "boolean"                -> {v.data = << "true" >>}
    [] v.kind = "string"                 -> {v.data # << >>}
    [] v.kind \in {"content", "host"}    -> BOOLEAN
    [] OTHER                             -> {TRUE}

Equals(a, b) ==
  CASE {a.kind, b.kind} \cap {"content", "host", "home"} # {} -> BOOLEAN
    [] a.kind # b.kind                   -> {FALSE}
    [] OTHER                             -> {a.data = b.data /\ a.ref = b.ref}

TypeNames(v) ==
  CASE v.kind = "host"    -> {"undefined", "object", "function", "string", "boolean"}
    [] v.kind = "content" -> {"string", "object"}
    [] v.kind = "home"    -> {"string"}
    [] v.kind \in {"ref", "module", "promise"} -> {"object"}
    [] v.kind \in {"builtin", "loader"} -> {"function"}
    [] OTHER              -> {v.kind}

Where(c, x) ==
  LET I == {i \in DOMAIN c.scopes : x \in DOMAIN c.scopes[i]} IN
  IF I = {} THEN 0 ELSE CHOOSE i \in I : \A j \in I : j <= i
Put(c, i, x, cell) == [c EXCEPT !.scopes[i] = (x :> cell) @@ @]
Enter(c)           == [c EXCEPT !.scopes = Append(@, << >>)]
Leave(S) == {IF o.k = "stuck" THEN o
   ELSE [o EXCEPT !.c.scopes = SubSeq(o.c.scopes, 1, Len(o.c.scopes) - 1)] : o \in S}

RECURSIVE Does(_, _), Yields(_, _), Stores(_, _, _, _), All(_, _)

-----------------------------------------------------------------------------
\* Names and patterns

ReadName(x, c) ==
  LET i == Where(c, x) IN
  IF i = 0 THEN IF x = "require" THEN Ok(Plain("loader", << >>), c) ELSE Ok(HostV, c) \cup Fails(c)
  ELSE IF c.scopes[i][x].live THEN Ok(c.scopes[i][x].v, c) ELSE Fails(c)

StoreName(x, v, c, dk) ==
  LET i == Where(c, x) IN
  CASE dk \in {"let", "const"} -> Ok(v, Put(c, Len(c.scopes), x, Cell(v, dk = "const", TRUE)))
    [] i = 0                   -> Ok(v, Put(c, 1, x, Cell(v, FALSE, TRUE))) \cup Fails(c)
    [] c.scopes[i][x].constant \/ ~c.scopes[i][x].live -> Fails(c)
    [] OTHER                   -> Ok(v, Put(c, i, x, Cell(v, FALSE, TRUE)))

Properties(v, key, c) ==
  CASE v.kind = "ref" -> IF key \in DOMAIN c.heap[v.ref].fields
                         THEN Ok(c.heap[v.ref].fields[key], c) ELSE Ok(HostV, c)
    [] v.kind = "module" /\ key \in Modules[v.data[1]] ->
         Ok(IF c.patched THEN HostV ELSE Plain("builtin", << key >>), c)
    [] v.kind = "undefined" -> Fails(c)
    [] OTHER -> Ok(HostV, c) \cup Fails(c)

RECURSIVE StoreProps(_, _, _, _, _)
StoreProps(p, i, v, c, dk) ==
  IF i > Len(p.props) THEN Ok(v, c)
  ELSE Then(Properties(v, p.props[i].key, c),
            LAMBDA f : Then(Stores(p.props[i].target, f.v, f.c, dk),
                            LAMBDA o : StoreProps(p, i + 1, v, o.c, dk)))

Stores(p, v, c, dk) ==
  CASE p.kind = "identifier" -> StoreName(p.name, v, c, dk)
    [] p.kind = "assignment_pattern" ->
         (IF v.kind \in {"undefined", "host"}
          THEN Then(Yields(p.right, c), LAMBDA o : Stores(p.left, o.v, o.c, dk)) ELSE {})
           \cup (IF v.kind # "undefined" THEN Stores(p.left, v, c, dk) ELSE {})
    [] p.kind = "destructuring_pattern" ->
         (IF v.kind \in {"undefined", "host"} THEN Fails(c) ELSE {})
           \cup (IF v.kind # "undefined" THEN StoreProps(p, 1, v, c, dk) ELSE {})

-----------------------------------------------------------------------------
\* Calls

RECURSIVE Args(_, _, _)
Args(es, vs, c) ==
  IF es = << >> THEN {[k |-> "normal", v |-> UndefinedV, vs |-> vs, c |-> c]}
  ELSE UNION {IF o.k = "normal" THEN Args(Tail(es), Append(vs, o.v), o.c)
              ELSE {[k |-> o.k, v |-> o.v, vs |-> vs, c |-> o.c]} : o \in Yields(es[1], c)}

\* Unknown code: may fill the objects it is given, and replace exports.
HostCall(vs, c) ==
  LET refs == {vs[i].ref : i \in {j \in DOMAIN vs : vs[j].kind = "ref"}}
      filled == [c EXCEPT !.heap = AsTuple([r \in DOMAIN c.heap |->
                   IF r \in refs THEN [c.heap[r] EXCEPT !.fields = [x \in DOMAIN c.heap[r].fields |-> HostV]]
                   ELSE c.heap[r]])]
      after == {c, filled, [c EXCEPT !.patched = TRUE]} IN
  UNION {Ok(HostV, d) \cup Fails(d) : d \in after}

PathOf(v) == IF v.kind = "home" THEN << "home" >> ELSE v.data
Deed(api, vs, e) ==
  [kind |-> e.kind, target |-> PathOf(vs[e.arg]),
   labels |-> IF e.kind = "FSWrite" /\ api.data # 0 THEN vs[api.data].labels
              ELSE IF e.kind = "FSWrite" /\ \E f \in Range(api.effects) : f.kind = "FSRead"
              THEN {vs[f.arg].data : f \in {g \in Range(api.effects) : g.kind = "FSRead"}}
              ELSE {}]
BuiltinCall(api, vs, c) ==
  LET fits == /\ Len(vs) = api.args
              /\ \A i \in DOMAIN api.effects : vs[api.effects[i].arg].kind \in {"string", "home"}
              /\ api.data # 0 => vs[api.data].kind \in {"string", "content", "home"}
      did == [c EXCEPT !.trace = @ \cup {Deed(api, vs, api.effects[i]) : i \in DOMAIN api.effects}]
      bytes == V("content", << >>, 0, << >>, {vs[1].data})
      id == Len(c.heap) + 1
      made == [did EXCEPT !.heap = Append(@, [fields |-> << >>, keys |-> << >>])]
      values == CASE api.ret = "content"   -> {bytes}
                  [] api.ret = "boolean"   -> {BoolV(TRUE), BoolV(FALSE)}
                  [] api.ret = "home"      -> {Plain("home", << "home" >>)}
                  [] api.ret = "undefined" -> {UndefinedV} IN
  IF ~fits THEN Fails(c)
  ELSE CASE api.style = "pure"    -> UNION {Ok(v, c) : v \in values}
         [] api.style = "sync"    -> UNION {Ok(v, did) : v \in values} \cup Fails(did)
         [] api.style = "promise" ->
              UNION {Ok(V("promise", << >>, id, << v >>, {}), made) : v \in values}

\* A function declared at the top of the program closes over its first scope.
LocalCall(f, c) ==
  LET inner == [c EXCEPT !.scopes = << c.scopes[1], << >> >>] IN
  {IF o.k = "stuck" THEN o
   ELSE [o EXCEPT !.k = IF @ = "throwing" THEN @ ELSE "normal",
                  !.v = IF o.k = "normal" THEN UndefinedV ELSE @,
                  !.c.scopes = << o.c.scopes[1] >> \o Tail(c.scopes)] :
   o \in All(Functions[f], inner)}

Calls(f, vs, c) ==
  CASE f.kind = "function" -> LocalCall(f.data[1], c)
    [] f.kind = "loader" /\ Len(vs) = 1 /\ vs[1].kind = "string" /\ Len(vs[1].data) = 1
         /\ vs[1].data[1] \in DOMAIN Modules -> Ok(Plain("module", vs[1].data), c)
    [] f.kind = "builtin" ->
         IF c.patched THEN Ok(HostV, c) \cup Fails(c)
         ELSE IF Api[f.data[1]].style = "callback" THEN HostCall(vs, c)
         ELSE BuiltinCall(Api[f.data[1]], vs, c)
    [] f.kind \in {"host", "loader"} -> HostCall(vs, c)
    [] OTHER -> Fails(c)

-----------------------------------------------------------------------------
\* Expressions

RECURSIVE Makes(_, _, _, _)
Makes(n, i, r, c) ==
  IF i > Len(n.props) THEN Ok(RefV(r), c)
  ELSE Then(Yields(n.props[i].e, c),
            LAMBDA o : Makes(n, i + 1, r,
              [o.c EXCEPT !.heap[r] =
                 [fields |-> (n.props[i].key :> o.v) @@ @.fields,
                  keys |-> IF n.props[i].key \in DOMAIN @.fields THEN @.keys
                           ELSE Append(@.keys, n.props[i].key)]]))

\* Writes to a member.  The writes to a builtin module replace exports.
Writes(o, key, v, c) ==
  CASE o.kind = "ref" ->
         Ok(v, [c EXCEPT !.heap[o.ref] =
              [fields |-> (key :> v) @@ @.fields,
               keys |-> IF key \in DOMAIN @.fields THEN @.keys ELSE Append(@.keys, key)]])
    [] o.kind = "module"    -> Ok(v, [c EXCEPT !.patched = TRUE])
    [] o.kind = "undefined" -> Fails(c)
    [] OTHER                -> Ok(v, c) \cup Fails(c)

Chooses(S, yes(_), no(_)) ==
  Then(S, LAMBDA o : UNION {IF b THEN yes(o) ELSE no(o) : b \in Tests(o.v)})

Adds(a, b, c) ==
  IF a.kind \in {"string", "boolean"} /\ b.kind \in {"string", "boolean"}
     /\ "string" \in {a.kind, b.kind}
  THEN Ok(V("string", a.data \o b.data, 0, << >>, a.labels \cup b.labels), c)
  ELSE Ok([HostV EXCEPT !.labels = a.labels \cup b.labels], c) \cup Fails(c)

Yields(n, c0) ==
  LET c == [c0 EXCEPT !.fuel = @ - 1] IN
  IF c0.fuel = 0 THEN Out("stuck", UndefinedV, c0)
  ELSE CASE n.kind \in {"nil", "undefined"}  -> Ok(UndefinedV, c)
    [] n.kind \in {"string", "boolean"}      -> Ok(Plain(n.kind, n.text), c)
    [] n.kind = "name"                       -> ReadName(n.name, c)
    [] n.kind = "arrow_function"             -> Ok(Plain("function", << n.name >>), c)
    [] n.kind = "container" ->
         Makes(n, 1, Len(c.heap) + 1, [c EXCEPT !.heap = Append(@, [fields |-> << >>, keys |-> << >>])])
    [] n.kind = "member_expression" ->
         Then(Yields(n.o, c), LAMBDA o : Properties(o.v, n.key, o.c))
    [] n.kind = "assignment_expression" ->
         Then(Yields(n.e, c), LAMBDA o : Then(Stores(n.pat, o.v, o.c, ""), LAMBDA p : Ok(o.v, p.c)))
    [] n.kind = "member_assignment" ->
         Then(Yields(n.o, c), LAMBDA o : Then(Yields(n.e, o.c),
              LAMBDA r : Writes(o.v, n.key, r.v, r.c)))
    [] n.kind = "ternary_expression" ->
         Chooses(Yields(n.c, c), LAMBDA o : Yields(n.t, o.c), LAMBDA o : Yields(n.f, o.c))
    [] n.kind = "logical" /\ n.op = "&&" ->
         Chooses(Yields(n.l, c), LAMBDA o : Yields(n.r, o.c), LAMBDA o : {o})
    [] n.kind = "logical" /\ n.op = "||" ->
         Chooses(Yields(n.l, c), LAMBDA o : {o}, LAMBDA o : Yields(n.r, o.c))
    [] n.kind = "logical" /\ n.op = "??" ->
         Then(Yields(n.l, c), LAMBDA o :
              (IF o.v.kind \in {"undefined", "host"} THEN Yields(n.r, o.c) ELSE {})
                \cup (IF o.v.kind # "undefined" THEN {o} ELSE {}))
    [] n.kind = "not" ->
         Chooses(Yields(n.e, c), LAMBDA o : Ok([BoolV(FALSE) EXCEPT !.labels = o.v.labels], o.c),
                                 LAMBDA o : Ok([BoolV(TRUE) EXCEPT !.labels = o.v.labels], o.c))
    [] n.kind = "typeof" ->
         Then(Yields(n.e, c), LAMBDA o : UNION {Ok(Plain("string", << t >>), o.c) : t \in TypeNames(o.v)})
    [] n.kind = "binary_expression" ->
         Then(Yields(n.l, c), LAMBDA l : Then(Yields(n.r, l.c), LAMBDA r :
              IF n.op = "===" THEN UNION {Ok(BoolV(b), r.c) : b \in Equals(l.v, r.v)}
              ELSE Adds(l.v, r.v, r.c)))
    [] n.kind = "await_expression" ->
         Then(Yields(n.e, c), LAMBDA o :
              CASE o.v.kind = "promise" -> Ok(o.v.inner[1], o.c) \cup Fails(o.c)
                [] o.v.kind \in {"host", "ref"} -> Ok(HostV, o.c) \cup Fails(o.c) \cup {o}
                [] OTHER -> {o})
    [] n.kind = "call_expression" ->
         Then(Yields(n.f, c), LAMBDA f :
              UNION {IF a.k = "normal" THEN Calls(f.v, a.vs, a.c) ELSE Out(a.k, a.v, a.c) :
                     a \in Args(n.args, << >>, f.c)})

-----------------------------------------------------------------------------
\* Statements

\* Names in their temporal dead zone.
RECURSIVE DeadZone(_, _, _)
DeadZone(names, constant, c) ==
  IF names = << >> THEN c
  ELSE DeadZone(Tail(names), constant,
                Put(c, Len(c.scopes), names[1], Cell(UndefinedV, constant, FALSE)))

\* What entering a block declares.
Hoist(s, c) ==
  CASE s.kind = "declaration" /\ s.dk # "var" -> DeadZone(PatternNames(s.pat), s.dk = "const", c)
    [] s.kind = "function_declaration" ->
         Put(c, Len(c.scopes), s.name, Cell(Plain("function", << s.name >>), FALSE, TRUE))
    [] s.kind = "import_statement" ->
         Put(c, Len(c.scopes), s.name,
             Cell(IF s.mod \in DOMAIN Modules THEN Plain("module", << s.mod >>) ELSE HostV, TRUE, TRUE))
    [] OTHER -> c
RECURSIVE Hoists(_, _)
Hoists(ss, c) == IF ss = << >> THEN c ELSE Hoists(Tail(ss), Hoist(ss[1], c))

RECURSIVE OneByOne(_, _)
OneByOne(ss, c) ==
  IF ss = << >> THEN Ok(UndefinedV, c)
  ELSE Then(Does(ss[1], c), LAMBDA o : OneByOne(Tail(ss), o.c))
All(ss, c) == OneByOne(ss, Hoists(ss, c))

RECURSIVE Turns(_, _, _)
Turns(n, c, first) ==
  LET Body(o) == UNION {CASE b.k = "breaking" -> Ok(UndefinedV, b.c)
                          [] b.k \in {"normal", "continuing"} ->
                               Then(Yields(n.inc, b.c), LAMBDA i : Turns(n, i.c, FALSE))
                          [] OTHER -> {b} : b \in Does(n.b, o.c)} IN
  IF n.do /\ first THEN Body([c |-> c])
  ELSE Chooses(Yields(n.c, c), Body, LAMBDA o : Ok(UndefinedV, o.c))

\* The elements are read from the array as the loop goes.
RECURSIVE Elements(_, _, _, _)
Elements(n, v, i, c) ==
  LET keys == IF v.kind = "ref" THEN c.heap[v.ref].keys ELSE << >>
      element == IF v.kind = "ref" /\ i <= Len(keys) THEN c.heap[v.ref].fields[keys[i]] ELSE HostV
      fresh == IF n.dk \in {"let", "const"}
               THEN DeadZone(PatternNames(n.pat), FALSE, c)
               ELSE c
      go == Then(Stores(n.pat, element, fresh, n.dk), LAMBDA o :
              UNION {CASE b.k = "breaking" -> Ok(UndefinedV, b.c)
                       [] b.k \in {"normal", "continuing"} -> Elements(n, v, i + 1, b.c)
                       [] OTHER -> {b} : b \in Does(n.b, o.c)}) IN
  CASE v.kind = "ref"              -> IF i <= Len(keys) THEN go ELSE Ok(UndefinedV, c)
    [] v.kind = "host" /\ i <= 2   -> go \cup Ok(UndefinedV, c) \cup Fails(c)
    [] v.kind = "host"             -> Ok(UndefinedV, c)
    [] OTHER                       -> Fails(c)

\* From case i on.
RECURSIVE Falls(_, _, _)
Falls(n, i, c) ==
  IF i > Len(n.cases) THEN Ok(UndefinedV, c)
  ELSE Then(OneByOne(n.cases[i].body, c), LAMBDA o : Falls(n, i + 1, o.c))
RECURSIVE Matches(_, _, _, _)
Matches(n, v, i, c) ==
  IF i > Len(n.cases)
  THEN LET D == {j \in DOMAIN n.cases : n.cases[j].test.kind = "nil"} IN
       IF D = {} THEN Ok(UndefinedV, c) ELSE Falls(n, CHOOSE j \in D : TRUE, c)
  ELSE IF n.cases[i].test.kind = "nil" THEN Matches(n, v, i + 1, c)
  ELSE Then(Yields(n.cases[i].test, c), LAMBDA t :
            UNION {IF b THEN Falls(n, i, t.c) ELSE Matches(n, v, i + 1, t.c) : b \in Equals(v, t.v)})

Switches(n, c) ==
  Then(Yields(n.e, c), LAMBDA v :
    LET bodies == FlattenSeq([i \in DOMAIN n.cases |-> n.cases[i].body]) IN
    {[o EXCEPT !.k = IF @ = "breaking" THEN "normal" ELSE @] :
     o \in Leave(Matches(n, v.v, 1, Hoists(bodies, Enter(v.c))))})

Catches(n, o) ==
  LET inner == DeadZone(PatternNames(n.pat), FALSE, Enter(o.c)) IN
  Leave(Then(Stores(n.pat, o.v, inner, "let"), LAMBDA p : Does(n.h, p.c)))

Tries(n, c) ==
  LET body == UNION {IF o.k = "throwing" /\ n.h.kind # "nil" THEN Catches(n, o) ELSE {o} :
                     o \in Does(n.b, c)} IN
  IF n.f.kind = "nil" THEN body
  ELSE UNION {IF o.k = "stuck" THEN {o}
              ELSE Then(Does(n.f, o.c), LAMBDA f : Out(o.k, o.v, f.c)) : o \in body}

Completing(k, e, c) == Then(Yields(e, c), LAMBDA o : Out(k, o.v, o.c))

Does(n, c0) ==
  LET c == [c0 EXCEPT !.fuel = @ - 1] IN
  IF c0.fuel = 0 THEN Out("stuck", UndefinedV, c0)
  ELSE CASE n.kind = "statement_block"       -> Leave(All(n.body, Enter(c)))
    [] n.kind \in {"nil", "function_declaration", "import_statement"} -> Ok(UndefinedV, c)
    [] n.kind = "declaration" ->
         IF n.init.kind = "nil" /\ n.dk = "var" THEN Ok(UndefinedV, c)
         ELSE Then(Yields(n.init, c), LAMBDA o : Stores(n.pat, o.v, o.c, n.dk))
    [] n.kind = "expression_statement"       -> Yields(n.e, c)
    [] n.kind = "if_statement" ->
         Chooses(Yields(n.c, c), LAMBDA o : Does(n.t, o.c), LAMBDA o : Does(n.f, o.c))
    [] n.kind = "loop"                       -> Leave(Turns(n, Enter(c), TRUE))
    [] n.kind = "for_in_statement" ->
         LET dead == IF n.dk \in {"let", "const"}
                     THEN DeadZone(PatternNames(n.pat), FALSE, Enter(c))
                     ELSE Enter(c) IN
         Leave(Then(Yields(n.e, dead), LAMBDA o : Elements(n, o.v, 1, o.c)))
    [] n.kind = "switch_statement"           -> Switches(n, c)
    [] n.kind = "try_statement"              -> Tries(n, c)
    [] n.kind = "jump"                       -> Out(n.k, UndefinedV, c)
    [] n.kind = "return_statement"           -> Completing("returning", n.e, c)
    [] n.kind = "throw_statement"            -> Completing("throwing", n.e, c)

-----------------------------------------------------------------------------
Runs ==
  LET vars == DeclaredIn(Program(Main), {"declaration", "for_in_statement"})
      c == [Boot EXCEPT !.scopes[1] = [x \in vars |-> Cell(UndefinedV, FALSE, TRUE)]] IN
  All(Main, c)

RunInit == run = [k |-> "waiting"]

RunNode ==
  /\ run.k = "waiting"
  /\ run' \in Runs
  /\ UNCHANGED prog
=============================================================================
