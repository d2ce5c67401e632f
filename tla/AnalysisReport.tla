--------------------------- MODULE AnalysisReport ---------------------------
(***************************************************************************)
(* From the effects of a program to the decision about it: the rows of the *)
(* report, the network effects of writes to a share, why-traces, the score *)
(* and its flows, the canonical form, and the policy.                      *)
(***************************************************************************)
EXTENDS AnalysisProgram, FiniteSets, FiniteSetsExt

CONSTANT Policies   \* the configurations a caller may have built (policy.New)

VARIABLES report,   \* of the program now
          before,   \* of the program before its last change
          phase     \* "loaded", "analyzed", "extended", "retried"

-----------------------------------------------------------------------------
\* The effects of one call (kb/data, bind.go, exec.go)

ScopeOf(words) == IF Unknown \in ToSet(words) THEN FlatTop ELSE FlatOf(ToSet(words))

DefaultReversible(kind) == kind \in {"FSRead", "EnvRead", "NetIngress", "NetEgress", "Stdio", "CredAccess"}

Effect(kind, target, taint, flow) ==
  [kind |-> kind, mode |-> "Direct", target |-> target, certainty |-> 4, taint |-> FlatOf(taint),
   reversible |-> DefaultReversible(kind), netFlow |-> flow]
Plain(kind, words) == Effect(kind, ScopeOf(words), {}, FlowNone)

\* The first operand is the source, the others the destination; -f acts on all.
BindCommand(c, ops) ==
  CASE c.op = "cat"        -> {IF ops = << >> THEN Plain("ProcSpawn", << "cat" >>) ELSE Plain("FSRead", ops)}
    [] c.op \in {"cp", "mv"} ->
         {Plain(IF c.op = "cp" THEN "FSRead" ELSE "FSMeta", << ops[1] >>), Plain("FSWrite", Tail(ops))}
           \cup {Plain("FSWrite", ops) : f \in {"-f"} \cap c.flags}
    [] c.op = "rm"         -> {Plain("FSWrite", ops)}
    [] c.op = "curl"       ->
         {Plain("NetEgress", << Last(ops) >>)}
           \cup {Effect("FSWrite", ScopeOf(<< ops[1] >>), {}, FlowIngest) : f \in {"-o"} \cap c.flags}
    [] c.op = "echo"       -> {Plain("Stdio", ops)}
    [] OTHER               -> {Effect("CodeExec", FlatTop, {}, FlowNone)}

\* The sink of a pipeline consumes what the call before it fetched.
SinkFlowRole(p, i) == IF i > 1 /\ p[i - 1].op = "curl" THEN FlowCradle ELSE FlowNone
CallEffects(p, i) ==
  IF p[i].op = "sh" THEN {Effect("CodeExec", FlatTop, {}, SinkFlowRole(p, i))} ELSE BindCommand(p[i], p[i].ops)

RedirEffect(r) ==
  CASE r.op \in WriteOps -> Plain("FSWrite", << r.target >>)
    [] r.op = "<"        -> Plain("FSRead", << r.target >>)
    [] OTHER             -> Plain("Stdio", << >>)

\* Each effect with the atom it is derived from.
CallDerivations(p, i) ==
  {[effect |-> e, atom |-> << "command", p[i].op >>] : e \in CallEffects(p, i)}
    \cup {[effect |-> RedirEffect(r), atom |-> << "redirect", r.op >>] : r \in ToSet(p[i].redirs)}
Derivations(p) == UNION {CallDerivations(p, i) : i \in DOMAIN p}

DestructiveFlags == {<< "rm", "-r" >>, << "rm", "-f" >>}
KbDestruct(p) == IF \E c \in ToSet(p) : \E f \in c.flags : << c.op, f >> \in DestructiveFlags THEN 4 ELSE 0

-----------------------------------------------------------------------------
\* The rows of the report

SameRow(e, o) == e.kind = o.kind /\ e.mode = o.mode /\ e.netFlow = o.netFlow

\* A row is the join of the effects of its kind, mode and flow: ReportNormalize
\* shows that this is what the merge loop computes, in any order.
JoinAll(scopes) ==
  IF \E s \in scopes : s.arbitrary THEN FlatTop ELSE FlatOf(UNION {s.elems : s \in scopes})
JoinRow(e, S) ==
  [ kind |-> e.kind, mode |-> e.mode, netFlow |-> e.netFlow,
    target     |-> JoinAll({o.target : o \in S}),
    certainty  |-> Max({o.certainty : o \in S}),
    taint      |-> JoinAll({o.taint : o \in S}),
    reversible |-> \A o \in S : o.reversible ]
NormalizeEffects(S) == {JoinRow(e, {o \in S : SameRow(e, o)}) : e \in S}

IsSecretRead(e) ==
  \/ e.kind = "CredAccess"
  \/ e.kind \in {"FSRead", "FSMeta"} /\ ("secret" \in e.taint.elems \/ e.target.elems \cap Credentials # {})

\* What a write to a share carries: everything the program reads.
PayloadOfReads(S) == UNION {e.taint.elems \cup (IF IsSecretRead(e) THEN {"secret"} ELSE {}) : e \in {o \in S : o.kind = "FSRead"}}
RemoteSinkPayload(S) ==
  UNION {e.taint.elems \cup (IF IsSecretRead(e) THEN {"secret"} ELSE {})
           : e \in {o \in S : o.kind \in {"FSRead", "FSMeta", "CredAccess"}}}

WrittenTargets(S) == UNION {e.target.elems : e \in {o \in S : o.kind \in {"FSWrite", "FSMeta"}}}
RemoteSinks(written) ==
  {FlatOf({Shares[t]}) : t \in written \cap DOMAIN Shares} \cup {FlatTop : t \in written \cap Ambiguous}
UnmergedSinks(S) ==
  S \cup {Effect("NetEgress", h, RemoteSinkPayload(S), FlowNone) : h \in RemoteSinks(WrittenTargets(S))}
ApplyRemoteWriteSinks(S) ==
  NormalizeEffects(S \cup {Effect("NetEgress", h, RemoteSinkPayload(S), FlowNone) : h \in RemoteSinks(WrittenTargets(S))})

ReportEffects(p) == ApplyRemoteWriteSinks(NormalizeEffects({d.effect : d \in Derivations(p)}))

\* A row is explained by the atoms of the derivations of its kind and mode, or
\* by the first command of the program.
OwnAtoms(e, ders) == {d.atom : d \in {x \in ders : x.effect.target = e.target /\ x.effect.kind = e.kind}}
AtomsFor(e, ders) == {d.atom : d \in {x \in ders : x.effect.kind = e.kind /\ x.effect.mode = e.mode}}
OrFallback(atoms, p) == IF atoms = {} THEN {<< "command", p[1].op >>} ELSE atoms
Explained(e, p, ders) == OrFallback(AtomsFor(e, ders), p)
BuildWhy(S, p, ders) ==
  [k \in {EffectKey(e) : e \in S} |-> UNION {Explained(e, p, ders) : e \in {o \in S : EffectKey(o) = k}}]

-----------------------------------------------------------------------------
\* The score

ComputeDestructiveness(S) == Max({0} \cup {KindDestructiveness(e.kind) : e \in S})

BreadthOfTarget(t) == IF t \in DOMAIN Widths THEN Widths[t] ELSE 1
BreadthOf(s)       == IF s.arbitrary THEN 4 ELSE Max({0} \cup {BreadthOfTarget(t) : t \in s.elems})
Escalate(d)        == Min({d + 1, 4})
BreadthSeverity(s) == IF s.elems \cap Credentials # {} THEN Escalate(BreadthOf(s)) ELSE BreadthOf(s)
Reach(S)           == IF \E e \in S : e.target.arbitrary THEN FlatTop ELSE FlatOf(UNION {e.target.elems : e \in S})

\* 2 Permanent, 3 Destructive; as a severity, one more.
IrreversibilityOf(S, p) ==
  IF \/ S # {} /\ \E c \in ToSet(p) : c.op = "rm"
     \/ \E e \in S : ~e.reversible /\ e.kind \in {"FSWrite", "CodeExec", "ProcSignal"}
  THEN 2 ELSE 0
IrreversibilitySeverity(irr, breadth) ==
  IF irr = 0 THEN 0 ELSE IF breadth >= 3 THEN 4 ELSE irr + 1

InfluenceOf(e) ==
  IF e.taint.elems \cap {"untrusted", "user_input"} # {} THEN 3
  ELSE IF e.taint.elems \cap {"env", "network", "process", "filesystem"} # {} THEN 2 ELSE 0

IsEgressSink(e) == e.kind = "NetEgress" /\ e.taint # FlatOf({})
DetectExfil(S)  == {e \in S : IsSecretRead(e)} \X {e \in S : IsEgressSink(e)}
Egresses(S)     == {e \in S : e.kind = "NetEgress"}
DetectCradleFlows(S) == Egresses(S) \X {e \in S : e.kind = "CodeExec" /\ e.netFlow = FlowCradle}
DetectIngestFlows(S) == Egresses(S) \X {e \in S : e.kind = "FSWrite" /\ e.netFlow = FlowIngest}
ExfilSeverity(pairs) == Max({0} \cup {IF "secret" \in x[2].taint.elems THEN 4 ELSE 3 : x \in pairs})

Confidence(e) == IF e.target.arbitrary \/ e.target.elems = {} THEN (e.certainty * 25 * 3) \div 5 ELSE e.certainty * 25

GradeOf(S, p, breadth) ==
  Max({ComputeDestructiveness(S), KbDestruct(p), breadth, ExfilSeverity(DetectExfil(S)),
       IrreversibilitySeverity(IrreversibilityOf(S, p), breadth)} \cup {InfluenceOf(e) : e \in S})

-----------------------------------------------------------------------------
\* The canonical form (canonical.go)

\* Each distinct call has one entry; a sink of a pipeline is not resolved.
Recorded(p, i) == p[i].op # "sh" /\ \A j \in 1 .. i - 1 : p[j] # p[i]

MvOperands(c) == IF Len(c.ops) < 2 THEN << >> ELSE << c.ops[1], Last(c.ops) >>
WrittenBy(c)  == {r.target : r \in {x \in ToSet(c.redirs) : x.op \in WriteOps}}

\* A move of what some redirection wrote before it: its source, and where to.
Staging(acc, ops) ==
  IF ops # << >> /\ ops[1] # ops[2] /\ ops[1] \in acc.written \ DOMAIN acc.moves
  THEN [acc EXCEPT !.moves = [t \in DOMAIN @ \cup {ops[1]} |-> IF t = ops[1] THEN ops[2] ELSE @[t]]] ELSE acc
Visit(acc, c) == [(IF c.op = "mv" THEN Staging(acc, MvOperands(c)) ELSE acc) EXCEPT !.written = @ \cup WrittenBy(c)]
StagedIn(p, written) ==
  LET acc[i \in 0 .. Len(p)] ==
        IF i = 0 THEN [moves |-> [t \in {} |-> t], written |-> written]
        ELSE IF Recorded(p, i) THEN Visit(acc[i - 1], p[i]) ELSE acc[i - 1]
  IN acc[Len(p)].moves
AnyOrderStaging(p)     == StagedIn(p, UNION {WrittenBy(c) : c \in ToSet(p)})
StagingDestinations(p) == StagedIn(p, {})

CanShape(t) == t # Unknown /\ t \notin Noise
WritesOnly(t, kind, staged) ==
  CASE t \in DOMAIN staged /\ kind = "FSWrite" -> {staged[t]}
    [] OTHER                                   -> {t}
CanonicalTarget(t, kind, staged) ==
  CASE t \in DOMAIN staged /\ kind # "FSWrite" -> {}
    [] t \in DOMAIN staged /\ kind = "FSWrite" -> {x \in {staged[t]} : CanShape(x)}
    [] OTHER                                   -> {x \in {t} : kind \in {"NetEgress", "NetIngress"} \/ CanShape(x)}

CanonicalScope(e, staged) == UNION {CanonicalTarget(t, e.kind, staged) : t \in e.target.elems}
CanonicalRows(S, staged) ==
  {e \in S : e.target.arbitrary \/ e.target.elems = {}}
    \cup {[e EXCEPT !.target = FlatOf(CanonicalScope(e, staged))] :
             e \in {o \in S : o.target.elems # {} /\ CanonicalScope(o, staged) # {}}}
BuildCanonical(S, p) == NormalizeEffects(CanonicalRows(S, StagingDestinations(p)))

\* The keys of the rows, each as often as it occurs.
CanonicalKey(rows) == [k \in {EffectKey(e) : e \in rows} |-> Cardinality({e \in rows : EffectKey(e) = k})]

-----------------------------------------------------------------------------
\* The report

Assemble(p, S, breadth, rows) ==
  [ effects         |-> S,
    destructiveness |-> Max({ComputeDestructiveness(S), KbDestruct(p)}),
    breadth         |-> breadth,
    confidence      |-> IF S = {} THEN 0 ELSE Min({Confidence(e) : e \in S}),
    grade           |-> GradeOf(S, p, breadth),
    exfilPairs      |-> DetectExfil(S),
    cradleFlows     |-> DetectCradleFlows(S),
    ingestFlows     |-> DetectIngestFlows(S),
    why             |-> BuildWhy(S, p, Derivations(p)),
    canonical       |-> rows,
    key             |-> CanonicalKey(rows) ]
WithRows(p, S)  == Assemble(p, S, BreadthSeverity(Reach(S)), BuildCanonical(S, p))
AnalyzeBash(p)  == WithRows(p, ReportEffects(p))

\* HasTop; the frontend's result, and so the report, is then conservative too.
HasTop(r)  == \E e \in r.effects : e.kind = "CodeExec" /\ e.target.arbitrary
Covered(r) == r.effects # {}

-----------------------------------------------------------------------------
\* The policy (policy.go): one rule for each code, in the order of the codes

Actions      == {"allow", "review", "deny"}
Rank(action) == CASE action = "allow" -> 0 [] action = "review" -> 1 [] action = "deny" -> 2

Codes == << "conservative", "cradle",
            "CodeExec", "CredAccess", "EnvRead", "EnvWrite", "FSMeta", "FSRead", "FSWrite", "IPC", "NetEgress",
            "NetIngress", "Persist", "PrivEsc", "ProcSignal", "ProcSpawn", "Stdio",
            "exfiltration", "grade", "ingest", "unknown" >>

Applies(code, r) ==
  CASE code \in {"conservative", "unknown"} -> HasTop(r)
    [] code = "cradle"                      -> r.cradleFlows # {}
    [] code = "exfiltration"                -> r.exfilPairs # {}
    [] code = "ingest"                      -> r.ingestFlows # {}
    [] code = "grade"                       -> TRUE
    [] code \in EffectKinds                 -> \E e \in r.effects : e.kind = code
ActionFor(code, c, r) ==
  CASE code = "grade"       -> c.grades[r.grade]
    [] code \in EffectKinds -> c.effects[code]
    [] OTHER                -> c[code]

\* A rule that does not apply is one that allows: neither is matched.
Rule(code, c, r) == IF Applies(code, r) THEN ActionFor(code, c, r) ELSE "allow"
Rules(c, r)      == [i \in DOMAIN Codes |-> Rule(Codes[i], c, r)]

\* Mutant: the last rule that matched decides.
LastRule(sofar, action) == IF action = "allow" THEN sofar ELSE action
Stronger(sofar, action) ==
  IF action # "allow" /\ (sofar = "allow" \/ action = "deny") THEN action ELSE sofar
Strongest(rules) ==
  LET sofar[i \in 0 .. Len(rules)] == IF i = 0 THEN "allow" ELSE Stronger(sofar[i - 1], rules[i])
  IN sofar[Len(rules)]
Evaluate(c, r) == IF Covered(r) THEN Strongest(Rules(c, r)) ELSE "deny"

\* policy.New(Config{}): an action left out is the default one.
Permissive    == [k \in EffectKinds |-> "allow"]
DefaultPolicy == [unknown |-> "deny", conservative |-> "review", exfiltration |-> "deny", cradle |-> "review", ingest |-> "allow",
                  effects |-> Permissive, grades |-> [g \in Severities |-> "allow"]]

\* New refuses to allow what is not known; a caller's grades rise.
ASSUME PolicyAssumption ==
  \A c \in Policies :
    /\ {c.unknown, c.conservative, c.exfiltration, c.cradle, c.ingest} \subseteq Actions
    /\ "allow" \notin {c.unknown, c.conservative}
    /\ c.effects \in [EffectKinds -> Actions] /\ c.grades \in [Severities -> Actions]
    /\ \A g, h \in Severities : g <= h => Rank(c.grades[g]) <= Rank(c.grades[h])

-----------------------------------------------------------------------------
AnalyzeInit ==
  /\ \E S \in Programs : prog \in S
  /\ report = AnalyzeBash(<< >>) /\ before = report /\ phase = "loaded"

Analyze ==
  /\ phase = "loaded"
  /\ report' = AnalyzeBash(prog) /\ phase' = "analyzed" /\ UNCHANGED << prog, before >>

\* The same program with one more call.
Extend(c) ==
  /\ phase = "analyzed"
  /\ prog' = Append(prog, c) /\ report' = AnalyzeBash(prog') /\ before' = report /\ phase' = "extended"

\* The same program with the redirection of call i staged: written to tmp, then
\* moved to where it was to go.
Staged(i, tmp) ==
  SubSeq(prog, 1, i - 1)
    \o << [prog[i] EXCEPT !.redirs = << To(tmp) >>], Call("mv", {}, << tmp, prog[i].redirs[1].target >>, << >>) >>
    \o SubSeq(prog, i + 1, Len(prog))
Retry(i, tmp) ==
  /\ phase = "analyzed"
  /\ Len(prog[i].redirs) = 1 /\ prog[i].redirs[1].op = ">" /\ prog[i].redirs[1].target # Unknown
  /\ \A c \in ToSet(prog) : tmp \notin ToSet(c.ops) \cup {r.target : r \in ToSet(c.redirs)}
  /\ \A c \in ToSet(prog) : c.op = "mv" => prog[i].redirs[1].target # c.ops[1]
  /\ i < Len(prog) => prog[i + 1].op # "sh"
  /\ prog' = Staged(i, tmp) /\ report' = AnalyzeBash(prog') /\ before' = report /\ phase' = "retried"
=============================================================================
