------------------------------ MODULE PsLower ------------------------------
(***************************************************************************)
(* The PowerShell frontend's abstract execution: front/ps/lower.go with    *)
(* the session state of state.go and the words of wordeval.go.             *)
(*                                                                         *)
(* A program is lowered in one step: l is the lowerer, threaded through    *)
(* every statement.  A panic (the budget) stops what follows from adding   *)
(* to the report, as the unwinding does.  Programs declare no aliases:     *)
(* PsAliases is about those.                                               *)
(***************************************************************************)
EXTENDS PsProgram

CONSTANTS
  LowerBudget, \* defaultBudget
  Windows      \* Options.Windows

VARIABLE result

-----------------------------------------------------------------------------
\* The scope of an effect is a text; that of a row, joined from several, is
\* arbitrary or a set of texts.

Anywhere == << "*" >>
NoTarget == << >>
Effect(kind, target) ==
  [kind |-> kind, mode |-> "direct", target |-> target, taint |-> {}, flow |-> "none"]
TopEffect == Effect("CodeExec", Anywhere)

\* Effect.Join, of effects of one kind, mode and flow role.
Joined(effs) ==
  LET any == \E e \in effs : e.target = Anywhere
      one == CHOOSE e \in effs : TRUE
  IN  [kind |-> one.kind, mode |-> one.mode, flow |-> one.flow, any |-> any,
       targets |-> IF any THEN {} ELSE {e.target : e \in effs} \ {NoTarget},
       taint |-> UNION {e.taint : e \in effs}]

\* Report.Normalize
MergeKey(e)      == << e.kind, e.mode, e.flow >>
Normalized(effs) == {Joined({e \in effs : MergeKey(e) = key}) : key \in {MergeKey(e) : e \in effs}}

\* anySecretTarget, SecretEnvName
IsCredential(text) == \E i \in DOMAIN text : text[i] \in Secrets
NamesToken(text)   == \E i \in DOMAIN text : text[i] \in Tokens

\* Of a row.  One that is arbitrary names nothing.
IsSecretRead(r) ==
  CASE r.kind = "CredAccess"           -> TRUE
    [] r.kind \in {"FSRead", "FSMeta"} -> "secret" \in r.taint \/ \E t \in r.targets : IsCredential(t)
    [] r.kind = "EnvRead"              -> \/ "secret" \in r.taint
                                          \/ \E t \in r.targets : NamesToken(t)
                                          \/ r.targets = {}
    [] OTHER                           -> FALSE
ReadsSecret(e) == IsSecretRead(Joined({e}))

-----------------------------------------------------------------------------
\* The state: variables (surely set), drives

Var(value, taint, hash) == [known |-> TRUE, value |-> value, taint |-> taint, hash |-> hash]
UnknownVar(taint)       == [known |-> FALSE, value |-> << >>, taint |-> taint, hash |-> << >>]

AutomaticVars == {"args", "input", "_", "psitem", "matches", "error", "pid"}
NewState == [vars |-> [x \in AutomaticVars |-> UnknownVar({})], drives |-> << >>,
             driveUnknown |-> {}, allDrivesUnknown |-> FALSE]

Without(f, x) == [y \in DOMAIN f \ {x} |-> f[y]]

SetVar(s, x, v)   == [s EXCEPT !.vars = (x :> v) @@ @]
UnsetVar(s, x)    == [s EXCEPT !.vars = Without(@, x)]
Knows(s, x)       == x \in DOMAIN s.vars /\ s.vars[x].known
TaintOf(s, x)     == IF x \in DOMAIN s.vars THEN s.vars[x].taint ELSE {}

SetDrive(s, d, root)  == [s EXCEPT !.drives = (d :> root) @@ @, !.driveUnknown = @ \ {d}]
SetDriveUnknown(s, d) == [s EXCEPT !.drives = Without(@, d), !.driveUnknown = @ \cup {d}]
UnsetDrive(s, d)      == [s EXCEPT !.drives = Without(@, d), !.driveUnknown = @ \ {d}]

JoinVars(a, b) ==
  LET t == a.taint \cup b.taint IN
  IF a.known /\ b.known /\ a.value = b.value
  THEN Var(a.value, t, IF a.hash = b.hash THEN a.hash ELSE << >>)
  ELSE UnknownVar(t)

\* Mutant: a variable defined on one path only is kept.
JoinKeepsOneSided(a, b) ==
  [a EXCEPT !.vars = [x \in DOMAIN a.vars \cup DOMAIN b.vars |->
     IF x \notin DOMAIN a.vars THEN b.vars[x] ELSE IF x \notin DOMAIN b.vars THEN a.vars[x]
     ELSE JoinVars(a.vars[x], b.vars[x])]]

\* Mutant: a drive is known after the branches if one of them mounted it.
JoinKeepsDrives(a, b) ==
  [a EXCEPT !.vars = [x \in DOMAIN a.vars \cap DOMAIN b.vars |-> JoinVars(a.vars[x], b.vars[x])],
            !.drives = a.drives @@ b.drives,
            !.driveUnknown = (a.driveUnknown \cup b.driveUnknown) \ DOMAIN (a.drives @@ b.drives)]

JoinStates(a, b) ==
  LET unsure == {d \in DOMAIN a.drives \cup DOMAIN b.drives :
                   ~ (d \in DOMAIN a.drives \cap DOMAIN b.drives /\ a.drives[d] = b.drives[d])}
                \cup a.driveUnknown \cup b.driveUnknown
  IN  [vars             |-> [x \in DOMAIN a.vars \cap DOMAIN b.vars |-> JoinVars(a.vars[x], b.vars[x])],
       drives           |-> [d \in DOMAIN a.drives \ unsure |-> a.drives[d]],
       driveUnknown     |-> unsure,
       allDrivesUnknown |-> a.allDrivesUnknown \/ b.allDrivesUnknown]

JoinAll(states) == FoldLeft(JoinStates, Head(states), Tail(states))

-----------------------------------------------------------------------------
\* Words

Ev(text, known, taint, envReads) ==
  [text |-> text, known |-> known, taint |-> taint, envReads |-> envReads]
NoEv      == Ev(<< >>, FALSE, {}, << >>)
Untrusted == Ev(<< >>, FALSE, {"untrusted"}, << >>)

\* One part of an interpolated word, added to ev.
AddPart(ev, s, p) ==
  CASE p.k = "lit"                            -> [ev EXCEPT !.text = Append(@, p.t)]
    [] p.k = "var" /\ p.t = "true"            -> [ev EXCEPT !.text = Append(@, "True")]
    [] p.k = "var" /\ p.t = "false"           -> [ev EXCEPT !.text = Append(@, "False")]
    [] p.k = "var" /\ p.t = "null"            -> ev
    [] p.k = "var" /\ Knows(s, p.t)           -> [ev EXCEPT !.text = @ \o s.vars[p.t].value,
                                                            !.taint = @ \cup s.vars[p.t].taint]
    [] p.k = "var"                            -> [ev EXCEPT !.known = FALSE, !.taint = @ \cup TaintOf(s, p.t)]
    [] p.k = "env" /\ Knows(s, "env:" \o p.t) -> [ev EXCEPT !.text = @ \o s.vars["env:" \o p.t].value,
                                                            !.taint = @ \cup s.vars["env:" \o p.t].taint]
    [] p.k = "env"                            -> [ev EXCEPT !.known = FALSE, !.taint = @ \cup {"env"},
                                                            !.envReads = Append(@, p.t)]
    [] OTHER                                  -> [ev EXCEPT !.known = FALSE]

Interpolate(parts, s) == FoldLeft(LAMBDA ev, p : AddPart(ev, s, p), Ev(<< >>, TRUE, {}, << >>), parts)

EvalWordText(w, s) ==
  CASE w.form = "none"                      -> NoEv
    [] w.form \in {"splat", "expression"}   -> Untrusted
    [] OTHER                                -> Interpolate(w.parts, s)

\* The text of the source: only its literal parts matter.
RawOf(w) ==
  CASE w.form = "parts" -> [i \in DOMAIN w.parts |-> IF w.parts[i].k = "lit" THEN w.parts[i].t ELSE "$"]
    [] w.form = "none"  -> << >>
    [] OTHER            -> << "@" >>

\* driveOf
ProviderOf(raw) == IF raw # << >> /\ Head(raw) \in DOMAIN Providers THEN Providers[Head(raw)] ELSE "FileSystem"

DriveLetterOf(text) == IF Len(text) = 1 /\ text[1] \in DOMAIN Letters THEN << Letters[text[1]] >> ELSE << >>

\* State.RewriteDrive: what a path on a drive names; << >> if that is unresolved.
OnDrive(text)          == text # << >> /\ \E n \in DOMAIN Letters : Letters[n] = Head(text)
DriveResolved(s, text) == OnDrive(text) /\ Head(text) \in DOMAIN s.drives
DriveUnresolved(s, text) ==
  /\ OnDrive(text) /\ Head(text) \notin DOMAIN s.drives
  /\ s.allDrivesUnknown \/ Head(text) \in s.driveUnknown
Rewrite(s, text)       == IF DriveResolved(s, text) THEN s.drives[Head(text)] \o Tail(text) ELSE text

MapDrive(s, t) ==
  IF DriveUnresolved(s, t.raw) THEN [t EXCEPT !.ev.known = FALSE]
  ELSE [raw |-> Rewrite(s, t.raw),
        ev  |-> IF t.ev.known THEN [t.ev EXCEPT !.text = Rewrite(s, @)] ELSE t.ev]

ResolveTarget(w, s) == MapDrive(s, [raw |-> RawOf(w), ev |-> EvalWordText(w, s)])
NoResolved          == [raw |-> << >>, ev |-> NoEv]

ScopeForTarget(t) ==
  CASE t.raw = << >>                       -> NoTarget
    [] t.ev.known /\ t.ev.text # << >>     -> t.ev.text
    [] OTHER                               -> Anywhere

\* HostShapedLenient, egressHostOf: addresses start with their host.
HostShaped(text) == text # << >> /\ Head(text) \in Hosts

Numbers == 0..9
IsNumber(text)  == \E n \in Numbers : text = << ToString(n) >>
NumberOf(text)  == CHOOSE n \in Numbers : text = << ToString(n) >>
PlusValue(a, b) == IF IsNumber(a) /\ IsNumber(b) THEN << ToString(NumberOf(a) + NumberOf(b)) >> ELSE a \o b

CondTruthy(c) ==
  LET constant == CASE c.c \in {"$true", "number"}     -> "true"
                    [] c.c \in {"$false", "0"}         -> "false"
                    [] c.c = "quoted" /\ \A i \in DOMAIN c.w.parts : c.w.parts[i].k = "lit" ->
                         IF c.w.parts # << >> THEN "true" ELSE "false"
                    [] OTHER                           -> "unknown"
  IN  constant

-----------------------------------------------------------------------------
\* The lowerer.  tree: the commands of the tree that were rewritten.

NewLowerer ==
  [state |-> NewState, tree |-> << >>, effs |-> << >>, staged |-> {}, pipeNet |-> {}, envEmitted |-> {},
   bump |-> FALSE, conservative |-> FALSE, gated |-> FALSE, pipe |-> 0,
   budget |-> LowerBudget, panicked |-> FALSE]

\* Mutant: an exhausted budget ends the program without a word.
QuietStep(l) == IF l.budget = 0 THEN [l EXCEPT !.panicked = TRUE] ELSE [l EXCEPT !.budget = @ - 1]

Step(l) ==
  IF l.panicked THEN l
  ELSE IF l.budget = 0
  THEN [l EXCEPT !.panicked = TRUE, !.conservative = TRUE, !.effs = Append(@, TopEffect)]
  ELSE [l EXCEPT !.budget = @ - 1]
Steps(l, n) == FoldLeft(LAMBDA acc, i : Step(acc), l, [i \in 1..n |-> i])

InState(l, s) == [l EXCEPT !.state = s]

EmitEff(l, e) ==
  IF l.panicked THEN l
  ELSE [l EXCEPT !.effs = Append(@, e),
                 !.pipeNet = IF e.kind = "NetEgress" /\ l.pipe # 0 THEN @ \cup {l.pipe} ELSE @]

\* An effect the call is described by alone: it could be anything.
EmitUnbounded(l, e) == [EmitEff(l, e) EXCEPT !.conservative = TRUE]
EmitTop(l)          == EmitUnbounded(l, TopEffect)

\* Mutant: any download of the program is taken for the one piped here.
AnyDownload(l) ==
  EmitUnbounded(l, IF l.pipe # 0 /\ l.pipeNet # {} THEN [TopEffect EXCEPT !.flow = "cradle"] ELSE TopEffect)

EmitTopCodeExec(l) ==
  EmitUnbounded(l, IF l.pipe # 0 /\ l.pipe \in l.pipeNet THEN [TopEffect EXCEPT !.flow = "cradle"] ELSE TopEffect)

EmitEnvReads(l, names) ==
  FoldLeft(LAMBDA acc, x : IF x \in acc.envEmitted THEN acc
                           ELSE EmitEff([acc EXCEPT !.envEmitted = @ \cup {x}], Effect("EnvRead", << x >>)),
           l, names)

BindVar(s, x, ev, op) ==
  CASE op = "=" /\ ev.known                    -> SetVar(s, x, Var(ev.text, ev.taint, << >>))
    [] op = "="                                -> SetVar(s, x, UnknownVar(ev.taint))
    [] op = "+=" /\ Knows(s, x) /\ ev.known    -> SetVar(s, x, Var(PlusValue(s.vars[x].value, ev.text),
                                                                   s.vars[x].taint \cup ev.taint, << >>))
    [] OTHER                                   -> SetVar(s, x, UnknownVar(TaintOf(s, x) \cup ev.taint))

-----------------------------------------------------------------------------
\* Effects of a command

Canonical(name) == IF name \in DOMAIN Aliases THEN Aliases[name] ELSE name

Values(c, names) == LET some == SelectSeq(c.bindings, LAMBDA b : b[1] \in names)
                    IN  [i \in DOMAIN some |-> some[i][2]]
FirstOf(ws)      == IF ws = << >> THEN NoWord ELSE ws[1]
OrElse(ws, vs)   == IF ws = << >> THEN vs ELSE ws
ArgFrom(c, i)    == IF Len(c.args) >= i THEN << c.args[i] >> ELSE << >>
HasParam(c, p)   == p \in c.params

TargetWords(c, target) ==
  CASE target = "path" -> Values(c, PathNames) \o c.args
    [] target = "url"  -> OrElse(Values(c, UrlNames), OrElse(Values(c, NameNames), c.args))
    [] target = "name" -> OrElse(Values(c, NameNames), c.args)
    [] target = "cwd"  -> << Lit(<< "." >>) >>
    [] OTHER           -> << >>

\* The name of a word an expanded splat put there
FromTable == "@"

\* isCredentialText of the command as it is written, a splat not spelled out
MentionsCredential(c) ==
  \E w \in ToSet(c.args) \cup ToSet(Values(c, PathNames \cup NameNames \cup UrlNames)) :
     IsCredential(RawOf(w)) /\ w.name # FromTable

EmitOne(l, spec, t, cred) ==
  LET provider == ProviderOf(t.raw)
      writes   == spec.kind \in {"FSWrite", "FSMeta"}
      scope    == CASE spec.kind # "NetEgress" \/ t.raw = << >> \/ t.ev.known -> ScopeForTarget(t)
                    [] HostShaped(t.raw) -> << Head(t.raw) >>
                    [] OTHER             -> Anywhere
      e        == Effect(spec.kind, scope)
  IN  CASE provider = "Env"      -> EmitEff(l, Effect(IF writes THEN "EnvWrite" ELSE "EnvRead", Tail(t.raw)))
        [] provider = "Variable" -> l
        [] provider = "Registry" ->
             EmitEff(l, Effect(IF ~Windows \/ spec.kind \in {"FSRead", "FSWrite", "FSMeta"} THEN "Persist" ELSE spec.kind,
                               IF Windows THEN t.raw ELSE ScopeForTarget(t)))
        [] provider = "FileSystem" /\ spec.kind = "NetEgress" /\ t.raw # << >>
             /\ t.ev.known /\ ~HostShaped(t.ev.text) -> [l EXCEPT !.gated = TRUE]
        [] OTHER ->
             LET done == EmitEff(l, IF spec.kind = "NetEgress" THEN [e EXCEPT !.taint = t.ev.taint] ELSE e)
             IN  IF cred THEN EmitEff(done, Effect("CredAccess", scope)) ELSE done

EmitSpec(l, c, spec) ==
  LET words   == TargetWords(c, spec.target)
      targets == [i \in DOMAIN words |-> ResolveTarget(words[i], l.state)]
      cred    == spec.kind = "FSRead" /\ MentionsCredential(c)
      read    == FoldLeft(LAMBDA acc, t : EmitEnvReads(acc, t.ev.envReads),
                          Steps(l, IF spec.target = "cwd" THEN 0 ELSE Len(words)), targets)
  IN  CASE targets # << >>         -> FoldLeft(LAMBDA acc, t : EmitOne(acc, spec, t, cred), read, targets)
        [] spec.target \in {"path", "url", "name"} ->
             LET done == EmitEff(l, Effect(spec.kind, Anywhere))
             IN  IF cred THEN EmitEff(done, Effect("CredAccess", Anywhere)) ELSE done
        [] OTHER                   -> EmitOne(l, spec, NoResolved, cred)

\* Mutant: only what the effects of the command evaluate is searched for $env:.
SilentArguments(l, c) == l

\* wordEnvReads: only a word that spells $env: is evaluated.
ArgumentEnvReads(l, c) ==
  LET words == Values(c, {c.bindings[i][1] : i \in DOMAIN c.bindings}) \o c.args
      spells == SelectSeq(words, LAMBDA w : \E i \in DOMAIN w.parts : w.parts[i].k = "env")
  IN  FoldLeft(LAMBDA acc, w : EmitEnvReads(Step(acc), EvalWordText(w, acc.state).envReads), l, spells)

DataFiles(l, c, canonical) ==
  LET One(acc, b) ==
        LET t == ResolveTarget(b[2], acc.state)
            e == Effect(DataKind(b[1]), ScopeForTarget(t))
            flow == IF DataKind(b[1]) = "FSWrite" /\ canonical = "Invoke-WebRequest" THEN "ingest" ELSE "none"
            done == EmitEff(EmitEnvReads(Step(acc), t.ev.envReads), [e EXCEPT !.flow = flow])
        IN  CASE DataKind(b[1]) = "" -> acc
              [] t.raw = << >>       -> Step(acc)
              [] DataKind(b[1]) = "FSRead" /\ IsCredential(t.raw) -> EmitEff(done, Effect("CredAccess", ScopeForTarget(t)))
              [] OTHER               -> done
  IN  FoldLeft(One, l, c.bindings)

RedirectKind(op) == CASE op \in {">", ">>", "2>", "*>"} -> "FSWrite" [] op = "<" -> "FSRead" [] OTHER -> ""

LowerRedirs(l, rs) ==
  LET One(acc, r) ==
        LET t == ResolveTarget(r[2], acc.state)
        IN  CASE RedirectKind(r[1]) = "" -> acc
              [] RawOf(r[2]) = << >>     -> EmitEff(acc, Effect(RedirectKind(r[1]), Anywhere))
              [] OTHER -> EmitEff(EmitEnvReads(Step(acc), t.ev.envReads), Effect(RedirectKind(r[1]), ScopeForTarget(t)))
  IN  FoldLeft(One, l, rs)

Bumps(c, canonical) == canonical = "Remove-Item" /\ (HasParam(c, "recurse") \/ HasParam(c, "force"))

-----------------------------------------------------------------------------
\* Session state

PlainName(w) == IF w.form = "parts" /\ Len(w.parts) = 1 /\ w.parts[1].k = "lit" THEN w.parts[1].t ELSE ""

\* namedValueBinding: << name, value >>, charging the value.
NamedValue(c, nameParam) ==
  LET named == PlainName(FirstOf(Values(c, nameParam)))
      given == Values(c, {"value"})
      first == IF c.args = << >> THEN "" ELSE PlainName(c.args[1])
  IN  << IF named # "" THEN named ELSE first,
         IF named = "" /\ first # "" /\ Len(c.args) >= 2 THEN << c.args[2] >> ELSE given >>

AssignNamed(l, x, value) ==
  IF x = "" THEN Steps(l, Len(value))
  ELSE LET ev == IF value = << >> THEN NoEv ELSE EvalWordText(value[1], l.state)
       IN  InState(Steps(l, Len(value)), BindVar(l.state, x, ev, "="))

ApplyLocation(l, ws) ==
  LET t == ResolveTarget(ws[1], l.state)
  IN  IF ws # << >> /\ t.ev.known /\ t.ev.text # << >>
      THEN InState(Step(l), SetVar(l.state, "pwd", Var(t.ev.text, t.ev.taint, << >>)))
      ELSE InState(Steps(l, Len(ws)), SetVar(l.state, "pwd", UnknownVar({})))

\* applyVariablePath
ApplyVariablePath(l, c, canonical, w) ==
  LET raw == RawOf(w) IN
  CASE ~ (ProviderOf(raw) = "Variable" /\ Len(raw) = 2) -> l
    [] canonical = "Set-Item" -> AssignNamed(l, raw[2], NamedValue(c, {})[2])
    [] OTHER                  -> InState(l, UnsetVar(l.state, raw[2]))

MutateState(l, c, canonical) ==
  CASE canonical = "Set-Location" ->
         LET ws == SubSeq(Values(c, PathNames) \o c.args, 1, 1)
         IN  ApplyLocation(l, ws)
    [] canonical = "Pop-Location"   -> InState(l, SetVar(l.state, "pwd", UnknownVar({})))
    [] canonical = "Set-Variable"   -> LET nv == NamedValue(c, {"name"}) IN AssignNamed(l, nv[1], nv[2])
    [] canonical = "Clear-Variable" ->
         LET names == SelectSeq(OrElse(Values(c, {"name"}), ArgFrom(c, 1)), LAMBDA w : PlainName(w) # "")
         IN  FoldLeft(LAMBDA acc, w : InState(acc, UnsetVar(acc.state, PlainName(w))), l, names)
    [] canonical \in {"Set-Item", "Remove-Item"} ->
         FoldLeft(LAMBDA acc, w : ApplyVariablePath(acc, c, canonical, w), l, Values(c, PathNames) \o c.args)
    [] OTHER -> l

SessionParams == {"session", "tosession", "fromsession"}

RemoteSessionChannel(l, c, before) ==
  IF c.params \cap SessionParams = {} \/ \E i \in before + 1 .. Len(l.effs) : l.effs[i].kind = "NetEgress"
  THEN l ELSE EmitEff(l, Effect("NetEgress", Anywhere))

MountDrive(l, c) ==
  LET s      == l.state
      name   == EvalWordText(FirstOf(OrElse(Values(c, {"name"}), ArgFrom(c, 1))), s)
      root   == EvalWordText(FirstOf(OrElse(Values(c, {"root"}), ArgFrom(c, 3))), s)
      letter == IF name.known THEN DriveLetterOf(name.text) ELSE << >>
      known  == root.known /\ root.text # << >>
      unc    == known /\ Head(root.text) \in DOMAIN Shares
      doubt  == known /\ Head(root.text) \in Ambiguous
      met    == CASE unc   -> EmitEff(l, Effect("NetEgress", << Shares[Head(root.text)] >>))
                  [] doubt -> EmitEff(l, Effect("NetEgress", Anywhere))
                  [] OTHER -> l
  IN  InState(met, CASE letter = << >>    -> [s EXCEPT !.allDrivesUnknown = TRUE]
                     [] ~known \/ doubt   -> SetDriveUnknown(s, letter[1])
                     [] OTHER             -> SetDrive(s, letter[1], root.text))

UnmountDrive(l, c) ==
  LET s      == l.state
      name   == EvalWordText(FirstOf(OrElse(Values(c, {"name"}), ArgFrom(c, 1))), s)
      letter == IF name.known THEN DriveLetterOf(name.text) ELSE << >>
  IN  InState(l, IF letter = << >> THEN [s EXCEPT !.allDrivesUnknown = TRUE] ELSE UnsetDrive(s, letter[1]))

TrackDrive(l, c, canonical) ==
  CASE canonical = "New-PSDrive"    -> MountDrive(l, c)
    [] canonical = "Remove-PSDrive" -> UnmountDrive(l, c)
    [] OTHER                        -> l

GatedFallback(l, canonical, before) ==
  IF Len(l.effs) = before /\ l.gated /\ ~l.conservative THEN EmitEff(l, Effect("ProcSpawn", << canonical >>)) ELSE l

-----------------------------------------------------------------------------
\* Commands

\* splatBindings: << bindings, switches >> of a known table.
Entry(kv) == kv[1] \in Switches
SplatOf(s, w) == IF w.form = "splat" /\ Knows(s, w.name) THEN s.vars[w.name].hash ELSE << >>
SplatBindings(hash) ==
  LET some == SelectSeq(hash, LAMBDA kv : ~Entry(kv)) IN [i \in DOMAIN some |-> << some[i][1], [Lit(some[i][2]) EXCEPT !.name = FromTable] >>]
SplatSwitches(hash) == {hash[i][1] : i \in {j \in DOMAIN hash : Entry(hash[j]) /\ hash[j][2] = << "True" >>}}

ExpandSplat(c, s) ==
  LET hashes == [i \in DOMAIN c.args |-> SplatOf(s, c.args[i])]
      binds  == FlattenSeq([i \in DOMAIN c.bindings |->
                  LET h == SplatOf(s, c.bindings[i][2]) IN IF h = << >> THEN << c.bindings[i] >> ELSE SplatBindings(h)])
      used   == hashes \o [i \in DOMAIN c.bindings |-> SplatOf(s, c.bindings[i][2])]
  IN  [c EXCEPT !.args = SelectSeq(@, LAMBDA w : SplatOf(s, w) = << >>),
                !.bindings = binds \o FlattenSeq([i \in DOMAIN hashes |-> SplatBindings(hashes[i])]),
                !.params = @ \cup UNION {SplatSwitches(used[i]) : i \in DOMAIN used}]

Keywords == {"break", "continue", "return", "exit", "throw"}
TopNames == {"Invoke-Expression", "Add-Type", "New-Object", "Invoke-History", "Trace-Command"}
TopReason(c, canonical) ==
  canonical \in TopNames \/ c.computed \/ \E i \in DOMAIN c.args : c.args[i].form = "splat"

Launcher(l, c) ==
  LET launched == FirstOf(OrElse(Values(c, {"filepath"}), OrElse(Values(c, {"path"}), ArgFrom(c, 1))))
      t     == ResolveTarget(launched, l.state)
      base  == IF t.ev.text = << >> THEN "" ELSE Last(t.ev.text)
      ran   == EmitOne(Step(l), Spec1("ProcSpawn", "path"), t, FALSE)
      runas == \E w \in ToSet(Values(c, {"verb"}) \o IF HasParam(c, "verb") THEN c.args ELSE << >>) : RawOf(w) = << "runas" >>
      done  == IF runas THEN EmitEff(ran, Effect("PrivEsc", Anywhere)) ELSE ran
      args  == SelectSeq(Values(c, {"argumentlist", "argument"}) \o c.args, LAMBDA w : w # launched /\ RawOf(w) # << >>)
  IN  IF \/ t.raw # << >> /\ ~t.ev.known
         \/ base \in Interpreters /\ args # << >>
         \/ base \in ScriptFiles
      THEN EmitTopCodeExec(done) ELSE done

\* memberMethodInvocation: ForEach-Object without a script block
CallsMember(c) == \/ c.args # << >> /\ c.args[1].form # "block"
                  \/ c.args = << >> /\ Values(c, {"membername", "argumentlist"}) # << >>

Probe(l, c) == EmitSpec(l, c, Spec1("FSRead", "name"))

\* The body of a known cmdlet that has effects.
LowerCmdlet(l, c, canonical, specs) ==
  LET before == Len(l.effs)
      main   == SelectSeq(specs, LAMBDA sp : ~ (sp.kind = "Stdio" /\ c.redirs # << >>))
      told   == FoldLeft(LAMBDA acc, sp : EmitSpec(acc, c, sp), ArgumentEnvReads(l, c), main)
      data   == DataFiles(told, c, canonical)
      bumped == [data EXCEPT !.bump = @ \/ (Bumps(c, canonical) /\ ~data.panicked)]
      moved  == RemoteSessionChannel(MutateState(bumped, c, canonical), c, before)
  IN  GatedFallback(TrackDrive(moved, c, canonical), canonical, before)

\* What a command does but its redirections.
LowerCall(l, c, canonical) ==
  CASE c.comma                                             -> EmitTop(l)
    [] canonical \in Keywords                              -> l
    [] TopReason(c, canonical)                             -> EmitTopCodeExec(l)
    [] canonical \in Functions                             -> EmitUnbounded(l, [TopEffect EXCEPT !.mode = "transitive"])
    [] canonical \in {"Start-Process", "Invoke-Item"}      -> Launcher(l, c)
    [] canonical = "ForEach-Object" /\ CallsMember(c)      -> EmitTopCodeExec(l)
    [] canonical = "Get-Command" /\ TargetWords(c, "name") # << >> -> Probe(l, c)
    [] canonical = "Get-Module" /\ HasParam(c, "listavailable")    -> Probe(l, c)
    [] canonical \notin DOMAIN Cmdlets                     -> EmitTop(l)
    [] Cmdlets[canonical] = << >>                          -> MutateState(ArgumentEnvReads(l, c), c, canonical)
    [] OTHER                                               -> LowerCmdlet(l, c, canonical, Cmdlets[canonical])

\* ApplySecretStaging, on the effects of one command.
Staging(l, mark) ==
  LET mine     == mark + 1 .. Len(l.effs)
      Reads(e) == e.kind \in {"FSRead", "FSMeta"} /\ e.target \in l.staged
      promoted == \E i \in mine : Reads(l.effs[i])
      Label(e) == IF Reads(e) \/ (promoted /\ e.kind = "NetEgress") THEN [e EXCEPT !.taint = @ \cup {"secret"}] ELSE e
      first    == [i \in DOMAIN l.effs |-> IF i \in mine THEN Label(l.effs[i]) ELSE l.effs[i]]
      secret   == \E i \in mine : \/ ReadsSecret(first[i])
                                  \/ "secret" \in first[i].taint
                                  \/ IsCredential(first[i].target)
      Writes(i) == secret /\ i \in mine /\ first[i].kind = "FSWrite"
  IN  IF l.panicked THEN l ELSE
      [l EXCEPT !.effs = [i \in DOMAIN first |->
                            IF Writes(i) THEN [first[i] EXCEPT !.taint = @ \cup {"secret"}] ELSE first[i]],
                !.staged = @ \cup ({first[i].target : i \in {j \in DOMAIN first : Writes(j)}} \ {Anywhere, NoTarget})]

\* The expansion of a splat replaces the node: the next turn of a loop that is
\* unrolled finds it in place of what the program says.
LowerCommand(l, s) ==
  LET found == IF s.at \in DOMAIN l.tree THEN l.tree[s.at] ELSE s.cmd
      c     == IF found.comma THEN found ELSE ExpandSplat(found, l.state)
      at    == [l EXCEPT !.pipe = s.pipe, !.gated = FALSE,
                         !.tree = IF c = found THEN @ ELSE (s.at :> c) @@ @]
  IN  [Staging(LowerRedirs(LowerCall(at, c, Canonical(c.name)), c.redirs), Len(l.effs))
         EXCEPT !.pipe = l.pipe]

-----------------------------------------------------------------------------
\* Assignments

\* rhsTaintOf
RhsTaint(effs) ==
  UNION {CASE ReadsSecret(effs[i])       -> {"secret"}
           [] effs[i].kind = "FSRead"    -> {"file"}
           [] effs[i].kind = "EnvRead"   -> {"env"}
           [] OTHER                      -> {} : i \in DOMAIN effs}

EvalHash(hash, s) == [i \in DOMAIN hash |-> EvalWordText(hash[i][2], s)]

\* The value of the right-hand side, a list of several words being none.
AssignedValue(l, a, rhs) ==
  CASE a.rhs # << >>       -> Ev(<< >>, FALSE, RhsTaint(rhs) \cup {"untrusted"}, << >>)
    [] a.hash # << >>      -> Ev(<< >>, FALSE, UNION {ev.taint : ev \in ToSet(EvalHash(a.hash, l.state))}, << >>)
    [] Len(a.value) = 1    -> EvalWordText(a.value[1], l.state)
    [] OTHER               -> Untrusted

Invalidate(s, names, taint) == FoldLeft(LAMBDA acc, x : SetVar(acc, x, UnknownVar(taint)), s, names)

LowerAssignment(l0, a, rhs) ==
  LET l == EmitEnvReads(Steps(l0, (IF a.rhs = << >> THEN 1 ELSE 0) + Len(a.hash)), AssignedValue(l0, a, rhs).envReads)
      v == AssignedValue(l, a, rhs)
      entries == EvalHash(a.hash, l.state)
      table == /\ a.hash # << >> /\ Len(a.targets) = 1 /\ a.targets[1][1] = "Variable"
               /\ \A i \in DOMAIN entries : entries[i].known
      elementwise == Len(a.targets) > 1 /\ Len(a.value) = Len(a.targets)
      Bind(acc, i) ==
        LET drive == a.targets[i][1] x == a.targets[i][2] IN
        CASE drive = "Env"  -> InState(EmitEff(acc, Effect("EnvWrite", << x >>)), BindVar(acc.state, "env:" \o x, v, a.op))
          [] drive # "Env" /\ elementwise ->
               InState(Step(acc), BindVar(acc.state, x, EvalWordText(a.value[i], acc.state), a.op))
          [] OTHER          -> InState(acc, BindVar(acc.state, x, v, a.op))
  IN  CASE a.targets = << >> /\ a.stale = << >> -> EmitTop(l0)
        [] table -> InState(l, SetVar(l.state, a.targets[1][2],
                                Var(<< >>, v.taint, [i \in DOMAIN a.hash |-> << a.hash[i][1], entries[i].text >>])))
        [] OTHER -> FoldLeft(Bind, InState(l, Invalidate(l.state, a.stale, v.taint)), [i \in DOMAIN a.targets |-> i])

-----------------------------------------------------------------------------
\* Statements

RECURSIVE Stmt(_, _)

StmtsExec(l, ss) == FoldLeft(LAMBDA acc, s : IF acc.panicked THEN acc ELSE Stmt(Step(acc), s), l, ss)

EvalCond(l, c) == EmitEnvReads(Step(l), EvalWordText(c.w, l.state).envReads)

\* f: the arms so far, [l, reached (their final states), decided].
LowerArm(f, arm) ==
  LET l    == EvalCond(StmtsExec(f.l, arm.head), arm.cond)
      t    == CondTruthy(arm.cond)
      body == StmtsExec(l, arm.body)
  IN  CASE f.decided     -> f
        [] t = "false"   -> [f EXCEPT !.l = l]
        [] OTHER         -> [l |-> InState(body, l.state), reached |-> Append(f.reached, body.state),
                             decided |-> t = "true" /\ f.reached = << >>]

LowerIf(l0, s) ==
  LET f      == FoldLeft(LowerArm, [l |-> Step(l0), reached |-> << >>, decided |-> FALSE], s.arms)
      else   == StmtsExec(f.l, s.else)
  IN  CASE f.decided                              -> InState(f.l, f.reached[1])
        [] s.else # << >>                         -> InState(else, JoinAll(Append(f.reached, else.state)))
        [] s.else = << >> /\ f.reached = << >>    -> f.l
        [] OTHER                                  -> InState(f.l, JoinAll(Append(f.reached, f.l.state)))

\* Mutant: one element too many.
LongRange(lo, hi) == [i \in 1 .. (IF lo <= hi THEN hi - lo ELSE lo - hi) + 2 |-> << ToString(IF lo <= hi THEN lo + i - 1 ELSE lo - i + 1) >>]

\* rangeElems
RangeElems(lo, hi) ==
  [i \in 1 .. (IF lo <= hi THEN hi - lo ELSE lo - hi) + 1 |->
     << ToString(IF lo <= hi THEN lo + i - 1 ELSE lo - i + 1) >>]

\* foreachElems: << elements >>, or << >> when they are not known.
ForeachElems(s, state) ==
  LET evs  == [i \in DOMAIN s.iter |-> EvalWordText(s.iter[i], state)]
      wide == s.range # << >> /\ (s.range[2] - s.range[1] >= MaxRangeIterations \/ s.range[1] - s.range[2] >= MaxRangeIterations)
  IN  CASE s.head # << >> \/ wide                    -> << >>
        [] s.range # << >>                           -> << RangeElems(s.range[1], s.range[2]) >>
        [] \A i \in DOMAIN evs : evs[i].known        -> << [i \in DOMAIN evs |-> evs[i].text] >>
        [] OTHER                                     -> << >>

LowerForeach(l0, s) ==
  LET ev   == IF Len(s.iter) = 1 THEN EvalWordText(s.iter[1], l0.state) ELSE Untrusted
      l    == EmitEnvReads(Step(l0), ev.envReads)
      all  == ForeachElems(s, l.state)
      charged == Steps(l, IF s.head = << >> /\ s.range = << >> THEN Len(s.iter) ELSE 0)
      Round(acc, e) == StmtsExec(InState(Step(acc), SetVar(acc.state, s.var, Var(e, ev.taint, << >>))), s.body)
  IN  IF all # << >> THEN FoldLeft(Round, charged, all[1])
      ELSE StmtsExec(InState(charged, SetVar(charged.state, s.var, UnknownVar(ev.taint))), s.body)

LowerLoop(l0, s) ==
  LET l == StmtsExec(Step(l0), s.head) IN
  CASE s.text = "foreach" -> LowerForeach(l, s)
    [] s.text = "while" /\ CondTruthy(s.cond) = "false" -> EvalCond(l, s.cond)
    [] s.text \in {"while", "do"} -> StmtsExec(EvalCond(l, s.cond), s.body)
    [] OTHER              -> StmtsExec(l, s.body)

LowerTry(l, s) == StmtsExec(StmtsExec(StmtsExec(Step(l), s.body), s.catch), s.finally)

Stmt(l, s) ==
  CASE l.panicked            -> l
    [] s.kind = "command"    -> LowerCommand(l, s)
    [] s.kind = "assignment" -> LET ran == StmtsExec(l, s.rhs)
                                IN  LowerAssignment(ran, s, SubSeq(ran.effs, Len(l.effs) + 1, Len(ran.effs)))
    [] s.kind = "top"        -> EmitTop(l)
    [] s.kind = "if"         -> LowerIf(l, s)
    [] s.kind = "loop"       -> LowerLoop(l, s)
    [] s.kind = "try"        -> LowerTry(l, s)
    [] s.kind = "redirect"   -> LowerRedirs(l, s.redirs)

-----------------------------------------------------------------------------
\* A program with a row that reads a secret may send it with any request.
MarkEgressTaint(rows) ==
  LET secret == \E r \in rows : IsSecretRead(r) IN
  {IF secret /\ r.kind = "NetEgress" THEN [r EXCEPT !.taint = @ \cup {"secret"}] ELSE r : r \in rows}

\* finish, and what of Σ the properties look at.  effs: the rows of the report;
\* ders: the effects its derivations justify, one by one, without their labels.
Finished(l) ==
  [done |-> TRUE, effs |-> MarkEgressTaint(Normalized(ToSet(l.effs))),
   ders |-> {[e EXCEPT !.taint = {}] : e \in ToSet(l.effs)}, bump |-> l.bump,
   conservative |-> l.conservative, panicked |-> l.panicked, left |-> l.budget, state |-> l.state]

NoResult == [done |-> FALSE, effs |-> {}, ders |-> {}, bump |-> FALSE, conservative |-> FALSE,
             panicked |-> FALSE, left |-> LowerBudget, state |-> NewState]

AnalyzeInit == (\E family \in Programs : prog \in family) /\ result = NoResult

Analyze ==
  /\ ~result.done
  /\ result' = Finished(StmtsExec(NewLowerer, WalkAll(Main, TopLevel)))
  /\ UNCHANGED prog
=============================================================================
