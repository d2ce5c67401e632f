----------------------------- MODULE PsProgram -----------------------------
(***************************************************************************)
(* PowerShell programs as the grammar gives them, the normalized           *)
(* statements front/ps/parse.go walks them into, and the rows of the       *)
(* cmdlet table the programs use.                                          *)
(*                                                                         *)
(* A text is a sequence of atoms: concatenation is all that is done with   *)
(* it.  The atom a path starts with decides its provider or drive.         *)
(***************************************************************************)
EXTENDS Naturals, Sequences, SequencesExt, TLC

CONSTANTS
  Programs,    \* sets of sequences of statements
  Prelude, Finish,  \* what every program does first, and last
  Functions,   \* the names of the functions the program declares
  Hosts,       \* atoms a network address starts with
  Letters,     \* drive names -> the atom "X:" their paths start with
  Shares,      \* atoms "\\host\share" -> the host
  Ambiguous,   \* atoms "//name/share", a share or a doubled separator
  Providers,   \* the prefixes of the other providers -> "Env", "Variable", "Registry"
  Secrets,     \* atoms that name a credential file
  Tokens,      \* environment variables that hold a credential
  Interpreters, ScriptFiles,  \* programs whose arguments are code, and files that are
  MaxRangeIterations          \* of a range that is iterated exactly

VARIABLE prog

Main == Prelude \o prog \o Finish

-----------------------------------------------------------------------------
\* Words: the parts of a bare or double-quoted word; 'text'; an expression that
\* is computed when the program runs; @name.

L(a)       == [k |-> "lit", t |-> a]
V(x)       == [k |-> "var", t |-> x]
Env(x)     == [k |-> "env", t |-> x]
Computed   == [k |-> "unknown", t |-> ""]
Parts(ps)  == [form |-> "parts", parts |-> ps, name |-> ""]
Lit(text)  == Parts([i \in DOMAIN text |-> L(text[i])])
Ref(x)     == [form |-> "parts", parts |-> << V(x) >>, name |-> x]
Expression == [form |-> "expression", parts |-> << >>, name |-> ""]
Splat(x)   == [form |-> "splat", parts |-> << >>, name |-> x]
NoWord     == [form |-> "none", parts |-> << >>, name |-> ""]

\* Conditions: $true, $false or $null, a number, a quoted string, anything else.
Cond(c, w)  == [c |-> c, w |-> w]
Always      == Cond("$true", NoWord)
Never       == Cond("$false", NoWord)
Number(n)   == Cond(IF n = 0 THEN "0" ELSE "number", NoWord)
Quoted(w)   == Cond("quoted", w)
Unclear(w)  == Cond("word", w)

\* Commands.  params: the parameters written; bindings: << parameter, value >>;
\* redirs: << operator, word >>; inner: the pipelines inside the arguments.
Cmd(name, args, bindings, params) ==
  [name |-> name, args |-> args, bindings |-> bindings, params |-> params,
   redirs |-> << >>, computed |-> FALSE, comma |-> FALSE, inner |-> << >>]
Redirected(c, op, w) == [c EXCEPT !.redirs = Append(@, << op, w >>)]
With(c, pipeline)    == [c EXCEPT !.inner = << pipeline >>]

\* Statements.  A pipeline has an id of its own (pipeSeq).
Pipeline(id, stages, redirs) == [kind |-> "pipeline", id |-> id, stages |-> stages, redirs |-> redirs]
Do(c)               == Pipeline(1, << c >>, << >>)
\* what: "string" (a literal), "inert" (a value read) or "opaque" (a method call)
ExprStmt(what, redirs) == [kind |-> "expr", what |-> what, redirs |-> redirs]
\* targets: << drive, name >>; stale: variables assigned through a member.
Assignment(targets, stale, op, value, rhs, hash) ==
  [kind |-> "assignment", targets |-> targets, stale |-> stale, op |-> op,
   value |-> value, rhs |-> rhs, hash |-> hash]
\* value: words separated by commas, the first of two or more quoted; << >> if
\* rhs or hash gives the value.  hash: << key, word >>, the entries of a table.
Let(x, w)           == Assignment(<< <<"Variable", x>> >>, << >>, "=", << w >>, << >>, << >>)
If(arms, else)      == [kind |-> "if", arms |-> arms, else |-> else]
Arm(c, head, body)  == [cond |-> c, head |-> head, body |-> body]
\* iter: a sequence of words; range: << lo, hi >>, or << >>.
Loop(text, c, head, body) ==
  [kind |-> "loop", text |-> text, var |-> "", iter |-> << >>, range |-> << >>,
   cond |-> c, head |-> head, body |-> body]
Foreach(x, iter, head, body) == [Loop("foreach", Never, head, body) EXCEPT !.var = x, !.iter = iter]
ForRange(x, lo, hi, body)    == [Foreach(x, << >>, << >>, body) EXCEPT !.range = << lo, hi >>]
Try(b, c, f)        == [kind |-> "try", body |-> b, catch |-> c, finally |-> f]
Opaque              == [kind |-> "opaque"]

-----------------------------------------------------------------------------
\* The cmdlet table

Spec1(kind, target) == [kind |-> kind, target |-> target]

Cmdlets ==
  [n \in {"Get-Content", "Test-Path"} |-> << Spec1("FSRead", "path") >>] @@
  [n \in {"Set-Content", "Set-Item", "Remove-Item", "Out-File"} |-> << Spec1("FSWrite", "path") >>] @@
  ("Copy-Item" :> << Spec1("FSRead", "path"), Spec1("FSWrite", "path") >>) @@
  ("Invoke-WebRequest" :> << Spec1("NetEgress", "url") >>) @@
  [n \in {"New-PSDrive", "Remove-PSDrive"} |-> << Spec1("FSMeta", "name") >>] @@
  [n \in {"Set-Location", "Pop-Location"} |-> << Spec1("FSMeta", "cwd") >>] @@
  ("Write-Output" :> << Spec1("Stdio", "none") >>) @@
  [n \in {"Start-Process", "Invoke-Item"} |-> << Spec1("ProcSpawn", "path") >>] @@
  [n \in {"Set-Variable", "Clear-Variable", "ForEach-Object", "Get-Command",
          "Get-Module", "Get-Date"} |-> << >>]

Aliases == ("rm" :> "Remove-Item") @@ ("curl" :> "Invoke-WebRequest") @@ ("iex" :> "Invoke-Expression")

PathNames == {"path", "literalpath", "destination", "filepath"}
NameNames == {"name", "computername", "session"}
UrlNames  == {"uri", "proxy"}
\* dataFileKind
DataKind(p) == CASE p = "infile" -> "FSRead" [] p = "outfile" -> "FSWrite" [] OTHER -> ""
Switches  == {"recurse", "force"}

-----------------------------------------------------------------------------
\* The walk.  ctx: the pipeline a command is a stage of, whether it is inside an
\* argument, whether the statement is one of the program's own, and its place in
\* the tree, which tells the nodes of two commands apart.

TopLevel == [group |-> 0, inArg |-> FALSE, top |-> TRUE, at |-> << >>]
Nested(ctx) == [ctx EXCEPT !.top = FALSE]
InArg(ctx)  == [ctx EXCEPT !.inArg = TRUE]
Child(ctx, i) == [ctx EXCEPT !.at = Append(@, i)]

Command(c, ctx) ==
  [kind |-> "command", cmd |-> c, pipe |-> IF ctx.inArg THEN 0 ELSE ctx.group, at |-> ctx.at]
Top             == [kind |-> "top"]
EmitRedirect(rs) == IF rs = << >> THEN << >> ELSE << [kind |-> "redirect", redirs |-> rs] >>

WrittenOutput(ctx, rs) ==
  << Command([Cmd("Write-Output", << >>, << >>, {}) EXCEPT !.redirs = rs], ctx) >>

RECURSIVE Walk(_, _), WalkAll(_, _), WalkCommand(_, _)

\* case "command": the command first, then the pipelines of its arguments.
WalkCommand(c, ctx) == << Command(c, ctx) >> \o WalkAll(c.inner, InArg(ctx))

WalkPipeline(n, ctx) ==
  LET in == IF Len(n.stages) < 2 THEN ctx ELSE [ctx EXCEPT !.group = n.id, !.inArg = FALSE]
  IN  FlattenSeq([i \in DOMAIN n.stages |-> WalkCommand(n.stages[i], Child(in, i))]) \o EmitRedirect(n.redirs)

WalkExpression(n, ctx) ==
  IF ~ctx.top \/ ctx.inArg
  THEN (IF n.what = "opaque" THEN << Top >> ELSE << >>) \o EmitRedirect(n.redirs)
  ELSE CASE n.what = "string" -> WrittenOutput(ctx, n.redirs)
         [] n.what = "inert"  -> EmitRedirect(n.redirs)
         [] OTHER             -> << Top >> \o EmitRedirect(n.redirs)

WalkArm(a, ctx) == Arm(a.cond, WalkAll(a.head, Child(ctx, 1)), WalkAll(a.body, Child(ctx, 2)))

Walk(n, ctx) ==
  LET in == Nested(ctx) IN
  CASE n.kind = "pipeline"   -> WalkPipeline(n, ctx)
    [] n.kind = "expr"       -> WalkExpression(n, ctx)
    [] n.kind = "opaque"     -> << Top >>
    [] n.kind = "assignment" -> << [n EXCEPT !.rhs = WalkAll(@, in)] >>
    [] n.kind = "if"         -> << [n EXCEPT !.arms = [i \in DOMAIN @ |-> WalkArm(@[i], Child(in, i))],
                                             !.else = WalkAll(@, Child(in, 0))] >>
    [] n.kind = "loop"       -> << [n EXCEPT !.head = WalkAll(@, Child(in, 1)), !.body = WalkAll(@, Child(in, 2))] >>
    [] n.kind = "try"        -> << [n EXCEPT !.body = WalkAll(@, Child(in, 1)), !.catch = WalkAll(@, Child(in, 2)),
                                             !.finally = WalkAll(@, Child(in, 3))] >>

WalkAll(ns, ctx) == FlattenSeq([i \in DOMAIN ns |-> Walk(ns[i], Child(ctx, i))])
=============================================================================
