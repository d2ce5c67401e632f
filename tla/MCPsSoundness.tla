--------------------------- MODULE MCPsSoundness ---------------------------
(***************************************************************************)
(* The programs of the run: a known and an unknown variable, one or two    *)
(* pieces in up to two constructs, and accesses through what is left.      *)
(***************************************************************************)
EXTENDS PsSoundness

MCOuters    == {<< >>, << "X" >>, << "http://h" >>}
MCHosts     == {"http://h"}
MCLetters   == ("X" :> "X:")
MCShares    == ("//s.org/d" :> "s.org")
MCAmbiguous == {"//s/d"}
MCProviders == ("Env:" :> "Env") @@ ("Variable:" :> "Variable") @@ ("HKLM:" :> "Registry")

T(a)    == Lit(<< a >>)
T2(a, b) == Lit(<< a, b >>)
X       == Ref("x")
U       == Ref("u")
Tail2(a, x) == Parts(<< L(a), V(x) >>)
EnvRef(x) == Parts(<< Env(x) >>)
Call(name, args)        == Cmd(name, args, << >>, {})
WithParam(name, args, p) == Cmd(name, args, << >>, p)
Bound(name, bindings)   == Cmd(name, << >>, bindings, {bindings[i][1] : i \in DOMAIN bindings})
S(c)    == << Do(c) >>
SetX(w) == << Let("x", w) >>
AssignX(op, ws, rhs, hash) == << Assignment(<< <<"Variable", "x">> >>, << >>, op, ws, rhs, hash) >>
Read(w) == Call("Get-Content", << w >>)
Del(w)  == Call("rm", << w >>)
Pipe(id, cs) == << Pipeline(id, cs, << >>) >>
Get     == Call("curl", << T2("http://h", "/p") >>)
Iex     == Call("iex", << >>)
Perhaps == Unclear(U)
IfU(s, t) == << If(<< Arm(Perhaps, << >>, s) >>, t) >>
Unmount == S(Call("Remove-PSDrive", << T("X") >>))
Mount(name, root) == Unmount \o S(Bound("New-PSDrive", << <<"name", name>>, <<"psprovider", T("FileSystem")>>, <<"root", root>> >>))

MCPrelude == SetX(T("a"))
MCFinish  == S(Del(X)) \o S(Redirected(Call("Copy-Item", << T("e"), T2("X:", "f") >>), ">", X))
MCFunctions == {"f"}

\* Pieces that leave the session's variables and drives alone.
Pure ==
  { S(Read(X)), S(Read(U)), S(Read(Tail2("d", "x"))), S(Read(Tail2("d", "u"))), S(Read(T("id_rsa"))),
    S(WithParam("Remove-Item", << T("b") >>, {"recurse"})), S(WithParam("Remove-Item", << Tail2("X:", "x") >>, {"force"})),
    S(Bound("Copy-Item", << <<"path", X>>, <<"destination", T2("X:", "g")>> >>)),
    S(Cmd("Copy-Item", << T("id_rsa"), T("b") >>, << >>, {"tosession"})),
    S(Bound("Invoke-WebRequest", << <<"uri", Tail2("http://h", "u")>>, <<"outfile", X>> >>)),
    S(Bound("Invoke-WebRequest", << <<"uri", U>>, <<"infile", T("id_rsa")>> >>)),
    S(Bound("Invoke-WebRequest", << <<"uri", T("http://h")>>, <<"body", EnvRef("TOKEN")>>, <<"proxy", Tail2("http://h", "x")>> >>)),
    S(Call("curl", << X >>)), S(Call("curl", << EnvRef("E") >>)),
    S(Bound("Invoke-WebRequest", << <<"uri", T("http://h")>>, <<"body", X>> >>)),
    S(Call("Set-Item", << T2("HKLM:", "k") >>)), S(Call("Get-Content", << T2("Env:", "E") >>)),
    S(Call("Get-Command", << X >>)), S(Call("Get-Module", << T("m") >>)), S(Cmd("Get-Module", << T("m") >>, << >>, {"listavailable"})),
    S(Call("Start-Process", << X >>)), S(Call("Start-Process", << T("cmd"), T("/c") >>)), S(Call("Invoke-Item", << T("run.ps1") >>)),
    S(Cmd("Start-Process", << T("p") >>, << <<"verb", T("runas")>> >>, {"verb"})),
    S(Redirected(Call("Write-Output", << EnvRef("E") >>), ">", X)), S(Redirected(Call("Write-Output", << X >>), "2>&1", NoWord)),
    S(With(Call("Write-Output", << Expression >>), Pipeline(2, << Read(T("b")) >>, << >>))),
    S(With(Bound("Invoke-WebRequest", << <<"uri", T("http://h")>>, <<"body", Expression>> >>), Pipeline(2, << Read(T("id_rsa")) >>, << >>))),
    S(Call("Copy-Item", << Splat("p") >>)), S(Call("f", << >>)), S(Call("g", << >>)), S([Call("rm", << X >>) EXCEPT !.comma = TRUE]),
    << ExprStmt("inert", << << ">", T("b") >> >>) >>, << ExprStmt("opaque", << >>) >>, << Opaque >> }
Pipes ==
  { Pipe(3, << Get, Iex >>), S(Get) \o S(Iex), Pipe(4, << Read(X), Iex >>), Pipe(5, << Get, Call("Set-Content", << X >>) >>),
    Pipe(6, << Get, Call("ForEach-Object", << T("Delete") >>) >>), Pipe(7, << Call("curl", << X >>), Iex >>),
    Pipe(8, << Read(T("id_rsa")), Redirected(Call("Write-Output", << >>), ">", T("b")) >>),
    Pipe(9, << Bound("Invoke-WebRequest", << <<"uri", U>> >>), Call("Write-Output", << >>), Iex >>),
    Pipe(10, << Get, With(Call("Write-Output", << Expression >>), Pipeline(2, << Iex >>, << >>)) >>) }

\* Pieces that change them.
Changes ==
  { SetX(T("b")), SetX(U), SetX(Tail2("b", "x")), SetX(Expression), SetX(EnvRef("E")), SetX(EnvRef("TOKEN")), SetX(Ref("null")),
    AssignX("+=", << T("b") >>, << >>, << >>), AssignX("+=", << U >>, << >>, << >>), AssignX("-=", << T("b") >>, << >>, << >>),
    AssignX("=", << T("b"), T("c") >>, << >>, << >>), AssignX("=", << >>, S(Read(T("id_rsa"))), << >>), AssignX("=", << >>, S(Del(T("b"))), << >>),
    << Assignment(<< <<"Variable", "v">>, <<"Variable", "x">> >>, << >>, "=", << T("b"), X >>, << >>, << >>) >>,
    << Assignment(<< <<"Variable", "x">>, <<"Variable", "v">> >>, << >>, "=", << T("b"), U >>, << >>, << >>) >>,
    << Assignment(<< <<"Env", "E">> >>, << >>, "=", << X >>, << >>, << >>) >>,
    << Assignment(<< >>, << "x" >>, "=", << T("b") >>, << >>, << >>) >>,
    << Assignment(<< <<"Variable", "p">> >>, << >>, "=", << >>, << >>, << <<"path", T("b")>>, <<"destination", X>> >>) >>,
    << Assignment(<< <<"Variable", "p">> >>, << >>, "=", << >>, << >>, << <<"path", T("b")>>, <<"destination", U>> >>) >>,
    S(Bound("Set-Variable", << <<"name", T("x")>>, <<"value", T("b")>> >>)), S(Call("Set-Variable", << T("x"), U >>)),
    S(Call("Clear-Variable", << T("x") >>)), S(Cmd("Set-Item", << >>, << <<"path", T2("Variable:", "x")>>, <<"value", T("b")>> >>, {"path", "value"})),
    S(Call("Remove-Item", << T2("Variable:", "x") >>)),
    Mount(T("X"), T("//s.org/d")), Mount(T("X"), T("//s/d")), Mount(T("X"), U), Mount(T("X"), T("a")), Mount(U, T("//s.org/d")), Unmount }
Table == << Assignment(<< <<"Variable", "p">> >>, << >>, "=", << >>, << >>,
              << <<"path", T("b")>>, <<"recurse", Ref("true")>> >>) >>
Simple == Pure \cup Pipes \cup Changes \cup
  {Table \o S(Call("rm", << Splat("p") >>)), S(Call("Set-Location", << T("c") >>)) \o S(Read(Ref("pwd"))), S(Call("Pop-Location", << >>))}

Branching(s, t) == <<
  IfU(s, << >>), IfU(s, t), IfU(t, s),
  << If(<< Arm(Perhaps, << >>, s), Arm(Always, << >>, t) >>, << >>) >>,
  << If(<< Arm(Number(0), << >>, s), Arm(Unclear(EnvRef("E")), S(Del(T("c"))), t) >>, << >>) >>,
  << If(<< Arm(Quoted(T("c")), << >>, s) >>, t) >>,
  << If(<< Arm(Quoted(X), << >>, s), Arm(Never, << >>, t) >>, t) >>,
  << Foreach("y", << T("b"), X >>, << >>, s \o t) >>, << ForRange("x", 1, 3, s) >>, << ForRange("y", 3, 2, s \o t) >>,
  << Loop("while", Never, << >>, s) >> \o t,
  << Try(S(Read(X)), << >>, s) >> >>
Cautious(s, t) == <<
  << Foreach("y", << U >>, << >>, s \o S(Del(Ref("y")))) >>, << Foreach("x", << T("b"), U >>, << >>, s) >>,
  << ForRange("x", 1, 9, s) >>, << Foreach("y", << >>, S(Read(T("b"))), s \o t) >>,
  << Loop("while", Perhaps, S(Del(T("c"))), s) >>, << Loop("for", Perhaps, << >>, s \o t) >>, << Loop("do", Perhaps, << >>, s \o t) >>,
  << Try(s, t, << >>) >>, << Try(s \o t, S(Del(T("c"))), t) >>, << Try(S(Call("throw", << >>)), s, t) >>,
  << Foreach("y", << T("b"), T("b") >>, << >>, s \o IfU(S(Call("break", << >>)), IfU(S(Call("continue", << >>)), << >>)) \o t) >> >>

\* Ways to come by a secret, what may happen to it, and ways to send it.
Key    == SetX(T("id_rsa"))
FromX  == AssignX("=", << >>, S(Read(X)), << >>)
Web(bindings) == S(Bound("Invoke-WebRequest", << <<"uri", T("http://h")>> >> \o bindings))
CopyX(w) == S(Bound("Copy-Item", << <<"path", X>>, <<"destination", w>> >>))
Sources ==
  { << >>, Key, Key \o FromX, SetX(EnvRef("TOKEN")), Key \o CopyX(T("b")),
    Key \o CopyX(T("b")) \o AssignX("=", << >>, S(Read(T("b"))), << >>),
    Key \o Pipe(11, << Read(X), Redirected(Call("Write-Output", << >>), ">", T("b")) >>),
    Key \o FromX \o AssignX("+=", << T("b") >>, << >>, << >>),
    Key \o FromX \o S(Redirected(Call("Write-Output", << X >>), ">", T("b"))),
    Key \o FromX \o << Assignment(<< <<"Variable", "x">> >>, << "x" >>, "=", << X >>, << >>, << >>) >> }
Between ==
  { << >>, S(Read(U)), S(Read(T("c"))), IfU(SetX(T("c")), << >>), IfU(S(Read(U)), SetX(U)), IfU(SetX(T("c")), S(Read(U))),
    << Foreach("y", << T("b"), T("c") >>, << >>, S(Read(Ref("y")))) >>, << Try(S(Read(T("b"))), S(Read(T("c"))), << >>) >> }
Sinks ==
  { S(Call("curl", << Tail2("http://h", "x") >>)), Web(<< <<"body", X>> >>), Web(<< <<"body", EnvRef("TOKEN")>> >>),
    Web(<< <<"infile", X>> >>), Web(<< <<"infile", T("b")>> >>), Web(<< <<"infile", U>> >>), S(Call("curl", << U >>)),
    S(With(Bound("Invoke-WebRequest", << <<"uri", T("http://h")>>, <<"body", Expression>> >>), Pipeline(2, << Read(X) >>, << >>))),
    S(Cmd("Copy-Item", << X, T("c") >>, << >>, {"tosession"})),
    << Assignment(<< <<"Variable", "p">> >>, << >>, "=", << >>, << >>, << <<"uri", T("http://h")>>, <<"infile", X>> >>) >>
      \o S(Call("Invoke-WebRequest", << Splat("p") >>)) }

Few == {SetX(T("b")), SetX(U), Mount(T("X"), T("//s.org/d")), S(Call("Clear-Variable", << T("x") >>)), S(Read(T("id_rsa")))}
MCPrograms == {
  {s \o t : s \in Simple, t \in Simple},
  {Branching(s, t)[i] : i \in 1..12, s \in Simple, t \in Few},
  {Cautious(s, t)[i] : i \in 1..11, s \in Pure \cup Pipes, t \in {S(Del(U)), S(Call("curl", << T("http://h") >>))}},
  {Branching(Branching(s, t)[i], SetX(T("c")))[j] : i \in 1..12, j \in 1..12, s \in Few, t \in Few},
  {s \o t \o u : s \in Sources, t \in Between, u \in Sinks},
  {Table \o << Foreach("y", << T("b"), T("c") >>, << >>, s \o S(Call("rm", << Ref("y"), Splat("p") >>)) \o t) >> :
     s \in Few, t \in Few \cup {S(Call("Clear-Variable", << T("p") >>))}} }

\* A body that may run not at all, or more than once.
MCLoopPrograms == {
  {<< Loop(text, Perhaps, << >>, s) >> : text \in {"while", "do", "for"}, s \in Few},
  {<< Foreach("y", << U >>, << >>, s) >> : s \in Few} }
=============================================================================
