----------------------------- MODULE MCAnalysis -----------------------------
(***************************************************************************)
(* The programs of the run: all pairs of calls that read, copy, move,      *)
(* stage, fetch and print, and staged writes among them.                   *)
(***************************************************************************)
EXTENDS AnalysisSoundness

Share == "//s.org/x"
Host  == "//s/x"

MCTargets     == {"id_rsa", "a", "b", "f", "t", "1d;2d", Share, Host, "s.org", "http://h", "cat", "hi", "/"}
MCLabels      == {"secret"}
MCCredentials == {"id_rsa"}
MCShares      == Share :> "s.org"
MCAmbiguous   == {Host}
MCNoise       == {"1d;2d"}
MCWidths      == "/" :> 4
MCOuters      == {"id_rsa", "b", Share}
MCPresent     == {"a"}
MCStagingNames == {"t"}

C(op, ops)        == Call(op, {}, ops, << >>)
With(flag, op, ops) == Call(op, {flag}, ops, << >>)
Cat(w, rs)        == Call("cat", {}, << w >>, rs)
CatInput(rs)      == Call("cat", {}, << >>, rs)
Echo(rs)          == Call("echo", {}, << "hi" >>, rs)
Places         == {"f", "b", Share, Host, Unknown}

Reads  == {Cat("id_rsa", << >>), Cat("a", << >>), Cat(Unknown, << >>), CatInput(<< Redir("<", "id_rsa") >>)}
Prints ==
  {Cat(w, << To(t) >>) : w \in {"id_rsa", "a", "f"}, t \in Places} \cup {Echo(<< To(t) >>) : t \in Places}
    \cup {Echo(<< To("a") >>), Echo(<< To("f"), Redir("2>&1", "1") >>), Echo(<< Redir(">>", "f") >>), Cat("a", << Redir("2>", "b"), To("f") >>),
          CatInput(<< Redir("<", "id_rsa"), To(Share) >>), CatInput(<< To("b"), Redir("<", "f") >>), Echo(<< >>)}
Copies == {C(op, << s, d >>) : op \in {"cp", "mv"}, s \in {"id_rsa", "a", "f"}, d \in Places}
            \cup {With("-f", "mv", << "f", "b" >>), With("--", "mv", << "f", "a" >>), With("-f", "cp", << "f", "a" >>), C("mv", << "f", "f" >>),
                  C("cp", << Unknown, "b" >>), C("mv", << Unknown, "b" >>)}
Others == {C("rm", << "f" >>), With("-r", "rm", << "/" >>), With("-f", "rm", << Unknown >>), C("curl", << "http://h" >>),
           With("-o", "curl", << "f", "http://h" >>), With("-o", "curl", << Share, "http://h" >>), C("curl", << Unknown >>),
           C("tool", << "a" >>), Cat("1d;2d", << >>), Call("tool", {}, << >>, << To("1d;2d") >>)}
Calls  == Reads \cup Prints \cup Copies \cup Others

MCExtensions == Others \cup {Cat("a", << To(t) >>) : t \in Places}
                  \cup {C("cp", << "a", "b" >>), C("mv", << "f", "b" >>), C("mv", << "id_rsa", Share >>), Cat("id_rsa", << >>)}

Stage(w) == << w, C("mv", << "f", "b" >>) >>
MCPrograms == {
  {<< >>}, {<< c >> : c \in Calls}, {<< c, d >> : c \in Calls, d \in Calls},
  {<< C("curl", << "http://h" >>), C("sh", << >>), c >> : c \in Calls} ,
  {Stage(w) \o << c >> : w \in {Echo(<< To("f") >>), Cat("id_rsa", << To("f") >>)}, c \in Calls},
  {<< c >> \o Stage(w) : w \in {Echo(<< To("f") >>), Cat("id_rsa", << To("f") >>)}, c \in Calls},
  {<< c, d, e >> : c \in {Cat("id_rsa", << To("f") >>), C("mv", << "id_rsa", "b" >>), C("cp", << "id_rsa", "f" >>)},
                   d \in {C("mv", << "f", "b" >>), C("cp", << "b", "f" >>), Cat("f", << To("a") >>)},
                   e \in {C(op, << s, Share >>) : op \in {"cp", "mv"}, s \in {"a", "b", "f"}}} }

\* What a caller may configure: nothing; reviews of kinds and of grades.
Reviewing == [DefaultPolicy EXCEPT !.ingest = "review", !.effects = [@ EXCEPT !["FSWrite"] = "review", !["NetEgress"] = "deny"]]
Grading   == [DefaultPolicy EXCEPT !.unknown = "review", !.cradle = "allow", !.exfiltration = "review",
                                   !.grades = [g \in Severities |-> CASE g < 2 -> "allow" [] g < 4 -> "review" [] OTHER -> "deny"]]
MCPolicies == {DefaultPolicy, Reviewing, Grading}

\* These programs are among those the theorem on retries is about.
ASSUME RetriesAssumption == OrdinaryRetries
=============================================================================
