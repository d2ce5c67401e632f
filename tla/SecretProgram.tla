--------------------------- MODULE SecretProgram ---------------------------
(***************************************************************************)
(* The programs the flow of credentials is followed through: commands that *)
(* copy bytes between files, variables, pipes and the network, and the     *)
(* constructs of bash that connect them.  The trees are those of the       *)
(* parser (mvdan.cc/sh); what a command does with its operands is the      *)
(* knowledge base's.                                                       *)
(***************************************************************************)
EXTENDS EffectIR, Sequences, FiniteSets

CONSTANTS
  Paths,      \* the files a program names
  Vars,       \* its variables
  Key,        \* the file that holds a credential
  Remote,     \* a path on a remote share
  Token,      \* the inherited environment variable that holds a credential
  Unknown,    \* an operand whose value is not known
  Secret,     \* the label of credential material
  File,       \* the label of a request body read from a file
  Untrusted,  \* the label of the output of a command
  Statements, \* the statements the programs are built of
  Programs    \* the programs, each a sequence of statements

ASSUME NamesAssumption ==
  /\ {Key, Remote} \subseteq Paths
  /\ Paths \cap {Token, Unknown} = {}
  /\ Token \notin Vars \cup {Unknown}
  /\ Targets = Paths \cup Vars \cup {Token}
  /\ Labels = {Secret, File, Untrusted}
  /\ Secret \notin {File, Untrusted}

VARIABLE prog

-----------------------------------------------------------------------------
\* Words
Lit       == [w |-> "lit"]
Var(x)    == [w |-> "var", x |-> x]
EnvToken  == [w |-> "env"]
Subst(ss) == [w |-> "subst", ss |-> ss]

\* Commands
Cat(p)       == [op |-> "cat", src |-> p, word |-> Lit]
Pass         == [op |-> "pass", word |-> Lit]                \* cat, no operand
Cp(p, q)     == [op |-> "cp", src |-> p, dst |-> q, word |-> Lit]
Mv(p, q)     == [op |-> "mv", src |-> p, dst |-> q, word |-> Lit]
Tee(q)       == [op |-> "tee", dst |-> q, word |-> Lit]
Printf(v)    == [op |-> "printf", word |-> v]
Get          == [op |-> "get", word |-> Lit]                 \* curl HOST
Put(p)       == [op |-> "put", src |-> p, word |-> Lit]      \* curl -T p HOST
Form(p)      == [op |-> "form", src |-> p, word |-> Lit]     \* curl -d @p HOST
PostIn       == [op |-> "postIn", word |-> Lit]              \* curl -d @- HOST
Post(v)      == [op |-> "post", word |-> v]                  \* curl -d v HOST
Assign(x, v) == [op |-> "assign", x |-> x, word |-> v]

Pipe(ss)     == [op |-> "pipe", ss |-> ss]
Group(ss)    == [op |-> "group", ss |-> ss]                  \* { ...; }
Subshell(ss) == [op |-> "sub", ss |-> ss]                    \* ( ...; )

Simple == {"cat", "pass", "cp", "mv", "tee", "printf", "get", "put", "form",
           "postIn", "post", "assign"}
Uploads == {"get", "put", "form", "postIn", "post"}

\* Redirections
InFrom(p) == [r |-> "in", p |-> p]
OutTo(p)  == [r |-> "out", p |-> p]
OutNet    == [r |-> "net"]                                   \* > /dev/tcp/HOST/PORT
Here(v)   == [r |-> "here", word |-> v]                      \* <<< v

\* Statements
S(c)           == [c |-> c, redirs |-> << >>, bg |-> FALSE]
With(c, rs)    == [c |-> c, redirs |-> rs, bg |-> FALSE]
Background(c)  == [c |-> c, redirs |-> << >>, bg |-> TRUE]

-----------------------------------------------------------------------------
\* The syntax trees: the words, the commands and the statements whose parts are
\* in T.
Operands   == Paths \cup {Unknown}
PlainWords == [w : {"lit", "env"}] \cup [w : {"var"}, x : Vars]
Words(T)   == PlainWords \cup [w : {"subst"}, ss : Seq(T)]

CommandsOf(T) ==
       [op : {"cat", "put", "form"}, src : Operands, word : {Lit}]
  \cup [op : {"cp", "mv"}, src : Operands, dst : Operands, word : {Lit}]
  \cup [op : {"tee"}, dst : Operands, word : {Lit}]
  \cup [op : {"pass", "get", "postIn"}, word : {Lit}]
  \cup [op : {"printf", "post"}, word : Words(T)]
  \cup [op : {"assign"}, x : Vars, word : Words(T)]
  \cup [op : {"pipe", "group", "sub"}, ss : Seq(T)]

Redirects ==
  [r : {"in", "out"}, p : Operands] \cup [r : {"net"}] \cup [r : {"here"}, word : PlainWords]

StatementsOf(T) == [c : CommandsOf(T), redirs : Seq(Redirects), bg : BOOLEAN]

\* The parts of a statement are statements.
ASSUME SyntaxAssumption ==
  /\ Statements \subseteq StatementsOf(Statements)
  /\ Programs \subseteq Seq(Statements)
=============================================================================
