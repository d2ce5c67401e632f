-------------------------- MODULE AnalysisProgram --------------------------
(***************************************************************************)
(* Straight-line shell programs, as the composition facade                 *)
(* (internal/analysis) receives them from the shell frontend: a sequence   *)
(* of calls, each with its words and redirections.                         *)
(*                                                                         *)
(* A path is a member of EffectIR's Targets; what the code reads off its   *)
(* spelling is given by the constants below.                               *)
(***************************************************************************)
EXTENDS EffectIR, Sequences, SequencesExt

CONSTANTS
  Programs,     \* a family of sets of programs
  Extensions,   \* the calls a program may be extended by
  Credentials,  \* the paths engine.SecretPath recognises
  Shares,       \* the paths that name a remote authority, and its host
  Ambiguous,    \* the paths that may name one: //host/x with a single label
  Noise,        \* the texts no path is written as
  Widths,       \* the paths that are wider than one file, and how wide
  Outers        \* what the variable u may hold when the program starts

\* "$u": a word whose value is not known, with the text the frontend gives it.
Unknown == "$u"

ASSUME PathsAssumption ==
  /\ Credentials \cup DOMAIN Shares \cup Ambiguous \cup Noise \cup DOMAIN Widths \cup {"cat"} \subseteq Targets
  /\ DOMAIN Shares \cap Ambiguous = {}
  /\ \A t \in DOMAIN Shares : Shares[t] \in Targets
  /\ \A t \in DOMAIN Widths : Widths[t] \in Severities
  /\ "secret" \in Labels /\ Unknown \notin Targets

VARIABLE prog

Words == Targets \cup {Unknown}

\* op names a command; "tool" is one nobody described; "sh" reads the program it
\* runs from the call before it in a pipeline.  flags are the words mv skips.
Call(op, flags, ops, redirs) == [op |-> op, flags |-> flags, ops |-> ops, redirs |-> redirs]
To(target)             == [op |-> ">", target |-> target]
Redir(op, target)      == [op |-> op, target |-> target]

WriteOps == {">", ">>", "2>"}

\* The calls a program may hold: a copy has a source and a destination, a fetch
\* an address, after the file it saves to.
WellFormed(c) ==
  /\ c = Call(c.op, c.flags, c.ops, c.redirs)
  /\ c.ops \in Seq(Words)
  /\ c.op \in {"cp", "mv"} => Len(c.ops) = 2
  /\ c.op = "curl" => Len(c.ops) = IF "-o" \in c.flags THEN 2 ELSE 1
  /\ c.redirs \in Seq([op : WriteOps \cup {"<"}, target : Words] \cup [op : {"2>&1"}, target : {"1"}])
WellFormedProgram(p) == p \in Seq(ToSet(p)) /\ \A c \in ToSet(p) : WellFormed(c)
ASSUME CallsAssumption ==
  (\A S \in Programs : \A p \in S : WellFormedProgram(p)) /\ (\A c \in Extensions : WellFormed(c))
=============================================================================
