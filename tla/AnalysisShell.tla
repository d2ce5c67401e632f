---------------------------- MODULE AnalysisShell ----------------------------
(***************************************************************************)
(* A shell running the program (external): the files it leaves, and what   *)
(* reached a remote share.  Written on the words of the program.           *)
(*                                                                         *)
(* A call opens its redirections from left to right, then runs or fails: a *)
(* command that fails has truncated its files all the same.                *)
(***************************************************************************)
EXTENDS AnalysisProgram

CONSTANT Present   \* the files there are besides the credentials

\* The run of the program: at, the call in progress (0: not started; beyond the
\* last: ended); opened, how many of its redirections are open, in and out where
\* they lead (none or one file); outer, what $u holds.  Of the files there are,
\* those the program wrote (new) and those that hold bytes of a credential
\* (secret); deeds, what was done, each with the atom that did it.
VARIABLE run

NotRun == [ at |-> 0, opened |-> 0, in |-> {}, out |-> {}, outer |-> "", files |-> {}, new |-> {}, secret |-> {},
            failed |-> FALSE, leaked |-> FALSE, deeds |-> {} ]

Text(word, outer) == IF word = Unknown THEN outer ELSE word
IsRemote(t)       == t \in DOMAIN Shares \cup Ambiguous

Deed(w, kind, atom) == [w EXCEPT !.deeds = @ \cup {[kind |-> kind, atom |-> atom]}]
Removing(w, S)      == [w EXCEPT !.files = @ \ S, !.new = @ \ S, !.secret = @ \ S]
Truncating(w, S)    == [w EXCEPT !.files = @ \cup S, !.new = @ \cup S, !.secret = @ \ S]
Appending(w, S, secret) ==
  [w EXCEPT !.files  = @ \cup S, !.new = @ \cup S,
            !.secret = IF secret THEN @ \cup S ELSE @,
            !.leaked = @ \/ (secret /\ \E t \in S : IsRemote(t))]
Replacing(w, t, secret) == Appending(Truncating(w, {t}), {t}, secret)
Printing(w, secret)     == Appending(w, w.out, secret)
NextCall(w)             == [w EXCEPT !.at = @ + 1, !.opened = 0, !.in = {}, !.out = {}]

-----------------------------------------------------------------------------
\* What a call does when it succeeds, its words written out in ws.
Copying(w, c, kind, ws) ==
  Replacing(Deed(Deed(w, kind, << "command", c.op >>), "FSWrite", << "command", c.op >>), ws[2], ws[1] \in w.secret)
Runs(c, ws, w) ==
  CASE c.op = "echo" -> Printing(Deed(w, "Stdio", << "command", "echo" >>), FALSE)
    [] c.op = "cat" /\ c.ops = << >> -> Printing(w, w.in \cap w.secret # {})
    [] c.op = "cat" /\ c.ops # << >> -> Printing(Deed(w, "FSRead", << "command", "cat" >>), ToSet(ws) \cap w.secret # {})
    [] c.op = "cp"   -> Copying(w, c, "FSRead", ws)
    [] c.op = "mv"   -> Removing(Copying(w, c, "FSMeta", ws), {ws[1]})
    [] c.op = "rm"   -> Removing(Deed(w, "FSWrite", << "command", "rm" >>), ToSet(ws))
    [] c.op = "curl" /\ "-o" \in c.flags ->
         Replacing(Deed(Deed(w, "NetEgress", << "command", "curl" >>), "FSWrite", << "command", "curl" >>), ws[1], FALSE)
    [] c.op = "curl" /\ "-o" \notin c.flags -> Printing(Deed(w, "NetEgress", << "command", "curl" >>), FALSE)
    [] OTHER         -> Deed(w, "CodeExec", << "command", c.op >>)

\* The files a command cannot do without; a file is not copied onto itself.
Needs(c, ws) ==
  CASE c.op \in {"cp", "mv"} -> {ws[1]}
    [] c.op = "cat"          -> ToSet(ws)
    [] OTHER                 -> {}
CanRun(c, ws, w) == Needs(c, ws) \subseteq w.files /\ (c.op \in {"cp", "mv"} => ws[1] # ws[2])

CanOpen(w, r, t) == r.op = "<" => t \in w.files
Opening(w, r, t) ==
  CASE r.op = "<"  -> [Deed(w, "FSRead", << "redirect", "<" >>) EXCEPT !.in = {t}]
    [] r.op = ">"  -> [Truncating(Deed(w, "FSWrite", << "redirect", ">" >>), {t}) EXCEPT !.out = {t}]
    [] r.op = ">>" -> [Appending(Deed(w, "FSWrite", << "redirect", ">>" >>), {t}, FALSE) EXCEPT !.out = {t}]
    [] r.op = "2>" -> Truncating(Deed(w, "FSWrite", << "redirect", "2>" >>), {t})
    [] OTHER       -> Deed(w, "Stdio", << "redirect", r.op >>)

-----------------------------------------------------------------------------
RunInit == run = NotRun

\* The call in progress and its words.
ThisCall   == prog[run.at]
TheseWords == [i \in DOMAIN ThisCall.ops |-> Text(ThisCall.ops[i], run.outer)]
InCall     == run.at \in DOMAIN prog
MoreToOpen == run.opened < Len(ThisCall.redirs)

Start ==
  /\ run.at = 0
  /\ \E outer \in Outers :
       run' = [NotRun EXCEPT !.at = 1, !.outer = outer, !.files = Credentials \cup Present \cup {outer}, !.secret = Credentials]
  /\ UNCHANGED prog

OpenNext ==
  /\ InCall /\ MoreToOpen
  /\ LET r == ThisCall.redirs[run.opened + 1]
         t == Text(r.target, run.outer)
     IN CanOpen(run, r, t) /\ run' = [Opening(run, r, t) EXCEPT !.opened = @ + 1]
  /\ UNCHANGED prog

RunCall ==
  /\ InCall /\ ~MoreToOpen
  /\ CanRun(ThisCall, TheseWords, run)
  /\ run' = NextCall(Runs(ThisCall, TheseWords, run))
  /\ UNCHANGED prog

\* A file that does not open, a command that cannot run or fails.
FailCall ==
  /\ InCall
  /\ run' = NextCall([run EXCEPT !.failed = TRUE])
  /\ UNCHANGED prog

RunShell == Start \/ OpenNext \/ RunCall \/ FailCall
=============================================================================
