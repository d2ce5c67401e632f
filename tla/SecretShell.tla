----------------------------- MODULE SecretShell -----------------------------
(***************************************************************************)
(* Where the bytes of a credential go when bash runs a program of          *)
(* SecretProgram.  External: bash, the kernel and the commands.            *)
(*                                                                         *)
(* A content is the one bit that matters: does it hold credential          *)
(* material.  Stages of a pipeline and background jobs are threads that    *)
(* interleave; a command reads, then writes; a command that reads its      *)
(* standard input reads to the end, when nothing writes to it any more.    *)
(* Any command may fail: then it does nothing.                             *)
(***************************************************************************)
EXTENDS SecretProgram

VARIABLES
  threads,   \* the shells in progress
  files,     \* Paths -> BOOLEAN
  leaked     \* TRUE once credential material has left the host

shVars == <<threads, files, leaked>>

\* in: the thread whose pipe is its standard input (0: none); out: where its
\* output goes; pipe: what was written into its pipe; got: what a substitution
\* of its current command printed; kids: the threads its current statement
\* waits for; phase: how far its current statement is.
Thread(ss, in, out, vs, w) ==
  [todo |-> ss, in |-> in, out |-> out, vars |-> vs, writer |-> w, pipe |-> FALSE,
   got |-> FALSE, held |-> FALSE, kids |-> {}, phase |-> "start"]

Terminal  == [to |-> "terminal"]
IntoPipe(i) == [to |-> "pipe", i |-> i]
IntoWord(i) == [to |-> "word", i |-> i]

ShInit ==
  /\ threads = << Thread(prog, 0, Terminal, [x \in Vars |-> FALSE], 0) >>
  /\ files = [p \in Paths |-> p = Key]
  /\ leaked = FALSE

Over(i)    == threads[i].todo = << >>
Current(i) == Head(threads[i].todo)
Free(i)    == ~Over(i) /\ \A j \in threads[i].kids : Over(j)

\* Thread i goes on to its next statement.
Advanced(t) == [t EXCEPT !.todo = Tail(@), !.phase = "start", !.kids = {}, !.got = FALSE]

\* Thread i starts a statement that needs other threads, and waits for them.
Spawn(i, new, t) ==
  /\ threads' = [threads EXCEPT ![i] = t] \o new
  /\ UNCHANGED <<files, leaked>>

New(i) == Len(threads) + i

Enter(i) ==
  /\ Free(i)
  /\ threads[i].phase = "start"
  /\ LET t == threads[i]
         s == Current(i)
         waiting(n) == [t EXCEPT !.phase = "wait", !.kids = {New(j) : j \in 1 .. n}]
     IN
     CASE s.bg ->
            Spawn(i, << Thread(<< [s EXCEPT !.bg = FALSE] >>, 0, Terminal, t.vars, 0) >>, Advanced(t))
       [] ~s.bg /\ s.c.op = "group" ->
            Spawn(i, << >>, [t EXCEPT !.todo = s.c.ss \o Tail(@)])
       [] ~s.bg /\ s.c.op = "sub" ->
            Spawn(i, << Thread(s.c.ss, t.in, t.out, t.vars, 0) >>, waiting(1))
       [] ~s.bg /\ s.c.op = "pipe" ->
            LET n == Len(s.c.ss)
                in(j)  == IF j = 1 THEN t.in ELSE New(j)
                out(j) == IF j = n THEN t.out ELSE IntoPipe(New(j + 1))
            IN Spawn(i, [j \in 1 .. n |->
                           Thread(<< s.c.ss[j] >>, in(j), out(j), t.vars,
                                  IF j = 1 THEN 0 ELSE New(j - 1))],
                     waiting(n))
       [] ~s.bg /\ s.c.op \in Simple /\ s.c.word.w = "subst" ->
            Spawn(i, << Thread(s.c.word.ss, t.in, IntoWord(i), t.vars, 0) >>,
                  [waiting(1) EXCEPT !.phase = "read"])
       [] OTHER -> Spawn(i, << >>, [t EXCEPT !.phase = "read"])

\* A compound statement is over when its threads are.
Join(i) ==
  /\ Free(i)
  /\ threads[i].phase = "wait"
  /\ Spawn(i, << >>, Advanced(threads[i]))

WordValue(t, v) ==
  CASE v.w = "lit"   -> FALSE
    [] v.w = "env"   -> TRUE
    [] v.w = "var"   -> t.vars[v.x]
    [] v.w = "subst" -> t.got

Redirs(s) == {s.redirs[n] : n \in DOMAIN s.redirs}
Fed(s)    == \E r \in Redirs(s) : r.r \in {"in", "here"}

ReadsInput(c) == c.op \in {"pass", "tee", "postIn"}

\* The pipe of thread j is closed: the stage before it is over.
Closed(j) == j = 0 \/ threads[j].writer = 0 \/ Over(threads[j].writer)

Input(t, s) ==
  IF Fed(s)
  THEN \E r \in Redirs(s) : \/ r.r = "in" /\ files[r.p]
                            \/ r.r = "here" /\ WordValue(t, r.word)
  ELSE t.in # 0 /\ threads[t.in].pipe

\* What a command has in hand after it has read.
Contents(t, s) ==
  CASE ReadsInput(s.c) -> {Input(t, s)}
    [] s.c.op \in {"cat", "cp", "mv", "put", "form"} ->
         IF s.c.src = Unknown THEN BOOLEAN ELSE {files[s.c.src]}
    [] s.c.op = "get" -> {FALSE}
    [] OTHER -> {WordValue(t, s.c.word)}

Read(i) ==
  /\ Free(i)
  /\ threads[i].phase = "read"
  /\ ReadsInput(Current(i).c) /\ ~Fed(Current(i)) => Closed(threads[i].in)
  /\ \E h \in Contents(threads[i], Current(i)) :
       threads' = [threads EXCEPT ![i].held = h, ![i].phase = "write"]
  /\ UNCHANGED <<files, leaked>>

\* The files a command writes, by operand or by redirection.
Written(s) ==
  (IF s.c.op \in {"cp", "mv", "tee"} THEN {s.c.dst} ELSE {})
    \cup {r.p : r \in {q \in Redirs(s) : q.r = "out"}}

Prints(c) == c.op \in {"cat", "pass", "tee", "printf"}

\* What file p holds after the command: an operand holds what was read, a
\* redirection what was printed.
FileAfter(s, h, p) ==
  IF p \in Written(s)
  THEN h /\ (Prints(s.c) \/ (s.c.op \in {"cp", "mv"} /\ p = s.c.dst))
  ELSE IF s.c.op = "mv" /\ p = s.c.src THEN FALSE ELSE files[p]

Redirected(s) == \E r \in Redirs(s) : r.r \in {"out", "net"}

Write(i) ==
  /\ Free(i)
  /\ threads[i].phase = "write"
  /\ LET t == threads[i]
         s == Current(i)
         h == t.held
         o == t.out
         printed == h /\ Prints(s.c) /\ ~Redirected(s)
         done == IF s.c.op = "assign" THEN [Advanced(t) EXCEPT !.vars[s.c.x] = h] ELSE Advanced(t)
         step == [threads EXCEPT ![i] = done]
     IN  /\ threads' = CASE o.to = "pipe" -> [step EXCEPT ![o.i].pipe = @ \/ printed]
                         [] o.to = "word" -> [step EXCEPT ![o.i].got = @ \/ printed]
                         [] OTHER         -> step
         /\ files' = [p \in Paths |-> FileAfter(s, h, p)]
         /\ leaked' = \/ leaked
                      \/ h /\ s.c.op \in Uploads
                      \/ h /\ Prints(s.c) /\ \E r \in Redirs(s) : r.r = "net"
                      \/ Remote \in Written(s) /\ FileAfter(s, h, Remote)

\* The command fails before it has done anything.
Fail(i) ==
  /\ Free(i)
  /\ threads[i].phase = "read"
  /\ Current(i).c.op # "assign"
  /\ Spawn(i, << >>, Advanced(threads[i]))

ShStep == \E i \in DOMAIN threads : Enter(i) \/ Join(i) \/ Read(i) \/ Write(i) \/ Fail(i)

ShOver == \A i \in DOMAIN threads : Over(i)
=============================================================================
