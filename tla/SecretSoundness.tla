--------------------------- MODULE SecretSoundness ---------------------------
(***************************************************************************)
(* The flow of credentials in the report against the flow of their bytes:  *)
(* the frontend and the composition analyse a program, then bash runs it.  *)
(***************************************************************************)
EXTENDS SecretFlow, SecretShell

vars == <<prog, flowVars, shVars>>

Init == FlowInit /\ ShInit

RunFlow  == Analyse /\ UNCHANGED shVars
RunShell == mode = "done" /\ ShStep /\ UNCHANGED <<prog, flowVars>>
Finished == mode = "done" /\ ShOver /\ UNCHANGED vars

Next == RunFlow \/ RunShell \/ Finished

Spec == Init /\ [][Next]_vars

-----------------------------------------------------------------------------
TypeOK ==
  /\ effs \in Seq([kind : EffectKinds, target : FlatSet(Targets), taint : SUBSET Labels])
  /\ cells \in [Vars -> SUBSET Labels]
  /\ {stdin, stdout, word} \subseteq SUBSET Labels
  /\ staged \subseteq Paths
  /\ pending \subseteq 1 .. Len(effs)
  /\ mode \in {"analyse", "done"}
  /\ files \in [Paths -> BOOLEAN]
  /\ leaked \in BOOLEAN

\* If bash can send the bytes of a credential off the host, in any interleaving
\* and whatever fails, the report holds an exfiltration pair and grades it
\* Critical.
LeakIsCritical == leaked => ExfilSeverity(report) = 4

\* "The rule never fabricates a source": while no effect names a credential, no
\* file is staged and nothing carries the label.
NothingFabricated ==
  (\A i \in DOMAIN effs : ~SecretTarget(effs[i].target) /\ Token \notin effs[i].target.elems)
  => /\ staged = {}
     /\ \A i \in DOMAIN effs : Secret \notin effs[i].taint
     /\ \A x \in Vars : Secret \notin cells[x]
     /\ Secret \notin stdin \cup stdout

\* The effects of the n-th top-level statement, once the next one has started.
Span(n) == (spans[n] + 1) .. (IF n = Len(spans) THEN Len(effs) ELSE spans[n + 1])

\* "An unrelated request isn't tainted": a request that sends nothing, in a
\* statement of its own, carries no label, whatever the program did before it.
NoSpread ==
  \A n \in DOMAIN spans :
    prog[n] = S(Get) => \A i \in Span(n) : effs[i].taint = {}

\* The staging rule "only ever adds the secret label, never removes one", and
\* so does every other step: no effect is dropped or loses a label, and a file
\* that was staged stays staged.
OnlyGrows ==
  /\ staged \subseteq staged'
  /\ \A i \in DOMAIN effs : i \in DOMAIN effs' /\ effs[i].taint \subseteq effs'[i].taint

LabelsOnlyGrow == [][OnlyGrows]_flowVars

\* Merging the effects of the program into rows loses no finding.
MergeKeepsFindings ==
  mode = "done" =>
    ExfilSeverity({effs[i] : i \in DOMAIN effs}) <= ExfilSeverity(report)
=============================================================================
