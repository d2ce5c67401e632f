------------------------------ MODULE EffectIR ------------------------------
(***************************************************************************)
(* The effect intermediate representation of flowsh: the lattices of       *)
(* engine/lattice.go and the effect atom of engine/effect.go.              *)
(*                                                                         *)
(* A resource target and a taint label are members of the constant sets    *)
(* Targets and Labels.  A Scope or a Taint is a flat set: a finite set of  *)
(* names, or the single greatest element "arbitrary".                      *)
(***************************************************************************)
EXTENDS Integers

CONSTANTS
  Targets,   \* the resource names a Scope may hold
  Labels     \* the provenance labels a Taint may hold

-----------------------------------------------------------------------------
\* Flat sets (engine/lattice.go, type flatSet)

FlatSet(U) ==
  [arbitrary : {FALSE}, elems : SUBSET U] \cup [arbitrary : {TRUE}, elems : {{}}]

FlatTop == [arbitrary |-> TRUE, elems |-> {}]

FlatOf(S) == [arbitrary |-> FALSE, elems |-> S]

\* Mutant: a join with "arbitrary" that keeps the names.
FlatJoinKeepsNames(s, o) ==
  [arbitrary |-> s.arbitrary \/ o.arbitrary, elems |-> s.elems \cup o.elems]

FlatJoin(s, o) ==
  IF s.arbitrary \/ o.arbitrary THEN FlatTop ELSE FlatOf(s.elems \cup o.elems)

FlatLeq(s, o) ==
  o.arbitrary \/ (~s.arbitrary /\ s.elems \subseteq o.elems)

-----------------------------------------------------------------------------
\* Chains: certainty and destructiveness are ordinals, joined with max.

Certainties == 0 .. 4        \* Unknown, Unlikely, Possible, Likely, Certain
Severities  == 0 .. 4        \* None, Low, Medium, High, Critical

ChainJoin(a, b) == IF b > a THEN b ELSE a

-----------------------------------------------------------------------------
\* Effects (engine/effect.go, type Effect)

EffectKinds ==
  { "FSRead", "FSWrite", "FSMeta", "EnvRead", "EnvWrite", "ProcSpawn",
    "ProcSignal", "NetEgress", "NetIngress", "CodeExec", "PrivEsc", "Persist",
    "CredAccess", "IPC", "Stdio" }

EffectModes == { "Direct", "Transitive", "Ambient", "Conditional" }

FlowNone   == "none"
FlowCradle == "cradle"
FlowIngest == "ingest"
FlowRoles  == { FlowNone, FlowCradle, FlowIngest }

Effects ==
  [ kind : EffectKinds, mode : EffectModes, target : FlatSet(Targets),
    certainty : Certainties, taint : FlatSet(Labels), reversible : BOOLEAN,
    netFlow : FlowRoles ]

\* Effect.Validate: a flow role fixes the kind of the effect that carries it.
ValidEffect(e) ==
  /\ e \in Effects
  /\ e.netFlow = FlowCradle => e.kind = "CodeExec"
  /\ e.netFlow = FlowIngest => e.kind = "FSWrite"

\* Effect.Key names the effect in why-traces and orders a report.  It does not
\* spell out the flow role.
EffectKey(e) == <<e.kind, e.mode, e.target>>

JoinFlow(a, b) == IF a # FlowNone THEN a ELSE b

\* Mutants: a join that forgets the other effect's taint, or its certainty.
EffectJoinDropsTaint(e, o) ==
  [e EXCEPT !.target = FlatJoin(@, o.target), !.certainty = ChainJoin(@, o.certainty),
            !.reversible = @ /\ o.reversible, !.netFlow = JoinFlow(@, o.netFlow)]

EffectJoinKeepsCertainty(e, o) ==
  [e EXCEPT !.target = FlatJoin(@, o.target), !.taint = FlatJoin(@, o.taint),
            !.reversible = @ /\ o.reversible, !.netFlow = JoinFlow(@, o.netFlow)]

\* Effect.Join, for two effects of one kind and one mode.
EffectJoin(e, o) ==
  [ kind       |-> e.kind,
    mode       |-> e.mode,
    target     |-> FlatJoin(e.target, o.target),
    certainty  |-> ChainJoin(e.certainty, o.certainty),
    taint      |-> FlatJoin(e.taint, o.taint),
    reversible |-> e.reversible /\ o.reversible,
    netFlow    |-> JoinFlow(e.netFlow, o.netFlow) ]

\* The order Effect.Join is the least upper bound of: o says at least as much
\* as e, about the same kind, mode and flow role.
EffectLeq(e, o) ==
  /\ e.kind = o.kind
  /\ e.mode = o.mode
  /\ e.netFlow = o.netFlow
  /\ FlatLeq(e.target, o.target)
  /\ e.certainty <= o.certainty
  /\ FlatLeq(e.taint, o.taint)
  /\ o.reversible => e.reversible

\* KindDestructiveness (engine/report.go): the worst case of a kind.
KindDestructiveness(k) ==
  CASE k \in {"CodeExec", "CredAccess"}                                    -> 4
    [] k \in {"PrivEsc", "Persist", "FSWrite", "ProcSignal"}               -> 3
    [] k \in {"FSMeta", "EnvWrite", "NetEgress", "ProcSpawn", "IPC"}       -> 2
    [] k \in {"FSRead", "EnvRead", "NetIngress", "Stdio"}                  -> 1
=============================================================================
