-------------------------- MODULE MCReportNormalize --------------------------
(***************************************************************************)
(* A small instance of ReportNormalize: every batch of at most three       *)
(* effects drawn from a pool in which effects of one kind and mode differ  *)
(* in target, flow role, certainty, taint and reversibility.               *)
(***************************************************************************)
EXTENDS ReportNormalize

CONSTANTS a, b, secret

MCTargets == {a, b}
MCLabels == {secret}

E(k, t, c, l, r, f) ==
  [kind |-> k, mode |-> "Direct", target |-> t, certainty |-> c, taint |-> l,
   reversible |-> r, netFlow |-> f]

MCPool ==
  { E("FSWrite",   FlatOf({a}), 4, FlatOf({}),       FALSE, FlowNone),
    E("FSWrite",   FlatOf({b}), 2, FlatOf({secret}), FALSE, FlowNone),
    E("FSWrite",   FlatOf({a}), 4, FlatOf({}),       FALSE, FlowIngest),
    E("FSWrite",   FlatTop,     3, FlatTop,          FALSE, FlowIngest),
    E("CodeExec",  FlatTop,     4, FlatOf({}),       FALSE, FlowNone),
    E("CodeExec",  FlatTop,     4, FlatOf({}),       FALSE, FlowCradle),
    E("NetEgress", FlatOf({b}), 4, FlatOf({secret}), TRUE,  FlowNone),
    E("NetEgress", FlatOf({b}), 1, FlatOf({}),       FALSE, FlowNone),
    [E("FSRead", FlatOf({}), 0, FlatOf({}), TRUE, FlowNone) EXCEPT !.mode = "Ambient"] }

MCBatches == UNION {[1 .. n -> MCPool] : n \in 0 .. 3}

\* The string order of the keys of the instance.
KindOrder ==
  << "CodeExec", "CredAccess", "EnvRead", "EnvWrite", "FSMeta", "FSRead", "FSWrite",
     "IPC", "NetEgress", "NetIngress", "Persist", "PrivEsc", "ProcSignal", "ProcSpawn",
     "Stdio" >>
ModeOrder == << "Ambient", "Conditional", "Direct", "Transitive" >>
ScopeOrder == << FlatTop, FlatOf({}), FlatOf({a}), FlatOf({a, b}), FlatOf({b}) >>

Position(s, x) == CHOOSE i \in DOMAIN s : s[i] = x

MCKeyRank ==
  [k \in EffectKinds \X EffectModes \X FlatSet(MCTargets) |->
     100 * Position(KindOrder, k[1]) + 10 * Position(ModeOrder, k[2])
       + Position(ScopeOrder, k[3])]
=============================================================================
