------------------------------ MODULE PsAliases ------------------------------
(***************************************************************************)
(* The alias state of the PowerShell frontend (front/ps/aliasstate.go and  *)
(* resolve in front/ps/lower.go), beside the alias table of the PowerShell *)
(* session that runs the same commands.                                    *)
(*                                                                         *)
(* One step is one command of a script that rebinds names: the frontend    *)
(* updates what it believes, the session what is.  The question is whether *)
(* a call of a name runs the command the report describes.                 *)
(*                                                                         *)
(* The session's half is not part of the repository: a refused write       *)
(* leaves the table alone, New-Alias and New-Item refuse an existing name  *)
(* unless forced, and an alias may name another alias.                     *)
(***************************************************************************)
EXTENDS Integers

CONSTANTS
  Names,           \* command names, folded to lower case
  Cmdlets,         \* the names the table Cmdlets describes
  Functions,       \* the names the script defines as functions
  BuiltIn,         \* the table Aliases: name -> its command, or NoAlias
  BuiltInReadOnly, \* the built-in aliases the session holds read-only
  NoAlias,         \* the entry of a name that is not an alias
  Opaque,          \* the entry of an alias whose command is not known
  NameOperands,    \* the operands naming an alias
  ValueOperands,   \* the operands naming its command
  OptionOperands   \* the -Option operands

Options == {"none", "constant", "readOnly"}   \* ScopedItemOptions

\* An operand is a literal, or a variable the script does not determine.
Operand(S) == [is : S, known : BOOLEAN]

ASSUME NamesAssumption ==
  /\ Cmdlets \subseteq Names /\ Functions \subseteq Names
  /\ BuiltIn \in [Names -> Names \cup {NoAlias}]
  /\ \A n \in Cmdlets : BuiltIn[n] = NoAlias
  /\ BuiltInReadOnly \subseteq { n \in Names : BuiltIn[n] # NoAlias }
  /\ NoAlias \notin Names /\ Opaque \notin Names /\ NoAlias # Opaque
  /\ NameOperands \subseteq Operand(Names)
  /\ ValueOperands \subseteq Operand(Names)
  /\ OptionOperands \subseteq Operand(Options)

VARIABLES
  aliases,            \* l.aliases: the aliases the script declared
  aliasStateUnknown,  \* l.aliasStateUnknown
  pipeAlias,          \* l.pipeAlias of the pipeline being lowered
  shAliases,          \* the session's aliases
  shPiped,            \* the aliases flowing down its pipeline
  misled,             \* the differences the last commands ran into
  vague               \* TRUE once a binding could not be followed exactly

vars == <<aliases, aliasStateUnknown, pipeAlias, shAliases, shPiped, misled, vague>>

-----------------------------------------------------------------------------
\* aliasBinding: an option that is not known stands for mayImmutable.

Binding(t, o) == [target |-> t, option |-> o]
Unbound       == Binding(NoAlias, "none")
UnknownTarget == Binding(Opaque, "none")

Bindings ==
  [target : Names \cup {Opaque}, option : Options \cup {"unknown"}] \cup {Unbound}

Declared(n) == aliases[n].target # NoAlias

\* Mutant: an alias that is read-only yields to any declaration.
ReplaceableIfNotConstant(b, force) == b.option \notin {"constant", "unknown"}

\* aliasBinding.replaceable
Replaceable(b, force) ==
  CASE b.option = "constant" -> FALSE
    [] b.option = "readOnly" -> force
    [] b.option = "unknown"  -> FALSE
    [] b.option = "none"     -> TRUE

\* Mutant: a target that is not known is taken from the table of built-ins.
BoundToBuiltIn(v, o) ==
  Binding(IF v.known THEN v.is ELSE NoAlias, IF o.known THEN o.is ELSE "unknown")

\* What a declaration binds: aliasOperand and aliasOptions.
BoundTo(v, o) ==
  Binding(IF v.known THEN v.is ELSE Opaque, IF o.known THEN o.is ELSE "unknown")

\* A declaration of n, refused while the binding in force is immutable.
Declare(al, n, v, o, force) ==
  IF al[n].target = NoAlias \/ Replaceable(al[n], force)
    THEN [al EXCEPT ![n] = BoundTo(v, o)]
    ELSE al

\* Mutant: a copy is never followed.
RebindUnknown(al, dst, src) == [al EXCEPT ![dst] = UnknownTarget]

\* rebindAlias: dst names what src names, where that is known.
Rebind(al, dst, src) ==
  [al EXCEPT ![dst] = IF al[src].target \in Names THEN al[src] ELSE UnknownTarget]

\* Mutant: a built-in alias that is removed stays in force.
RemoveDeclaredOnly(al, n, force) ==
  IF al[n].target # NoAlias /\ Replaceable(al[n], force)
    THEN [al EXCEPT ![n] = Unbound]
    ELSE al

\* removeAlias: a declared alias is forgotten; a built-in one, which resolution
\* would fall back to, is bound to no known command.
Remove(al, n, force) ==
  IF al[n].target = NoAlias
    THEN IF BuiltIn[n] # NoAlias THEN [al EXCEPT ![n] = UnknownTarget] ELSE al
    ELSE IF Replaceable(al[n], force) THEN [al EXCEPT ![n] = Unbound] ELSE al

\* resolve and aliasResolutionTop: the cmdlet the report describes for a call
\* of n, or Opaque when it says that anything may run.
Resolved(n) ==
  IF aliases[n].target # NoAlias THEN aliases[n].target
  ELSE IF BuiltIn[n] # NoAlias THEN BuiltIn[n]
  ELSE n

Reported(n) ==
  IF aliasStateUnknown \/ Resolved(n) \notin Cmdlets \ Functions
    THEN Opaque
    ELSE Resolved(n)

-----------------------------------------------------------------------------
\* The session

ShWritable(n, force) ==
  CASE shAliases[n].option = "constant" -> FALSE
    [] shAliases[n].option = "readOnly" -> force
    [] shAliases[n].option = "none"     -> TRUE

ShExists(n) == shAliases[n].target # NoAlias

\* A write that creates an alias or changes it; one that only creates it.
ShWrite(n, b, force, new) ==
  IF ShWritable(n, force) /\ (new /\ ShExists(n) => force)
    THEN [shAliases EXCEPT ![n] = b]
    ELSE shAliases

\* An alias stays immutable until a removal, whatever a forced write asks for.
ShKept(n, o) == IF ShExists(n) /\ o.is = "none" THEN shAliases[n].option ELSE o.is

ShRemove(n, force) ==
  IF ShWritable(n, force) THEN [shAliases EXCEPT ![n] = Unbound] ELSE shAliases

ShCopy(dst, src) ==
  IF ShExists(src) /\ ShWritable(dst, FALSE)
    THEN [shAliases EXCEPT ![dst] = shAliases[src]]
    ELSE shAliases

\* The copy of an immutable alias is made before its removal is refused.
ShRename(dst, src) ==
  IF ShExists(src) /\ ~ShExists(dst)
    THEN [shAliases EXCEPT ![dst] = shAliases[src],
                           ![src] = IF ShWritable(src, FALSE) THEN Unbound ELSE @]
    ELSE shAliases

\* The session follows aliases to the first name that is none: whatever a call
\* runs, the name called and the command its alias names run the same.
ShFinal(n) == ~ShExists(n) \/ shAliases[n].target = n

Resolutions ==
  { f \in [Names -> Names] :
      \A n \in Names : f[n] = IF ShFinal(n) THEN n ELSE f[shAliases[n].target] }

-----------------------------------------------------------------------------
\* Where the frontend knowingly simplifies.  A command of one of these kinds is
\* recorded in misled, and what is claimed below ends with it.

Immutable(n) == shAliases[n].option # "none"

When(p, kind) == IF p THEN {kind} ELSE {}

\* A binding the frontend believes possibly immutable keeps its old target.
Unclear(n, known) == When(known /\ Declared(n) /\ aliases[n].option = "unknown", "unclearOption")

\* It does not know which built-in aliases are read-only.
ReadOnlyBuiltIn(n) == When(~Declared(n) /\ n \in BuiltInReadOnly, "readOnlyBuiltIn")

\* It takes New-Alias and New-Item for Set-Alias and Set-Item.
OnExisting(n, force, new) == When(new /\ ~force /\ ShExists(n), "newOnExisting")

\* It reads a path operand as text: a variable names no alias.
ByVariable(w) == When(~w.known, "pathByVariable")

\* A declared alias it forgets may hide a built-in one, which is gone as well.
Uncovers(n) == When(Declared(n) /\ BuiltIn[n] # NoAlias, "uncoversBuiltIn")

Followed(src) == src.known /\ aliases[src.is].target \in Names

\* It copies onto an alias that cannot be written, forgets that the copy of an
\* alias it cannot follow is immutable, or renames onto an alias that exists.
Overwrites(dst, src) ==
  When(Immutable(dst.is) \/ (Immutable(src.is) /\ ~Followed(src)), "overImmutable")

-----------------------------------------------------------------------------
BuiltInBinding(n) == Binding(BuiltIn[n], IF n \in BuiltInReadOnly THEN "readOnly" ELSE "none")

Init ==
  /\ aliases = [n \in Names |-> Unbound]
  /\ aliasStateUnknown = FALSE
  /\ pipeAlias = {}
  /\ shAliases = [n \in Names |-> BuiltInBinding(n)]
  /\ shPiped = {}
  /\ misled = {}
  /\ vague = FALSE

\* The pipeline of an earlier command does not feed this one.
NewPipeline == pipeAlias' = {} /\ shPiped' = {}

\* applyAliasDecl: Set-Alias, or New-Alias when new.
DeclareAlias(w, v, o, force, new) ==
  /\ IF w.known
       THEN aliases' = Declare(aliases, w.is, v, o, force) /\ UNCHANGED aliasStateUnknown
       ELSE aliasStateUnknown' = TRUE /\ UNCHANGED aliases
  /\ shAliases' = ShWrite(w.is, Binding(v.is, o.is), force, new)
  /\ misled' = misled \cup Unclear(w.is, w.known) \cup OnExisting(w.is, force, new)
                      \cup ReadOnlyBuiltIn(w.is)
  /\ vague' = (vague \/ ~w.known \/ ~v.known \/ ~o.known)
  /\ NewPipeline

\* mutateAliasProvider: Set-Item Alias:n, or New-Item when new.  -Force is not read.
WriteItem(w, v, o, force, new) ==
  /\ aliases' = IF w.known THEN Declare(aliases, w.is, v, o, FALSE) ELSE aliases
  /\ shAliases' = ShWrite(w.is, Binding(v.is, ShKept(w.is, o)), force, new)
  /\ misled' = misled \cup ByVariable(w) \cup Unclear(w.is, w.known) \cup OnExisting(w.is, force, new)
                      \cup ReadOnlyBuiltIn(w.is)
                      \cup When(force /\ Declared(w.is) /\ Immutable(w.is), "forceNotRead")
  /\ vague' = (vague \/ ~v.known \/ ~o.known)
  /\ NewPipeline
  /\ UNCHANGED aliasStateUnknown

\* mutateAliasProvider: Copy-Item Alias:src -Destination Alias:dst.
CopyItem(src, dst) ==
  /\ aliases' = IF ~dst.known THEN aliases
                ELSE IF src.known THEN Rebind(aliases, dst.is, src.is)
                ELSE [aliases EXCEPT ![dst.is] = UnknownTarget]
  /\ shAliases' = ShCopy(dst.is, src.is)
  /\ misled' = misled \cup ByVariable(dst) \cup Overwrites(dst, src)
  /\ vague' = (vague \/ ~Followed(src))
  /\ NewPipeline
  /\ UNCHANGED aliasStateUnknown

\* mutateAliasProvider: Rename-Item Alias:src -NewName dst.
RenameItem(src, dst) ==
  /\ aliases' = IF ~dst.known THEN aliases
                ELSE IF src.known
                  THEN Remove(Rebind(aliases, dst.is, src.is), src.is, FALSE)
                  ELSE [aliases EXCEPT ![dst.is] = UnknownTarget]
  /\ shAliases' = ShRename(dst.is, src.is)
  /\ misled' = misled \cup ByVariable(src) \cup ByVariable(dst) \cup Overwrites(dst, src)
                      \cup Uncovers(src.is) \cup Unclear(src.is, src.known)
                      \cup When(ShExists(dst.is), "renameOntoExisting")
  /\ vague' = (vague \/ ~Followed(src))
  /\ NewPipeline
  /\ UNCHANGED aliasStateUnknown

\* Remove-Item and Clear-Item of Alias:n; Remove-Alias, which resolves its operand.
RemovalMisleads(n, known) == Uncovers(n) \cup Unclear(n, known) \cup ReadOnlyBuiltIn(n)

RemoveItem(w, force) ==
  /\ aliases' = IF w.known THEN Remove(aliases, w.is, force) ELSE aliases
  /\ shAliases' = ShRemove(w.is, force)
  /\ misled' = misled \cup ByVariable(w) \cup RemovalMisleads(w.is, w.known)
  /\ NewPipeline
  /\ UNCHANGED <<aliasStateUnknown, vague>>

RemoveAlias(w, force) ==
  /\ IF w.known
       THEN aliases' = Remove(aliases, w.is, force) /\ UNCHANGED aliasStateUnknown
       ELSE aliasStateUnknown' = TRUE /\ UNCHANGED aliases
  /\ shAliases' = ShRemove(w.is, force)
  /\ misled' = misled \cup RemovalMisleads(w.is, w.known)
  /\ vague' = (vague \/ ~w.known)
  /\ NewPipeline

\* Alias:* and the drive itself: which aliases go is not known.  Import-Alias
\* reads a file of definitions.
RemoveMany ==
  /\ aliasStateUnknown' = TRUE
  /\ \E S \in SUBSET { n \in Names : ShWritable(n, TRUE) } :
       shAliases' = [n \in Names |-> IF n \in S THEN Unbound ELSE shAliases[n]]
  /\ vague' = TRUE
  /\ NewPipeline
  /\ UNCHANGED <<aliases, misled>>

ImportAlias ==
  /\ aliasStateUnknown' = TRUE
  /\ \E n, t \in Names : shAliases' = ShWrite(n, Binding(t, "none"), TRUE, FALSE)
  /\ vague' = TRUE
  /\ NewPipeline
  /\ UNCHANGED <<aliases, misled>>

\* noteAliasEnumeration: Get-Alias w, or Get-Item Alias:w when byPath, feeds a
\* pipeline.
EnumerateAliases(w, byPath) ==
  /\ pipeAlias' = IF byPath /\ ~w.known THEN {} ELSE {w}
  /\ shPiped' = IF ShExists(w.is) THEN {w.is} ELSE {}
  /\ misled' = misled \cup When(byPath /\ ~w.known, "pathByVariable")
  /\ UNCHANGED <<aliases, aliasStateUnknown, shAliases, vague>>

\* removePipedAliases: Remove-Item with no path of its own.  An enumeration that
\* is not bounded leaves every name in doubt.
RemovePiped(force) ==
  \E w \in pipeAlias :
    /\ IF w.known
         THEN aliases' = Remove(aliases, w.is, force) /\ UNCHANGED aliasStateUnknown
         ELSE aliasStateUnknown' = TRUE /\ UNCHANGED aliases
    /\ shAliases' = IF w.is \in shPiped THEN ShRemove(w.is, force) ELSE shAliases
    /\ misled' = misled \cup RemovalMisleads(w.is, w.known)
    /\ vague' = (vague \/ ~w.known)
    /\ NewPipeline

Next ==
  \/ \E w \in NameOperands, v \in ValueOperands, o \in OptionOperands, force, new \in BOOLEAN :
       DeclareAlias(w, v, o, force, new) \/ WriteItem(w, v, o, force, new)
  \/ \E src, dst \in NameOperands : CopyItem(src, dst) \/ RenameItem(src, dst)
  \/ \E w \in NameOperands, force \in BOOLEAN : RemoveItem(w, force) \/ RemoveAlias(w, force)
  \/ RemoveMany
  \/ ImportAlias
  \/ \E w \in NameOperands, byPath \in BOOLEAN : EnumerateAliases(w, byPath)
  \/ \E force \in BOOLEAN : RemovePiped(force)

Spec == Init /\ [][Next]_vars

-----------------------------------------------------------------------------
TypeOK ==
  /\ aliases \in [Names -> Bindings]
  /\ aliasStateUnknown \in BOOLEAN
  /\ pipeAlias \subseteq NameOperands
  /\ shAliases \in [Names -> [target : Names, option : Options] \cup {Unbound}]
  /\ shPiped \subseteq Names
  /\ misled \subseteq
       { "unclearOption", "readOnlyBuiltIn", "newOnExisting", "pathByVariable",
         "uncoversBuiltIn", "overImmutable", "renameOntoExisting", "forceNotRead" }
  /\ vague \in BOOLEAN

\* An alias names a cmdlet that an alias of the same name hides.
Chained ==
  \E n \in Names : shAliases[n].target \in Cmdlets /\ ~ShFinal(shAliases[n].target)
                   /\ ~ShFinal(n)

\* Aside from the eight differences and from chains, a name whose call the
\* report describes runs exactly the command described.
CallsAreFaithful ==
  misled = {} /\ ~Chained =>
    \A n \in Names : Reported(n) = Opaque \/ \A f \in Resolutions : f[n] = Reported(n)

\* The report says "anything" only for a cause: when every binding could be
\* followed, a call that runs a cmdlet is reported as that cmdlet.
Indirect == \E n \in Names : ShExists(n) /\ ~ShFinal(shAliases[n].target)

NoNeedlessDoubt ==
  misled = {} /\ ~vague /\ ~Indirect =>
    \A n \in Names, f \in Resolutions :
      f[n] \in Cmdlets \ Functions => Reported(n) = f[n]

\* What the frontend believes of n is so: a name it saw no declaration of is
\* what it was, a target it knows is the session's, and so is an option.
Tracked(n) ==
  /\ ~Declared(n) => shAliases[n] = BuiltInBinding(n)
  /\ aliases[n].target \in Names => shAliases[n].target = aliases[n].target
  /\ Declared(n) /\ aliases[n].option # "unknown" => shAliases[n].option = aliases[n].option

\* Until it is misled or gives up, the frontend tracks every name, refused
\* declarations, copies, renamings and removals included.
TablesAgree == misled = {} /\ ~aliasStateUnknown => \A n \in Names : Tracked(n)

\* What flows down the pipeline is what was enumerated, unless it is gone.
PipelinesAgree == \A w \in pipeAlias : shPiped = IF ShExists(w.is) THEN {w.is} ELSE {}

\* Without a vague command, a name is in doubt only when its built-in alias was
\* removed.
Justified(n) == aliases[n].target = Opaque => ~ShExists(n) /\ BuiltIn[n] # NoAlias

DoubtHasCause ==
  misled = {} /\ ~vague => ~aliasStateUnknown /\ \A n \in Names : Justified(n)

IInv == TypeOK /\ PipelinesAgree /\ TablesAgree /\ DoubtHasCause
=============================================================================
