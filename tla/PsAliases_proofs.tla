--------------------------- MODULE PsAliases_proofs ---------------------------
(***************************************************************************)
(* Proofs about PsAliases, for every set of names, every table of built-in *)
(* aliases and every set of operands: what the frontend says of a call is  *)
(* what the session runs, until one of the differences it knows of.        *)
(***************************************************************************)
EXTENDS PsAliases, TLAPS

ShBindings == [target : Names, option : Options] \cup {Unbound}

-----------------------------------------------------------------------------
\* The operators on tables keep their types.

LEMMA BoundToType ==
  ASSUME NEW v \in ValueOperands, NEW o \in OptionOperands
  PROVE  BoundTo(v, o) \in Bindings
BY NamesAssumption DEF BoundTo, Binding, Bindings, Operand

LEMMA DeclareType ==
  ASSUME NEW al \in [Names -> Bindings], NEW n \in Names,
         NEW v \in ValueOperands, NEW o \in OptionOperands, NEW force \in BOOLEAN
  PROVE  Declare(al, n, v, o, force) \in [Names -> Bindings]
BY BoundToType DEF Declare

LEMMA RebindType ==
  ASSUME NEW al \in [Names -> Bindings], NEW dst \in Names, NEW src \in Names
  PROVE  Rebind(al, dst, src) \in [Names -> Bindings]
BY DEF Rebind, UnknownTarget, Binding, Bindings, Options

LEMMA RemoveType ==
  ASSUME NEW al \in [Names -> Bindings], NEW n \in Names, NEW force \in BOOLEAN
  PROVE  Remove(al, n, force) \in [Names -> Bindings]
BY DEF Remove, UnknownTarget, Unbound, Binding, Bindings, Options

LEMMA UnknownTargetType == UnknownTarget \in Bindings /\ Unbound \in Bindings
BY DEF UnknownTarget, Unbound, Binding, Bindings, Options

LEMMA ShWriteType ==
  ASSUME TypeOK, NEW n \in Names, NEW b \in [target : Names, option : Options],
         NEW force \in BOOLEAN, NEW new \in BOOLEAN
  PROVE  ShWrite(n, b, force, new) \in [Names -> ShBindings]
BY DEF TypeOK, ShWrite, ShBindings

LEMMA ShMoveTypes ==
  ASSUME TypeOK, NEW n \in Names, NEW m \in Names, NEW force \in BOOLEAN
  PROVE  /\ ShRemove(n, force) \in [Names -> ShBindings]
         /\ ShCopy(n, m) \in [Names -> ShBindings]
         /\ ShRename(n, m) \in [Names -> ShBindings]
BY DEF TypeOK, ShRemove, ShCopy, ShRename, ShBindings

LEMMA ShKeptType ==
  ASSUME TypeOK, NEW n \in Names, NEW o \in OptionOperands
  PROVE  ShKept(n, o) \in Options
BY NamesAssumption DEF TypeOK, ShKept, Unbound, Binding, Operand, Options

-----------------------------------------------------------------------------
\* Every variable starts within its type, and every command keeps it there.
LEMMA TypeInit == Init => TypeOK
<1> SUFFICES ASSUME Init PROVE TypeOK
  OBVIOUS
<1>1. aliases \in [Names -> Bindings]
  BY UnknownTargetType DEF Init
<1>2. ASSUME NEW n \in Names PROVE BuiltInBinding(n) \in ShBindings
  <2>1. CASE BuiltIn[n] = NoAlias
    <3>1. n \notin BuiltInReadOnly
      BY <2>1, NamesAssumption
    <3> QED BY <2>1, <3>1 DEF BuiltInBinding, Unbound, ShBindings
  <2>2. CASE BuiltIn[n] # NoAlias
    <3>1. BuiltIn[n] \in Names
      BY <2>2, NamesAssumption
    <3> QED BY <3>1 DEF BuiltInBinding, Binding, ShBindings, Options
  <2> QED BY <2>1, <2>2
<1>3. shAliases \in [Names -> ShBindings]
  BY <1>2 DEF Init
<1> QED BY <1>1, <1>3 DEF Init, TypeOK, ShBindings

LEMMA TypeStep == TypeOK /\ [Next]_vars => TypeOK'
<1> SUFFICES ASSUME TypeOK, [Next]_vars PROVE TypeOK'
  OBVIOUS
<1> USE NamesAssumption
<1>1. ASSUME NEW w \in NameOperands, NEW v \in ValueOperands, NEW o \in OptionOperands,
             NEW force \in BOOLEAN, NEW new \in BOOLEAN, DeclareAlias(w, v, o, force, new)
      PROVE  TypeOK'
  <2>1. w.is \in Names /\ Binding(v.is, o.is) \in [target : Names, option : Options]
    BY DEF Operand, Binding
  <2>2. shAliases' \in [Names -> ShBindings]
    BY <1>1, <2>1, ShWriteType DEF DeclareAlias
  <2>3. aliases' \in [Names -> Bindings]
    BY <1>1, <2>1, DeclareType DEF DeclareAlias, TypeOK
  <2>6. aliasStateUnknown' \in BOOLEAN
    BY <1>1 DEF DeclareAlias, TypeOK
  <2>4. misled' \subseteq
          misled \cup { "unclearOption", "newOnExisting", "readOnlyBuiltIn" }
    BY <1>1 DEF DeclareAlias, Unclear, OnExisting, ReadOnlyBuiltIn, When
  <2>5. vague' \in BOOLEAN /\ pipeAlias' = {} /\ shPiped' = {}
    BY <1>1 DEF DeclareAlias, NewPipeline
  <2> QED BY <2>2, <2>3, <2>4, <2>5, <2>6 DEF TypeOK, ShBindings
<1>2. ASSUME NEW w \in NameOperands, NEW v \in ValueOperands, NEW o \in OptionOperands,
             NEW force \in BOOLEAN, NEW new \in BOOLEAN, WriteItem(w, v, o, force, new)
      PROVE  TypeOK'
  <2>1. w.is \in Names /\ Binding(v.is, ShKept(w.is, o)) \in [target : Names, option : Options]
    BY ShKeptType DEF Operand, Binding
  <2>2. shAliases' \in [Names -> ShBindings]
    BY <1>2, <2>1, ShWriteType DEF WriteItem
  <2>3. aliases' \in [Names -> Bindings] /\ aliasStateUnknown' \in BOOLEAN
    BY <1>2, <2>1, DeclareType DEF WriteItem, TypeOK
  <2>4. misled' \subseteq
          misled \cup { "pathByVariable", "unclearOption", "newOnExisting", "readOnlyBuiltIn",
                        "forceNotRead" }
    BY <1>2 DEF WriteItem, ByVariable, Unclear, OnExisting, ReadOnlyBuiltIn, When
  <2>5. vague' \in BOOLEAN /\ pipeAlias' = {} /\ shPiped' = {}
    BY <1>2 DEF WriteItem, NewPipeline
  <2> QED BY <2>2, <2>3, <2>4, <2>5 DEF TypeOK, ShBindings
<1>3. ASSUME NEW src \in NameOperands, NEW dst \in NameOperands, CopyItem(src, dst)
      PROVE  TypeOK'
  <2>1. src.is \in Names /\ dst.is \in Names
    BY DEF Operand
  <2>2. shAliases' \in [Names -> ShBindings]
    BY <1>3, <2>1, ShMoveTypes DEF CopyItem
  <2>3. aliases' \in [Names -> Bindings] /\ aliasStateUnknown' \in BOOLEAN
    BY <1>3, <2>1, RebindType, UnknownTargetType DEF CopyItem, TypeOK
  <2>4. misled' \subseteq misled \cup { "pathByVariable", "overImmutable" }
    BY <1>3 DEF CopyItem, ByVariable, Overwrites, When
  <2>5. vague' \in BOOLEAN /\ pipeAlias' = {} /\ shPiped' = {}
    BY <1>3 DEF CopyItem, NewPipeline
  <2> QED BY <2>2, <2>3, <2>4, <2>5 DEF TypeOK, ShBindings
<1>4. ASSUME NEW src \in NameOperands, NEW dst \in NameOperands, RenameItem(src, dst)
      PROVE  TypeOK'
  <2>1. src.is \in Names /\ dst.is \in Names
    BY DEF Operand
  <2>2. shAliases' \in [Names -> ShBindings]
    BY <1>4, <2>1, ShMoveTypes DEF RenameItem
  <2>3. aliases' \in [Names -> Bindings] /\ aliasStateUnknown' \in BOOLEAN
    BY <1>4, <2>1, RebindType, RemoveType, UnknownTargetType DEF RenameItem, TypeOK
  <2>4. misled' \subseteq
          misled \cup { "pathByVariable", "overImmutable", "uncoversBuiltIn", "unclearOption",
                        "renameOntoExisting" }
    BY <1>4 DEF RenameItem, ByVariable, Overwrites, Uncovers, Unclear, When
  <2>5. vague' \in BOOLEAN /\ pipeAlias' = {} /\ shPiped' = {}
    BY <1>4 DEF RenameItem, NewPipeline
  <2> QED BY <2>2, <2>3, <2>4, <2>5 DEF TypeOK, ShBindings
<1>5. ASSUME NEW w \in NameOperands, NEW force \in BOOLEAN,
             RemoveItem(w, force) \/ RemoveAlias(w, force)
      PROVE  TypeOK'
  <2>1. w.is \in Names
    BY DEF Operand
  <2>2. shAliases' \in [Names -> ShBindings]
    BY <1>5, <2>1, ShMoveTypes DEF RemoveItem, RemoveAlias
  <2>3. aliases' \in [Names -> Bindings]
    BY <1>5, <2>1, RemoveType DEF RemoveItem, RemoveAlias, TypeOK
  <2>6. aliasStateUnknown' \in BOOLEAN
    BY <1>5 DEF RemoveItem, RemoveAlias, TypeOK
  <2>4. misled' \subseteq
          misled \cup { "pathByVariable", "uncoversBuiltIn", "unclearOption", "readOnlyBuiltIn" }
    BY <1>5 DEF RemoveItem, RemoveAlias, RemovalMisleads, ByVariable, Uncovers, Unclear,
                ReadOnlyBuiltIn, When
  <2>5. vague' \in BOOLEAN /\ pipeAlias' = {} /\ shPiped' = {}
    BY <1>5 DEF RemoveItem, RemoveAlias, NewPipeline, TypeOK
  <2> QED BY <2>2, <2>3, <2>4, <2>5, <2>6 DEF TypeOK, ShBindings
<1>6. CASE RemoveMany
  BY <1>6 DEF RemoveMany, NewPipeline, TypeOK
<1>7. CASE ImportAlias
  <2>1. PICK n \in Names, t \in Names : shAliases' = ShWrite(n, Binding(t, "none"), TRUE, FALSE)
    BY <1>7 DEF ImportAlias
  <2>2. Binding(t, "none") \in [target : Names, option : Options]
    BY DEF Binding, Options
  <2>3. shAliases' \in [Names -> ShBindings]
    BY <2>1, <2>2, ShWriteType
  <2> QED BY <1>7, <2>3 DEF ImportAlias, NewPipeline, TypeOK, ShBindings
<1>8. ASSUME NEW w \in NameOperands, NEW byPath \in BOOLEAN, EnumerateAliases(w, byPath)
      PROVE  TypeOK'
  BY <1>8 DEF EnumerateAliases, When, TypeOK, Operand
<1>9. ASSUME NEW force \in BOOLEAN, RemovePiped(force) PROVE TypeOK'
  <2>1. PICK w \in pipeAlias : 
          /\ IF w.known
               THEN aliases' = Remove(aliases, w.is, force) /\ UNCHANGED aliasStateUnknown
               ELSE aliasStateUnknown' = TRUE /\ UNCHANGED aliases
          /\ shAliases' = IF w.is \in shPiped THEN ShRemove(w.is, force) ELSE shAliases
          /\ misled' = misled \cup RemovalMisleads(w.is, w.known)
          /\ vague' = (vague \/ ~w.known)
          /\ NewPipeline
    BY <1>9 DEF RemovePiped
  <2>2. w.is \in Names
    BY DEF TypeOK, Operand
  <2>3. shAliases' \in [Names -> ShBindings]
    BY <2>1, <2>2, ShMoveTypes DEF TypeOK, ShBindings
  <2>4. aliases' \in [Names -> Bindings]
    BY <2>1, <2>2, RemoveType DEF TypeOK
  <2>7. aliasStateUnknown' \in BOOLEAN
    BY <2>1 DEF TypeOK
  <2>5. misled' \subseteq misled \cup { "uncoversBuiltIn", "unclearOption", "readOnlyBuiltIn" }
    BY <2>1 DEF RemovalMisleads, Uncovers, Unclear, ReadOnlyBuiltIn, When
  <2>6. vague' \in BOOLEAN /\ pipeAlias' = {} /\ shPiped' = {}
    BY <2>1 DEF NewPipeline
  <2> QED BY <2>3, <2>4, <2>5, <2>6, <2>7 DEF TypeOK, ShBindings
<1>10. CASE UNCHANGED vars
  BY <1>10 DEF vars, TypeOK
<1> QED BY <1>1, <1>2, <1>3, <1>4, <1>5, <1>6, <1>7, <1>8, <1>9, <1>10 DEF Next

\* Every variable stays within its type, whatever the operands.
THEOREM TypeCorrect == Spec => []TypeOK
BY TypeInit, TypeStep, PTL DEF Spec

-----------------------------------------------------------------------------
\* What the two tables hold of a name.
Same(n) == aliases'[n] = aliases[n] /\ shAliases'[n] = shAliases[n]

\* What is known of an entry, and when it yields to a write.
LEMMA EntryFacts ==
  ASSUME TypeOK, NEW n \in Names
  PROVE  /\ aliases[n].option \in Options \cup {"unknown"}
         /\ aliases[n].target \in Names \cup {Opaque, NoAlias}
         /\ shAliases[n].option \in Options
         /\ shAliases[n].target \in Names \cup {NoAlias}
         /\ shAliases[n].target = NoAlias => shAliases[n].option = "none"
<1>1. aliases[n] \in Bindings /\ shAliases[n] \in ShBindings
  BY DEF TypeOK, ShBindings
<1>2. NoAlias \notin Names
  BY NamesAssumption
<1> QED BY <1>1, <1>2 DEF Bindings, ShBindings, Unbound, Binding, Options

LEMMA ReplaceableIs ==
  ASSUME NEW b, NEW force \in BOOLEAN, b.option \in Options \cup {"unknown"}
  PROVE  Replaceable(b, force) <=> b.option = "none" \/ (b.option = "readOnly" /\ force)
<1>1. CASE b.option = "none"     BY <1>1 DEF Replaceable
<1>2. CASE b.option = "constant" BY <1>2 DEF Replaceable
<1>3. CASE b.option = "readOnly" BY <1>3 DEF Replaceable
<1>4. CASE b.option = "unknown"  BY <1>4 DEF Replaceable
<1> QED BY <1>1, <1>2, <1>3, <1>4 DEF Options

LEMMA WritableIs ==
  ASSUME TypeOK, NEW n \in Names, NEW force \in BOOLEAN
  PROVE  ShWritable(n, force) <=>
           shAliases[n].option = "none" \/ (shAliases[n].option = "readOnly" /\ force)
<1>1. CASE shAliases[n].option = "none"     BY <1>1 DEF ShWritable
<1>2. CASE shAliases[n].option = "constant" BY <1>2 DEF ShWritable
<1>3. CASE shAliases[n].option = "readOnly" BY <1>3 DEF ShWritable
<1> QED BY <1>1, <1>2, <1>3, EntryFacts DEF Options

\* A name a command does not touch stays tracked.
LEMMA SameTracks ==
  ASSUME NEW n \in Names, Tracked(n), Same(n)
  PROVE  Tracked(n)' /\ (Justified(n) => Justified(n)')
BY DEF Tracked, Justified, Same, Declared, ShExists

\* A declaration is refused by the frontend when the session refuses it, and
\* binds the same.  p is the option the session gives the alias.
LEMMA DeclareTracks ==
  ASSUME TypeOK, NEW n \in Names, Tracked(n),
         NEW v \in ValueOperands, NEW o \in OptionOperands, NEW p \in Options,
         NEW force \in BOOLEAN, NEW read \in BOOLEAN, NEW new \in BOOLEAN,
         read # force => ~read /\ ~(Declared(n) /\ Immutable(n)),
         o.known /\ ShWritable(n, force) => p = o.is,
         Unclear(n, TRUE) = {}, OnExisting(n, force, new) = {}, ReadOnlyBuiltIn(n) = {},
         aliases'[n] = Declare(aliases, n, v, o, read)[n],
         shAliases'[n] = ShWrite(n, Binding(v.is, p), force, new)[n]
  PROVE  Tracked(n)' /\ (v.known /\ Justified(n) => Justified(n)')
<1>1. /\ v.is \in Names /\ o.is \in Options
      /\ ~(Declared(n) /\ aliases[n].option = "unknown")
      /\ ~(new /\ ~force /\ ShExists(n))
      /\ ~(~Declared(n) /\ n \in BuiltInReadOnly)
  BY NamesAssumption DEF Operand, Unclear, OnExisting, ReadOnlyBuiltIn, When
<1>2. /\ aliases[n] \in Bindings /\ shAliases[n] \in ShBindings
      /\ aliases \in [Names -> Bindings] /\ shAliases \in [Names -> ShBindings]
  BY DEF TypeOK, ShBindings
<1>3. v.is # Opaque /\ v.is # NoAlias /\ Opaque # NoAlias /\ Opaque \notin Names
  BY <1>1, NamesAssumption
<1>4. ASSUME ShWritable(n, force), shAliases'[n] = Binding(v.is, p), aliases'[n] = BoundTo(v, o)
      PROVE  Tracked(n)' /\ (v.known /\ Justified(n) => Justified(n)')
  <2>1. /\ aliases'[n].target = IF v.known THEN v.is ELSE Opaque
        /\ aliases'[n].option = IF o.known THEN o.is ELSE "unknown"
        /\ shAliases'[n].target = v.is /\ shAliases'[n].option = p
    BY <1>4 DEF BoundTo, Binding
  <2>2. aliases'[n].target # NoAlias
    BY <1>1, <1>3, <2>1
  <2>3. aliases'[n].target \in Names => v.known
    BY <1>3, <2>1
  <2>4. aliases'[n].option # "unknown" => o.known
    BY <2>1
  <2> QED BY <1>1, <1>3, <1>4, <2>1, <2>2, <2>3, <2>4 DEF Tracked, Justified, Declared, ShExists
<1>5. CASE ~Declared(n)
  <2>1. ShWritable(n, force)
    <3>1. shAliases[n].option = "none"
      BY <1>1, <1>5 DEF Tracked, BuiltInBinding, Binding
    <3> QED BY <3>1, WritableIs
  <2>2. shAliases'[n] = Binding(v.is, p)
    BY <1>1, <1>2, <2>1 DEF ShWrite
  <2>3. aliases'[n] = BoundTo(v, o)
    BY <1>2, <1>5 DEF Declare, Declared
  <2> QED BY <1>4, <2>1, <2>2, <2>3
<1>6. CASE Declared(n) /\ Replaceable(aliases[n], read)
  <2>1. ShWritable(n, force)
    <3>1. aliases[n].option = "none" \/ (aliases[n].option = "readOnly" /\ read)
      BY <1>6, EntryFacts, ReplaceableIs
    <3>2. shAliases[n].option = aliases[n].option
      BY <1>1, <1>6 DEF Tracked
    <3> QED BY <3>1, <3>2, WritableIs
  <2>2. shAliases'[n] = Binding(v.is, p)
    BY <1>1, <1>2, <2>1 DEF ShWrite
  <2>3. aliases'[n] = BoundTo(v, o)
    BY <1>2, <1>6 DEF Declare
  <2> QED BY <1>4, <2>1, <2>2, <2>3
<1>7. CASE Declared(n) /\ ~Replaceable(aliases[n], read)
  <2>1. ~ShWritable(n, force)
    <3>1. /\ aliases[n].option \in {"constant", "readOnly"}
          /\ aliases[n].option = "readOnly" => ~read
      BY <1>1, <1>7, EntryFacts, ReplaceableIs DEF Options
    <3>2. shAliases[n].option = aliases[n].option
      BY <1>1, <1>7 DEF Tracked
    <3>3. Immutable(n)
      BY <3>1, <3>2 DEF Immutable
    <3>4. read = force
      BY <1>7, <3>3
    <3> QED BY <3>1, <3>2, <3>4, WritableIs
  <2>2. Same(n)
    BY <1>7, <2>1 DEF Same, Declare, ShWrite, Declared
  <2> QED BY <2>2, SameTracks
<1> QED BY <1>5, <1>6, <1>7

\* A removal is refused by the frontend when the session refuses it.
LEMMA RemoveTracks ==
  ASSUME TypeOK, NEW n \in Names, Tracked(n), NEW force \in BOOLEAN,
         RemovalMisleads(n, TRUE) = {},
         aliases'[n] = Remove(aliases, n, force)[n],
         \/ shAliases'[n] = ShRemove(n, force)[n]
         \/ shAliases'[n] = shAliases[n] /\ ~ShExists(n)
  PROVE  Tracked(n)' /\ (Justified(n) => Justified(n)')
<1>1. /\ ~(Declared(n) /\ aliases[n].option = "unknown")
      /\ ~(Declared(n) /\ BuiltIn[n] # NoAlias)
      /\ ~(~Declared(n) /\ n \in BuiltInReadOnly)
  BY DEF RemovalMisleads, Unclear, ReadOnlyBuiltIn, Uncovers, When
<1>2. /\ aliases[n] \in Bindings /\ shAliases[n] \in ShBindings
      /\ aliases \in [Names -> Bindings] /\ shAliases \in [Names -> ShBindings]
  BY DEF TypeOK, ShBindings
<1>3. Opaque # NoAlias /\ NoAlias \notin Names /\ Opaque \notin Names
  BY NamesAssumption
<1>4. n \in BuiltInReadOnly => BuiltIn[n] # NoAlias
  BY NamesAssumption
<1>5. ~ShExists(n) => shAliases[n] = Unbound
  BY <1>2, <1>3 DEF ShExists, ShBindings
<1>6. CASE ~Declared(n) /\ BuiltIn[n] = NoAlias
  <2>1. shAliases[n] = Unbound
    BY <1>4, <1>6 DEF Tracked, BuiltInBinding, Unbound
  <2>2. Same(n)
    BY <1>2, <1>6, <2>1 DEF Same, Remove, ShRemove, Declared
  <2> QED BY <2>2, SameTracks
<1>7. CASE ~Declared(n) /\ BuiltIn[n] # NoAlias
  <2>1. ShWritable(n, force) /\ ShExists(n)
    <3>1. shAliases[n].option = "none" /\ shAliases[n].target = BuiltIn[n]
      BY <1>1, <1>7 DEF Tracked, BuiltInBinding, Binding
    <3> QED BY <1>7, <3>1, WritableIs DEF ShExists
  <2>2. shAliases'[n] = Unbound /\ aliases'[n] = UnknownTarget
    BY <1>2, <1>7, <2>1 DEF Remove, ShRemove, Declared
  <2> QED BY <1>3, <1>7, <2>2
          DEF Tracked, Justified, Declared, ShExists, UnknownTarget, Unbound, Binding
<1>8. CASE Declared(n) /\ Replaceable(aliases[n], force)
  <2>1. ShWritable(n, force)
    <3>1. aliases[n].option = "none" \/ (aliases[n].option = "readOnly" /\ force)
      BY <1>8, EntryFacts, ReplaceableIs
    <3>2. shAliases[n].option = aliases[n].option
      BY <1>1, <1>8 DEF Tracked
    <3> QED BY <3>1, <3>2, WritableIs
  <2>2. shAliases'[n] = Unbound /\ aliases'[n] = Unbound
    BY <1>2, <1>5, <1>8, <2>1 DEF Remove, ShRemove, Declared
  <2>3. BuiltInBinding(n) = Unbound
    BY <1>1, <1>4, <1>8 DEF BuiltInBinding, Unbound
  <2> QED BY <1>3, <2>2, <2>3 DEF Tracked, Justified, Declared, Unbound, Binding
<1>9. CASE Declared(n) /\ ~Replaceable(aliases[n], force)
  <2>1. ~ShWritable(n, force)
    <3>1. ~(aliases[n].option = "none" \/ (aliases[n].option = "readOnly" /\ force))
      BY <1>9, EntryFacts, ReplaceableIs
    <3>2. shAliases[n].option = aliases[n].option
      BY <1>1, <1>9 DEF Tracked
    <3> QED BY <3>1, <3>2, WritableIs
  <2>2. Same(n)
    BY <1>9, <2>1 DEF Same, Remove, ShRemove, Declared
  <2> QED BY <2>2, SameTracks
<1> QED BY <1>6, <1>7, <1>8, <1>9

\* A copy that is followed carries its option along; one that is not is of an
\* alias without one.
LEMMA CopyTracks ==
  ASSUME TypeOK, NEW d \in Names, NEW s \in Names, Tracked(s), NEW followed \in BOOLEAN,
         followed => aliases[s].target \in Names,
         ~Immutable(d), Immutable(s) => followed,
         aliases'[d] = IF followed THEN aliases[s] ELSE UnknownTarget,
         shAliases'[d] = IF ShExists(s) THEN shAliases[s] ELSE shAliases[d]
  PROVE  Tracked(d)' /\ (followed => Justified(d)')
<1>1. Opaque # NoAlias /\ NoAlias \notin Names /\ Opaque \notin Names
  BY NamesAssumption
<1>2. CASE followed
  <2>1. ShExists(s) /\ Declared(s)
    BY <1>1, <1>2 DEF Tracked, ShExists, Declared
  <2> QED BY <1>1, <1>2, <2>1 DEF Tracked, Justified, Declared
<1>3. CASE ~followed
  <2>1. aliases'[d].target = Opaque /\ aliases'[d].option = "none"
    BY <1>3 DEF UnknownTarget, Binding
  <2>2. shAliases'[d].option = "none"
    BY <1>3 DEF Immutable
  <2> QED BY <1>1, <1>3, <2>1, <2>2 DEF Tracked, Justified, Declared
<1> QED BY <1>2, <1>3

\* What a step owes for the two invariants: that it tracks every name it tracked.
LEMMA StepAgrees ==
  ASSUME TablesAgree, DoubtHasCause,
         misled' = {} => misled = {}, vague => vague',
         aliasStateUnknown => aliasStateUnknown',
         misled' = {} /\ aliasStateUnknown' => aliasStateUnknown \/ vague',
         ASSUME NEW n \in Names, misled' = {}, ~aliasStateUnknown', Tracked(n)
         PROVE  Tracked(n)' /\ (~vague' /\ Justified(n) => Justified(n)')
  PROVE  (TablesAgree /\ DoubtHasCause)'
BY DEF TablesAgree, DoubtHasCause

-----------------------------------------------------------------------------
\* The tables agree before the first command.
LEMMA IInvInit == Init => IInv
<1> SUFFICES ASSUME Init PROVE IInv
  OBVIOUS
<1>1. TypeOK
  BY TypeInit
<1>2. NoAlias \notin Names /\ NoAlias # Opaque
  BY NamesAssumption
<1>3. PipelinesAgree
  BY DEF Init, PipelinesAgree
<1>4. ASSUME NEW n \in Names PROVE Tracked(n) /\ Justified(n)
  BY <1>2 DEF Init, Tracked, Justified, Declared, Unbound, Binding
<1> QED BY <1>1, <1>3, <1>4 DEF Init, IInv, TablesAgree, DoubtHasCause

LEMMA DeclareAliasAgrees ==
  ASSUME IInv, NEW w \in NameOperands, NEW v \in ValueOperands, NEW o \in OptionOperands,
         NEW force \in BOOLEAN, NEW new \in BOOLEAN, DeclareAlias(w, v, o, force, new)
  PROVE  (TablesAgree /\ DoubtHasCause)'
<1>1. w.is \in Names /\ w.known \in BOOLEAN /\ v.known \in BOOLEAN /\ o.is \in Options
  BY NamesAssumption DEF Operand
<1>2. ASSUME NEW n \in Names, misled' = {}, ~aliasStateUnknown', Tracked(n)
      PROVE  Tracked(n)' /\ (~vague' /\ Justified(n) => Justified(n)')
  <2>1. /\ w.known /\ Unclear(w.is, TRUE) = {} /\ OnExisting(w.is, force, new) = {}
        /\ ReadOnlyBuiltIn(w.is) = {} /\ (~vague' => v.known)
    BY <1>1, <1>2 DEF DeclareAlias
  <2>2. /\ aliases' = Declare(aliases, w.is, v, o, force)
        /\ shAliases' = ShWrite(w.is, Binding(v.is, o.is), force, new)
    BY <2>1 DEF DeclareAlias
  <2>3. CASE n = w.is
    BY <1>1, <1>2, <2>1, <2>2, <2>3, DeclareTracks DEF IInv
  <2>4. CASE n # w.is
    <3>1. Same(n)
      BY <2>2, <2>4 DEF Same, Declare, ShWrite, IInv, TypeOK
    <3> QED BY <1>2, <3>1, SameTracks
  <2> QED BY <2>3, <2>4
<1>3. misled \subseteq misled' /\ (vague => vague')
      /\ (aliasStateUnknown => aliasStateUnknown')
      /\ (aliasStateUnknown' => aliasStateUnknown \/ vague')
  BY <1>1 DEF DeclareAlias
<1> QED BY <1>2, <1>3, StepAgrees DEF IInv

LEMMA WriteItemAgrees ==
  ASSUME IInv, NEW w \in NameOperands, NEW v \in ValueOperands, NEW o \in OptionOperands,
         NEW force \in BOOLEAN, NEW new \in BOOLEAN, WriteItem(w, v, o, force, new)
  PROVE  (TablesAgree /\ DoubtHasCause)'
<1>1. w.is \in Names /\ w.known \in BOOLEAN /\ v.known \in BOOLEAN /\ o.is \in Options
  BY NamesAssumption DEF Operand
<1>2. ASSUME NEW n \in Names, misled' = {}, ~aliasStateUnknown', Tracked(n)
      PROVE  Tracked(n)' /\ (~vague' /\ Justified(n) => Justified(n)')
  <2> DEFINE p == ShKept(w.is, o)
  <2>1. /\ w.known /\ Unclear(w.is, TRUE) = {} /\ OnExisting(w.is, force, new) = {}
        /\ ReadOnlyBuiltIn(w.is) = {} /\ (~vague' => v.known)
        /\ When(force /\ Declared(w.is) /\ Immutable(w.is), "forceNotRead") = {}
    BY <1>1, <1>2 DEF WriteItem, ByVariable, When
  <2>2. /\ aliases' = Declare(aliases, w.is, v, o, FALSE)
        /\ shAliases' = ShWrite(w.is, Binding(v.is, p), force, new)
    BY <2>1 DEF WriteItem
  <2>3. CASE n = w.is
    <3>1. p \in Options
      BY <1>1, EntryFacts DEF ShKept, IInv
    <3>2. force => ~(Declared(n) /\ Immutable(n))
      BY <2>1, <2>3 DEF When
    <3>3. ShWritable(n, force) => p = o.is
      <4> SUFFICES ASSUME ShWritable(n, force), ShExists(n), o.is = "none"
                   PROVE  shAliases[n].option = "none"
        BY <2>3 DEF ShKept
      <4>1. shAliases[n].option = "none" \/ (shAliases[n].option = "readOnly" /\ force)
        BY WritableIs DEF IInv
      <4>2. CASE Declared(n)
        BY <3>2, <4>1, <4>2 DEF Immutable
      <4>3. CASE ~Declared(n)
        BY <1>2, <2>1, <2>3, <4>3 DEF Tracked, ReadOnlyBuiltIn, When, BuiltInBinding, Binding
      <4> QED BY <4>2, <4>3
    <3> HIDE DEF p
    <3> QED BY <1>2, <2>1, <2>2, <2>3, <3>1, <3>2, <3>3, DeclareTracks DEF IInv
  <2>4. CASE n # w.is
    <3>1. Same(n)
      BY <2>2, <2>4 DEF Same, Declare, ShWrite, IInv, TypeOK
    <3> QED BY <1>2, <3>1, SameTracks
  <2> QED BY <2>3, <2>4
<1>3. misled \subseteq misled' /\ (vague => vague') /\ aliasStateUnknown' = aliasStateUnknown
  BY DEF WriteItem
<1> QED BY <1>2, <1>3, StepAgrees DEF IInv

LEMMA CopyItemAgrees ==
  ASSUME IInv, NEW src \in NameOperands, NEW dst \in NameOperands, CopyItem(src, dst)
  PROVE  (TablesAgree /\ DoubtHasCause)'
<1>1. /\ src.is \in Names /\ dst.is \in Names
      /\ src.known \in BOOLEAN /\ dst.known \in BOOLEAN
  BY NamesAssumption DEF Operand
<1>2. ASSUME NEW n \in Names, misled' = {}, ~aliasStateUnknown', Tracked(n)
      PROVE  Tracked(n)' /\ (~vague' /\ Justified(n) => Justified(n)')
  <2>1. /\ dst.known /\ ~Immutable(dst.is) /\ (Immutable(src.is) => Followed(src))
        /\ (~vague' => Followed(src)) /\ misled = {} /\ ~aliasStateUnknown
    BY <1>1, <1>2 DEF CopyItem, ByVariable, Overwrites, When
  <2>2. /\ aliases' = [aliases EXCEPT ![dst.is] =
                         IF Followed(src) THEN aliases[src.is] ELSE UnknownTarget]
        /\ shAliases' = [shAliases EXCEPT ![dst.is] =
                         IF ShExists(src.is) THEN shAliases[src.is] ELSE @]
    <3>1. ShWritable(dst.is, FALSE)
      BY <1>1, <2>1, WritableIs DEF IInv, Immutable
    <3>2. shAliases \in [Names -> ShBindings]
      BY DEF IInv, TypeOK, ShBindings
    <3> QED BY <1>1, <2>1, <3>1, <3>2 DEF CopyItem, Rebind, Followed, ShCopy
  <2>3. CASE n = dst.is
    <3>1. Tracked(src.is)
      BY <1>1, <2>1 DEF IInv, TablesAgree
    <3>2. Followed(src) \in BOOLEAN /\ (Followed(src) => aliases[src.is].target \in Names)
      BY <1>1 DEF Followed
    <3>3. /\ aliases'[n] = IF Followed(src) THEN aliases[src.is] ELSE UnknownTarget
          /\ shAliases'[n] = IF ShExists(src.is) THEN shAliases[src.is] ELSE shAliases[n]
      BY <2>2, <2>3 DEF IInv, TypeOK
    <3> QED BY <1>1, <2>1, <2>3, <3>1, <3>2, <3>3, CopyTracks DEF IInv
  <2>4. CASE n # dst.is
    <3>1. Same(n)
      BY <2>2, <2>4 DEF Same, IInv, TypeOK
    <3> QED BY <1>2, <3>1, SameTracks
  <2> QED BY <2>3, <2>4
<1>3. misled \subseteq misled' /\ (vague => vague') /\ aliasStateUnknown' = aliasStateUnknown
  BY DEF CopyItem
<1> QED BY <1>2, <1>3, StepAgrees DEF IInv

LEMMA RenameItemAgrees ==
  ASSUME IInv, NEW src \in NameOperands, NEW dst \in NameOperands, RenameItem(src, dst)
  PROVE  (TablesAgree /\ DoubtHasCause)'
<1> DEFINE s == src.is
           d == dst.is
<1>1. /\ s \in Names /\ d \in Names
      /\ src.known \in BOOLEAN /\ dst.known \in BOOLEAN
  BY NamesAssumption DEF Operand
<1>2. ASSUME NEW n \in Names, misled' = {}, ~aliasStateUnknown', Tracked(n)
      PROVE  Tracked(n)' /\ (~vague' /\ Justified(n) => Justified(n)')
  <2>1. /\ src.known /\ dst.known /\ ~ShExists(d)
        /\ ~Immutable(d) /\ (Immutable(s) => Followed(src)) /\ (~vague' => Followed(src))
        /\ Uncovers(s) = {} /\ Unclear(s, TRUE) = {} /\ misled = {} /\ ~aliasStateUnknown
    BY <1>1, <1>2 DEF RenameItem, ByVariable, Overwrites, When
  <2>2. Tracked(s)
    BY <1>1, <2>1 DEF IInv, TablesAgree
  <2>3. aliases \in [Names -> Bindings] /\ shAliases \in [Names -> ShBindings]
    BY DEF IInv, TypeOK, ShBindings
  <2> DEFINE copied == [aliases EXCEPT ![d] =
                          IF Followed(src) THEN aliases[s] ELSE UnknownTarget]
  <2>4. aliases' = Remove(copied, s, FALSE)
    <3>1. Rebind(aliases, d, s) = copied
      BY <1>1, <2>1, <2>3 DEF Rebind, Followed
    <3> QED BY <2>1, <3>1 DEF RenameItem
  <2>5. shAliases' = IF ShExists(s)
                       THEN [shAliases EXCEPT ![d] = shAliases[s],
                               ![s] = IF ShWritable(s, FALSE) THEN Unbound ELSE @]
                       ELSE shAliases
    BY <1>1, <2>1 DEF RenameItem, ShRename
  <2>6. ~Followed(src) \/ ShExists(s)
    BY <1>1, <2>2, NamesAssumption DEF Followed, Tracked, ShExists
  <2>7. RemovalMisleads(s, TRUE) = {}
    <3>1. ~(~Declared(s) /\ s \in BuiltInReadOnly)
      <4> SUFFICES ASSUME ~Declared(s), s \in BuiltInReadOnly PROVE FALSE
        OBVIOUS
      <4>1. shAliases[s].option = "readOnly"
        BY <2>2 DEF Tracked, BuiltInBinding, Binding
      <4>2. aliases[s].target \in Names
        BY <2>1, <4>1 DEF Immutable, Followed
      <4> QED BY <4>2, NamesAssumption DEF Declared
    <3> QED BY <2>1, <3>1 DEF RemovalMisleads, ReadOnlyBuiltIn, When
  <2>8. CASE s = d
    <3>1. Same(n) \/ n = s
      BY <2>1, <2>3, <2>4, <2>5, <2>8 DEF Same, Remove
    <3>2. CASE n = s
      <4>1. ~Followed(src) /\ shAliases' = shAliases
        BY <2>1, <2>5, <2>6, <2>8
      <4>2. copied[s] = UnknownTarget
        BY <1>1, <2>3, <2>8, <4>1
      <4>3. Replaceable(copied[s], FALSE)
        BY <4>2, ReplaceableIs DEF UnknownTarget, Binding, Options
      <4>4. aliases'[s] = Unbound
        BY <1>1, <2>3, <2>4, <4>2, <4>3, NamesAssumption DEF Remove, UnknownTarget, Unbound, Binding
      <4>5. shAliases[s] = Unbound
        <5>1. shAliases[s] \in ShBindings /\ shAliases[s].target = NoAlias
          BY <1>1, <2>1, <2>3, <2>8 DEF ShExists
        <5> QED BY <5>1, NamesAssumption DEF ShBindings
      <4>6. BuiltInBinding(s) = Unbound
        <5>1. CASE ~Declared(s)
          BY <2>2, <4>5, <5>1 DEF Tracked
        <5>2. CASE Declared(s)
          <6>1. BuiltIn[s] = NoAlias
            BY <2>1, <5>2 DEF Uncovers, When
          <6> QED BY <1>1, <6>1, NamesAssumption DEF BuiltInBinding, Unbound
        <5> QED BY <5>1, <5>2
      <4> QED BY <3>2, <4>1, <4>4, <4>5, <4>6, NamesAssumption
              DEF Tracked, Justified, Declared, Unbound, Binding
    <3> QED BY <1>2, <3>1, <3>2, SameTracks
  <2>9. CASE s # d
    <3>1. CASE n = d
      <4>1. aliases'[d] = IF Followed(src) THEN aliases[s] ELSE UnknownTarget
        BY <1>1, <2>3, <2>4, <2>9 DEF Remove
      <4>2. shAliases'[d] = IF ShExists(s) THEN shAliases[s] ELSE shAliases[d]
        BY <1>1, <2>3, <2>5, <2>9
      <4>3. Followed(src) \in BOOLEAN /\ (Followed(src) => aliases[s].target \in Names)
        BY <1>1 DEF Followed
      <4> HIDE DEF s, d
      <4> QED BY <1>1, <2>1, <2>2, <3>1, <4>1, <4>2, <4>3, CopyTracks DEF IInv
    <3>2. CASE n = s
      <4>1. aliases'[s] = Remove(aliases, s, FALSE)[s]
        BY <1>1, <2>3, <2>4, <2>9 DEF Remove
      <4>2. \/ shAliases'[s] = ShRemove(s, FALSE)[s]
            \/ shAliases'[s] = shAliases[s] /\ ~ShExists(s)
        BY <1>1, <2>3, <2>5, <2>9 DEF ShRemove
      <4> HIDE DEF s, d
      <4> QED BY <1>2, <2>7, <3>2, <4>1, <4>2, RemoveTracks DEF IInv
    <3>3. CASE n # s /\ n # d
      <4>1. Same(n)
        BY <2>3, <2>4, <2>5, <3>3 DEF Same, Remove
      <4> QED BY <1>2, <4>1, SameTracks
    <3> QED BY <3>1, <3>2, <3>3
  <2> QED BY <2>8, <2>9
<1>3. misled \subseteq misled' /\ (vague => vague') /\ aliasStateUnknown' = aliasStateUnknown
  BY DEF RenameItem
<1> QED BY <1>2, <1>3, StepAgrees DEF IInv

LEMMA RemoveItemAgrees ==
  ASSUME IInv, NEW w \in NameOperands, NEW force \in BOOLEAN,
         RemoveItem(w, force) \/ RemoveAlias(w, force)
  PROVE  (TablesAgree /\ DoubtHasCause)'
<1>1. w.is \in Names /\ w.known \in BOOLEAN
  BY NamesAssumption DEF Operand
<1>2. ASSUME NEW n \in Names, misled' = {}, ~aliasStateUnknown', Tracked(n)
      PROVE  Tracked(n)' /\ (~vague' /\ Justified(n) => Justified(n)')
  <2>1. w.known
    BY <1>1, <1>2 DEF RemoveItem, RemoveAlias, ByVariable, When
  <2>2. /\ RemovalMisleads(w.is, TRUE) = {}
        /\ aliases' = Remove(aliases, w.is, force)
        /\ shAliases' = ShRemove(w.is, force)
    BY <1>1, <1>2, <2>1 DEF RemoveItem, RemoveAlias
  <2>3. CASE n = w.is
    BY <1>1, <1>2, <2>2, <2>3, RemoveTracks DEF IInv
  <2>4. CASE n # w.is
    <3>1. Same(n)
      BY <2>2, <2>4 DEF Same, Remove, ShRemove, IInv, TypeOK
    <3> QED BY <1>2, <3>1, SameTracks
  <2> QED BY <2>3, <2>4
<1>3. misled \subseteq misled' /\ (vague => vague')
      /\ (aliasStateUnknown => aliasStateUnknown')
      /\ (aliasStateUnknown' => aliasStateUnknown \/ vague')
  <2>1. CASE RemoveItem(w, force)
    BY <2>1 DEF RemoveItem
  <2>2. CASE RemoveAlias(w, force)
    BY <1>1, <2>2 DEF RemoveAlias
  <2> QED BY <2>1, <2>2
<1> QED BY <1>2, <1>3, StepAgrees DEF IInv

LEMMA RemovePipedAgrees ==
  ASSUME IInv, NEW force \in BOOLEAN, RemovePiped(force)
  PROVE  (TablesAgree /\ DoubtHasCause)'
<1>1. PICK w \in pipeAlias :
        /\ IF w.known
             THEN aliases' = Remove(aliases, w.is, force) /\ UNCHANGED aliasStateUnknown
             ELSE aliasStateUnknown' = TRUE /\ UNCHANGED aliases
        /\ shAliases' = IF w.is \in shPiped THEN ShRemove(w.is, force) ELSE shAliases
        /\ misled' = misled \cup RemovalMisleads(w.is, w.known)
        /\ vague' = (vague \/ ~w.known)
        /\ NewPipeline
  BY DEF RemovePiped
<1>2. w.is \in Names /\ w.known \in BOOLEAN
  BY NamesAssumption DEF Operand, IInv, TypeOK
<1>3. w.is \in shPiped \/ ~ShExists(w.is)
  BY DEF IInv, PipelinesAgree
<1>4. ASSUME NEW n \in Names, misled' = {}, ~aliasStateUnknown', Tracked(n)
      PROVE  Tracked(n)' /\ (~vague' /\ Justified(n) => Justified(n)')
  <2>1. /\ RemovalMisleads(w.is, TRUE) = {}
        /\ aliases' = Remove(aliases, w.is, force)
    BY <1>1, <1>2, <1>4
  <2>2. shAliases' = ShRemove(w.is, force) \/ (shAliases' = shAliases /\ ~ShExists(w.is))
    BY <1>1, <1>3
  <2>3. CASE n = w.is
    BY <1>2, <1>4, <2>1, <2>2, <2>3, RemoveTracks DEF IInv
  <2>4. CASE n # w.is
    <3>1. Same(n)
      BY <2>1, <2>2, <2>4 DEF Same, Remove, ShRemove, IInv, TypeOK
    <3> QED BY <1>4, <3>1, SameTracks
  <2> QED BY <2>3, <2>4
<1>5. misled \subseteq misled' /\ (vague => vague')
      /\ (aliasStateUnknown => aliasStateUnknown')
      /\ (aliasStateUnknown' => aliasStateUnknown \/ vague')
  BY <1>1, <1>2
<1> QED BY <1>4, <1>5, StepAgrees DEF IInv

LEMMA IInvStep == IInv /\ [Next]_vars => IInv'
<1> SUFFICES ASSUME IInv, [Next]_vars PROVE IInv'
  OBVIOUS
<1>1. TypeOK'
  BY TypeStep DEF IInv
<1>2. PipelinesAgree'
  <2>1. ASSUME NEW w \in NameOperands, NEW byPath \in BOOLEAN, EnumerateAliases(w, byPath)
      PROVE  PipelinesAgree'
    BY <2>1 DEF EnumerateAliases, PipelinesAgree, ShExists
  <2>2. CASE UNCHANGED vars
    BY <2>2 DEF vars, PipelinesAgree, ShExists, IInv
  <2>3. CASE pipeAlias' = {}
    BY <2>3 DEF PipelinesAgree
  <2>4. ASSUME NEW w \in NameOperands, NEW v \in ValueOperands, NEW o \in OptionOperands,
               NEW force \in BOOLEAN, NEW new \in BOOLEAN,
               DeclareAlias(w, v, o, force, new) \/ WriteItem(w, v, o, force, new)
        PROVE  pipeAlias' = {}
    BY <2>4 DEF DeclareAlias, WriteItem, NewPipeline
  <2>5. ASSUME NEW src \in NameOperands, NEW dst \in NameOperands,
               CopyItem(src, dst) \/ RenameItem(src, dst)
        PROVE  pipeAlias' = {}
    BY <2>5 DEF CopyItem, RenameItem, NewPipeline
  <2>6. ASSUME NEW w \in NameOperands, NEW force \in BOOLEAN,
               RemoveItem(w, force) \/ RemoveAlias(w, force)
        PROVE  pipeAlias' = {}
    BY <2>6 DEF RemoveItem, RemoveAlias, NewPipeline
  <2>7. ASSUME RemoveMany \/ ImportAlias \/ \E force \in BOOLEAN : RemovePiped(force)
        PROVE  pipeAlias' = {}
    BY <2>7 DEF RemoveMany, ImportAlias, RemovePiped, NewPipeline
  <2> QED BY <2>1, <2>2, <2>3, <2>4, <2>5, <2>6, <2>7 DEF Next
<1>3. (TablesAgree /\ DoubtHasCause)'
  <2>1. CASE RemoveMany \/ ImportAlias
    BY <2>1 DEF RemoveMany, ImportAlias, TablesAgree, DoubtHasCause
  <2>2. ASSUME NEW w \in NameOperands, NEW byPath \in BOOLEAN, EnumerateAliases(w, byPath)
        PROVE  (TablesAgree /\ DoubtHasCause)'
    BY <2>2 DEF EnumerateAliases, When, IInv, TablesAgree, DoubtHasCause, Tracked, Justified, Declared,
                ShExists
  <2>3. CASE UNCHANGED vars
    BY <2>3 DEF vars, IInv, TablesAgree, DoubtHasCause, Tracked, Justified, Declared, ShExists
  <2> QED BY <2>1, <2>2, <2>3, DeclareAliasAgrees, WriteItemAgrees, CopyItemAgrees,
             RenameItemAgrees, RemoveItemAgrees, RemovePipedAgrees DEF Next
<1> QED BY <1>1, <1>2, <1>3 DEF IInv

\* The frontend's table and the session's agree on every name, until a command
\* is one of the differences or leaves the alias state unknown: refused
\* declarations, copies, renamings and piped removals included.
THEOREM TablesStayInAgreement == Spec => []TablesAgree
<1>1. IInv => TablesAgree
  BY DEF IInv
<1> QED BY <1>1, IInvInit, IInvStep, PTL DEF Spec

\* What the report says of a call is what the session runs: resolve never
\* names a cmdlet other than the one a rebound name stands for.
THEOREM NamesAreFaithful == Spec => []CallsAreFaithful
<1>1. IInv => CallsAreFaithful
  <2> SUFFICES ASSUME IInv, misled = {}, ~Chained, NEW n \in Names, Reported(n) # Opaque,
                      NEW f \in Resolutions
               PROVE  f[n] = Reported(n)
    BY DEF CallsAreFaithful
  <2>1. /\ Resolved(n) \in Cmdlets /\ Reported(n) = Resolved(n) /\ Tracked(n)
    BY DEF Reported, IInv, TablesAgree
  <2>2. Resolved(n) \in Names /\ NoAlias \notin Names /\ NoAlias \notin Cmdlets
    BY <2>1, NamesAssumption
  <2>3. \A m \in Names : f[m] = IF ShFinal(m) THEN m ELSE f[shAliases[m].target]
    BY DEF Resolutions
  <2>4. CASE ShExists(n)
    <3>1. shAliases[n].target = Resolved(n)
      BY <2>1, <2>2, <2>4 DEF Resolved, Tracked, Declared, BuiltInBinding, Binding, ShExists
    <3>2. CASE ShFinal(n)
      BY <2>1, <2>3, <2>4, <3>1, <3>2 DEF ShFinal
    <3>3. CASE ~ShFinal(n)
      <4>1. ShFinal(Resolved(n))
        BY <2>1, <3>1, <3>3 DEF Chained
      <4> QED BY <2>1, <2>2, <2>3, <3>1, <3>3, <4>1
    <3> QED BY <3>2, <3>3
  <2>5. CASE ~ShExists(n)
    <3>1. ~Declared(n) /\ BuiltIn[n] = NoAlias
      BY <2>1, <2>2, <2>5 DEF Resolved, Tracked, Declared, BuiltInBinding, Binding, ShExists
    <3>2. Resolved(n) = n
      BY <3>1 DEF Resolved, Declared
    <3> QED BY <2>1, <2>3, <2>5, <3>2 DEF ShFinal
  <2> QED BY <2>4, <2>5
<1> QED BY <1>1, IInvInit, IInvStep, PTL DEF Spec

\* The report does not say "anything may run" of a call whose command every
\* binding determined.
THEOREM DoubtIsNeeded == Spec => []NoNeedlessDoubt
<1>1. IInv => NoNeedlessDoubt
  <2> SUFFICES ASSUME IInv, misled = {}, ~vague, ~Indirect, NEW n \in Names,
                      NEW f \in Resolutions, f[n] \in Cmdlets \ Functions
               PROVE  Reported(n) = f[n]
    BY DEF NoNeedlessDoubt
  <2>1. ~aliasStateUnknown /\ Justified(n) /\ Tracked(n)
    BY DEF IInv, DoubtHasCause, TablesAgree
  <2>2. \A m \in Names : f[m] = IF ShFinal(m) THEN m ELSE f[shAliases[m].target]
    BY DEF Resolutions
  <2>3. /\ NoAlias \notin Names /\ aliases[n].target \in Names \cup {Opaque, NoAlias}
        /\ shAliases[n].target \in Names \cup {NoAlias}
    BY NamesAssumption, EntryFacts DEF IInv
  <2>4. Resolved(n) = f[n]
    <3>1. CASE ShExists(n)
      <4>1. aliases[n].target # Opaque
        BY <2>1, <3>1 DEF Justified
      <4>2. Resolved(n) = shAliases[n].target
        BY <2>1, <2>3, <3>1, <4>1
           DEF Resolved, Tracked, Declared, BuiltInBinding, Binding, ShExists
      <4>3. ShFinal(shAliases[n].target) /\ shAliases[n].target \in Names
        BY <2>3, <3>1 DEF Indirect, ShExists
      <4>4. f[n] = shAliases[n].target
        BY <2>2, <3>1, <4>3 DEF ShFinal
      <4> QED BY <4>2, <4>4
    <3>2. CASE ~ShExists(n)
      <4>1. f[n] = n
        BY <2>2, <3>2 DEF ShFinal
      <4>2. BuiltIn[n] = NoAlias
        BY <4>1, NamesAssumption
      <4>3. aliases[n].target = NoAlias
        BY <2>1, <2>3, <3>2, <4>2 DEF Justified, Tracked, ShExists
      <4> QED BY <4>1, <4>2, <4>3 DEF Resolved
    <3> QED BY <3>1, <3>2
  <2> QED BY <2>1, <2>4 DEF Reported
<1> QED BY <1>1, IInvInit, IInvStep, PTL DEF Spec
=============================================================================
