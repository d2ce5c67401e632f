----------------------------- MODULE MCPsAliases -----------------------------
(***************************************************************************)
(* Four names: a built-in alias, a name that is nothing, and two cmdlets,  *)
(* one of which scripts also declare as an alias.                          *)
(***************************************************************************)
EXTENDS PsAliases

MCNames   == {"cat", "word", "get-content", "remove-item"}
MCCmdlets == {"get-content", "remove-item"}
MCBuiltIn == [n \in MCNames |-> IF n = "cat" THEN "get-content" ELSE NoAlias]

Literal(x)  == [is |-> x, known |-> TRUE]
Variable(x) == [is |-> x, known |-> FALSE]

MCNameOperands   == { Literal("cat"), Literal("word"), Literal("get-content"), Variable("cat") }
MCValueOperands  == { Literal("remove-item"), Literal("cat"), Variable("remove-item") }
MCOptionOperands == { Literal(o) : o \in Options } \cup { Variable("constant") }

\* Nothing more is claimed once the frontend gave up or was misled.
Claimed == misled = {} /\ ~aliasStateUnknown
=============================================================================
