-------------------------- MODULE MCSecretAbsorbed --------------------------
(***************************************************************************)
(* The programs kept out of MCSecretFlow for a read whose file is not      *)
(* known: the credential is sent by one statement, and another reads the   *)
(* unknown file, before it or after it.                                    *)
(***************************************************************************)
EXTENDS MCSecretFlow

Sent ==
  { S(Pipe(<< S(Cat(key)), S(PostIn) >>)), S(Put(key)), S(Form(key)), S(Post(Of(Cat(key)))),
    With(PostIn, << InFrom(key) >>), S(Cp(key, remote)) }

Absorbed == { << s, S(Cat(unknown)) >> : s \in Sent } \cup { << S(Cat(unknown)), s >> : s \in Sent }

AbsorbedStatements == WithParts(WithParts(Sent \cup {S(Cat(unknown))}))
=============================================================================
