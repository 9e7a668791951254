----------------------------- MODULE MCAppEdit -----------------------------
(* AppEdit for TLC: command lines over two variables, of which one is      *)
(* contended by a plain and by a secret edit.                              *)
EXTENDS AppEditRefinement, TLC

CONSTANTS a, b, v1, i1, i2

NoEnv == [n \in Names |-> Absent]
Line(kind, set, remove, image, dry) ==
  [kind |-> kind, set |-> set @@ NoEnv, remove |-> remove, image |-> image, dryRun |-> dry]

SetA    == Line("env", a :> v1, {}, i1, FALSE)
SetB    == Line("env", b :> v1, {}, i1, FALSE)
DropB   == Line("env", a :> v1, {b}, i1, FALSE)
DryA    == Line("env", a :> v1, {}, i1, TRUE)
DrySecretA == Line("secret", a :> v1, {}, i1, TRUE)
SecretA == Line("secret", a :> v1, {}, i1, FALSE)
SecretB == Line("secret", b :> v1, {}, i1, FALSE)
ImageI2 == Line("image", NoEnv, {}, i2, FALSE)

MCCommands == {SetA, DropB, DryA, DrySecretA, SecretA, SecretB, ImageI2}
MCEnvCommands == {SetA, SetB}
=============================================================================
