--------------------------- MODULE MCDeployments ---------------------------
(***************************************************************************)
(* Two scenes that share a content file, which a client may send or rely on *)
(* finding in the storage.                                                  *)
(***************************************************************************)
EXTENDS Deployments, TLC

CONSTANTS d1, d2, a, b, h1, h2, authA, authB

TwoContents == a :> {h1} @@ b :> {h1}
TwoAuths == a :> authA @@ b :> authB

OneContent == a :> {h1, h2}
OneAuth == a :> authA

=============================================================================
