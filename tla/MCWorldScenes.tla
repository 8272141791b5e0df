--------------------------- MODULE MCWorldScenes ---------------------------
(***************************************************************************)
(* Small worlds for TLC.  Scene b stands on the parcels of a and of c, so   *)
(* that deployments can replace no, one or two scenes.                      *)
(***************************************************************************)
EXTENDS WorldScenes, TLC

CONSTANTS a, b, c, t1, t2

P00 == <<0, 0>>
P12 == <<1, 2>>

TwoParcels == {P00, P12}
TwoScenes == a :> {P00} @@ b :> {P00, P12}
TwoBases == a :> P00 @@ b :> P12

CrossScenes == a :> {P00} @@ b :> {P00, P12} @@ c :> {P12}
CrossBases == a :> P00 @@ b :> P12 @@ c :> P12

EveryKind == AllKinds

TxnSymmetry == Permutations({t1, t2})

=============================================================================
