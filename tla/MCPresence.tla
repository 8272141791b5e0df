----------------------------- MODULE MCPresence -----------------------------
(* A peer, a world whose access changes and one that the peer may move to.  *)
EXTENDS Presence, TLC

CONSTANTS p1, o, w1, w2, c1, s1, r1, r2

MCPeers == {p1}
MCWorlds == {w1, w2}
MCOwner(w) == o
MCJoinable == {CommsRoom(w1), CommsRoom(w2)}
MCKnows == {}
AllowList(ws, cs) == [type |-> "allow-list", wallets |-> ws, communities |-> cs, secret |-> Nothing]
MCSettings == {defaultAccess, AllowList({}, {c1})}
MCSymmetry == Permutations({r1, r2})
MCOps == {"set", "addWallet", "removeCommunity"}
=============================================================================
