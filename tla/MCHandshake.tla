---------------------------- MODULE MCHandshake ----------------------------
EXTENDS Handshake, TLC
CONSTANTS r1, r2
RequestSymmetry == Permutations(Requests)
\* The secret of the world is s1, or one that nobody tells.
MCTells == [x \in Wallets |-> "s1"]
=============================================================================
