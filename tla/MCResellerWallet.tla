-------------------------- MODULE MCResellerWallet --------------------------
EXTENDS ResellerWallet, TLC

CONSTANTS r1, k1, k2

OneOwner == [c \in Clients |-> r1]
MCRefs == {"PURCHASE", "REFUND", "ADJUST"} \X (Clients \union {NoClient})
OwnerMoves == {-3, 4}
Symmetry == Permutations(Procs) \union Permutations(Clients)
=============================================================================
