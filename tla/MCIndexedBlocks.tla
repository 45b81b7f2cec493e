----------------------------- MODULE MCIndexedBlocks ---------------------------
(* Two wallets and at most three logs in two blocks.                      *)
EXTENDS IndexedBlocks, TLC

CONSTANTS w1, w2, ohm, dai

Symmetric == Permutations(Wallet) \cup Permutations(PoolToken)
=============================================================================
