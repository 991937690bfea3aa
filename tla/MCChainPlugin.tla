--------------------------- MODULE MCChainPlugin ---------------------------
(***************************************************************************)
(* Seeds and later blocks on which TLC checks ChainPlugin.                 *)
(***************************************************************************)
EXTENDS ChainPlugin

CONSTANTS g, a1, a2, a3, a4, x0, x1, ledgers, certs

Block(id, hash, height, prev, signers) ==
    [id |-> id, hash |-> hash, height |-> height, prev |-> prev,
     signers |-> signers]

S1 == Block(a1, "a1", 1, g, 1)
S2 == Block(a2, "a2", 2, a1, 1)
A3 == Block(a3, "a3", 3, a2, 1)

SeedChain == <<S1, S2>>

(* The second seed confirms the first.  Two blocks follow, the first in    *)
(* two versions that share an id; the second confirms the last seed, after *)
(* which the list names no seed any more.                                  *)
SeedsAndChain ==
    {S1, S2, A3, Block(a3, "a3'", 3, a2, 2), Block(a4, "a4", 4, a3, 1)}

(* The second seed belongs to another chain: start() gives up there, and   *)
(* the third one comes from the network, where it is backed up.            *)
BrokenSeedChain == <<S1, Block(x1, "x1", 1, x0, 1), S2>>

SeedsAndSuccessor == Range(BrokenSeedChain) \cup {A3}

TwoStores == <<ledgers, certs>>

=============================================================================
