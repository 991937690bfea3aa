---------------------------- MODULE MCChainHead ----------------------------
(***************************************************************************)
(* A block tree on which TLC checks ChainHead.                             *)
(***************************************************************************)
EXTENDS ChainHead

CONSTANTS g, a1, b1, a2, b2, t2, a3, b3, a4, b4, c1, c2

Block(id, hash, height, prev, signers) ==
    [id |-> id, hash |-> hash, height |-> height, prev |-> prev,
     signers |-> signers]

(* The seeds fork at height 1, two come before their parents, t2 is b2     *)
(* with other transactions, and the seventh confirms a block, so that the  *)
(* last one, whose parent is unknown, is not taken; the network brings     *)
(* more of the other branch.                                               *)
SeedTree ==
    << Block(a1, a1, 1, g, 1), Block(b3, b3, 3, b2, 1), Block(b2, b2, 2, b1, 1),
       Block(b2, t2, 2, b1, 1), Block(b1, b1, 1, g, 1), Block(a2, a2, 2, a1, 0),
       Block(b4, b4, 4, b3, 1), Block(c2, c2, 2, c1, 1) >>

TwoBranches ==
    Range(SeedTree) \cup { Block(a3, a3, 3, a2, 2), Block(a4, a4, 4, a3, 1) }

=============================================================================
