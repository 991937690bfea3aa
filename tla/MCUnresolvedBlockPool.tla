----------------------- MODULE MCUnresolvedBlockPool -----------------------
(***************************************************************************)
(* Block trees on which TLC checks UnresolvedBlockPool.                    *)
(***************************************************************************)
EXTENDS UnresolvedBlockPool

CONSTANTS g, a1, b1, a2, b2, a3, c3, a4

Block(id, hash, height, prev, signers) ==
    [id |-> id, hash |-> hash, height |-> height, prev |-> prev,
     signers |-> signers]

(* Two branches from the genesis block; a2 exists twice, with the same id  *)
(* and different transactions; c3 names a parent two heights below it.     *)
ForkedBlocks ==
    { Block(a1, "a1", 1, g, 1), Block(b1, "b1", 1, g, 2),
      Block(a2, "a2", 2, a1, 1), Block(a2, "a2'", 2, a1, 2),
      Block(b2, "b2", 2, b1, 0), Block(a3, "a3", 3, a2, 1),
      Block(c3, "c3", 3, a1, 1), Block(a4, "a4", 4, a3, 1) }

(* Two branches whose weights depend on which blocks, and which of the two *)
(* blocks called a2, have arrived; a block of height 3 or 4 may confirm.   *)
WeighedBlocks ==
    { Block(a1, "a1", 1, g, 1), Block(b1, "b1", 1, g, 2),
      Block(a2, "a2", 2, a1, 1), Block(a2, "a2'", 2, a1, 0),
      Block(b2, "b2", 2, b1, 0), Block(a3, "a3", 3, a2, 2) }

=============================================================================
