--------------------------- MODULE ConfirmedChain ---------------------------
(***************************************************************************)
(* What a merger promises about its confirmed chain, and nothing else: the *)
(* confirmed tip starts at the genesis block and only ever moves to a      *)
(* block of the next height that names the present tip as its parent.  No  *)
(* reorganisation, no gap and no step back.  UnresolvedBlockPool is shown  *)
(* to implement it.                                                        *)
(***************************************************************************)
EXTENDS Naturals

CONSTANTS
    Blocks,     \* the blocks that can exist: records with id, height and prev
    GenesisId   \* the id every chain starts from

VARIABLE tip    \* the confirmed block: its id, its height, its parent's id

GenesisTip == [id |-> GenesisId, height |-> 0, prev |-> GenesisId]

ChainInit == tip = GenesisTip

(* The tip moves to b, a child of the tip.                                 *)
Extend(b) ==
    /\ b.prev = tip.id
    /\ b.height = tip.height + 1
    /\ tip' = [id |-> b.id, height |-> b.height, prev |-> tip.id]

ChainNext == \E b \in Blocks : Extend(b)

ChainSpec == ChainInit /\ [][ChainNext]_tip

=============================================================================
