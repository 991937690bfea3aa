----------------------------- MODULE BlockTree -----------------------------
(***************************************************************************)
(* The unresolved block pool without its bins, its indices and its running *)
(* totals: a set of received blocks that name their parents by id, and a   *)
(* confirmed tip.  It says which blocks a merger keeps and which block it  *)
(* confirms; UnresolvedBlockPool is shown to implement it.                 *)
(***************************************************************************)
EXTENDS Naturals, FiniteSetsExt

CONSTANTS
    Blocks,         \* records with id, hash, height, prev and signers
    GenesisId,
    ConfirmLevel,   \* a block confirms another this many heights below it
    MinSignatures   \* signatures a block needs behind it to be confirmed

VARIABLES
    received,   \* the blocks above the tip that were accepted
    tip         \* the confirmed block

treeVars == <<received, tip>>

Ids(R) == {b.id : b \in R}

(* Two blocks may carry one id.  A block below them then belongs to one of *)
(* the two, the same one for all of them: heir says which.                 *)
Heirs(R) == {f \in [Ids(R) -> R] : \A x \in Ids(R) : f[x].id = x}

(* The received blocks from d down to the oldest ancestor that is known.   *)
Line(R, heir, d) ==
    LET line[b \in R] ==
            {b} \cup UNION {line[p] : p \in {q \in R :
                                /\ q.height + 1 = b.height
                                /\ q.id = b.prev
                                /\ q = heir[q.id]}}
    IN  line[d]

(* The signatures behind b: its own and those of every descendant.         *)
Support(R, heir, b) ==
    MapThenSumSet(LAMBDA d : d.signers, {d \in R : b \in Line(R, heir, d)})

Children(R, heir, b) ==
    {d \in R : d.height = b.height + 1 /\ d.prev = b.id /\ heir[b.id] = b}

Candidates(R) == {b \in R : b.height = tip.height + 1 /\ b.prev = tip.id}

-----------------------------------------------------------------------------
TreeInit ==
    /\ received = {}
    /\ tip = [id |-> GenesisId, height |-> 0, prev |-> GenesisId]

(* A block above the tip, not known by height and hash, that extends the   *)
(* tip if it is of the next height.                                        *)
Acceptable(b) ==
    /\ b.height > tip.height
    /\ b.height = tip.height + 1 => b.prev = tip.id
    /\ \A d \in received : d.height = b.height => d.hash # b.hash

Accept(b) ==
    /\ Acceptable(b)
    /\ received' = received \cup {b}
    /\ UNCHANGED tip

(* With b, the child w of the tip that has a child of its own and the most *)
(* signatures behind it is confirmed; its height is forgotten.             *)
AcceptAndConfirm(b, w) ==
    LET R == received \cup {b}
    IN  /\ Acceptable(b)
        /\ b.height > tip.height + ConfirmLevel
        /\ w \in Candidates(R)
        /\ received' = {d \in R : d.height > w.height}
        /\ tip' = [id |-> w.id, height |-> w.height, prev |-> tip.id]
        /\ \E heir \in Heirs(R) :
              /\ Children(R, heir, w) # {}
              /\ Support(R, heir, w) > 0
              /\ Support(R, heir, w) >= MinSignatures
              /\ \A d \in Candidates(R) :
                    Support(R, heir, d) <= Support(R, heir, w)

TreeNext ==
    \E b \in Blocks :
        Accept(b) \/ \E w \in Blocks : AcceptAndConfirm(b, w)

TreeSpec == TreeInit /\ [][TreeNext]_treeVars

=============================================================================
