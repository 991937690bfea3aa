---------------------------- MODULE MCBroadcast ----------------------------
(***************************************************************************)
(* Mergers on which TLC checks Broadcast.                                  *)
(***************************************************************************)
EXTENDS Broadcast

CONSTANTS left, middle, right, m1, m2, ping

(* Left knows both others; right knows left only through the middle, which *)
(* calls right first.                                                      *)
Line ==
    [n \in Nodes |-> CASE n = left -> <<middle, right>>
                       [] n = middle -> <<right, left>>
                       [] n = right -> <<middle>>]
Senders == [m \in Messages |-> IF m = m2 THEN right ELSE left]

=============================================================================
