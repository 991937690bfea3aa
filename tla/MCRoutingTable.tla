--------------------------- MODULE MCRoutingTable ---------------------------
(***************************************************************************)
(* Peers on which TLC checks RoutingTable: keys of four bits instead of    *)
(* 160, so that a table reaches its largest number of buckets.             *)
(***************************************************************************)
EXTENDS RoutingTable

Self == <<0, 0, 0, 0>>

(* Two peers whose keys share two bits, so that a bucket between the first *)
(* and the last splits, and one host with two ports, which the tracker's   *)
(* list names by the host alone: one key, two endpoints.                   *)
b == [id |-> <<0, 1, 0, 0>>, end |-> "b"]
c == [id |-> <<0, 1, 1, 0>>, end |-> "c"]
d1 == [id |-> <<0, 0, 0, 1>>, end |-> "d1"]
d2 == [id |-> <<0, 0, 0, 1>>, end |-> "d2"]
FourPeers == {b, c, d1, d2}
OneFlaky == {d1}

=============================================================================
