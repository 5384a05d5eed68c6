---------------------------- MODULE MCAdjacency ----------------------------
(* Adjacency from any two databases. *)
EXTENDS Adjacency

AnyDatabases == [Routers -> [LSAs -> Instances \cup {NoLSA}]]
=============================================================================
