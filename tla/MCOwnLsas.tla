------------------------------ MODULE MCOwnLsas ------------------------------
(* Instances of OwnLsas for TLC: after a restart the neighbour still holds   *)
(* both LSAs of the router, and otherwise none.                              *)
EXTENDS OwnLsas

BothOrNone == {{}, Keys}
=============================================================================
