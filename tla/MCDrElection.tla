---------------------------- MODULE MCDrElection ----------------------------
(* DrElection on networks of two and of three routers. *)
EXTENDS DrElection

Three == {1, 2, 3}

(* Two routers of any priorities, which fail at any time, and two that start *)
(* equal and have a priority lowered or raised twice.                        *)
OfTwo ==
    [priority : [{1, 2} -> Priorities], anytime : {TRUE}, faults : {2}, commands : {1}]
    \cup [priority : {<<1, 1>>}, anytime : {TRUE}, faults : {2}, commands : {2}]

(* Three of different priority; they fail once they have agreed. *)
OfThree == [priority : {<<2, 0, 1>>}, anytime : {FALSE}, faults : {1}, commands : {0}]

Networks == OfTwo \cup OfThree
=============================================================================
