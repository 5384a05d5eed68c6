----------------------------- MODULE Allocator ------------------------------
(***************************************************************************)
(* What an allocator promises the pluglets that share a heap: a pluglet    *)
(* owns the regions it was given until it gives them back, they lie in the *)
(* buffer, and no two regions that are owned share a byte.  Nothing is     *)
(* said of headers, free lists or of which region is chosen.               *)
(***************************************************************************)
EXTENDS Integers

CONSTANT Limit      \* bytes of the buffer

VARIABLE owned      \* regions <<p, n>>: n bytes from offset p

Regions == {r \in (0..Limit) \X (0..Limit) : r[1] + r[2] <= Limit}

Apart(r, s) == r[1] + r[2] <= s[1] \/ s[1] + s[2] <= r[1]

Unowned(r) == r \in Regions /\ \A s \in owned : Apart(r, s)

Init == owned = {}

Allocate(r) == Unowned(r) /\ owned' = owned \cup {r}

Release(r) == owned' = owned \ {r}

Shrink(r, n) == n <= r[2] /\ owned' = (owned \ {r}) \cup {<<r[1], n>>}

Move(r, s) == Unowned(s) /\ owned' = (owned \ {r}) \cup {s}

(* The region given out is among those owned afterwards. *)
Next ==
    \/ \E r \in owned' : Allocate(r)
    \/ \E r \in owned :
        \/ Release(r)
        \/ \E n \in 0..r[2] : Shrink(r, n)
        \/ \E s \in owned' : Move(r, s)

Spec == Init /\ [][Next]_owned
=============================================================================
