------------------------------- MODULE Pqueue -------------------------------
(***************************************************************************)
(* The priority queue of lib/pqueue.c: a binary heap in an array, whose    *)
(* elements are told their position each time it changes.                  *)
(*                                                                         *)
(* A queue is a record q with q.array, a function on 0..size-1, and        *)
(* q.stat, the position each element was told last.  The array grows       *)
(* before it is full, so its capacity is left out.                         *)
(***************************************************************************)
EXTENDS Integers, FiniteSets

CONSTANT cmp(_, _, _)   \* cmp(q, a, b): negative when a goes before b

PARENT_OF(x) == (x - 1) \div 2
LEFT_OF(x)   == 2 * x + 1
RIGHT_OF(x)  == 2 * x + 2

size(q) == Cardinality(DOMAIN q.array)

HAVE_CHILD(x, q) == x < size(q) \div 2

(* The element at position x is told so. *)
update(q, x) == [q EXCEPT !.stat[q.array[x]] = x]

(* Seeded fault: the element that makes room is not told. *)
Move_silent(q, x, y) == [q EXCEPT !.array[x] = q.array[y], !.array[y] = q.array[x]]

(* The element at y moves to x, and the one at x, which the code keeps in    *)
(* tmp until its place is found, is taken along to y.                        *)
Move(q, x, y) ==
    update([q EXCEPT !.array[x] = q.array[y], !.array[y] = q.array[x]], x)

(* One turn of the loop of trickle_up, at position x.at of the queue x.q. *)
turn_up(x) ==
    LET p == PARENT_OF(x.at)
    IN  IF x.at > 0 /\ cmp(x.q, x.q.array[x.at], x.q.array[p]) < 0
        THEN [at |-> p, q |-> Move(x.q, x.at, p)]
        ELSE x

(* Each turn but the last halves the position, so index turns are enough. *)
trickle_up(index, q) ==
    LET after[n \in 0..index] ==
            IF n = 0 THEN [at |-> index, q |-> q] ELSE turn_up(after[n - 1])
        last == after[index]
    IN  update(last.q, last.at)

(* The child that is the better parent of the other. *)
which(index, q) ==
    IF RIGHT_OF(index) < size(q)
       /\ cmp(q, q.array[LEFT_OF(index)], q.array[RIGHT_OF(index)]) > 0
    THEN RIGHT_OF(index) ELSE LEFT_OF(index)

(* One turn of the loop of trickle_down. *)
turn_down(x) ==
    LET c == which(x.at, x.q)
    IN  IF HAVE_CHILD(x.at, x.q) /\ cmp(x.q, x.q.array[c], x.q.array[x.at]) <= 0
        THEN [at |-> c, q |-> Move(x.q, x.at, c)]
        ELSE x

(* Each turn but the last goes further down. *)
trickle_down(index, q) ==
    LET after[n \in 0..size(q)] ==
            IF n = 0 THEN [at |-> index, q |-> q] ELSE turn_down(after[n - 1])
        last == after[size(q)]
    IN  update(last.q, last.at)

pqueue_enqueue(data, q) ==
    LET n == size(q)
    IN  trickle_up(n, [q EXCEPT !.array = [i \in 0..n |-> IF i = n THEN data ELSE @[i]]])

(* The first element is q.array[0].  When it was the only one, trickle_down *)
(* still tells it position 0.                                               *)
pqueue_dequeue(q) ==
    LET n == size(q) - 1
    IN  IF n = 0 THEN [q EXCEPT !.array = [i \in {} |-> 0], !.stat[q.array[0]] = 0]
        ELSE trickle_down(0,
                [q EXCEPT !.array = [i \in 0..n - 1 |-> IF i = 0 THEN @[n] ELSE @[i]]])
=============================================================================
