--------------------------- MODULE SpfQueueProofs ---------------------------
(***************************************************************************)
(* Proofs about SpfTree, for every database and every number of vertices:  *)
(* the measurements, the queue and the blocks of the pluglet.              *)
(*   - Heap: trickle_up and trickle_down restore the order of the queue,   *)
(*     and Good (with QueueInv) says that it is a heap whose elements know *)
(*     their positions.                                                    *)
(*   - Step and Changes: what examining one link does to the tree, by      *)
(*     ospf_spf_next or by the pluglet; Walk is all the links of a vertex. *)
(* Loops are recursive functions on 0..n, which Loop and Upto deal with.   *)
(* A leaf that names no prover is Zenon's.                                 *)
(***************************************************************************)
EXTENDS SpfTree, FiniteSetTheorems, WellFoundedInduction, TLAPS

USE Zenon

-----------------------------------------------------------------------------
(* Induction, in terms of sets *)

LEMMA Least ==
    ASSUME NEW S \in SUBSET Nat, S # {}
    PROVE  \E l \in S : \A k \in S : l <= k
<1> DEFINE R == OpToRel(<, Nat)
<1>1. IsWellFoundedOn(R, Nat)
  BY NatLessThanWellFounded
<1>2. PICK l \in S : \A k \in S : ~(<<k, l>> \in R)
  <2> HIDE DEF R
  <2> QED BY <1>1, WFMin
<1>3. \A k \in S : l <= k
  <2> TAKE k \in S
  <2>1. k \in Nat /\ l \in Nat
    OBVIOUS
  <2>2. ~(k < l)
    BY <1>2, <2>1 DEF OpToRel
  <2> QED BY <2>1, <2>2, SMT
<1> QED BY <1>3

LEMMA Upto ==
    ASSUME NEW m \in Nat, NEW P, 0 \in P, \A n \in 1..m : n - 1 \in P => n \in P
    PROVE  \A n \in 0..m : n \in P
<1> SUFFICES ASSUME NEW n \in 0..m, n \notin P PROVE FALSE
  OBVIOUS
<1> DEFINE B == {k \in 0..m : k \notin P}
<1>1. B \in SUBSET Nat /\ B # {}
  BY SMT
<1>2. PICK l \in B : \A k \in B : l <= k
  <2> HIDE DEF B
  <2> QED BY <1>1, Least
<1>3. l \in 1..m /\ l \notin P /\ l - 1 \in 0..m
  BY SMT
<1>4. l - 1 \in P
  BY <1>2, <1>3, SMT
<1> QED BY <1>3, <1>4, SMT

(* A recursive function on 0..m, by its steps F, and its existence. *)
IsLoop(f, m, x0, F) == f = [n \in 0..m |-> IF n = 0 THEN x0 ELSE F[n][f[n - 1]]]
Closed(m, S, F)     == \A n \in 1..m : \A x \in S : F[n][x] \in S

LEMMA Loop ==
    ASSUME NEW m \in Nat, NEW S, NEW x0 \in S, NEW F, Closed(m, S, F)
    PROVE  \E f \in [0..m -> S] : IsLoop(f, m, x0, F)
<1> DEFINE G(f, k) == f = [n \in 0..k |-> IF n = 0 THEN x0 ELSE F[n][f[n - 1]]]
           P == {k \in 0..m : \E f \in [0..k -> S] : G(f, k)}
<1>1. 0 \in P
  <2> DEFINE f == [n \in 0..0 |-> x0]
  <2>1. G(f, 0) /\ f \in [0..0 -> S] /\ 0 \in 0..m
    BY SMT
  <2> HIDE DEF f
  <2> QED BY <2>1
<1>2. ASSUME NEW k \in 1..m, k - 1 \in P PROVE k \in P
  <2>1. PICK f \in [0..k - 1 -> S] : G(f, k - 1)
    BY <1>2
  <2> DEFINE h == [n \in 0..k |-> IF n = k THEN F[k][f[k - 1]] ELSE f[n]]
  <2>2. /\ k \in 0..m
        /\ k - 1 \in 0..k - 1
        /\ \A n \in 0..k : n # k => n \in 0..k - 1
        /\ \A n \in 0..k - 1 : n \in 0..k /\ n # k
        /\ \A n \in 0..k : n # 0 => n - 1 \in 0..k - 1
        /\ k # 0
    BY SMT
  <2>3. \A n \in 0..k - 1 : f[n] = IF n = 0 THEN x0 ELSE F[n][f[n - 1]]
    <3> HIDE DEF h
    <3> QED BY <2>1
  <2>4. \A n \in 0..k - 1 : h[n] = f[n]
    BY <2>2
  <2>5. h[k] = F[k][f[k - 1]]
    BY SMT
  <2>6. h \in [0..k -> S]
    <3>1. \A n \in 0..k - 1 : f[n] \in S
      OBVIOUS
    <3>2. F[k][f[k - 1]] \in S
      BY <2>2, <3>1 DEF Closed
    <3> QED BY <2>2, <3>1, <3>2
  <2>7. \A n \in 0..k : h[n] = IF n = 0 THEN x0 ELSE F[n][h[n - 1]]
    <3> HIDE DEF h
    <3> QED BY <2>2, <2>3, <2>4, <2>5
  <2>8. G(h, k)
    <3>1. h = [n \in 0..k |-> h[n]]
      OBVIOUS
    <3> HIDE DEF h
    <3> QED BY <3>1, <2>7
  <2> HIDE DEF h
  <2> QED BY <2>2, <2>6, <2>8
<1>3. m \in P
  <2> HIDE DEF P
  <2> QED BY <1>1, <1>2, Upto, SMT
<1> QED BY <1>3 DEF IsLoop

-----------------------------------------------------------------------------
(* The measurement *)

Fresh ==
    /\ started \in [1..Starts -> {"free", "stale", "fresh"}]
    /\ ~early => started[1] = IF phase = "loop" THEN "fresh" ELSE "free"

LEMMA MinOne ==
    ASSUME NEW S \in SUBSET Nat, 1 \in S, \A i \in S : 1 <= i
    PROVE  Min(S) = 1
<1>1. \A x \in S : (\A y \in S : x <= y) => x = 1
  BY SMT
<1> QED BY <1>1 DEF Min

LEMMA StartStored ==
    ASSUME Fresh
    PROVE  /\ spf_time \in [1..Starts -> {"free", "stale", "fresh"}]
           /\ started[1] = "free" => spf_time[1] = "fresh"
<1> DEFINE aged == [i \in 1..Starts |-> IF started[i] = "free" THEN "free" ELSE "stale"]
           none == {i \in 1..Starts : started[i] = "free"}
<1>1. aged \in [1..Starts -> {"free", "stale", "fresh"}] /\ 1 \in 1..Starts
  BY SpfTreeConstants, SMT
<1>2. spf_time = IF none = {} THEN aged ELSE [aged EXCEPT ![Min(none)] = "fresh"]
  BY DEF spf_time
<1>3. started[1] = "free" => 1 \in none /\ Min(none) = 1
  BY <1>1, MinOne, SMT
<1> HIDE DEF aged, none
<1> QED BY <1>1, <1>2, <1>3

LEMMA FreshKept ==
    ASSUME Fresh, [TreeNext]_treeVars
    PROVE  Fresh'
<1> USE DEF Fresh
<1>1. CASE calculate_nothing
  BY <1>1, StartStored, SMT DEF calculate_nothing
<1>2. ASSUME NEW db \in Contents, calculate_start(db) PROVE Fresh'
  BY <1>2, StartStored, SMT DEF calculate_start
<1>3. CASE calculate_next
  <2>1. PICK s : calculate_turn(s) \/ calculate_end(s)
    BY <1>3 DEF calculate_next
  <2>2. CASE calculate_turn(s)
    BY <1>3, <2>2, SMT DEF calculate_turn, calculate_next
  <2>3. CASE calculate_end(s)
    <3> DEFINE used == {i \in 1..Starts : started[i] # "free"}
    <3>1. phase' = "done" /\ started' = [started EXCEPT ![Min(used)] = "free"]
      BY <2>3 DEF calculate_end, spf_time_post
    <3>2. started[1] # "free" => Min(used) = 1
      <4>1. 1 \in 1..Starts
        BY SpfTreeConstants, SMT
      <4>2. used \in SUBSET Nat /\ \A i \in used : 1 <= i
        BY SMT
      <4>3. started[1] # "free" => 1 \in used
        BY <4>1, SMT
      <4> HIDE DEF used
      <4> QED BY <4>2, <4>3, MinOne
    <3> HIDE DEF used
    <3>3. 1 \in 1..Starts
      BY SpfTreeConstants, SMT
    <3> QED BY <3>1, <3>2, <3>3
  <2> QED BY <2>1, <2>2, <2>3
<1>4. CASE calculate_free
  BY <1>4, SMT DEF calculate_free
<1>5. CASE inject
  BY <1>5, SMT DEF inject
<1>6. CASE UNCHANGED treeVars
  BY <1>6, SMT DEF treeVars
<1> QED BY <1>1, <1>2, <1>3, <1>4, <1>5, <1>6 DEF TreeNext

(* spf_time_post reports the time since the start of another calculation    *)
(* only when calculations that returned early have left their start behind. *)
THEOREM TimesRight == TreeSpec => MeasuresRecover
<1>1. TreeInit => Fresh
  BY SpfTreeConstants, SMT DEF TreeInit, Fresh
<1>2. Fresh /\ [TreeNext]_treeVars => Fresh'
  BY FreshKept
<1>3. Fresh /\ [TreeNext]_treeVars =>
        [phase = "loop" /\ phase' = "done" /\ measured' = "wrong" => early]_treeVars
  <2> SUFFICES ASSUME Fresh, TreeNext, phase = "loop", phase' = "done", ~early
               PROVE  measured' # "wrong"
    OBVIOUS
  <2>1. PICK s : calculate_end(s)
    BY SMT DEF TreeNext, calculate_nothing, calculate_start, calculate_next, calculate_turn,
           calculate_free, inject
  <2> DEFINE used == {i \in 1..Starts : started[i] # "free"}
  <2>2. started[1] = "fresh" /\ 1 \in 1..Starts
    BY SpfTreeConstants, SMT DEF Fresh
  <2>3. Min(used) = 1
    <3>1. used \in SUBSET Nat /\ 1 \in used /\ \A i \in used : 1 <= i
      BY <2>2, SMT
    <3> HIDE DEF used
    <3> QED BY <3>1, MinOne
  <2>4. measured' = IF started[Min(used)] = "fresh" THEN "right" ELSE "wrong"
    BY <2>1 DEF calculate_end, spf_time_post
  <2> HIDE DEF used
  <2> QED BY <2>2, <2>3, <2>4, SMT
<1> QED BY <1>1, <1>2, <1>3, PTL DEF TreeSpec, MeasuresRecover

-----------------------------------------------------------------------------
(* The candidate queue *)

Hop     == Nat \X ((Vertices \cup {0}) \X Nat)
Parents == [parent : Vertices, hop : Hop]
Arrays  == UNION {[0..n - 1 -> Vertices] : n \in Nat}
States  == [array : Arrays, stat : [Vertices -> Int], dist : [Vertices -> Nat],
            parents : [Vertices -> SUBSET Parents], children : [Vertices -> Seq(Vertices)],
            room : Int, whole : BOOLEAN]

LEMMA Size ==
    ASSUME NEW q \in States
    PROVE  /\ size(q) \in Nat
           /\ q.array \in [0..size(q) - 1 -> Vertices]
           /\ DOMAIN q.array = 0..size(q) - 1
<1>1. PICK n \in Nat : q.array \in [0..n - 1 -> Vertices]
  BY DEF States, Arrays
<1>2. DOMAIN q.array = 0..n - 1
  BY <1>1
<1>3. Cardinality(0..n - 1) = n
  BY FS_Interval, SMT
<1> QED BY <1>1, <1>2, <1>3 DEF size

LEMMA SizeOf ==
    ASSUME NEW n \in Nat, NEW q, q.array \in [0..n - 1 -> Vertices]
    PROVE  size(q) = n /\ q.array \in Arrays
<1>1. Cardinality(0..n - 1) = n
  BY FS_Interval, SMT
<1>2. DOMAIN q.array = 0..n - 1
  OBVIOUS
<1> QED BY <1>1, <1>2 DEF size, Arrays

(* cmp compares numbers. *)
Key(q, v) == 2 * q.dist[v] + IF v \in Networks THEN 0 ELSE 1

LEMMA CmpIsKey ==
    ASSUME NEW q \in States, NEW a \in Vertices, NEW b \in Vertices
    PROVE  /\ Key(q, a) \in Nat
           /\ cmp(q, a, b) <= 0 <=> Key(q, a) <= Key(q, b)
           /\ cmp(q, a, b) < 0 <=> Key(q, a) < Key(q, b)
           /\ cmp(q, a, b) > 0 <=> Key(q, a) > Key(q, b)
<1>1. q.dist[a] \in Nat /\ q.dist[b] \in Nat
  BY SMT DEF States
<1> QED BY <1>1, SMT DEF cmp, Key

LEMMA ParentOf ==
    ASSUME NEW i \in Nat, i > 0
    PROVE  /\ PARENT_OF(i) \in 0..i - 1
           /\ \A j \in Nat : PARENT_OF(i) = j <=> (i = LEFT_OF(j) \/ i = RIGHT_OF(j))
  BY SMT DEF PARENT_OF, LEFT_OF, RIGHT_OF

LEMMA HaveChild ==
    ASSUME NEW q \in States, NEW x \in Nat
    PROVE  HAVE_CHILD(x, q) <=> LEFT_OF(x) < size(q)
<1>1. size(q) \in Nat
  BY Size, SMT
<1> QED BY <1>1, SMT DEF HAVE_CHILD, LEFT_OF

(* The queue but for the order and the position of the element at at. *)
Members(q) == {q.array[i] : i \in DOMAIN q.array}

Indexed(q, at, gone) ==
    /\ \A i, j \in 0..size(q) - 1 : q.array[i] = q.array[j] => i = j
    /\ \A i \in 0..size(q) - 1 : i # at => q.stat[q.array[i]] = i
    /\ \A v \in Vertices : v \notin Members(q) /\ v \notin gone => q.stat[v] < 0

Ordered(q, i) == Key(q, q.array[PARENT_OF(i)]) <= Key(q, q.array[i])

(* What stays the same while elements move. *)
Frame(q, r) ==
    /\ r = [q EXCEPT !.array = r.array, !.stat = r.stat]
    /\ size(r) = size(q)
    /\ Members(r) = Members(q)
    /\ \A v \in Vertices : v \notin Members(q) => r.stat[v] = q.stat[v]

(* Elements x and y trade places. *)
LEMMA Moved ==
    ASSUME NEW q \in States, NEW x \in 0..size(q) - 1, NEW y \in 0..size(q) - 1, x # y,
           NEW gone, Indexed(q, x, gone)
    PROVE  LET r == Move(q, x, y)
           IN  /\ r \in States
               /\ Indexed(r, y, gone)
               /\ Frame(q, r)
               /\ \A v \in Vertices : Key(r, v) = Key(q, v)
               /\ r.array[x] = q.array[y]
               /\ r.array[y] = q.array[x]
               /\ \A i \in 0..size(q) - 1 : i # x /\ i # y => r.array[i] = q.array[i]
<1> DEFINE n == size(q)
           a == [q.array EXCEPT ![x] = q.array[y], ![y] = q.array[x]]
           r == Move(q, x, y)
           t == [q.stat EXCEPT ![q.array[y]] = x]
<1>1. n \in Nat /\ q.array \in [0..n - 1 -> Vertices] /\ DOMAIN q.array = 0..n - 1
  BY Size
<1>2. /\ a \in [0..n - 1 -> Vertices]
      /\ a[x] = q.array[y]
      /\ a[y] = q.array[x]
      /\ \A i \in 0..n - 1 : i # x /\ i # y => a[i] = q.array[i]
  BY <1>1, SMT
<1>3. r = [q EXCEPT !.array = a, !.stat = t]
  <2>1. [q EXCEPT !.array[x] = q.array[y], !.array[y] = q.array[x]] = [q EXCEPT !.array = a]
    BY DEF States
  <2>2. [q EXCEPT !.array = a].array[x] = q.array[y]
    BY <1>2 DEF States
  <2> HIDE DEF a
  <2> QED BY <2>1, <2>2 DEF Move, update, States
<1>4. t \in [Vertices -> Int]
  <2>1. q.stat \in [Vertices -> Int] /\ x \in Int
    BY <1>1, SMT DEF States
  <2> QED BY <2>1
<1> HIDE DEF a, t
<1>5. /\ r.array = a /\ r.stat = t
      /\ r.dist = q.dist
      /\ r = [q EXCEPT !.array = r.array, !.stat = r.stat]
  BY <1>3, SMT DEF States
<1>6. size(r) = n /\ a \in Arrays
  BY <1>1, <1>2, <1>5, SizeOf
<1>7. r \in States
  BY <1>3, <1>4, <1>6 DEF States
<1> HIDE DEF r
<1>8. Members(r) = Members(q)
  <2>1. Members(r) = {a[i] : i \in 0..n - 1} /\ Members(q) = {q.array[i] : i \in 0..n - 1}
    BY <1>1, <1>2, <1>5 DEF Members
  <2>2. ASSUME NEW i \in 0..n - 1 PROVE a[i] \in Members(q) /\ q.array[i] \in Members(r)
    <3>1. CASE i = x
      BY <2>1, <3>1, <1>2
    <3>2. CASE i = y
      BY <2>1, <3>2, <1>2
    <3>3. CASE i # x /\ i # y
      BY <2>1, <3>3, <1>2
    <3> QED BY <3>1, <3>2, <3>3
  <2> QED BY <2>1, <2>2
<1>9. \A v \in Vertices : v # q.array[y] => t[v] = q.stat[v]
  BY SMT DEF t, States
<1>10. t[q.array[y]] = x
  BY <1>1 DEF t, States
<1>11. q.array[y] \in Members(q)
  BY <1>1 DEF Members
<1>12. Indexed(r, y, gone)
  <2>1. ASSUME NEW i \in 0..n - 1, NEW j \in 0..n - 1, a[i] = a[j] PROVE i = j
    <3>1. \A k, l \in 0..n - 1 : q.array[k] = q.array[l] => k = l
      BY DEF Indexed
    <3> QED BY <2>1, <3>1, <1>2, SMT
  <2>2. ASSUME NEW i \in 0..n - 1, i # y PROVE t[a[i]] = i
    <3>1. CASE i = x
      BY <3>1, <1>2, <1>10
    <3>2. CASE i # x
      <4>1. a[i] = q.array[i] /\ q.array[i] # q.array[y] /\ q.stat[q.array[i]] = i
        BY <2>2, <3>2, <1>2 DEF Indexed
      <4>2. q.array[i] \in Vertices
        BY <1>1
      <4> QED BY <4>1, <4>2, <1>9
    <3> QED BY <3>1, <3>2
  <2>3. ASSUME NEW v \in Vertices, v \notin Members(r), v \notin gone PROVE t[v] < 0
    <3>1. v # q.array[y] /\ q.stat[v] < 0
      BY <2>3, <1>8, <1>11 DEF Indexed
    <3> QED BY <3>1, <1>9
  <2> QED BY <2>1, <2>2, <2>3, <1>5, <1>6 DEF Indexed
<1>13. Frame(q, r)
  BY <1>5, <1>6, <1>8, <1>9, <1>11 DEF Frame
<1>14. \A v \in Vertices : Key(r, v) = Key(q, v)
  BY <1>5 DEF Key
<1> QED BY <1>2, <1>5, <1>7, <1>12, <1>13, <1>14 DEF r

LEMMA FrameSame ==
    ASSUME NEW q \in States
    PROVE  Frame(q, q)
<1>1. q = [q EXCEPT !.array = q.array, !.stat = q.stat]
  BY DEF States
<1> QED BY <1>1 DEF Frame

LEMMA FrameTrans ==
    ASSUME NEW p \in States, NEW q, NEW r, Frame(p, q), Frame(q, r)
    PROVE  Frame(p, r)
<1>1. r = [p EXCEPT !.array = r.array, !.stat = r.stat]
  BY DEF Frame, States
<1> QED BY <1>1 DEF Frame

Turns == [at : Nat, q : States]

(* Going up: the order may only be wrong at at, and what is below at is in  *)
(* order with what is above it.                                             *)
UpInv(x) ==
    /\ x.q \in States
    /\ x.at \in 0..size(x.q) - 1
    /\ Indexed(x.q, x.at, {})
    /\ \A i \in 1..size(x.q) - 1 : i # x.at => Ordered(x.q, i)
    /\ \A i \in 1..size(x.q) - 1 : PARENT_OF(i) = x.at /\ x.at > 0 =>
          Key(x.q, x.q.array[PARENT_OF(x.at)]) <= Key(x.q, x.q.array[i])

LEMMA TurnUp ==
    ASSUME NEW x \in Turns, UpInv(x)
    PROVE  /\ turn_up(x) \in Turns
           /\ UpInv(turn_up(x))
           /\ Frame(x.q, turn_up(x).q)
           /\ IF x.at > 0 => Ordered(x.q, x.at) THEN turn_up(x) = x
                                                ELSE turn_up(x).at < x.at
<1> DEFINE q == x.q
           n == size(q)
           c == x.at
           p == PARENT_OF(c)
           r == Move(q, c, p)
<1>1. /\ q \in States /\ n \in Nat /\ c \in 0..n - 1
      /\ q.array \in [0..n - 1 -> Vertices]
  BY Size DEF UpInv
<1>2. CASE ~(c > 0 /\ cmp(q, q.array[c], q.array[p]) < 0)
  <2>1. turn_up(x) = x
    BY <1>2 DEF turn_up
  <2>2. ASSUME c > 0 PROVE Ordered(q, c)
    <3>1. p \in 0..n - 1
      BY <1>1, <2>2, ParentOf, SMT
    <3>2. q.array[c] \in Vertices /\ q.array[p] \in Vertices
      BY <1>1, <3>1, SMT
    <3>3. ~(Key(q, q.array[c]) < Key(q, q.array[p]))
      BY <1>1, <1>2, <2>2, <3>2, CmpIsKey
    <3>4. Key(q, q.array[c]) \in Nat /\ Key(q, q.array[p]) \in Nat
      BY <1>1, <3>2, CmpIsKey
    <3> QED BY <3>3, <3>4, SMT DEF Ordered
  <2> QED BY <2>1, <2>2, <1>1, FrameSame
<1>3. CASE c > 0 /\ cmp(q, q.array[c], q.array[p]) < 0
  <2>1. turn_up(x) = [at |-> p, q |-> r]
    BY <1>3 DEF turn_up
  <2>2. p \in 0..n - 1 /\ p < c
    BY <1>1, <1>3, ParentOf, SMT
  <2>3. q.array[c] \in Vertices /\ q.array[p] \in Vertices
    BY <1>1, <2>2, SMT
  <2>4. Key(q, q.array[c]) < Key(q, q.array[p])
    BY <1>1, <1>3, <2>3, CmpIsKey
  <2>5. Indexed(q, c, {}) /\ c # p
    BY <1>1, <2>2, SMT DEF UpInv
  <2>6. /\ r \in States
        /\ Indexed(r, p, {})
        /\ Frame(q, r)
        /\ \A v \in Vertices : Key(r, v) = Key(q, v)
        /\ r.array[c] = q.array[p]
        /\ r.array[p] = q.array[c]
        /\ \A i \in 0..n - 1 : i # c /\ i # p => r.array[i] = q.array[i]
    BY <1>1, <2>2, <2>5, Moved
  <2>7. size(r) = n
    BY <2>6 DEF Frame
  <2> DEFINE k(i) == Key(q, q.array[i])
             l(i) == Key(r, r.array[i])
  <2>8. \A i \in 0..n - 1 : k(i) \in Nat
    BY <1>1, CmpIsKey, SMT
  <2>9. /\ l(c) = k(p) /\ l(p) = k(c)
        /\ \A i \in 0..n - 1 : i # c /\ i # p => l(i) = k(i)
    BY <1>1, <2>3, <2>6, SMT
  <2>10. /\ \A i \in 1..n - 1 : i # c => k(PARENT_OF(i)) <= k(i)
         /\ \A i \in 1..n - 1 : PARENT_OF(i) = c => k(p) <= k(i)
    BY <1>3 DEF UpInv, Ordered
  <2>11. \A i \in 1..n - 1 : PARENT_OF(i) \in 0..n - 1 /\ PARENT_OF(i) # i
    BY <1>1, ParentOf, SMT
  <2> HIDE DEF k, l
  <2>12. ASSUME NEW i \in 1..n - 1, i # p PROVE l(PARENT_OF(i)) <= l(i)
    <3>1. i \in 0..n - 1 /\ PARENT_OF(i) \in 0..n - 1 /\ PARENT_OF(i) # i
      BY <2>11, SMT
    <3>2. k(c) < k(p)
      BY <2>4 DEF k
    <3>3. CASE i = c
      BY <3>2, <3>3, <2>2, <2>8, <2>9, SMT
    <3>4. CASE i # c /\ PARENT_OF(i) = c
      BY <3>1, <3>4, <2>9, <2>10, <2>12
    <3>5. CASE i # c /\ PARENT_OF(i) = p
      <4>1. l(PARENT_OF(i)) = k(c) /\ k(p) <= k(i) /\ l(i) = k(i)
        BY <3>1, <3>5, <2>9, <2>10, <2>12
      <4> QED BY <4>1, <3>1, <3>2, <2>2, <2>8, <1>1, SMT
    <3>6. CASE i # c /\ PARENT_OF(i) # c /\ PARENT_OF(i) # p
      BY <3>1, <3>6, <2>9, <2>10, <2>12
    <3> QED BY <3>3, <3>4, <3>5, <3>6
  <2>13. ASSUME NEW i \in 1..n - 1, PARENT_OF(i) = p, p > 0 PROVE l(PARENT_OF(p)) <= l(i)
    <3>1. PARENT_OF(p) \in 0..n - 1 /\ PARENT_OF(p) < p
      <4>1. p \in Nat /\ p > 0
        BY <2>2, <2>13, SMT
      <4> HIDE DEF p
      <4>2. PARENT_OF(p) \in 0..p - 1
        BY <4>1, ParentOf
      <4> QED BY <4>1, <4>2, <2>2, <1>1, SMT
    <3>2. k(PARENT_OF(p)) <= k(p) /\ l(PARENT_OF(p)) = k(PARENT_OF(p))
      BY <2>2, <2>9, <2>10, <2>13, <3>1, SMT
    <3>3. CASE i = c
      BY <3>2, <3>3, <2>9, SMT
    <3>4. CASE i # c
      <4>1. k(p) <= k(i) /\ l(i) = k(i) /\ i \in 0..n - 1
        BY <2>9, <2>10, <2>11, <2>13, <3>4, SMT
      <4> QED BY <3>1, <3>2, <4>1, <2>2, <2>8, SMT
    <3> QED BY <3>3, <3>4
  <2>14. UpInv([at |-> p, q |-> r])
    BY <2>2, <2>6, <2>7, <2>12, <2>13 DEF UpInv, Ordered, l
  <2>16. ~Ordered(x.q, x.at) /\ x.at > 0
    <3>1. Key(q, q.array[c]) \in Nat /\ Key(q, q.array[p]) \in Nat
      BY <1>1, <2>3, CmpIsKey
    <3> QED BY <1>3, <2>4, <3>1, SMT DEF Ordered
  <2>15. turn_up(x).at = p /\ turn_up(x).q = r /\ turn_up(x) \in Turns
    BY <2>1, <2>2, <2>6, SMT DEF Turns
  <2> QED BY <2>1, <2>2, <2>6, <2>14, <2>15, <2>16
<1> QED BY <1>2, <1>3

(* The queue as QueueIndexed states it. *)
Heap(q) ==
    /\ Indexed(q, -1, {})
    /\ \A i \in 1..size(q) - 1 : Ordered(q, i)

(* The last update tells the element where it is. *)
LEMMA Updated ==
    ASSUME NEW q \in States, NEW at \in 0..size(q) - 1, NEW gone, Indexed(q, at, gone)
    PROVE  LET r == update(q, at)
           IN  /\ r \in States
               /\ Indexed(r, -1, gone)
               /\ Frame(q, r)
               /\ r.array = q.array
               /\ \A v \in Vertices : Key(r, v) = Key(q, v)
<1> DEFINE r == update(q, at)
           t == [q.stat EXCEPT ![q.array[at]] = at]
<1>1. /\ size(q) \in Nat /\ q.array \in [0..size(q) - 1 -> Vertices]
      /\ DOMAIN q.array = 0..size(q) - 1
  BY Size
<1>2. q.array[at] \in Vertices /\ at \in Int /\ q.array[at] \in Members(q)
  BY <1>1, SMT DEF Members
<1>3. t \in [Vertices -> Int] /\ t[q.array[at]] = at
      /\ \A v \in Vertices : v # q.array[at] => t[v] = q.stat[v]
  BY <1>2, SMT DEF States
<1>4. r = [q EXCEPT !.stat = t]
  BY SMT DEF update, States
<1> HIDE DEF t
<1>5. r \in States /\ r.array = q.array /\ r.stat = t /\ r.dist = q.dist
      /\ r = [q EXCEPT !.array = r.array, !.stat = r.stat]
  BY <1>3, <1>4 DEF States
<1> HIDE DEF r
<1>6. size(r) = size(q) /\ Members(r) = Members(q)
  BY <1>5 DEF size, Members
<1>7. Frame(q, r)
  BY <1>2, <1>3, <1>5, <1>6 DEF Frame
<1>8. \A i \in 0..size(q) - 1 : t[q.array[i]] = i
  BY <1>1, <1>2, <1>3 DEF Indexed
<1>9. Indexed(r, -1, gone)
  BY <1>2, <1>3, <1>5, <1>6, <1>8 DEF Indexed
<1> QED BY <1>5, <1>7, <1>9 DEF r, Key

LEMMA TrickleUp ==
    ASSUME NEW q \in States, NEW index \in Nat, UpInv([at |-> index, q |-> q])
    PROVE  /\ trickle_up(index, q) \in States
           /\ Heap(trickle_up(index, q))
           /\ Frame(q, trickle_up(index, q))
<1> DEFINE S  == {x \in Turns : UpInv(x) /\ Frame(q, x.q)}
           x0 == [at |-> index, q |-> q]
           F  == [n \in 1..index |-> [x \in S |-> turn_up(x)]]
           G(f) == f = [n \in 0..index |-> IF n = 0 THEN x0 ELSE turn_up(f[n - 1])]
           g  == CHOOSE f : G(f)
<1>1. x0 \in S
  <2>1. x0 \in Turns /\ x0.q = q
    BY SMT DEF Turns
  <2> QED BY <2>1, FrameSame
<1>2. ASSUME NEW x \in S PROVE turn_up(x) \in S
  <2>1. /\ turn_up(x) \in Turns /\ UpInv(turn_up(x))
        /\ Frame(q, x.q) /\ Frame(x.q, turn_up(x).q)
    BY TurnUp
  <2> QED BY <2>1, FrameTrans
<1> HIDE DEF S, x0
<1>3. G(g)
  <2>1. Closed(index, S, F)
    BY <1>2 DEF Closed
  <2> HIDE DEF F
  <2>2. PICK f \in [0..index -> S] : IsLoop(f, index, x0, F)
    BY <1>1, <2>1, Loop
  <2>3. ASSUME NEW n \in 0..index, n # 0 PROVE F[n][f[n - 1]] = turn_up(f[n - 1])
    <3>1. n \in 1..index /\ n - 1 \in 0..index
      BY <2>3, SMT
    <3> QED BY <3>1 DEF F
  <2>4. G(f)
    BY <2>2, <2>3 DEF IsLoop
  <2> HIDE DEF G
  <2> QED BY <2>4
<1>4. trickle_up(index, q) = update(g[index].q, g[index].at)
  BY DEF trickle_up, x0
<1> HIDE DEF g
<1>5. g[0] = x0 /\ \A n \in 1..index : g[n] = turn_up(g[n - 1])
  BY <1>3, SMT
<1> DEFINE Moving(x, n) == x.at + n <= index \/ (x.at > 0 => Ordered(x.q, x.at))
           P == {n \in 0..index : g[n] \in S /\ Moving(g[n], n)}
<1>6. 0 \in P
  BY <1>1, <1>5, SMT DEF x0
<1>7. ASSUME NEW n \in 1..index, n - 1 \in P PROVE n \in P
  <2>1. g[n - 1] \in S /\ Moving(g[n - 1], n - 1) /\ g[n] = turn_up(g[n - 1]) /\ g[n] \in S
    BY <1>2, <1>5, <1>7
  <2> DEFINE x == g[n - 1]
             y == g[n]
  <2>2. IF x.at > 0 => Ordered(x.q, x.at) THEN y = x ELSE y.at < x.at
    BY <2>1, TurnUp DEF S
  <2>3. x.at \in Nat /\ y.at \in Nat
    BY <2>1, SMT DEF S, Turns
  <2> HIDE DEF x, y
  <2>4. Moving(y, n)
    <3>1. CASE x.at > 0 => Ordered(x.q, x.at)
      BY <3>1, <2>2
    <3>2. CASE ~(x.at > 0 => Ordered(x.q, x.at))
      <4>1. x.at + (n - 1) <= index
        BY <2>1, <3>2 DEF x
      <4> QED BY <3>2, <4>1, <2>2, <2>3, SMT
    <3> QED BY <3>1, <3>2
  <2>5. n \in 0..index
    BY SMT
  <2> QED BY <2>1, <2>4, <2>5 DEF y
<1>8. index \in P
  <2> HIDE DEF P
  <2> QED BY <1>6, <1>7, Upto, SMT
<1> DEFINE x == g[index]
<1>9. UpInv(x) /\ Frame(q, x.q) /\ Moving(x, index) /\ x \in Turns
  BY <1>8 DEF S
<1> HIDE DEF x, P
<1>10. x.at > 0 => Ordered(x.q, x.at)
  BY <1>9, SMT DEF Turns
<1> DEFINE r == update(x.q, x.at)
<1>11. /\ r \in States
       /\ Indexed(r, -1, {})
       /\ Frame(x.q, r)
       /\ r.array = x.q.array
       /\ \A v \in Vertices : Key(r, v) = Key(x.q, v)
  BY <1>9, Updated DEF UpInv
<1> HIDE DEF r
<1>12. \A i \in 1..size(x.q) - 1 : Ordered(x.q, i)
  BY <1>9, <1>10, SMT DEF UpInv
<1>13. Heap(r)
  <2>1. size(r) = size(x.q)
    BY <1>11 DEF Frame
  <2>2. ASSUME NEW i \in 1..size(x.q) - 1 PROVE Ordered(r, i)
    <3>1. x.q.array \in [0..size(x.q) - 1 -> Vertices] /\ size(x.q) \in Nat
      BY <1>9, Size DEF UpInv
    <3>2. i \in 0..size(x.q) - 1 /\ PARENT_OF(i) \in 0..size(x.q) - 1
      BY <3>1, ParentOf, SMT
    <3>3. x.q.array[i] \in Vertices /\ x.q.array[PARENT_OF(i)] \in Vertices
      BY <3>1, <3>2
    <3> QED BY <3>3, <1>11, <1>12 DEF Ordered
  <2> QED BY <2>1, <2>2, <1>11 DEF Heap
<1>14. Frame(q, r)
  BY <1>9, <1>11, FrameTrans
<1> QED BY <1>4, <1>11, <1>13, <1>14 DEF r, x

(* Going down: the order may only be wrong just below at. *)
DownInv(x, gone) ==
    /\ x.q \in States
    /\ x.at \in 0..size(x.q) - 1
    /\ Indexed(x.q, x.at, gone)
    /\ \A i \in 1..size(x.q) - 1 : PARENT_OF(i) # x.at => Ordered(x.q, i)
    /\ \A i \in 1..size(x.q) - 1 : PARENT_OF(i) = x.at /\ x.at > 0 =>
          Key(x.q, x.q.array[PARENT_OF(x.at)]) <= Key(x.q, x.q.array[i])

Settled(x) == \A i \in 1..size(x.q) - 1 : PARENT_OF(i) = x.at => Ordered(x.q, i)

(* which finds the child that goes before the other. *)
LEMMA Which ==
    ASSUME NEW q \in States, NEW at \in Nat, LEFT_OF(at) < size(q)
    PROVE  /\ which(at, q) \in 1..size(q) - 1
           /\ PARENT_OF(which(at, q)) = at
           /\ which(at, q) > at
           /\ \A i \in 1..size(q) - 1 : PARENT_OF(i) = at =>
                 Key(q, q.array[which(at, q)]) <= Key(q, q.array[i])
<1> DEFINE l == LEFT_OF(at)
           r == RIGHT_OF(at)
           n == size(q)
<1>1. n \in Nat /\ q.array \in [0..n - 1 -> Vertices]
  BY Size
<1>2. l \in 1..n - 1 /\ l > at /\ r \in Nat /\ r > at /\ r > 0
  BY <1>1, SMT DEF LEFT_OF, RIGHT_OF
<1>3. PARENT_OF(l) = at /\ PARENT_OF(r) = at
  BY <1>2, ParentOf, SMT
<1>4. \A i \in 1..n - 1 : PARENT_OF(i) = at => i = l \/ i = r
  BY <1>1, ParentOf, SMT
<1>5. \A i \in 0..n - 1 : q.array[i] \in Vertices
  BY <1>1
<1>6. CASE r < n /\ cmp(q, q.array[l], q.array[r]) > 0
  <2>1. which(at, q) = r /\ r \in 1..n - 1 /\ l \in 0..n - 1 /\ r \in 0..n - 1
    BY <1>1, <1>2, <1>6, SMT DEF which
  <2>2. Key(q, q.array[l]) > Key(q, q.array[r])
    BY <1>5, <1>6, <2>1, CmpIsKey
  <2>3. Key(q, q.array[l]) \in Nat /\ Key(q, q.array[r]) \in Nat
    BY <1>5, <2>1, CmpIsKey
  <2>4. Key(q, q.array[r]) <= Key(q, q.array[l]) /\ Key(q, q.array[r]) <= Key(q, q.array[r])
    BY <2>2, <2>3, SMT
  <2> HIDE DEF l, r, n
  <2> QED BY <1>2, <1>3, <1>4, <2>1, <2>4 DEF n
<1>7. CASE ~(r < n /\ cmp(q, q.array[l], q.array[r]) > 0)
  <2>1. which(at, q) = l /\ l \in 0..n - 1
    BY <1>1, <1>2, <1>7, SMT DEF which
  <2>2. Key(q, q.array[l]) <= Key(q, q.array[l])
    BY <1>5, <2>1, CmpIsKey, SMT
  <2>3. ASSUME r < n PROVE Key(q, q.array[l]) <= Key(q, q.array[r])
    <3>1. r \in 0..n - 1
      BY <1>1, <1>2, <2>3, SMT
    <3>2. ~(Key(q, q.array[l]) > Key(q, q.array[r]))
      BY <1>5, <1>7, <2>1, <2>3, <3>1, CmpIsKey
    <3>3. Key(q, q.array[l]) \in Nat /\ Key(q, q.array[r]) \in Nat
      BY <1>5, <2>1, <3>1, CmpIsKey
    <3> QED BY <3>2, <3>3, SMT
  <2>4. \A i \in 1..n - 1 : i < n
    BY <1>1, SMT
  <2> HIDE DEF l, r, n
  <2> QED BY <1>2, <1>3, <1>4, <2>1, <2>2, <2>3, <2>4 DEF n
<1> QED BY <1>6, <1>7

LEMMA TurnDown ==
    ASSUME NEW x \in Turns, NEW gone, DownInv(x, gone)
    PROVE  /\ turn_down(x) \in Turns
           /\ DownInv(turn_down(x), gone)
           /\ Frame(x.q, turn_down(x).q)
           /\ \/ turn_down(x).at > x.at
              \/ turn_down(x) = x /\ Settled(x)
<1> DEFINE q == x.q
           n == size(q)
           a == x.at
           c == which(a, q)
           r == Move(q, a, c)
<1>1. /\ q \in States /\ n \in Nat /\ a \in 0..n - 1 /\ a \in Nat
      /\ q.array \in [0..n - 1 -> Vertices]
  BY Size DEF DownInv, Turns
<1>2. \A i \in 0..n - 1 : q.array[i] \in Vertices
  BY <1>1
<1> DEFINE k(i) == Key(q, q.array[i])
<1>3. \A i \in 0..n - 1 : k(i) \in Nat
  BY <1>1, <1>2, CmpIsKey
<1>4. \A i \in 1..n - 1 : /\ i \in 0..n - 1 /\ PARENT_OF(i) \in 0..n - 1
                          /\ PARENT_OF(i) # i /\ PARENT_OF(i) < i
  BY <1>1, ParentOf, SMT
<1>5. CASE ~(HAVE_CHILD(a, q) /\ cmp(q, q.array[c], q.array[a]) <= 0)
  <2>1. turn_down(x) = x
    BY <1>5 DEF turn_down
  <2>2. ASSUME NEW i \in 1..n - 1, PARENT_OF(i) = a PROVE Ordered(q, i)
    <3>1. LEFT_OF(a) < n
      <4>1. i = LEFT_OF(a) \/ i = RIGHT_OF(a)
        BY <1>1, <2>2, ParentOf, SMT
      <4> QED BY <4>1, <1>1, SMT DEF LEFT_OF, RIGHT_OF
    <3>2. c \in 1..n - 1 /\ k(c) <= k(i)
      BY <1>1, <2>2, <3>1, Which
    <3>3. HAVE_CHILD(a, q)
      BY <1>1, <3>1, HaveChild
    <3>4. ~(k(c) <= k(a))
      BY <1>1, <1>2, <1>4, <1>5, <3>2, <3>3, CmpIsKey
    <3>5. k(c) \in Nat /\ k(a) \in Nat /\ k(i) \in Nat
      BY <1>1, <1>3, <1>4, <3>2
    <3> HIDE DEF k
    <3>6. k(a) <= k(i)
      BY <3>2, <3>4, <3>5, SMT
    <3> QED BY <3>6, <2>2 DEF k, Ordered
  <2> QED BY <2>1, <2>2, <1>1, FrameSame DEF Settled
<1>6. CASE HAVE_CHILD(a, q) /\ cmp(q, q.array[c], q.array[a]) <= 0
  <2>1. turn_down(x) = [at |-> c, q |-> r]
    BY <1>6 DEF turn_down
  <2>2. LEFT_OF(a) < n
    BY <1>1, <1>6, HaveChild
  <2>3. /\ c \in 1..n - 1 /\ PARENT_OF(c) = a /\ c > a
        /\ \A i \in 1..n - 1 : PARENT_OF(i) = a => k(c) <= k(i)
    BY <1>1, <2>2, Which
  <2>4. c \in 0..n - 1 /\ c \in Nat /\ a # c /\ k(c) <= k(a)
    <3>1. c \in 0..n - 1 /\ c \in Nat /\ a # c
      BY <1>1, <2>3, SMT
    <3> QED BY <1>1, <1>2, <1>6, <3>1, CmpIsKey
  <2> HIDE DEF c
  <2>5. /\ r \in States
        /\ Indexed(r, c, gone)
        /\ Frame(q, r)
        /\ \A v \in Vertices : Key(r, v) = Key(q, v)
        /\ r.array[a] = q.array[c]
        /\ r.array[c] = q.array[a]
        /\ \A i \in 0..n - 1 : i # a /\ i # c => r.array[i] = q.array[i]
    BY <1>1, <2>4, Moved DEF DownInv
  <2>6. size(r) = n
    BY <2>5 DEF Frame
  <2> DEFINE l(i) == Key(r, r.array[i])
  <2>7. /\ l(a) = k(c) /\ l(c) = k(a)
        /\ \A i \in 0..n - 1 : i # a /\ i # c => l(i) = k(i)
    BY <1>1, <1>2, <2>4, <2>5
  <2>8. /\ \A i \in 1..n - 1 : PARENT_OF(i) # a => k(PARENT_OF(i)) <= k(i)
        /\ \A i \in 1..n - 1 : PARENT_OF(i) = a /\ a > 0 => k(PARENT_OF(a)) <= k(i)
    BY DEF DownInv, Ordered
  <2> HIDE DEF k, l, r, a
  <2>9. ASSUME NEW i \in 1..n - 1, PARENT_OF(i) # c PROVE l(PARENT_OF(i)) <= l(i)
    <3>1. CASE i = c
      BY <3>1, <2>3, <2>4, <2>7
    <3>2. CASE i = a
      <4>1. a > 0 /\ k(PARENT_OF(a)) <= k(c)
        BY <3>2, <2>3, <2>8, SMT
      <4>2. l(PARENT_OF(a)) = k(PARENT_OF(a))
        BY <3>2, <2>7, <2>9, <1>4
      <4> QED BY <3>2, <4>1, <4>2, <2>7
    <3>3. CASE i # c /\ i # a /\ PARENT_OF(i) = a
      BY <3>3, <2>3, <2>7, <1>4
    <3>4. CASE i # c /\ i # a /\ PARENT_OF(i) # a
      BY <3>4, <2>7, <2>8, <2>9, <1>4
    <3> QED BY <3>1, <3>2, <3>3, <3>4
  <2>10. ASSUME NEW i \in 1..n - 1, PARENT_OF(i) = c PROVE l(PARENT_OF(c)) <= l(i)
    <3>1. i # a /\ i # c /\ PARENT_OF(i) # a
      <4>1. PARENT_OF(i) < i
        BY <1>4
      <4> QED BY <4>1, <2>3, <2>4, <2>10, <1>1, SMT
    <3> QED BY <3>1, <2>3, <2>7, <2>8, <2>10, <1>4
  <2>11. DownInv([at |-> c, q |-> r], gone)
    BY <2>4, <2>5, <2>6, <2>9, <2>10 DEF DownInv, Ordered, l
  <2>12. turn_down(x).at = c /\ turn_down(x).q = r /\ turn_down(x) \in Turns
    BY <2>1, <2>4, <2>5, SMT DEF Turns
  <2> QED BY <2>1, <2>3, <2>5, <2>11, <2>12 DEF a
<1> QED BY <1>5, <1>6

LEMMA TrickleDown ==
    ASSUME NEW q \in States, NEW gone, DownInv([at |-> 0, q |-> q], gone)
    PROVE  LET r == trickle_down(0, q)
           IN  /\ r \in States
               /\ Indexed(r, -1, gone)
               /\ \A i \in 1..size(r) - 1 : Ordered(r, i)
               /\ Frame(q, r)
<1> DEFINE S  == {x \in Turns : DownInv(x, gone) /\ Frame(q, x.q)}
           x0 == [at |-> 0, q |-> q]
           m  == size(q)
           F  == [n \in 1..m |-> [x \in S |-> turn_down(x)]]
           G(f) == f = [n \in 0..m |-> IF n = 0 THEN x0 ELSE turn_down(f[n - 1])]
           g  == CHOOSE f : G(f)
<1>1. x0 \in S
  <2>1. x0 \in Turns /\ x0.q = q
    BY SMT DEF Turns
  <2> QED BY <2>1, FrameSame
<1>2. ASSUME NEW x \in S PROVE turn_down(x) \in S
  <2>1. /\ turn_down(x) \in Turns /\ DownInv(turn_down(x), gone)
        /\ Frame(q, x.q) /\ Frame(x.q, turn_down(x).q)
    BY TurnDown
  <2> QED BY <2>1, FrameTrans
<1>3. trickle_down(0, q) = update(g[m].q, g[m].at)
  BY DEF trickle_down
<1>4. m \in Nat
  BY Size
<1> HIDE DEF S, x0, m
<1>5. G(g)
  <2>1. Closed(m, S, F)
    BY <1>2 DEF Closed
  <2> HIDE DEF F
  <2>2. PICK f \in [0..m -> S] : IsLoop(f, m, x0, F)
    BY <1>1, <1>4, <2>1, Loop
  <2>3. ASSUME NEW n \in 0..m, n # 0 PROVE F[n][f[n - 1]] = turn_down(f[n - 1])
    <3>1. n \in 1..m /\ n - 1 \in 0..m
      BY <1>4, <2>3, SMT
    <3> QED BY <3>1 DEF F
  <2>4. G(f)
    BY <2>2, <2>3 DEF IsLoop
  <2> HIDE DEF G
  <2> QED BY <2>4
<1> HIDE DEF g
<1>6. g[0] = x0 /\ \A n \in 1..m : g[n] = turn_down(g[n - 1])
  BY <1>4, <1>5, SMT
<1> DEFINE Moving(x, n) == x.at >= n \/ (turn_down(x) = x /\ Settled(x))
           P == {n \in 0..m : g[n] \in S /\ Moving(g[n], n)}
<1>7. 0 \in P
  BY <1>1, <1>4, <1>6, SMT DEF x0
<1>8. ASSUME NEW n \in 1..m, n - 1 \in P PROVE n \in P
  <2> DEFINE x == g[n - 1]
             y == g[n]
  <2>1. x \in S /\ Moving(x, n - 1) /\ y = turn_down(x) /\ y \in S
    BY <1>2, <1>6, <1>8
  <2>2. \/ y.at > x.at
        \/ y = x /\ Settled(x)
    BY <2>1, TurnDown DEF S
  <2>3. x.at \in Nat /\ y.at \in Nat
    BY <2>1, SMT DEF S, Turns
  <2> HIDE DEF x, y
  <2>4. Moving(y, n)
    <3>1. CASE y = x /\ Settled(x)
      BY <3>1, <2>1
    <3>2. CASE y.at > x.at /\ x.at >= n - 1
      BY <3>2, <2>3, SMT
    <3>3. CASE turn_down(x) = x /\ Settled(x)
      BY <3>3, <2>1
    <3> QED BY <2>1, <2>2, <3>1, <3>2, <3>3
  <2>5. n \in 0..m
    BY <1>4, SMT
  <2> QED BY <2>1, <2>4, <2>5 DEF y
<1>9. m \in P
  <2> HIDE DEF P
  <2> QED BY <1>4, <1>7, <1>8, Upto, SMT
<1> DEFINE x == g[m]
<1>10. DownInv(x, gone) /\ Frame(q, x.q) /\ Moving(x, m) /\ x \in Turns
  BY <1>9 DEF S
<1> HIDE DEF x, P
<1>11. Settled(x)
  <2>1. size(x.q) = m /\ x.at \in 0..m - 1
    BY <1>10 DEF DownInv, Frame, m
  <2>2. ~(x.at >= m)
    BY <1>4, <2>1, SMT
  <2> QED BY <1>10, <2>2
<1> DEFINE r == update(x.q, x.at)
<1>12. /\ r \in States
       /\ Indexed(r, -1, gone)
       /\ Frame(x.q, r)
       /\ r.array = x.q.array
       /\ \A v \in Vertices : Key(r, v) = Key(x.q, v)
  BY <1>10, Updated DEF DownInv
<1> HIDE DEF r
<1>13. \A i \in 1..size(x.q) - 1 : Ordered(x.q, i)
  BY <1>10, <1>11 DEF DownInv, Settled
<1>14. \A i \in 1..size(r) - 1 : Ordered(r, i)
  <2>1. size(r) = size(x.q)
    BY <1>12 DEF Frame
  <2>2. ASSUME NEW i \in 1..size(x.q) - 1 PROVE Ordered(r, i)
    <3>1. x.q.array \in [0..size(x.q) - 1 -> Vertices] /\ size(x.q) \in Nat
      BY <1>10, Size DEF DownInv
    <3>2. i \in 0..size(x.q) - 1 /\ PARENT_OF(i) \in 0..size(x.q) - 1
      BY <3>1, ParentOf, SMT
    <3>3. x.q.array[i] \in Vertices /\ x.q.array[PARENT_OF(i)] \in Vertices
      BY <3>1, <3>2
    <3> QED BY <3>3, <1>12, <1>13 DEF Ordered
  <2> QED BY <2>1, <2>2
<1>15. Frame(q, r)
  BY <1>10, <1>12, FrameTrans
<1> QED BY <1>3, <1>12, <1>14, <1>15 DEF r, x

(* No candidate goes before the first. *)
LEMMA TopFirst ==
    ASSUME NEW q \in States, Heap(q), size(q) > 0
    PROVE  /\ q.array[0] \in Vertices
           /\ \A i \in 0..size(q) - 1 : Key(q, q.array[0]) <= Key(q, q.array[i])
<1> DEFINE n == size(q)
           k(i) == Key(q, q.array[i])
           B == {i \in 0..n - 1 : ~(k(0) <= k(i))}
<1>1. n \in Nat /\ q.array \in [0..n - 1 -> Vertices]
  BY Size
<1>2. 0 \in 0..n - 1
  BY <1>1, SMT
<1>3. \A i \in 0..n - 1 : q.array[i] \in Vertices
  BY <1>1
<1>4. \A i \in 0..n - 1 : k(i) \in Nat
  BY <1>3, CmpIsKey
<1>5. \A i \in 1..n - 1 : k(PARENT_OF(i)) <= k(i)
  BY DEF Heap, Ordered
<1> HIDE DEF k, n
<1>6. ASSUME B # {} PROVE FALSE
  <2>1. B \in SUBSET Nat
    BY <1>1, SMT
  <2>2. PICK l \in B : \A i \in B : l <= i
    <3> HIDE DEF B
    <3> QED BY <1>6, <2>1, Least
  <2>3. l # 0 /\ l \in 0..n - 1
    BY <1>2, <1>4, SMT
  <2>4. l \in 1..n - 1 /\ l \in Nat /\ l > 0
    BY <1>1, <2>3, SMT
  <2>5. PARENT_OF(l) \in 0..l - 1
    BY <2>4, ParentOf
  <2>6. PARENT_OF(l) \in 0..n - 1 /\ ~(l <= PARENT_OF(l))
    BY <1>1, <2>4, <2>5, SMT
  <2>7. k(0) <= k(PARENT_OF(l))
    BY <2>2, <2>6
  <2>8. k(PARENT_OF(l)) <= k(l) /\ ~(k(0) <= k(l))
    BY <1>5, <2>4
  <2> QED BY <1>2, <1>4, <2>3, <2>6, <2>7, <2>8, SMT
<1>7. \A i \in 0..n - 1 : k(0) <= k(i)
  BY <1>6
<1> QED BY <1>2, <1>3, <1>7 DEF k, n

(* The queue holds the vertices whose stat is a position. *)
LEMMA MembersHaveStat ==
    ASSUME NEW q \in States, Heap(q)
    PROVE  /\ Members(q) \subseteq Vertices
           /\ \A v \in Vertices : q.stat[v] >= 0 <=> v \in Members(q)
           /\ \A v \in Members(q) : /\ q.stat[v] \in 0..size(q) - 1
                                    /\ q.array[q.stat[v]] = v
<1>1. /\ size(q) \in Nat /\ q.array \in [0..size(q) - 1 -> Vertices]
      /\ DOMAIN q.array = 0..size(q) - 1
  BY Size
<1>2. Members(q) \subseteq Vertices
  BY <1>1 DEF Members
<1>3. ASSUME NEW v \in Members(q)
      PROVE  q.stat[v] \in 0..size(q) - 1 /\ q.array[q.stat[v]] = v
  <2>1. PICK i \in 0..size(q) - 1 : v = q.array[i]
    BY <1>1 DEF Members
  <2>2. i # -1
    BY <1>1, SMT
  <2>3. q.stat[v] = i
    BY <2>1, <2>2 DEF Heap, Indexed
  <2> QED BY <2>1, <2>3
<1>4. ASSUME NEW v \in Vertices PROVE q.stat[v] >= 0 <=> v \in Members(q)
  <2>1. q.stat[v] \in Int
    BY SMT DEF States
  <2>2. v \notin Members(q) => q.stat[v] < 0
    BY DEF Heap, Indexed
  <2>3. v \in Members(q) => q.stat[v] >= 0
    BY <1>1, <1>3, SMT
  <2> QED BY <2>1, <2>2, <2>3, SMT
<1> QED BY <1>2, <1>3, <1>4

LEMMA Enqueued ==
    ASSUME NEW q \in States, Heap(q), NEW w \in Vertices, w \notin Members(q)
    PROVE  LET r == pqueue_enqueue(w, q)
           IN  /\ r \in States
               /\ Heap(r)
               /\ Members(r) = Members(q) \cup {w}
               /\ r = [q EXCEPT !.array = r.array, !.stat = r.stat]
               /\ \A v \in Vertices : v \notin Members(r) => r.stat[v] = q.stat[v]
<1> DEFINE n == size(q)
           a == [i \in 0..n |-> IF i = n THEN w ELSE q.array[i]]
           p == [q EXCEPT !.array = a]
           r == trickle_up(n, p)
<1>1. /\ n \in Nat /\ q.array \in [0..n - 1 -> Vertices]
      /\ DOMAIN q.array = 0..n - 1
  BY Size
<1>2. pqueue_enqueue(w, q) = r
  BY SMT DEF pqueue_enqueue, States
<1>3. /\ \A i \in 0..n : i # n => i \in 0..n - 1
      /\ \A i \in 0..n - 1 : i \in 0..n /\ i # n /\ i # -1
      /\ n \in 0..n /\ (n + 1) - 1 = n /\ n + 1 \in Nat
  BY <1>1, SMT
<1>4. /\ a \in [0..n -> Vertices]
      /\ a[n] = w
      /\ \A i \in 0..n - 1 : a[i] = q.array[i]
  BY <1>1, <1>3
<1> HIDE DEF a, n
<1>5. /\ p.array = a /\ p.stat = q.stat /\ p.dist = q.dist
      /\ p = [q EXCEPT !.array = p.array, !.stat = p.stat]
  BY DEF States
<1>6. size(p) = n + 1 /\ a \in Arrays
  <2>1. p.array \in [0..(n + 1) - 1 -> Vertices]
    BY <1>3, <1>4, <1>5
  <2> HIDE DEF p
  <2> QED BY <1>3, <1>5, <2>1, SizeOf
<1>7. p \in States
  BY <1>6 DEF States
<1> HIDE DEF p, r
<1>8. Members(p) = Members(q) \cup {w}
  <2>1. Members(p) = {a[i] : i \in 0..n} /\ Members(q) = {q.array[i] : i \in 0..n - 1}
    <3>1. DOMAIN p.array = 0..n
      BY <1>4, <1>5
    <3>2. Members(p) = {a[i] : i \in 0..n}
      BY <3>1, <1>5 DEF Members
    <3> QED BY <3>2, <1>1 DEF Members
  <2> QED BY <2>1, <1>3, <1>4
<1>9. \A i \in 0..n - 1 : q.array[i] # w
  BY <1>1 DEF Members
<1>10. Indexed(p, n, {})
  <2>1. ASSUME NEW i \in 0..n, NEW j \in 0..n, a[i] = a[j] PROVE i = j
    <3>1. \A k, l \in 0..n - 1 : q.array[k] = q.array[l] => k = l
      BY DEF Heap, Indexed, n
    <3> QED BY <2>1, <3>1, <1>3, <1>4, <1>9
  <2>2. ASSUME NEW i \in 0..n, i # n PROVE q.stat[a[i]] = i
    BY <2>2, <1>3, <1>4 DEF Heap, Indexed, n
  <2>3. ASSUME NEW v \in Vertices, v \notin Members(p) PROVE q.stat[v] < 0
    BY <2>3, <1>8 DEF Heap, Indexed
  <2> QED BY <2>1, <2>2, <2>3, <1>3, <1>5, <1>6 DEF Indexed
<1>11. UpInv([at |-> n, q |-> p])
  <2>1. \A i \in 1..n : i # n => i \in 1..n - 1 /\ i \in 0..n - 1 /\ PARENT_OF(i) \in 0..n - 1
    BY <1>1, ParentOf, SMT
  <2>2. \A i \in 1..n : PARENT_OF(i) # n
    BY <1>1, ParentOf, SMT
  <2>3. ASSUME NEW i \in 1..n, i # n PROVE Ordered(p, i)
    <3>1. Ordered(q, i)
      BY <2>1, <2>3 DEF Heap, n
    <3>2. p.array[i] = q.array[i] /\ p.array[PARENT_OF(i)] = q.array[PARENT_OF(i)]
      BY <2>1, <2>3, <1>4, <1>5
    <3> QED BY <3>1, <3>2, <1>5 DEF Ordered, Key
  <2> QED BY <1>3, <1>6, <1>7, <1>10, <2>2, <2>3 DEF UpInv
<1>12. r \in States /\ Heap(r) /\ Frame(p, r)
  BY <1>1, <1>7, <1>11, TrickleUp DEF r
<1>13. r = [q EXCEPT !.array = r.array, !.stat = r.stat]
  BY <1>5, <1>12 DEF Frame, States
<1> QED BY <1>2, <1>5, <1>8, <1>12, <1>13 DEF Frame

LEMMA Dequeued ==
    ASSUME NEW q \in States, Heap(q), size(q) > 0
    PROVE  LET r == pqueue_dequeue(q)
               v == q.array[0]
           IN  /\ r \in States
               /\ Indexed(r, -1, {v})
               /\ \A i \in 1..size(r) - 1 : Ordered(r, i)
               /\ Members(r) = Members(q) \ {v}
               /\ r = [q EXCEPT !.array = r.array, !.stat = r.stat]
               /\ \A u \in Vertices : u \notin Members(q) => r.stat[u] = q.stat[u]
<1> DEFINE n == size(q) - 1
           v == q.array[0]
           r == pqueue_dequeue(q)
<1>1. /\ size(q) \in Nat /\ n \in Nat /\ q.array \in [0..n -> Vertices]
      /\ DOMAIN q.array = 0..n /\ 0 \in 0..n
  <2>1. size(q) \in Nat /\ q.array \in [0..n -> Vertices] /\ DOMAIN q.array = 0..n
    BY Size
  <2>2. n \in Nat /\ 0 \in 0..n
    BY <2>1, SMT
  <2> QED BY <2>1, <2>2
<1>2. /\ \A i, j \in 0..n : q.array[i] = q.array[j] => i = j
      /\ \A i \in 0..n : q.stat[q.array[i]] = i
      /\ \A u \in Vertices : u \notin Members(q) => q.stat[u] < 0
      /\ \A i \in 1..n : Ordered(q, i)
  <2>1. \A i \in 0..n : i # -1
    BY <1>1, SMT
  <2> QED BY <2>1 DEF Heap, Indexed
<1>3. v \in Vertices /\ Members(q) = {q.array[i] : i \in 0..n}
  BY <1>1 DEF Members
<1>4. CASE n = 0
  <2> DEFINE a == [i \in {} |-> 0]
             t == [q.stat EXCEPT ![v] = 0]
  <2>1. r = [q EXCEPT !.array = a, !.stat = t]
    BY <1>4, SMT DEF pqueue_dequeue, States
  <2>2. t = q.stat
    <3>1. q.stat[v] = 0 /\ q.stat \in [Vertices -> Int]
      BY <1>1, <1>2 DEF States
    <3> QED BY <3>1, <1>3, SMT
  <2>3. a \in [0..0 - 1 -> Vertices]
    BY SMT
  <2>4. r.array = a /\ r.stat = q.stat /\ r = [q EXCEPT !.array = r.array, !.stat = r.stat]
    BY <2>1, <2>2, SMT DEF States
  <2> HIDE DEF a, t, r, v
  <2>5. size(r) = 0 /\ a \in Arrays
    BY <2>3, <2>4, SizeOf
  <2>6. r \in States
    BY <2>1, <2>2, <2>5 DEF States
  <2>7. Members(r) = {} /\ Members(q) = {v}
    <3>1. \A i \in 0..n : i = 0
      BY <1>4, SMT
    <3>2. DOMAIN r.array = {}
      BY <2>3, <2>4, SMT
    <3> QED BY <1>1, <1>3, <3>1, <3>2 DEF Members, v
  <2>8. Indexed(r, -1, {v})
    <3>1. 0..size(r) - 1 = {}
      BY <2>5, SMT
    <3> QED BY <3>1, <2>4, <2>7, <1>2 DEF Indexed
  <2>9. 1..size(r) - 1 = {}
    BY <2>5, SMT
  <2> QED BY <2>4, <2>6, <2>7, <2>8, <2>9 DEF r, v
<1>5. CASE n # 0
  <2> DEFINE a == [i \in 0..n - 1 |-> IF i = 0 THEN q.array[n] ELSE q.array[i]]
             p == [q EXCEPT !.array = a]
             d == trickle_down(0, p)
  <2>1. r = d
    BY <1>5, SMT DEF pqueue_dequeue, States
  <2>2. /\ \A i \in 0..n - 1 : i \in 0..n /\ i # n
        /\ \A i \in 0..n : i # n => i \in 0..n - 1
        /\ n \in 0..n /\ 0 \in 0..n - 1 /\ n # 0
    BY <1>1, <1>5, SMT
  <2>3. /\ a \in [0..n - 1 -> Vertices]
        /\ a[0] = q.array[n]
        /\ \A i \in 0..n - 1 : i # 0 => a[i] = q.array[i]
    BY <1>1, <2>2
  <2> HIDE DEF a
  <2>4. /\ p.array = a /\ p.stat = q.stat /\ p.dist = q.dist
        /\ p = [q EXCEPT !.array = p.array, !.stat = p.stat]
    BY DEF States
  <2> HIDE DEF p
  <2>5. size(p) = n /\ a \in Arrays
    BY <1>1, <2>3, <2>4, SizeOf
  <2>6. p \in States
    BY <2>5 DEF States, p
  <2> HIDE DEF r, d, v, n
  <2>7. Members(p) = Members(q) \ {v}
    <3>1. Members(p) = {a[i] : i \in 0..n - 1}
      BY <2>3, <2>4 DEF Members
    <3>2. ASSUME NEW i \in 0..n - 1 PROVE a[i] \in Members(q) /\ a[i] # v
      <4>1. ASSUME NEW j \in 0..n, j # 0 PROVE q.array[j] \in Members(q) /\ q.array[j] # v
        <5>1. q.array[j] \in Members(q)
          BY <1>3
        <5>2. q.array[j] = q.array[0] => j = 0
          BY <1>1, <1>2
        <5> QED BY <4>1, <5>1, <5>2 DEF v
      <4>2. CASE i = 0
        BY <4>1, <4>2, <2>2, <2>3
      <4>3. CASE i # 0
        BY <4>1, <4>3, <2>2, <2>3
      <4> QED BY <4>2, <4>3
    <3>3. ASSUME NEW i \in 0..n, q.array[i] # v PROVE q.array[i] \in Members(p)
      <4>1. CASE i = n
        BY <4>1, <3>1, <2>2, <2>3
      <4>2. CASE i # n
        BY <4>2, <3>1, <3>3, <2>2, <2>3 DEF v
      <4> QED BY <4>1, <4>2
    <3> QED BY <1>3, <3>1, <3>2, <3>3
  <2>8. Indexed(p, 0, {v})
    <3>1. ASSUME NEW i \in 0..n - 1, NEW j \in 0..n - 1, a[i] = a[j] PROVE i = j
      BY <3>1, <1>2, <2>2, <2>3
    <3>2. ASSUME NEW i \in 0..n - 1, i # 0 PROVE q.stat[a[i]] = i
      BY <3>2, <1>2, <2>2, <2>3
    <3>3. ASSUME NEW u \in Vertices, u \notin Members(p), u # v PROVE q.stat[u] < 0
      BY <3>3, <1>2, <2>7
    <3> QED BY <3>1, <3>2, <3>3, <2>4, <2>5 DEF Indexed
  <2>9. DownInv([at |-> 0, q |-> p], {v})
    <3>1. ASSUME NEW i \in 1..n - 1, PARENT_OF(i) # 0 PROVE Ordered(p, i)
      <4>1. /\ i \in 0..n - 1 /\ PARENT_OF(i) \in 0..n - 1 /\ i \in 1..n /\ i # 0
        BY <1>1, ParentOf, SMT
      <4>2. p.array[i] = q.array[i] /\ p.array[PARENT_OF(i)] = q.array[PARENT_OF(i)]
        BY <2>3, <2>4, <3>1, <4>1
      <4>3. Ordered(q, i)
        BY <1>2, <4>1
      <4> QED BY <4>2, <4>3, <2>4 DEF Ordered, Key
    <3>2. ~(0 > 0)
      BY SMT
    <3> QED BY <2>2, <2>5, <2>6, <2>8, <3>1, <3>2 DEF DownInv
  <2>10. /\ d \in States
         /\ Indexed(d, -1, {v})
         /\ \A i \in 1..size(d) - 1 : Ordered(d, i)
         /\ Frame(p, d)
    BY <2>6, <2>9, TrickleDown DEF d
  <2>11. d = [q EXCEPT !.array = d.array, !.stat = d.stat]
    BY <2>4, <2>10 DEF Frame, States
  <2> QED BY <2>1, <2>4, <2>7, <2>10, <2>11 DEF Frame, r, v
<1> QED BY <1>4, <1>5

-----------------------------------------------------------------------------
(* What a link does to the queue and to the tree *)

Tree(s)       == {v \in Vertices : s.stat[v] = LSA_SPF_IN_SPFTREE}
Candidates(s) == {v \in Vertices : s.stat[v] >= 0}
Explored(s)   == Tree(s) \cup Candidates(s)

Good(s) ==
    /\ s \in States
    /\ Heap(s)
    /\ \A v \in Vertices : s.stat[v] < 0 => s.stat[v] \in {LSA_SPF_NOT_EXPLORED, LSA_SPF_IN_SPFTREE}

(* Vertex w gets distance d and the parents ps. *)
With(s, w, d, ps) == [s EXCEPT !.dist[w] = d, !.parents[w] = ps]

LEMMA WithFields ==
    ASSUME NEW s \in States, NEW w \in Vertices, NEW d \in Nat, NEW ps \in SUBSET Parents
    PROVE  /\ With(s, w, d, ps).children = s.children
           /\ With(s, w, d, ps).room = s.room
           /\ With(s, w, d, ps).whole = s.whole
           /\ With(s, w, d, ps).dist = [s.dist EXCEPT ![w] = d]
           /\ With(s, w, d, ps).parents = [s.parents EXCEPT ![w] = ps]
  BY SMT DEF With, States

LEMMA WithQueue ==
    ASSUME NEW s \in States, NEW w \in Vertices, NEW d \in Nat, NEW ps \in SUBSET Parents
    PROVE  /\ With(s, w, d, ps) \in States
           /\ With(s, w, d, ps).array = s.array
           /\ With(s, w, d, ps).stat = s.stat
           /\ size(With(s, w, d, ps)) = size(s)
           /\ Members(With(s, w, d, ps)) = Members(s)
           /\ \A at, gone : Indexed(s, at, gone) => Indexed(With(s, w, d, ps), at, gone)
           /\ \A u \in Vertices : u # w => Key(With(s, w, d, ps), u) = Key(s, u)
           /\ d <= s.dist[w] => Key(With(s, w, d, ps), w) <= Key(s, w)
           /\ d = s.dist[w] => Key(With(s, w, d, ps), w) = Key(s, w)
<1> DEFINE r == With(s, w, d, ps)
           e == [s.dist EXCEPT ![w] = d]
           p == [s.parents EXCEPT ![w] = ps]
<1>1. r = [s EXCEPT !.dist = e, !.parents = p]
  BY SMT DEF With, States
<1>2. e \in [Vertices -> Nat] /\ e[w] = d /\ \A u \in Vertices : u # w => e[u] = s.dist[u]
  BY SMT DEF States
<1>3. p \in [Vertices -> SUBSET Parents]
  BY SMT DEF States
<1> HIDE DEF e, p
<1>4. r \in States /\ r.array = s.array /\ r.stat = s.stat /\ r.dist = e
  BY <1>1, <1>2, <1>3 DEF States
<1> HIDE DEF r
<1>5. size(r) = size(s) /\ Members(r) = Members(s)
  BY <1>4 DEF size, Members
<1>6. \A at, gone : Indexed(s, at, gone) => Indexed(r, at, gone)
  BY <1>4, <1>5 DEF Indexed
<1>7. \A u \in Vertices : u # w => Key(r, u) = Key(s, u)
  BY <1>2, <1>4 DEF Key
<1>8. s.dist[w] \in Nat
  BY SMT DEF States
<1>9. /\ d <= s.dist[w] => Key(r, w) <= Key(s, w)
      /\ d = s.dist[w] => Key(r, w) = Key(s, w)
  BY <1>2, <1>4, <1>8, SMT DEF Key
<1> QED BY <1>4, <1>5, <1>6, <1>7, <1>9 DEF r

(* The order is kept by the change of a vertex that is not in the queue, or  *)
(* of its parents only.                                                      *)
LEMMA WithKeepsHeap ==
    ASSUME NEW s \in States, Heap(s), NEW w \in Vertices, NEW d \in Nat,
           NEW ps \in SUBSET Parents, w \notin Members(s) \/ d = s.dist[w]
    PROVE  Heap(With(s, w, d, ps))
<1> DEFINE r == With(s, w, d, ps)
<1>1. /\ r.array = s.array /\ size(r) = size(s)
      /\ Indexed(r, -1, {})
      /\ \A u \in Vertices : u # w => Key(r, u) = Key(s, u)
      /\ d = s.dist[w] => Key(r, w) = Key(s, w)
  <2>1. Indexed(s, -1, {})
    BY DEF Heap
  <2>2. r.array = s.array /\ size(r) = size(s) /\ Indexed(r, -1, {})
    BY <2>1, WithQueue
  <2>3. /\ \A u \in Vertices : u # w => Key(r, u) = Key(s, u)
        /\ d = s.dist[w] => Key(r, w) = Key(s, w)
    BY WithQueue
  <2> QED BY <2>2, <2>3
<1> HIDE DEF r
<1>2. /\ size(s) \in Nat /\ s.array \in [0..size(s) - 1 -> Vertices]
      /\ DOMAIN s.array = 0..size(s) - 1
  BY Size
<1>3. \A i \in 0..size(s) - 1 : Key(r, s.array[i]) = Key(s, s.array[i])
  <2> TAKE i \in 0..size(s) - 1
  <2>1. s.array[i] \in Vertices /\ s.array[i] \in Members(s)
    BY <1>2 DEF Members
  <2> QED BY <2>1, <1>1
<1>4. ASSUME NEW i \in 1..size(s) - 1 PROVE Ordered(r, i)
  <2>1. i \in 0..size(s) - 1 /\ PARENT_OF(i) \in 0..size(s) - 1
    BY <1>2, ParentOf, SMT
  <2> QED BY <2>1, <1>1, <1>3 DEF Heap, Ordered
<1> QED BY <1>1, <1>4 DEF Heap, r

(* A candidate that comes nearer may only have to go up. *)
LEMMA WithNearer ==
    ASSUME NEW s \in States, Heap(s), NEW w \in Members(s), NEW d \in Nat,
           NEW ps \in SUBSET Parents, d <= s.dist[w]
    PROVE  UpInv([at |-> s.stat[w], q |-> With(s, w, d, ps)])
<1> DEFINE r == With(s, w, d, ps)
           c == s.stat[w]
           n == size(s)
<1>1. w \in Vertices /\ c \in 0..n - 1 /\ s.array[c] = w
  BY MembersHaveStat
<1>2. /\ r \in States /\ r.array = s.array /\ size(r) = n /\ r.stat = s.stat
      /\ Members(r) = Members(s)
      /\ \A u \in Vertices : u # w => Key(r, u) = Key(s, u)
      /\ Key(r, w) <= Key(s, w)
  <2>1. r \in States /\ r.array = s.array /\ size(r) = n /\ r.stat = s.stat
    BY <1>1, WithQueue
  <2>2. Members(r) = Members(s) /\ Key(r, w) <= Key(s, w)
    BY <1>1, WithQueue
  <2>3. \A u \in Vertices : u # w => Key(r, u) = Key(s, u)
    BY <1>1, WithQueue
  <2> QED BY <2>1, <2>2, <2>3
<1>3. Indexed(r, c, {})
  <2>1. Indexed(r, -1, {})
    BY <1>1, WithQueue DEF Heap
  <2>2. \A i \in 0..n - 1 : i # -1
    BY SMT
  <2> HIDE DEF r
  <2> QED BY <1>2, <2>1, <2>2 DEF Indexed
<1> HIDE DEF r, c
<1>4. /\ n \in Nat /\ s.array \in [0..n - 1 -> Vertices]
  BY Size
<1> DEFINE k(i) == Key(s, s.array[i])
           l(i) == Key(r, r.array[i])
<1>5. \A i \in 0..n - 1 : i # c => l(i) = k(i)
  <2> TAKE i \in 0..n - 1
  <2>1. s.array[i] \in Vertices
    BY <1>4
  <2>2. s.array[i] = s.array[c] => i = c
    BY <1>1 DEF Heap, Indexed
  <2> QED BY <1>1, <1>2, <2>1, <2>2
<1>6. l(c) <= k(c)
  BY <1>1, <1>2
<1>7. \A i \in 0..n - 1 : k(i) \in Nat /\ l(i) \in Nat
  <2> TAKE i \in 0..n - 1
  <2>1. s.array[i] \in Vertices
    BY <1>4
  <2> QED BY <2>1, <1>2, CmpIsKey
<1>8. \A i \in 1..n - 1 : k(PARENT_OF(i)) <= k(i)
  BY DEF Heap, Ordered
<1>9. \A i \in 1..n - 1 : i \in 0..n - 1 /\ PARENT_OF(i) \in 0..n - 1 /\ PARENT_OF(i) # i
  BY <1>4, ParentOf, SMT
<1> HIDE DEF k, l
<1>10. ASSUME NEW i \in 1..n - 1, i # c PROVE l(PARENT_OF(i)) <= l(i)
  <2>1. k(PARENT_OF(i)) <= k(i) /\ l(i) = k(i)
    BY <1>5, <1>8, <1>9, <1>10
  <2>2. l(PARENT_OF(i)) <= k(PARENT_OF(i))
    <3>1. CASE PARENT_OF(i) = c
      BY <3>1, <1>6
    <3>2. CASE PARENT_OF(i) # c
      BY <3>2, <1>5, <1>7, <1>9, SMT
    <3> QED BY <3>1, <3>2
  <2>3. l(PARENT_OF(i)) \in Nat /\ k(PARENT_OF(i)) \in Nat /\ k(i) \in Nat
    BY <1>7, <1>9
  <2> QED BY <2>1, <2>2, <2>3, SMT
<1>11. ASSUME NEW i \in 1..n - 1, PARENT_OF(i) = c, c > 0 PROVE l(PARENT_OF(c)) <= l(i)
  <2>1. c \in 1..n - 1
    BY <1>1, <1>4, <1>11, SMT
  <2>2. l(PARENT_OF(c)) = k(PARENT_OF(c)) /\ k(PARENT_OF(c)) <= k(c)
    BY <2>1, <1>5, <1>8, <1>9
  <2>3. k(c) <= k(i) /\ l(i) = k(i)
    BY <1>5, <1>8, <1>9, <1>11
  <2>4. k(PARENT_OF(c)) \in Nat /\ k(c) \in Nat /\ k(i) \in Nat
    BY <1>7, <1>9, <2>1
  <2> QED BY <2>2, <2>3, <2>4, SMT
<1>12. UpInv([at |-> c, q |-> r])
  BY <1>1, <1>2, <1>3, <1>10, <1>11 DEF UpInv, Ordered, l
<1> QED BY <1>12 DEF r, c

Length(v, i)      == IF v \in Routers THEN Links(v)[i].metric ELSE 0
Distance(s, v, i) == s.dist[v] + Length(v, i)
Kept(s, w, d)     == IF d = s.dist[w] THEN s.parents[w] ELSE {}
Added(v, hops, k) == {[parent |-> v, hop |-> h] : h \in hops \ {p.hop : p \in k}}

(* The parents w gets through link i of v. *)
NewParents(s, v, i, w) ==
    Kept(s, w, Distance(s, v, i))
      \cup Added(v, Hops(s, v, i, w), Kept(s, w, Distance(s, v, i)))

(* Whether w gets them. *)
Takes(s, v, i, w) ==
    /\ Hops(s, v, i, w) # {}
    /\ w \notin Tree(s)
    /\ w \in Candidates(s) => ~(s.dist[w] < Distance(s, v, i))

LEMMA NewParentsType ==
    ASSUME NEW s \in States, NEW v \in Vertices, NEW i, NEW w \in Vertices,
           Hops(s, v, i, w) \subseteq Hop
    PROVE  NewParents(s, v, i, w) \in SUBSET Parents
<1> DEFINE k == Kept(s, w, Distance(s, v, i))
<1>1. k \subseteq Parents
  BY DEF Kept, States
<1>2. \A h \in Hop : [parent |-> v, hop |-> h] \in Parents
  BY SMT DEF Parents
<1> HIDE DEF k
<1>3. Added(v, Hops(s, v, i, w), k) \subseteq Parents
  BY <1>2 DEF Added
<1> QED BY <1>1, <1>3 DEF NewParents, k

LEMMA NexthopCalculation ==
    ASSUME NEW s, NEW v, NEW i, NEW w, Hops(s, v, i, w) # {}
    PROVE  ospf_nexthop_calculation(s, v, i, w, Distance(s, v, i)) =
             With(s, w, Distance(s, v, i), NewParents(s, v, i, w))
  BY DEF ospf_nexthop_calculation, With, NewParents, Added, Kept

(* Only the queue changes. *)
LEMMA QueueOnly ==
    ASSUME NEW q \in States, NEW r, r = [q EXCEPT !.array = r.array, !.stat = r.stat]
    PROVE  /\ r.dist = q.dist /\ r.parents = q.parents /\ r.children = q.children
           /\ r.room = q.room /\ r.whole = q.whole
  BY DEF States

(* The new record of a vertex, and the rest as it was. *)
Entry(s, r, w, d, ps) ==
    /\ r.dist[w] = d /\ r.parents[w] = ps
    /\ \A u \in Vertices : u # w => r.dist[u] = s.dist[u] /\ r.parents[u] = s.parents[u]
    /\ r.children = s.children /\ r.room = s.room /\ r.whole = s.whole

LEMMA WithEntry ==
    ASSUME NEW s \in States, NEW w \in Vertices, NEW d \in Nat, NEW ps \in SUBSET Parents
    PROVE  Entry(s, With(s, w, d, ps), w, d, ps)
<1> DEFINE r == With(s, w, d, ps)
           e == [s.dist EXCEPT ![w] = d]
           p == [s.parents EXCEPT ![w] = ps]
<1>1. /\ r.children = s.children /\ r.room = s.room /\ r.whole = s.whole
      /\ r.dist = e /\ r.parents = p
  BY WithFields, SMT
<1>2. /\ e[w] = d /\ \A u \in Vertices : u # w => e[u] = s.dist[u]
      /\ p[w] = ps /\ \A u \in Vertices : u # w => p[u] = s.parents[u]
  BY SMT DEF States
<1> HIDE DEF e, p, r
<1> QED BY <1>1, <1>2 DEF Entry, r

(* What a queue that is in order says of the vertices. *)
LEMMA QueueGood ==
    ASSUME NEW s, Good(s), NEW w \in Vertices, w \notin Tree(s), NEW r \in States, Heap(r),
           Members(r) = Members(s) \cup {w},
           \A u \in Vertices : u \notin Members(r) => r.stat[u] = s.stat[u]
    PROVE  /\ Good(r)
           /\ Tree(r) = Tree(s)
           /\ Candidates(r) = Candidates(s) \cup {w}
<1>1. \A u \in Vertices : s.stat[u] >= 0 <=> u \in Members(s)
  BY MembersHaveStat DEF Good
<1>2. \A u \in Vertices : r.stat[u] >= 0 <=> u \in Members(r)
  BY MembersHaveStat
<1>3. \A u \in Vertices : s.stat[u] \in Int /\ r.stat[u] \in Int
  BY SMT DEF Good, States
<1>4. Candidates(r) = Candidates(s) \cup {w}
  BY <1>1, <1>2 DEF Candidates
<1>5. \A u \in Vertices : r.stat[u] = LSA_SPF_IN_SPFTREE <=> s.stat[u] = LSA_SPF_IN_SPFTREE
  <2> TAKE u \in Vertices
  <2>1. CASE u \in Members(r)
    <3>1. r.stat[u] >= 0
      BY <1>2, <2>1
    <3>2. s.stat[u] >= 0 \/ u = w
      BY <1>1, <2>1
    <3>3. w \in Vertices /\ s.stat[w] # LSA_SPF_IN_SPFTREE
      BY DEF Tree
    <3> QED BY <1>3, <3>1, <3>2, <3>3, SMT DEF LSA_SPF_IN_SPFTREE
  <2>2. CASE u \notin Members(r)
    BY <2>2
  <2> QED BY <2>1, <2>2
<1>6. \A u \in Vertices : r.stat[u] < 0 => r.stat[u] = s.stat[u] /\ s.stat[u] < 0
  BY <1>2, <1>3, SMT
<1> QED BY <1>4, <1>5, <1>6 DEF Good, Tree

LEMMA Relaxed ==
    ASSUME NEW s, Good(s), NEW v \in Vertices, NEW i, NEW w \in Vertices,
           Distance(s, v, i) \in Nat, Hops(s, v, i, w) \subseteq Hop
    PROVE  IF Takes(s, v, i, w)
           THEN /\ Good(Relax(s, v, i, w))
                /\ Tree(Relax(s, v, i, w)) = Tree(s)
                /\ Candidates(Relax(s, v, i, w)) = Candidates(s) \cup {w}
                /\ Entry(s, Relax(s, v, i, w), w, Distance(s, v, i), NewParents(s, v, i, w))
           ELSE Relax(s, v, i, w) = s
<1> DEFINE d  == Distance(s, v, i)
           ps == NewParents(s, v, i, w)
           q  == With(s, w, d, ps)
           r  == Relax(s, v, i, w)
<1>1. s \in States /\ Heap(s)
  BY DEF Good
<1>2. ps \in SUBSET Parents
  BY <1>1, NewParentsType
<1>3. s.stat[w] \in Int /\ s.dist[w] \in Nat
  BY <1>1, SMT DEF States
<1>4. \/ s.stat[w] = LSA_SPF_NOT_EXPLORED
      \/ s.stat[w] = LSA_SPF_IN_SPFTREE
      \/ s.stat[w] >= 0
  BY <1>3, SMT DEF Good
<1>5. w \in Tree(s) <=> s.stat[w] = LSA_SPF_IN_SPFTREE
  BY DEF Tree
<1>6. w \in Candidates(s) <=> s.stat[w] >= 0
  BY DEF Candidates
<1>7. w \in Members(s) <=> s.stat[w] >= 0
  BY <1>1, MembersHaveStat
<1>8. CASE Hops(s, v, i, w) = {} \/ s.stat[w] = LSA_SPF_IN_SPFTREE
  <2>1. r = s
    BY <1>8 DEF Relax
  <2> QED BY <1>5, <1>8, <2>1 DEF Takes
<1>9. CASE Hops(s, v, i, w) # {} /\ s.stat[w] # LSA_SPF_IN_SPFTREE
  <2>1. ospf_nexthop_calculation(s, v, i, w, s.dist[v] +
             IF v \in Routers THEN Links(v)[i].metric ELSE 0) = q
    BY <1>9, NexthopCalculation DEF Distance, Length
  <2>2. /\ q \in States /\ q.array = s.array /\ q.stat = s.stat
        /\ Members(q) = Members(s) /\ Entry(s, q, w, d, ps)
    BY <1>1, <1>2, WithQueue, WithEntry
  <2>3. CASE s.stat[w] = LSA_SPF_NOT_EXPLORED
    <3>1. r = pqueue_enqueue(w, q)
      <4>1. LSA_SPF_NOT_EXPLORED # LSA_SPF_IN_SPFTREE /\ ~(s.stat[w] >= 0)
        BY <2>3, SMT DEF LSA_SPF_NOT_EXPLORED, LSA_SPF_IN_SPFTREE
      <4> HIDE DEF q
      <4> QED BY <1>9, <2>1, <2>3, <4>1 DEF Relax
    <3>2. w \notin Members(s) /\ ~(s.stat[w] >= 0)
      BY <1>7, <2>3, SMT DEF LSA_SPF_NOT_EXPLORED
    <3>3. Heap(q)
      BY <1>1, <1>2, <3>2, WithKeepsHeap
    <3> HIDE DEF q, r, d, ps
    <3>4. /\ r \in States /\ Heap(r) /\ Members(r) = Members(q) \cup {w}
          /\ r = [q EXCEPT !.array = r.array, !.stat = r.stat]
          /\ \A u \in Vertices : u \notin Members(r) => r.stat[u] = q.stat[u]
      BY <2>2, <3>1, <3>2, <3>3, Enqueued
    <3>5. Entry(s, r, w, d, ps)
      <4>1. /\ r.dist = q.dist /\ r.parents = q.parents /\ r.children = q.children
            /\ r.room = q.room /\ r.whole = q.whole
        BY <2>2, <3>4, QueueOnly
      <4> QED BY <2>2, <4>1 DEF Entry
    <3>6. Good(r) /\ Tree(r) = Tree(s) /\ Candidates(r) = Candidates(s) \cup {w}
      <4>1. Members(r) = Members(s) \cup {w} /\ w \notin Tree(s)
        BY <1>5, <1>9, <2>2, <3>4
      <4>2. \A u \in Vertices : u \notin Members(r) => r.stat[u] = s.stat[u]
        BY <2>2, <3>4
      <4> QED BY <3>4, <4>1, <4>2, QueueGood
    <3>7. Takes(s, v, i, w)
      BY <1>5, <1>6, <1>9, <3>2 DEF Takes
    <3> QED BY <3>5, <3>6, <3>7 DEF r, d, ps
  <2>4. CASE s.stat[w] >= 0 /\ s.dist[w] < d
    <3>1. r = s
      <4>1. s.stat[w] # LSA_SPF_NOT_EXPLORED /\ d # s.dist[w] /\ ~(s.dist[w] > d)
        BY <1>3, <2>4, SMT DEF LSA_SPF_NOT_EXPLORED
      <4> QED BY <1>9, <2>4, <4>1 DEF Relax, Distance, Length
    <3> QED BY <3>1, <1>6, <2>4 DEF Takes
  <2>5. CASE s.stat[w] >= 0 /\ ~(s.dist[w] < d)
    <3>1. w \in Members(s) /\ Members(s) = Members(s) \cup {w}
      BY <1>7, <2>5
    <3>2. Takes(s, v, i, w)
      BY <1>5, <1>9, <2>5 DEF Takes
    <3>3. s.stat[w] # LSA_SPF_NOT_EXPLORED
      BY <2>5, SMT DEF LSA_SPF_NOT_EXPLORED
    <3>4. r \in States /\ Heap(r) /\ Members(r) = Members(s) /\ Entry(s, r, w, d, ps)
          /\ \A u \in Vertices : u \notin Members(r) => r.stat[u] = s.stat[u]
      <4>1. CASE s.dist[w] = d
        <5>1. r = q
          <6>1. ~(s.dist[w] < d) /\ ~(s.dist[w] > d)
            BY <1>3, <4>1, SMT
          <6> HIDE DEF q
          <6> QED BY <1>9, <2>1, <2>5, <3>3, <4>1, <6>1 DEF Relax, Distance, Length
        <5>2. Heap(q)
          BY <1>1, <1>2, <4>1, WithKeepsHeap
        <5> HIDE DEF q, r, d, ps
        <5> QED BY <2>2, <5>1, <5>2
      <4>2. CASE s.dist[w] # d
        <5>1. s.dist[w] > d /\ d <= s.dist[w]
          BY <1>3, <2>5, <4>2, SMT
        <5>2. r = trickle_up(s.stat[w], q)
          <6> HIDE DEF q
          <6> QED BY <1>9, <2>1, <2>5, <3>3, <4>2, <5>1 DEF Relax, Distance, Length
        <5>3. UpInv([at |-> s.stat[w], q |-> q])
          BY <1>1, <1>2, <3>1, <5>1, WithNearer
        <5>4. s.stat[w] \in Nat
          BY <1>3, <2>5, SMT
        <5> HIDE DEF q, r, d, ps
        <5>5. r \in States /\ Heap(r) /\ Frame(q, r)
          BY <2>2, <5>2, <5>3, <5>4, TrickleUp
        <5>6. /\ r.dist = q.dist /\ r.parents = q.parents /\ r.children = q.children
              /\ r.room = q.room /\ r.whole = q.whole
          BY <2>2, <5>5, QueueOnly DEF Frame
        <5>7. Entry(s, r, w, d, ps)
          BY <2>2, <5>6 DEF Entry
        <5> QED BY <2>2, <5>5, <5>7 DEF Frame
      <4> QED BY <4>1, <4>2
    <3> HIDE DEF q, r, d, ps
    <3>5. Good(r) /\ Tree(r) = Tree(s) /\ Candidates(r) = Candidates(s) \cup {w}
      BY <1>5, <1>9, <3>1, <3>4, QueueGood
    <3> QED BY <3>2, <3>4, <3>5 DEF r, d, ps
  <2> QED BY <1>4, <1>9, <2>3, <2>4, <2>5
<1> QED BY <1>8, <1>9

-----------------------------------------------------------------------------
(* The loop over the links of a vertex *)

LEMMA LinkShape ==
    ASSUME WellFormed(lsdb), NEW v \in Vertices
    PROVE  /\ Len(Links(v)) \in Nat
           /\ DOMAIN Links(v) = 1..Len(Links(v))
           /\ \A i \in DOMAIN Links(v) :
                 /\ i \in Nat
                 /\ Links(v)[i].metric \in Nat
                 /\ Length(v, i) \in Nat
                 /\ Links(v)[i].hop \in BOOLEAN
                 /\ Links(v)[i].type # "stub" => Links(v)[i].id \in Vertices
<1> DEFINE ls == Links(v)
<1>1. ls \in Seq(LinkRecords)
  BY DEF WellFormed, Links
<1>2. ASSUME NEW i \in DOMAIN ls PROVE ls[i].type # "stub" => ls[i].id \in Vertices
  BY DEF WellFormed, Links, Vertices
<1> HIDE DEF ls
<1>3. Len(ls) \in Nat /\ DOMAIN ls = 1..Len(ls)
  BY <1>1, SMT
<1>4. ASSUME NEW i \in DOMAIN ls PROVE i \in Nat /\ ls[i] \in LinkRecords
  BY <1>1, <1>3, SMT
<1>5. ASSUME NEW i \in DOMAIN ls PROVE ls[i].metric \in Nat /\ ls[i].hop \in BOOLEAN
  BY <1>4, SMT DEF LinkRecords
<1>6. ASSUME NEW i \in DOMAIN ls PROVE Length(v, i) \in Nat
  BY <1>5, SMT DEF Length, ls
<1> QED BY <1>2, <1>3, <1>4, <1>5, <1>6 DEF ls

OnLink(s, v, w) ==
    {<<p.hop[1], <<w, j>>>> : p \in {p \in s.parents[v] : p.parent = Root}, j \in LinksTo(w, v)}

LEMMA HopsCases ==
    ASSUME NEW s, NEW v, NEW i, NEW w
    PROVE  /\ v = Root => Hops(s, v, i, w) =
                IF Links(v)[i].hop THEN {<<i, IF w \in Routers THEN <<w, 0>> ELSE NoAddr>>} ELSE {}
           /\ v # Root /\ v \in Networks /\ OnLink(s, v, w) # {} =>
                Hops(s, v, i, w) = OnLink(s, v, w)
           /\ v # Root /\ ~(v \in Networks /\ OnLink(s, v, w) # {}) =>
                Hops(s, v, i, w) = NextHops(s, v)
<1> DEFINE direct == {p \in s.parents[v] : p.parent = Root}
           onLink == {<<p.hop[1], <<w, j>>>> : p \in direct, j \in LinksTo(w, v)}
           r == IF Links(v)[i].hop THEN {<<i, IF w \in Routers THEN <<w, 0>> ELSE NoAddr>>} ELSE {}
           n == {p.hop : p \in s.parents[v]}
<1>1. OnLink(s, v, w) = onLink /\ NextHops(s, v) = n
  BY SMT DEF OnLink, NextHops
<1>2. Hops(s, v, i, w) = CASE v = Root -> r
                           [] v # Root /\ v \in Networks /\ onLink # {} -> onLink
                           [] OTHER -> n
  BY SMT DEF Hops
<1> HIDE DEF onLink, r, n
<1>3. v = Root => Hops(s, v, i, w) = r
  BY <1>2, SMT
<1>4. v # Root /\ v \in Networks /\ onLink # {} => Hops(s, v, i, w) = onLink
  BY <1>2, SMT
<1>5. v # Root /\ ~(v \in Networks /\ onLink # {}) => Hops(s, v, i, w) = n
  BY <1>2, SMT
<1> QED BY <1>1, <1>3, <1>4, <1>5 DEF r

LEMMA HopsType ==
    ASSUME WellFormed(lsdb), NEW s \in States, NEW v \in Vertices, NEW w \in Vertices, NEW i \in Nat
    PROVE  Hops(s, v, i, w) \subseteq Hop
<1>1. \A p \in s.parents[v] : p.hop \in Hop
  <2>1. s.parents[v] \subseteq Parents
    BY DEF States
  <2> QED BY <2>1, SMT DEF Parents
<1>2. \A j \in LinksTo(w, v) : j \in Nat
  BY LinkShape DEF LinksTo
<1>3. \A h \in Hop : \A j \in Nat : <<h[1], <<w, j>>>> \in Hop
  BY SMT DEF Hop
<1>4. <<i, <<w, 0>>>> \in Hop /\ <<i, NoAddr>> \in Hop
  BY SMT DEF Hop, NoAddr
<1>5. OnLink(s, v, w) \subseteq Hop
  BY <1>1, <1>2, <1>3, SMT DEF OnLink
<1>6. NextHops(s, v) \subseteq Hop
  BY <1>1 DEF NextHops
<1>7. v = Root => Hops(s, v, i, w) \subseteq {<<i, <<w, 0>>>>, <<i, NoAddr>>}
  BY HopsCases
<1> QED BY <1>4, <1>5, <1>6, <1>7, HopsCases

(* Link i of v leads to a vertex, for ospf_spf_next or for the pluglet. *)
Leads(by_pluglet, v, i) ==
    LET l == Links(v)[i]
    IN  /\ l.type # "stub"
        /\ lsdb[l.id].here
        /\ ospf_lsa_has_link(l.id, v)
        /\ IF by_pluglet
           THEN i \in Visible(v) /\ (v \in Routers => l.id \notin lsdb[v].red)
           ELSE ~lsdb[l.id].maxage

(* The tree as the link leaves it. *)
Followed(b, x, v, i) == IF Leads(b, v, i) THEN Relax(x, v, i, Links(v)[i].id) ELSE x

Alike(y, x) ==
    /\ y.array = x.array /\ y.stat = x.stat /\ y.dist = x.dist
    /\ y.parents = x.parents /\ y.children = x.children

(* Link i leads to a candidate that is nearer already. *)
Lags(x, v, i) ==
    /\ Links(v)[i].id \in Candidates(x)
    /\ x.dist[Links(v)[i].id] < Distance(x, v, i)

(* What examining link i of v does, in as much as the pluglet had room. *)
Step(b, v, i, x, y) ==
    /\ Good(y)
    /\ y.whole => /\ x.whole
                  /\ Alike(y, Followed(b, x, v, i))
                  /\ y.room # x.room => Lags(x, v, i)

LEMMA AlikeGood ==
    ASSUME NEW x, Good(x), NEW y \in States, Alike(y, x)
    PROVE  Good(y)
<1>1. size(y) = size(x) /\ Members(y) = Members(x)
  BY DEF Alike, size, Members
<1>2. \A v : Key(y, v) = Key(x, v)
  BY DEF Alike, Key
<1>3. Indexed(y, -1, {})
  BY <1>1 DEF Alike, Good, Heap, Indexed
<1>4. \A i \in 1..size(y) - 1 : Ordered(y, i)
  BY <1>1, <1>2 DEF Alike, Good, Heap, Ordered
<1> QED BY <1>3, <1>4 DEF Alike, Good, Heap

LEMMA FollowedGood ==
    ASSUME WellFormed(lsdb), NEW x, Good(x), NEW v \in Vertices, NEW i \in DOMAIN Links(v), NEW b,
           Leads(b, v, i)
    PROVE  LET w == Links(v)[i].id
           IN  /\ w \in Vertices
               /\ Distance(x, v, i) \in Nat
               /\ Hops(x, v, i, w) \subseteq Hop
               /\ Good(Relax(x, v, i, w))
               /\ Relax(x, v, i, w).whole = x.whole
               /\ Relax(x, v, i, w).room = x.room
               /\ ~Takes(x, v, i, w) => Relax(x, v, i, w) = x
<1> DEFINE w == Links(v)[i].id
           r == Relax(x, v, i, w)
<1>1. w \in Vertices
  BY LinkShape DEF Leads
<1>2. x \in States
  BY DEF Good
<1>3. Distance(x, v, i) \in Nat
  <2>1. x.dist[v] \in Nat
    BY <1>2, SMT DEF States
  <2>2. Length(v, i) \in Nat
    BY LinkShape
  <2> QED BY <2>1, <2>2, SMT DEF Distance
<1>4. Hops(x, v, i, w) \subseteq Hop
  BY <1>1, <1>2, HopsType, LinkShape
<1> HIDE DEF w
<1>5. IF Takes(x, v, i, w)
      THEN Good(r) /\ Entry(x, r, w, Distance(x, v, i), NewParents(x, v, i, w))
      ELSE r = x
  BY <1>1, <1>3, <1>4, Relaxed
<1> HIDE DEF r
<1>6. Good(r) /\ r.whole = x.whole /\ r.room = x.room
  BY <1>5 DEF Entry
<1> QED BY <1>1, <1>3, <1>4, <1>5, <1>6 DEF r, w

LEMMA ExamineLink ==
    ASSUME WellFormed(lsdb), NEW x, Good(x), NEW v \in Vertices, NEW i \in DOMAIN Links(v)
    PROVE  Step(FALSE, v, i, x, examine_link(x, v, i))
<1> DEFINE y == examine_link(x, v, i)
           w == Links(v)[i].id
<1>1. y = Followed(FALSE, x, v, i)
  BY DEF examine_link, Followed, Leads
<1>2. CASE ~Leads(FALSE, v, i)
  <2>1. y = x
    BY <1>1, <1>2 DEF Followed
  <2> HIDE DEF y
  <2> QED BY <1>1, <2>1 DEF Step, Alike, y
<1>3. CASE Leads(FALSE, v, i)
  <2>1. y = Relax(x, v, i, w)
    BY <1>1, <1>3 DEF Followed
  <2> HIDE DEF y
  <2>2. Good(y) /\ y.whole = x.whole /\ y.room = x.room
    BY <1>3, <2>1, FollowedGood
  <2> QED BY <1>1, <2>2 DEF Step, Alike, y
<1> QED BY <1>2, <1>3

(* The pluglet's heap does not matter to the queue. *)
Budget(x, b, n) == [x EXCEPT !.whole = b, !.room = n]

LEMMA BudgetOnly ==
    ASSUME NEW x, Good(x), NEW n \in Int, NEW b \in BOOLEAN
    PROVE  /\ Good(Budget(x, b, n))
           /\ Alike(Budget(x, b, n), x)
           /\ Budget(x, b, n).whole = b
           /\ Budget(x, b, n).room = n
<1> DEFINE y == Budget(x, b, n)
<1>1. x \in States
  BY DEF Good
<1>2. y \in States /\ Alike(y, x) /\ y.whole = b /\ y.room = n
  BY <1>1 DEF States, Alike, Budget
<1> HIDE DEF y
<1>3. Good(y)
  BY <1>2, AlikeGood
<1> QED BY <1>2, <1>3 DEF y

LEMMA ExamineCopies ==
    ASSUME WellFormed(lsdb), NEW x, Good(x), x.whole, NEW v \in Vertices,
           NEW i \in DOMAIN Links(v),
           ospf_lsa_has_link(Links(v)[i].id, v) <=> Leads(TRUE, v, i)
    PROVE  Step(TRUE, v, i, x, examine_copies(x, v, i))
<1> DEFINE w == Links(v)[i].id
           y == examine_copies(x, v, i)
           d == Distance(x, v, i)
           seen == ospf_lsa_has_link(w, v)
<1>1. x \in States /\ x.room \in Int /\ x.whole = TRUE
  BY SMT DEF Good, States
<1>2. y = CASE x.room < 4 \/ (seen /\ x.stat[w] >= 0 /\ x.room < 5) ->
                    [x EXCEPT !.whole = FALSE, !.room = 0]
            [] x.room >= 4 /\ ~seen -> x
            [] x.room >= 5 /\ seen /\ x.stat[w] >= 0 /\ x.dist[w] < d -> [x EXCEPT !.room = @ - 1]
            [] OTHER -> Relax(x, v, i, w)
  BY SMT DEF examine_copies, Distance, Length
<1> HIDE DEF y, d, seen
<1>3. CASE x.room < 4 \/ (seen /\ x.stat[w] >= 0 /\ x.room < 5)
  <2>1. y = [x EXCEPT !.whole = FALSE, !.room = 0]
    BY <1>1, <1>2, <1>3, SMT
  <2>2. y = Budget(x, FALSE, 0) /\ FALSE \in BOOLEAN
    BY <2>1 DEF Budget
  <2>3. 0 \in Int
    BY SMT
  <2>4. Good(y) /\ y.whole = FALSE
    BY <2>2, <2>3, BudgetOnly
  <2> QED BY <2>4 DEF Step, y
<1>4. CASE x.room >= 4 /\ ~seen
  <2>1. y = x
    BY <1>1, <1>2, <1>4, SMT
  <2> QED BY <1>4, <2>1 DEF Step, Followed, Alike, y, seen
<1>5. CASE x.room >= 5 /\ seen /\ x.stat[w] >= 0 /\ x.dist[w] < d
  <2>1. y = [x EXCEPT !.room = @ - 1]
    BY <1>1, <1>2, <1>5, SMT
  <2>2. y = Budget(x, x.whole, x.room - 1) /\ x.room - 1 \in Int /\ x.whole \in BOOLEAN
    <3>1. x.whole \in BOOLEAN /\ x.room - 1 \in Int
      BY <1>1, SMT DEF States
    <3> QED BY <1>1, <2>1, <3>1 DEF States, Budget
  <2>3. Good(y) /\ Alike(y, x)
    BY <2>2, BudgetOnly
  <2>4. /\ Leads(TRUE, v, i)
        /\ w \in Vertices
        /\ ~Takes(x, v, i, w) => Relax(x, v, i, w) = x
    BY <1>5, FollowedGood DEF seen
  <2>5. Lags(x, v, i)
    BY <1>5, <2>4 DEF Lags, Candidates, d
  <2>6. Relax(x, v, i, w) = x
    BY <2>4, <2>5 DEF Lags, Takes
  <2> QED BY <2>3, <2>4, <2>5, <2>6 DEF Step, Followed, y
<1>6. CASE /\ ~(x.room < 4 \/ (seen /\ x.stat[w] >= 0 /\ x.room < 5))
           /\ ~(x.room >= 4 /\ ~seen)
           /\ ~(x.room >= 5 /\ seen /\ x.stat[w] >= 0 /\ x.dist[w] < d)
  <2>1. y = Relax(x, v, i, w)
    BY <1>2, <1>6, SMT
  <2>2. seen
    BY <1>1, <1>6, SMT
  <2>3. Leads(TRUE, v, i) /\ Good(y) /\ y.room = x.room
    BY <2>1, <2>2, FollowedGood DEF seen
  <2> QED BY <2>1, <2>3 DEF Step, Followed, Alike, y
<1> QED BY <1>3, <1>4, <1>5, <1>6

LEMMA ExamineLinkRep ==
    ASSUME WellFormed(lsdb), NEW x, Good(x), NEW v \in Vertices, NEW i \in DOMAIN Links(v)
    PROVE  Step(TRUE, v, i, x, examine_link_rep(x, v, i))
<1> DEFINE l == Links(v)[i]
           y == examine_link_rep(x, v, i)
           full == v \in Routers /\ lsdb[v].coloured /\ x.room < 5
           passed == \/ v \in Routers /\ l.id \in lsdb[v].red
                     \/ l.type = "stub"
                     \/ ~lsdb[l.id].here
<1>1. y = IF ~x.whole \/ i \notin Visible(v) THEN x
          ELSE IF full THEN OutOfRoom(x, 5)
          ELSE IF passed THEN x ELSE examine_copies(x, v, i)
  BY SMT DEF examine_link_rep
<1> HIDE DEF y, full
<1>2. CASE ~x.whole \/ i \notin Visible(v)
  <2>1. y = x
    BY <1>1, <1>2
  <2>2. y.whole => ~Leads(TRUE, v, i)
    BY <1>2, <2>1 DEF Leads
  <2> QED BY <2>1, <2>2 DEF Step, Followed, Alike, y
<1>3. CASE ~(~x.whole \/ i \notin Visible(v)) /\ full
  <2>1. y = OutOfRoom(x, 5)
    BY <1>1, <1>3
  <2>2. y = Budget(x, FALSE, IF x.room = 5 - 1 THEN 1 ELSE 0) /\ FALSE \in BOOLEAN
    BY <2>1 DEF OutOfRoom, Budget
  <2>3. (IF x.room = 5 - 1 THEN 1 ELSE 0) \in Int
    BY SMT
  <2>4. Good(y) /\ y.whole = FALSE
    BY <2>2, <2>3, BudgetOnly
  <2> QED BY <2>4 DEF Step, y
<1>4. CASE ~(~x.whole \/ i \notin Visible(v)) /\ ~full /\ passed
  <2>1. y = x
    BY <1>1, <1>4
  <2>2. ~Leads(TRUE, v, i)
    BY <1>4 DEF Leads
  <2> QED BY <1>4, <2>1, <2>2 DEF Step, Followed, Alike, y
<1>5. CASE ~(~x.whole \/ i \notin Visible(v)) /\ ~full /\ ~passed
  <2>1. y = examine_copies(x, v, i)
    BY <1>1, <1>5
  <2>2. ospf_lsa_has_link(l.id, v) <=> Leads(TRUE, v, i)
    BY <1>5 DEF Leads
  <2> QED BY <1>5, <2>1, <2>2, ExamineCopies DEF y
<1> QED BY <1>2, <1>3, <1>4, <1>5

(* The states between the links: s0 before the first and r after the last. *)
Walk(b, v, s0, f, r) ==
    /\ f[0] = s0
    /\ \A n \in 1..Len(Links(v)) : Step(b, v, n, f[n - 1], f[n])
    /\ r = f[Len(Links(v))]

LEMMA ExamineLinks ==
    ASSUME WellFormed(lsdb), NEW s, Good(s), NEW v \in Vertices
    PROVE  \E f : Walk(FALSE, v, s, f, examine_links(s, v))
<1> DEFINE m == Len(Links(v))
           S == {x \in States : Good(x)}
           F == [n \in 1..m |-> [x \in S |-> examine_link(x, v, n)]]
           G(f) == f = [n \in 0..m |-> IF n = 0 THEN s ELSE examine_link(f[n - 1], v, n)]
           g == CHOOSE f : G(f)
<1>1. m \in Nat /\ DOMAIN Links(v) = 1..m
  BY LinkShape
<1>2. s \in S
  BY DEF Good
<1>3. \A n \in 1..m : \A x \in S : examine_link(x, v, n) \in S /\ Step(FALSE, v, n, x, examine_link(x, v, n))
  <2> TAKE n \in 1..m
  <2> TAKE x \in S
  <2>1. Step(FALSE, v, n, x, examine_link(x, v, n))
    BY <1>1, ExamineLink
  <2> QED BY <2>1 DEF Step, Good
<1>4. examine_links(s, v) = g[m]
  BY DEF examine_links
<1> HIDE DEF S, m
<1>5. G(g)
  <2>1. Closed(m, S, F)
    BY <1>3 DEF Closed
  <2> HIDE DEF F
  <2>2. PICK f \in [0..m -> S] : IsLoop(f, m, s, F)
    BY <1>1, <1>2, <2>1, Loop
  <2>3. ASSUME NEW n \in 0..m, n # 0 PROVE F[n][f[n - 1]] = examine_link(f[n - 1], v, n)
    <3>1. n \in 1..m /\ n - 1 \in 0..m
      BY <1>1, <2>3, SMT
    <3> QED BY <3>1 DEF F
  <2>4. G(f)
    BY <2>2, <2>3 DEF IsLoop
  <2> HIDE DEF G
  <2> QED BY <2>4
<1> HIDE DEF g
<1>6. g[0] = s /\ \A n \in 1..m : g[n] = examine_link(g[n - 1], v, n)
  BY <1>1, <1>5, SMT
<1> DEFINE P == {n \in 0..m : g[n] \in S}
<1>7. 0 \in P
  BY <1>1, <1>2, <1>6, SMT
<1>8. ASSUME NEW n \in 1..m, n - 1 \in P PROVE n \in P
  <2>1. n \in 0..m
    BY <1>1, SMT
  <2> QED BY <1>3, <1>6, <1>8, <2>1
<1>9. \A n \in 0..m : g[n] \in S
  <2>1. \A n \in 0..m : n \in P
    <3> HIDE DEF P
    <3> QED BY <1>1, <1>7, <1>8, Upto
  <2> QED BY <2>1
<1>10. \A n \in 1..m : n - 1 \in 0..m
  BY <1>1, SMT
<1> QED BY <1>3, <1>4, <1>6, <1>9, <1>10 DEF Walk, m

LEMMA ExamineLinksRep ==
    ASSUME WellFormed(lsdb), NEW s, Good(s), NEW v \in Vertices
    PROVE  \E f : Walk(TRUE, v, [s EXCEPT !.whole = TRUE], f, examine_links_rep(s, v))
<1> DEFINE m == Len(Links(v))
           s0 == [s EXCEPT !.whole = TRUE]
           S == {x \in States : Good(x)}
           F == [n \in 1..m |-> [x \in S |-> examine_link_rep(x, v, n)]]
           G(f) == f = [n \in 0..m |-> IF n = 0 THEN s0 ELSE examine_link_rep(f[n - 1], v, n)]
           g == CHOOSE f : G(f)
<1>1. m \in Nat /\ DOMAIN Links(v) = 1..m
  BY LinkShape
<1>2. s0 \in S
  <2>1. s0 \in States /\ Alike(s0, s)
    BY DEF Good, States, Alike
  <2> QED BY <2>1, AlikeGood
<1>3. \A n \in 1..m : \A x \in S :
        examine_link_rep(x, v, n) \in S /\ Step(TRUE, v, n, x, examine_link_rep(x, v, n))
  <2> TAKE n \in 1..m
  <2> TAKE x \in S
  <2>1. Step(TRUE, v, n, x, examine_link_rep(x, v, n))
    BY <1>1, ExamineLinkRep
  <2> QED BY <2>1 DEF Step, Good
<1>4. examine_links_rep(s, v) = g[m]
  BY DEF examine_links_rep
<1> HIDE DEF S, m, s0
<1>5. G(g)
  <2>1. Closed(m, S, F)
    BY <1>3 DEF Closed
  <2> HIDE DEF F
  <2>2. PICK f \in [0..m -> S] : IsLoop(f, m, s0, F)
    BY <1>1, <1>2, <2>1, Loop
  <2>3. ASSUME NEW n \in 0..m, n # 0 PROVE F[n][f[n - 1]] = examine_link_rep(f[n - 1], v, n)
    <3>1. n \in 1..m /\ n - 1 \in 0..m
      BY <1>1, <2>3, SMT
    <3> QED BY <3>1 DEF F
  <2>4. G(f)
    BY <2>2, <2>3 DEF IsLoop
  <2> HIDE DEF G
  <2> QED BY <2>4
<1> HIDE DEF g
<1>6. g[0] = s0 /\ \A n \in 1..m : g[n] = examine_link_rep(g[n - 1], v, n)
  BY <1>1, <1>5, SMT
<1> DEFINE P == {n \in 0..m : g[n] \in S}
<1>7. 0 \in P
  BY <1>1, <1>2, <1>6, SMT
<1>8. ASSUME NEW n \in 1..m, n - 1 \in P PROVE n \in P
  <2>1. n \in 0..m
    BY <1>1, SMT
  <2> QED BY <1>3, <1>6, <1>8, <2>1
<1>9. \A n \in 0..m : g[n] \in S
  <2>1. \A n \in 0..m : n \in P
    <3> HIDE DEF P
    <3> QED BY <1>1, <1>7, <1>8, Upto
  <2> QED BY <2>1
<1>10. \A n \in 1..m : n - 1 \in 0..m
  BY <1>1, SMT
<1>11. \E f : Walk(TRUE, v, s0, f, examine_links_rep(s, v))
  BY <1>3, <1>4, <1>6, <1>9, <1>10 DEF Walk, m
<1> QED BY <1>11 DEF s0

LEMMA WalkGood ==
    ASSUME WellFormed(lsdb), NEW v \in Vertices, NEW b, NEW s, Good(s), NEW f, NEW r,
           Walk(b, v, s, f, r)
    PROVE  Good(r)
<1> DEFINE m == Len(Links(v))
<1>1. m \in Nat
  BY LinkShape
<1>2. CASE m = 0
  BY <1>2 DEF Walk
<1>3. CASE m # 0
  <2>1. m \in 1..m
    BY <1>1, <1>3, SMT
  <2> QED BY <2>1 DEF Walk, Step
<1> QED BY <1>2, <1>3

(* What ospf_spf_next, or the pluglet in its place, does with the links of v. *)
LEMMA SpfNext ==
    ASSUME WellFormed(lsdb), NEW s, Good(s), NEW v \in Vertices, rep \in BOOLEAN
    PROVE  LET r == ospf_spf_next(s, v)
           IN  /\ Good(r)
               /\ r.whole => s.whole /\ \E f : Walk(rep, v, s, f, r)
<1> DEFINE r == ospf_spf_next(s, v)
<1>1. CASE ~rep
  <2>1. r = examine_links(s, v)
    BY <1>1, SMT DEF ospf_spf_next
  <2> HIDE DEF r
  <2>2. PICK f : Walk(FALSE, v, s, f, r)
    BY <2>1, ExamineLinks
  <2>3. Good(r)
    BY <2>2, WalkGood
  <2>4. rep = FALSE
    BY <1>1
  <2> DEFINE m == Len(Links(v))
             P == {n \in 0..m : f[n].whole => s.whole}
  <2>5. m \in Nat
    BY LinkShape
  <2> HIDE DEF m
  <2>6. 0 \in P
    <3>1. 0 \in 0..m
      BY <2>5, SMT
    <3> QED BY <2>2, <3>1 DEF Walk
  <2>7. ASSUME NEW n \in 1..m, n - 1 \in P PROVE n \in P
    <3>1. n \in 0..m
      BY <2>5, SMT
    <3> QED BY <2>2, <2>7, <3>1 DEF Walk, Step, m
  <2>8. m \in P
    <3>1. m \in 0..m
      BY <2>5, SMT
    <3> HIDE DEF P
    <3> QED BY <2>5, <2>6, <2>7, <3>1, Upto
  <2>9. r.whole => s.whole
    BY <2>2, <2>8 DEF Walk, m
  <2> QED BY <2>2, <2>3, <2>4, <2>9 DEF r
<1>2. CASE rep /\ s.room < 3
  <2>1. s.room \in Int /\ ~(s.room >= 3)
    BY <1>2, SMT DEF Good, States
  <2>2. r = OutOfRoom(s, 3)
    BY <1>2, <2>1, SMT DEF ospf_spf_next
  <2>3. r = Budget(s, FALSE, IF s.room = 3 - 1 THEN 1 ELSE 0) /\ FALSE \in BOOLEAN
    BY <2>2 DEF OutOfRoom, Budget
  <2>4. (IF s.room = 3 - 1 THEN 1 ELSE 0) \in Int
    BY SMT
  <2> HIDE DEF r
  <2>5. Good(r) /\ r.whole = FALSE
    BY <2>3, <2>4, BudgetOnly
  <2> QED BY <2>5 DEF r
<1>3. CASE rep /\ ~(s.room < 3)
  <2> DEFINE x  == examine_links_rep(s, v)
             s0 == [s EXCEPT !.whole = TRUE]
  <2>1. s.room >= 3
    BY <1>3, SMT DEF Good, States
  <2>2. r = [x EXCEPT !.whole = x.whole /\ s.whole]
    BY <1>3, <2>1, SMT DEF ospf_spf_next
  <2>3. s0 \in States /\ Alike(s0, s)
    BY DEF Good, States, Alike
  <2> HIDE DEF x, s0
  <2>4. Good(s0)
    BY <2>3, AlikeGood
  <2>5. PICK f : Walk(TRUE, v, s0, f, x)
    BY ExamineLinksRep DEF x, s0
  <2>6. Good(x)
    BY <2>4, <2>5, WalkGood
  <2>7. (x.whole /\ s.whole) \in BOOLEAN /\ x.room \in Int /\ x \in States
    BY <2>6, SMT DEF Good, States
  <2>8. r = Budget(x, x.whole /\ s.whole, x.room)
    BY <2>2, <2>7 DEF Budget, States
  <2> HIDE DEF r
  <2>9. Good(r) /\ r.whole = (x.whole /\ s.whole)
    BY <2>6, <2>7, <2>8, BudgetOnly
  <2>10. ASSUME r.whole PROVE s.whole /\ \E g : Walk(rep, v, s, g, r)
    <3>1. x.whole /\ s.whole
      BY <2>9, <2>10
    <3>2. s.whole \in BOOLEAN /\ x.whole \in BOOLEAN
      BY <2>7, SMT DEF Good, States
    <3>3. s.whole = TRUE /\ x.whole = TRUE
      BY <3>1, <3>2
    <3>4. s0 = s
      BY <3>3, SMT DEF s0, Good, States
    <3>5. r = x
      BY <2>2, <2>7, <3>3, SMT DEF States
    <3>6. rep = TRUE
      BY <1>3
    <3> QED BY <2>5, <3>1, <3>4, <3>5, <3>6
  <2> QED BY <2>9, <2>10 DEF r
<1> QED BY <1>1, <1>2, <1>3

(* The nearest candidate joins the tree, below the vertices in of. *)
Joined(s, of) ==
    [pqueue_dequeue(s) EXCEPT !.stat[s.array[0]] = LSA_SPF_IN_SPFTREE,
                              !.children = [u \in Vertices |->
                                  IF u \in of THEN Append(@[u], s.array[0]) ELSE @[u]]]

LEMMA Joins ==
    ASSUME NEW s, Good(s), size(s) > 0, NEW of
    PROVE  LET t == Joined(s, of)
           IN  /\ Good(t)
               /\ s.array[0] \in Candidates(s)
               /\ Tree(t) = Tree(s) \cup {s.array[0]}
               /\ Candidates(t) = Candidates(s) \ {s.array[0]}
               /\ t.dist = s.dist /\ t.parents = s.parents
               /\ t.room = s.room /\ t.whole = s.whole
               /\ \A w \in Candidates(s) : Key(s, s.array[0]) <= Key(s, w)
<1> DEFINE t == Joined(s, of)
           v == s.array[0]
           q == pqueue_dequeue(s)
           st == [q.stat EXCEPT ![v] = LSA_SPF_IN_SPFTREE]
           ch == [u \in Vertices |-> IF u \in of THEN Append(q.children[u], v) ELSE q.children[u]]
<1>1. s \in States /\ Heap(s)
  BY DEF Good
<1>2. /\ v \in Vertices
      /\ \A i \in 0..size(s) - 1 : Key(s, v) <= Key(s, s.array[i])
  BY <1>1, TopFirst
<1>3. v \in Members(s)
  <2>1. size(s) \in Nat /\ DOMAIN s.array = 0..size(s) - 1
    BY <1>1, Size
  <2>2. 0 \in 0..size(s) - 1
    BY <2>1, SMT
  <2> QED BY <2>1, <2>2 DEF Members
<1>4. /\ q \in States
      /\ Indexed(q, -1, {v})
      /\ \A i \in 1..size(q) - 1 : Ordered(q, i)
      /\ Members(q) = Members(s) \ {v}
      /\ q = [s EXCEPT !.array = q.array, !.stat = q.stat]
      /\ \A u \in Vertices : u \notin Members(s) => q.stat[u] = s.stat[u]
  BY <1>1, Dequeued
<1> HIDE DEF q
<1>5. t = [q EXCEPT !.stat = st, !.children = ch]
  BY <1>4, SMT DEF States, q, Joined
<1> HIDE DEF v, t
<1>6. /\ st \in [Vertices -> Int] /\ st[v] = LSA_SPF_IN_SPFTREE
      /\ \A u \in Vertices : u # v => st[u] = q.stat[u]
  BY <1>2, <1>4, SMT DEF States, LSA_SPF_IN_SPFTREE
<1>7. ch \in [Vertices -> Seq(Vertices)]
  <2>1. q.children \in [Vertices -> Seq(Vertices)]
    BY <1>4, SMT DEF States
  <2>2. \A u \in Vertices : Append(q.children[u], v) \in Seq(Vertices) /\ q.children[u] \in Seq(Vertices)
    BY <1>2, <2>1, SMT
  <2> QED BY <2>2, SMT
<1> HIDE DEF st, ch
<1>8. /\ t \in States /\ t.array = q.array /\ t.stat = st /\ t.dist = q.dist
      /\ t.parents = q.parents /\ t.room = q.room /\ t.whole = q.whole
  BY <1>4, <1>5, <1>6, <1>7 DEF States
<1>9. q.dist = s.dist /\ q.parents = s.parents /\ q.room = s.room /\ q.whole = s.whole
  BY <1>1, <1>4, QueueOnly
<1>10. size(t) = size(q) /\ Members(t) = Members(q) /\ \A u : Key(t, u) = Key(q, u)
  BY <1>8 DEF size, Members, Key
<1>11. Heap(t)
  <2>1. size(q) \in Nat /\ DOMAIN q.array = 0..size(q) - 1 /\ q.array \in [0..size(q) - 1 -> Vertices]
    BY <1>4, Size
  <2>2. \A i \in 0..size(q) - 1 : q.array[i] \in Members(q) /\ q.array[i] \in Vertices
    BY <2>1 DEF Members
  <2>3. \A i \in 0..size(q) - 1 : q.array[i] # v
    BY <1>4, <2>2
  <2>4. \A i \in 0..size(q) - 1 : i # -1 => st[q.array[i]] = i
    BY <1>4, <1>6, <2>2, <2>3 DEF Indexed
  <2>5. \A u \in Vertices : u \notin Members(q) => st[u] < 0
    <3> TAKE u \in Vertices
    <3>1. CASE u = v
      BY <1>6, <3>1, SMT DEF LSA_SPF_IN_SPFTREE
    <3>2. CASE u # v
      BY <1>4, <1>6, <3>2 DEF Indexed
    <3> QED BY <3>1, <3>2
  <2>6. Indexed(t, -1, {})
    <3>1. \A i, j \in 0..size(q) - 1 : q.array[i] = q.array[j] => i = j
      BY <1>4 DEF Indexed
    <3>2. \A i, j \in 0..size(t) - 1 : t.array[i] = t.array[j] => i = j
      BY <1>8, <1>10, <3>1, SMT
    <3>3. \A i \in 0..size(t) - 1 : i # -1 => t.stat[t.array[i]] = i
      BY <1>8, <1>10, <2>4, SMT
    <3>4. \A u \in Vertices : u \notin Members(t) => t.stat[u] < 0
      BY <1>8, <1>10, <2>5
    <3> QED BY <3>2, <3>3, <3>4 DEF Indexed
  <2>7. \A i \in 1..size(t) - 1 : Ordered(t, i)
    BY <1>4, <1>8, <1>10 DEF Ordered
  <2> QED BY <2>6, <2>7 DEF Heap
<1>12. /\ \A u \in Vertices : s.stat[u] >= 0 <=> u \in Members(s)
       /\ \A u \in Vertices : t.stat[u] >= 0 <=> u \in Members(t)
  BY <1>1, <1>8, <1>11, MembersHaveStat
<1>13. Candidates(t) = Candidates(s) \ {v} /\ v \in Candidates(s)
  BY <1>2, <1>3, <1>4, <1>10, <1>12 DEF Candidates
<1>14. \A u \in Vertices : u \notin Members(s) => t.stat[u] = s.stat[u]
  BY <1>3, <1>4, <1>6, <1>8
<1>15. \A u \in Vertices : s.stat[u] \in Int /\ t.stat[u] \in Int
  BY <1>1, <1>8, SMT DEF States
<1>16. \A u \in Vertices : t.stat[u] = LSA_SPF_IN_SPFTREE <=>
                              s.stat[u] = LSA_SPF_IN_SPFTREE \/ u = v
  <2> TAKE u \in Vertices
  <2>1. CASE u = v
    BY <1>6, <1>8, <2>1
  <2>2. CASE u # v /\ u \in Members(s)
    <3>1. t.stat[u] >= 0 /\ s.stat[u] >= 0
      BY <1>4, <1>10, <1>12, <2>2
    <3> QED BY <3>1, <2>2, <1>15, SMT DEF LSA_SPF_IN_SPFTREE
  <2>3. CASE u # v /\ u \notin Members(s)
    BY <1>14, <2>3
  <2> QED BY <2>1, <2>2, <2>3
<1>17. Tree(t) = Tree(s) \cup {v}
  BY <1>2, <1>16 DEF Tree
<1>18. Good(t)
  <2>1. ASSUME NEW u \in Vertices, t.stat[u] < 0
        PROVE  t.stat[u] \in {LSA_SPF_NOT_EXPLORED, LSA_SPF_IN_SPFTREE}
    <3>1. CASE u = v
      BY <1>6, <1>8, <3>1
    <3>2. CASE u # v
      <4>1. ~(t.stat[u] >= 0)
        BY <1>15, <2>1, SMT
      <4>2. u \notin Members(s)
        BY <1>4, <1>10, <1>12, <3>2, <4>1
      <4> QED BY <1>14, <2>1, <4>2 DEF Good
    <3> QED BY <3>1, <3>2
  <2> QED BY <1>8, <1>11, <2>1 DEF Good
<1>19. \A w \in Candidates(s) : Key(s, v) <= Key(s, w)
  <2> TAKE w \in Candidates(s)
  <2>1. w \in Members(s)
    BY <1>12 DEF Candidates
  <2>2. PICK i \in 0..size(s) - 1 : w = s.array[i]
    BY <1>1, <2>1, Size DEF Members
  <2> QED BY <1>2, <2>2
<1> QED BY <1>8, <1>9, <1>13, <1>17, <1>18, <1>19 DEF v, t

-----------------------------------------------------------------------------
(* The queue.  What holds at every turn: the database is well formed, and    *)
(* the heap is in order and knows where everything is.                       *)

QueueInv ==
    /\ WellFormed(lsdb)
    /\ vertex \in Vertices
    /\ rep \in BOOLEAN
    /\ Good(spf)
    /\ phase = "loop" => vertex \in Tree(spf)

LEMMA RootVertex == Root \in Vertices
BY SpfTreeConstants, SMT DEF Vertices

LEMMA NoLsasWellFormed == WellFormed(NoLsas)
<1> SUFFICES ASSUME NEW v \in Vertices
             PROVE  NoLsas[v].links \in Seq(LinkRecords) /\ DOMAIN NoLsas[v].links = {}
  BY DEF WellFormed
<1>1. NoLsas[v].links = << >>
  BY SMT DEF NoLsas
<1>2. << >> \in Seq(LinkRecords) /\ DOMAIN << >> = {}
  BY SMT
<1> QED BY <1>1, <1>2

(* A calculation starts from an empty queue. *)
LEMMA UnexploredGood ==
    ASSUME NEW room \in Int
    PROVE  /\ Good(Unexplored(room))
           /\ Tree(Unexplored(room)) = {} /\ Candidates(Unexplored(room)) = {}
<1> DEFINE u == Unexplored(room)
<1>1. /\ u \in States /\ u.array = [i \in {} |-> 0]
      /\ \A v \in Vertices : u.stat[v] = -1
  <2>1. [i \in {} |-> 0] \in [0..0-1 -> Vertices]
    <3>1. 0..0-1 = {}
      BY SMT
    <3> QED BY <3>1, SMT
  <2>2. [i \in {} |-> 0] \in Arrays
    BY <2>1, SMT DEF Arrays
  <2>3. [v \in Vertices |-> LSA_SPF_NOT_EXPLORED] \in [Vertices -> Int]
    BY SMT DEF LSA_SPF_NOT_EXPLORED
  <2>4. [v \in Vertices |-> 0] \in [Vertices -> Nat]
    BY SMT
  <2>5. [v \in Vertices |-> {}] \in [Vertices -> SUBSET Parents]
    BY SMT
  <2>6. [v \in Vertices |-> <<>>] \in [Vertices -> Seq(Vertices)]
    BY SMT
  <2> QED BY <2>2, <2>3, <2>4, <2>5, <2>6, SMT DEF Unexplored, States, LSA_SPF_NOT_EXPLORED
<1> HIDE DEF u
<1>2. size(u) \in Nat /\ DOMAIN u.array = 0..size(u) - 1
  BY <1>1, Size
<1>3. DOMAIN u.array = {}
  BY <1>1, SMT
<1>4. Members(u) = {}
  BY <1>3, SMT DEF Members
<1>5. Heap(u)
  <2>1. \A i \in 0..size(u) - 1 : FALSE
    BY <1>2, <1>3
  <2>2. \A i \in 1..size(u) - 1 : i \in 0..size(u) - 1
    BY <1>2, SMT
  <2>3. \A v \in Vertices : u.stat[v] < 0
    BY <1>1, SMT
  <2> QED BY <2>1, <2>2, <2>3 DEF Heap, Indexed
<1>6. Good(u)
  BY <1>1, <1>5 DEF Good, LSA_SPF_NOT_EXPLORED
<1>7. Tree(u) = {} /\ Candidates(u) = {}
  BY <1>1, SMT DEF Tree, Candidates, LSA_SPF_IN_SPFTREE
<1> QED BY <1>6, <1>7 DEF u

(* The root is on the tree from the start. *)
LEMMA RootFirst ==
    ASSUME NEW room \in Int
    PROVE  LET r == [Unexplored(room) EXCEPT !.stat[Root] = LSA_SPF_IN_SPFTREE]
           IN  /\ Good(r)
               /\ Tree(r) = {Root} /\ Candidates(r) = {}
               /\ r.dist = [v \in Vertices |-> 0] /\ r.parents = [v \in Vertices |-> {}]
               /\ r.room = room /\ r.whole = TRUE
<1> DEFINE u == Unexplored(room)
           st == [u.stat EXCEPT ![Root] = LSA_SPF_IN_SPFTREE]
           r == [u EXCEPT !.stat[Root] = LSA_SPF_IN_SPFTREE]
<1>1. /\ Good(u) /\ Tree(u) = {} /\ Candidates(u) = {}
  BY UnexploredGood
<1>2. /\ u.dist = [v \in Vertices |-> 0] /\ u.parents = [v \in Vertices |-> {}]
      /\ u.room = room /\ u.whole = TRUE
      /\ \A v \in Vertices : u.stat[v] = LSA_SPF_NOT_EXPLORED
      /\ u.array = [i \in {} |-> 0]
  BY SMT DEF Unexplored
<1> HIDE DEF u
<1>3. u \in States /\ Heap(u)
  BY <1>1 DEF Good
<1>4. st \in [Vertices -> Int] /\ st[Root] = -2 /\ \A v \in Vertices : v # Root => st[v] = -1
  BY <1>2, <1>3, RootVertex, SMT DEF States, LSA_SPF_IN_SPFTREE, LSA_SPF_NOT_EXPLORED
<1>5. r = [u EXCEPT !.stat = st]
  BY <1>3, SMT DEF States
<1> HIDE DEF st
<1>6. /\ r \in States /\ r.array = u.array /\ r.stat = st /\ r.dist = u.dist
      /\ r.parents = u.parents /\ r.room = u.room /\ r.whole = u.whole
  BY <1>3, <1>4, <1>5 DEF States
<1> HIDE DEF r
<1>7. size(r) \in Nat /\ DOMAIN r.array = 0..size(r) - 1
  BY <1>6, Size
<1>8. DOMAIN r.array = {}
  BY <1>2, <1>6, SMT
<1>9. Heap(r)
  <2>1. \A i \in 0..size(r) - 1 : FALSE
    BY <1>7, <1>8
  <2>2. \A i \in 1..size(r) - 1 : i \in 0..size(r) - 1
    BY <1>7, SMT
  <2>3. \A v \in Vertices : r.stat[v] < 0
    BY <1>4, <1>6, SMT
  <2> QED BY <2>1, <2>2, <2>3 DEF Heap, Indexed
<1>10. Good(r)
  BY <1>4, <1>6, <1>9 DEF Good, LSA_SPF_NOT_EXPLORED, LSA_SPF_IN_SPFTREE
<1>11. Tree(r) = {Root} /\ Candidates(r) = {}
  BY <1>4, <1>6, RootVertex, SMT DEF Tree, Candidates, LSA_SPF_IN_SPFTREE
<1> QED BY <1>2, <1>6, <1>10, <1>11 DEF r, u

LEMMA QueueInvInit == TreeInit => QueueInv
<1> SUFFICES ASSUME TreeInit PROVE QueueInv
  BY SMT
<1>1. PlugletBlocks \in Int
  BY SpfTreeConstants, SMT
<1>2. phase # "loop"
  BY SMT DEF TreeInit
<1> QED BY <1>1, <1>2, RootVertex, NoLsasWellFormed, UnexploredGood DEF TreeInit, QueueInv

LEMMA GoodRoom ==
    ASSUME NEW s, Good(s)
    PROVE  s.room \in Int
BY SMT DEF Good, States

LEMMA ContentsWellFormed ==
    ASSUME NEW db \in Contents
    PROVE  db \in Databases \cup Later /\ WellFormed(db)
BY SpfTreeConstants DEF Contents

LEMMA QueueInvNext == QueueInv /\ [TreeNext]_treeVars => QueueInv'
<1> SUFFICES ASSUME QueueInv, [TreeNext]_treeVars PROVE QueueInv'
  BY SMT
<1>1. ASSUME NEW db, lsdb' = db, WellFormed(db) PROVE WellFormed(lsdb)'
  BY <1>1 DEF WellFormed
<1>2. ASSUME Good(spf') PROVE Good(spf)'
  BY <1>2
<1>3. spf.room \in Int
  BY GoodRoom DEF QueueInv
<1>4. CASE calculate_nothing
  BY <1>1, <1>4 DEF calculate_nothing, QueueInv
<1>5. ASSUME NEW db \in Contents, calculate_start(db) PROVE QueueInv'
  <2>1. WellFormed(lsdb)'
    BY <1>1, <1>5, ContentsWellFormed DEF calculate_start
  <2>2. Good(spf') /\ Root \in Tree(spf')
    BY <1>3, <1>5, RootFirst DEF calculate_start
  <2> QED BY <1>5, <2>1, <2>2, RootVertex DEF calculate_start, QueueInv
<1>6. CASE calculate_next
  <2> DEFINE s == ospf_spf_next(spf, vertex)
  <2>1. Good(s)
    BY SpfNext DEF QueueInv
  <2>2. calculate_turn(s) \/ calculate_end(s)
    BY <1>6 DEF calculate_next
  <2> HIDE DEF s
  <2>3. CASE calculate_turn(s)
    <3> DEFINE of == {p.parent : p \in s.parents[s.array[0]]}
    <3>1. /\ size(s) > 0 /\ vertex' = s.array[0] /\ lsdb' = lsdb /\ rep' = rep
          /\ spf' = Joined(s, of)
      BY <2>3 DEF calculate_turn, Joined
    <3> HIDE DEF of
    <3>2. /\ Good(spf') /\ s.array[0] \in Candidates(s)
          /\ Tree(spf') = Tree(s) \cup {s.array[0]}
      BY <2>1, <3>1, Joins
    <3>3. s.array[0] \in Tree(spf')
      BY <3>2
    <3> QED BY <1>1, <3>1, <3>2, <3>3 DEF QueueInv, Candidates
  <2>4. CASE calculate_end(s)
    <3>1. phase' # "loop"
      BY <2>4, SMT DEF calculate_end
    <3> QED BY <1>1, <2>1, <2>4, <3>1 DEF calculate_end, QueueInv
  <2> QED BY <2>2, <2>3, <2>4
<1>7. CASE calculate_free
  <2>1. WellFormed(lsdb)' /\ vertex' \in Vertices /\ rep' = rep
    BY <1>1, <1>7, NoLsasWellFormed, RootVertex DEF calculate_free
  <2>2. Good(spf')
    BY <1>3, <1>7, UnexploredGood DEF calculate_free
  <2>3. phase' # "loop"
    BY <1>7, SMT DEF calculate_free
  <2> QED BY <2>1, <2>2, <2>3 DEF QueueInv
<1>8. CASE inject
  BY <1>1, <1>8 DEF inject, QueueInv
<1>9. CASE UNCHANGED treeVars
  BY <1>1, <1>9 DEF treeVars, QueueInv
<1> QED BY <1>4, <1>5, <1>6, <1>7, <1>8, <1>9 DEF TreeNext

LEMMA QueueInvIndexed == QueueInv => QueueIndexed
<1> SUFFICES ASSUME QueueInv PROVE QueueIndexed
  BY SMT
<1>1. spf \in States /\ Heap(spf)
  BY DEF QueueInv, Good
<1>2. size(spf) \in Nat /\ DOMAIN spf.array = 0..size(spf) - 1
      /\ spf.array \in [0..size(spf) - 1 -> Vertices]
  BY <1>1, Size
<1>3. ASSUME NEW v \in Vertices
      PROVE  spf.stat[v] >= 0 <=> \E i \in DOMAIN spf.array : spf.array[i] = v
  BY <1>1, MembersHaveStat DEF Members
<1>4. ASSUME NEW i \in DOMAIN spf.array PROVE spf.stat[spf.array[i]] = i
  <2>1. i # -1 /\ i \in 0..size(spf) - 1
    BY <1>2, SMT
  <2> QED BY <1>1, <2>1 DEF Heap, Indexed
<1>5. ASSUME NEW i \in DOMAIN spf.array \ {0}
      PROVE  cmp(spf, spf.array[PARENT_OF(i)], spf.array[i]) <= 0
  <2>1. i \in 1..size(spf) - 1 /\ i \in 0..size(spf) - 1
    BY <1>2, SMT
  <2>2. PARENT_OF(i) \in 0..size(spf) - 1
    BY <1>2, <2>1, ParentOf, SMT
  <2>3. spf.array[i] \in Vertices /\ spf.array[PARENT_OF(i)] \in Vertices
    BY <1>2, <2>1, <2>2
  <2>4. Key(spf, spf.array[PARENT_OF(i)]) <= Key(spf, spf.array[i])
    BY <1>1, <2>1 DEF Heap, Ordered
  <2> QED BY <1>1, <2>3, <2>4, CmpIsKey, SMT
<1> QED BY <1>3, <1>4, <1>5 DEF QueueIndexed

(* At every turn of ospf_spf_calculate the position that the stat of an LSA  *)
(* gives is where the candidate queue has its vertex, exactly the vertices   *)
(* in the queue have one, and the heap is in order: for every database and   *)
(* every size of the queue, whether ospf_spf_next or its pluglet runs.       *)
THEOREM QueueRight == TreeSpec => []QueueIndexed
BY QueueInvInit, QueueInvNext, QueueInvIndexed, PTL DEF TreeSpec

-----------------------------------------------------------------------------
(* The blocks of the pluglet *)

(* The vertex that link i of u leads to, if it does. *)
End(u, i) == Links(u)[i].id

(* What one link changes. *)
Changes(b, v, i, x, y) ==
    /\ Tree(y) = Tree(x)
    /\ IF Leads(b, v, i) /\ Takes(x, v, i, End(v, i))
       THEN /\ Candidates(y) = Candidates(x) \cup {End(v, i)}
            /\ y.dist[End(v, i)] = Distance(x, v, i)
            /\ y.parents[End(v, i)] = NewParents(x, v, i, End(v, i))
            /\ \A u \in Vertices : u # End(v, i) => y.dist[u] = x.dist[u] /\ y.parents[u] = x.parents[u]
       ELSE Candidates(y) = Candidates(x) /\ y.dist = x.dist /\ y.parents = x.parents

LEMMA StepChanges ==
    ASSUME WellFormed(lsdb), NEW v \in Vertices, NEW i \in DOMAIN Links(v), NEW b,
           NEW x, Good(x), NEW y, Step(b, v, i, x, y), y.whole
    PROVE  Changes(b, v, i, x, y)
<1> DEFINE w == End(v, i)
           r == Relax(x, v, i, w)
<1>1. Alike(y, Followed(b, x, v, i))
  BY DEF Step
<1>2. CASE Leads(b, v, i) /\ Takes(x, v, i, w)
  <2>1. w \in Vertices /\ Distance(x, v, i) \in Nat /\ Hops(x, v, i, w) \subseteq Hop
    BY <1>2, FollowedGood DEF End
  <2> HIDE DEF w
  <2>2. /\ Tree(r) = Tree(x) /\ Candidates(r) = Candidates(x) \cup {w}
        /\ Entry(x, r, w, Distance(x, v, i), NewParents(x, v, i, w))
    BY <1>2, <2>1, Relaxed
  <2>3. Followed(b, x, v, i) = r
    BY <1>2 DEF Followed, w, End
  <2> HIDE DEF r
  <2>4. y.stat = r.stat /\ y.dist = r.dist /\ y.parents = r.parents
    BY <1>1, <2>3 DEF Alike
  <2>5. Tree(y) = Tree(r) /\ Candidates(y) = Candidates(r)
    BY <2>4 DEF Tree, Candidates
  <2> QED BY <1>2, <2>2, <2>4, <2>5 DEF Changes, Entry, w
<1>3. CASE ~(Leads(b, v, i) /\ Takes(x, v, i, w))
  <2>1. Followed(b, x, v, i) = x
    BY <1>3, FollowedGood DEF Followed, End
  <2>2. y.stat = x.stat /\ y.dist = x.dist /\ y.parents = x.parents
    BY <1>1, <2>1 DEF Alike
  <2>3. Tree(y) = Tree(x) /\ Candidates(y) = Candidates(x)
    BY <2>2 DEF Tree, Candidates
  <2> QED BY <1>3, <2>2, <2>3 DEF Changes
<1> QED BY <1>2, <1>3

(* If the pluglet had room in the end, it had room at every link. *)
LEMMA WalkWhole ==
    ASSUME WellFormed(lsdb), NEW v \in Vertices, NEW b, NEW s, Good(s), NEW f, NEW r,
           Walk(b, v, s, f, r), r.whole
    PROVE  \A n \in 0..Len(Links(v)) : Good(f[n]) /\ f[n].whole
<1> DEFINE m == Len(Links(v))
           P == {n \in 0..m : f[m - n].whole}
<1>1. m \in Nat
  BY LinkShape
<1>2. /\ f[0] = s /\ r = f[m] /\ \A n \in 1..m : Step(b, v, n, f[n - 1], f[n])
  BY DEF Walk
<1> HIDE DEF m
<1>3. 0 \in P
  <2>1. 0 \in 0..m /\ m - 0 = m
    BY <1>1, SMT
  <2> QED BY <1>2, <2>1
<1>4. ASSUME NEW n \in 1..m, n - 1 \in P PROVE n \in P
  <2>1. m - (n - 1) \in 1..m /\ n \in 0..m /\ (m - (n - 1)) - 1 = m - n
    BY <1>1, SMT
  <2>2. f[m - (n - 1)].whole
    BY <1>4
  <2>3. f[(m - (n - 1)) - 1].whole
    BY <1>2, <2>1, <2>2 DEF Step
  <2> QED BY <2>1, <2>3
<1> HIDE DEF P
<1>5. \A n \in 0..m : n \in P
  BY <1>1, <1>3, <1>4, Upto
<1>6. ASSUME NEW n \in 0..m PROVE f[n].whole
  <2>1. m - n \in 0..m /\ m - (m - n) = n
    BY <1>1, SMT
  <2>2. f[m - (m - n)].whole
    BY <1>5, <2>1 DEF P
  <2> QED BY <2>1, <2>2
<1>7. ASSUME NEW n \in 0..m PROVE Good(f[n])
  <2>1. n = 0 \/ n \in 1..m
    BY <1>1, SMT
  <2> QED BY <1>2, <2>1 DEF Step
<1> QED BY <1>6, <1>7 DEF m

(* What a nearer candidate costs: the pluglet has blocks left over or taken  *)
(* only if some link led to a candidate that was nearer.                     *)
Spent(v, s, x) ==
    /\ Tree(x) = Tree(s)
    /\ x.dist[v] = s.dist[v]
    /\ x.room # s.room => \E i \in DOMAIN Links(v) : /\ End(v, i) \in Candidates(x)
                                                     /\ x.dist[End(v, i)] < Distance(s, v, i)

LEMMA StepSpent ==
    ASSUME WellFormed(lsdb), NEW v \in Vertices, NEW i \in DOMAIN Links(v), NEW b,
           NEW s, Good(s), v \in Tree(s),
           NEW x, Good(x), NEW y, Step(b, v, i, x, y), y.whole, Spent(v, s, x)
    PROVE  Spent(v, s, y)
<1> DEFINE w == End(v, i)
<1>1. Changes(b, v, i, x, y)
  BY StepChanges
<1>2. y.room # x.room => w \in Candidates(x) /\ x.dist[w] < Distance(x, v, i)
  BY DEF Step, Lags, End
<1>3. Distance(x, v, i) = Distance(s, v, i)
  BY DEF Spent, Distance
<1>4. Tree(y) = Tree(s)
  BY <1>1 DEF Changes, Spent
<1>5. ASSUME NEW u \in Candidates(x) PROVE u \in Candidates(y) /\ y.dist[u] <= x.dist[u]
  <2>1. u \in Vertices /\ x.dist[u] \in Nat
    BY SMT DEF Candidates, Good, States
  <2>2. CASE Leads(b, v, i) /\ Takes(x, v, i, w)
    <3>1. u \in Candidates(y)
      BY <1>1, <2>2 DEF Changes
    <3>2. CASE u = w
      <4>1. y.dist[u] = Distance(x, v, i) /\ ~(x.dist[u] < Distance(x, v, i))
        BY <1>1, <2>2, <3>2 DEF Changes, Takes
      <4>2. Distance(x, v, i) \in Nat
        BY <2>2, FollowedGood
      <4> QED BY <2>1, <3>1, <4>1, <4>2, SMT
    <3>3. CASE u # w
      <4>1. y.dist[u] = x.dist[u]
        BY <1>1, <2>1, <2>2, <3>3 DEF Changes
      <4> QED BY <2>1, <3>1, <4>1, SMT
    <3> QED BY <3>2, <3>3
  <2>3. CASE ~(Leads(b, v, i) /\ Takes(x, v, i, w))
    <3>1. u \in Candidates(y) /\ y.dist[u] = x.dist[u]
      BY <1>1, <2>3 DEF Changes
    <3> QED BY <2>1, <3>1, SMT
  <2> QED BY <2>2, <2>3
<1>6. y.dist[v] = s.dist[v]
  <2>1. v \in Tree(x) /\ x.dist[v] = s.dist[v]
    BY DEF Spent
  <2>2. Takes(x, v, i, w) => v # w
    BY <2>1 DEF Takes
  <2> QED BY <1>1, <2>1, <2>2 DEF Changes
<1>7. ASSUME y.room # s.room
      PROVE  \E j \in DOMAIN Links(v) : /\ End(v, j) \in Candidates(y)
                                        /\ y.dist[End(v, j)] < Distance(s, v, j)
  <2>1. PICK j \in DOMAIN Links(v) : /\ End(v, j) \in Candidates(x)
                                     /\ x.dist[End(v, j)] < Distance(s, v, j)
    <3>1. CASE x.room # s.room
      BY <3>1 DEF Spent
    <3>2. CASE x.room = s.room
      <4>1. y.room # x.room
        BY <1>7, <3>2
      <4> QED BY <1>2, <1>3, <4>1
    <3> QED BY <3>1, <3>2
  <2>2. End(v, j) \in Candidates(y) /\ y.dist[End(v, j)] <= x.dist[End(v, j)]
    BY <1>5, <2>1
  <2>3. End(v, j) \in Vertices /\ Good(y)
    BY <2>1 DEF Candidates, Step
  <2>4. x.dist[End(v, j)] \in Nat /\ y.dist[End(v, j)] \in Nat
    BY <2>3, SMT DEF Good, States
  <2>5. Distance(s, v, j) \in Nat
    <3>1. s.dist[v] \in Nat
      BY SMT DEF Good, States
    <3>2. Length(v, j) \in Nat
      BY LinkShape
    <3> QED BY <3>1, <3>2, SMT DEF Distance
  <2>6. y.dist[End(v, j)] < Distance(s, v, j)
    BY <2>1, <2>2, <2>4, <2>5, SMT
  <2> QED BY <2>2, <2>6
<1> QED BY <1>4, <1>6, <1>7 DEF Spent

LEMMA WalkSpent ==
    ASSUME WellFormed(lsdb), NEW v \in Vertices, NEW b, NEW s, Good(s), v \in Tree(s),
           NEW f, NEW r, Walk(b, v, s, f, r), r.whole
    PROVE  Spent(v, s, r)
<1> DEFINE m == Len(Links(v))
           P == {n \in 0..m : Spent(v, s, f[n])}
<1>1. m \in Nat /\ DOMAIN Links(v) = 1..m
  BY LinkShape
<1>2. /\ f[0] = s /\ r = f[m] /\ \A n \in 1..m : Step(b, v, n, f[n - 1], f[n])
  BY DEF Walk
<1>3. \A n \in 0..m : Good(f[n]) /\ f[n].whole
  BY WalkWhole
<1> HIDE DEF m
<1>4. 0 \in 0..m /\ m \in 0..m
  BY <1>1, SMT
<1>5. 0 \in P
  BY <1>2, <1>4 DEF Spent
<1>6. ASSUME NEW n \in 1..m, n - 1 \in P PROVE n \in P
  <2>1. n \in 0..m /\ n - 1 \in 0..m /\ n \in DOMAIN Links(v)
    BY <1>1, SMT
  <2>2. Spent(v, s, f[n - 1])
    BY <1>6
  <2>3. Spent(v, s, f[n])
    BY <1>2, <1>3, <2>1, <2>2, StepSpent
  <2> QED BY <2>1, <2>3
<1> HIDE DEF P
<1>7. m \in P
  BY <1>1, <1>4, <1>5, <1>6, Upto
<1> QED BY <1>2, <1>7 DEF P

LEMMA FreesCopies ==
    QueueInv /\ [TreeNext]_treeVars =>
      (phase = "loop" /\ rep /\ spf'.whole /\ spf'.room # spf.room =>
         \E i \in DOMAIN Links(vertex) :
            LET w == Links(vertex)[i].id
            IN  /\ w \in Vertices
                /\ spf.stat[w] # LSA_SPF_IN_SPFTREE
                /\ spf'.dist[w] < spf.dist[vertex] +
                        IF vertex \in Routers THEN Links(vertex)[i].metric ELSE 0)
<1> SUFFICES ASSUME QueueInv, [TreeNext]_treeVars,
                    phase = "loop", rep, spf'.whole, spf'.room # spf.room
             PROVE  \E i \in DOMAIN Links(vertex) :
                       /\ End(vertex, i) \in Vertices
                       /\ spf.stat[End(vertex, i)] # LSA_SPF_IN_SPFTREE
                       /\ spf'.dist[End(vertex, i)] < Distance(spf, vertex, i)
  BY DEF End, Distance, Length
<1> DEFINE s == ospf_spf_next(spf, vertex)
<1>1. calculate_next
  <2>1. phase # "idle" /\ phase # "done"
    BY SMT
  <2>2. ~calculate_nothing /\ ~calculate_free /\ ~inject /\ spf' # spf
    BY <2>1 DEF calculate_nothing, calculate_free, inject
  <2>3. \A db \in Contents : ~calculate_start(db)
    BY <2>1 DEF calculate_start
  <2> QED BY <2>2, <2>3 DEF TreeNext, treeVars
<1>2. calculate_turn(s) \/ calculate_end(s)
  BY <1>1 DEF calculate_next
<1>3. /\ WellFormed(lsdb) /\ vertex \in Vertices /\ Good(spf) /\ vertex \in Tree(spf)
  BY DEF QueueInv
<1>4. Good(s) /\ (s.whole => \E f : Walk(rep, vertex, spf, f, s))
  BY SpfNext DEF QueueInv
<1> HIDE DEF s
<1>5. spf'.whole = s.whole /\ spf'.room = s.room /\ spf'.dist = s.dist
  <2>1. CASE calculate_turn(s)
    <3> DEFINE of == {p.parent : p \in s.parents[s.array[0]]}
    <3>1. size(s) > 0 /\ spf' = Joined(s, of)
      BY <2>1 DEF calculate_turn, Joined
    <3> HIDE DEF of
    <3> QED BY <1>4, <3>1, Joins
  <2>2. CASE calculate_end(s)
    BY <2>2 DEF calculate_end
  <2> QED BY <1>2, <2>1, <2>2
<1>6. Spent(vertex, spf, s)
  BY <1>3, <1>4, <1>5, WalkSpent
<1>7. PICK i \in DOMAIN Links(vertex) : /\ End(vertex, i) \in Candidates(s)
                                        /\ s.dist[End(vertex, i)] < Distance(spf, vertex, i)
  BY <1>5, <1>6 DEF Spent
<1>8. End(vertex, i) \in Vertices /\ End(vertex, i) \notin Tree(s)
  BY <1>4, <1>7, SMT DEF Candidates, Tree, LSA_SPF_IN_SPFTREE, Good, States
<1>9. spf.stat[End(vertex, i)] # LSA_SPF_IN_SPFTREE
  BY <1>6, <1>8 DEF Spent, Tree
<1> QED BY <1>5, <1>7, <1>8, <1>9

(* Whatever the database and the size of its heap, the pluglet in place of   *)
(* ospf_spf_next gives back every block it takes while it examines a vertex, *)
(* unless one of the links leads to a candidate that is nearer already.      *)
THEOREM CopiesFreed == TreeSpec => PlugletFreesCopies
BY QueueInvInit, QueueInvNext, FreesCopies, PTL DEF TreeSpec, PlugletFreesCopies
=============================================================================
