---------------------------- MODULE SpfTreeProofs ---------------------------
(***************************************************************************)
(* Proofs about SpfTree: the tree is one of shortest paths.  TreeInv is the *)
(* invariant of Dijkstra's loop.  When the queue is empty the distances of *)
(* the reference follow from it (ReachedRight): each vertex of the tree has *)
(* a rank above that of the vertex it is reached from, and the reference   *)
(* has its distance after as many turns.                                   *)
(***************************************************************************)
EXTENDS SpfQueueProofs

USE Zenon

(* Link i of u counts, when the pluglet has examined the vertices of P. *)
Follows(P, u, i) == Leads(u \in P, u, i) /\ (u = Root => Links(u)[i].hop)

(* It has been examined, when the loop is at link k of v. *)
Known(s, P, v, k, u, i) ==
    /\ u \in Tree(s)
    /\ i \in DOMAIN Links(u)
    /\ u = v => i <= k
    /\ Follows(P, u, i)

(* And it ends a shortest path to w, as far as is known. *)
Tight(s, P, v, k, u, i, w) ==
    /\ Known(s, P, v, k, u, i)
    /\ End(u, i) = w
    /\ s.dist[w] = Distance(s, u, i)

(* The vertices of the tree in an order, and one in which each comes after *)
(* one that it is reached from.                                            *)
Ranks(s) == [Tree(s) -> 0..Cardinality(Tree(s)) - 1]
Ranked(s, P, v, k) ==
    \E rank \in Ranks(s) :
        \A w \in Tree(s) \ {Root} :
            \E u, i : Tight(s, P, v, k, u, i, w) /\ rank[u] < rank[w]

(* The loop invariant of Dijkstra's algorithm. *)
TreeInv(s, P, v, k) ==
    /\ Root \in Tree(s) /\ s.dist[Root] = 0
    /\ v \in Tree(s)
    /\ \A u \in Tree(s) : s.dist[u] <= s.dist[v]
    /\ \A w \in Candidates(s) : s.dist[v] <= s.dist[w]
    /\ \A u, i : Known(s, P, v, k, u, i) =>
                    End(u, i) \in Explored(s) /\ s.dist[End(u, i)] <= Distance(s, u, i)
    /\ \A w \in Explored(s) \ {Root} :
          s.parents[w] # {} /\ \E u, i : Tight(s, P, v, k, u, i, w)
    /\ \A w \in Vertices \ Explored(s) : s.parents[w] = {}
    /\ Ranked(s, P, v, k)

LEMMA TreeFinite ==
    ASSUME NEW s
    PROVE  /\ IsFiniteSet(Vertices) /\ Cardinality(Vertices) \in Nat
           /\ IsFiniteSet(Tree(s)) /\ Cardinality(Tree(s)) \in Nat
           /\ Cardinality(Tree(s)) <= Cardinality(Vertices)
<1>1. IsFiniteSet(Vertices)
  BY SpfTreeConstants, FS_Union DEF Vertices
<1>2. Tree(s) \subseteq Vertices
  BY DEF Tree
<1> QED BY <1>1, <1>2, FS_Subset, FS_CardinalityType

LEMMA Distances1 ==
    ASSUME WellFormed(lsdb), NEW s, Good(s), NEW u \in Vertices
    PROVE  /\ s.dist[u] \in Nat
           /\ \A i \in DOMAIN Links(u) : Distance(s, u, i) \in Nat /\ s.dist[u] <= Distance(s, u, i)
<1>1. s.dist[u] \in Nat
  BY SMT DEF Good, States
<1>2. ASSUME NEW i \in DOMAIN Links(u)
      PROVE  Distance(s, u, i) \in Nat /\ s.dist[u] <= Distance(s, u, i)
  <2>1. Length(u, i) \in Nat
    BY LinkShape
  <2> QED BY <1>1, <2>1, SMT DEF Distance
<1> QED BY <1>1, <1>2

LEMMA TreeOrCandidate ==
    ASSUME NEW s, Good(s)
    PROVE  /\ Tree(s) \subseteq Vertices /\ Candidates(s) \subseteq Vertices
           /\ Explored(s) \subseteq Vertices
           /\ Tree(s) \cap Candidates(s) = {}
<1>1. Tree(s) \cap Candidates(s) = {}
  BY SMT DEF Tree, Candidates, LSA_SPF_IN_SPFTREE, Good, States
<1> QED BY <1>1 DEF Tree, Candidates, Explored

LEMMA HopsThere ==
    ASSUME NEW s, NEW v, NEW i, NEW w, v # Root => s.parents[v] # {}
    PROVE  Hops(s, v, i, w) # {} <=> (v = Root => Links(v)[i].hop)
<1>1. CASE v = Root
  BY <1>1, HopsCases
<1>2. CASE v # Root /\ v \in Networks /\ OnLink(s, v, w) # {}
  BY <1>2, HopsCases
<1>3. CASE v # Root /\ ~(v \in Networks /\ OnLink(s, v, w) # {})
  <2>1. NextHops(s, v) # {}
    BY <1>3 DEF NextHops
  <2> QED BY <1>3, <2>1, HopsCases
<1> QED BY <1>1, <1>2, <1>3

(* What examining one more link means for the links that have been examined. *)
LEMMA OneMore ==
    ASSUME WellFormed(lsdb), NEW v \in Vertices, NEW i \in DOMAIN Links(v), NEW P,
           NEW x, Good(x), NEW y, Good(y), Changes(v \in P, v, i, x, y), v \in Tree(x),
           v # Root => x.parents[v] # {}
    PROVE  /\ Tree(y) = Tree(x)
           /\ \A u \in Tree(x) : y.dist[u] = x.dist[u] /\ y.parents[u] = x.parents[u]
           /\ \A u \in Tree(x) : \A j : Distance(y, u, j) = Distance(x, u, j)
           /\ \A u, j : Known(y, P, v, i, u, j) <=>
                          Known(x, P, v, i - 1, u, j) \/ (u = v /\ j = i /\ Follows(P, v, i))
           /\ \A u, j, w : Tight(x, P, v, i - 1, u, j, w) /\ y.dist[w] = x.dist[w]
                             => Tight(y, P, v, i, u, j, w)
           /\ Leads(v \in P, v, i) /\ Takes(x, v, i, End(v, i)) <=>
                /\ Follows(P, v, i)
                /\ End(v, i) \notin Tree(x)
                /\ End(v, i) \in Candidates(x) => ~(x.dist[End(v, i)] < Distance(x, v, i))
<1> DEFINE w == End(v, i)
           F == Leads(v \in P, v, i) /\ Takes(x, v, i, w)
<1>1. Tree(y) = Tree(x)
  BY DEF Changes
<1>2. ASSUME NEW u \in Tree(x) PROVE y.dist[u] = x.dist[u] /\ y.parents[u] = x.parents[u]
  <2>1. u \in Vertices
    BY TreeOrCandidate
  <2>2. F => u # w
    BY DEF Takes
  <2> QED BY <2>1, <2>2 DEF Changes
<1>3. ASSUME NEW u \in Tree(x), NEW j PROVE Distance(y, u, j) = Distance(x, u, j)
  BY <1>2 DEF Distance
<1>4. i \in Nat /\ \A j \in DOMAIN Links(v) : j \in Nat
  BY LinkShape
<1>5. \A j \in DOMAIN Links(v) : j <= i <=> j <= i - 1 \/ j = i
  BY <1>4, SMT
<1>6. ASSUME NEW u, NEW j
      PROVE  Known(y, P, v, i, u, j) <=>
               Known(x, P, v, i - 1, u, j) \/ (u = v /\ j = i /\ Follows(P, v, i))
  BY <1>1, <1>5 DEF Known
<1>7. ASSUME NEW u, NEW j, NEW z, Tight(x, P, v, i - 1, u, j, z), y.dist[z] = x.dist[z]
      PROVE  Tight(y, P, v, i, u, j, z)
  <2>1. u \in Tree(x)
    BY <1>7 DEF Tight, Known
  <2> QED BY <1>3, <1>6, <1>7, <2>1 DEF Tight
<1>8. F <=> /\ Follows(P, v, i)
            /\ w \notin Tree(x)
            /\ w \in Candidates(x) => ~(x.dist[w] < Distance(x, v, i))
  BY HopsThere DEF Takes, Follows
<1> QED BY <1>1, <1>2, <1>3, <1>6, <1>7, <1>8

LEMMA TreeInvStep ==
    ASSUME WellFormed(lsdb), NEW v \in Vertices, NEW i \in DOMAIN Links(v), NEW P,
           NEW x, Good(x), NEW y, Good(y), Changes(v \in P, v, i, x, y),
           TreeInv(x, P, v, i - 1)
    PROVE  TreeInv(y, P, v, i)
<1> DEFINE w == End(v, i)
           d == Distance(x, v, i)
           F == Leads(v \in P, v, i) /\ Takes(x, v, i, w)
<1>1. v \in Tree(x) /\ (v # Root => x.parents[v] # {})
  BY DEF TreeInv, Explored
<1>2. /\ Tree(y) = Tree(x)
      /\ \A u \in Tree(x) : y.dist[u] = x.dist[u] /\ y.parents[u] = x.parents[u]
      /\ \A u \in Tree(x) : \A j : Distance(y, u, j) = Distance(x, u, j)
      /\ \A u, j : Known(y, P, v, i, u, j) <=>
                     Known(x, P, v, i - 1, u, j) \/ (u = v /\ j = i /\ Follows(P, v, i))
      /\ \A u, j, z : Tight(x, P, v, i - 1, u, j, z) /\ y.dist[z] = x.dist[z]
                        => Tight(y, P, v, i, u, j, z)
      /\ F <=> /\ Follows(P, v, i)
               /\ w \notin Tree(x)
               /\ w \in Candidates(x) => ~(x.dist[w] < d)
  BY <1>1, OneMore
<1>3. d \in Nat /\ x.dist[v] \in Nat /\ x.dist[v] <= d
  BY Distances1
<1>4. \A z \in Explored(x) : x.dist[z] \in Nat
  BY TreeOrCandidate, Distances1
<1>5. F => /\ w \in Vertices
           /\ Candidates(y) = Candidates(x) \cup {w}
           /\ y.dist[w] = d
           /\ y.parents[w] = NewParents(x, v, i, w)
           /\ \A u \in Vertices : u # w => y.dist[u] = x.dist[u] /\ y.parents[u] = x.parents[u]
  BY FollowedGood DEF Changes, End
<1>6. ~F => Candidates(y) = Candidates(x) /\ y.dist = x.dist /\ y.parents = x.parents
  BY DEF Changes
<1> HIDE DEF d, w, F
<1>7. /\ Root \in Tree(y) /\ y.dist[Root] = 0 /\ v \in Tree(y)
      /\ \A u \in Tree(y) : y.dist[u] <= y.dist[v]
  BY <1>1, <1>2 DEF TreeInv
<1>8. ASSUME NEW z \in Candidates(y) PROVE y.dist[v] <= y.dist[z]
  <2>1. y.dist[v] = x.dist[v]
    BY <1>1, <1>2
  <2>2. CASE F /\ z = w
    BY <1>3, <1>5, <2>1, <2>2
  <2>3. CASE ~(F /\ z = w)
    <3>1. z \in Candidates(x) /\ z \in Vertices
      BY <1>5, <1>6, <2>3, TreeOrCandidate
    <3>2. y.dist[z] = x.dist[z]
      BY <1>5, <1>6, <2>3, <3>1
    <3> QED BY <2>1, <3>1, <3>2 DEF TreeInv
  <2> QED BY <2>2, <2>3
<1>9. ASSUME NEW u, NEW j, Known(y, P, v, i, u, j)
      PROVE  End(u, j) \in Explored(y) /\ y.dist[End(u, j)] <= Distance(y, u, j)
  <2> DEFINE e == End(u, j)
  <2>1. u \in Tree(x) /\ u \in Vertices /\ j \in DOMAIN Links(u)
    BY <1>2, <1>9, TreeOrCandidate DEF Known
  <2>2. Distance(y, u, j) = Distance(x, u, j) /\ Distance(x, u, j) \in Nat
    BY <1>2, <2>1, Distances1
  <2>3. CASE Known(x, P, v, i - 1, u, j)
    <3>1. e \in Explored(x) /\ x.dist[e] <= Distance(x, u, j)
      BY <2>3 DEF TreeInv
    <3> HIDE DEF e
    <3>2. e \in Vertices /\ x.dist[e] \in Nat
      BY <1>4, <3>1, TreeOrCandidate
    <3>3. CASE F /\ e = w
      <4>1. w \in Candidates(x) /\ ~(x.dist[w] < d) /\ w \in Candidates(y)
        BY <1>2, <1>5, <3>1, <3>3 DEF Explored
      <4>2. y.dist[w] = d
        BY <1>5, <3>3
      <4>3. y.dist[e] <= Distance(x, u, j)
        BY <1>3, <2>2, <3>1, <3>2, <3>3, <4>1, <4>2, SMT
      <4> QED BY <2>2, <3>3, <4>1, <4>3 DEF Explored, e
    <3>4. CASE ~(F /\ e = w)
      <4>1. e \in Explored(y)
        BY <1>2, <1>5, <1>6, <3>1 DEF Explored
      <4>2. y.dist[e] = x.dist[e]
        BY <1>5, <1>6, <3>2, <3>4
      <4> QED BY <2>2, <3>1, <4>1, <4>2 DEF e
    <3> QED BY <3>3, <3>4
  <2>4. CASE u = v /\ j = i /\ Follows(P, v, i)
    <3>1. e = w /\ Distance(y, u, j) = d
      BY <2>2, <2>4 DEF d, w
    <3> HIDE DEF e
    <3>2. CASE F
      BY <1>3, <1>5, <3>1, <3>2, SMT DEF Explored, e
    <3>3. CASE ~F /\ w \in Tree(x)
      <4>1. w \in Explored(y) /\ y.dist[w] = x.dist[w] /\ x.dist[w] <= x.dist[v] /\ x.dist[w] \in Nat
        BY <1>2, <1>4, <3>3 DEF TreeInv, Explored
      <4> QED BY <1>3, <3>1, <4>1, SMT DEF e
    <3>4. CASE ~F /\ w \notin Tree(x)
      <4>1. w \in Candidates(x) /\ x.dist[w] < d
        BY <1>2, <2>4, <3>4
      <4>2. w \in Explored(y) /\ y.dist[w] = x.dist[w] /\ x.dist[w] \in Nat
        BY <1>4, <1>6, <3>4, <4>1 DEF Explored
      <4> QED BY <1>3, <3>1, <4>1, <4>2, SMT DEF e
    <3> QED BY <3>2, <3>3, <3>4
  <2>5. Known(x, P, v, i - 1, u, j) \/ (u = v /\ j = i /\ Follows(P, v, i))
    BY <1>2, <1>9
  <2> QED BY <2>3, <2>4, <2>5
<1>10. ASSUME NEW z \in Explored(y) \ {Root}
       PROVE  y.parents[z] # {} /\ \E u, j : Tight(y, P, v, i, u, j, z)
  <2>1. CASE F /\ z = w
    <3>1. Follows(P, v, i) /\ Hops(x, v, i, w) # {}
      BY <1>2, <2>1 DEF F, Takes
    <3>2. NewParents(x, v, i, w) # {}
      <4> DEFINE k == Kept(x, w, Distance(x, v, i))
      <4>1. CASE k # {}
        BY <4>1 DEF NewParents
      <4>2. CASE k = {}
        <5>1. PICK h : h \in Hops(x, v, i, w)
          BY <3>1
        <5>2. [parent |-> v, hop |-> h] \in Added(v, Hops(x, v, i, w), k)
          BY <4>2, <5>1 DEF Added
        <5> HIDE DEF k
        <5> QED BY <5>2 DEF NewParents, k
      <4> QED BY <4>1, <4>2
    <3>3. Known(y, P, v, i, v, i)
      BY <1>2, <3>1
    <3>4. y.dist[w] = Distance(y, v, i)
      BY <1>1, <1>2, <1>5, <2>1 DEF d
    <3>5. Tight(y, P, v, i, v, i, w)
      BY <3>3, <3>4 DEF Tight, w
    <3> QED BY <1>5, <2>1, <3>2, <3>5
  <2>2. CASE ~(F /\ z = w)
    <3>1. z \in Explored(x) \ {Root} /\ z \in Vertices
      BY <1>2, <1>5, <1>6, <2>2, TreeOrCandidate DEF Explored
    <3>2. y.dist[z] = x.dist[z] /\ y.parents[z] = x.parents[z]
      BY <1>5, <1>6, <2>2, <3>1
    <3>3. x.parents[z] # {} /\ \E u, j : Tight(x, P, v, i - 1, u, j, z)
      BY <3>1 DEF TreeInv
    <3> QED BY <1>2, <3>2, <3>3
  <2> QED BY <2>1, <2>2
<1>11. ASSUME NEW z \in Vertices \ Explored(y) PROVE y.parents[z] = {}
  <2>1. F => z # w
    BY <1>5 DEF Explored
  <2>2. z \in Vertices \ Explored(x)
    BY <1>2, <1>5, <1>6 DEF Explored
  <2>3. x.parents[z] = {}
    BY <2>2 DEF TreeInv
  <2> QED BY <1>5, <1>6, <2>1, <2>2, <2>3
<1>12. Ranked(y, P, v, i)
  <2>1. PICK rank \in Ranks(x) :
            \A z \in Tree(x) \ {Root} :
                \E u, j : Tight(x, P, v, i - 1, u, j, z) /\ rank[u] < rank[z]
    BY DEF TreeInv, Ranked
  <2>2. ASSUME NEW z \in Tree(x) \ {Root}
        PROVE  \E u, j : Tight(y, P, v, i, u, j, z) /\ rank[u] < rank[z]
    BY <1>2, <2>1
  <2> QED BY <1>2, <2>1, <2>2 DEF Ranked, Ranks
<1> QED BY <1>7, <1>8, <1>9, <1>10, <1>11, <1>12 DEF TreeInv

LEMMA WalkTree ==
    ASSUME WellFormed(lsdb), NEW v \in Vertices, NEW P, NEW s, Good(s),
           NEW f, NEW r, Walk(v \in P, v, s, f, r), r.whole, TreeInv(s, P, v, 0)
    PROVE  TreeInv(r, P, v, Len(Links(v)))
<1> DEFINE m == Len(Links(v))
           Q == {n \in 0..m : TreeInv(f[n], P, v, n)}
<1>1. m \in Nat /\ DOMAIN Links(v) = 1..m
  BY LinkShape
<1>2. /\ f[0] = s /\ r = f[m] /\ \A n \in 1..m : Step(v \in P, v, n, f[n - 1], f[n])
  BY DEF Walk
<1>3. \A n \in 0..m : Good(f[n]) /\ f[n].whole
  BY WalkWhole
<1> HIDE DEF m
<1>4. 0 \in 0..m /\ m \in 0..m
  BY <1>1, SMT
<1>5. 0 \in Q
  BY <1>2, <1>4
<1>6. ASSUME NEW n \in 1..m, n - 1 \in Q PROVE n \in Q
  <2>1. n \in 0..m /\ n - 1 \in 0..m /\ n \in DOMAIN Links(v)
    BY <1>1, SMT
  <2>2. TreeInv(f[n - 1], P, v, n - 1)
    BY <1>6
  <2>3. Changes(v \in P, v, n, f[n - 1], f[n])
    BY <1>2, <1>3, <2>1, StepChanges
  <2>4. TreeInv(f[n], P, v, n)
    BY <1>3, <2>1, <2>2, <2>3, TreeInvStep
  <2> QED BY <2>1, <2>4
<1> HIDE DEF Q
<1>7. m \in Q
  BY <1>1, <1>4, <1>5, <1>6, Upto
<1> QED BY <1>2, <1>7 DEF Q, m

(* The vertex n joins the tree. *)
Joining(s, t, n) ==
    /\ n \in Candidates(s)
    /\ Tree(t) = Tree(s) \cup {n}
    /\ Candidates(t) = Candidates(s) \ {n}
    /\ t.dist = s.dist /\ t.parents = s.parents
    /\ \A w \in Candidates(s) : Key(s, n) <= Key(s, w)

(* None of its links has been examined. *)
LEMMA JoiningKnown ==
    ASSUME WellFormed(lsdb), NEW v \in Vertices, NEW P, NEW s, Good(s), NEW t, NEW n, Joining(s, t, n)
    PROVE  /\ n \in Vertices /\ n \notin Tree(s)
           /\ \A u, i : Known(t, P, n, 0, u, i) <=> Known(s, P, v, Len(Links(v)), u, i)
           /\ \A u, i, w : Tight(t, P, n, 0, u, i, w) <=> Tight(s, P, v, Len(Links(v)), u, i, w)
           /\ Explored(t) = Explored(s)
           /\ \A w \in Candidates(s) : s.dist[n] <= s.dist[w]
<1>1. n \in Vertices /\ n \notin Tree(s)
  BY TreeOrCandidate DEF Joining
<1>2. ASSUME NEW u \in Vertices, NEW i \in DOMAIN Links(u) PROVE ~(i <= 0) /\ i <= Len(Links(u))
  <2>1. Len(Links(u)) \in Nat /\ i \in 1..Len(Links(u))
    BY LinkShape
  <2> QED BY <2>1, SMT
<1>3. ASSUME NEW u, NEW i
      PROVE  Known(t, P, n, 0, u, i) <=> Known(s, P, v, Len(Links(v)), u, i)
  BY <1>1, <1>2 DEF Known, Joining
<1>4. ASSUME NEW u, NEW i, NEW w
      PROVE  Tight(t, P, n, 0, u, i, w) <=> Tight(s, P, v, Len(Links(v)), u, i, w)
  BY <1>3 DEF Tight, Joining, Distance
<1>5. Explored(t) = Explored(s)
  BY DEF Explored, Joining
<1>6. ASSUME NEW w \in Candidates(s) PROVE s.dist[n] <= s.dist[w]
  <2>1. Key(s, n) <= Key(s, w) /\ w \in Vertices
    BY TreeOrCandidate DEF Joining
  <2>2. s.dist[n] \in Nat /\ s.dist[w] \in Nat
    BY <1>1, <2>1, Distances1
  <2> QED BY <2>1, <2>2, SMT DEF Key
<1> QED BY <1>1, <1>3, <1>4, <1>5, <1>6

(* The last in the order. *)
RanksLast(last, rank, s, n) == \A u \in Tree(s) : last[u] = rank[u] /\ last[u] < last[n]

LEMMA JoiningRank ==
    ASSUME NEW s, Good(s), NEW t, NEW n, Joining(s, t, n), n \notin Tree(s), NEW rank \in Ranks(s)
    PROVE  \E last \in Ranks(t) : RanksLast(last, rank, s, n)
<1> DEFINE c == Cardinality(Tree(s))
           last == [u \in Tree(t) |-> IF u = n THEN c ELSE rank[u]]
<1>1. IsFiniteSet(Tree(s)) /\ c \in Nat
  BY TreeFinite
<1>2. Tree(t) = Tree(s) \cup {n}
  BY DEF Joining
<1>3. Cardinality(Tree(t)) = c + 1
  BY <1>1, <1>2, FS_AddElement
<1> HIDE DEF c
<1>4. \A u \in Tree(s) : rank[u] \in 0..c - 1
  BY DEF c, Ranks
<1>5. \A u \in Tree(s) : u # n /\ u \in Tree(t) /\ last[u] = rank[u]
  BY <1>2
<1>6. n \in Tree(t) /\ last[n] = c
  BY <1>2
<1>7. last \in Ranks(t)
  <2>1. \A u \in Tree(t) : (IF u = n THEN c ELSE rank[u]) \in 0..(c + 1) - 1
    BY <1>1, <1>2, <1>4, SMT
  <2> QED BY <1>3, <2>1 DEF Ranks
<1> HIDE DEF last
<1>8. \A u \in Tree(s) : last[u] < last[n]
  BY <1>1, <1>4, <1>5, <1>6, SMT
<1>9. RanksLast(last, rank, s, n)
  BY <1>5, <1>8 DEF RanksLast
<1> QED BY <1>7, <1>9

LEMMA TreeInvJoin ==
    ASSUME WellFormed(lsdb), NEW v \in Vertices, NEW P, NEW s, Good(s), NEW t, Good(t), NEW n,
           Joining(s, t, n), TreeInv(s, P, v, Len(Links(v)))
    PROVE  TreeInv(t, P, n, 0)
<1> DEFINE m == Len(Links(v))
<1>1. /\ n \in Vertices /\ n \notin Tree(s)
      /\ \A u, i : Known(t, P, n, 0, u, i) <=> Known(s, P, v, m, u, i)
      /\ \A u, i, w : Tight(t, P, n, 0, u, i, w) <=> Tight(s, P, v, m, u, i, w)
      /\ Explored(t) = Explored(s)
      /\ \A w \in Candidates(s) : s.dist[n] <= s.dist[w]
  BY JoiningKnown
<1>2. /\ n \in Candidates(s)
      /\ Tree(t) = Tree(s) \cup {n}
      /\ Candidates(t) = Candidates(s) \ {n}
      /\ t.dist = s.dist /\ t.parents = s.parents
  BY DEF Joining
<1>3. TreeInv(s, P, v, m)
  OBVIOUS
<1> HIDE DEF m
<1>4. Root \in Tree(t) /\ t.dist[Root] = 0 /\ n \in Tree(t)
  BY <1>2, <1>3 DEF TreeInv
<1>5. ASSUME NEW u \in Tree(t) PROVE t.dist[u] <= t.dist[n]
  <2>1. s.dist[n] \in Nat /\ s.dist[v] \in Nat
    BY <1>1, Distances1
  <2>2. CASE u = n
    BY <1>2, <2>1, <2>2, SMT
  <2>3. CASE u \in Tree(s)
    <3>1. s.dist[u] <= s.dist[v] /\ s.dist[v] <= s.dist[n]
      BY <1>2, <1>3, <2>3 DEF TreeInv
    <3>2. s.dist[u] \in Nat
      BY <2>3, TreeOrCandidate, Distances1
    <3> QED BY <1>2, <2>1, <3>1, <3>2, SMT
  <2> QED BY <1>2, <2>2, <2>3
<1>6. \A w \in Candidates(t) : t.dist[n] <= t.dist[w]
  BY <1>1, <1>2
<1>7. ASSUME NEW u, NEW i, Known(t, P, n, 0, u, i)
      PROVE  End(u, i) \in Explored(t) /\ t.dist[End(u, i)] <= Distance(t, u, i)
  BY <1>1, <1>2, <1>3, <1>7 DEF TreeInv, Distance
<1>8. ASSUME NEW w \in Explored(t) \ {Root}
      PROVE  t.parents[w] # {} /\ \E u, i : Tight(t, P, n, 0, u, i, w)
  BY <1>1, <1>2, <1>3 DEF TreeInv
<1>9. \A w \in Vertices \ Explored(t) : t.parents[w] = {}
  BY <1>1, <1>2, <1>3 DEF TreeInv
<1>10. Ranked(t, P, n, 0)
  <2>1. PICK rank \in Ranks(s) :
            \A w \in Tree(s) \ {Root} :
                \E u, i : Tight(s, P, v, m, u, i, w) /\ rank[u] < rank[w]
    BY <1>3 DEF TreeInv, Ranked
  <2>2. PICK last \in Ranks(t) : \A u \in Tree(s) : last[u] = rank[u] /\ last[u] < last[n]
    <3>1. n \notin Tree(s)
      BY <1>1
    <3>2. \E last \in Ranks(t) : RanksLast(last, rank, s, n)
      BY <2>1, <3>1, JoiningRank
    <3> QED BY <3>2 DEF RanksLast
  <2>3. ASSUME NEW w \in Tree(t) \ {Root}
        PROVE  \E u, i : Tight(t, P, n, 0, u, i, w) /\ last[u] < last[w]
    <3>1. CASE w = n
      <4>1. PICK u, i : Tight(s, P, v, m, u, i, n)
        BY <1>1, <1>2, <1>3, <3>1 DEF TreeInv, Explored
      <4>2. u \in Tree(s)
        BY <4>1 DEF Tight, Known
      <4> QED BY <1>1, <2>2, <3>1, <4>1, <4>2
    <3>2. CASE w # n
      <4>1. w \in Tree(s) \ {Root}
        BY <1>2, <3>2
      <4>2. PICK u, i : Tight(s, P, v, m, u, i, w) /\ rank[u] < rank[w]
        BY <2>1, <4>1
      <4>3. u \in Tree(s)
        BY <4>2 DEF Tight, Known
      <4>4. last[u] < last[w]
        BY <2>2, <4>1, <4>2, <4>3
      <4> QED BY <1>1, <4>2, <4>4
    <3> QED BY <3>1, <3>2
  <2> QED BY <2>2, <2>3 DEF Ranked
<1> QED BY <1>4, <1>5, <1>6, <1>7, <1>8, <1>9, <1>10 DEF TreeInv

(* Which of the two examines v does not matter before it does. *)
LEMMA PrunedKnown ==
    ASSUME WellFormed(lsdb), NEW v \in Vertices, NEW P, NEW s
    PROVE  /\ \A u, i : Known(s, P \cup {v}, v, 0, u, i) <=> Known(s, P, v, 0, u, i)
           /\ \A u, i, w : Tight(s, P \cup {v}, v, 0, u, i, w) <=> Tight(s, P, v, 0, u, i, w)
<1>1. ASSUME NEW i \in DOMAIN Links(v) PROVE ~(i <= 0)
  <2>1. Len(Links(v)) \in Nat /\ i \in 1..Len(Links(v))
    BY LinkShape
  <2> QED BY <2>1, SMT
<1>2. ASSUME NEW u, u # v, NEW i PROVE Follows(P \cup {v}, u, i) <=> Follows(P, u, i)
  BY <1>2 DEF Follows, Leads
<1>3. ASSUME NEW u, NEW i
      PROVE  Known(s, P \cup {v}, v, 0, u, i) <=> Known(s, P, v, 0, u, i)
  BY <1>1, <1>2 DEF Known
<1> QED BY <1>3 DEF Tight

LEMMA TreeInvPruned ==
    ASSUME WellFormed(lsdb), NEW v \in Vertices, NEW P, NEW s, TreeInv(s, P, v, 0)
    PROVE  TreeInv(s, P \cup {v}, v, 0)
<1> DEFINE Q == P \cup {v}
<1>1. /\ \A u, i : Known(s, Q, v, 0, u, i) <=> Known(s, P, v, 0, u, i)
      /\ \A u, i, w : Tight(s, Q, v, 0, u, i, w) <=> Tight(s, P, v, 0, u, i, w)
  BY PrunedKnown
<1> HIDE DEF Q
<1>2. Ranked(s, Q, v, 0)
  BY <1>1 DEF TreeInv, Ranked
<1>3. \A w \in Explored(s) \ {Root} : \E u, i : Tight(s, Q, v, 0, u, i, w)
  BY <1>1 DEF TreeInv
<1>4. TreeInv(s, Q, v, 0)
  BY <1>1, <1>2, <1>3 DEF TreeInv
<1> QED BY <1>4 DEF Q

LEMMA TreeInvStart ==
    ASSUME WellFormed(lsdb), NEW s, NEW P, Tree(s) = {Root}, Candidates(s) = {},
           s.dist = [v \in Vertices |-> 0], s.parents = [v \in Vertices |-> {}]
    PROVE  /\ TreeInv(s, P, Root, 0)
           /\ \A u, i : ~Known(s, P, Root, 0, u, i)
<1>1. \A v \in Vertices : s.dist[v] = 0 /\ s.parents[v] = {}
  BY SMT
<1>2. ASSUME NEW i \in DOMAIN Links(Root) PROVE ~(i <= 0)
  <2>1. Len(Links(Root)) \in Nat /\ i \in 1..Len(Links(Root))
    BY RootVertex, LinkShape
  <2> QED BY <2>1, SMT
<1>3. \A u, i : ~Known(s, P, Root, 0, u, i)
  BY <1>2 DEF Known
<1>4. Ranked(s, P, Root, 0)
  <2> DEFINE rank == [u \in Tree(s) |-> 0]
  <2>1. Cardinality(Tree(s)) = 1
    BY FS_Singleton
  <2>2. rank \in Ranks(s)
    BY <2>1, SMT DEF Ranks
  <2>3. Tree(s) \ {Root} = {}
    OBVIOUS
  <2> HIDE DEF rank
  <2> QED BY <2>2, <2>3 DEF Ranked
<1>5. s.dist[Root] = 0 /\ s.dist[Root] <= s.dist[Root]
  BY <1>1, RootVertex, SMT
<1> QED BY <1>1, <1>3, <1>4, <1>5 DEF TreeInv, Explored

(* What one turn of the loop of ospf_spf_calculate does, if the pluglet had room. *)
LEMMA OneTurn ==
    ASSUME QueueInv, calculate_next, spf'.whole
    PROVE  LET s == ospf_spf_next(spf, vertex)
           IN  /\ Good(s) /\ s.whole /\ spf.whole /\ Good(spf')
               /\ Tree(s) = Tree(spf)
               /\ pruned' = pruned \/ pruned' = pruned \cup {vertex}
               /\ vertex \notin pruned => \E f : Walk(vertex \in pruned', vertex, spf, f, s)
               /\ lsdb' = lsdb
               /\ \/ phase' = "loop" /\ Joining(s, spf', vertex')
                  \/ phase' = "done" /\ spf' = s /\ vertex' = vertex /\ Candidates(s) = {}
<1> DEFINE s == ospf_spf_next(spf, vertex)
<1>1. calculate_turn(s) \/ calculate_end(s)
  BY DEF calculate_next
<1>2. /\ WellFormed(lsdb) /\ vertex \in Vertices /\ Good(spf) /\ vertex \in Tree(spf)
      /\ rep \in BOOLEAN /\ phase = "loop"
  BY DEF QueueInv, calculate_next
<1>3. Good(s) /\ (s.whole => spf.whole /\ \E f : Walk(rep, vertex, spf, f, s))
  BY <1>2, SpfNext
<1> HIDE DEF s
<1>4. pruned' = (IF rep THEN pruned \cup {vertex} ELSE pruned) /\ lsdb' = lsdb
  BY <1>1 DEF calculate_turn, calculate_end
<1>5. /\ spf'.whole = s.whole /\ Good(spf')
      /\ \/ phase' = "loop" /\ Joining(s, spf', vertex')
         \/ phase' = "done" /\ spf' = s /\ vertex' = vertex /\ Candidates(s) = {}
  <2>1. CASE calculate_turn(s)
    <3> DEFINE of == {p.parent : p \in s.parents[s.array[0]]}
    <3>1. size(s) > 0 /\ spf' = Joined(s, of) /\ vertex' = s.array[0] /\ phase' = phase
      BY <2>1 DEF calculate_turn, Joined
    <3> HIDE DEF of
    <3>2. /\ Good(spf')
          /\ s.array[0] \in Candidates(s)
          /\ Tree(spf') = Tree(s) \cup {s.array[0]}
          /\ Candidates(spf') = Candidates(s) \ {s.array[0]}
          /\ spf'.dist = s.dist /\ spf'.parents = s.parents
          /\ spf'.room = s.room /\ spf'.whole = s.whole
          /\ \A w \in Candidates(s) : Key(s, s.array[0]) <= Key(s, w)
      BY <1>3, <3>1, Joins
    <3>3. Joining(s, spf', vertex')
      BY <3>1, <3>2 DEF Joining
    <3> QED BY <1>2, <3>1, <3>2, <3>3
  <2>2. CASE calculate_end(s)
    <3>1. size(s) = 0 /\ spf' = s /\ vertex' = vertex /\ phase' = "done"
      BY <2>2 DEF calculate_end
    <3>2. s \in States /\ Heap(s)
      BY <1>3 DEF Good
    <3>3. DOMAIN s.array = 0..size(s) - 1
      BY <3>2, Size
    <3>4. DOMAIN s.array = {}
      BY <3>1, <3>3, SMT
    <3>5. Candidates(s) = {}
      BY <3>2, <3>4, MembersHaveStat DEF Candidates, Members
    <3> QED BY <1>3, <3>1, <3>5
  <2> QED BY <1>1, <2>1, <2>2
<1>6. s.whole /\ spf.whole
  BY <1>3, <1>5
<1>7. PICK f : Walk(rep, vertex, spf, f, s)
  BY <1>3, <1>6
<1>8. Tree(s) = Tree(spf)
  <2>1. Spent(vertex, spf, s)
    BY <1>2, <1>6, <1>7, WalkSpent
  <2> QED BY <2>1 DEF Spent
<1>9. ASSUME vertex \notin pruned PROVE rep = (vertex \in pruned')
  <2>1. CASE rep
    <3>1. vertex \in pruned'
      BY <1>4, <2>1
    <3> QED BY <1>2, <2>1, <3>1
  <2>2. CASE ~rep
    <3>1. vertex \notin pruned'
      BY <1>4, <1>9, <2>2
    <3> QED BY <1>2, <2>2, <3>1, SMT
  <2> QED BY <2>1, <2>2
<1>10. ASSUME vertex \notin pruned PROVE Walk(vertex \in pruned', vertex, spf, f, s)
  BY <1>7, <1>9, <1>10
<1> QED BY <1>3, <1>4, <1>5, <1>6, <1>8, <1>10 DEF s

(* As long as the database is the same. *)
LEMMA KnownStays ==
    ASSUME lsdb' = lsdb
    PROVE  /\ \A u : Links(u)' = Links(u)
           /\ \A u, i : End(u, i)' = End(u, i)
           /\ \A s, u, i : Distance(s, u, i)' = Distance(s, u, i)
           /\ \A s, P, v, k, u, i : Known(s, P, v, k, u, i)' <=> Known(s, P, v, k, u, i)
           /\ \A s, P, v, k, u, i, w :
                 Tight(s, P, v, k, u, i, w)' <=> Tight(s, P, v, k, u, i, w)
<1>1. \A u : Links(u)' = Links(u)
  BY DEF Links
<1>2. \A u, i : End(u, i)' = End(u, i)
  BY <1>1 DEF End
<1>3. \A s, u, i : Distance(s, u, i)' = Distance(s, u, i)
  BY <1>1 DEF Distance, Length
<1>4. \A w, v : ospf_lsa_has_link(w, v)' <=> ospf_lsa_has_link(w, v)
  BY <1>1 DEF ospf_lsa_has_link
<1>5. \A v : Visible(v)' = Visible(v)
  BY <1>1 DEF Visible
<1>6. \A b, v, i : Leads(b, v, i)' <=> Leads(b, v, i)
  BY <1>1, <1>4, <1>5 DEF Leads
<1>7. \A P, u, i : Follows(P, u, i)' <=> Follows(P, u, i)
  BY <1>1, <1>6 DEF Follows
<1>8. \A s, P, v, k, u, i : Known(s, P, v, k, u, i)' <=> Known(s, P, v, k, u, i)
  BY <1>1, <1>7 DEF Known
<1>9. ASSUME NEW s, NEW P, NEW v, NEW k, NEW u, NEW i, NEW w
      PROVE  Tight(s, P, v, k, u, i, w)' <=> Tight(s, P, v, k, u, i, w)
  <2>1. /\ Known(s, P, v, k, u, i)' <=> Known(s, P, v, k, u, i)
        /\ End(u, i)' = End(u, i) /\ Distance(s, u, i)' = Distance(s, u, i)
    BY <1>2, <1>3, <1>8
  <2> QED BY <2>1 DEF Tight
<1> QED BY <1>1, <1>2, <1>3, <1>8, <1>9

LEMMA TreeInvStays ==
    ASSUME lsdb' = lsdb, NEW s, NEW P, NEW v, NEW k, TreeInv(s, P, v, k)
    PROVE  TreeInv(s, P, v, k)'
<1>1. Ranked(s, P, v, k)'
  BY KnownStays DEF TreeInv, Ranked
<1>2. \A w \in Explored(s) \ {Root} : \E u, i : Tight(s, P, v, k, u, i, w)'
  BY KnownStays DEF TreeInv
<1>3. ASSUME NEW u, NEW i, Known(s, P, v, k, u, i)'
      PROVE  End(u, i)' \in Explored(s) /\ s.dist[End(u, i)'] <= Distance(s, u, i)'
  <2>1. /\ Known(s, P, v, k, u, i)
        /\ End(u, i)' = End(u, i) /\ Distance(s, u, i)' = Distance(s, u, i)
    BY <1>3, KnownStays
  <2>2. End(u, i) \in Explored(s) /\ s.dist[End(u, i)] <= Distance(s, u, i)
    BY <2>1 DEF TreeInv
  <2> QED BY <2>1, <2>2
<1> QED BY <1>1, <1>2, <1>3 DEF TreeInv

(* The invariant of the loop, in the terms of the specification. *)
PathInv ==
    /\ phase = "loop" /\ spf.whole => /\ TreeInv(spf, pruned, vertex, 0)
                                      /\ pruned \subseteq Tree(spf) \ {vertex}
    /\ phase = "done" /\ spf.whole => /\ TreeInv(spf, pruned, vertex, Len(Links(vertex)))
                                      /\ Candidates(spf) = {}

LEMMA PathInvInit == TreeInit => PathInv
<1> SUFFICES ASSUME TreeInit PROVE PathInv
  BY SMT
<1>1. phase # "loop" /\ phase # "done"
  BY SMT DEF TreeInit
<1> QED BY <1>1 DEF PathInv

(* The start of a calculation. *)
Started ==
    /\ WellFormed(lsdb) /\ phase = "loop" /\ vertex = Root /\ pruned = {}
    /\ Tree(spf) = {Root} /\ Candidates(spf) = {}
    /\ spf.dist = [v \in Vertices |-> 0] /\ spf.parents = [v \in Vertices |-> {}]

LEMMA StartedPath == Started => PathInv
<1> SUFFICES ASSUME Started PROVE PathInv
  BY SMT
<1>1. phase # "done"
  BY SMT DEF Started
<1>2. TreeInv(spf, {}, Root, 0)
  BY TreeInvStart DEF Started
<1>3. {} \subseteq Tree(spf) \ {Root}
  OBVIOUS
<1> QED BY <1>1, <1>2, <1>3 DEF PathInv, Started

LEMMA StartedPathNext == Started' => PathInv'
BY StartedPath, PTL

LEMMA Starts1 ==
    ASSUME QueueInv, NEW db \in Contents, calculate_start(db)
    PROVE  Started'
<1>1. phase' = "loop" /\ pruned' = {} /\ vertex' = Root /\ lsdb' = db
  BY DEF calculate_start
<1>2. WellFormed(db)
  BY ContentsWellFormed
<1>3. WellFormed(lsdb)'
  BY <1>1, <1>2, SMT DEF WellFormed
<1>4. /\ Tree(spf)' = {Root} /\ Candidates(spf)' = {}
      /\ spf'.dist = [v \in Vertices |-> 0] /\ spf'.parents = [v \in Vertices |-> {}]
  BY RootFirst, GoodRoom DEF calculate_start, QueueInv
<1> QED BY <1>1, <1>3, <1>4 DEF Started

LEMMA PathInvNext == QueueInv /\ PathInv /\ [TreeNext]_treeVars => PathInv'
<1> SUFFICES ASSUME QueueInv, PathInv, [TreeNext]_treeVars PROVE PathInv'
  BY SMT
<1>1. ASSUME lsdb' = lsdb, spf' = spf, pruned' = pruned, vertex' = vertex, phase' = phase
      PROVE  PathInv'
  <2>1. Links(vertex)' = Links(vertex)
    BY <1>1 DEF Links
  <2> QED BY <1>1, <2>1, TreeInvStays DEF PathInv
<1>2. CASE calculate_nothing
  BY <1>1, <1>2 DEF calculate_nothing
<1>3. ASSUME NEW db \in Contents, calculate_start(db) PROVE PathInv'
  BY <1>3, Starts1, StartedPathNext
<1>4. CASE calculate_next
  <2> SUFFICES ASSUME spf'.whole PROVE PathInv'
    BY DEF PathInv
  <2> DEFINE s == ospf_spf_next(spf, vertex)
  <2>1. /\ Good(s) /\ s.whole /\ spf.whole /\ Good(spf')
        /\ Tree(s) = Tree(spf)
        /\ pruned' = pruned \/ pruned' = pruned \cup {vertex}
        /\ vertex \notin pruned => \E f : Walk(vertex \in pruned', vertex, spf, f, s)
        /\ lsdb' = lsdb
        /\ \/ phase' = "loop" /\ Joining(s, spf', vertex')
           \/ phase' = "done" /\ spf' = s /\ vertex' = vertex /\ Candidates(s) = {}
    BY <1>4, OneTurn
  <2> HIDE DEF s
  <2>2. /\ WellFormed(lsdb) /\ vertex \in Vertices /\ Good(spf) /\ vertex \in Tree(spf)
        /\ TreeInv(spf, pruned, vertex, 0) /\ pruned \subseteq Tree(spf) \ {vertex}
    BY <1>4, <2>1 DEF QueueInv, PathInv, calculate_next
  <2>3. PICK f : Walk(vertex \in pruned', vertex, spf, f, s)
    BY <2>1, <2>2
  <2>4. TreeInv(spf, pruned', vertex, 0)
    BY <2>1, <2>2, TreeInvPruned
  <2>5. TreeInv(s, pruned', vertex, Len(Links(vertex)))
    BY <2>1, <2>2, <2>3, <2>4, WalkTree
  <2>6. CASE phase' = "loop" /\ Joining(s, spf', vertex')
    <3>1. TreeInv(spf', pruned', vertex', 0)
      BY <2>1, <2>2, <2>5, <2>6, TreeInvJoin
    <3>2. TreeInv(spf, pruned, vertex, 0)'
      BY <2>1, <3>1, TreeInvStays
    <3>3. pruned' \subseteq Tree(s)
      <4>1. CASE pruned' = pruned
        BY <2>1, <2>2, <4>1
      <4>2. CASE pruned' = pruned \cup {vertex}
        BY <2>1, <2>2, <4>2
      <4> QED BY <2>1, <4>1, <4>2
    <3>4. vertex' \notin Tree(s) /\ Tree(spf)' = Tree(s) \cup {vertex'}
      BY <2>1, <2>6, TreeOrCandidate DEF Joining
    <3>5. phase' # "done"
      BY <2>6, SMT
    <3> QED BY <3>2, <3>3, <3>4, <3>5 DEF PathInv
  <2>7. CASE phase' = "done" /\ spf' = s /\ vertex' = vertex /\ Candidates(s) = {}
    <3>1. Links(vertex)' = Links(vertex)
      BY <2>1, <2>7 DEF Links
    <3>2. TreeInv(spf', pruned', vertex', Len(Links(vertex)))
      BY <2>5, <2>7
    <3>3. TreeInv(spf, pruned, vertex, Len(Links(vertex)))'
      BY <2>1, <3>1, <3>2, TreeInvStays
    <3>4. phase' # "loop" /\ Candidates(spf)' = {}
      BY <2>7, SMT
    <3> QED BY <3>3, <3>4 DEF PathInv
  <2> QED BY <2>1, <2>6, <2>7
<1>5. CASE calculate_free
  <2>1. phase' # "loop" /\ phase' # "done"
    BY <1>5, SMT DEF calculate_free
  <2> QED BY <2>1 DEF PathInv
<1>6. CASE inject
  BY <1>1, <1>6 DEF inject
<1>7. CASE UNCHANGED treeVars
  BY <1>1, <1>7 DEF treeVars
<1> QED BY <1>2, <1>3, <1>4, <1>5, <1>6, <1>7 DEF TreeNext

(* The arcs of the reference are the links that have been examined. *)
LEMMA ArcShape ==
    /\ \A a \in Arcs : /\ a = <<a[1], a[2]>> /\ a[1] \in Vertices
                       /\ a[2] \in DOMAIN Links(a[1]) /\ Counts(a[1], a[2])
    /\ \A u \in Vertices : \A i \in DOMAIN Links(u) : Counts(u, i) => <<u, i>> \in Arcs
<1>1. ASSUME NEW a \in Arcs
      PROVE  /\ a = <<a[1], a[2]>> /\ a[1] \in Vertices
             /\ a[2] \in DOMAIN Links(a[1]) /\ Counts(a[1], a[2])
  <2>1. PICK v \in Vertices : a \in {v} \X DOMAIN Links(v)
    BY DEF Arcs
  <2>2. a = <<a[1], a[2]>> /\ a[1] = v /\ a[2] \in DOMAIN Links(v)
    BY <2>1, SMT
  <2>3. Counts(a[1], a[2])
    BY DEF Arcs
  <2> QED BY <2>2, <2>3
<1>2. ASSUME NEW u \in Vertices, NEW i \in DOMAIN Links(u), Counts(u, i)
      PROVE  <<u, i>> \in Arcs
  <2> DEFINE a == <<u, i>>
  <2>1. a \in {u} \X DOMAIN Links(u) /\ a[1] = u /\ a[2] = i
    BY SMT
  <2> HIDE DEF a
  <2>2. a \in Arcs
    BY <1>2, <2>1 DEF Arcs
  <2> QED BY <2>2 DEF a
<1> QED BY <1>1, <1>2

LEMMA CountsFollows ==
    ASSUME NEW u, NEW i
    PROVE  Counts(u, i) <=> Follows(pruned, u, i)
BY DEF Counts, Follows, Leads

Examined(u, i)  == Known(spf, pruned, vertex, Len(Links(vertex)), u, i)
EndsPath(a, w)  == /\ a \in Arcs /\ a[1] \in Tree(spf) /\ Head2(a) = w
                   /\ spf.dist[w] = spf.dist[a[1]] + Cost(a)

LEMMA ArcsExamined ==
    ASSUME QueueInv
    PROVE  /\ \A a \in Arcs : a[1] \in Tree(spf) => Examined(a[1], a[2])
           /\ \A u, i : Examined(u, i) => <<u, i>> \in Arcs
<1>1. WellFormed(lsdb) /\ vertex \in Vertices /\ Good(spf)
  BY DEF QueueInv
<1>2. ASSUME NEW a \in Arcs, a[1] \in Tree(spf) PROVE Examined(a[1], a[2])
  <2>1. /\ a[1] \in Vertices /\ a[2] \in DOMAIN Links(a[1]) /\ Counts(a[1], a[2])
    BY ArcShape
  <2>2. a[1] = vertex => a[2] <= Len(Links(vertex))
    <3>1. ASSUME a[1] = vertex PROVE Len(Links(vertex)) \in Nat /\ a[2] \in 1..Len(Links(vertex))
      BY <1>1, <2>1, <3>1, LinkShape
    <3> QED BY <3>1, SMT
  <2> QED BY <1>2, <2>1, <2>2, CountsFollows DEF Examined, Known
<1>3. ASSUME NEW u, NEW i, Examined(u, i) PROVE <<u, i>> \in Arcs
  <2>1. u \in Vertices /\ i \in DOMAIN Links(u) /\ Counts(u, i)
    BY <1>1, <1>3, TreeOrCandidate, CountsFollows DEF Examined, Known
  <2> QED BY <2>1, ArcShape
<1> QED BY <1>2, <1>3

LEMMA CostIsLength ==
    ASSUME NEW a
    PROVE  Cost(a) = Length(a[1], a[2]) /\ Head2(a) = End(a[1], a[2])
BY DEF Cost, Length, Head2, End

(* The tree at the end, in the terms of the reference. *)
LEMMA Finished ==
    ASSUME QueueInv, PathInv, Done
    PROVE  /\ Candidates(spf) = {} /\ Explored(spf) = Tree(spf)
           /\ Root \in Tree(spf) /\ spf.dist[Root] = 0
           /\ \A w \in Tree(spf) : w \in Vertices /\ spf.dist[w] \in Nat
           /\ \A a \in Arcs : a[1] \in Tree(spf) =>
                 /\ Cost(a) \in Nat
                 /\ Head2(a) \in Tree(spf)
                 /\ spf.dist[Head2(a)] <= spf.dist[a[1]] + Cost(a)
           /\ \E rank \in Ranks(spf) :
                 \A w \in Tree(spf) \ {Root} :
                     \E a : EndsPath(a, w) /\ rank[a[1]] < rank[w]
<1> DEFINE m == Len(Links(vertex))
<1>1. WellFormed(lsdb) /\ vertex \in Vertices /\ Good(spf)
  BY DEF QueueInv
<1>2. TreeInv(spf, pruned, vertex, m) /\ Candidates(spf) = {}
  BY DEF PathInv, Done
<1>3. Explored(spf) = Tree(spf)
  BY <1>2 DEF Explored
<1>4. Root \in Tree(spf) /\ spf.dist[Root] = 0
  BY <1>2 DEF TreeInv
<1>5. \A w \in Tree(spf) : w \in Vertices /\ spf.dist[w] \in Nat
  BY <1>1, TreeOrCandidate, Distances1
<1>6. ASSUME NEW a \in Arcs, a[1] \in Tree(spf)
      PROVE  /\ Cost(a) \in Nat
             /\ Head2(a) \in Tree(spf)
             /\ spf.dist[Head2(a)] <= spf.dist[a[1]] + Cost(a)
  <2>1. a[1] \in Vertices /\ a[2] \in DOMAIN Links(a[1]) /\ Known(spf, pruned, vertex, m, a[1], a[2])
    BY <1>6, ArcShape, ArcsExamined DEF Examined
  <2>2. Length(a[1], a[2]) \in Nat
    BY <1>1, <2>1, LinkShape
  <2>3. /\ End(a[1], a[2]) \in Explored(spf)
        /\ spf.dist[End(a[1], a[2])] <= Distance(spf, a[1], a[2])
    BY <1>2, <2>1 DEF TreeInv
  <2> QED BY <1>3, <2>2, <2>3, CostIsLength DEF Distance
<1>7. \E rank \in Ranks(spf) :
         \A w \in Tree(spf) \ {Root} :
             \E a : EndsPath(a, w) /\ rank[a[1]] < rank[w]
  <2>1. PICK rank \in Ranks(spf) :
            \A w \in Tree(spf) \ {Root} :
                \E u, i : Tight(spf, pruned, vertex, m, u, i, w) /\ rank[u] < rank[w]
    BY <1>2 DEF TreeInv, Ranked
  <2>2. ASSUME NEW w \in Tree(spf) \ {Root}
        PROVE  \E a : EndsPath(a, w) /\ rank[a[1]] < rank[w]
    <3>1. PICK u, i : Tight(spf, pruned, vertex, m, u, i, w) /\ rank[u] < rank[w]
      BY <2>1
    <3> DEFINE a == <<u, i>>
    <3>2. a[1] = u /\ a[2] = i
      BY SMT
    <3>3. a \in Arcs
      BY <3>1, ArcsExamined DEF Tight, Examined
    <3> HIDE DEF a
    <3>4. u \in Tree(spf) /\ End(u, i) = w /\ spf.dist[w] = Distance(spf, u, i)
      BY <3>1 DEF Tight, Known
    <3>5. EndsPath(a, w)
      BY <3>2, <3>3, <3>4, CostIsLength DEF EndsPath, Distance
    <3> QED BY <3>1, <3>2, <3>5
  <2> QED BY <2>1, <2>2
<1> QED BY <1>2, <1>3, <1>4, <1>5, <1>6, <1>7

(* Paths that are one arc longer, and the shortest of those to each vertex. *)
Longer(X) ==
    X \cup {<<Head2(x[2]), x[1][2] + Cost(x[2])>> :
              x \in {y \in X \X Arcs : y[1][1] = y[2][1]}}
Nearest(X) == {x \in X : \A y \in X : y[1] = x[1] => x[2] <= y[2]}

LEMMA LongerIn ==
    ASSUME NEW X
    PROVE  /\ \A x \in Longer(X) : \/ x \in X
                                   \/ \E y \in X, a \in Arcs : /\ y[1] = a[1]
                                                               /\ x = <<Head2(a), y[2] + Cost(a)>>
           /\ X \subseteq Longer(X)
           /\ \A y \in X, a \in Arcs : y[1] = a[1] => <<Head2(a), y[2] + Cost(a)>> \in Longer(X)
<1> DEFINE Z == {y \in X \X Arcs : y[1][1] = y[2][1]}
<1>1. \A z \in Z : z[1] \in X /\ z[2] \in Arcs /\ z[1][1] = z[2][1]
  BY SMT
<1>2. ASSUME NEW y \in X, NEW a \in Arcs, y[1] = a[1] PROVE <<Head2(a), y[2] + Cost(a)>> \in Longer(X)
  <2> DEFINE z == <<y, a>>
  <2>1. z \in Z /\ z[1] = y /\ z[2] = a
    BY <1>2, SMT
  <2> HIDE DEF z
  <2>2. <<Head2(z[2]), z[1][2] + Cost(z[2])>> \in Longer(X)
    BY <2>1 DEF Longer
  <2> QED BY <2>1, <2>2
<1>3. ASSUME NEW x \in Longer(X), x \notin X
      PROVE  \E y \in X, a \in Arcs : y[1] = a[1] /\ x = <<Head2(a), y[2] + Cost(a)>>
  <2>1. PICK z \in Z : x = <<Head2(z[2]), z[1][2] + Cost(z[2])>>
    BY <1>3 DEF Longer
  <2> QED BY <1>1, <2>1
<1> QED BY <1>2, <1>3 DEF Longer

(* The distances of the reference: after as many arcs as its rank, the       *)
(* shortest path to a vertex is among those found; none found is shorter.    *)
LEMMA ReachedRight ==
    ASSUME QueueInv, PathInv, Done
    PROVE  /\ \A w \in Tree(spf) : <<w, spf.dist[w]>> \in Reached
           /\ \A x \in Reached : x[1] \in Tree(spf) /\ x[2] = spf.dist[x[1]]
<1> DEFINE T == Tree(spf)
           N == Cardinality(Vertices)
           S == {X \in SUBSET (T \X Nat) : \A x \in X : spf.dist[x[1]] <= x[2]}
           x0 == {<<Root, 0>>}
           G(f) == f = [n \in 0..N |-> IF n = 0 THEN x0 ELSE Nearest(Longer(f[n - 1]))]
           g == CHOOSE f : G(f)
<1>1. /\ Root \in T /\ spf.dist[Root] = 0
      /\ \A w \in T : w \in Vertices /\ spf.dist[w] \in Nat
      /\ \A a \in Arcs : a[1] \in T =>
            /\ Cost(a) \in Nat
            /\ Head2(a) \in T
            /\ spf.dist[Head2(a)] <= spf.dist[a[1]] + Cost(a)
  BY Finished
<1>2. PICK rank \in Ranks(spf) :
         \A w \in T \ {Root} : \E a : EndsPath(a, w) /\ rank[a[1]] < rank[w]
  BY Finished
<1>3. N \in Nat /\ Cardinality(T) \in Nat /\ Cardinality(T) <= N
  BY TreeFinite
<1>4. \A w \in T : rank[w] \in 0..Cardinality(T) - 1
  BY <1>2 DEF Ranks
<1>5. N \in 1..N /\ N \in 0..N /\ N - 1 \in 0..N /\ \A w \in T : rank[w] <= N /\ rank[w] \in Nat
  BY <1>1, <1>3, <1>4, SMT
<1> HIDE DEF T, N
<1>6. x0 \in S
  BY <1>1, SMT
<1>7. ASSUME NEW X \in S PROVE Longer(X) \in S
  <2>1. ASSUME NEW x \in Longer(X) PROVE x \in T \X Nat /\ spf.dist[x[1]] <= x[2]
    <3>1. CASE x \in X
      BY <3>1, SMT
    <3>2. CASE x \notin X
      <4>1. PICK y \in X, a \in Arcs : y[1] = a[1] /\ x = <<Head2(a), y[2] + Cost(a)>>
        BY <3>2, LongerIn
      <4>2. y[1] \in T /\ y[2] \in Nat /\ spf.dist[y[1]] <= y[2]
        BY SMT
      <4>3. /\ Cost(a) \in Nat /\ Head2(a) \in T
            /\ spf.dist[Head2(a)] <= spf.dist[y[1]] + Cost(a)
        BY <1>1, <4>1, <4>2
      <4>4. spf.dist[y[1]] \in Nat /\ spf.dist[Head2(a)] \in Nat
        BY <1>1, <4>2, <4>3
      <4>5. x[1] = Head2(a) /\ x[2] = y[2] + Cost(a) /\ x \in T \X Nat
        BY <4>1, <4>2, <4>3, SMT
      <4>6. spf.dist[Head2(a)] <= y[2] + Cost(a)
        BY <4>2, <4>3, <4>4, SMT
      <4> QED BY <4>5, <4>6
    <3> QED BY <3>1, <3>2
  <2> QED BY <2>1
<1>8. ASSUME NEW X \in S PROVE Nearest(Longer(X)) \in S
  BY <1>7, <1>8 DEF Nearest
<1> HIDE DEF S, x0
<1>9. G(g)
  <2> DEFINE F == [n \in 1..N |-> [X \in S |-> Nearest(Longer(X))]]
  <2>1. Closed(N, S, F)
    BY <1>8 DEF Closed
  <2> HIDE DEF F
  <2>2. PICK f \in [0..N -> S] : IsLoop(f, N, x0, F)
    BY <1>3, <1>6, <2>1, Loop
  <2>3. ASSUME NEW n \in 0..N, n # 0 PROVE F[n][f[n - 1]] = Nearest(Longer(f[n - 1]))
    <3>1. n \in 1..N /\ n - 1 \in 0..N
      BY <1>3, <2>3, SMT
    <3>2. f[n - 1] \in S
      BY <2>2, <3>1
    <3> QED BY <3>1, <3>2 DEF F
  <2>4. G(f)
    BY <2>2, <2>3 DEF IsLoop
  <2> HIDE DEF G
  <2> QED BY <2>4
<1>10. Reached = g[N]
  BY DEF Reached, Nearest, Longer, x0, N
<1> HIDE DEF g
<1>11. g[0] = x0 /\ \A n \in 1..N : g[n] = Nearest(Longer(g[n - 1]))
  BY <1>3, <1>9, SMT
<1> HIDE DEF G
<1> DEFINE Found(n) == g[n] \in S /\ \A w \in T : w = Root \/ rank[w] <= n => <<w, spf.dist[w]>> \in g[n]
           Q == {n \in 0..N : Found(n)}
<1>12. \A X \in S : \A x \in X : /\ x[1] \in T /\ x[2] \in Nat
                                 /\ spf.dist[x[1]] \in Nat /\ spf.dist[x[1]] <= x[2]
  BY <1>1, SMT DEF S
<1>13. ASSUME NEW X \in S, NEW w \in T, <<w, spf.dist[w]>> \in Longer(X)
       PROVE  <<w, spf.dist[w]>> \in Nearest(Longer(X))
  <2> DEFINE z == <<w, spf.dist[w]>>
  <2>1. z[1] = w /\ z[2] = spf.dist[w]
    BY SMT
  <2> HIDE DEF z
  <2>2. \A y \in Longer(X) : y[1] = z[1] => z[2] <= y[2]
    BY <1>7, <1>12, <2>1
  <2> QED BY <1>13, <2>2 DEF Nearest, z
<1>14. 0 \in Q
  <2>1. ASSUME NEW w \in T, w = Root \/ rank[w] <= 0 PROVE <<w, spf.dist[w]>> \in x0
    <3>1. CASE w = Root
      BY <1>1, <3>1 DEF x0
    <3>2. CASE w # Root
      <4>1. PICK a : EndsPath(a, w) /\ rank[a[1]] < rank[w]
        BY <1>2, <3>2
      <4>2. a[1] \in T
        BY <4>1 DEF EndsPath, T
      <4> QED BY <1>5, <2>1, <3>2, <4>1, <4>2, SMT
    <3> QED BY <3>1, <3>2
  <2>2. 0 \in 0..N
    BY <1>3, SMT
  <2> QED BY <1>6, <1>11, <2>1, <2>2
<1>15. ASSUME NEW n \in 1..N, n - 1 \in Q PROVE n \in Q
  <2>1. Found(n - 1)
    BY <1>15
  <2> DEFINE X == g[n - 1]
  <2>2. g[n] = Nearest(Longer(X)) /\ X \in S
    BY <1>11, <2>1
  <2>3. ASSUME NEW w \in T, w = Root \/ rank[w] <= n PROVE <<w, spf.dist[w]>> \in Longer(X)
    <3>1. CASE w = Root \/ rank[w] <= n - 1
      BY <2>1, <3>1, LongerIn
    <3>2. CASE ~(w = Root \/ rank[w] <= n - 1)
      <4>1. PICK a : EndsPath(a, w) /\ rank[a[1]] < rank[w]
        BY <1>2, <3>2
      <4>2. a \in Arcs /\ a[1] \in T /\ Head2(a) = w /\ spf.dist[w] = spf.dist[a[1]] + Cost(a)
        BY <4>1 DEF EndsPath, T
      <4>3. rank[a[1]] <= n - 1
        BY <1>3, <1>5, <2>3, <3>2, <4>1, <4>2, SMT
      <4> DEFINE y == <<a[1], spf.dist[a[1]]>>
      <4>4. y \in X
        BY <2>1, <4>2, <4>3
      <4>5. y[1] = a[1] /\ y[2] = spf.dist[a[1]]
        BY SMT
      <4> HIDE DEF y
      <4>6. <<Head2(a), y[2] + Cost(a)>> \in Longer(X)
        BY <4>2, <4>4, <4>5, LongerIn
      <4> QED BY <4>2, <4>5, <4>6
    <3> QED BY <3>1, <3>2
  <2>4. n \in 0..N
    BY <1>3, SMT
  <2> HIDE DEF X
  <2>5. g[n] \in S
    BY <1>8, <2>2
  <2>6. \A w \in T : w = Root \/ rank[w] <= n => <<w, spf.dist[w]>> \in g[n]
    BY <1>13, <2>2, <2>3
  <2> QED BY <2>4, <2>5, <2>6
<1> HIDE DEF Q
<1>16. \A n \in 0..N : n \in Q
  BY <1>3, <1>14, <1>15, Upto
<1>17. Found(N) /\ Found(N - 1)
  BY <1>5, <1>16 DEF Q
<1>18. \A w \in T : <<w, spf.dist[w]>> \in g[N]
  BY <1>5, <1>17
<1>19. ASSUME NEW x \in g[N] PROVE x[1] \in T /\ x[2] = spf.dist[x[1]]
  <2>1. /\ x[1] \in T /\ x[2] \in Nat /\ spf.dist[x[1]] \in Nat /\ spf.dist[x[1]] <= x[2]
    BY <1>12, <1>17
  <2> DEFINE z == <<x[1], spf.dist[x[1]]>>
  <2>2. z \in g[N]
    BY <1>18, <2>1
  <2>3. z[1] = x[1] /\ z[2] = spf.dist[x[1]]
    BY SMT
  <2> HIDE DEF z
  <2>4. x[2] <= z[2]
    BY <1>5, <1>11, <2>2, <2>3 DEF Nearest
  <2> QED BY <2>1, <2>3, <2>4, SMT
<1> QED BY <1>10, <1>18, <1>19 DEF T

LEMMA DistancesRight ==
    ASSUME QueueInv, PathInv, Done
    PROVE  /\ DOMAIN Distances = Tree(spf)
           /\ \A w \in Tree(spf) : Distances[w] = spf.dist[w]
<1> DEFINE D == {x[1] : x \in Reached}
<1>1. /\ \A w \in Tree(spf) : <<w, spf.dist[w]>> \in Reached
      /\ \A x \in Reached : x[1] \in Tree(spf) /\ x[2] = spf.dist[x[1]]
  BY ReachedRight
<1>2. Distances = [v \in D |-> (CHOOSE x \in Reached : x[1] = v)[2]]
  BY DEF Distances
<1>3. ASSUME NEW w \in Tree(spf) PROVE \E x \in Reached : x[1] = w
  <2> DEFINE z == <<w, spf.dist[w]>>
  <2>1. z \in Reached /\ z[1] = w
    BY <1>1, SMT
  <2> HIDE DEF z
  <2> QED BY <2>1
<1>4. D = Tree(spf)
  BY <1>1, <1>3
<1>5. ASSUME NEW w \in Tree(spf) PROVE (CHOOSE x \in Reached : x[1] = w)[2] = spf.dist[w]
  BY <1>1, <1>3
<1> HIDE DEF D
<1> QED BY <1>2, <1>4, <1>5

LEMMA PathInvShortest == QueueInv /\ PathInv => TreeIsShortest
<1> SUFFICES ASSUME QueueInv, PathInv, Done, NEW v \in Vertices
             PROVE  IF v \in DOMAIN Distances
                    THEN spf.stat[v] = LSA_SPF_IN_SPFTREE /\ spf.dist[v] = Distances[v]
                    ELSE spf.stat[v] = LSA_SPF_NOT_EXPLORED
  BY DEF TreeIsShortest
<1>1. /\ DOMAIN Distances = Tree(spf)
      /\ \A w \in Tree(spf) : Distances[w] = spf.dist[w]
  BY DistancesRight
<1>2. CASE v \in Tree(spf)
  BY <1>1, <1>2 DEF Tree
<1>3. CASE v \notin Tree(spf)
  <2>1. Candidates(spf) = {} /\ Good(spf)
    BY Finished DEF QueueInv
  <2>2. ~(spf.stat[v] >= 0) /\ spf.stat[v] # LSA_SPF_IN_SPFTREE /\ spf.stat[v] \in Int
    BY <1>3, <2>1, SMT DEF Candidates, Tree, Good, States
  <2>3. spf.stat[v] < 0
    BY <2>2, SMT
  <2>4. spf.stat[v] = LSA_SPF_NOT_EXPLORED
    BY <2>1, <2>2, <2>3 DEF Good
  <2> QED BY <1>1, <1>3, <2>4
<1> QED BY <1>2, <1>3

(* Whatever the database, when ospf_spf_calculate is done the vertices on    *)
(* the tree are exactly those that can be reached over the links that count, *)
(* each at the distance of its shortest path, with ospf_spf_next, with its   *)
(* pluglet and with a pluglet that comes in halfway.                         *)
THEOREM TreeShortest == TreeSpec => []TreeIsShortest
<1>1. TreeInit => QueueInv /\ PathInv
  BY QueueInvInit, PathInvInit
<1>2. QueueInv /\ PathInv /\ [TreeNext]_treeVars => (QueueInv /\ PathInv)'
  BY QueueInvNext, PathInvNext
<1> QED BY <1>1, <1>2, PathInvShortest, PTL DEF TreeSpec
=============================================================================
