---------------------------- MODULE SpfHopsProofs ---------------------------
(***************************************************************************)
(* Proofs about SpfTree: where no link costs 0, the parents of a vertex    *)
(* give all the next hops of its shortest paths and no others.  HopsInv    *)
(* adds to TreeInv that each vertex has the hops of all the links that end *)
(* such a path.  When the queue is empty the hops of the reference follow  *)
(* (AllHopsRight).                                                         *)
(***************************************************************************)
EXTENDS SpfTreeProofs

USE Zenon

(* The links of routers that the calculation follows cost something. *)
Positive(db) ==
    \A v \in Routers : \A i \in DOMAIN db[v].links :
        db[v].links[i].type # "stub" => db[v].links[i].metric > 0

(* The vertices of the tree in an order in which each comes after all those *)
(* that it is reached from.                                                 *)
Layered(s, P, v, k) ==
    \E rank \in Ranks(s) :
        \A w \in Tree(s) \ {Root} :
            \A u, i : Tight(s, P, v, k, u, i, w) => rank[u] < rank[w]

(* The hops of w are those of the links that end its shortest paths; the    *)
(* ones it has from the root are those of the root's links.                 *)
HopsOf(s, P, v, k, w) ==
    /\ \A h : h \in NextHops(s, w) <=>
                \E u, i : Tight(s, P, v, k, u, i, w) /\ h \in Hops(s, u, i, w)
    /\ \A h : (\E p \in s.parents[w] : p.parent = Root /\ p.hop = h)
                <=> \E i : Tight(s, P, v, k, Root, i, w) /\ h \in Hops(s, Root, i, w)

(* A network joins the tree before the routers at its distance: all the     *)
(* shortest paths to a vertex are known before it joins.                    *)
HopsInv(s, P, v, k) ==
    /\ v = Root => Tree(s) = {Root}
    /\ \A u \in Tree(s) \cap Routers :
          /\ v \in Networks => s.dist[u] < s.dist[v]
          /\ \A w \in Candidates(s) \cap Networks : s.dist[u] < s.dist[w]
    /\ \A w \in Vertices : \A p \in s.parents[w] : p.parent \in Tree(s)
    /\ \A w \in Explored(s) \ {Root} : HopsOf(s, P, v, k, w)
    /\ Layered(s, P, v, k)

LEMMA HopsSame ==
    ASSUME NEW s, NEW t, NEW u, s.parents[u] = t.parents[u], NEW i, NEW w
    PROVE  Hops(s, u, i, w) = Hops(t, u, i, w)
<1>1. OnLink(s, u, w) = OnLink(t, u, w) /\ NextHops(s, u) = NextHops(t, u)
  BY SMT DEF OnLink, NextHops
<1>2. CASE u = Root
  <2> DEFINE r == IF Links(u)[i].hop THEN {<<i, IF w \in Routers THEN <<w, 0>> ELSE NoAddr>>} ELSE {}
  <2>1. Hops(s, u, i, w) = r /\ Hops(t, u, i, w) = r
    BY <1>2, HopsCases, SMT
  <2> QED BY <2>1
<1>3. CASE u # Root /\ u \in Networks /\ OnLink(s, u, w) # {}
  BY <1>1, <1>3, HopsCases
<1>4. CASE u # Root /\ ~(u \in Networks /\ OnLink(s, u, w) # {})
  BY <1>1, <1>4, HopsCases
<1> QED BY <1>2, <1>3, <1>4

LEMMA NewParentsHops ==
    ASSUME NEW x, NEW v, NEW i, NEW w
    PROVE  /\ \A h : (\E p \in NewParents(x, v, i, w) : p.hop = h) <=>
                        (\E p \in Kept(x, w, Distance(x, v, i)) : p.hop = h) \/ h \in Hops(x, v, i, w)
           /\ \A p \in NewParents(x, v, i, w) :
                 p \in Kept(x, w, Distance(x, v, i)) \/ p.parent = v
           /\ Kept(x, w, Distance(x, v, i)) \subseteq NewParents(x, v, i, w)
<1> DEFINE k == Kept(x, w, Distance(x, v, i))
           H == Hops(x, v, i, w)
<1>1. NewParents(x, v, i, w) = k \cup Added(v, H, k)
  BY DEF NewParents
<1> HIDE DEF k, H
<1>2. ASSUME NEW h \in H, \A p \in k : p.hop # h
      PROVE  \E p \in Added(v, H, k) : p.hop = h
  <2> DEFINE p == [parent |-> v, hop |-> h]
  <2>1. p \in Added(v, H, k)
    BY <1>2 DEF Added
  <2>2. p.hop = h
    BY SMT
  <2> HIDE DEF p
  <2> QED BY <2>1, <2>2
<1>3. ASSUME NEW p \in Added(v, H, k) PROVE p.hop \in H /\ p.parent = v
  <2>1. PICK h \in H : p = [parent |-> v, hop |-> h]
    BY DEF Added
  <2> QED BY <2>1, SMT
<1> QED BY <1>1, <1>2, <1>3 DEF k, H

(* A link that leads back into the tree does not end a shortest path: a      *)
(* router's has a cost, and a network joins before the routers it leads to.  *)
LEMMA BackLonger ==
    ASSUME WellFormed(lsdb), Positive(lsdb), NEW v \in Vertices, NEW i \in DOMAIN Links(v), NEW P,
           NEW x, Good(x), NEW k, TreeInv(x, P, v, k), HopsInv(x, P, v, k), Follows(P, v, i)
    PROVE  /\ End(v, i) \in Vertices
           /\ v \in Networks => End(v, i) \in Routers
           /\ v \notin Networks => x.dist[v] < Distance(x, v, i)
           /\ End(v, i) \in Tree(x) => x.dist[End(v, i)] < Distance(x, v, i)
<1> DEFINE w == End(v, i)
<1>1. Links(v)[i].type # "stub"
  BY DEF Follows, Leads
<1>2. w \in Vertices
  BY <1>1, LinkShape DEF End
<1>3. v \in Networks => w \in Routers
  BY DEF WellFormed, Links, End
<1>4. /\ x.dist[v] \in Nat /\ Distance(x, v, i) \in Nat /\ x.dist[v] <= Distance(x, v, i)
      /\ x.dist[w] \in Nat
  BY <1>2, Distances1
<1>5. ASSUME v \notin Networks PROVE x.dist[v] < Distance(x, v, i)
  <2>1. v \in Routers
    BY <1>5 DEF Vertices
  <2>2. Length(v, i) > 0
    BY <1>1, <2>1 DEF Positive, Length, Links
  <2>3. Length(v, i) \in Nat
    BY LinkShape
  <2> QED BY <1>4, <2>2, <2>3, SMT DEF Distance
<1>6. ASSUME w \in Tree(x) PROVE x.dist[w] < Distance(x, v, i)
  <2>1. CASE v \in Networks
    <3>1. x.dist[w] < x.dist[v]
      BY <1>3, <1>6, <2>1 DEF HopsInv
    <3> QED BY <1>4, <3>1, SMT
  <2>2. CASE v \notin Networks
    <3>1. x.dist[w] <= x.dist[v]
      BY <1>6 DEF TreeInv
    <3> QED BY <1>4, <1>5, <2>2, <3>1, SMT
  <2> QED BY <2>1, <2>2
<1> QED BY <1>2, <1>3, <1>5, <1>6

(* Which links end shortest paths after one more has been examined. *)
LEMMA TightStep ==
    ASSUME WellFormed(lsdb), Positive(lsdb), NEW v \in Vertices, NEW i \in DOMAIN Links(v), NEW P,
           NEW x, Good(x), NEW y, Good(y), Changes(v \in P, v, i, x, y),
           TreeInv(x, P, v, i - 1), HopsInv(x, P, v, i - 1), NEW z \in Vertices
    PROVE  IF Leads(v \in P, v, i) /\ Takes(x, v, i, End(v, i)) /\ z = End(v, i)
           THEN /\ Tight(y, P, v, i, v, i, z)
                /\ \A u, j : Tight(y, P, v, i, u, j, z) <=>
                               \/ u = v /\ j = i
                               \/ Tight(x, P, v, i - 1, u, j, z) /\ x.dist[z] = Distance(x, v, i)
           ELSE \A u, j : Tight(y, P, v, i, u, j, z) <=> Tight(x, P, v, i - 1, u, j, z)
<1> DEFINE w == End(v, i)
           d == Distance(x, v, i)
           F == Leads(v \in P, v, i) /\ Takes(x, v, i, w)
<1>1. v \in Tree(x) /\ (v # Root => x.parents[v] # {})
  BY DEF TreeInv, Explored
<1>2. /\ Tree(y) = Tree(x)
      /\ \A u \in Tree(x) : y.dist[u] = x.dist[u] /\ y.parents[u] = x.parents[u]
      /\ \A u \in Tree(x) : \A j : Distance(y, u, j) = Distance(x, u, j)
      /\ \A u, j : Known(y, P, v, i, u, j) <=>
                     Known(x, P, v, i - 1, u, j) \/ (u = v /\ j = i /\ Follows(P, v, i))
      /\ \A u, j, w0 : Tight(x, P, v, i - 1, u, j, w0) /\ y.dist[w0] = x.dist[w0]
                        => Tight(y, P, v, i, u, j, w0)
      /\ F <=> /\ Follows(P, v, i)
               /\ w \notin Tree(x)
               /\ w \in Candidates(x) => ~(x.dist[w] < d)
  BY <1>1, OneMore
<1>3. F => /\ y.dist[w] = d
           /\ \A u \in Vertices : u # w => y.dist[u] = x.dist[u]
  BY DEF Changes
<1>4. ~F => y.dist = x.dist
  BY DEF Changes
<1>5. d \in Nat /\ x.dist[z] \in Nat /\ y.dist[z] \in Nat
  BY Distances1
<1>6. Follows(P, v, i) => w \in Vertices /\ (w \in Tree(x) => x.dist[w] < d)
  BY BackLonger
<1> HIDE DEF w, d, F
<1>7. CASE F /\ z = w
  <2>1. Known(y, P, v, i, v, i) /\ y.dist[z] = d /\ d = Distance(y, v, i)
    BY <1>1, <1>2, <1>3, <1>7 DEF d
  <2>2. Tight(y, P, v, i, v, i, z)
    BY <1>7, <2>1 DEF Tight, w
  <2>3. ASSUME NEW u, NEW j, Tight(y, P, v, i, u, j, z), ~(u = v /\ j = i)
        PROVE  Tight(x, P, v, i - 1, u, j, z) /\ x.dist[z] = d
    <3>1. Known(x, P, v, i - 1, u, j) /\ End(u, j) = z /\ y.dist[z] = Distance(y, u, j)
      <4>1. Known(y, P, v, i, u, j) /\ End(u, j) = z /\ y.dist[z] = Distance(y, u, j)
        BY <2>3 DEF Tight
      <4>2. Known(x, P, v, i - 1, u, j) \/ (u = v /\ j = i /\ Follows(P, v, i))
        BY <1>2, <4>1
      <4> QED BY <2>3, <4>1, <4>2
    <3>2. u \in Tree(x)
      BY <3>1 DEF Known
    <3>3. Distance(x, u, j) = d
      BY <1>2, <2>1, <3>1, <3>2
    <3>4. z \in Explored(x) /\ x.dist[z] <= d
      BY <3>1, <3>3 DEF TreeInv
    <3>5. ~(x.dist[z] < d)
      BY <1>2, <1>7, <3>4 DEF Explored
    <3>6. x.dist[z] = d
      BY <1>5, <3>4, <3>5, SMT
    <3> QED BY <3>1, <3>3, <3>6 DEF Tight
  <2>4. ASSUME NEW u, NEW j, Tight(x, P, v, i - 1, u, j, z), x.dist[z] = d
        PROVE  Tight(y, P, v, i, u, j, z)
    <3>1. Known(x, P, v, i - 1, u, j) /\ End(u, j) = z /\ x.dist[z] = Distance(x, u, j)
      BY <2>4 DEF Tight
    <3>2. u \in Tree(x)
      BY <3>1 DEF Known
    <3> QED BY <1>2, <2>1, <2>4, <3>1, <3>2 DEF Tight
  <2> QED BY <1>7, <2>2, <2>3, <2>4 DEF F, w, d
<1>8. CASE ~(F /\ z = w)
  <2>1. y.dist[z] = x.dist[z]
    BY <1>3, <1>4, <1>8
  <2>2. ASSUME NEW u, NEW j, Tight(x, P, v, i - 1, u, j, z) PROVE Tight(y, P, v, i, u, j, z)
    <3>1. Known(x, P, v, i - 1, u, j) /\ End(u, j) = z /\ x.dist[z] = Distance(x, u, j)
      BY <2>2 DEF Tight
    <3>2. u \in Tree(x)
      BY <3>1 DEF Known
    <3> QED BY <1>2, <2>1, <3>1, <3>2 DEF Tight
  <2>3. ASSUME NEW u, NEW j, Tight(y, P, v, i, u, j, z) PROVE Tight(x, P, v, i - 1, u, j, z)
    <3>1. Known(y, P, v, i, u, j) /\ End(u, j) = z /\ y.dist[z] = Distance(y, u, j)
      BY <2>3 DEF Tight
    <3>2. u \in Tree(x)
      BY <1>2, <3>1 DEF Known
    <3>3. x.dist[z] = Distance(x, u, j)
      BY <1>2, <2>1, <3>1, <3>2
    <3>4. CASE Known(x, P, v, i - 1, u, j)
      BY <3>1, <3>3, <3>4 DEF Tight
    <3>5. CASE u = v /\ j = i /\ Follows(P, v, i)
      <4>1. z = w /\ x.dist[z] = d
        BY <3>1, <3>3, <3>5 DEF w, d
      <4>2. ~(x.dist[z] < d)
        BY <1>5, <4>1, SMT
      <4> QED BY <1>2, <1>6, <1>8, <3>5, <4>1, <4>2
    <3>6. Known(x, P, v, i - 1, u, j) \/ (u = v /\ j = i /\ Follows(P, v, i))
      BY <1>2, <3>1
    <3> QED BY <3>4, <3>5, <3>6
  <2> QED BY <1>8, <2>2, <2>3 DEF F, w
<1> QED BY <1>7, <1>8

LEMMA HopsOfStep ==
    ASSUME WellFormed(lsdb), Positive(lsdb), NEW v \in Vertices, NEW i \in DOMAIN Links(v), NEW P,
           NEW x, Good(x), NEW y, Good(y), Changes(v \in P, v, i, x, y),
           TreeInv(x, P, v, i - 1), HopsInv(x, P, v, i - 1), NEW z \in Explored(y) \ {Root}
    PROVE  HopsOf(y, P, v, i, z)
<1> DEFINE w == End(v, i)
           d == Distance(x, v, i)
           F == Leads(v \in P, v, i) /\ Takes(x, v, i, w)
<1>1. v \in Tree(x) /\ (v # Root => x.parents[v] # {})
  BY DEF TreeInv, Explored
<1>2. /\ Tree(y) = Tree(x)
      /\ \A u \in Tree(x) : y.dist[u] = x.dist[u] /\ y.parents[u] = x.parents[u]
  <2>1. Tree(y) = Tree(x)
    BY DEF Changes
  <2>2. ASSUME NEW u \in Tree(x) PROVE y.dist[u] = x.dist[u] /\ y.parents[u] = x.parents[u]
    <3>1. u \in Vertices
      BY TreeOrCandidate
    <3>2. F => u # w
      BY DEF Takes
    <3> QED BY <3>1, <3>2 DEF Changes
  <2> QED BY <2>1, <2>2
<1>3. F => /\ Candidates(y) = Candidates(x) \cup {w}
           /\ y.dist[w] = d
           /\ y.parents[w] = NewParents(x, v, i, w)
           /\ \A u \in Vertices : u # w => y.dist[u] = x.dist[u] /\ y.parents[u] = x.parents[u]
  BY DEF Changes
<1>4. ~F => Candidates(y) = Candidates(x) /\ y.dist = x.dist /\ y.parents = x.parents
  BY DEF Changes
<1>5. z \in Vertices
  BY TreeOrCandidate
<1>6. IF F /\ z = w
      THEN /\ Tight(y, P, v, i, v, i, z)
           /\ \A u, j : Tight(y, P, v, i, u, j, z) <=>
                          \/ u = v /\ j = i
                          \/ Tight(x, P, v, i - 1, u, j, z) /\ x.dist[z] = d
      ELSE \A u, j : Tight(y, P, v, i, u, j, z) <=> Tight(x, P, v, i - 1, u, j, z)
  BY <1>5, TightStep
<1>7. ASSUME NEW u \in Tree(x), NEW j PROVE Hops(y, u, j, z) = Hops(x, u, j, z)
  <2>1. y.parents[u] = x.parents[u]
    BY <1>2
  <2> QED BY <2>1, HopsSame, SMT
<1>8. \A u, j : Tight(x, P, v, i - 1, u, j, z) => u \in Tree(x) /\ z \in Explored(x)
  <2> TAKE u, j
  <2>1. ASSUME Tight(x, P, v, i - 1, u, j, z)
        PROVE  Known(x, P, v, i - 1, u, j) /\ End(u, j) = z
    BY <2>1 DEF Tight
  <2>2. ASSUME Known(x, P, v, i - 1, u, j) PROVE u \in Tree(x) /\ End(u, j) \in Explored(x)
    BY <2>2 DEF TreeInv, Known
  <2> QED BY <2>1, <2>2
<1>9. z \in Explored(x) => HopsOf(x, P, v, i - 1, z)
  BY DEF HopsInv
<1> HIDE DEF F, w, d
<1>10. CASE F /\ z = w
  <2> DEFINE k == Kept(x, z, d)
  <2>1. /\ y.parents[z] = NewParents(x, v, i, z)
        /\ \A h : (\E p \in y.parents[z] : p.hop = h) <=>
                     (\E p \in k : p.hop = h) \/ h \in Hops(x, v, i, z)
        /\ \A p \in y.parents[z] : p \in k \/ p.parent = v
        /\ k \subseteq y.parents[z]
    <3>1. y.parents[z] = NewParents(x, v, i, z)
      BY <1>3, <1>10
    <3>2. \A h : (\E p \in NewParents(x, v, i, z) : p.hop = h) <=>
                     (\E p \in k : p.hop = h) \/ h \in Hops(x, v, i, z)
      BY NewParentsHops, SMT DEF d
    <3>3. \A p \in NewParents(x, v, i, z) : p \in k \/ p.parent = v
      BY NewParentsHops, SMT DEF d
    <3>4. k \subseteq NewParents(x, v, i, z)
      BY NewParentsHops DEF d
    <3> HIDE DEF k
    <3> QED BY <3>1, <3>2, <3>3, <3>4
  <2>2. \A h : (\E p \in k : p.hop = h) <=>
                 \E u, j : Tight(x, P, v, i - 1, u, j, z) /\ x.dist[z] = d /\ h \in Hops(x, u, j, z)
    <3>1. CASE x.dist[z] = d /\ z \in Explored(x)
      <4>1. k = x.parents[z]
        BY <3>1 DEF Kept
      <4>2. \A h : h \in NextHops(x, z) <=> \E p \in k : p.hop = h
        BY <4>1 DEF NextHops
      <4>3. \A h : h \in NextHops(x, z) <=>
                     \E u, j : Tight(x, P, v, i - 1, u, j, z) /\ h \in Hops(x, u, j, z)
        BY <1>9, <3>1 DEF HopsOf
      <4> HIDE DEF k
      <4> QED BY <3>1, <4>2, <4>3
    <3>2. CASE x.dist[z] = d /\ z \notin Explored(x)
      <4>1. x.parents[z] = {}
        BY <1>5, <3>2 DEF TreeInv
      <4>2. k = {}
        BY <3>2, <4>1 DEF Kept
      <4> QED BY <1>8, <3>2, <4>2
    <3>3. CASE x.dist[z] # d
      <4>1. k = {}
        BY <3>3 DEF Kept
      <4> QED BY <3>3, <4>1
    <3> QED BY <3>1, <3>2, <3>3
  <2>3. \A h : (\E p \in k : p.parent = Root /\ p.hop = h) <=>
                 \E j : Tight(x, P, v, i - 1, Root, j, z) /\ x.dist[z] = d /\ h \in Hops(x, Root, j, z)
    <3>1. CASE x.dist[z] = d /\ z \in Explored(x)
      <4>1. k = x.parents[z]
        BY <3>1 DEF Kept
      <4> QED BY <1>9, <3>1, <4>1 DEF HopsOf
    <3>2. CASE x.dist[z] = d /\ z \notin Explored(x)
      <4>1. x.parents[z] = {}
        BY <1>5, <3>2 DEF TreeInv
      <4>2. k = {}
        BY <3>2, <4>1 DEF Kept
      <4> QED BY <1>8, <3>2, <4>2
    <3>3. CASE x.dist[z] # d
      <4>1. k = {}
        BY <3>3 DEF Kept
      <4> QED BY <3>3, <4>1
    <3> QED BY <3>1, <3>2, <3>3
  <2>4. \A u, j : Tight(y, P, v, i, u, j, z) <=>
                     \/ u = v /\ j = i
                     \/ Tight(x, P, v, i - 1, u, j, z) /\ x.dist[z] = d
    BY <1>6, <1>10
  <2>5. \A p \in k : p.parent \in Tree(x)
    BY <1>5 DEF HopsInv, Kept
  <2> HIDE DEF k
  <2>6. \A h : h \in NextHops(y, z) <=> \E p \in y.parents[z] : p.hop = h
    BY DEF NextHops
  <2>7. ASSUME NEW h
        PROVE  h \in NextHops(y, z) <=>
                 \E u, j : Tight(y, P, v, i, u, j, z) /\ h \in Hops(y, u, j, z)
    <3>1. ASSUME h \in NextHops(y, z)
          PROVE  \E u, j : Tight(y, P, v, i, u, j, z) /\ h \in Hops(y, u, j, z)
      <4>1. (\E p \in k : p.hop = h) \/ h \in Hops(x, v, i, z)
        BY <2>1, <2>6, <3>1
      <4>2. CASE \E p \in k : p.hop = h
        <5>1. PICK u, j : Tight(x, P, v, i - 1, u, j, z) /\ x.dist[z] = d /\ h \in Hops(x, u, j, z)
          BY <2>2, <4>2
        <5> QED BY <1>7, <1>8, <2>4, <5>1
      <4>3. CASE h \in Hops(x, v, i, z)
        BY <1>1, <1>7, <2>4, <4>3
      <4> QED BY <4>1, <4>2, <4>3
    <3>2. ASSUME NEW u, NEW j, Tight(y, P, v, i, u, j, z), h \in Hops(y, u, j, z)
          PROVE  h \in NextHops(y, z)
      <4>1. CASE u = v /\ j = i
        <5>1. h \in Hops(x, v, i, z)
          BY <1>1, <1>7, <3>2, <4>1
        <5> QED BY <2>1, <2>6, <5>1
      <4>2. CASE Tight(x, P, v, i - 1, u, j, z) /\ x.dist[z] = d
        <5>1. h \in Hops(x, u, j, z)
          BY <1>7, <1>8, <3>2, <4>2
        <5>2. \E p \in k : p.hop = h
          BY <2>2, <4>2, <5>1
        <5> QED BY <2>1, <2>6, <5>2
      <4>3. \/ u = v /\ j = i
            \/ Tight(x, P, v, i - 1, u, j, z) /\ x.dist[z] = d
        BY <2>4, <3>2
      <4> QED BY <4>1, <4>2, <4>3
    <3> QED BY <3>1, <3>2
  <2>8. ASSUME NEW h
        PROVE  (\E p \in y.parents[z] : p.parent = Root /\ p.hop = h)
                 <=> \E j : Tight(y, P, v, i, Root, j, z) /\ h \in Hops(y, Root, j, z)
    <3>1. CASE v = Root
      <4>1. Tree(x) = {Root}
        BY <3>1 DEF HopsInv
      <4>2. \A p \in y.parents[z] : p.parent = Root
        BY <2>1, <2>5, <3>1, <4>1
      <4>3. \A u, j : Tight(y, P, v, i, u, j, z) => u = Root
        BY <1>8, <2>4, <3>1, <4>1
      <4> QED BY <2>6, <2>7, <4>2, <4>3
    <3>2. CASE v # Root
      <4>1. (\E p \in y.parents[z] : p.parent = Root /\ p.hop = h)
               <=> \E p \in k : p.parent = Root /\ p.hop = h
        BY <2>1, <3>2
      <4>2. \A j : Tight(y, P, v, i, Root, j, z) <=>
                     Tight(x, P, v, i - 1, Root, j, z) /\ x.dist[z] = d
        BY <2>4, <3>2
      <4>3. Root \in Tree(x)
        BY DEF TreeInv
      <4> QED BY <1>7, <2>3, <4>1, <4>2, <4>3
    <3> QED BY <3>1, <3>2
  <2> QED BY <2>7, <2>8 DEF HopsOf
<1>11. CASE ~(F /\ z = w)
  <2>1. z \in Explored(x) /\ y.parents[z] = x.parents[z]
    BY <1>2, <1>3, <1>4, <1>5, <1>11 DEF Explored
  <2>2. HopsOf(x, P, v, i - 1, z) /\ NextHops(y, z) = NextHops(x, z)
    BY <1>9, <2>1 DEF NextHops
  <2>3. \A u, j : Tight(y, P, v, i, u, j, z) <=> Tight(x, P, v, i - 1, u, j, z)
    BY <1>6, <1>11
  <2>4. ASSUME NEW u, NEW j
        PROVE  Tight(y, P, v, i, u, j, z) =>
                 Tight(x, P, v, i - 1, u, j, z) /\ Hops(y, u, j, z) = Hops(x, u, j, z)
    BY <1>7, <1>8, <2>3
  <2>5. ASSUME NEW h
        PROVE  h \in NextHops(y, z) <=>
                 \E u, j : Tight(y, P, v, i, u, j, z) /\ h \in Hops(y, u, j, z)
    <3>1. h \in NextHops(x, z) <=>
                 \E u, j : Tight(x, P, v, i - 1, u, j, z) /\ h \in Hops(x, u, j, z)
      BY <2>2 DEF HopsOf
    <3> QED BY <2>2, <2>3, <2>4, <3>1
  <2>6. ASSUME NEW h
        PROVE  (\E p \in y.parents[z] : p.parent = Root /\ p.hop = h)
                 <=> \E j : Tight(y, P, v, i, Root, j, z) /\ h \in Hops(y, Root, j, z)
    <3>1. (\E p \in x.parents[z] : p.parent = Root /\ p.hop = h)
                 <=> \E j : Tight(x, P, v, i - 1, Root, j, z) /\ h \in Hops(x, Root, j, z)
      BY <2>2 DEF HopsOf
    <3> QED BY <2>1, <2>3, <2>4, <3>1
  <2> QED BY <2>5, <2>6 DEF HopsOf
<1> QED BY <1>10, <1>11

LEMMA HopsInvStep ==
    ASSUME WellFormed(lsdb), Positive(lsdb), NEW v \in Vertices, NEW i \in DOMAIN Links(v), NEW P,
           NEW x, Good(x), NEW y, Good(y), Changes(v \in P, v, i, x, y),
           TreeInv(x, P, v, i - 1), HopsInv(x, P, v, i - 1)
    PROVE  HopsInv(y, P, v, i)
<1> DEFINE w == End(v, i)
           d == Distance(x, v, i)
           F == Leads(v \in P, v, i) /\ Takes(x, v, i, w)
<1>1. v \in Tree(x) /\ (v # Root => x.parents[v] # {})
  BY DEF TreeInv, Explored
<1>2. /\ Tree(y) = Tree(x)
      /\ \A u \in Tree(x) : y.dist[u] = x.dist[u] /\ y.parents[u] = x.parents[u]
      /\ \A u \in Tree(x) : \A j : Distance(y, u, j) = Distance(x, u, j)
      /\ \A u, j : Known(y, P, v, i, u, j) <=>
                     Known(x, P, v, i - 1, u, j) \/ (u = v /\ j = i /\ Follows(P, v, i))
      /\ \A u, j, z : Tight(x, P, v, i - 1, u, j, z) /\ y.dist[z] = x.dist[z]
                        => Tight(y, P, v, i, u, j, z)
      /\ F <=> /\ Follows(P, v, i)
               /\ w \notin Tree(x)
               /\ w \in Candidates(x) => ~(x.dist[w] < d)
  BY <1>1, OneMore
<1>3. F => /\ w \in Vertices
           /\ Candidates(y) = Candidates(x) \cup {w}
           /\ y.dist[w] = d
           /\ y.parents[w] = NewParents(x, v, i, w)
           /\ \A u \in Vertices : u # w => y.dist[u] = x.dist[u] /\ y.parents[u] = x.parents[u]
  BY FollowedGood DEF Changes, End
<1>4. ~F => Candidates(y) = Candidates(x) /\ y.dist = x.dist /\ y.parents = x.parents
  BY DEF Changes
<1>5. F => /\ v \in Networks => w \in Routers
           /\ v \notin Networks => x.dist[v] < d
  BY <1>2, BackLonger
<1>6. F => \A p \in NewParents(x, v, i, w) : p \in x.parents[w] \/ p.parent = v
  <2>1. \A p \in NewParents(x, v, i, w) : p \in Kept(x, w, d) \/ p.parent = v
    BY NewParentsHops, SMT
  <2>2. Kept(x, w, d) \subseteq x.parents[w]
    BY DEF Kept
  <2> QED BY <2>1, <2>2
<1>7. F => w \notin Tree(x)
  BY <1>2
<1>8. x.dist[v] \in Nat /\ d \in Nat
  BY Distances1
<1> HIDE DEF F, w, d
<1>9. v = Root => Tree(y) = {Root}
  BY <1>2 DEF HopsInv
<1>10. ASSUME NEW u \in Tree(y) \cap Routers
       PROVE  /\ v \in Networks => y.dist[u] < y.dist[v]
              /\ \A c \in Candidates(y) \cap Networks : y.dist[u] < y.dist[c]
  <2>1. u \in Tree(x) \cap Routers /\ y.dist[u] = x.dist[u] /\ y.dist[v] = x.dist[v]
    BY <1>1, <1>2
  <2>2. v \in Networks => y.dist[u] < y.dist[v]
    BY <2>1 DEF HopsInv
  <2>3. ASSUME NEW c \in Candidates(y) \cap Networks PROVE y.dist[u] < y.dist[c]
    <3>1. CASE F /\ c = w
      <4>1. v \notin Networks
        BY <1>5, <3>1, SpfTreeConstants
      <4>2. x.dist[v] < d /\ y.dist[c] = d
        BY <1>3, <1>5, <3>1, <4>1
      <4>3. x.dist[u] <= x.dist[v]
        BY <2>1 DEF TreeInv
      <4>4. x.dist[u] \in Nat
        BY <2>1, TreeOrCandidate, Distances1
      <4> QED BY <1>8, <2>1, <4>2, <4>3, <4>4, SMT
    <3>2. CASE ~(F /\ c = w)
      <4>1. c \in Candidates(x) /\ c \in Vertices
        BY <1>3, <1>4, <3>2, TreeOrCandidate
      <4>2. y.dist[c] = x.dist[c]
        BY <1>3, <1>4, <3>2, <4>1
      <4>3. x.dist[u] < x.dist[c]
        BY <2>1, <4>1 DEF HopsInv
      <4> QED BY <2>1, <4>2, <4>3
    <3> QED BY <3>1, <3>2
  <2> QED BY <2>2, <2>3
<1>11. ASSUME NEW z \in Vertices, NEW p \in y.parents[z] PROVE p.parent \in Tree(y)
  <2>1. CASE F /\ z = w
    <3>1. p \in x.parents[z] \/ p.parent = v
      BY <1>3, <1>6, <2>1
    <3>2. p \in x.parents[z] => p.parent \in Tree(x)
      BY DEF HopsInv
    <3> QED BY <1>1, <1>2, <3>1, <3>2
  <2>2. CASE ~(F /\ z = w)
    <3>1. y.parents[z] = x.parents[z]
      BY <1>3, <1>4, <2>2
    <3> QED BY <1>2, <3>1 DEF HopsInv
  <2> QED BY <2>1, <2>2
<1>12. \A z \in Explored(y) \ {Root} : HopsOf(y, P, v, i, z)
  BY HopsOfStep
<1>13. Layered(y, P, v, i)
  <2>1. PICK rank \in Ranks(x) :
            \A z \in Tree(x) \ {Root} :
                \A u, j : Tight(x, P, v, i - 1, u, j, z) => rank[u] < rank[z]
    BY DEF HopsInv, Layered
  <2>2. ASSUME NEW z \in Tree(x) \ {Root}, NEW u, NEW j, Tight(y, P, v, i, u, j, z)
        PROVE  rank[u] < rank[z]
    <3>1. z \in Vertices /\ ~(F /\ z = w)
      BY <1>7, TreeOrCandidate
    <3>2. Tight(x, P, v, i - 1, u, j, z)
      BY <2>2, <3>1, TightStep DEF F, w
    <3> QED BY <2>1, <3>2
  <2> QED BY <1>2, <2>1, <2>2 DEF Layered, Ranks
<1> QED BY <1>9, <1>10, <1>11, <1>12, <1>13 DEF HopsInv

LEMMA WalkHops ==
    ASSUME WellFormed(lsdb), Positive(lsdb), NEW v \in Vertices, NEW P, NEW s, Good(s),
           NEW f, NEW r, Walk(v \in P, v, s, f, r), r.whole, TreeInv(s, P, v, 0), HopsInv(s, P, v, 0)
    PROVE  HopsInv(r, P, v, Len(Links(v)))
<1> DEFINE m == Len(Links(v))
           Q == {n \in 0..m : TreeInv(f[n], P, v, n) /\ HopsInv(f[n], P, v, n)}
<1>1. m \in Nat /\ DOMAIN Links(v) = 1..m
  BY LinkShape
<1>2. /\ f[0] = s /\ r = f[m] /\ \A n \in 1..m : Step(v \in P, v, n, f[n - 1], f[n])
  BY DEF Walk
<1>3. \A n \in 0..m : Good(f[n]) /\ f[n].whole
  BY WalkWhole
<1> HIDE DEF m
<1>4. 0 \in 0..m /\ m \in 0..m
  BY <1>1, SMT
<1>5. 0 \in Q
  BY <1>2, <1>4
<1>6. ASSUME NEW n \in 1..m, n - 1 \in Q PROVE n \in Q
  <2>1. n \in 0..m /\ n - 1 \in 0..m /\ n \in DOMAIN Links(v)
    BY <1>1, SMT
  <2>2. TreeInv(f[n - 1], P, v, n - 1) /\ HopsInv(f[n - 1], P, v, n - 1)
    BY <1>6
  <2>3. Changes(v \in P, v, n, f[n - 1], f[n])
    BY <1>2, <1>3, <2>1, StepChanges
  <2>4. TreeInv(f[n], P, v, n)
    BY <1>3, <2>1, <2>2, <2>3, TreeInvStep
  <2>5. HopsInv(f[n], P, v, n)
    BY <1>3, <2>1, <2>2, <2>3, HopsInvStep
  <2> QED BY <2>1, <2>4, <2>5
<1> HIDE DEF Q
<1>7. m \in Q
  BY <1>1, <1>4, <1>5, <1>6, Upto
<1> QED BY <1>2, <1>7 DEF Q, m

LEMMA HopsInvJoin ==
    ASSUME WellFormed(lsdb), NEW v \in Vertices, NEW P, NEW s, Good(s), NEW t, Good(t), NEW n,
           Joining(s, t, n), TreeInv(s, P, v, Len(Links(v))), HopsInv(s, P, v, Len(Links(v)))
    PROVE  HopsInv(t, P, n, 0)
<1> DEFINE m == Len(Links(v))
<1>1. /\ n \in Vertices /\ n \notin Tree(s)
      /\ \A u, i : Known(t, P, n, 0, u, i) <=> Known(s, P, v, m, u, i)
      /\ \A u, i, w : Tight(t, P, n, 0, u, i, w) <=> Tight(s, P, v, m, u, i, w)
      /\ Explored(t) = Explored(s)
      /\ \A w \in Candidates(s) : s.dist[n] <= s.dist[w]
  BY JoiningKnown
<1>2. /\ n \in Candidates(s)
      /\ Tree(t) = Tree(s) \cup {n}
      /\ Candidates(t) = Candidates(s) \ {n}
      /\ t.dist = s.dist /\ t.parents = s.parents
      /\ \A w \in Candidates(s) : Key(s, n) <= Key(s, w)
  BY DEF Joining
<1>3. TreeInv(s, P, v, m) /\ HopsInv(s, P, v, m)
  OBVIOUS
<1> HIDE DEF m
<1>4. n # Root
  BY <1>1, <1>3 DEF TreeInv
<1>5. ASSUME NEW u \in Tree(t) \cap Routers
      PROVE  /\ n \in Networks => t.dist[u] < t.dist[n]
             /\ \A w \in Candidates(t) \cap Networks : t.dist[u] < t.dist[w]
  <2>1. CASE u = n
    <3>1. n \notin Networks
      BY <2>1, SpfTreeConstants
    <3>2. ASSUME NEW w \in Candidates(t) \cap Networks PROVE t.dist[u] < t.dist[w]
      <4>1. Key(s, n) <= Key(s, w) /\ w \in Vertices /\ w \in Networks
        BY <1>2, TreeOrCandidate
      <4>2. s.dist[n] \in Nat /\ s.dist[w] \in Nat
        BY <1>1, <4>1, Distances1
      <4>3. s.dist[n] < s.dist[w]
        BY <3>1, <4>1, <4>2, SMT DEF Key
      <4> QED BY <1>2, <2>1, <4>3
    <3> QED BY <3>1, <3>2
  <2>2. CASE u # n
    <3>1. u \in Tree(s) \cap Routers
      BY <1>2, <2>2
    <3>2. \A w \in Candidates(s) \cap Networks : s.dist[u] < s.dist[w]
      BY <1>3, <3>1 DEF HopsInv
    <3> QED BY <1>2, <3>2
  <2> QED BY <2>1, <2>2
<1>6. \A w \in Vertices : \A p \in t.parents[w] : p.parent \in Tree(t)
  BY <1>2, <1>3 DEF HopsInv
<1>7. ASSUME NEW w \in Explored(t) \ {Root} PROVE HopsOf(t, P, n, 0, w)
  <2>1. HopsOf(s, P, v, m, w)
    BY <1>1, <1>3 DEF HopsInv
  <2>2. NextHops(t, w) = NextHops(s, w) /\ t.parents[w] = s.parents[w]
    BY <1>2 DEF NextHops
  <2>3. ASSUME NEW u, NEW i PROVE Hops(t, u, i, w) = Hops(s, u, i, w)
    <3>1. t.parents[u] = s.parents[u]
      BY <1>2
    <3> QED BY <3>1, HopsSame, SMT
  <2>4. ASSUME NEW h
        PROVE  h \in NextHops(t, w) <=>
                 \E u, i : Tight(t, P, n, 0, u, i, w) /\ h \in Hops(t, u, i, w)
    <3>1. h \in NextHops(s, w) <=>
                 \E u, i : Tight(s, P, v, m, u, i, w) /\ h \in Hops(s, u, i, w)
      BY <2>1 DEF HopsOf
    <3> QED BY <1>1, <2>2, <2>3, <3>1
  <2>5. ASSUME NEW h
        PROVE  (\E p \in t.parents[w] : p.parent = Root /\ p.hop = h)
                 <=> \E i : Tight(t, P, n, 0, Root, i, w) /\ h \in Hops(t, Root, i, w)
    <3>1. (\E p \in s.parents[w] : p.parent = Root /\ p.hop = h)
                 <=> \E i : Tight(s, P, v, m, Root, i, w) /\ h \in Hops(s, Root, i, w)
      BY <2>1 DEF HopsOf
    <3> QED BY <1>1, <2>2, <2>3, <3>1
  <2> QED BY <2>4, <2>5 DEF HopsOf
<1>8. Layered(t, P, n, 0)
  <2>1. PICK rank \in Ranks(s) :
            \A w \in Tree(s) \ {Root} :
                \A u, i : Tight(s, P, v, m, u, i, w) => rank[u] < rank[w]
    BY <1>3 DEF HopsInv, Layered
  <2>2. PICK last \in Ranks(t) : \A u \in Tree(s) : last[u] = rank[u] /\ last[u] < last[n]
    <3>1. n \notin Tree(s)
      BY <1>1
    <3>2. \E last \in Ranks(t) : RanksLast(last, rank, s, n)
      BY <2>1, <3>1, JoiningRank
    <3> QED BY <3>2 DEF RanksLast
  <2>3. ASSUME NEW w \in Tree(t) \ {Root}, NEW u, NEW i, Tight(t, P, n, 0, u, i, w)
        PROVE  last[u] < last[w]
    <3>1. Tight(s, P, v, m, u, i, w)
      BY <1>1, <2>3
    <3>2. u \in Tree(s)
      BY <3>1 DEF Tight, Known
    <3>3. CASE w = n
      BY <2>2, <3>2, <3>3
    <3>4. CASE w # n
      <4>1. w \in Tree(s) \ {Root}
        BY <1>2, <3>4
      <4>2. rank[u] < rank[w]
        BY <2>1, <3>1, <4>1
      <4> QED BY <2>2, <3>2, <4>1, <4>2
    <3> QED BY <3>3, <3>4
  <2> QED BY <2>2, <2>3 DEF Layered
<1> QED BY <1>4, <1>5, <1>6, <1>7, <1>8 DEF HopsInv

LEMMA HopsInvPruned ==
    ASSUME WellFormed(lsdb), NEW v \in Vertices, NEW P, NEW s, HopsInv(s, P, v, 0)
    PROVE  HopsInv(s, P \cup {v}, v, 0)
<1> DEFINE Q == P \cup {v}
<1>1. \A u, i, w : Tight(s, Q, v, 0, u, i, w) <=> Tight(s, P, v, 0, u, i, w)
  BY PrunedKnown
<1> HIDE DEF Q
<1>2. Layered(s, Q, v, 0)
  BY <1>1 DEF HopsInv, Layered
<1>3. ASSUME NEW w \in Explored(s) \ {Root} PROVE HopsOf(s, Q, v, 0, w)
  <2>1. HopsOf(s, P, v, 0, w)
    BY DEF HopsInv
  <2> QED BY <1>1, <2>1 DEF HopsOf
<1>4. HopsInv(s, Q, v, 0)
  BY <1>2, <1>3 DEF HopsInv
<1> QED BY <1>4 DEF Q

LEMMA HopsInvStart ==
    ASSUME WellFormed(lsdb), NEW s, NEW P, Tree(s) = {Root}, Candidates(s) = {},
           s.dist = [v \in Vertices |-> 0], s.parents = [v \in Vertices |-> {}]
    PROVE  HopsInv(s, P, Root, 0)
<1>1. \A v \in Vertices : s.parents[v] = {}
  BY SMT
<1>2. Root \notin Networks
  BY SpfTreeConstants
<1>3. Layered(s, P, Root, 0)
  <2> DEFINE rank == [u \in Tree(s) |-> 0]
  <2>1. Cardinality(Tree(s)) = 1
    BY FS_Singleton
  <2>2. rank \in Ranks(s)
    BY <2>1, SMT DEF Ranks
  <2>3. Tree(s) \ {Root} = {}
    OBVIOUS
  <2> HIDE DEF rank
  <2> QED BY <2>2, <2>3 DEF Layered
<1>4. Explored(s) \ {Root} = {}
  BY DEF Explored
<1> QED BY <1>1, <1>2, <1>3, <1>4 DEF HopsInv

(* Hops, over the two things it takes from the database. *)
HopsWith(s, v, i, w, known, ls) ==
    LET direct == {p \in s.parents[v] : p.parent = Root}
        onLink == {<<p.hop[1], <<w, j>>>> : p \in direct, j \in ls}
    IN  CASE v = Root -> IF known
                         THEN {<<i, IF w \in Routers THEN <<w, 0>> ELSE NoAddr>>}
                         ELSE {}
          [] v # Root /\ v \in Networks /\ onLink # {} -> onLink
          [] OTHER -> {p.hop : p \in s.parents[v]}

LEMMA HopsStay ==
    ASSUME lsdb' = lsdb
    PROVE  \A s, u, i, w : Hops(s, u, i, w)' = Hops(s, u, i, w)
<1>1. \A u : Links(u)' = Links(u)
  BY DEF Links
<1>2. \A v, w : LinksTo(v, w)' = LinksTo(v, w)
  BY <1>1 DEF LinksTo
<1> TAKE s, u, i, w
<1>3. Hops(s, u, i, w) = HopsWith(s, u, i, w, Links(u)[i].hop, LinksTo(w, u))
  BY SMT DEF Hops, HopsWith
<1>4. Hops(s, u, i, w)' = HopsWith(s, u, i, w, Links(u)'[i].hop, LinksTo(w, u)')
  BY SMT DEF Hops, HopsWith
<1> QED BY <1>1, <1>2, <1>3, <1>4

LEMMA HopsInvStays ==
    ASSUME lsdb' = lsdb, NEW s, NEW P, NEW v, NEW k, HopsInv(s, P, v, k)
    PROVE  HopsInv(s, P, v, k)'
<1>1. Layered(s, P, v, k)'
  BY KnownStays DEF HopsInv, Layered
<1>2. ASSUME NEW w \in Explored(s) \ {Root} PROVE HopsOf(s, P, v, k, w)'
  <2>1. HopsOf(s, P, v, k, w)
    BY DEF HopsInv
  <2>2. \A u, i : Tight(s, P, v, k, u, i, w)' <=> Tight(s, P, v, k, u, i, w)
    BY KnownStays
  <2>3. \A u, i : Hops(s, u, i, w)' = Hops(s, u, i, w)
    BY HopsStay
  <2>4. ASSUME NEW h
        PROVE  h \in NextHops(s, w) <=>
                 \E u, i : Tight(s, P, v, k, u, i, w)' /\ h \in Hops(s, u, i, w)'
    <3>1. h \in NextHops(s, w) <=>
                 \E u, i : Tight(s, P, v, k, u, i, w) /\ h \in Hops(s, u, i, w)
      BY <2>1 DEF HopsOf
    <3> QED BY <2>2, <2>3, <3>1
  <2>5. ASSUME NEW h
        PROVE  (\E p \in s.parents[w] : p.parent = Root /\ p.hop = h)
                 <=> \E i : Tight(s, P, v, k, Root, i, w)' /\ h \in Hops(s, Root, i, w)'
    <3>1. (\E p \in s.parents[w] : p.parent = Root /\ p.hop = h)
                 <=> \E i : Tight(s, P, v, k, Root, i, w) /\ h \in Hops(s, Root, i, w)
      BY <2>1 DEF HopsOf
    <3> QED BY <2>2, <2>3, <3>1
  <2> QED BY <2>4, <2>5 DEF HopsOf
<1> QED BY <1>1, <1>2 DEF HopsInv

(* The invariant, in the terms of the specification. *)
HopInv ==
    /\ Positive(lsdb)
    /\ phase = "loop" /\ spf.whole => HopsInv(spf, pruned, vertex, 0)
    /\ phase = "done" /\ spf.whole => HopsInv(spf, pruned, vertex, Len(Links(vertex)))

LEMMA NoLsasPositive == Positive(NoLsas)
<1> SUFFICES ASSUME NEW v \in Routers PROVE DOMAIN NoLsas[v].links = {}
  BY DEF Positive
<1>1. NoLsas[v].links = << >>
  BY SMT DEF NoLsas, Vertices
<1> QED BY <1>1, SMT

LEMMA HopInvInit == TreeInit => HopInv
<1> SUFFICES ASSUME TreeInit PROVE HopInv
  BY SMT
<1>1. phase # "loop" /\ phase # "done"
  BY SMT DEF TreeInit
<1> QED BY <1>1, NoLsasPositive DEF HopInv, TreeInit

LEMMA StartedHop == Started /\ Positive(lsdb) => HopInv
<1> SUFFICES ASSUME Started, Positive(lsdb) PROVE HopInv
  BY SMT
<1>1. phase # "done"
  BY SMT DEF Started
<1>2. HopsInv(spf, {}, Root, 0)
  BY HopsInvStart DEF Started
<1> QED BY <1>1, <1>2 DEF HopInv, Started

LEMMA StartedHopNext == Started' /\ Positive(lsdb)' => HopInv'
BY StartedHop, PTL

LEMMA HopInvNext == QueueInv /\ PathInv /\ HopInv /\ [TreeNext]_treeVars => HopInv'
<1> SUFFICES ASSUME QueueInv, PathInv, HopInv, [TreeNext]_treeVars PROVE HopInv'
  BY SMT
<1>0. ASSUME NEW db, lsdb' = db, Positive(db) PROVE Positive(lsdb)'
  BY <1>0 DEF Positive
<1>1. ASSUME lsdb' = lsdb, spf' = spf, pruned' = pruned, vertex' = vertex, phase' = phase
      PROVE  HopInv'
  <2>1. Links(vertex)' = Links(vertex)
    BY <1>1 DEF Links
  <2> QED BY <1>0, <1>1, <2>1, HopsInvStays DEF HopInv
<1>2. CASE calculate_nothing
  BY <1>1, <1>2 DEF calculate_nothing
<1>3. ASSUME NEW db \in Contents, calculate_start(db) PROVE HopInv'
  <2>1. db \in Databases \cup Later
    BY ContentsWellFormed
  <2>2. Positive(db)
    BY <2>1, PositiveCosts DEF Positive
  <2>3. Positive(lsdb)'
    BY <1>0, <1>3, <2>2 DEF calculate_start
  <2> QED BY <1>3, <2>3, Starts1, StartedHopNext
<1>4. CASE calculate_next
  <2>0. lsdb' = lsdb
    BY <1>4 DEF calculate_next, calculate_turn, calculate_end
  <2>01. Positive(lsdb)'
    BY <1>0, <2>0 DEF HopInv
  <2> SUFFICES ASSUME spf'.whole PROVE HopInv'
    BY <2>01 DEF HopInv
  <2> DEFINE s == ospf_spf_next(spf, vertex)
  <2>1. /\ Good(s) /\ s.whole /\ spf.whole /\ Good(spf')
        /\ Tree(s) = Tree(spf)
        /\ pruned' = pruned \/ pruned' = pruned \cup {vertex}
        /\ vertex \notin pruned => \E f : Walk(vertex \in pruned', vertex, spf, f, s)
        /\ lsdb' = lsdb
        /\ \/ phase' = "loop" /\ Joining(s, spf', vertex')
           \/ phase' = "done" /\ spf' = s /\ vertex' = vertex /\ Candidates(s) = {}
    BY <1>4, OneTurn
  <2> HIDE DEF s
  <2>2. /\ WellFormed(lsdb) /\ vertex \in Vertices /\ Good(spf) /\ vertex \in Tree(spf)
        /\ TreeInv(spf, pruned, vertex, 0) /\ pruned \subseteq Tree(spf) \ {vertex}
        /\ HopsInv(spf, pruned, vertex, 0) /\ Positive(lsdb)
    BY <1>4, <2>1 DEF QueueInv, PathInv, HopInv, calculate_next
  <2>3. PICK f : Walk(vertex \in pruned', vertex, spf, f, s)
    BY <2>1, <2>2
  <2>4. TreeInv(spf, pruned', vertex, 0) /\ HopsInv(spf, pruned', vertex, 0)
    BY <2>1, <2>2, TreeInvPruned, HopsInvPruned
  <2>5. TreeInv(s, pruned', vertex, Len(Links(vertex)))
    BY <2>1, <2>2, <2>3, <2>4, WalkTree
  <2>6. HopsInv(s, pruned', vertex, Len(Links(vertex)))
    BY <2>1, <2>2, <2>3, <2>4, WalkHops
  <2>7. CASE phase' = "loop" /\ Joining(s, spf', vertex')
    <3>1. HopsInv(spf', pruned', vertex', 0)
      BY <2>1, <2>2, <2>5, <2>6, <2>7, HopsInvJoin
    <3>2. HopsInv(spf, pruned, vertex, 0)'
      BY <2>1, <3>1, HopsInvStays
    <3>3. phase' # "done"
      BY <2>7, SMT
    <3> QED BY <2>01, <3>2, <3>3 DEF HopInv
  <2>8. CASE phase' = "done" /\ spf' = s /\ vertex' = vertex /\ Candidates(s) = {}
    <3>1. Links(vertex)' = Links(vertex)
      BY <2>1, <2>8 DEF Links
    <3>2. HopsInv(spf', pruned', vertex', Len(Links(vertex)))
      BY <2>6, <2>8
    <3>3. HopsInv(spf, pruned, vertex, Len(Links(vertex)))'
      BY <2>1, <3>1, <3>2, HopsInvStays
    <3>4. phase' # "loop"
      BY <2>8, SMT
    <3> QED BY <2>01, <3>3, <3>4 DEF HopInv
  <2> QED BY <2>1, <2>7, <2>8
<1>5. CASE calculate_free
  <2>1. phase' # "loop" /\ phase' # "done" /\ lsdb' = NoLsas
    BY <1>5, SMT DEF calculate_free
  <2> QED BY <1>0, <2>1, NoLsasPositive DEF HopInv
<1>6. CASE inject
  BY <1>1, <1>6 DEF inject
<1>7. CASE UNCHANGED treeVars
  BY <1>1, <1>7 DEF treeVars
<1> QED BY <1>2, <1>3, <1>4, <1>5, <1>6, <1>7 DEF TreeNext

(* When the calculation is over: link i of u ends a shortest path to w. *)
Ends(u, i, w)  == Tight(spf, pruned, vertex, Len(Links(vertex)), u, i, w)
NextToRoot(u)  == \E i : Ends(Root, i, u)
LanHop(u, w, h) == \E k : Ends(Root, k, u) /\ \E j \in LinksTo(w, u) : h = <<k, <<w, j>>>>
FirstHop(i, w) == <<i, IF w \in Routers THEN <<w, 0>> ELSE NoAddr>>
Reach          == Tree(spf) \ {Root}

LEMMA HopsDone ==
    ASSUME QueueInv, PathInv, HopInv, Done
    PROVE  /\ WellFormed(lsdb)
           /\ \A w \in Reach : HopsOf(spf, pruned, vertex, Len(Links(vertex)), w)
           /\ \A w \in Reach : w \in Vertices /\ \E u, i : Ends(u, i, w)
           /\ \E rank \in Ranks(spf) :
                 \A w \in Reach : \A u, i : Ends(u, i, w) => rank[u] < rank[w]
<1>1. HopsInv(spf, pruned, vertex, Len(Links(vertex)))
  BY DEF HopInv, Done
<1>2. Explored(spf) = Tree(spf) /\ \A w \in Tree(spf) : w \in Vertices
  BY Finished
<1>3. \A w \in Reach : HopsOf(spf, pruned, vertex, Len(Links(vertex)), w)
  BY <1>1, <1>2 DEF HopsInv, Reach
<1>4. TreeInv(spf, pruned, vertex, Len(Links(vertex)))
  BY DEF PathInv, Done
<1>5. \A w \in Reach : w \in Vertices /\ \E u, i : Ends(u, i, w)
  BY <1>2, <1>4 DEF TreeInv, Reach, Ends
<1>6. \E rank \in Ranks(spf) :
         \A w \in Reach : \A u, i : Ends(u, i, w) => rank[u] < rank[w]
  BY <1>1 DEF HopsInv, Layered, Reach, Ends
<1>7. WellFormed(lsdb)
  BY DEF QueueInv
<1> QED BY <1>3, <1>5, <1>6, <1>7

(* A router that a network leads to has a transit link to the network. *)
LEMMA LinkedBack ==
    ASSUME WellFormed(lsdb), NEW u \in Networks, NEW i, NEW w, Ends(u, i, w)
    PROVE  LinksTo(w, u) # {}
<1>1. /\ i \in DOMAIN Links(u) /\ Follows(pruned, u, i) /\ End(u, i) = w
  BY DEF Ends, Tight, Known
<1>2. w = Links(u)[i].id /\ ospf_lsa_has_link(w, u)
  BY <1>1 DEF Follows, Leads, End
<1>3. u \in Vertices
  BY DEF Vertices
<1>4. w \in Routers
  <2>1. i \in DOMAIN lsdb[u].links /\ w = lsdb[u].links[i].id
    BY <1>1, <1>2 DEF Links
  <2> QED BY <1>3, <2>1, SMT DEF WellFormed
<1>5. w \notin Networks
  BY <1>4, SpfTreeConstants
<1>6. PICK k \in DOMAIN Links(w) : Links(w)[k].id = u /\ Links(w)[k].type = "transit"
  BY <1>2, <1>5, SMT DEF ospf_lsa_has_link
<1> QED BY <1>6 DEF LinksTo

(* The hops of each link that ends a shortest path, by where it starts. *)
LEMMA Through ==
    ASSUME QueueInv, PathInv, HopInv, Done, NEW w \in Reach, NEW u, NEW i, Ends(u, i, w)
    PROVE  /\ u \in Tree(spf)
           /\ u = Root => Hops(spf, u, i, w) = {FirstHop(i, w)}
           /\ u # Root /\ u \in Networks /\ NextToRoot(u) =>
                \A h : h \in Hops(spf, u, i, w) <=> LanHop(u, w, h)
           /\ u # Root /\ ~(u \in Networks /\ NextToRoot(u)) =>
                Hops(spf, u, i, w) = NextHops(spf, u)
<1>1. /\ u \in Tree(spf) /\ Follows(pruned, u, i)
  BY DEF Ends, Tight, Known
<1>2. ASSUME NEW k, NEW z, Ends(Root, k, z) PROVE Hops(spf, Root, k, z) = {FirstHop(k, z)}
  <2>1. Links(Root)[k].hop
    BY <1>2 DEF Ends, Tight, Known, Follows
  <2> QED BY <2>1, HopsCases DEF FirstHop
<1>3. \A h : h \in OnLink(spf, u, w) <=>
               \E p \in spf.parents[u] : p.parent = Root /\ \E j \in LinksTo(w, u) :
                   h = <<p.hop[1], <<w, j>>>>
  BY SMT DEF OnLink
<1>4. ASSUME u # Root, u \in Networks
      PROVE  \A h : h \in OnLink(spf, u, w) <=>
               \E k : Ends(Root, k, u) /\ \E j \in LinksTo(w, u) : h = <<k, <<w, j>>>>
  <2>1. HopsOf(spf, pruned, vertex, Len(Links(vertex)), u)
    BY <1>1, <1>4, HopsDone DEF Reach
  <2>2. \A h : (\E p \in spf.parents[u] : p.parent = Root /\ p.hop = h)
                 <=> \E k : Ends(Root, k, u) /\ h \in Hops(spf, Root, k, u)
    BY <2>1 DEF HopsOf, Ends
  <2>3. u \notin Routers
    BY <1>4, SpfTreeConstants
  <2>4. \A h : (\E p \in spf.parents[u] : p.parent = Root /\ p.hop = h)
                 <=> \E k : Ends(Root, k, u) /\ h = <<k, NoAddr>>
    <3>1. \A k : FirstHop(k, u) = <<k, NoAddr>>
      BY <2>3 DEF FirstHop
    <3>2. ASSUME NEW k, Ends(Root, k, u) PROVE Hops(spf, Root, k, u) = {<<k, NoAddr>>}
      BY <1>2, <3>1, <3>2
    <3>3. ASSUME NEW h
          PROVE  (\E k : Ends(Root, k, u) /\ h \in Hops(spf, Root, k, u))
                   <=> \E k : Ends(Root, k, u) /\ h = <<k, NoAddr>>
      BY <3>2
    <3> QED BY <2>2, <3>3
  <2>5. \A k : <<k, NoAddr>>[1] = k
    BY SMT
  <2>6. ASSUME NEW h, h \in OnLink(spf, u, w)
        PROVE  \E k : Ends(Root, k, u) /\ \E j \in LinksTo(w, u) : h = <<k, <<w, j>>>>
    <3>1. PICK p \in spf.parents[u] : p.parent = Root /\ \E j \in LinksTo(w, u) :
                   h = <<p.hop[1], <<w, j>>>>
      BY <1>3, <2>6
    <3>2. PICK k : Ends(Root, k, u) /\ p.hop = <<k, NoAddr>>
      BY <2>4, <3>1
    <3>3. p.hop[1] = k
      BY <2>5, <3>2
    <3> QED BY <3>1, <3>2, <3>3
  <2>7. ASSUME NEW h, NEW k, Ends(Root, k, u), NEW j \in LinksTo(w, u), h = <<k, <<w, j>>>>
        PROVE  h \in OnLink(spf, u, w)
    <3>1. PICK p \in spf.parents[u] : p.parent = Root /\ p.hop = <<k, NoAddr>>
      BY <2>4, <2>7
    <3>2. p.hop[1] = k
      BY <2>5, <3>1
    <3> QED BY <1>3, <2>7, <3>1, <3>2
  <2> QED BY <2>6, <2>7
<1>5. ASSUME u # Root, u \in Networks, NextToRoot(u)
      PROVE  OnLink(spf, u, w) # {}
  <2>1. PICK j : j \in LinksTo(w, u)
    BY <1>5, HopsDone, LinkedBack
  <2>2. PICK k : Ends(Root, k, u)
    BY <1>5 DEF NextToRoot
  <2> QED BY <1>4, <1>5, <2>1, <2>2
<1>6. ASSUME u # Root, ~(u \in Networks /\ NextToRoot(u))
      PROVE  ~(u \in Networks /\ OnLink(spf, u, w) # {})
  <2> SUFFICES ASSUME u \in Networks, OnLink(spf, u, w) # {} PROVE FALSE
    OBVIOUS
  <2>1. PICK h : h \in OnLink(spf, u, w)
    OBVIOUS
  <2>2. \E k : Ends(Root, k, u)
    BY <1>4, <1>6, <2>1
  <2> QED BY <1>6, <2>2 DEF NextToRoot
<1>7. u = Root => Hops(spf, u, i, w) = {FirstHop(i, w)}
  BY <1>2
<1>8. ASSUME u # Root, u \in Networks, NextToRoot(u)
      PROVE  Hops(spf, u, i, w) = OnLink(spf, u, w)
  BY <1>5, <1>8, HopsCases
<1>9. ASSUME u # Root, ~(u \in Networks /\ NextToRoot(u))
      PROVE  Hops(spf, u, i, w) = NextHops(spf, u)
  BY <1>6, <1>9, HopsCases
<1>10. ASSUME u # Root, u \in Networks, NextToRoot(u)
       PROVE  \A h : h \in Hops(spf, u, i, w) <=> LanHop(u, w, h)
  BY <1>4, <1>8, <1>10 DEF LanHop
<1> QED BY <1>1, <1>7, <1>9, <1>10

LEMMA ShortestEnds ==
    ASSUME QueueInv, PathInv, Done
    PROVE  /\ \A a \in Shortest(Distances) :
                 a = <<a[1], a[2]>> /\ Head2(a) \in Reach /\ Ends(a[1], a[2], Head2(a))
           /\ \A w \in Reach : \A u, i : Ends(u, i, w) =>
                 <<u, i>> \in Shortest(Distances) /\ Head2(<<u, i>>) = w
<1>1. /\ DOMAIN Distances = Tree(spf)
      /\ \A w \in Tree(spf) : Distances[w] = spf.dist[w]
  BY DistancesRight
<1>2. /\ \A a \in Arcs : a[1] \in Tree(spf) => Examined(a[1], a[2])
      /\ \A u, i : Examined(u, i) => <<u, i>> \in Arcs
  BY ArcsExamined
<1>3. ASSUME NEW a \in Shortest(Distances)
      PROVE  a = <<a[1], a[2]>> /\ Head2(a) \in Reach /\ Ends(a[1], a[2], Head2(a))
  <2>1. /\ a \in Arcs /\ a[1] \in Tree(spf) /\ Head2(a) # Root
        /\ Distances[a[1]] + Cost(a) = Distances[Head2(a)]
    BY <1>1 DEF Shortest
  <2>2. Head2(a) \in Tree(spf) /\ a = <<a[1], a[2]>>
    BY <2>1, Finished, ArcShape
  <2>3. spf.dist[Head2(a)] = spf.dist[a[1]] + Cost(a)
    BY <1>1, <2>1, <2>2
  <2>4. Cost(a) = Length(a[1], a[2]) /\ Head2(a) = End(a[1], a[2])
    BY CostIsLength
  <2>5. Examined(a[1], a[2])
    BY <1>2, <2>1
  <2>6. Ends(a[1], a[2], Head2(a))
    BY <2>3, <2>4, <2>5 DEF Ends, Tight, Examined, Distance
  <2> QED BY <2>1, <2>2, <2>6 DEF Reach
<1>4. ASSUME NEW w \in Reach, NEW u, NEW i, Ends(u, i, w)
      PROVE  <<u, i>> \in Shortest(Distances) /\ Head2(<<u, i>>) = w
  <2> DEFINE a == <<u, i>>
  <2>1. a[1] = u /\ a[2] = i
    BY SMT
  <2>2. Examined(u, i) /\ End(u, i) = w /\ spf.dist[w] = spf.dist[u] + Length(u, i) /\ u \in Tree(spf)
    BY <1>4 DEF Ends, Tight, Known, Examined, Distance
  <2>3. a \in Arcs
    BY <1>2, <2>2
  <2> HIDE DEF a
  <2>4. Cost(a) = Length(u, i) /\ Head2(a) = w
    BY <2>1, <2>2, CostIsLength
  <2>5. w \in Tree(spf) /\ w # Root
    BY DEF Reach
  <2>6. Distances[a[1]] + Cost(a) = Distances[Head2(a)]
    BY <1>1, <2>1, <2>2, <2>4, <2>5
  <2>7. a[1] \in DOMAIN Distances /\ Head2(a) # Root
    BY <1>1, <2>1, <2>2, <2>4, <2>5
  <2>8. a \in Shortest(Distances) /\ Head2(a) = w
    BY <2>3, <2>4, <2>6, <2>7 DEF Shortest
  <2> QED BY <2>8 DEF a
<1> QED BY <1>3, <1>4

(* The parts of the reference, AllHops. *)
ShortestNow == Shortest(Distances)
NextTo == {a \in ShortestNow : a[1] = Root}
OnLan  == {x \in NextTo \X ShortestNow : Head2(x[1]) = x[2][1] /\ x[2][1] \in Networks}
Direct == {<<Head2(a), <<a[2], IF Head2(a) \in Routers THEN <<Head2(a), 0>> ELSE NoAddr>>>> :
               a \in NextTo}
          \cup UNION {{<<Head2(x[2]), <<x[1][2], <<Head2(x[2]), j>>>>>> :
                         j \in LinksTo(Head2(x[2]), x[2][1])} : x \in OnLan}
Behind == ShortestNow \ (NextTo \cup {x[2] : x \in OnLan})
Inherit(X) == X \cup {<<Head2(x[1]), x[2][2]>> : x \in {y \in Behind \X X : y[1][1] = y[2][1]}}

LEMMA InheritIn ==
    ASSUME NEW X
    PROVE  /\ \A x \in Inherit(X) : \/ x \in X
                                    \/ \E a \in Behind, y \in X : a[1] = y[1] /\ x = <<Head2(a), y[2]>>
           /\ X \subseteq Inherit(X)
           /\ \A a \in Behind, y \in X : a[1] = y[1] => <<Head2(a), y[2]>> \in Inherit(X)
<1> DEFINE Z == {y \in Behind \X X : y[1][1] = y[2][1]}
<1>1. \A z \in Z : z[1] \in Behind /\ z[2] \in X /\ z[1][1] = z[2][1]
  BY SMT
<1>2. ASSUME NEW a \in Behind, NEW y \in X, a[1] = y[1] PROVE <<Head2(a), y[2]>> \in Inherit(X)
  <2> DEFINE z == <<a, y>>
  <2>1. z \in Z /\ z[1] = a /\ z[2] = y
    BY <1>2, SMT
  <2> HIDE DEF z
  <2>2. <<Head2(z[1]), z[2][2]>> \in Inherit(X)
    BY <2>1 DEF Inherit
  <2> QED BY <2>1, <2>2
<1>3. ASSUME NEW x \in Inherit(X), x \notin X
      PROVE  \E a \in Behind, y \in X : a[1] = y[1] /\ x = <<Head2(a), y[2]>>
  <2>1. PICK z \in Z : x = <<Head2(z[1]), z[2][2]>>
    BY <1>3 DEF Inherit
  <2> QED BY <1>1, <2>1
<1> QED BY <1>2, <1>3 DEF Inherit

(* The shortest paths that end behind a network next to the root. *)
LEMMA OnLanIn ==
    ASSUME QueueInv, PathInv, Done
    PROVE  /\ \A x \in OnLan :
                 /\ Ends(Root, x[1][2], x[2][1]) /\ x[2][1] \in Networks
                 /\ Ends(x[2][1], x[2][2], Head2(x[2])) /\ Head2(x[2]) \in Reach
           /\ \A w \in Reach : \A u \in Networks : \A i, k :
                 Ends(u, i, w) /\ Ends(Root, k, u) /\ u \in Reach =>
                     <<<<Root, k>>, <<u, i>>>> \in OnLan
<1>1. /\ \A a \in ShortestNow :
            a = <<a[1], a[2]>> /\ Head2(a) \in Reach /\ Ends(a[1], a[2], Head2(a))
      /\ \A w \in Reach : \A u, i : Ends(u, i, w) =>
            <<u, i>> \in ShortestNow /\ Head2(<<u, i>>) = w
  BY ShortestEnds DEF ShortestNow
<1>2. ASSUME NEW x \in OnLan
      PROVE  /\ Ends(Root, x[1][2], x[2][1]) /\ x[2][1] \in Networks
             /\ Ends(x[2][1], x[2][2], Head2(x[2])) /\ Head2(x[2]) \in Reach
  <2>1. x[1] \in NextTo /\ x[2] \in ShortestNow /\ Head2(x[1]) = x[2][1] /\ x[2][1] \in Networks
    BY SMT DEF OnLan
  <2>2. x[1] \in ShortestNow /\ x[1][1] = Root
    BY <2>1 DEF NextTo
  <2> QED BY <1>1, <2>1, <2>2
<1>3. ASSUME NEW w \in Reach, NEW u \in Networks, NEW i, NEW k,
             Ends(u, i, w), Ends(Root, k, u), u \in Reach
      PROVE  <<<<Root, k>>, <<u, i>>>> \in OnLan
  <2> DEFINE a == <<Root, k>>
             b == <<u, i>>
  <2>1. /\ a \in ShortestNow /\ Head2(a) = u /\ b \in ShortestNow
    BY <1>1, <1>3
  <2>2. a[1] = Root /\ b[1] = u
    BY SMT
  <2> HIDE DEF a, b
  <2>3. a \in NextTo
    BY <2>1, <2>2 DEF NextTo
  <2>4. <<a, b>> \in NextTo \X ShortestNow /\ <<a, b>>[1] = a /\ <<a, b>>[2] = b
    BY <2>1, <2>3, SMT
  <2>5. <<a, b>> \in OnLan
    BY <2>1, <2>2, <2>4 DEF OnLan
  <2> QED BY <2>5 DEF a, b
<1> QED BY <1>2, <1>3

LEMMA BehindIn ==
    ASSUME QueueInv, PathInv, Done
    PROVE  /\ \A a \in Behind :
                 /\ a[1] # Root /\ Head2(a) \in Reach /\ Ends(a[1], a[2], Head2(a))
                 /\ a[1] \in Tree(spf) => ~(a[1] \in Networks /\ NextToRoot(a[1]))
           /\ \A w \in Reach : \A u, i :
                 Ends(u, i, w) /\ u # Root /\ ~(u \in Networks /\ NextToRoot(u)) =>
                     \E a \in Behind : a[1] = u /\ Head2(a) = w
<1>1. /\ \A a \in ShortestNow :
            a = <<a[1], a[2]>> /\ Head2(a) \in Reach /\ Ends(a[1], a[2], Head2(a))
      /\ \A w \in Reach : \A u, i : Ends(u, i, w) =>
            <<u, i>> \in ShortestNow /\ Head2(<<u, i>>) = w
  BY ShortestEnds DEF ShortestNow
<1>2. ASSUME NEW a \in Behind
      PROVE  a[1] # Root /\ Head2(a) \in Reach /\ Ends(a[1], a[2], Head2(a))
  BY <1>1 DEF Behind, NextTo
<1>3. ASSUME NEW a \in Behind, a[1] \in Tree(spf), a[1] \in Networks, NextToRoot(a[1])
      PROVE  FALSE
  <2>1. PICK k : Ends(Root, k, a[1])
    BY <1>3 DEF NextToRoot
  <2> DEFINE x == <<<<Root, k>>, a>>
  <2>2. a[1] \in Reach
    BY <1>2, <1>3 DEF Reach
  <2>3. <<<<Root, k>>, <<a[1], a[2]>>>> \in OnLan
    BY <1>2, <1>3, <2>1, <2>2, OnLanIn
  <2>4. a = <<a[1], a[2]>>
    BY <1>1 DEF Behind
  <2>5. x \in OnLan
    BY <2>3, <2>4
  <2>6. x[2] = a
    BY SMT
  <2> HIDE DEF x
  <2> QED BY <2>5, <2>6 DEF Behind
<1>4. ASSUME NEW w \in Reach, NEW u, NEW i,
             Ends(u, i, w), u # Root, ~(u \in Networks /\ NextToRoot(u))
      PROVE  \E a \in Behind : a[1] = u /\ Head2(a) = w
  <2> DEFINE a == <<u, i>>
  <2>1. a \in ShortestNow /\ Head2(a) = w
    BY <1>1, <1>4
  <2>2. a[1] = u
    BY SMT
  <2> HIDE DEF a
  <2>3. a \notin NextTo
    BY <1>4, <2>2 DEF NextTo
  <2>4. ASSUME NEW x \in OnLan, x[2] = a PROVE FALSE
    <3>1. Ends(Root, x[1][2], x[2][1]) /\ x[2][1] \in Networks
      BY OnLanIn
    <3>2. u \in Networks /\ Ends(Root, x[1][2], u)
      BY <2>2, <2>4, <3>1
    <3> QED BY <1>4, <3>2 DEF NextToRoot
  <2>5. a \in Behind
    BY <2>1, <2>3, <2>4 DEF Behind
  <2> QED BY <2>1, <2>2, <2>5
<1> QED BY <1>2, <1>3, <1>4

LEMMA DirectIn ==
    ASSUME QueueInv, PathInv, Done
    PROVE  /\ \A x \in Direct :
                 \/ \E w \in Reach : \E i : Ends(Root, i, w) /\ x = <<w, FirstHop(i, w)>>
                 \/ \E w \in Reach : \E u \in Networks : \E i, k : \E j \in LinksTo(w, u) :
                       Ends(u, i, w) /\ Ends(Root, k, u) /\ x = <<w, <<k, <<w, j>>>>>>
           /\ \A w \in Reach : \A i : Ends(Root, i, w) => <<w, FirstHop(i, w)>> \in Direct
           /\ \A w \in Reach : \A u \in Networks : \A i, k : \A j \in LinksTo(w, u) :
                 Ends(u, i, w) /\ Ends(Root, k, u) /\ u \in Reach =>
                     <<w, <<k, <<w, j>>>>>> \in Direct
<1>1. /\ \A a \in ShortestNow :
            a = <<a[1], a[2]>> /\ Head2(a) \in Reach /\ Ends(a[1], a[2], Head2(a))
      /\ \A w \in Reach : \A u, i : Ends(u, i, w) =>
            <<u, i>> \in ShortestNow /\ Head2(<<u, i>>) = w
  BY ShortestEnds DEF ShortestNow
<1> DEFINE Near  == {<<Head2(a), FirstHop(a[2], Head2(a))>> : a \in NextTo}
           At(x) == {<<Head2(x[2]), <<x[1][2], <<Head2(x[2]), j>>>>>> :
                         j \in LinksTo(Head2(x[2]), x[2][1])}
           OneLink(x)  == \E w \in Reach : \E i : Ends(Root, i, w) /\ x = <<w, FirstHop(i, w)>>
           TwoLinks(x) == \E w \in Reach : \E u \in Networks : \E i, k : \E j \in LinksTo(w, u) :
                              Ends(u, i, w) /\ Ends(Root, k, u) /\ x = <<w, <<k, <<w, j>>>>>>
<1>2. Direct = Near \cup UNION {At(x) : x \in OnLan}
  BY DEF Direct, FirstHop
<1>3. ASSUME NEW x \in Near
      PROVE  OneLink(x)
  <2>1. PICK a \in NextTo : x = <<Head2(a), FirstHop(a[2], Head2(a))>>
    BY <1>3
  <2>2. a \in ShortestNow /\ a[1] = Root
    BY DEF NextTo
  <2> QED BY <1>1, <2>1, <2>2
<1>4. ASSUME NEW x, NEW y \in OnLan, x \in At(y)
      PROVE  TwoLinks(x)
  <2>1. /\ Ends(Root, y[1][2], y[2][1]) /\ y[2][1] \in Networks
        /\ Ends(y[2][1], y[2][2], Head2(y[2])) /\ Head2(y[2]) \in Reach
    BY OnLanIn
  <2>2. PICK j \in LinksTo(Head2(y[2]), y[2][1]) :
             x = <<Head2(y[2]), <<y[1][2], <<Head2(y[2]), j>>>>>>
    BY <1>4
  <2> QED BY <2>1, <2>2
<1>5. ASSUME NEW w \in Reach, NEW i, Ends(Root, i, w) PROVE <<w, FirstHop(i, w)>> \in Near
  <2> DEFINE a == <<Root, i>>
  <2>1. a \in ShortestNow /\ Head2(a) = w
    BY <1>1, <1>5
  <2>2. a[1] = Root /\ a[2] = i
    BY SMT
  <2> HIDE DEF a
  <2>3. a \in NextTo
    BY <2>1, <2>2 DEF NextTo
  <2>4. <<Head2(a), FirstHop(a[2], Head2(a))>> \in Near
    BY <2>3
  <2> HIDE DEF Near
  <2> QED BY <2>1, <2>2, <2>4
<1>6. ASSUME NEW w \in Reach, NEW u \in Networks, NEW i, NEW k, NEW j \in LinksTo(w, u),
             Ends(u, i, w), Ends(Root, k, u), u \in Reach
      PROVE  \E y \in OnLan : <<w, <<k, <<w, j>>>>>> \in At(y)
  <2> DEFINE b == <<u, i>>
             y == <<<<Root, k>>, b>>
  <2>1. y \in OnLan
    BY <1>6, OnLanIn
  <2>2. Head2(b) = w
    BY <1>1, <1>6
  <2>3. b[1] = u /\ y[1][2] = k /\ y[2] = b
    BY SMT
  <2> HIDE DEF b, y
  <2>4. j \in LinksTo(Head2(y[2]), y[2][1])
    BY <2>2, <2>3
  <2>5. <<Head2(y[2]), <<y[1][2], <<Head2(y[2]), j>>>>>> \in At(y)
    BY <2>4
  <2> HIDE DEF At
  <2>6. <<w, <<k, <<w, j>>>>>> \in At(y)
    BY <2>2, <2>3, <2>5
  <2> QED BY <2>1, <2>6
<1> HIDE DEF Near, At
<1>7. \A x \in Direct : x \in Near \/ \E y \in OnLan : x \in At(y)
  BY <1>2
<1>8. Near \subseteq Direct /\ \A y \in OnLan : At(y) \subseteq Direct
  BY <1>2
<1>9. ASSUME NEW x \in Direct PROVE OneLink(x) \/ TwoLinks(x)
  <2> HIDE DEF OneLink, TwoLinks
  <2> QED BY <1>3, <1>4, <1>7
<1> QED BY <1>5, <1>6, <1>8, <1>9

(* The hops the calculation has found, as pairs like those of the reference. *)
Pairs == UNION {{w} \X NextHops(spf, w) : w \in Reach}

LEMMA PairsIn ==
    /\ \A x \in Pairs : \E w \in Reach : \E h \in NextHops(spf, w) : x = <<w, h>>
    /\ \A w \in Reach : \A h \in NextHops(spf, w) : <<w, h>> \in Pairs
<1>1. ASSUME NEW x \in Pairs PROVE \E w \in Reach : \E h \in NextHops(spf, w) : x = <<w, h>>
  <2>1. PICK w \in Reach : x \in {w} \X NextHops(spf, w)
    BY DEF Pairs
  <2>2. x[2] \in NextHops(spf, w) /\ x = <<w, x[2]>>
    BY <2>1, SMT
  <2> QED BY <2>2
<1>2. ASSUME NEW w \in Reach, NEW h \in NextHops(spf, w) PROVE <<w, h>> \in Pairs
  <2>1. <<w, h>> \in {w} \X NextHops(spf, w)
    BY SMT
  <2> QED BY <2>1 DEF Pairs
<1> QED BY <1>1, <1>2

LEMMA EndsHops ==
    ASSUME QueueInv, PathInv, HopInv, Done, NEW w \in Reach, NEW h
    PROVE  h \in NextHops(spf, w) <=> \E u, i : Ends(u, i, w) /\ h \in Hops(spf, u, i, w)
<1>1. HopsOf(spf, pruned, vertex, Len(Links(vertex)), w)
  BY HopsDone
<1> QED BY <1>1 DEF HopsOf, Ends

(* What the reference finds is there. *)
LEMMA DirectSound ==
    ASSUME QueueInv, PathInv, HopInv, Done
    PROVE  Direct \subseteq Pairs
<1>1. ASSUME NEW w \in Reach, NEW i, Ends(Root, i, w) PROVE <<w, FirstHop(i, w)>> \in Pairs
  <2>1. Hops(spf, Root, i, w) = {FirstHop(i, w)}
    BY <1>1, Through
  <2>2. FirstHop(i, w) \in Hops(spf, Root, i, w)
    BY <2>1
  <2>3. FirstHop(i, w) \in NextHops(spf, w)
    BY <1>1, <2>2, EndsHops
  <2> QED BY <2>3, PairsIn
<1>2. ASSUME NEW w \in Reach, NEW u \in Networks, NEW i, NEW k, NEW j \in LinksTo(w, u),
             Ends(u, i, w), Ends(Root, k, u)
      PROVE  <<w, <<k, <<w, j>>>>>> \in Pairs
  <2> DEFINE h == <<k, <<w, j>>>>
  <2>1. u # Root
    BY SpfTreeConstants
  <2>2. NextToRoot(u)
    BY <1>2 DEF NextToRoot
  <2>3. \A g : g \in Hops(spf, u, i, w) <=> LanHop(u, w, g)
    BY <1>2, <2>1, <2>2, Through
  <2>4. h \in Hops(spf, u, i, w)
    BY <1>2, <2>3 DEF LanHop
  <2> HIDE DEF h
  <2>5. h \in NextHops(spf, w)
    BY <1>2, <2>4, EndsHops
  <2>6. <<w, h>> \in Pairs
    BY <2>5, PairsIn
  <2> QED BY <2>6 DEF h
<1> SUFFICES ASSUME NEW x \in Direct PROVE x \in Pairs
  OBVIOUS
<1>3. \/ \E w \in Reach : \E i : Ends(Root, i, w) /\ x = <<w, FirstHop(i, w)>>
      \/ \E w \in Reach : \E u \in Networks : \E i, k : \E j \in LinksTo(w, u) :
            Ends(u, i, w) /\ Ends(Root, k, u) /\ x = <<w, <<k, <<w, j>>>>>>
  BY DirectIn
<1>4. CASE \E w \in Reach : \E i : Ends(Root, i, w) /\ x = <<w, FirstHop(i, w)>>
  BY <1>1, <1>4
<1>5. CASE \E w \in Reach : \E u \in Networks : \E i, k : \E j \in LinksTo(w, u) :
              Ends(u, i, w) /\ Ends(Root, k, u) /\ x = <<w, <<k, <<w, j>>>>>>
  BY <1>2, <1>5
<1> QED BY <1>3, <1>4, <1>5

LEMMA InheritSound ==
    ASSUME QueueInv, PathInv, HopInv, Done, NEW X \in SUBSET Pairs
    PROVE  Inherit(X) \in SUBSET Pairs
<1> SUFFICES ASSUME NEW x \in Inherit(X), x \notin X PROVE x \in Pairs
  OBVIOUS
<1>1. PICK a \in Behind, y \in X : a[1] = y[1] /\ x = <<Head2(a), y[2]>>
  BY InheritIn
<1>2. PICK u \in Reach : \E h \in NextHops(spf, u) : y = <<u, h>>
  BY PairsIn
<1>3. PICK h \in NextHops(spf, u) : y = <<u, h>>
  BY <1>2
<1>4. y[1] = u /\ y[2] = h
  BY <1>3, SMT
<1> DEFINE w == Head2(a)
           i == a[2]
<1>5. u \in Tree(spf) /\ a[1] = u
  BY <1>1, <1>4 DEF Reach
<1>6. /\ u # Root /\ w \in Reach /\ Ends(u, i, w)
      /\ ~(u \in Networks /\ NextToRoot(u))
  BY <1>5, BehindIn
<1> HIDE DEF w, i
<1>7. Hops(spf, u, i, w) = NextHops(spf, u)
  BY <1>6, Through
<1>8. h \in NextHops(spf, w)
  BY <1>6, <1>7, EndsHops
<1>9. <<w, h>> \in Pairs
  BY <1>6, <1>8, PairsIn
<1> QED BY <1>1, <1>4, <1>9 DEF w

(* A hop of w is one the reference has at once, or one of a vertex before w. *)
LEMMA HopFrom ==
    ASSUME QueueInv, PathInv, HopInv, Done, NEW w \in Reach, NEW h \in NextHops(spf, w)
    PROVE  \/ <<w, h>> \in Direct
           \/ \E a \in Behind : /\ a[1] \in Reach /\ Ends(a[1], a[2], w)
                                /\ Head2(a) = w /\ h \in NextHops(spf, a[1])
<1>1. PICK u, i : Ends(u, i, w) /\ h \in Hops(spf, u, i, w)
  BY EndsHops
<1>2. u \in Tree(spf)
  BY <1>1, Through
<1>3. CASE u = Root
  <2>1. Hops(spf, Root, i, w) = {FirstHop(i, w)}
    BY <1>1, <1>3, Through
  <2>2. h = FirstHop(i, w)
    BY <1>1, <1>3, <2>1
  <2> QED BY <1>1, <1>3, <2>2, DirectIn
<1>4. CASE u # Root /\ u \in Networks /\ NextToRoot(u)
  <2>1. \A g : g \in Hops(spf, u, i, w) <=> LanHop(u, w, g)
    BY <1>1, <1>4, Through
  <2>2. PICK m : Ends(Root, m, u) /\ \E l \in LinksTo(w, u) : h = <<m, <<w, l>>>>
    BY <1>1, <2>1 DEF LanHop
  <2>3. PICK l \in LinksTo(w, u) : h = <<m, <<w, l>>>>
    BY <2>2
  <2>4. u \in Reach
    BY <1>2, <1>4 DEF Reach
  <2>5. <<w, <<m, <<w, l>>>>>> \in Direct
    BY <1>1, <1>4, <2>2, <2>4, DirectIn
  <2> QED BY <2>3, <2>5
<1>5. CASE u # Root /\ ~(u \in Networks /\ NextToRoot(u))
  <2>1. Hops(spf, u, i, w) = NextHops(spf, u)
    BY <1>1, <1>5, Through
  <2>2. PICK a \in Behind : a[1] = u /\ Head2(a) = w
    BY <1>1, <1>5, BehindIn
  <2>3. Ends(a[1], a[2], Head2(a))
    BY BehindIn
  <2>4. a[1] \in Reach /\ Ends(a[1], a[2], w) /\ h \in NextHops(spf, a[1])
    BY <1>1, <1>2, <1>5, <2>1, <2>2, <2>3 DEF Reach
  <2> QED BY <2>2, <2>4
<1> QED BY <1>3, <1>4, <1>5

(* The reference has after as many turns as its rank all the hops of a       *)
(* vertex, and never one the calculation does not have.                      *)
LEMMA AllHopsRight ==
    ASSUME QueueInv, PathInv, HopInv, Done
    PROVE  AllHops(Distances) = Pairs
<1> DEFINE T == Tree(spf)
           N == Cardinality(Vertices)
           S == SUBSET Pairs
           x0 == Direct
           G(f) == f = [n \in 0..N |-> IF n = 0 THEN x0 ELSE Inherit(f[n - 1])]
           g == CHOOSE f : G(f)
<1>1. PICK rank \in Ranks(spf) :
         \A w \in Reach : \A u, i : Ends(u, i, w) => rank[u] < rank[w]
  BY HopsDone
<1>2. Root \in T /\ Reach \subseteq T
  BY Finished DEF Reach
<1>3. N \in Nat /\ Cardinality(T) \in Nat /\ Cardinality(T) <= N
  BY TreeFinite DEF QueueInv
<1>4. \A w \in T : rank[w] \in 0..Cardinality(T) - 1
  BY <1>1 DEF Ranks
<1>5. N \in 0..N /\ \A w \in T : rank[w] <= N /\ rank[w] \in Nat
  BY <1>2, <1>3, <1>4, SMT
<1> HIDE DEF T, N
<1>6. x0 \in S
  BY DirectSound
<1>7. ASSUME NEW X \in S PROVE Inherit(X) \in S
  BY <1>7, InheritSound
<1> HIDE DEF S, x0
<1>8. G(g)
  <2> DEFINE F == [n \in 1..N |-> [X \in S |-> Inherit(X)]]
  <2>1. Closed(N, S, F)
    BY <1>7 DEF Closed
  <2> HIDE DEF F
  <2>2. PICK f \in [0..N -> S] : IsLoop(f, N, x0, F)
    BY <1>3, <1>6, <2>1, Loop
  <2>3. ASSUME NEW n \in 0..N, n # 0 PROVE F[n][f[n - 1]] = Inherit(f[n - 1])
    <3>1. n \in 1..N /\ n - 1 \in 0..N
      BY <1>3, <2>3, SMT
    <3>2. f[n - 1] \in S
      BY <2>2, <3>1
    <3> QED BY <3>1, <3>2 DEF F
  <2>4. G(f)
    BY <2>2, <2>3 DEF IsLoop
  <2> HIDE DEF G
  <2> QED BY <2>4
<1>9. AllHops(Distances) = g[N]
  BY DEF AllHops, Inherit, Behind, Direct, OnLan, NextTo, ShortestNow, x0, N
<1> HIDE DEF g
<1>10. g[0] = x0 /\ \A n \in 1..N : g[n] = Inherit(g[n - 1])
  BY <1>3, <1>8, SMT
<1> HIDE DEF G
<1> DEFINE Found(n) == /\ g[n] \in S /\ Direct \subseteq g[n]
                       /\ \A w \in Reach : rank[w] <= n => \A h \in NextHops(spf, w) : <<w, h>> \in g[n]
           Q == {n \in 0..N : Found(n)}
<1>11. 0 \in Q
  <2>1. ASSUME NEW w \in Reach, rank[w] <= 0 PROVE FALSE
    <3>1. PICK u, i : Ends(u, i, w)
      BY HopsDone
    <3>2. u \in T /\ w \in T
      BY <1>2, <3>1, Through DEF T
    <3>3. rank[u] < rank[w]
      BY <1>1, <3>1
    <3> QED BY <1>5, <2>1, <3>2, <3>3, SMT
  <2>2. 0 \in 0..N
    BY <1>3, SMT
  <2>3. g[0] \in S /\ Direct \subseteq g[0]
    BY <1>6, <1>10 DEF x0
  <2> QED BY <2>1, <2>2, <2>3
<1>12. ASSUME NEW n \in 1..N, n - 1 \in Q PROVE n \in Q
  <2>1. Found(n - 1)
    BY <1>12
  <2> DEFINE X == g[n - 1]
  <2>2. g[n] = Inherit(X) /\ X \in S /\ Direct \subseteq X
    BY <1>10, <2>1
  <2>3. ASSUME NEW w \in Reach, rank[w] <= n, NEW h \in NextHops(spf, w)
        PROVE  <<w, h>> \in Inherit(X)
    <3>1. CASE <<w, h>> \in Direct
      BY <2>2, <3>1, InheritIn
    <3>2. CASE \E a \in Behind : /\ a[1] \in Reach /\ Ends(a[1], a[2], w)
                                 /\ Head2(a) = w /\ h \in NextHops(spf, a[1])
      <4>1. PICK a \in Behind : /\ a[1] \in Reach /\ Ends(a[1], a[2], w)
                                /\ Head2(a) = w /\ h \in NextHops(spf, a[1])
        BY <3>2
      <4>2. rank[a[1]] < rank[w] /\ a[1] \in T /\ w \in T
        BY <1>1, <1>2, <4>1
      <4>3. rank[a[1]] <= n - 1
        BY <1>3, <1>5, <2>3, <4>2, SMT
      <4> DEFINE y == <<a[1], h>>
      <4>4. y \in X
        BY <2>1, <4>1, <4>3
      <4>5. y[1] = a[1] /\ y[2] = h
        BY SMT
      <4> HIDE DEF y
      <4>6. <<Head2(a), y[2]>> \in Inherit(X)
        BY <4>4, <4>5, InheritIn
      <4> QED BY <4>1, <4>5, <4>6
    <3> QED BY <3>1, <3>2, HopFrom
  <2>4. n \in 0..N
    BY <1>3, SMT
  <2> HIDE DEF X
  <2>5. g[n] \in S /\ Direct \subseteq g[n]
    <3>1. X \subseteq Inherit(X)
      BY InheritIn
    <3> QED BY <1>7, <2>2, <3>1
  <2>6. \A w \in Reach : rank[w] <= n => \A h \in NextHops(spf, w) : <<w, h>> \in g[n]
    BY <2>2, <2>3
  <2> QED BY <2>4, <2>5, <2>6
<1> HIDE DEF Q
<1>13. \A n \in 0..N : n \in Q
  BY <1>3, <1>11, <1>12, Upto
<1>14. Found(N)
  BY <1>5, <1>13 DEF Q
<1>15. \A w \in Reach : \A h \in NextHops(spf, w) : <<w, h>> \in g[N]
  BY <1>2, <1>5, <1>14
<1>16. Pairs \subseteq g[N]
  BY <1>15, PairsIn
<1>17. g[N] \subseteq Pairs
  BY <1>14 DEF S
<1> QED BY <1>9, <1>16, <1>17

LEMMA HopInvAll == QueueInv /\ PathInv /\ HopInv => AllShortestHops
<1> SUFFICES ASSUME QueueInv, PathInv, HopInv, Done, NEW v \in DOMAIN Distances \ {Root}
             PROVE  NextHops(spf, v) = Of(AllHops(Distances), v)
  BY DEF AllShortestHops
<1>1. v \in Reach
  BY DistancesRight DEF Reach
<1>2. AllHops(Distances) = Pairs
  BY AllHopsRight
<1>3. ASSUME NEW h \in NextHops(spf, v) PROVE h \in Of(Pairs, v)
  <2> DEFINE x == <<v, h>>
  <2>1. x \in Pairs
    BY <1>1, PairsIn
  <2>2. x[1] = v /\ x[2] = h
    BY SMT
  <2> HIDE DEF x
  <2> QED BY <2>1, <2>2 DEF Of
<1>4. ASSUME NEW h \in Of(Pairs, v) PROVE h \in NextHops(spf, v)
  <2>1. PICK x \in Pairs : x[1] = v /\ h = x[2]
    BY DEF Of
  <2>2. PICK w \in Reach : \E k \in NextHops(spf, w) : x = <<w, k>>
    BY PairsIn
  <2>3. PICK k \in NextHops(spf, w) : x = <<w, k>>
    BY <2>2
  <2>4. w = v /\ k = h
    BY <2>1, <2>3, SMT
  <2> QED BY <2>4
<1> QED BY <1>2, <1>3, <1>4

(* When ospf_spf_calculate ends, every vertex on the tree has the next hops  *)
(* of all its shortest paths and no other, for any database of links whose   *)
(* cost is not 0: ospf_nexthop_calculation misses none, because cmp has a    *)
(* network leave the queue before a router at the same distance.             *)
THEOREM HopsAll == TreeSpec => []AllShortestHops
<1>1. TreeInit => QueueInv /\ PathInv /\ HopInv
  BY QueueInvInit, PathInvInit, HopInvInit
<1>2. QueueInv /\ PathInv /\ HopInv /\ [TreeNext]_treeVars => (QueueInv /\ PathInv /\ HopInv)'
  BY QueueInvNext, PathInvNext, HopInvNext
<1> QED BY <1>1, <1>2, HopInvAll, PTL DEF TreeSpec
=============================================================================
