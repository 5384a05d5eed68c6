------------------------------ MODULE MCSpfRoutes ---------------------------
(* SpfRoutes on databases of up to six routers and two networks.  Router 1     *)
(* calculates.                                                               *)
EXTENDS SpfRoutes

SixRouters  == 1..6
TwoNetworks == {11, 12}
Reachable   == 101..104
HostAddress == {104}

Link(type, id, metric) == [type |-> type, id |-> id, metric |-> metric, hop |-> TRUE]

(* The LSAs of a topology: cost[{a, b}] of a point-to-point link, 0 if there *)
(* is none, the routers att[n] on a network and the cost of joining it, the  *)
(* prefix of network 12, and the stub links of each router.                  *)
Database(cost, att, join, prefix, stubs) ==
    LET p2p(r)  == SelectSeq([x \in 1..6 |-> Link("p2p", x, IF x = r THEN 0 ELSE cost[{r, x}])],
                             LAMBDA l : l.metric > 0)
        lans(r) == SelectSeq(<<11, 12>>, LAMBDA n : r \in att[n])
        tr(r)   == [i \in DOMAIN lans(r) |-> Link("transit", lans(r)[i], join)]
        hosts(n) == SelectSeq([x \in 1..6 |-> x], LAMBDA x : x \in att[n])
        lsa(links, p, border) ==
            [here |-> links # <<>>, maxage |-> FALSE, links |-> links, coloured |-> FALSE,
             red |-> {}, border |-> border, prefix |-> p]
    IN  [v \in SixRouters \cup TwoNetworks |->
            IF v \in SixRouters
            THEN [lsa(p2p(v) \o tr(v) \o stubs[v], 0, v \in {3, 4}) EXCEPT
                    !.here = v = Root \/ @]
            ELSE lsa([i \in DOMAIN hosts(v) |-> Link("attached", hosts(v)[i], 0)],
                     IF v = 11 THEN 101 ELSE prefix, FALSE)]

NoStubs  == [r \in 1..6 |-> <<>>]
Pairs    == {e \in SUBSET (1..6) : Cardinality(e) = 2}
OnlyCost(f) == [e \in Pairs |-> IF e \in DOMAIN f THEN f[e] ELSE 0]

(* A square of four routers with a diagonal, and two networks across it. *)
Square(a, b, c, d) ==
    OnlyCost({1, 2} :> a @@ {1, 3} :> b @@ {2, 4} :> c @@ {2, 3} :> d @@ {3, 4} :> 1)

(* Stub networks behind 4 and 3, on a transit network, on the root itself,   *)
(* and the root's own address announced by neighbours.                       *)
Remote == [NoStubs EXCEPT ![3] = <<Link("stub", 103, 2), Link("stub", 104, 1)>>,
                          ![4] = <<Link("stub", 103, 1), Link("stub", 102, 1)>>]
Local  == [NoStubs EXCEPT ![1] = <<Link("stub", 103, 1)>>,
                          ![2] = <<Link("stub", 103, 1), Link("stub", 101, 1)>>,
                          ![4] = <<Link("stub", 104, 1)>>]

Squares(diagonal) ==
    {Database(Square(a, b, c, d), 11 :> n @@ 12 :> m, 1, pv[1], pv[2]) :
        a \in {0, 1, 2}, b \in {0, 1}, c \in {1, 2}, d \in diagonal,
        n \in {{}, {1, 2, 4}}, m \in {{}, {3, 4}, {1, 2, 4}},
        pv \in {<<101, Local>>, <<102, Remote>>}}

(* What happens to a database: an LSA is MaxAge, a link back or an interface *)
(* is missing, links are coloured.                                           *)
Twist(db, t) ==
    CASE t = "maxage" -> [db EXCEPT ![2].maxage = TRUE]
      [] t = "gone"   -> [db EXCEPT ![11].maxage = TRUE]
      [] t = "oneway" -> [db EXCEPT ![4].links = SelectSeq(@, LAMBDA l : l.id # 2)]
      [] t = "nohop"  -> [db EXCEPT ![1].links = [i \in DOMAIN @ |->
                                                    [@[i] EXCEPT !.hop = i # 1]]]
      [] t = "red"    -> [db EXCEPT ![1].coloured = TRUE, ![1].red = {2}]

TwistedSquares ==
    Squares({0, 1}) \cup
    {Twist(db, t) : db \in Squares({1}), t \in {"maxage", "gone", "oneway", "nohop", "red"}}

(* The root and five neighbours, with links between them that shorten paths  *)
(* to candidates.                                                            *)
Stars ==
    {Database(OnlyCost({1, 2} :> f[2] @@ {1, 3} :> f[3] @@ {1, 4} :> f[4] @@ {1, 5} :> f[5]
                       @@ {1, 6} :> f[6] @@ {2, 6} :> 1 @@ {3, 5} :> x),
              11 :> {} @@ 12 :> {}, 1, 102, NoStubs) :
        f \in [2..6 -> {1, 3}], x \in {0, 1}}

AllDatabases == TwistedSquares \cup Stars

LaterDatabases ==
    {Database(Square(1, 1, 2, 1), 11 :> {1, 2, 4} @@ 12 :> {}, 1, 102, Remote),
     Twist(Database(Square(2, 1, 1, 1), 11 :> {} @@ 12 :> {}, 1, 102, Local), "red")}
=============================================================================
