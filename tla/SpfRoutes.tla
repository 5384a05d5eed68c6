------------------------------ MODULE SpfRoutes -----------------------------
(***************************************************************************)
(* The routes of one area: those ospf_spf_calculate adds as vertices join  *)
(* the tree, its second stage over the stub links, and the pruning of the  *)
(* table (ospf_route.c).  Each action is one of SpfTree, which it extends  *)
(* by what happens to new_table and new_rtrs.                              *)
(***************************************************************************)
EXTENDS SpfTree, SequencesExt

CONSTANT
    OwnHosts            \* destinations that are /32 addresses of the router itself

ASSUME SpfRoutesConstants == OwnHosts \subseteq Destinations

VARIABLES
    table,     \* new_table
    rtrs       \* new_rtrs

vars == <<lsdb, phase, vertex, spf, rep, pruned, started, measured, early, table, rtrs>>

NoRoute == [cost |-> 0, paths |-> {}, origin |-> 0]

-----------------------------------------------------------------------------
(* Routes *)

(* An equally short route is replaced by that of a greater link state id. *)
ospf_intra_add_transit(s, t, v) ==
    LET cur == t[lsdb[v].prefix]
    IN  IF cur # NoRoute /\ (s.dist[v] > cur.cost \/ cur.origin > v) THEN t
        ELSE [t EXCEPT ![lsdb[v].prefix] =
                [cost |-> s.dist[v], paths |-> NextHops(s, v), origin |-> v]]

(* Only border routers get an entry. *)
ospf_intra_add_router(s, r, v) ==
    IF lsdb[v].border
    THEN [r EXCEPT ![v] = [cost |-> s.dist[v], paths |-> NextHops(s, v), origin |-> v]]
    ELSE r

(* Seeded fault: equally short paths are not merged. *)
ospf_intra_add_stub_single(s, t, v, i, parent_is_root) ==
    LET d    == Links(v)[i].id
        cost == s.dist[v] + Links(v)[i].metric
        own  == IF v = Root /\ Links(v)[i].hop THEN {<<i, NoAddr>>} ELSE NextHops(s, v)
    IN  IF t[d] # NoRoute /\ cost >= t[d].cost THEN t
        ELSE [t EXCEPT ![d] = [cost |-> cost, paths |-> own, origin |-> v]]

(* Stub link i of v.  The interface of the router's own stub link is only   *)
(* used when the destination has no route yet.                              *)
ospf_intra_add_stub(s, t, v, i, parent_is_root) ==
    LET d    == Links(v)[i].id
        cost == s.dist[v] + Links(v)[i].metric
        hops == NextHops(s, v)
        own  == IF Links(v)[i].hop THEN {<<i, NoAddr>>} ELSE {}
        cur  == t[d]
    IN  CASE parent_is_root /\ d \in OwnHosts -> t
          [] ~(parent_is_root /\ d \in OwnHosts) /\ cur = NoRoute ->
                [t EXCEPT ![d] = [cost   |-> cost,
                                  paths  |-> IF v = Root THEN own ELSE hops,
                                  origin |-> v]]
          [] OTHER ->
                CASE cost > cur.cost -> t
                  [] cost = cur.cost ->
                        [t EXCEPT ![d].paths = @ \cup hops,
                                  ![d].origin = IF @ < v THEN v ELSE @]
                  [] cost < cur.cost ->
                        [t EXCEPT ![d] = [cost |-> cost, paths |-> hops, origin |-> v]]

(* The stub links of v and then of its children, depth first; done are the  *)
(* vertices flagged OSPF_VERTEX_PROCESSED.                                  *)
RECURSIVE ospf_spf_process_stubs(_, _, _, _)
ospf_spf_process_stubs(s, r, v, parent_is_root) ==
    LET stubs == SelectSeq([i \in DOMAIN Links(v) |-> i],
                           LAMBDA i : Links(v)[i].type = "stub")
        below == v = Root \/ (v \notin Routers /\ parent_is_root)
        visit(x, c) ==
            IF c \in x.done THEN x
            ELSE [ospf_spf_process_stubs(s, x, c, below) EXCEPT !.done = @ \cup {c}]
    IN  FoldLeft(visit,
                 [r EXCEPT !.table = FoldLeft(
                     LAMBDA t, i : ospf_intra_add_stub(s, t, v, i, parent_is_root), @, stubs)],
                 s.children[v])

(* Routes without a path do not stay. *)
ospf_prune_unreachable_networks(t) ==
    [d \in Destinations |-> IF t[d].paths = {} THEN NoRoute ELSE t[d]]

-----------------------------------------------------------------------------
NoRoutes == [d \in Destinations |-> NoRoute]
NoRtrs   == [r \in Routers |-> NoRoute]

Init == TreeInit /\ table = NoRoutes /\ rtrs = NoRtrs

(* A calculation that returns early installs empty tables; one that starts   *)
(* begins with them.                                                         *)
nothing    == calculate_nothing /\ table' = NoRoutes /\ rtrs' = NoRtrs
start(db)  == calculate_start(db) /\ table' = NoRoutes /\ rtrs' = NoRtrs
free       == calculate_free /\ table' = NoRoutes /\ rtrs' = NoRtrs
replace    == inject /\ UNCHANGED <<table, rtrs>>

(* The vertex that joins the tree gets its route. *)
turn(s) ==
    LET v == s.array[0]
    IN  /\ calculate_turn(s)
        /\ rtrs' = IF v \in Routers THEN ospf_intra_add_router(s, rtrs, v) ELSE rtrs
        /\ table' = IF v \in Routers THEN table ELSE ospf_intra_add_transit(s, table, v)

(* The second stage. *)
end(s) ==
    LET r == ospf_spf_process_stubs(s, [table |-> table, done |-> {}], Root, FALSE)
    IN  /\ calculate_end(s)
        /\ table' = ospf_prune_unreachable_networks(r.table)
        /\ UNCHANGED rtrs

next ==
    /\ phase = "loop"
    /\ \E s \in {ospf_spf_next(spf, vertex)} : turn(s) \/ end(s)

Next == nothing \/ (\E db \in Contents : start(db)) \/ next \/ free \/ replace

Spec == Init /\ [][Next]_vars

-----------------------------------------------------------------------------
(* What the tree contributes to a destination: the network with the greatest *)
(* id among the nearest ones that have its prefix, and stub links.           *)
Offers(d, hops, p) ==
    LET nets  == {v \in Networks : lsdb[v].prefix = p /\ v \in DOMAIN d}
        near  == {v \in nets : \A u \in nets : d[v] <= d[u]}
        stubs == {<<v, i>> \in UNION {{v} \X DOMAIN Links(v) : v \in Routers} :
                    v \in DOMAIN d /\ Links(v)[i].type = "stub" /\ Links(v)[i].id = p}
    IN  {<<d[v], Of(hops, v)>> : v \in {v \in near : v = Max(near)}}
        \cup {<<d[a[1]] + Cost(a),
                IF a[1] # Root THEN Of(hops, a[1])
                ELSE IF Links(Root)[a[2]].hop THEN {<<a[2], NoAddr>>} ELSE {}>> : a \in stubs}

(* A stub link of the router itself to a destination that has a network-LSA  *)
(* or a second such link: ospf_intra_add_stub leaves its interface out.      *)
Contested(d, p) ==
    LET own == {i \in DOMAIN Links(Root) : Links(Root)[i].type = "stub" /\ Links(Root)[i].id = p}
    IN  \/ Cardinality(own) > 1
        \/ own # {} /\ \E v \in Networks : lsdb[v].prefix = p /\ v \in DOMAIN d

-----------------------------------------------------------------------------
(* The route to a destination has the least cost any vertex or stub link     *)
(* offers, and the next hops of all that offer it; border routers have one,  *)
(* with their vertex's hops.                                                 *)
RoutesAreBest ==
    Done => LET d == Distances
                hops == AllHops(d)
            IN  /\ \A p \in Destinations \ OwnHosts :
                      LET offers == Offers(d, hops, p)
                          best == {o \in offers : \A x \in offers : o[1] <= x[1]}
                          paths == UNION {o[2] : o \in best}
                      IN  ~Contested(d, p) =>
                            IF paths = {} THEN table[p] = NoRoute
                            ELSE table[p].paths = paths /\ \A o \in best : table[p].cost = o[1]
                /\ \A r \in Routers \ {Root} :
                      IF lsdb[r].border /\ r \in DOMAIN d
                      THEN rtrs[r] = [cost |-> d[r], paths |-> Of(hops, r), origin |-> r]
                      ELSE rtrs[r] = NoRoute
=============================================================================
