------------------------------ MODULE SpfTree -------------------------------
(***************************************************************************)
(* The first stage of the shortest-path calculation of one area:           *)
(* ospf_spf_calculate with its loop over ospf_spf_next and the candidate   *)
(* queue, the pluglet of plugins/ospf_spf_next.c that may stand in for     *)
(* ospf_spf_next, and the pluglets that measure the calculation            *)
(* (plugins/spf_time.c, plugins/spf_time_post.c).  SpfRoutes adds the      *)
(* routes to it.                                                           *)
(*                                                                         *)
(* A vertex is named by the link state id of its LSA.  A hop is an         *)
(* outgoing interface, named by the position of its link in the router's   *)
(* own LSA, and the address of the router behind it: <<w, i>> is the       *)
(* address w announces in its link i, <<w, 0>> the one its hellos come     *)
(* from, NoAddr none.                                                      *)
(***************************************************************************)
EXTENDS Integers, FiniteSets, Sequences, FiniteSetsExt

CONSTANTS
    Routers, Networks,  \* link state ids of router- and network-LSAs
    Root,               \* the calculating router
    Destinations,       \* destinations of the routing table, ids of stub links
    Databases,          \* contents of the area's database in the first calculation
    Later,              \* and in the calculations after that
    HeaderLen, LinkLen, LengthMod, \* LSA lengths, and where uint8_t wraps
    PlugletBlocks,      \* blocks the heap of the pluglet holds
    Starts              \* start times the heap of the measuring pluglets holds

Vertices == Routers \cup Networks

LinkRecords == [type : {"p2p", "transit", "stub", "attached"},
                id : Vertices \cup Destinations, metric : Nat, hop : BOOLEAN]

(* A point-to-point link leads to a router, a transit link to a network, and *)
(* the links of a network to the attached routers.                           *)
WellFormed(db) ==
    \A v \in Vertices :
        /\ db[v].links \in Seq(LinkRecords)
        /\ \A i \in DOMAIN db[v].links :
              LET l == db[v].links[i]
              IN  IF v \in Networks
                  THEN l.type = "attached" /\ l.id \in Routers
                  ELSE \/ l.type = "stub"
                       \/ l.type = "p2p" /\ l.id \in Routers
                       \/ l.type = "transit" /\ l.id \in Networks

ASSUME SpfTreeConstants ==
    /\ IsFiniteSet(Routers) /\ IsFiniteSet(Networks)
    /\ Root \in Routers
    /\ Routers \cap Networks = {}
    /\ PlugletBlocks \in Nat /\ Starts \in Nat \ {0}
    /\ \A db \in Databases \cup Later : WellFormed(db)

(* Interfaces have an output cost of 1 at least (ospf_if_get_output_cost). *)
ASSUME PositiveCosts ==
    \A db \in Databases \cup Later, v \in Routers :
        \A i \in DOMAIN db[v].links :
            db[v].links[i].type # "stub" => db[v].links[i].metric > 0

LSA_SPF_NOT_EXPLORED == -1
LSA_SPF_IN_SPFTREE   == -2

NoAddr  == <<0, 0>>

VARIABLES
    lsdb,      \* lsdb[v]: the LSA of v: whether it is there, MaxAge, its links,
               \* its type 13 LSA and the ids that colours red, a border router, its prefix
    phase,     \* "idle", "loop" or "done"
    vertex,    \* v of ospf_spf_calculate
    spf,       \* candidate->array, stat, and each vertex's distance, parents, children;
               \* the pluglet's free blocks (room) and whether it always returned 1 (whole)
    rep,       \* the pluglet replaces ospf_spf_next
    pruned,    \* vertices examined by the pluglet in this calculation
    started,   \* the blocks spf_time allocates, in address order
    measured,  \* what spf_time_post sent last: "none", "right" or "wrong"
    early      \* a calculation returned early since

treeVars == <<lsdb, phase, vertex, spf, rep, pruned, started, measured, early>>

-----------------------------------------------------------------------------
(* The candidate queue *)

(* Seeded fault: the type of a vertex does not matter. *)
cmp_by_distance(q, a, b) == q.dist[a] - q.dist[b]

(* Networks go before routers at the same distance. *)
cmp(q, a, b) ==
    IF q.dist[a] = q.dist[b] /\ (a \in Networks) # (b \in Networks)
    THEN IF a \in Networks THEN -1 ELSE 1
    ELSE q.dist[a] - q.dist[b]

INSTANCE Pqueue WITH cmp <- cmp

-----------------------------------------------------------------------------
(* Links *)

Links(v) == lsdb[v].links

(* The links of v, a router, to the network w. *)
LinksTo(v, w) == {i \in DOMAIN Links(v) : Links(v)[i].type = "transit" /\ Links(v)[i].id = w}

(* An attached router of a network, a point-to-point link to a router or a *)
(* transit link to a network.                                              *)
ospf_lsa_has_link(w, v) ==
    \E i \in DOMAIN Links(w) :
        /\ Links(w)[i].id = v
        /\ Links(w)[i].type = CASE w \in Networks -> "attached"
                                [] v \in Networks -> "transit"
                                [] OTHER          -> "p2p"

-----------------------------------------------------------------------------
(* Next hops *)

(* The hops of w through v.  From the root, link i must have an interface,  *)
(* and a neighbour or an address on it if it is to a router.  Behind a      *)
(* network next to the root they are the addresses w has on that network;   *)
(* behind anything else they are those of v.                                *)
Hops(s, v, i, w) ==
    LET direct == {p \in s.parents[v] : p.parent = Root}
        onLink == {<<p.hop[1], <<w, j>>>> : p \in direct, j \in LinksTo(w, v)}
    IN  CASE v = Root -> IF Links(v)[i].hop
                         THEN {<<i, IF w \in Routers THEN <<w, 0>> ELSE NoAddr>>}
                         ELSE {}
          [] v # Root /\ v \in Networks /\ onLink # {} -> onLink
          [] OTHER -> {p.hop : p \in s.parents[v]}

(* With ospf_spf_add_parent for each of the hops: a shorter distance flushes *)
(* the parents, and a hop that is there already adds none.  dist is 0 as     *)
(* long as no distance is assigned.                                          *)
ospf_nexthop_calculation(s, v, i, w, distance) ==
    LET hops == Hops(s, v, i, w)
        kept == IF distance = s.dist[w] THEN s.parents[w] ELSE {}
    IN  IF hops = {} THEN s
        ELSE [s EXCEPT
                !.dist[w] = distance,
                !.parents[w] = kept \cup {[parent |-> v, hop |-> h] :
                                             h \in hops \ {p.hop : p \in kept}}]

-----------------------------------------------------------------------------
(* ospf_spf_next *)

(* The candidate list and the tree after link i of v is found to lead to w. *)
Relax(s, v, i, w) ==
    LET distance == s.dist[v] + IF v \in Routers THEN Links(v)[i].metric ELSE 0
        reached  == ospf_nexthop_calculation(s, v, i, w, distance)
    IN  IF Hops(s, v, i, w) = {} \/ s.stat[w] = LSA_SPF_IN_SPFTREE THEN s
        ELSE CASE s.stat[w] = LSA_SPF_NOT_EXPLORED -> pqueue_enqueue(w, reached)
               [] s.stat[w] >= 0 /\ s.dist[w] < distance -> s
               [] s.stat[w] >= 0 /\ s.dist[w] = distance -> reached
               [] s.stat[w] >= 0 /\ s.dist[w] > distance -> trickle_up(s.stat[w], reached)

(* Seeded fault: MaxAge LSAs are followed. *)
examine_link_old(s, v, i) ==
    LET l == Links(v)[i]
    IN  IF l.type = "stub" \/ ~lsdb[l.id].here \/ ~ospf_lsa_has_link(l.id, v)
        THEN s ELSE Relax(s, v, i, l.id)

(* One turn of the loop over the links of v. *)
examine_link(s, v, i) ==
    LET l == Links(v)[i]
    IN  IF \/ l.type = "stub"
           \/ ~lsdb[l.id].here
           \/ lsdb[l.id].maxage
           \/ ~ospf_lsa_has_link(l.id, v)
        THEN s ELSE Relax(s, v, i, l.id)

-----------------------------------------------------------------------------
(* The pluglet.  It works on copies in its own heap, here blocks of one     *)
(* size; it holds two, of v and of its LSA, during the loop.  When there is *)
(* no room for a copy it returns 0 and frees nothing.                       *)

(* The pluglet needs a total of n blocks, the last for a plugin_realloc,    *)
(* which gives the old block back even when there is no room for a new one. *)
OutOfRoom(s, n) == [s EXCEPT !.whole = FALSE, !.room = IF s.room = n - 1 THEN 1 ELSE 0]

(* The links the pluglet gets to see: it cuts the length to eight bits. *)
Visible(v) ==
    LET n == Len(Links(v))
    IN  {i \in 1..n : HeaderLen + (i - 1) * LinkLen < (HeaderLen + n * LinkLen) % LengthMod}

(* Seeded fault: the copy of a candidate is never freed. *)
examine_copies_leak(s, v, i) ==
    LET w == Links(v)[i].id
    IN  CASE s.room < 4 \/ (s.stat[w] >= 0 /\ s.room < 5) ->
                [s EXCEPT !.whole = FALSE, !.room = 0]
          [] s.stat[w] >= 0 /\ s.room >= 5 -> Relax([s EXCEPT !.room = @ - 1], v, i, w)
          [] OTHER -> Relax(s, v, i, w)

(* Link i of v leads to w, whose LSA is copied, and then its vertex if it    *)
(* is a candidate.  That copy is only freed unless the candidate is nearer.  *)
examine_copies(s, v, i) ==
    LET w == Links(v)[i].id
        distance == s.dist[v] + IF v \in Routers THEN Links(v)[i].metric ELSE 0
        seen == ospf_lsa_has_link(w, v)
    IN  CASE s.room < 4 \/ (seen /\ s.stat[w] >= 0 /\ s.room < 5) ->
                [s EXCEPT !.whole = FALSE, !.room = 0]
          [] s.room >= 4 /\ ~seen -> s
          [] s.room >= 5 /\ seen /\ s.stat[w] >= 0 /\ s.dist[w] < distance ->
                [s EXCEPT !.room = @ - 1]
          [] OTHER -> Relax(s, v, i, w)

(* One turn of the loop of the pluglet.  The LSA of type 13 is copied, and   *)
(* the copy of it made larger, for every link of a router.  Its test for     *)
(* MaxAge compares the age in network byte order with MaxAge: it never holds.*)
examine_link_rep(s, v, i) ==
    LET l == Links(v)[i]
    IN  IF ~s.whole \/ i \notin Visible(v) THEN s
        ELSE IF v \in Routers /\ lsdb[v].coloured /\ s.room < 5 THEN OutOfRoom(s, 5)
        ELSE IF \/ v \in Routers /\ l.id \in lsdb[v].red
                \/ l.type = "stub"
                \/ ~lsdb[l.id].here
             THEN s ELSE examine_copies(s, v, i)

(* The links of v in order. *)
examine_links(s, v) ==
    LET after[i \in 0..Len(Links(v))] ==
            IF i = 0 THEN s ELSE examine_link(after[i - 1], v, i)
    IN  after[Len(Links(v))]

examine_links_rep(s, v) ==
    LET after[i \in 0..Len(Links(v))] ==
            IF i = 0 THEN [s EXCEPT !.whole = TRUE] ELSE examine_link_rep(after[i - 1], v, i)
    IN  after[Len(Links(v))]

ospf_spf_next(s, v) ==
    CASE ~rep -> examine_links(s, v)
      [] rep /\ s.room < 3 -> OutOfRoom(s, 3)
      [] rep /\ s.room >= 3 -> [examine_links_rep(s, v) EXCEPT !.whole = @ /\ s.whole]

NextHops(s, v) == {p.hop : p \in s.parents[v]}

-----------------------------------------------------------------------------
NoLsas == [v \in Vertices |-> [here |-> FALSE, maxage |-> FALSE, links |-> <<>>,
                              coloured |-> FALSE, red |-> {}, border |-> FALSE,
                              prefix |-> 0]]

(* ospf_lsdb_clean_stat and ospf_spf_init *)
Unexplored(room) ==
    [array    |-> [i \in {} |-> 0],
     stat     |-> [v \in Vertices |-> LSA_SPF_NOT_EXPLORED],
     dist     |-> [v \in Vertices |-> 0],
     parents  |-> [v \in Vertices |-> {}],
     children |-> [v \in Vertices |-> <<>>],
     room     |-> room,
     whole    |-> TRUE]

TreeInit ==
    /\ lsdb = NoLsas
    /\ phase = "idle"
    /\ vertex = Root
    /\ spf = Unexplored(PlugletBlocks)
    /\ rep = FALSE
    /\ pruned = {}
    /\ started = [i \in 1..Starts |-> "free"]
    /\ measured = "none"
    /\ early = FALSE

(* spf_time: the time is stored in the first block with room. *)
spf_time ==
    LET aged == [i \in 1..Starts |-> IF started[i] = "free" THEN "free" ELSE "stale"]
        free == {i \in 1..Starts : started[i] = "free"}
    IN  IF free = {} THEN aged ELSE [aged EXCEPT ![Min(free)] = "fresh"]

(* The timer finds no router-LSA of the router itself: the pluglets that end *)
(* the measurement do not run.                                               *)
calculate_nothing ==
    /\ phase = "idle"
    /\ started' = spf_time
    /\ early' = TRUE
    /\ UNCHANGED <<lsdb, phase, vertex, spf, rep, pruned, measured>>

(* The calculation starts, on any contents of the database. *)
calculate_start(db) ==
    /\ phase = "idle"
    /\ db[Root].here
    /\ lsdb' = db
    /\ phase' = "loop"
    /\ vertex' = Root
    /\ spf' = [Unexplored(spf.room) EXCEPT !.stat[Root] = LSA_SPF_IN_SPFTREE]
    /\ pruned' = {}
    /\ started' = spf_time
    /\ UNCHANGED <<rep, measured, early>>

(* One turn of the loop: v's links have been examined, and the nearest       *)
(* candidate joins the tree and the list of children of each of its parents. *)
calculate_turn(s) ==
    LET v == s.array[0]
        q == pqueue_dequeue(s)
        of == {p.parent : p \in s.parents[v]}
    IN  /\ size(s) > 0
        /\ vertex' = v
        /\ spf' = [q EXCEPT !.stat[v] = LSA_SPF_IN_SPFTREE,
                            !.children = [u \in Vertices |->
                                IF u \in of THEN Append(@[u], v) ELSE @[u]]]
        /\ pruned' = IF rep THEN pruned \cup {vertex} ELSE pruned
        /\ UNCHANGED <<lsdb, phase, rep, started, measured, early>>

(* Seeded fault: the block is not freed. *)
spf_time_post_keep ==
    LET used == {i \in 1..Starts : started[i] # "free"}
    IN  /\ measured' = IF started[Min(used)] = "fresh" THEN "right" ELSE "wrong"
        /\ started' = started

(* spf_time_post: the first block is read, whenever it was stored, and freed. *)
spf_time_post ==
    LET used == {i \in 1..Starts : started[i] # "free"}
    IN  /\ measured' = IF started[Min(used)] = "fresh" THEN "right" ELSE "wrong"
        /\ started' = [started EXCEPT ![Min(used)] = "free"]

(* No candidate is left: the end of the first stage, and of the timer. *)
calculate_end(s) ==
    /\ size(s) = 0
    /\ phase' = "done"
    /\ spf' = s
    /\ spf_time_post
    /\ early' = FALSE
    /\ pruned' = IF rep THEN pruned \cup {vertex} ELSE pruned
    /\ UNCHANGED <<lsdb, vertex, rep>>

(* The loop of ospf_spf_calculate, after ospf_spf_next has left s. *)
calculate_next ==
    /\ phase = "loop"
    /\ \E s \in {ospf_spf_next(spf, vertex)} : calculate_turn(s) \/ calculate_end(s)

(* The queue and the vertices are freed; the database changes until the next *)
(* calculation.                                                              *)
calculate_free ==
    /\ phase = "done"
    /\ phase' = "idle"
    /\ lsdb' = NoLsas
    /\ vertex' = Root
    /\ spf' = Unexplored(spf.room)
    /\ pruned' = {}
    /\ UNCHANGED <<rep, started, measured, early>>

(* The thread that receives pluglets puts the pluglet in place, at any time; *)
(* ospf_spf_next looks for it at every call.                                 *)
inject ==
    /\ ~rep
    /\ rep' = TRUE
    /\ UNCHANGED <<lsdb, phase, vertex, spf, pruned, started, measured, early>>

Contents == IF measured = "none" /\ ~early THEN Databases ELSE Later

TreeNext ==
    \/ calculate_nothing
    \/ \E db \in Contents : calculate_start(db)
    \/ calculate_next
    \/ calculate_free
    \/ inject

TreeSpec == TreeInit /\ [][TreeNext]_treeVars

-----------------------------------------------------------------------------
(* Reference: shortest paths over the links that count *)

(* Link i of v counts: it leads to an LSA that links back, that is not       *)
(* MaxAge and, from the root, where a next hop is known.  The pluglet leaves *)
(* out red links and those it does not see, but not MaxAge LSAs.             *)
Counts(v, i) ==
    LET l == Links(v)[i]
    IN  /\ l.type # "stub"
        /\ lsdb[l.id].here
        /\ ospf_lsa_has_link(l.id, v)
        /\ v = Root => l.hop
        /\ IF v \in pruned
           THEN i \in Visible(v) /\ (v \in Routers => l.id \notin lsdb[v].red)
           ELSE ~lsdb[l.id].maxage

Arcs == {a \in UNION {{v} \X DOMAIN Links(v) : v \in Vertices} : Counts(a[1], a[2])}

Head2(a) == Links(a[1])[a[2]].id
Cost(a)  == IF a[1] \in Routers THEN Links(a[1])[a[2]].metric ELSE 0

(* <<v, c>> for each v within so many arcs of the root, at the least cost c. *)
Reached ==
    LET arcs == Arcs
        within[n \in 0..Cardinality(Vertices)] ==
            IF n = 0 THEN {<<Root, 0>>}
            ELSE LET near == within[n - 1]
                     all  == near \cup {<<Head2(x[2]), x[1][2] + Cost(x[2])>> :
                                x \in {y \in near \X arcs : y[1][1] = y[2][1]}}
                 IN  {x \in all : \A y \in all : y[1] = x[1] => x[2] <= y[2]}
    IN  within[Cardinality(Vertices)]

(* The distance of each vertex that can be reached. *)
Distances ==
    LET reached == Reached
    IN  [v \in {x[1] : x \in reached} |-> (CHOOSE x \in reached : x[1] = v)[2]]

(* Arcs that end a shortest path. *)
Shortest(d) ==
    {a \in Arcs : a[1] \in DOMAIN d /\ Head2(a) # Root /\ d[a[1]] + Cost(a) = d[Head2(a)]}

(* <<w, h>> for each hop h of w, over all the arcs that end a shortest path  *)
(* to w: from the root, from a network next to the root, or inherited.       *)
AllHops(d) ==
    LET arcs   == Shortest(d)
        nextTo == {a \in arcs : a[1] = Root}
        onLan  == {x \in nextTo \X arcs : Head2(x[1]) = x[2][1] /\ x[2][1] \in Networks}
        direct == {<<Head2(a), <<a[2], IF Head2(a) \in Routers THEN <<Head2(a), 0>> ELSE NoAddr>>>> :
                       a \in nextTo}
                  \cup UNION {{<<Head2(x[2]), <<x[1][2], <<Head2(x[2]), j>>>>>> :
                                 j \in LinksTo(Head2(x[2]), x[2][1])} : x \in onLan}
        behind == arcs \ (nextTo \cup {x[2] : x \in onLan})
        hops[n \in 0..Cardinality(Vertices)] ==
            IF n = 0 THEN direct
            ELSE LET h == hops[n - 1]
                 IN  h \cup {<<Head2(x[1]), x[2][2]>> :
                                x \in {y \in behind \X h : y[1][1] = y[2][1]}}
    IN  hops[Cardinality(Vertices)]

Of(pairs, v) == {x[2] : x \in {y \in pairs : y[1] = v}}

Done == phase = "done" /\ spf.whole

-----------------------------------------------------------------------------
(* Properties *)

(* The position each candidate's LSA has in stat, with which ospf_spf_next   *)
(* finds it and calls trickle_up, is where the queue has it, at every turn;  *)
(* exactly the candidates have one; and none goes before its parent.         *)
QueueIndexed ==
    /\ \A v \in Vertices : spf.stat[v] >= 0 <=> \E i \in DOMAIN spf.array : spf.array[i] = v
    /\ \A i \in DOMAIN spf.array : spf.stat[spf.array[i]] = i
    /\ \A i \in DOMAIN spf.array \ {0} : cmp(spf, spf.array[PARENT_OF(i)], spf.array[i]) <= 0

(* When ospf_spf_calculate ends, the vertices on the tree are those that can *)
(* be reached, each at its shortest distance, also when the pluglet comes in *)
(* halfway and only the vertices after that are pruned.                      *)
TreeIsShortest ==
    Done => LET d == Distances
            IN  \A v \in Vertices :
                    IF v \in DOMAIN d
                    THEN spf.stat[v] = LSA_SPF_IN_SPFTREE /\ spf.dist[v] = d[v]
                    ELSE spf.stat[v] = LSA_SPF_NOT_EXPLORED

(* Each vertex has the hops of all its shortest paths: none is missed        *)
(* because a network at the same distance was examined after a router that   *)
(* is also behind it, and none of a longer path is left.                     *)
AllShortestHops ==
    Done => LET d == Distances
                hops == AllHops(d)
            IN  \A v \in DOMAIN d \ {Root} : NextHops(spf, v) = Of(hops, v)

(* The pluglet gives back every block it takes, in a calculation where it    *)
(* never finds a candidate nearer than the link it looks at leads.           *)
PlugletFreesCopies ==
    [][phase = "loop" /\ rep /\ spf'.whole /\ spf'.room # spf.room =>
         \E i \in DOMAIN Links(vertex) :
            LET w == Links(vertex)[i].id
            IN  /\ w \in Vertices
                /\ spf.stat[w] # LSA_SPF_IN_SPFTREE
                /\ spf'.dist[w] < spf.dist[vertex] +
                        IF vertex \in Routers THEN Links(vertex)[i].metric ELSE 0]_treeVars

(* spf_time_post measures from the start of another calculation at most once *)
(* after calculations that returned early and left their start time behind.  *)
MeasuresRecover ==
    [][phase = "loop" /\ phase' = "done" /\ measured' = "wrong" => early]_treeVars
=============================================================================
