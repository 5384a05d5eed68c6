------------------------------- MODULE OwnLsas -------------------------------
(***************************************************************************)
(* The life of the LSAs a router originates itself: origination, refresh,  *)
(* flushing and removal (ospf_lsa.c), instances of an earlier life that    *)
(* come back from a neighbour (ospf_flood.c), and the state changes of the *)
(* interface and of the neighbour that cause them (ospf_ism.c, ospf_nsm.c).*)
(*                                                                         *)
(* The router has one broadcast interface and one neighbour on it, which   *)
(* runs the same code; of the neighbour there are its copies of the LSAs.  *)
(* Both ends change the state of the adjacency together.  The exchange of  *)
(* descriptions and requests, which Adjacency models, is reduced to what   *)
(* it achieves: in state Exchange each side may get what the other has     *)
(* and it lacks.  A handler and the events it schedules are one step.      *)
(* Packets carry the LSAs that were queued for sending together; they stay *)
(* in order on the link, may be late, and may be lost.                     *)
(*                                                                         *)
(* Of an LSA there are its sequence number, its age, 0 or MaxAge, and its  *)
(* body, a number in the order of the checksums.                           *)
(***************************************************************************)
EXTENDS Integers, Sequences, FiniteSets

CONSTANTS
    StaleSeqs,      \* sequence numbers of instances of an earlier life
    StaleBodies,    \* their bodies
    StaleKeys,      \* sets of LSAs of which the neighbour holds such instances
    MaxChanges,     \* bound on state changes, refreshes and adjacencies lost
    MaxLosses,      \* bound on packets lost
    MaxQueue        \* packets under way when LSAs are requested or sent again

Router  == "router-LSA"
Network == "network-LSA"
Keys    == {Router, Network}

OSPF_INITIAL_SEQUENCE_NUMBER == 1
OSPF_LSA_MAXAGE == 1

Instance(s, a, b) == [seq |-> s, age |-> a, body |-> b]
NoLSA == Instance(0, 0, 0)

ASSUME OwnLsasConstants ==
    /\ StaleSeqs \subseteq Nat \ {0} /\ IsFiniteSet(StaleSeqs)
    /\ StaleBodies \subseteq Nat
    /\ MaxChanges \in Nat /\ MaxLosses \in Nat /\ MaxQueue \in Nat \ {0}

VARIABLES
    state,      \* of the interface: "DR", or "Other" when the neighbour is DR
    nbr,        \* of the neighbour: "Down" (below Exchange), "Exchange", "Full"
    router,     \* the router, see below
    peer,       \* the neighbour's copies of the LSAs
    fresh,      \* those the neighbour received less than MinLSArrival ago
    toPeer,     \* packets on their way to the neighbour
    toUs,       \* packets on their way back
    raced,      \* the refresh walker has met an LSA that is being flushed
    mine,       \* the highest sequence number used for each LSA so far
    changes,    \* state changes, refreshes and adjacencies lost so far
    losses      \* packets lost so far

vars == <<state, nbr, router, peer, fresh, toPeer, toUs, raced, mine, changes, losses>>

(* router.lsdb      the area's database                                      *)
(* router.received  the LSAs with OSPF_LSA_RECEIVED set                      *)
(* router.refresh   the LSAs in the refresh queue                            *)
(* router.rxmt      the LSAs the neighbour has not acknowledged              *)
(* router.recent    the LSAs younger than MinLSArrival                       *)
(* router.self      network_lsa_self: "none", the router's own network-LSA,  *)
(*                  or "stray", one made under the address of another DR     *)
(* router.seqnum    network_lsa_seqnum of the interface's parameters, 0 when *)
(*                  it has none                                              *)

(* A packet of the LSAs of db with the keys ks, queued behind q. *)
Send(q, type, ks, db) ==
    IF ks = {}
    THEN q
    ELSE Append(q, [type |-> type,
                    lsas |-> [k \in Keys |-> IF k \in ks THEN db[k] ELSE NoLSA]])

Carried(lsas) == {k \in Keys : lsas[k] # NoLSA}

IsMaxAge(lsa) == lsa.age = OSPF_LSA_MAXAGE

(* ospf_lsa_more_recent(a, b) > 0 *)
more_recent(a, b) ==
    /\ a # NoLSA
    /\ \/ a.seq > b.seq
       \/ a.seq = b.seq /\ a.body > b.body
       \/ a.seq = b.seq /\ a.body = b.body /\ a.age > b.age

(* The router-LSA shows a transit link when the neighbour is Full, else a stub. *)
RouterBody(n) == IF n = "Full" THEN 2 ELSE 1
NetworkBody == 1

-----------------------------------------------------------------------------
(* Functions of the router: from a router, and what else the code looks at, *)
(* to the router afterwards; sent are the LSAs it has queued for sending.   *)

(* ospf_lsa_install with what it calls: the old instance leaves the refresh  *)
(* queue and the retransmission list, and an instance that was not received  *)
(* becomes the router's own.                                                 *)
ospf_lsa_install(r, k, lsa, isReceived) ==
    [r EXCEPT !.lsdb[k]   = lsa,
              !.received  = IF isReceived THEN @ \cup {k} ELSE @ \ {k},
              !.refresh   = IF isReceived THEN @ \ {k} ELSE @ \cup {k},
              !.rxmt      = @ \ {k},
              !.recent    = @ \cup {k},
              !.self      = IF k = Network /\ ~isReceived THEN "own" ELSE @]

(* A neighbour below Exchange takes no part in flooding; one that has just   *)
(* described a more recent instance is not sent this one.                    *)
ospf_flood_through_area(r, k, n) ==
    IF n = "Down" \/ (n = "Exchange" /\ more_recent(peer[k], r.lsdb[k]))
    THEN r
    ELSE [r EXCEPT !.rxmt = @ \cup {k}, !.sent = @ \cup {k}]

originate(r, k, lsa, n) ==
    ospf_flood_through_area(ospf_lsa_install(r, k, lsa, FALSE), k, n)

(* Refresh, or first origination: the number after that of router_lsa_self. *)
ospf_router_lsa_update_area(r, n) ==
    originate(r, Router, Instance(r.lsdb[Router].seq + 1, 0, RouterBody(n)), n)

(* Seeded fault: the LSA leaves the refresh queue after it was replaced. *)
ospf_network_lsa_refresh_late(r, s, n) ==
    LET seq == r.lsdb[Network].seq + 1
        old == [r EXCEPT !.rxmt = @ \ {Network}, !.refresh = @ \ {Network}]
        new == originate([r EXCEPT !.seqnum = seq], Network,
                         Instance(seq, 0, NetworkBody), n)
    IN  CASE n # "Full"               -> old
          [] n = "Full" /\ s = "DR"   -> [new EXCEPT !.refresh = @ \ {Network}]
          [] n = "Full" /\ s # "DR"   -> [old EXCEPT !.self = "stray", !.seqnum = seq]

(* Nothing here asks whether the interface is DR: if it is not, the new LSA  *)
(* carries the address of the router that is.                                *)
ospf_network_lsa_refresh(r, s, n) ==
    LET seq == r.lsdb[Network].seq + 1
        old == [r EXCEPT !.rxmt = @ \ {Network}, !.refresh = @ \ {Network}]
        new == [old EXCEPT !.seqnum = seq]
    IN  CASE n # "Full"               -> old
          [] n = "Full" /\ s = "DR"   ->
             originate(new, Network, Instance(seq, 0, NetworkBody), n)
          [] n = "Full" /\ s # "DR"   -> [new EXCEPT !.self = "stray"]

(* Seeded fault: forgets the numbers used before. *)
ospf_network_lsa_new_forgetful(r, n) ==
    originate([r EXCEPT !.seqnum = OSPF_INITIAL_SEQUENCE_NUMBER], Network,
              Instance(OSPF_INITIAL_SEQUENCE_NUMBER, 0, NetworkBody), n)

(* A new network-LSA continues after the last number used on the interface. *)
ospf_network_lsa_new(r, n) ==
    originate([r EXCEPT !.seqnum = @ + 1], Network,
              Instance(r.seqnum + 1, 0, NetworkBody), n)

(* A stray LSA is under no address of this router: its refresh does nothing. *)
ospf_network_lsa_update(r, s, n) ==
    CASE r.self = "own"   -> ospf_network_lsa_refresh(r, s, n)
      [] r.self = "stray" -> r
      [] r.self = "none"  -> IF n = "Full" THEN ospf_network_lsa_new(r, n) ELSE r

(* The LSA ages in place; it stays in the refresh queue. *)
ospf_lsa_flush_area(r, k, n) ==
    ospf_flood_through_area(
        [r EXCEPT !.lsdb[k].age = OSPF_LSA_MAXAGE, !.recent = @ \cup {k}], k, n)

(* Seeded fault: the flushed LSA is still network_lsa_self. *)
flush_network_self_keep(r, n) ==
    IF r.self = "own" THEN ospf_lsa_flush_area(r, Network, n) ELSE r

(* network_lsa_self is flushed, if there is one, and forgotten. *)
flush_network_self(r, n) ==
    IF r.self = "own"
    THEN [ospf_lsa_flush_area(r, Network, n) EXCEPT !.self = "none"]
    ELSE [r EXCEPT !.self = "none"]

(* An own instance came back: it is outdone, or flushed if it should not be. *)
ospf_process_self_originated_lsa(r, k, s, n) ==
    CASE k = Router                -> ospf_router_lsa_update_area(r, n)
      [] k = Network /\ s = "DR"   -> ospf_network_lsa_update(r, s, n)
      [] k = Network /\ s # "DR"   -> ospf_lsa_flush_area(r, k, n)

(* An instance received less than MinLSArrival ago is not replaced, unless   *)
(* it is the first this router made.                                         *)
TooSoon(r, k) ==
    /\ r.lsdb[k] # NoLSA /\ k \in r.recent
    /\ ~(r.lsdb[k].age = 0 /\ r.lsdb[k].seq = OSPF_INITIAL_SEQUENCE_NUMBER)

ospf_flood(r, k, lsa, s, n) ==
    IF TooSoon(r, k)
    THEN r
    ELSE ospf_process_self_originated_lsa(ospf_lsa_install(r, k, lsa, TRUE), k, s, n)

(* Seeded fault: an update that answers a request of Exchange is dropped. *)
ospf_ls_upd_full(r, k, lsa, s, n) ==
    LET current == r.lsdb[k]
    IN  CASE n # "Full" \/ (IsMaxAge(lsa) /\ current = NoLSA) -> r
          [] OTHER ->
             CASE more_recent(lsa, current) -> ospf_flood(r, k, lsa, s, n)
               [] lsa = current             -> [r EXCEPT !.rxmt = @ \ {k}]
               [] OTHER                     ->
                    IF k \in r.recent
                    THEN r
                    ELSE [r EXCEPT !.sent = @ \cup {k}]

(* An update from the neighbour, compared with the copy in the database. *)
ospf_ls_upd(r, k, lsa, s, n) ==
    LET current == r.lsdb[k]
    IN  CASE n = "Down" \/ (IsMaxAge(lsa) /\ current = NoLSA /\ n # "Exchange") -> r
          [] OTHER ->
             CASE more_recent(lsa, current) -> ospf_flood(r, k, lsa, s, n)
               [] lsa = current             -> [r EXCEPT !.rxmt = @ \ {k}]
               [] OTHER                     ->
                    IF k \in r.recent
                    THEN r
                    ELSE [r EXCEPT !.sent = @ \cup {k}]

-----------------------------------------------------------------------------
(* The interface has come up: the router-LSA is there, the neighbour is not, *)
(* and may still hold what the router originated before it restarted.        *)
Init ==
    /\ state \in {"DR", "Other"}
    /\ nbr = "Down"
    /\ router = [lsdb     |-> [k \in Keys |->
                               IF k = Router
                               THEN Instance(OSPF_INITIAL_SEQUENCE_NUMBER, 0,
                                             RouterBody("Down"))
                               ELSE NoLSA],
                 received |-> {}, refresh |-> {Router}, rxmt |-> {},
                 recent   |-> {Router}, self |-> "none", seqnum |-> 0, sent |-> {}]
    /\ peer \in [Keys -> {Instance(s, 0, b) : s \in StaleSeqs, b \in StaleBodies}
                         \cup {NoLSA}]
    /\ {k \in Keys : peer[k] # NoLSA} \in StaleKeys
    /\ fresh = {} /\ toPeer = <<>> /\ toUs = <<>>
    /\ raced = FALSE
    /\ mine = [k \in Keys |-> IF k = Router THEN OSPF_INITIAL_SEQUENCE_NUMBER ELSE 0]
    /\ changes = 0 /\ losses = 0

(* The router is r afterwards, and what it sent is on its way. *)
Becomes(r) ==
    /\ router' = [r EXCEPT !.sent = {}]
    /\ toPeer' = Send(toPeer, "update", r.sent, r.lsdb)
    /\ mine' = [k \in Keys |->
                  IF k \in r.received \/ r.lsdb[k] = NoLSA \/ r.lsdb[k].seq < mine[k]
                  THEN mine[k] ELSE r.lsdb[k].seq]

Change == changes < MaxChanges /\ changes' = changes + 1

(* The election gives the role to the router or to the neighbour. *)
ism_change_state(s) ==
    /\ s # state /\ Change
    /\ state' = s
    /\ LET r == ospf_router_lsa_update_area(router, nbr)
       IN  Becomes(IF s = "DR" THEN ospf_network_lsa_update(r, s, nbr)
                               ELSE flush_network_self(r, nbr))
    /\ UNCHANGED <<nbr, peer, fresh, toUs, raced, losses>>

(* What a neighbour that becomes Full, or is Full no longer, changes. *)
full_changed(r, n) ==
    LET q == ospf_router_lsa_update_area(r, n)
    IN  IF state # "DR"
        THEN q
        ELSE IF n # "Full" /\ q.self # "none"
             THEN flush_network_self(q, n)
             ELSE ospf_network_lsa_update(q, state, n)

(* Exchange starts: LSAs being flushed are not described but sent. *)
nsm_negotiation_done ==
    /\ nbr = "Down"
    /\ nbr' = "Exchange"
    /\ Becomes([router EXCEPT
                  !.rxmt = {k \in Keys : IsMaxAge(router.lsdb[k])}])
    /\ UNCHANGED <<state, peer, fresh, toUs, raced, changes, losses>>

(* The LSAs of db that the router with the database other asks for. *)
Lacked(db, other) == {k \in Keys : more_recent(db[k], other[k]) /\ ~IsMaxAge(db[k])}

(* Each side has been given every LSA the other described and it lacked. *)
nsm_full ==
    /\ nbr = "Exchange"
    /\ Lacked(router.lsdb, peer) = {} /\ Lacked(peer, router.lsdb) = {}
    /\ nbr' = "Full"
    /\ Becomes(full_changed(router, "Full"))
    /\ UNCHANGED <<state, peer, fresh, toUs, raced, changes, losses>>

(* The adjacency is lost, and with it the retransmission list. *)
nsm_kill_nbr ==
    /\ nbr # "Down" /\ Change
    /\ nbr' = "Down"
    /\ LET r == IF nbr = "Full" THEN full_changed(router, "Down") ELSE router
       IN  Becomes([r EXCEPT !.rxmt = {}])
    /\ UNCHANGED <<state, peer, fresh, toUs, raced, losses>>

(* In Exchange the neighbour asks for what it lacks, and is asked; LSAs at   *)
(* MaxAge are not described.                                                 *)
ospf_ls_req ==
    LET ks == Lacked(router.lsdb, peer)
    IN  /\ nbr = "Exchange" /\ ks # {} /\ Len(toPeer \o toUs) < MaxQueue
        /\ toPeer' = Send(toPeer, "update", ks, router.lsdb)
        /\ UNCHANGED <<state, nbr, router, peer, fresh, toUs, raced, mine, changes, losses>>

peer_ls_req ==
    LET ks == Lacked(peer, router.lsdb)
    IN  /\ nbr = "Exchange" /\ ks # {} /\ Len(toPeer \o toUs) < MaxQueue
        /\ toUs' = Send(toUs, "update", ks, peer)
        /\ UNCHANGED <<state, nbr, router, peer, fresh, toPeer, raced, mine, changes, losses>>

receive_update ==
    /\ toUs # <<>> /\ Head(toUs).type = "update"
    /\ LET m == Head(toUs).lsas
           Take(r, k) == IF k \in Carried(m) THEN ospf_ls_upd(r, k, m[k], state, nbr) ELSE r
       IN  Becomes(Take(Take(router, Router), Network))
    /\ toUs' = Tail(toUs)
    /\ UNCHANGED <<state, nbr, peer, fresh, raced, changes, losses>>

ospf_ls_ack ==
    /\ toUs # <<>> /\ Head(toUs).type = "ack"
    /\ LET m == Head(toUs).lsas
           acked == {k \in Carried(m) : nbr # "Down" /\ m[k] = router.lsdb[k]}
       IN  Becomes([router EXCEPT !.rxmt = @ \ acked])
    /\ toUs' = Tail(toUs)
    /\ UNCHANGED <<state, nbr, peer, fresh, raced, changes, losses>>

(* The neighbour treats an update the same way, but the LSA is not its own:  *)
(* it is acknowledged and taken if new, or outdone by the neighbour's copy.  *)
peer_receive ==
    LET m        == Head(toPeer).lsas
        heard    == IF nbr = "Down" THEN {} ELSE Carried(m)
        known    == {k \in heard : \/ m[k] = peer[k]
                                   \/ IsMaxAge(m[k]) /\ peer[k] = NoLSA /\ nbr # "Exchange"}
        newer    == {k \in heard \ known : more_recent(m[k], peer[k])}
        taken    == {k \in newer : peer[k] = NoLSA \/ k \notin fresh}
        outdated == heard \ (known \cup newer \cup fresh)
    IN  /\ toPeer # <<>>
        /\ toPeer' = Tail(toPeer)
        /\ peer' = [k \in Keys |-> IF k \in taken THEN m[k] ELSE peer[k]]
        /\ fresh' = fresh \cup taken
        /\ toUs' = Send(Send(toUs, "update", outdated, peer), "ack", known \cup taken, m)
        /\ UNCHANGED <<state, nbr, router, raced, mine, changes, losses>>

(* LSAs older than RxmtInterval are sent again. *)
ospf_ls_upd_timer ==
    LET again == router.rxmt \ router.recent
    IN  /\ nbr # "Down" /\ again # {} /\ Len(toPeer \o toUs) < MaxQueue
        /\ toPeer' = Send(toPeer, "update", again, router.lsdb)
        /\ UNCHANGED <<state, nbr, router, peer, fresh, toUs, raced, mine, changes, losses>>

(* The turn of an LSA in the refresh queue has come. *)
ospf_lsa_refresh_walker(k) ==
    /\ k \in router.refresh /\ Change
    /\ LET r == [router EXCEPT !.refresh = @ \ {k}]
       IN  Becomes(IF k = Router THEN ospf_router_lsa_update_area(r, nbr)
                                 ELSE ospf_network_lsa_refresh(r, state, nbr))
    /\ raced' = (raced \/ (k = Network /\ IsMaxAge(router.lsdb[k])))
    /\ UNCHANGED <<state, nbr, peer, fresh, toUs, losses>>

(* LSAs being flushed that no neighbour still has to acknowledge. *)
Removable == {k \in Keys : IsMaxAge(router.lsdb[k]) /\ k \notin router.rxmt}

ospf_maxage_lsa_remover ==
    /\ nbr # "Exchange" /\ Removable # {}
    /\ Becomes([router EXCEPT
                  !.lsdb     = [k \in Keys |-> IF k \in Removable THEN NoLSA ELSE @[k]],
                  !.refresh  = @ \ Removable,
                  !.received = @ \ Removable,
                  !.recent   = @ \ Removable])
    /\ UNCHANGED <<state, nbr, peer, fresh, toUs, raced, changes, losses>>

peer_maxage_lsa_remover(k) ==
    /\ nbr # "Exchange" /\ IsMaxAge(peer[k])
    /\ peer' = [peer EXCEPT ![k] = NoLSA]
    /\ fresh' = fresh \ {k}
    /\ UNCHANGED <<state, nbr, router, toPeer, toUs, raced, mine, changes, losses>>

(* MinLSArrival passes at either router. *)
min_ls_arrival ==
    /\ router.recent # {} \/ fresh # {}
    /\ \/ router' = [router EXCEPT !.recent = {}] /\ UNCHANGED fresh
       \/ fresh' = {} /\ UNCHANGED router
    /\ UNCHANGED <<state, nbr, peer, toPeer, toUs, raced, mine, changes, losses>>

lose ==
    /\ losses < MaxLosses /\ losses' = losses + 1
    /\ \/ toPeer # <<>> /\ toPeer' = Tail(toPeer) /\ UNCHANGED toUs
       \/ toUs # <<>> /\ toUs' = Tail(toUs) /\ UNCHANGED toPeer
    /\ UNCHANGED <<state, nbr, router, peer, fresh, raced, mine, changes>>

Next ==
    \/ \E s \in {"DR", "Other"} : ism_change_state(s)
    \/ nsm_negotiation_done
    \/ nsm_full
    \/ nsm_kill_nbr
    \/ ospf_ls_req
    \/ peer_ls_req
    \/ receive_update
    \/ ospf_ls_ack
    \/ peer_receive
    \/ ospf_maxage_lsa_remover
    \/ \E k \in Keys : peer_maxage_lsa_remover(k)
    \/ ospf_ls_upd_timer
    \/ \E k \in Keys : ospf_lsa_refresh_walker(k)
    \/ min_ls_arrival
    \/ lose

Spec == Init /\ [][Next]_vars

(* Packets that are not lost arrive, timers run off, descriptions are        *)
(* exchanged and MinLSArrival passes.                                        *)
FairSpec ==
    /\ Spec
    /\ WF_vars(nsm_negotiation_done) /\ WF_vars(nsm_full)
    /\ WF_vars(ospf_ls_req) /\ WF_vars(peer_ls_req)
    /\ WF_vars(receive_update \/ ospf_ls_ack) /\ WF_vars(peer_receive)
    /\ WF_vars(ospf_maxage_lsa_remover)
    /\ \A k \in Keys : WF_vars(peer_maxage_lsa_remover(k))
    /\ WF_vars(ospf_ls_upd_timer)
    /\ WF_vars(router.recent # {} /\ min_ls_arrival /\ router' # router)
    /\ WF_vars(fresh # {} /\ min_ls_arrival /\ fresh' # fresh)

-----------------------------------------------------------------------------
(* Properties *)

Instances == [seq : Nat, age : {0, OSPF_LSA_MAXAGE}, body : Nat]
Packets   == [type : {"update", "ack"},
              lsas : [Keys -> Instances]]
Routers   == [lsdb     : [Keys -> Instances],
              received : SUBSET Keys, refresh : SUBSET Keys, rxmt : SUBSET Keys,
              recent   : SUBSET Keys, sent : SUBSET Keys,
              self     : {"none", "own", "stray"}, seqnum : Nat]

(* The values of the variables. *)
TypeOK ==
    /\ state \in {"DR", "Other"}
    /\ nbr \in {"Down", "Exchange", "Full"}
    /\ router \in Routers
    /\ peer \in [Keys -> Instances]
    /\ fresh \subseteq Keys
    /\ toPeer \in Seq(Packets) /\ toUs \in Seq(Packets)
    /\ raced \in BOOLEAN

(* Whatever interrupts, refreshes or replaces it, an LSA the router has      *)
(* originated and is not flushing is in the queue of the refresh walker, so  *)
(* it never grows old in the other routers' databases.                       *)
LiveIsRefreshed ==
    \A k \in Keys :
        router.lsdb[k] # NoLSA /\ ~IsMaxAge(router.lsdb[k]) /\ k \notin router.received
            => k \in router.refresh

(* The router describes the network exactly while it is DR and its neighbour *)
(* is Full: then its own network-LSA is in the database, and not being       *)
(* flushed, whatever instances came back from the neighbour.  The exception  *)
(* is a stray LSA that the refresh walker made out of one being flushed.     *)
DrDescribesNetwork ==
    /\ state = "DR" /\ nbr = "Full" => router.self # "none"
    /\ router.self = "own" =>
         /\ state = "DR" /\ nbr = "Full"
         /\ router.lsdb[Network] # NoLSA /\ ~IsMaxAge(router.lsdb[Network])
         /\ Network \notin router.received
    /\ router.self = "stray" => raced

(* A step that changes an own, live instance gives it an unused number. *)
NewNumber(k) ==
    router'.lsdb[k] # router.lsdb[k] /\ k \notin router'.received
    /\ ~IsMaxAge(router'.lsdb[k]) /\ router'.lsdb[k] # NoLSA
        => router'.lsdb[k].seq > mine[k]

(* A sequence number the router has used for an LSA is never used for        *)
(* another instance, also when the LSA was flushed, removed and originated   *)
(* again meanwhile.                                                          *)
SequenceNumbersGrow == [][\A k \in Keys : NewNumber(k)]_vars

(* What the neighbour holds is what the router wants it to hold. *)
Agreed ==
    /\ peer = router.lsdb
    /\ peer[Router].body = RouterBody("Full") /\ Router \notin router.received
    /\ state = "DR" => peer[Network] # NoLSA /\ Network \notin router.received
    /\ state # "DR" => peer[Network] = NoLSA \/ Network \in router.received

(* In the end the neighbour has the router's present LSAs and no other, also *)
(* when it held more recent instances of an earlier life, packets were lost  *)
(* and the LSAs were flushed or replaced while older ones were on their way. *)
CopiesConverge == <>[](Agreed \/ raced)
=============================================================================
