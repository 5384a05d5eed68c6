---------------------------- MODULE OwnLsasProofs ----------------------------
(***************************************************************************)
(* Proofs about OwnLsas, for every choice of its constants.                *)
(*                                                                         *)
(* LiveIsRefreshed and DrDescribesNetwork hold together or not at all: the *)
(* refresh walker takes an LSA out of its queue when no neighbour is Full, *)
(* which is harmless because a network-LSA that is not being flushed       *)
(* implies a Full neighbour, and that in turn rests on network_lsa_self    *)
(* being flushed in time.  The invariant RouterInv says what relates the   *)
(* queue, the database and network_lsa_self; it is split into the part     *)
(* about the router-LSA, the part about the network-LSA, and the place of  *)
(* network_lsa_self in the states of interface and neighbour, because a    *)
(* handler restores one after the other.                                   *)
(***************************************************************************)
EXTENDS OwnLsas, TLAPS

RouterPart(r) ==
    /\ r \in Routers
    /\ r.lsdb[Router] # NoLSA /\ ~IsMaxAge(r.lsdb[Router]) /\ Router \notin r.received
           => Router \in r.refresh

LiveNetwork(r) ==
    r.lsdb[Network] # NoLSA /\ ~IsMaxAge(r.lsdb[Network]) /\ Network \notin r.received

(* An LSA in the refresh queue is there and the router's own; one that is not *)
(* being flushed is network_lsa_self, and in the queue.                       *)
NetworkPart(r) ==
    /\ Network \in r.refresh => r.lsdb[Network] # NoLSA /\ Network \notin r.received
    /\ LiveNetwork(r) => r.self = "own" /\ Network \in r.refresh
    /\ r.self = "own" => LiveNetwork(r)

Place(r, s, n) ==
    /\ r.self = "own" => s = "DR" /\ n = "Full"
    /\ s = "DR" /\ n = "Full" => r.self # "none"

RouterInv(r, s, n, b) ==
    /\ RouterPart(r)
    /\ NetworkPart(r)
    /\ Place(r, s, n)
    /\ r.self = "stray" => b

States    == {"DR", "Other"}
NbrStates == {"Down", "Exchange", "Full"}

-----------------------------------------------------------------------------
(* What the functions of the router change. *)

(* Flooding touches only the retransmission list and the packet to send. *)
LEMMA FloodShape ==
    ASSUME NEW r \in Routers, NEW k \in Keys, NEW n
    PROVE  LET q == ospf_flood_through_area(r, k, n)
           IN  /\ q \in Routers
               /\ q.lsdb = r.lsdb /\ q.received = r.received /\ q.refresh = r.refresh
               /\ q.self = r.self /\ q.seqnum = r.seqnum
BY Zenon DEF ospf_flood_through_area, Routers, Keys

(* An instance the router originates replaces the one before and is queued *)
(* for refresh.                                                            *)
LEMMA OriginateShape ==
    ASSUME NEW r \in Routers, NEW k \in Keys, NEW lsa \in Instances, NEW n
    PROVE  LET q == originate(r, k, lsa, n)
           IN  /\ q \in Routers
               /\ q.lsdb[k] = lsa
               /\ \A j \in Keys \ {k} : q.lsdb[j] = r.lsdb[j]
               /\ q.received = r.received \ {k}
               /\ q.refresh = r.refresh \cup {k}
               /\ q.self = IF k = Network THEN "own" ELSE r.self
               /\ q.seqnum = r.seqnum
<1> DEFINE p == ospf_lsa_install(r, k, lsa, FALSE)
<1>2. /\ p \in Routers
      /\ p.lsdb = [r.lsdb EXCEPT ![k] = lsa]
      /\ p.received = r.received \ {k} /\ p.refresh = r.refresh \cup {k}
      /\ p.self = IF k = Network THEN "own" ELSE r.self
      /\ p.seqnum = r.seqnum
  BY ZenonT(30) DEF ospf_lsa_install, Routers, Keys
<1>3. originate(r, k, lsa, n) = ospf_flood_through_area(p, k, n)
  BY Zenon DEF originate
<1> HIDE DEF p
<1>4. LET q == ospf_flood_through_area(p, k, n)
      IN  /\ q \in Routers
          /\ q.lsdb = p.lsdb /\ q.received = p.received /\ q.refresh = p.refresh
          /\ q.self = p.self /\ q.seqnum = p.seqnum
  BY <1>2, FloodShape
<1>5. /\ p.lsdb[k] = lsa
      /\ \A j \in Keys \ {k} : p.lsdb[j] = r.lsdb[j]
  BY <1>2, Zenon DEF Routers
<1> QED BY <1>2, <1>3, <1>4, <1>5

(* An instance that is flushed ages where it is. *)
LEMMA FlushShape ==
    ASSUME NEW r \in Routers, NEW k \in Keys, NEW n
    PROVE  LET q == ospf_lsa_flush_area(r, k, n)
           IN  /\ q \in Routers
               /\ q.lsdb = [r.lsdb EXCEPT ![k].age = OSPF_LSA_MAXAGE]
               /\ q.received = r.received /\ q.refresh = r.refresh /\ q.self = r.self
               /\ q.seqnum = r.seqnum
<1> DEFINE p == [r EXCEPT !.lsdb[k].age = OSPF_LSA_MAXAGE, !.recent = @ \cup {k}]
<1>1. /\ p \in Routers
      /\ p.lsdb = [r.lsdb EXCEPT ![k].age = OSPF_LSA_MAXAGE]
      /\ p.received = r.received /\ p.refresh = r.refresh /\ p.self = r.self
      /\ p.seqnum = r.seqnum
  <2>1. [r.lsdb EXCEPT ![k].age = OSPF_LSA_MAXAGE] \in [Keys -> Instances]
    BY Zenon DEF Routers, Instances, OSPF_LSA_MAXAGE
  <2> QED BY <2>1, Zenon DEF Routers, Keys
<1>2. ospf_lsa_flush_area(r, k, n) = ospf_flood_through_area(p, k, n)
  BY Zenon DEF ospf_lsa_flush_area
<1> HIDE DEF p
<1>3. LET q == ospf_flood_through_area(p, k, n)
      IN  /\ q \in Routers
          /\ q.lsdb = p.lsdb /\ q.received = p.received /\ q.refresh = p.refresh
          /\ q.self = p.self /\ q.seqnum = p.seqnum
  BY <1>1, FloodShape
<1> QED BY <1>1, <1>2, <1>3, Zenon

-----------------------------------------------------------------------------
(* What the handlers are built from preserves. *)

(* A new router-LSA is queued for refresh and leaves the network-LSA alone. *)
LEMMA RouterUpdated ==
    ASSUME NEW r \in Routers, NEW n
    PROVE  LET q == ospf_router_lsa_update_area(r, n)
           IN  /\ RouterPart(q)
               /\ q.self = r.self
               /\ NetworkPart(r) => NetworkPart(q)
               /\ LiveNetwork(r) => LiveNetwork(q)
               /\ Network \in q.received <=> Network \in r.received
<1>1. r.lsdb[Router].seq + 1 \in Nat /\ RouterBody(n) \in Nat
  BY DEF Routers, Instances, RouterBody, Keys
<1>2. Router \in Keys /\ Router # Network
  BY Zenon DEF Keys, Router, Network
<1>n. Network \in Keys
  BY Zenon DEF Keys
<1> DEFINE q    == ospf_router_lsa_update_area(r, n)
           lsa  == Instance(r.lsdb[Router].seq + 1, 0, RouterBody(n))
<1>q. q = originate(r, Router, lsa, n)
  BY Zenon DEF ospf_router_lsa_update_area
<1>i. lsa \in Instances
  BY <1>1, Zenon DEF Instance, Instances, OSPF_LSA_MAXAGE
<1> HIDE DEF q, lsa
<1>3. /\ q \in Routers
      /\ \A j \in Keys \ {Router} : q.lsdb[j] = r.lsdb[j]
      /\ q.received = r.received \ {Router}
      /\ q.refresh = r.refresh \cup {Router}
      /\ q.self = r.self
  BY <1>2, <1>q, <1>i, OriginateShape
<1>4. q.lsdb[Network] = r.lsdb[Network]
  BY <1>2, <1>3, <1>n, Zenon
<1>5. RouterPart(q)
  BY <1>3, Zenon DEF RouterPart
<1> QED BY <1>2, <1>3, <1>4, <1>5, Zenon DEF NetworkPart, LiveNetwork, q

(* A network-LSA the router originates is its own, live and queued. *)
LEMMA NetworkOriginated ==
    ASSUME NEW r, RouterPart(r), NEW n, NEW seq \in Nat
    PROVE  LET q == originate(r, Network, Instance(seq, 0, NetworkBody), n)
           IN  RouterPart(q) /\ NetworkPart(q) /\ q.self = "own"
<1>1. Network \in Keys /\ Router \in Keys /\ Router # Network /\ NetworkBody \in Nat
  BY Zenon DEF Keys, Router, Network, NetworkBody
<1> DEFINE lsa == Instance(seq, 0, NetworkBody)
           q   == originate(r, Network, lsa, n)
<1>i. lsa \in Instances /\ lsa # NoLSA /\ ~IsMaxAge(lsa)
  BY DEF Instance, Instances, NetworkBody, NoLSA, IsMaxAge, OSPF_LSA_MAXAGE
<1> HIDE DEF lsa
<1>2. /\ q \in Routers
      /\ q.lsdb[Network] = lsa
      /\ \A j \in Keys \ {Network} : q.lsdb[j] = r.lsdb[j]
      /\ q.received = r.received \ {Network}
      /\ q.refresh = r.refresh \cup {Network}
      /\ q.self = "own"
  <2>1. r \in Routers
    BY Zenon DEF RouterPart
  <2> QED BY <1>1, <1>i, <2>1, OriginateShape
<1> HIDE DEF q
<1>3. q.lsdb[Router] = r.lsdb[Router] /\ q.lsdb[Network] = lsa
  BY <1>1, <1>2, Zenon
<1>4. RouterPart(q)
  BY <1>1, <1>2, <1>3, Zenon DEF RouterPart
<1>5. LiveNetwork(q)
  BY <1>2, <1>3, <1>i, Zenon DEF LiveNetwork
<1> QED BY <1>2, <1>4, <1>5, Zenon DEF NetworkPart, LiveNetwork, q, lsa

(* A flushed network-LSA is at MaxAge, wherever it came from. *)
LEMMA NetworkFlushed ==
    ASSUME NEW r, RouterPart(r), NEW n
    PROVE  LET q == ospf_lsa_flush_area(r, Network, n)
           IN  /\ RouterPart(q)
               /\ ~LiveNetwork(q) /\ q.lsdb[Network] # NoLSA
               /\ q.refresh = r.refresh /\ q.received = r.received /\ q.self = r.self
<1>1. Network \in Keys /\ Router \in Keys /\ Router # Network /\ r \in Routers
  BY Zenon DEF Keys, Router, Network, RouterPart
<1> DEFINE q == ospf_lsa_flush_area(r, Network, n)
<1>2. /\ q \in Routers
      /\ q.lsdb = [r.lsdb EXCEPT ![Network].age = OSPF_LSA_MAXAGE]
      /\ q.received = r.received /\ q.refresh = r.refresh /\ q.self = r.self
  BY <1>1, FlushShape
<1> HIDE DEF q
<1>3. q.lsdb[Router] = r.lsdb[Router] /\ q.lsdb[Network].age = OSPF_LSA_MAXAGE
  BY <1>1, <1>2 DEF Routers, Instances
<1>4. q.lsdb[Network] # NoLSA /\ ~LiveNetwork(q)
  BY <1>3 DEF NoLSA, Instance, LiveNetwork, IsMaxAge, OSPF_LSA_MAXAGE
<1>5. RouterPart(q)
  BY <1>2, <1>3, Zenon DEF RouterPart
<1> QED BY <1>2, <1>4, <1>5, Zenon DEF q

(* The refresh of a network-LSA: as DR with a Full neighbour the router gets *)
(* a new one; otherwise only an LSA that is not live may be taken out of the *)
(* queue.                                                                    *)
LEMMA NetworkRefreshed ==
    ASSUME NEW r, RouterPart(r), NEW s, NEW n
    PROVE  LET q == ospf_network_lsa_refresh(r, s, n)
           IN  /\ RouterPart(q)
               /\ n = "Full" /\ s = "DR" => NetworkPart(q) /\ q.self = "own"
               /\ ~(n = "Full" /\ s = "DR") /\ NetworkPart(r) /\ ~LiveNetwork(r)
                     => /\ NetworkPart(q)
                        /\ q.self = IF n = "Full" THEN "stray" ELSE r.self
<1> DEFINE seq == r.lsdb[Network].seq + 1
           old == [r EXCEPT !.rxmt = @ \ {Network}, !.refresh = @ \ {Network}]
           new == [old EXCEPT !.seqnum = seq]
           q   == ospf_network_lsa_refresh(r, s, n)
<1>1. r \in Routers /\ seq \in Nat
  BY DEF RouterPart, Routers, Instances, Keys
<1>2. /\ RouterPart(old) /\ RouterPart(new)
      /\ old.lsdb = r.lsdb /\ old.received = r.received
      /\ old.refresh = r.refresh \ {Network} /\ old.self = r.self
  BY <1>1, Zenon DEF RouterPart, Routers, Router, Network
<1>n. /\ new.lsdb = r.lsdb /\ new.received = r.received
      /\ new.refresh = r.refresh \ {Network}
  BY <1>1, Zenon DEF Routers
<1>3. CASE n # "Full"
  <2>1. q = old
    BY <1>3, Zenon DEF ospf_network_lsa_refresh
  <2> HIDE DEF q, old
  <2>2. NetworkPart(r) /\ ~LiveNetwork(r) => NetworkPart(old)
    BY <1>2, Zenon DEF NetworkPart, LiveNetwork
  <2> QED BY <1>2, <1>3, <2>1, <2>2, Zenon DEF q
<1>4. CASE n = "Full" /\ s = "DR"
  <2>1. q = originate(new, Network, Instance(seq, 0, NetworkBody), n)
    BY <1>4, Zenon DEF ospf_network_lsa_refresh
  <2> HIDE DEF new, seq, old
  <2>2. RouterPart(q) /\ NetworkPart(q) /\ q.self = "own"
    BY <1>1, <1>2, <2>1, NetworkOriginated
  <2> QED BY <1>4, <2>2, Zenon
<1>5. CASE n = "Full" /\ s # "DR"
  <2>1. q = [new EXCEPT !.self = "stray"]
    BY <1>5, Zenon DEF ospf_network_lsa_refresh
  <2>2. /\ RouterPart(q) /\ q.self = "stray"
        /\ q.lsdb = r.lsdb /\ q.received = r.received
        /\ q.refresh = r.refresh \ {Network}
    <3> HIDE DEF new, q
    <3> QED BY <1>2, <1>n, <2>1, Zenon DEF RouterPart, Routers
  <2> HIDE DEF q
  <2>3. NetworkPart(r) /\ ~LiveNetwork(r) => NetworkPart(q)
    BY <2>2, Zenon DEF NetworkPart, LiveNetwork
  <2> QED BY <1>5, <2>2, <2>3, Zenon DEF q
<1> QED BY <1>3, <1>4, <1>5, Zenon

(* ospf_network_lsa_update, given that network_lsa_self is the router's own  *)
(* only as DR with a Full neighbour: the same holds afterwards.              *)
LEMMA NetworkUpdated ==
    ASSUME NEW r, RouterPart(r), NEW s, NEW n,
           r.self = "own" => s = "DR" /\ n = "Full",
           r.self # "own" => NetworkPart(r)
    PROVE  LET q == ospf_network_lsa_update(r, s, n)
           IN  /\ RouterPart(q) /\ NetworkPart(q)
               /\ q.self = "own" => n = "Full"
               /\ n = "Full" => q.self # "none"
               /\ q.self = "stray" => r.self = "stray"
<1> DEFINE q == ospf_network_lsa_update(r, s, n)
<1>1. r \in Routers /\ r.self \in {"none", "own", "stray"} /\ r.seqnum + 1 \in Nat
  BY DEF RouterPart, Routers
<1>2. CASE r.self = "own"
  <2>1. q = ospf_network_lsa_refresh(r, s, n)
    BY <1>2, Zenon DEF ospf_network_lsa_update
  <2>2. RouterPart(q) /\ NetworkPart(q) /\ q.self = "own"
    BY <1>2, <2>1, NetworkRefreshed
  <2> QED BY <1>2, <2>2, Zenon
<1>3. CASE r.self = "stray" \/ (r.self = "none" /\ n # "Full")
  BY <1>3, Zenon DEF ospf_network_lsa_update
<1>4. CASE r.self = "none" /\ n = "Full"
  <2> DEFINE p == [r EXCEPT !.seqnum = @ + 1]
  <2>1. q = originate(p, Network, Instance(r.seqnum + 1, 0, NetworkBody), n)
    BY <1>4, Zenon DEF ospf_network_lsa_update, ospf_network_lsa_new
  <2>2. RouterPart(p)
    BY <1>1, Zenon DEF RouterPart, Routers
  <2> HIDE DEF p
  <2>3. RouterPart(q) /\ NetworkPart(q) /\ q.self = "own"
    BY <1>1, <2>1, <2>2, NetworkOriginated
  <2> QED BY <1>4, <2>3, Zenon
<1> QED BY <1>1, <1>2, <1>3, <1>4, Zenon

(* Flushing network_lsa_self leaves no network-LSA that is not at MaxAge. *)
LEMMA NetworkSelfFlushed ==
    ASSUME NEW r, RouterPart(r), NetworkPart(r), NEW n
    PROVE  LET q == flush_network_self(r, n)
           IN  RouterPart(q) /\ NetworkPart(q) /\ q.self = "none"
<1> DEFINE q == flush_network_self(r, n)
           p == IF r.self = "own" THEN ospf_lsa_flush_area(r, Network, n) ELSE r
<1>1. q = [p EXCEPT !.self = "none"]
  BY Zenon DEF flush_network_self
<1>2. /\ RouterPart(p) /\ ~LiveNetwork(p)
      /\ Network \in p.refresh => p.lsdb[Network] # NoLSA /\ Network \notin p.received
  BY NetworkFlushed, Zenon DEF NetworkPart
<1> HIDE DEF p
<1>3. /\ RouterPart(q) /\ q.self = "none"
      /\ q.lsdb = p.lsdb /\ q.refresh = p.refresh /\ q.received = p.received
  BY <1>1, <1>2, Zenon DEF RouterPart, Routers
<1> HIDE DEF q
<1>4. NetworkPart(q)
  BY <1>2, <1>3, Zenon DEF NetworkPart, LiveNetwork
<1> QED BY <1>3, <1>4, Zenon DEF q

(* An instance that came back from the neighbour: whatever it is, the router *)
(* outdoes or flushes it and the invariant is restored.                      *)
LEMMA UpdateReceived ==
    ASSUME NEW s, NEW n, NEW b, NEW r, RouterInv(r, s, n, b),
           NEW k \in Keys, NEW lsa \in Instances
    PROVE  RouterInv(ospf_ls_upd(r, k, lsa, s, n), s, n, b)
<1> DEFINE q == ospf_ls_upd(r, k, lsa, s, n)
           p == ospf_lsa_install(r, k, lsa, TRUE)
           o == ospf_process_self_originated_lsa(p, k, s, n)
<1>1. \/ q = r
      \/ q = [r EXCEPT !.rxmt = @ \ {k}]
      \/ q = [r EXCEPT !.sent = @ \cup {k}]
      \/ q = o
  <2> DEFINE f == ospf_flood(r, k, lsa, s, n)
             u == [r EXCEPT !.rxmt = @ \ {k}]
             v == [r EXCEPT !.sent = @ \cup {k}]
  <2>1. f = r \/ f = o
    BY Zenon DEF ospf_flood
  <2>2. q = r \/ q = f \/ q = u \/ q = v
    <3> HIDE DEF f, u, v
    <3> QED BY DEF ospf_ls_upd, f, u, v
  <2> QED BY <2>1, <2>2, Zenon
<1>r. r \in Routers
  BY Zenon DEF RouterInv, RouterPart
<1>2. CASE q = r
  BY <1>2, Zenon
<1>3. CASE q = [r EXCEPT !.rxmt = @ \ {k}] \/ q = [r EXCEPT !.sent = @ \cup {k}]
  <2>1. /\ q \in Routers
        /\ q.lsdb = r.lsdb /\ q.received = r.received /\ q.refresh = r.refresh
        /\ q.self = r.self
    BY <1>3, <1>r DEF Routers
  <2> HIDE DEF q
  <2> QED BY <2>1, Zenon DEF RouterInv, RouterPart, NetworkPart, LiveNetwork, Place, q
<1>4. CASE q = o
  <2>1. /\ p \in Routers /\ p.self = r.self
        /\ p.received = r.received \cup {k} /\ p.refresh = r.refresh \ {k}
        /\ p.lsdb[k] = lsa
        /\ \A j \in Keys \ {k} : p.lsdb[j] = r.lsdb[j]
    BY <1>r, ZenonT(30) DEF ospf_lsa_install, Routers
  <2> HIDE DEF p
  <2>k. Router \in Keys /\ Network \in Keys /\ Router # Network
    BY Zenon DEF Keys, Router, Network
  <2>2. CASE k = Router
    <3>1. o = ospf_router_lsa_update_area(p, n)
      BY <2>2, <2>k, Zenon DEF ospf_process_self_originated_lsa
    <3>2. NetworkPart(p)
      BY <2>1, <2>2, <2>k, Zenon DEF RouterInv, NetworkPart, LiveNetwork
    <3>3. RouterPart(o) /\ NetworkPart(o) /\ o.self = r.self
      BY <2>1, <3>1, <3>2, RouterUpdated
    <3> QED BY <1>4, <3>3, Zenon DEF RouterInv, Place
  <2>3. CASE k = Network
    <3>1. RouterPart(p)
      BY <2>1, <2>3, <2>k, Zenon DEF RouterInv, RouterPart
    <3>2. p.self # "own" => NetworkPart(p)
      BY <2>1, <2>3, Zenon DEF NetworkPart, LiveNetwork
    <3>3. CASE s = "DR"
      <4>1. o = ospf_network_lsa_update(p, s, n)
        BY <2>3, <2>k, <3>3, Zenon DEF ospf_process_self_originated_lsa
      <4>2. /\ RouterPart(o) /\ NetworkPart(o)
            /\ o.self = "own" => n = "Full"
            /\ n = "Full" => o.self # "none"
            /\ o.self = "stray" => p.self = "stray"
        BY <2>1, <3>1, <3>2, <3>3, <4>1, NetworkUpdated DEF RouterInv, Place
      <4> QED BY <1>4, <2>1, <3>3, <4>2, Zenon DEF RouterInv, Place
    <3>4. CASE s # "DR"
      <4>1. o = ospf_lsa_flush_area(p, Network, n)
        BY <2>3, <2>k, <3>4, Zenon DEF ospf_process_self_originated_lsa
      <4>2. /\ RouterPart(o) /\ ~LiveNetwork(o)
            /\ o.refresh = p.refresh /\ o.self = r.self
        BY <2>1, <3>1, <4>1, NetworkFlushed
      <4>3. Network \notin o.refresh /\ o.self # "own"
        BY <2>1, <2>3, <3>4, <4>2, Zenon DEF RouterInv, Place
      <4> QED BY <1>4, <3>4, <4>2, <4>3, Zenon DEF RouterInv, NetworkPart, Place
    <3> QED BY <3>3, <3>4, Zenon
  <2> QED BY <2>2, <2>3, Zenon DEF Keys
<1> QED BY <1>1, <1>2, <1>3, <1>4, Zenon

-----------------------------------------------------------------------------
(* The inductive invariant. *)
Inv == TypeOK /\ RouterInv(router, state, nbr, raced)

(* Packets are made of instances. *)
LEMMA SendTyped ==
    ASSUME NEW q \in Seq(Packets), NEW type \in {"update", "ack"}, NEW ks,
           NEW db \in [Keys -> Instances]
    PROVE  Send(q, type, ks, db) \in Seq(Packets)
<1>1. NoLSA \in Instances
  BY Zenon DEF NoLSA, Instance, Instances, OSPF_LSA_MAXAGE
<1>2. [type |-> type, lsas |-> [k \in Keys |-> IF k \in ks THEN db[k] ELSE NoLSA]]
        \in Packets
  BY <1>1, Zenon DEF Packets
<1> QED BY <1>2 DEF Send

LEMMA PacketTaken ==
    ASSUME NEW q \in Seq(Packets), q # <<>>
    PROVE  Tail(q) \in Seq(Packets) /\ Head(q).lsas \in [Keys -> Instances]
<1>1. Head(q) \in Packets /\ Tail(q) \in Seq(Packets)
  OBVIOUS
<1> QED BY <1>1, Zenon DEF Packets

(* The end of a handler: the packet leaves, the invariant stays. *)
LEMMA Became ==
    ASSUME TypeOK, NEW r, NEW s, NEW n, NEW b, RouterInv(r, s, n, b), Becomes(r)
    PROVE  RouterInv(router', s, n, b) /\ router' \in Routers /\ toPeer' \in Seq(Packets)
<1>1. r \in Routers /\ r.lsdb \in [Keys -> Instances]
  BY Zenon DEF RouterInv, RouterPart, Routers
<1>2. toPeer' \in Seq(Packets)
  BY <1>1, SendTyped, Zenon DEF TypeOK, Becomes
<1>3. /\ router' \in Routers
      /\ router'.lsdb = r.lsdb /\ router'.received = r.received
      /\ router'.refresh = r.refresh /\ router'.self = r.self
  BY <1>1, Zenon DEF Becomes, Routers
<1> QED BY <1>2, <1>3, Zenon DEF RouterInv, RouterPart, NetworkPart, LiveNetwork, Place

LEMMA InitInv == Init => Inv
<1> SUFFICES ASSUME Init PROVE Inv
  BY Zenon
<1>1. TypeOK
  <2>1. NoLSA \in Instances /\ Instance(OSPF_INITIAL_SEQUENCE_NUMBER, 0, RouterBody("Down"))
          \in Instances
    BY Zenon DEF NoLSA, Instance, Instances, OSPF_LSA_MAXAGE, OSPF_INITIAL_SEQUENCE_NUMBER, RouterBody
  <2>2. router \in Routers
    BY <2>1, Zenon DEF Init, Routers, Keys
  <2>3. \A s \in StaleSeqs, c \in StaleBodies : Instance(s, 0, c) \in Instances
    BY OwnLsasConstants, Zenon DEF Instance, Instances
  <2>4. peer \in [Keys -> Instances]
    BY <2>1, <2>3 DEF Init
  <2>5. state \in {"DR", "Other"} /\ nbr \in {"Down", "Exchange", "Full"} /\ fresh \subseteq Keys
    BY DEF Init
  <2>6. toPeer \in Seq(Packets) /\ toUs \in Seq(Packets)
    BY DEF Init
  <2>7. raced \in BOOLEAN
    BY Zenon DEF Init
  <2> QED BY <2>2, <2>4, <2>5, <2>6, <2>7, Zenon DEF TypeOK
<1>2. RouterInv(router, state, nbr, raced)
  <2>1. Router # Network /\ router.lsdb[Network] = NoLSA
    BY Zenon DEF Init, Keys, Router, Network
  <2>2. /\ router.refresh = {Router} /\ router.self = "none" /\ nbr = "Down"
    BY Zenon DEF Init
  <2> QED BY <1>1, <2>1, <2>2, Zenon
             DEF TypeOK, RouterInv, RouterPart, NetworkPart, LiveNetwork, Place
<1> QED BY <1>1, <1>2, Zenon DEF Inv

(* What a neighbour that becomes Full, or is Full no longer, changes leaves  *)
(* network_lsa_self in its place for the new state.                          *)
LEMMA FullChanged ==
    ASSUME Inv, NEW n \in NbrStates, n = "Full" <=> nbr # "Full"
    PROVE  RouterInv(full_changed(router, n), state, n, raced)
<1> DEFINE q == ospf_router_lsa_update_area(router, n)
           p == full_changed(router, n)
<1>1. router \in Routers /\ NetworkPart(router)
  BY Zenon DEF Inv, TypeOK, RouterInv
<1>2. RouterPart(q) /\ NetworkPart(q) /\ q.self = router.self
  BY <1>1, RouterUpdated, Zenon
<1>3. /\ q.self = "own" => state = "DR" /\ nbr = "Full"
      /\ q.self = "stray" => raced
      /\ q.self \in {"none", "own", "stray"}
  BY <1>1, <1>2, Zenon DEF Inv, RouterInv, Place, Routers
<1> HIDE DEF q
<1>4. CASE state # "DR"
  <2>1. p = q
    BY <1>4, Zenon DEF full_changed, q
  <2> QED BY <1>2, <1>3, <1>4, <2>1, Zenon DEF RouterInv, Place
<1>5. CASE state = "DR" /\ n # "Full" /\ q.self # "none"
  <2>1. p = flush_network_self(q, n)
    BY <1>5, Zenon DEF full_changed, q
  <2>2. RouterPart(p) /\ NetworkPart(p) /\ p.self = "none"
    BY <1>2, <2>1, NetworkSelfFlushed, Zenon
  <2> QED BY <1>5, <2>2, Zenon DEF RouterInv, Place
<1>6. CASE state = "DR" /\ (n = "Full" \/ q.self = "none")
  <2>1. p = ospf_network_lsa_update(q, state, n)
    BY <1>6, Zenon DEF full_changed, q
  <2>2. /\ RouterPart(p) /\ NetworkPart(p)
        /\ p.self = "own" => n = "Full"
        /\ n = "Full" => p.self # "none"
        /\ p.self = "stray" => q.self = "stray"
    BY <1>2, <1>3, <1>6, <2>1, NetworkUpdated
  <2> QED BY <1>3, <1>6, <2>2, Zenon DEF RouterInv, Place
<1> QED BY <1>4, <1>5, <1>6, Zenon

-----------------------------------------------------------------------------
(* One lemma per action that changes the router. *)

LEMMA IsmStep ==
    ASSUME Inv, NEW s \in States, ism_change_state(s)
    PROVE  Inv'
<1> DEFINE r == ospf_router_lsa_update_area(router, nbr)
           q == IF s = "DR" THEN ospf_network_lsa_update(r, s, nbr)
                            ELSE flush_network_self(r, nbr)
<1>1. TypeOK /\ router \in Routers /\ NetworkPart(router)
  BY Zenon DEF Inv, TypeOK, RouterInv
<1>2. RouterPart(r) /\ NetworkPart(r) /\ r.self = router.self
  BY <1>1, RouterUpdated, Zenon
<1>3. /\ r.self = "own" => state = "DR" /\ nbr = "Full"
      /\ r.self = "stray" => raced
  BY <1>1, <1>2, Zenon DEF Inv, RouterInv, Place
<1>4. s # state /\ state' = s /\ Becomes(q)
      /\ UNCHANGED <<nbr, peer, fresh, toUs, raced>>
  BY Zenon DEF ism_change_state
<1> HIDE DEF r
<1>5. RouterInv(q, s, nbr, raced)
  <2>1. CASE s = "DR"
    <3>1. r.self # "own"
      BY <1>3, <1>4, <2>1, Zenon
    <3>2. /\ RouterPart(q) /\ NetworkPart(q)
          /\ q.self = "own" => nbr = "Full"
          /\ nbr = "Full" => q.self # "none"
          /\ q.self = "stray" => r.self = "stray"
      BY <1>2, <2>1, <3>1, NetworkUpdated, Zenon
    <3> HIDE DEF q
    <3> QED BY <1>3, <2>1, <3>2, Zenon DEF RouterInv, Place
  <2>2. CASE s # "DR"
    <3>1. RouterPart(q) /\ NetworkPart(q) /\ q.self = "none"
      BY <1>2, <2>2, NetworkSelfFlushed, Zenon
    <3> HIDE DEF q
    <3> QED BY <2>2, <3>1, Zenon DEF RouterInv, Place
  <2> QED BY <2>1, <2>2, Zenon
<1> HIDE DEF q
<1>6. RouterInv(router', s, nbr, raced) /\ router' \in Routers /\ toPeer' \in Seq(Packets)
  BY <1>1, <1>4, <1>5, Became, Zenon
<1> QED BY <1>1, <1>4, <1>6, Zenon DEF Inv, TypeOK, States

LEMMA NsmStep ==
    ASSUME Inv, nsm_negotiation_done \/ nsm_full \/ nsm_kill_nbr
    PROVE  Inv'
<1>1. TypeOK /\ router \in Routers
  BY Zenon DEF Inv, TypeOK
<1>2. CASE nsm_negotiation_done
  <2> DEFINE q == [router EXCEPT !.rxmt = {k \in Keys : IsMaxAge(router.lsdb[k])}]
  <2>1. nbr = "Down" /\ nbr' = "Exchange" /\ Becomes(q)
        /\ UNCHANGED <<state, peer, fresh, toUs, raced>>
    BY <1>2, Zenon DEF nsm_negotiation_done
  <2>2. /\ q \in Routers /\ q.lsdb = router.lsdb /\ q.received = router.received
        /\ q.refresh = router.refresh /\ q.self = router.self
    BY <1>1, Zenon DEF Routers
  <2> HIDE DEF q
  <2>3. RouterInv(q, state, "Exchange", raced)
    BY <2>1, <2>2, Zenon DEF Inv, RouterInv, RouterPart, NetworkPart, LiveNetwork, Place
  <2>4. /\ RouterInv(router', state, "Exchange", raced)
        /\ router' \in Routers /\ toPeer' \in Seq(Packets)
    BY <1>1, <2>1, <2>3, Became, Zenon
  <2> QED BY <1>1, <2>1, <2>4, Zenon DEF Inv, TypeOK
<1>3. CASE nsm_full
  <2> DEFINE q == full_changed(router, "Full")
  <2>1. nbr = "Exchange" /\ nbr' = "Full" /\ Becomes(q)
        /\ UNCHANGED <<state, peer, fresh, toUs, raced>>
    BY <1>3, Zenon DEF nsm_full
  <2>2. RouterInv(q, state, "Full", raced)
    BY <2>1, FullChanged, Zenon DEF NbrStates
  <2> HIDE DEF q
  <2>3. /\ RouterInv(router', state, "Full", raced)
        /\ router' \in Routers /\ toPeer' \in Seq(Packets)
    BY <1>1, <2>1, <2>2, Became, Zenon
  <2> QED BY <1>1, <2>1, <2>3, Zenon DEF Inv, TypeOK
<1>4. CASE nsm_kill_nbr
  <2> DEFINE r == IF nbr = "Full" THEN full_changed(router, "Down") ELSE router
             q == [r EXCEPT !.rxmt = {}]
  <2>1. nbr # "Down" /\ nbr' = "Down" /\ Becomes(q)
        /\ UNCHANGED <<state, peer, fresh, toUs, raced>>
    BY <1>4, Zenon DEF nsm_kill_nbr
  <2>2. RouterInv(r, state, "Down", raced)
    <3>1. CASE nbr = "Full"
      BY <3>1, FullChanged, Zenon DEF NbrStates
    <3>2. CASE nbr # "Full"
      BY <3>2, Zenon DEF Inv, RouterInv, Place
    <3> QED BY <3>1, <3>2, Zenon
  <2> HIDE DEF r
  <2>3. /\ q \in Routers /\ q.lsdb = r.lsdb /\ q.received = r.received
        /\ q.refresh = r.refresh /\ q.self = r.self
    BY <2>2, Zenon DEF RouterInv, RouterPart, Routers
  <2> HIDE DEF q
  <2>4. RouterInv(q, state, "Down", raced)
    BY <2>2, <2>3, Zenon DEF RouterInv, RouterPart, NetworkPart, LiveNetwork, Place
  <2>5. /\ RouterInv(router', state, "Down", raced)
        /\ router' \in Routers /\ toPeer' \in Seq(Packets)
    BY <1>1, <2>1, <2>4, Became, Zenon
  <2> QED BY <1>1, <2>1, <2>5, Zenon DEF Inv, TypeOK
<1> QED BY <1>2, <1>3, <1>4, Zenon

LEMMA ReceiveStep ==
    ASSUME Inv, receive_update
    PROVE  Inv'
<1> DEFINE m == Head(toUs).lsas
           Take(r, k) == IF k \in Carried(m) THEN ospf_ls_upd(r, k, m[k], state, nbr) ELSE r
           q == Take(router, Router)
           p == Take(q, Network)
<1>1. TypeOK
  BY Zenon DEF Inv
<1>2. toUs # <<>> /\ toUs' = Tail(toUs) /\ Becomes(p)
      /\ UNCHANGED <<state, nbr, peer, fresh, raced>>
  BY Zenon DEF receive_update
<1>3. m \in [Keys -> Instances] /\ toUs' \in Seq(Packets)
  BY <1>1, <1>2, PacketTaken, Zenon DEF TypeOK
<1> HIDE DEF m
<1>4. ASSUME NEW r, NEW k \in Keys, RouterInv(r, state, nbr, raced)
      PROVE  RouterInv(Take(r, k), state, nbr, raced)
  <2>1. m[k] \in Instances
    BY <1>3, Zenon
  <2> QED BY <1>4, <2>1, UpdateReceived, Zenon
<1>5. Router \in Keys /\ Network \in Keys
  BY Zenon DEF Keys
<1>6. RouterInv(q, state, nbr, raced)
  BY <1>4, <1>5, Zenon DEF Inv
<1> HIDE DEF q
<1>7. RouterInv(p, state, nbr, raced)
  BY <1>4, <1>5, <1>6, Zenon
<1> HIDE DEF p
<1>8. /\ RouterInv(router', state, nbr, raced)
      /\ router' \in Routers /\ toPeer' \in Seq(Packets)
  BY <1>1, <1>2, <1>7, Became, Zenon
<1> QED BY <1>1, <1>2, <1>3, <1>8, Zenon DEF Inv, TypeOK

LEMMA AckStep ==
    ASSUME Inv, ospf_ls_ack
    PROVE  Inv'
<1> DEFINE m == Head(toUs).lsas
           acked == {k \in Carried(m) : nbr # "Down" /\ m[k] = router.lsdb[k]}
           q == [router EXCEPT !.rxmt = @ \ acked]
<1>1. TypeOK /\ router \in Routers
  BY Zenon DEF Inv, TypeOK
<1>2. toUs # <<>> /\ toUs' = Tail(toUs) /\ Becomes(q)
      /\ UNCHANGED <<state, nbr, peer, fresh, raced>>
  BY Zenon DEF ospf_ls_ack
<1>3. toUs' \in Seq(Packets)
  BY <1>1, <1>2 DEF TypeOK
<1> HIDE DEF acked
<1>4. /\ q \in Routers /\ q.lsdb = router.lsdb /\ q.received = router.received
      /\ q.refresh = router.refresh /\ q.self = router.self
  BY <1>1, Zenon DEF Routers
<1> HIDE DEF q
<1>5. RouterInv(q, state, nbr, raced)
  BY <1>4, Zenon DEF Inv, RouterInv, RouterPart, NetworkPart, LiveNetwork, Place
<1>6. /\ RouterInv(router', state, nbr, raced)
      /\ router' \in Routers /\ toPeer' \in Seq(Packets)
  BY <1>1, <1>2, <1>5, Became, Zenon
<1> QED BY <1>1, <1>2, <1>3, <1>6, Zenon DEF Inv, TypeOK

(* The walker's turn: an LSA in the queue that is not live is being flushed, *)
(* so a stray one is made only where the walker met the flush.               *)
LEMMA WalkerStep ==
    ASSUME Inv, NEW k \in Keys, ospf_lsa_refresh_walker(k)
    PROVE  Inv'
<1> DEFINE r == [router EXCEPT !.refresh = @ \ {k}]
           q == IF k = Router THEN ospf_router_lsa_update_area(r, nbr)
                              ELSE ospf_network_lsa_refresh(r, state, nbr)
           b == raced \/ (k = Network /\ IsMaxAge(router.lsdb[k]))
<1>1. TypeOK /\ router \in Routers /\ RouterInv(router, state, nbr, raced)
  BY Zenon DEF Inv, TypeOK
<1>2. k \in router.refresh /\ Becomes(q) /\ raced' = b
      /\ UNCHANGED <<state, nbr, peer, fresh, toUs>>
  BY Zenon DEF ospf_lsa_refresh_walker
<1>3. /\ r \in Routers /\ r.lsdb = router.lsdb /\ r.received = router.received
      /\ r.refresh = router.refresh \ {k} /\ r.self = router.self
  BY <1>1, Zenon DEF Routers
<1>4. Router # Network /\ (k = Router \/ k = Network)
  BY Zenon DEF Keys, Router, Network
<1> HIDE DEF r
<1>5. RouterInv(q, state, nbr, b)
  <2>1. CASE k = Router
    <3>1. NetworkPart(r)
      BY <1>1, <1>3, <1>4, <2>1, Zenon DEF RouterInv, NetworkPart, LiveNetwork
    <3>2. RouterPart(q) /\ NetworkPart(q) /\ q.self = router.self
      BY <1>3, <2>1, <3>1, RouterUpdated, Zenon
    <3> HIDE DEF q
    <3> QED BY <1>1, <3>2, Zenon DEF RouterInv, Place
  <2>2. CASE k = Network
    <3>1. RouterPart(r)
      BY <1>1, <1>3, <1>4, <2>2, Zenon DEF RouterInv, RouterPart
    <3>2. q = ospf_network_lsa_refresh(r, state, nbr)
      BY <1>4, <2>2, Zenon
    <3> HIDE DEF q
    <3>3. CASE nbr = "Full" /\ state = "DR"
      <4>1. RouterPart(q) /\ NetworkPart(q) /\ q.self = "own"
        BY <3>1, <3>2, <3>3, NetworkRefreshed, Zenon
      <4> QED BY <3>3, <4>1, Zenon DEF RouterInv, Place
    <3>4. CASE ~(nbr = "Full" /\ state = "DR")
      <4>1. router.self # "own" /\ ~LiveNetwork(router)
        BY <1>1, <3>4, Zenon DEF RouterInv, Place, NetworkPart
      <4>2. b
        BY <1>1, <1>2, <2>2, <4>1, Zenon DEF RouterInv, NetworkPart, LiveNetwork
      <4>3. NetworkPart(r) /\ ~LiveNetwork(r)
        BY <1>1, <1>3, <2>2, <4>1, Zenon DEF RouterInv, NetworkPart, LiveNetwork
      <4>4. RouterPart(q) /\ NetworkPart(q)
            /\ q.self = IF nbr = "Full" THEN "stray" ELSE r.self
        BY <3>1, <3>2, <3>4, <4>3, NetworkRefreshed
      <4> HIDE DEF b
      <4> QED BY <1>3, <3>4, <4>1, <4>2, <4>4, Zenon DEF RouterInv, Place
    <3> QED BY <3>3, <3>4, Zenon
  <2> QED BY <1>4, <2>1, <2>2, Zenon
<1> HIDE DEF q
<1>6. b \in BOOLEAN
  BY Zenon
<1> HIDE DEF b
<1>7. /\ RouterInv(router', state, nbr, b)
      /\ router' \in Routers /\ toPeer' \in Seq(Packets)
  BY <1>1, <1>2, <1>5, Became, Zenon
<1> QED BY <1>1, <1>2, <1>6, <1>7, Zenon DEF Inv, TypeOK

(* Only LSAs at MaxAge are removed. *)
LEMMA RemoverStep ==
    ASSUME Inv, ospf_maxage_lsa_remover
    PROVE  Inv'
<1> DEFINE q == [router EXCEPT
                  !.lsdb     = [k \in Keys |-> IF k \in Removable THEN NoLSA ELSE @[k]],
                  !.refresh  = @ \ Removable,
                  !.received = @ \ Removable,
                  !.recent   = @ \ Removable]
<1>1. TypeOK /\ router \in Routers /\ RouterInv(router, state, nbr, raced)
  BY Zenon DEF Inv, TypeOK
<1>2. Becomes(q) /\ UNCHANGED <<state, nbr, peer, fresh, toUs, raced>>
  BY Zenon DEF ospf_maxage_lsa_remover
<1>3. NoLSA \in Instances /\ Removable \subseteq Keys
      /\ \A k \in Removable : IsMaxAge(router.lsdb[k])
  BY Zenon DEF NoLSA, Instance, Instances, OSPF_LSA_MAXAGE, Removable
<1>4. /\ q \in Routers /\ q.self = router.self
      /\ \A k \in Keys : q.lsdb[k] = IF k \in Removable THEN NoLSA ELSE router.lsdb[k]
      /\ q.refresh = router.refresh \ Removable /\ q.received = router.received \ Removable
  BY <1>1, <1>3, Zenon DEF Routers
<1> HIDE DEF q
<1>5. Router \in Keys /\ Network \in Keys
  BY DEF Keys
<1>6. RouterPart(q)
  BY <1>1, <1>4, <1>5, Zenon DEF RouterInv, RouterPart
<1>7. NetworkPart(q)
  BY <1>1, <1>3, <1>4, <1>5, Zenon DEF RouterInv, NetworkPart, LiveNetwork
<1>8. RouterInv(q, state, nbr, raced)
  BY <1>1, <1>4, <1>6, <1>7, Zenon DEF RouterInv, Place
<1>9. /\ RouterInv(router', state, nbr, raced)
      /\ router' \in Routers /\ toPeer' \in Seq(Packets)
  BY <1>1, <1>2, <1>8, Became, Zenon
<1> QED BY <1>1, <1>2, <1>9, Zenon DEF Inv, TypeOK

(* The other actions leave the router's database, queue and network_lsa_self *)
(* alone.                                                                    *)
LEMMA OtherSteps ==
    ASSUME Inv, \/ ospf_ls_req \/ peer_ls_req \/ peer_receive \/ ospf_ls_upd_timer
                \/ min_ls_arrival \/ lose
                \/ \E k \in Keys : peer_maxage_lsa_remover(k)
    PROVE  Inv'
<1>1. TypeOK /\ router \in Routers /\ RouterInv(router, state, nbr, raced)
  BY Zenon DEF Inv, TypeOK
<1>2. UNCHANGED <<state, nbr, raced>>
  <2>1. CASE ospf_ls_req
    BY <2>1, Zenon DEF ospf_ls_req
  <2>2. CASE peer_ls_req
    BY <2>2, Zenon DEF peer_ls_req
  <2>3. CASE peer_receive
    BY <2>3, Zenon DEF peer_receive
  <2>4. CASE ospf_ls_upd_timer
    BY <2>4, Zenon DEF ospf_ls_upd_timer
  <2>5. CASE min_ls_arrival \/ lose
    BY <2>5, Zenon DEF min_ls_arrival, lose
  <2>6. CASE \E k \in Keys : peer_maxage_lsa_remover(k)
    BY <2>6, Zenon DEF peer_maxage_lsa_remover
  <2> QED BY <2>1, <2>2, <2>3, <2>4, <2>5, <2>6, Zenon
<1>3. /\ router' \in Routers
      /\ router'.lsdb = router.lsdb /\ router'.received = router.received
      /\ router'.refresh = router.refresh /\ router'.self = router.self
  BY <1>1, Zenon DEF Routers, ospf_ls_req, peer_ls_req, peer_receive, ospf_ls_upd_timer,
              min_ls_arrival, lose, peer_maxage_lsa_remover
<1>4. RouterInv(router', state', nbr', raced')
  BY <1>1, <1>2, <1>3, Zenon DEF RouterInv, RouterPart, NetworkPart, LiveNetwork, Place
<1>5. NoLSA \in Instances
  BY Zenon DEF NoLSA, Instance, Instances, OSPF_LSA_MAXAGE
<1>6. /\ peer' \in [Keys -> Instances] /\ fresh' \subseteq Keys
      /\ toPeer' \in Seq(Packets) /\ toUs' \in Seq(Packets)
  <2>1. CASE ospf_ls_req
    BY <1>1, <2>1, SendTyped, Zenon DEF ospf_ls_req, TypeOK, Routers
  <2>2. CASE peer_ls_req
    BY <1>1, <2>2, SendTyped, Zenon DEF peer_ls_req, TypeOK
  <2>3. CASE ospf_ls_upd_timer
    BY <1>1, <2>3, SendTyped, Zenon DEF ospf_ls_upd_timer, TypeOK, Routers
  <2>4. CASE min_ls_arrival
    BY <1>1, <2>4, Zenon DEF min_ls_arrival, TypeOK
  <2>5. CASE lose
    BY <1>1, <2>5, PacketTaken, ZenonT(30) DEF lose, TypeOK
  <2>6. CASE \E k \in Keys : peer_maxage_lsa_remover(k)
    BY <1>1, <1>5, <2>6, Zenon DEF peer_maxage_lsa_remover, TypeOK
  <2>7. CASE peer_receive
    <3> DEFINE m == Head(toPeer).lsas
    <3>1. toPeer # <<>> /\ m \in [Keys -> Instances]
      BY <1>1, <2>7, PacketTaken, ZenonT(30) DEF peer_receive, TypeOK
    <3> HIDE DEF m
    <3>2. PICK taken \in SUBSET Keys, outdated \in SUBSET Keys, answered \in SUBSET Keys :
            /\ toPeer' = Tail(toPeer)
            /\ peer' = [k \in Keys |-> IF k \in taken THEN m[k] ELSE peer[k]]
            /\ fresh' = fresh \cup taken
            /\ toUs' = Send(Send(toUs, "update", outdated, peer), "ack", answered, m)
      BY <2>7, Zenon DEF peer_receive, m, Carried
    <3>3. Send(toUs, "update", outdated, peer) \in Seq(Packets)
      BY <1>1, SendTyped, Zenon DEF TypeOK
    <3>4. toUs' \in Seq(Packets)
      BY <3>1, <3>2, <3>3, SendTyped, Zenon
    <3> QED BY <1>1, <3>1, <3>2, <3>4, SMTT(30) DEF TypeOK
  <2> QED BY <2>1, <2>2, <2>3, <2>4, <2>5, <2>6, <2>7, Zenon
<1> QED BY <1>1, <1>2, <1>3, <1>4, <1>6, Zenon DEF Inv, TypeOK

LEMMA NextInv == Inv /\ [Next]_vars => Inv'
<1> SUFFICES ASSUME Inv, [Next]_vars PROVE Inv'
  BY Zenon
<1>1. CASE \E s \in States : ism_change_state(s)
  BY <1>1, IsmStep, Zenon
<1>2. CASE nsm_negotiation_done \/ nsm_full \/ nsm_kill_nbr
  BY <1>2, NsmStep, Zenon
<1>3. CASE receive_update
  BY <1>3, ReceiveStep, Zenon
<1>4. CASE ospf_ls_ack
  BY <1>4, AckStep
<1>5. CASE \E k \in Keys : ospf_lsa_refresh_walker(k)
  BY <1>5, WalkerStep, Zenon
<1>6. CASE ospf_maxage_lsa_remover
  BY <1>6, RemoverStep
<1>7. CASE \/ ospf_ls_req \/ peer_ls_req \/ peer_receive \/ ospf_ls_upd_timer
           \/ min_ls_arrival \/ lose
           \/ \E k \in Keys : peer_maxage_lsa_remover(k)
  BY <1>7, OtherSteps, Zenon
<1>8. CASE UNCHANGED vars
  BY <1>8, Zenon DEF vars, Inv, TypeOK
<1> QED BY <1>1, <1>2, <1>3, <1>4, <1>5, <1>6, <1>7, <1>8, Zenon DEF Next, States

LEMMA InvHolds == Spec => []Inv
BY InitInv, NextInv, PTL DEF Spec

(* Whatever instances come back and however the interface, the neighbour and *)
(* the refresh walker interleave, an LSA of the router that is not being     *)
(* flushed is queued for refresh.                                            *)
THEOREM OwnLsasRefreshed == Spec => []LiveIsRefreshed
<1>1. Inv => LiveIsRefreshed
  BY DEF Inv, RouterInv, RouterPart, NetworkPart, LiveNetwork, LiveIsRefreshed, Keys
<1> QED BY <1>1, InvHolds, PTL

(* The router describes the network exactly while it is DR and its neighbour *)
(* is Full, unless the walker has refreshed a network-LSA being flushed.     *)
THEOREM NetworkDescribed == Spec => []DrDescribesNetwork
<1>1. Inv => DrDescribesNetwork
  BY Zenon DEF Inv, RouterInv, NetworkPart, LiveNetwork, Place, DrDescribesNetwork
<1> QED BY <1>1, InvHolds, PTL
-----------------------------------------------------------------------------
(***************************************************************************)
(* The router never uses a sequence number twice (SequenceNumbersGrow).    *)
(*                                                                         *)
(* The numbers used are remembered in two places, the instance in the      *)
(* database and network_lsa_seqnum, and neither is enough: the database    *)
(* forgets a network-LSA that was flushed, and an instance that came back  *)
(* from the neighbour has a number network_lsa_seqnum does not know.  The  *)
(* invariant Numbers says which of the two bounds the numbers used, when.  *)
(***************************************************************************)

(* m are the highest numbers used. *)
Numbers(r, m) ==
    /\ m[Router] \in Nat /\ m[Network] \in Nat
    /\ m[Router] <= r.lsdb[Router].seq
    /\ m[Network] <= r.seqnum
    /\ Network \in r.refresh \/ r.self = "own" => m[Network] <= r.lsdb[Network].seq
    /\ Network \notin r.received => r.lsdb[Network].seq <= r.seqnum

(* Between r and q nothing was originated under k but with a new number. *)
Grown(r, q, k, m) ==
    \/ q.lsdb[k] = r.lsdb[k] /\ (k \in q.received <=> k \in r.received)
    \/ k \in q.received
    \/ IsMaxAge(q.lsdb[k])
    \/ q.lsdb[k] = NoLSA
    \/ q.lsdb[k].seq > m[k]

AllGrown(r, q, m) == Grown(r, q, Router, m) /\ Grown(r, q, Network, m)

(* The router-LSA is never at MaxAge, so never removed. *)
RouterStays(r) == ~IsMaxAge(r.lsdb[Router])

LEMMA GrownTransitive ==
    ASSUME NEW r, NEW p, NEW q, NEW m, AllGrown(r, p, m), AllGrown(p, q, m)
    PROVE  AllGrown(r, q, m)
BY Zenon DEF AllGrown, Grown

LEMMA KeyFacts == Router \in Keys /\ Network \in Keys /\ Router # Network
BY Zenon DEF Keys, Router, Network

LEMMA SeqTyped ==
    ASSUME NEW r \in Routers, NEW k \in Keys
    PROVE  r.lsdb[k].seq \in Nat /\ r.seqnum \in Nat /\ r.lsdb[k] \in Instances
BY Zenon DEF Routers, Instances

LEMMA RouterNumbers ==
    ASSUME NEW r \in Routers, NEW n, NEW m, Numbers(r, m)
    PROVE  LET q == ospf_router_lsa_update_area(r, n)
           IN  /\ q \in Routers /\ Numbers(q, m) /\ AllGrown(r, q, m) /\ RouterStays(q)
               /\ q.self = r.self /\ q.lsdb[Network] = r.lsdb[Network]
               /\ q.received \cap {Network} = r.received \cap {Network}
               /\ q.refresh \cap {Network} = r.refresh \cap {Network}
<1> DEFINE q   == ospf_router_lsa_update_area(r, n)
           seq == r.lsdb[Router].seq + 1
           lsa == Instance(seq, 0, RouterBody(n))
<1>1. seq \in Nat /\ seq > m[Router]
  BY KeyFacts, SeqTyped DEF Numbers
<1>2. lsa \in Instances /\ lsa.seq = seq /\ ~IsMaxAge(lsa)
  BY <1>1 DEF Instance, Instances, RouterBody, IsMaxAge, OSPF_LSA_MAXAGE
<1>3. q = originate(r, Router, lsa, n)
  BY Zenon DEF ospf_router_lsa_update_area
<1> HIDE DEF q, lsa, seq
<1>4. /\ q \in Routers
      /\ q.lsdb[Router] = lsa
      /\ \A j \in Keys \ {Router} : q.lsdb[j] = r.lsdb[j]
      /\ q.received = r.received \ {Router}
      /\ q.refresh = r.refresh \cup {Router}
      /\ q.self = r.self /\ q.seqnum = r.seqnum
  BY <1>2, <1>3, KeyFacts, OriginateShape
<1>5. q.lsdb[Network] = r.lsdb[Network]
  BY <1>4, KeyFacts, Zenon
<1>6. Numbers(q, m)
  BY <1>1, <1>2, <1>4, <1>5, KeyFacts DEF Numbers
<1>7. AllGrown(r, q, m) /\ RouterStays(q)
  BY <1>1, <1>2, <1>4, <1>5, KeyFacts, Zenon DEF AllGrown, Grown, RouterStays
<1> QED BY <1>4, <1>5, <1>6, <1>7, KeyFacts DEF q

(* A network-LSA with the number that network_lsa_seqnum was set to. *)
LEMMA NetworkNumbers ==
    ASSUME NEW r \in Routers, NEW n, NEW m, NEW seq \in Nat,
           m[Router] \in Nat, m[Network] \in Nat, m[Router] <= r.lsdb[Router].seq,
           r.seqnum = seq, seq > m[Network]
    PROVE  LET q == originate(r, Network, Instance(seq, 0, NetworkBody), n)
           IN  /\ q \in Routers /\ Numbers(q, m) /\ AllGrown(r, q, m)
               /\ q.lsdb[Router] = r.lsdb[Router]
<1> DEFINE lsa == Instance(seq, 0, NetworkBody)
           q   == originate(r, Network, lsa, n)
<1>1. lsa \in Instances /\ lsa.seq = seq
  BY Zenon DEF Instance, Instances, NetworkBody
<1> HIDE DEF lsa
<1>2. /\ q \in Routers
      /\ q.lsdb[Network] = lsa
      /\ \A j \in Keys \ {Network} : q.lsdb[j] = r.lsdb[j]
      /\ q.received = r.received \ {Network}
      /\ q.seqnum = r.seqnum
  BY <1>1, KeyFacts, OriginateShape
<1> HIDE DEF q
<1>3. q.lsdb[Router] = r.lsdb[Router] /\ (Router \in q.received <=> Router \in r.received)
  BY <1>2, KeyFacts, Zenon
<1>4. Numbers(q, m)
  BY <1>1, <1>2, <1>3 DEF Numbers
<1>5. AllGrown(r, q, m)
  BY <1>1, <1>2, <1>3, Zenon DEF AllGrown, Grown
<1> QED BY <1>2, <1>3, <1>4, <1>5, Zenon DEF q, lsa

(* What every function that concerns the network-LSA preserves. *)
NumbersKept(r, q, m) ==
    /\ q \in Routers /\ Numbers(q, m) /\ AllGrown(r, q, m)
    /\ q.lsdb[Router] = r.lsdb[Router]

LEMMA RefreshNumbers ==
    ASSUME NEW r \in Routers, NEW s, NEW n, NEW m, Numbers(r, m),
           m[Network] <= r.lsdb[Network].seq
    PROVE  NumbersKept(r, ospf_network_lsa_refresh(r, s, n), m)
<1> DEFINE seq == r.lsdb[Network].seq + 1
           old == [r EXCEPT !.rxmt = @ \ {Network}, !.refresh = @ \ {Network}]
           new == [old EXCEPT !.seqnum = seq]
           q   == ospf_network_lsa_refresh(r, s, n)
<1>1. seq \in Nat /\ seq > m[Network] /\ seq > r.lsdb[Network].seq
  BY KeyFacts, SeqTyped DEF Numbers
<1>2. /\ old \in Routers /\ old.lsdb = r.lsdb /\ old.received = r.received
      /\ old.refresh = r.refresh \ {Network} /\ old.self = r.self /\ old.seqnum = r.seqnum
  BY Zenon DEF Routers
<1>3. /\ new \in Routers /\ new.lsdb = r.lsdb /\ new.received = r.received
      /\ new.refresh = r.refresh \ {Network} /\ new.self = r.self /\ new.seqnum = seq
  <2> HIDE DEF old, seq
  <2> QED BY <1>1, <1>2, Zenon DEF Routers
<1>4. CASE n # "Full"
  <2>1. q = old
    BY <1>4, Zenon DEF ospf_network_lsa_refresh
  <2> HIDE DEF q, old
  <2> QED BY <1>2, <2>1, Zenon DEF NumbersKept, Numbers, AllGrown, Grown, q
<1>5. CASE n = "Full" /\ s = "DR"
  <2>1. q = originate(new, Network, Instance(seq, 0, NetworkBody), n)
    BY <1>5, Zenon DEF ospf_network_lsa_refresh
  <2> HIDE DEF q, old, new, seq
  <2>2. /\ q \in Routers /\ Numbers(q, m) /\ AllGrown(new, q, m)
        /\ q.lsdb[Router] = new.lsdb[Router]
    BY <1>1, <1>3, <2>1, NetworkNumbers DEF Numbers
  <2>3. AllGrown(r, q, m)
    BY <1>3, <2>2, Zenon DEF AllGrown, Grown
  <2> QED BY <1>3, <2>2, <2>3, Zenon DEF NumbersKept, q
<1>6. CASE n = "Full" /\ s # "DR"
  <2>1. q = [new EXCEPT !.self = "stray"]
    BY <1>6, Zenon DEF ospf_network_lsa_refresh
  <2> HIDE DEF q, new
  <2>2. /\ q \in Routers /\ q.lsdb = r.lsdb /\ q.received = r.received
        /\ q.refresh = r.refresh \ {Network} /\ q.self = "stray" /\ q.seqnum = seq
    BY <1>3, <2>1, Zenon DEF Routers
  <2> HIDE DEF seq
  <2>3. Numbers(q, m)
    BY <1>1, <2>2, KeyFacts, SeqTyped DEF Numbers
  <2> QED BY <2>2, <2>3, Zenon DEF NumbersKept, AllGrown, Grown, q
<1> QED BY <1>4, <1>5, <1>6, Zenon

LEMMA UpdateNumbers ==
    ASSUME NEW r \in Routers, NEW s, NEW n, NEW m, Numbers(r, m)
    PROVE  NumbersKept(r, ospf_network_lsa_update(r, s, n), m)
<1> DEFINE q == ospf_network_lsa_update(r, s, n)
<1>1. r.self \in {"none", "own", "stray"} /\ r.seqnum \in Nat
  BY Zenon DEF Routers
<1>2. CASE r.self = "own"
  <2>1. q = ospf_network_lsa_refresh(r, s, n)
    BY <1>2, Zenon DEF ospf_network_lsa_update
  <2> QED BY <1>2, <2>1, RefreshNumbers, Zenon DEF Numbers
<1>3. CASE r.self = "stray" \/ (r.self = "none" /\ n # "Full")
  <2>1. q = r
    BY <1>3, Zenon DEF ospf_network_lsa_update
  <2> HIDE DEF q
  <2> QED BY <2>1, Zenon DEF NumbersKept, AllGrown, Grown, q
<1>4. CASE r.self = "none" /\ n = "Full"
  <2> DEFINE p == [r EXCEPT !.seqnum = @ + 1]
             seq == r.seqnum + 1
  <2>1. q = originate(p, Network, Instance(seq, 0, NetworkBody), n)
    BY <1>4, Zenon DEF ospf_network_lsa_update, ospf_network_lsa_new
  <2>2. /\ p \in Routers /\ p.lsdb = r.lsdb /\ p.received = r.received
        /\ p.seqnum = seq
    BY <1>1 DEF Routers
  <2>3. seq \in Nat /\ seq > m[Network]
    BY <1>1 DEF Numbers
  <2> HIDE DEF p, seq, q
  <2>4. /\ q \in Routers /\ Numbers(q, m) /\ AllGrown(p, q, m)
        /\ q.lsdb[Router] = p.lsdb[Router]
    BY <2>1, <2>2, <2>3, NetworkNumbers, Zenon DEF Numbers
  <2>5. AllGrown(r, q, m)
    BY <2>2, <2>4, Zenon DEF AllGrown, Grown
  <2> QED BY <2>2, <2>4, <2>5, Zenon DEF NumbersKept, q
<1> QED BY <1>1, <1>2, <1>3, <1>4, Zenon

LEMMA FlushNumbers ==
    ASSUME NEW r \in Routers, NEW n, NEW m, Numbers(r, m)
    PROVE  NumbersKept(r, ospf_lsa_flush_area(r, Network, n), m)
<1> DEFINE q == ospf_lsa_flush_area(r, Network, n)
<1>1. /\ q \in Routers
      /\ q.lsdb = [r.lsdb EXCEPT ![Network].age = OSPF_LSA_MAXAGE]
      /\ q.received = r.received /\ q.refresh = r.refresh /\ q.self = r.self
      /\ q.seqnum = r.seqnum
  BY KeyFacts, FlushShape, ZenonT(30)
<1> HIDE DEF q
<1>2. q.lsdb[Router] = r.lsdb[Router] /\ q.lsdb[Network].age = OSPF_LSA_MAXAGE
      /\ q.lsdb[Network].seq = r.lsdb[Network].seq
  BY <1>1, KeyFacts DEF Routers, Instances
<1>3. Numbers(q, m)
  BY <1>1, <1>2, Zenon DEF Numbers
<1>4. AllGrown(r, q, m)
  BY <1>1, <1>2, Zenon DEF AllGrown, Grown, IsMaxAge
<1> QED BY <1>1, <1>2, <1>3, <1>4, Zenon DEF NumbersKept, q

LEMMA FlushSelfNumbers ==
    ASSUME NEW r \in Routers, NEW n, NEW m, Numbers(r, m)
    PROVE  NumbersKept(r, flush_network_self(r, n), m)
<1> DEFINE q == flush_network_self(r, n)
           p == IF r.self = "own" THEN ospf_lsa_flush_area(r, Network, n) ELSE r
<1>1. q = [p EXCEPT !.self = "none"]
  BY Zenon DEF flush_network_self
<1>2. NumbersKept(r, p, m)
  BY FlushNumbers, Zenon DEF NumbersKept, AllGrown, Grown
<1> HIDE DEF p
<1>3. /\ q \in Routers /\ q.self = "none" /\ q.seqnum = p.seqnum
      /\ q.lsdb = p.lsdb /\ q.refresh = p.refresh /\ q.received = p.received
  BY <1>1, <1>2, Zenon DEF NumbersKept, Routers
<1> HIDE DEF q
<1> QED BY <1>2, <1>3, Zenon DEF NumbersKept, Numbers, AllGrown, Grown, q

(* An instance that came back is installed only when it is more recent, so   *)
(* the database goes on bounding the numbers used.                           *)
LEMMA ReceiveNumbers ==
    ASSUME NEW r \in Routers, NEW s, NEW n, NEW m, Numbers(r, m), RouterStays(r),
           NEW k \in Keys, NEW lsa \in Instances
    PROVE  LET q == ospf_ls_upd(r, k, lsa, s, n)
           IN  q \in Routers /\ Numbers(q, m) /\ AllGrown(r, q, m) /\ RouterStays(q)
<1> DEFINE q == ospf_ls_upd(r, k, lsa, s, n)
           p == ospf_lsa_install(r, k, lsa, TRUE)
           o == ospf_process_self_originated_lsa(p, k, s, n)
<1>1. \/ q = r
      \/ q = [r EXCEPT !.rxmt = @ \ {k}]
      \/ q = [r EXCEPT !.sent = @ \cup {k}]
      \/ q = o /\ more_recent(lsa, r.lsdb[k])
  <2> DEFINE f == ospf_flood(r, k, lsa, s, n)
             u == [r EXCEPT !.rxmt = @ \ {k}]
             v == [r EXCEPT !.sent = @ \cup {k}]
             c == more_recent(lsa, r.lsdb[k])
  <2>1. f = r \/ f = o
    BY Zenon DEF ospf_flood
  <2>2. q = r \/ (q = f /\ c) \/ q = u \/ q = v
    <3> HIDE DEF f, u, v
    <3> QED BY DEF ospf_ls_upd, f, u, v
  <2> QED BY <2>1, <2>2, Zenon
<1>2. CASE q = r \/ q = [r EXCEPT !.rxmt = @ \ {k}] \/ q = [r EXCEPT !.sent = @ \cup {k}]
  <2>1. /\ q \in Routers /\ q.seqnum = r.seqnum
        /\ q.lsdb = r.lsdb /\ q.received = r.received /\ q.refresh = r.refresh
        /\ q.self = r.self
    BY <1>2 DEF Routers
  <2> HIDE DEF q
  <2> QED BY <2>1, Zenon DEF Numbers, AllGrown, Grown, RouterStays, q
<1>3. CASE q = o /\ more_recent(lsa, r.lsdb[k])
  <2>1. /\ p \in Routers /\ p.self = r.self /\ p.seqnum = r.seqnum
        /\ p.received = r.received \cup {k} /\ p.refresh = r.refresh \ {k}
        /\ p.lsdb[k] = lsa
        /\ \A j \in Keys \ {k} : p.lsdb[j] = r.lsdb[j]
    BY Zenon DEF ospf_lsa_install, Routers
  <2> HIDE DEF p
  <2>2. lsa.seq \in Nat /\ r.lsdb[k].seq \in Nat /\ lsa.seq >= r.lsdb[k].seq
    BY <1>3, SeqTyped DEF more_recent, Instances
  <2>3. k = Router \/ k = Network
    BY Zenon DEF Keys
  <2>4. Numbers(p, m)
    BY <2>1, <2>2, <2>3, KeyFacts, SeqTyped DEF Numbers
  <2>5. AllGrown(r, p, m)
    BY <2>1, <2>3, KeyFacts, Zenon DEF AllGrown, Grown
  <2>6. o \in Routers /\ Numbers(o, m) /\ AllGrown(p, o, m) /\ RouterStays(o)
    <3>1. CASE k = Router
      <4>1. o = ospf_router_lsa_update_area(p, n)
        BY <3>1, KeyFacts, Zenon DEF ospf_process_self_originated_lsa
      <4> QED BY <2>1, <2>4, <4>1, RouterNumbers
    <3>2. CASE k = Network
      <4>1. \/ o = ospf_network_lsa_update(p, s, n)
            \/ o = ospf_lsa_flush_area(p, Network, n)
        BY <3>2, KeyFacts, Zenon DEF ospf_process_self_originated_lsa
      <4>2. NumbersKept(p, o, m)
        BY <2>1, <2>4, <4>1, UpdateNumbers, FlushNumbers
      <4>3. p.lsdb[Router] = r.lsdb[Router]
        BY <2>1, <3>2, KeyFacts, Zenon
      <4> HIDE DEF o
      <4> QED BY <4>2, <4>3, Zenon DEF NumbersKept, RouterStays
    <3> QED BY <2>3, <3>1, <3>2, Zenon
  <2> HIDE DEF o
  <2>7. AllGrown(r, o, m)
    BY <2>5, <2>6, GrownTransitive, Zenon
  <2> QED BY <1>3, <2>6, <2>7, Zenon
<1> QED BY <1>1, <1>2, <1>3, Zenon

-----------------------------------------------------------------------------
(* The inductive invariant, on top of that of OwnLsasProofs. *)
SeqInv ==
    /\ Inv
    /\ mine \in [Keys -> Nat] /\ Numbers(router, mine) /\ RouterStays(router)

(* The end of a handler: mine takes up the numbers it used. *)
LEMMA BecameNumbers ==
    ASSUME SeqInv, NEW r \in Routers, Numbers(r, mine), AllGrown(router, r, mine),
           RouterStays(r), Becomes(r)
    PROVE  /\ mine' \in [Keys -> Nat] /\ Numbers(router', mine') /\ RouterStays(router')
           /\ \A k \in Keys : NewNumber(k)
<1>1. /\ router'.lsdb = r.lsdb /\ router'.received = r.received
      /\ router'.refresh = r.refresh /\ router'.self = r.self
      /\ router'.seqnum = r.seqnum
  BY Zenon DEF Becomes, Routers
<1>2. /\ mine \in [Keys -> Nat]
      /\ mine' = [k \in Keys |->
                   IF k \in r.received \/ r.lsdb[k] = NoLSA \/ r.lsdb[k].seq < mine[k]
                   THEN mine[k] ELSE r.lsdb[k].seq]
  BY Zenon DEF SeqInv, Becomes
<1>3. mine' \in [Keys -> Nat]
  BY <1>2, SeqTyped, Zenon
<1>4. Numbers(r, mine')
  <2>1. /\ mine'[Router] \in Nat /\ mine'[Network] \in Nat
        /\ mine'[Router] = mine[Router] \/ mine'[Router] = r.lsdb[Router].seq
        /\ \/ mine'[Network] = mine[Network]
           \/ mine'[Network] = r.lsdb[Network].seq /\ Network \notin r.received
    BY <1>2, <1>3, KeyFacts, Zenon
  <2>2. r.lsdb[Router].seq \in Nat /\ r.lsdb[Network].seq \in Nat
    BY KeyFacts, SeqTyped, Zenon
  <2> QED BY <2>1, <2>2 DEF Numbers
<1>5. Numbers(router', mine') /\ RouterStays(router')
  BY <1>1, <1>4, Zenon DEF Numbers, RouterStays
<1>6. \A k \in Keys : NewNumber(k)
  BY <1>1, Zenon DEF AllGrown, Grown, NewNumber, Keys
<1> QED BY <1>3, <1>5, <1>6, Zenon

LEMMA SeqInit == Init => SeqInv
<1> SUFFICES ASSUME Init PROVE SeqInv
  OBVIOUS
<1>1. /\ router.lsdb[Network] = NoLSA
      /\ router.lsdb[Router] = Instance(OSPF_INITIAL_SEQUENCE_NUMBER, 0, RouterBody("Down"))
      /\ mine[Router] = OSPF_INITIAL_SEQUENCE_NUMBER /\ mine[Network] = 0
      /\ mine \in [Keys -> Nat]
      /\ router.seqnum = 0
  BY KeyFacts, Zenon DEF Init, OSPF_INITIAL_SEQUENCE_NUMBER
<1>2. Numbers(router, mine) /\ RouterStays(router)
  BY <1>1 DEF Numbers, RouterStays, Instance, NoLSA, OSPF_INITIAL_SEQUENCE_NUMBER,
              IsMaxAge, OSPF_LSA_MAXAGE
<1> QED BY <1>1, <1>2, InitInv, Zenon DEF SeqInv

LEMMA FullNumbers ==
    ASSUME SeqInv, NEW n
    PROVE  LET q == full_changed(router, n)
           IN  q \in Routers /\ Numbers(q, mine) /\ AllGrown(router, q, mine) /\ RouterStays(q)
<1> DEFINE p == ospf_router_lsa_update_area(router, n)
           q == full_changed(router, n)
<1>1. p \in Routers /\ Numbers(p, mine) /\ AllGrown(router, p, mine) /\ RouterStays(p)
  BY RouterNumbers, Zenon DEF SeqInv, Inv, TypeOK
<1> HIDE DEF p
<1>2. \/ q = p
      \/ q = flush_network_self(p, n)
      \/ q = ospf_network_lsa_update(p, state, n)
  BY Zenon DEF full_changed, p
<1>3. q = p \/ NumbersKept(p, q, mine)
  BY <1>1, <1>2, UpdateNumbers, FlushSelfNumbers, Zenon
<1> HIDE DEF q
<1>4. AllGrown(router, q, mine)
  BY <1>1, <1>3, GrownTransitive, Zenon DEF NumbersKept
<1> QED BY <1>1, <1>3, <1>4, Zenon DEF NumbersKept, RouterStays, q

(* A router that differs only in its lists. *)
LEMMA ListsOnly ==
    ASSUME NEW r, NEW q, NEW m, q \in Routers, Numbers(r, m), RouterStays(r),
           q.lsdb = r.lsdb, q.received = r.received, q.refresh \subseteq r.refresh,
           q.self = r.self, q.seqnum = r.seqnum
    PROVE  Numbers(q, m) /\ AllGrown(r, q, m) /\ RouterStays(q)
BY Zenon DEF Numbers, AllGrown, Grown, RouterStays

(* Every handler ends with a router that has kept its numbers. *)
LEMMA HandlerNumbers ==
    ASSUME SeqInv,
           \/ \E s \in States : ism_change_state(s)
           \/ nsm_negotiation_done \/ nsm_full \/ nsm_kill_nbr
           \/ receive_update \/ ospf_ls_ack
           \/ \E k \in Keys : ospf_lsa_refresh_walker(k)
           \/ ospf_maxage_lsa_remover
    PROVE  \E r \in Routers : /\ Numbers(r, mine) /\ AllGrown(router, r, mine)
                              /\ RouterStays(r) /\ Becomes(r)
<1>1. /\ router \in Routers /\ Numbers(router, mine) /\ RouterStays(router)
      /\ RouterInv(router, state, nbr, raced)
  BY Zenon DEF SeqInv, Inv, TypeOK
<1>2. ASSUME NEW s \in States, ism_change_state(s)
      PROVE  \E r \in Routers : /\ Numbers(r, mine) /\ AllGrown(router, r, mine)
                                /\ RouterStays(r) /\ Becomes(r)
  <2> DEFINE p == ospf_router_lsa_update_area(router, nbr)
             q == IF s = "DR" THEN ospf_network_lsa_update(p, s, nbr)
                              ELSE flush_network_self(p, nbr)
  <2>1. p \in Routers /\ Numbers(p, mine) /\ AllGrown(router, p, mine) /\ RouterStays(p)
    BY <1>1, RouterNumbers, Zenon
  <2>2. Becomes(q)
    BY <1>2, Zenon DEF ism_change_state
  <2> HIDE DEF p
  <2>3. NumbersKept(p, q, mine)
    BY <2>1, UpdateNumbers, FlushSelfNumbers, Zenon
  <2> HIDE DEF q
  <2>4. AllGrown(router, q, mine)
    BY <2>1, <2>3, GrownTransitive, Zenon DEF NumbersKept
  <2> QED BY <2>1, <2>2, <2>3, <2>4, Zenon DEF NumbersKept, RouterStays
<1>3. CASE nsm_negotiation_done
  <2> DEFINE q == [router EXCEPT !.rxmt = {k \in Keys : IsMaxAge(router.lsdb[k])}]
  <2>1. Becomes(q)
    BY <1>3, Zenon DEF nsm_negotiation_done
  <2>2. /\ q \in Routers /\ q.lsdb = router.lsdb /\ q.received = router.received
        /\ q.refresh = router.refresh /\ q.self = router.self /\ q.seqnum = router.seqnum
    BY <1>1, Zenon DEF Routers
  <2> HIDE DEF q
  <2>3. Numbers(q, mine) /\ AllGrown(router, q, mine) /\ RouterStays(q)
    BY <1>1, <2>2, ListsOnly, Zenon
  <2> QED BY <2>1, <2>2, <2>3, Zenon
<1>4. CASE nsm_full
  <2>1. Becomes(full_changed(router, "Full"))
    BY <1>4, Zenon DEF nsm_full
  <2> QED BY <2>1, FullNumbers, Zenon
<1>5. CASE nsm_kill_nbr
  <2> DEFINE p == IF nbr = "Full" THEN full_changed(router, "Down") ELSE router
             q == [p EXCEPT !.rxmt = {}]
  <2>1. Becomes(q)
    BY <1>5, Zenon DEF nsm_kill_nbr
  <2>2. p \in Routers /\ Numbers(p, mine) /\ AllGrown(router, p, mine) /\ RouterStays(p)
    BY <1>1, FullNumbers, Zenon DEF AllGrown, Grown
  <2> HIDE DEF p
  <2>3. /\ q \in Routers /\ q.lsdb = p.lsdb /\ q.received = p.received
        /\ q.refresh = p.refresh /\ q.self = p.self /\ q.seqnum = p.seqnum
    BY <2>2, Zenon DEF Routers
  <2> HIDE DEF q
  <2>4. Numbers(q, mine) /\ AllGrown(p, q, mine) /\ RouterStays(q)
    BY <2>2, <2>3, ListsOnly, Zenon
  <2> QED BY <2>1, <2>2, <2>3, <2>4, GrownTransitive, Zenon
<1>6. CASE receive_update
  <2> DEFINE m == Head(toUs).lsas
             Take(r, k) == IF k \in Carried(m) THEN ospf_ls_upd(r, k, m[k], state, nbr) ELSE r
             p == Take(router, Router)
             q == Take(p, Network)
  <2>1. toUs # <<>> /\ Becomes(q)
    BY <1>6, Zenon DEF receive_update
  <2>2. m \in [Keys -> Instances]
    BY <2>1, PacketTaken, Zenon DEF SeqInv, Inv, TypeOK
  <2> HIDE DEF m
  <2>3. ASSUME NEW r \in Routers, NEW k \in Keys, Numbers(r, mine), RouterStays(r)
        PROVE  /\ Take(r, k) \in Routers /\ Numbers(Take(r, k), mine)
               /\ AllGrown(r, Take(r, k), mine) /\ RouterStays(Take(r, k))
    <3>1. m[k] \in Instances
      BY <2>2, Zenon
    <3>2. CASE k \in Carried(m)
      BY <2>3, <3>1, <3>2, ReceiveNumbers, Zenon
    <3>3. CASE k \notin Carried(m)
      BY <2>3, <3>3, Zenon DEF AllGrown, Grown
    <3> QED BY <3>2, <3>3, Zenon
  <2>4. p \in Routers /\ Numbers(p, mine) /\ AllGrown(router, p, mine) /\ RouterStays(p)
    BY <1>1, <2>3, KeyFacts, Zenon
  <2> HIDE DEF p
  <2>5. q \in Routers /\ Numbers(q, mine) /\ AllGrown(p, q, mine) /\ RouterStays(q)
    BY <2>3, <2>4, KeyFacts, Zenon
  <2> HIDE DEF q
  <2> QED BY <2>1, <2>4, <2>5, GrownTransitive, Zenon
<1>7. CASE ospf_ls_ack
  <2> DEFINE m == Head(toUs).lsas
             acked == {k \in Carried(m) : nbr # "Down" /\ m[k] = router.lsdb[k]}
             q == [router EXCEPT !.rxmt = @ \ acked]
  <2>1. Becomes(q)
    BY <1>7, Zenon DEF ospf_ls_ack
  <2> HIDE DEF acked
  <2>2. /\ q \in Routers /\ q.lsdb = router.lsdb /\ q.received = router.received
        /\ q.refresh = router.refresh /\ q.self = router.self /\ q.seqnum = router.seqnum
    BY <1>1, Zenon DEF Routers
  <2> HIDE DEF q
  <2>3. Numbers(q, mine) /\ AllGrown(router, q, mine) /\ RouterStays(q)
    BY <1>1, <2>2, ListsOnly
  <2> QED BY <2>1, <2>2, <2>3
<1>8. ASSUME NEW k \in Keys, ospf_lsa_refresh_walker(k)
      PROVE  \E r \in Routers : /\ Numbers(r, mine) /\ AllGrown(router, r, mine)
                                /\ RouterStays(r) /\ Becomes(r)
  <2> DEFINE p == [router EXCEPT !.refresh = @ \ {k}]
             q == IF k = Router THEN ospf_router_lsa_update_area(p, nbr)
                                ELSE ospf_network_lsa_refresh(p, state, nbr)
  <2>1. k \in router.refresh /\ Becomes(q)
    BY <1>8, Zenon DEF ospf_lsa_refresh_walker
  <2>2. /\ p \in Routers /\ p.lsdb = router.lsdb /\ p.received = router.received
        /\ p.refresh = router.refresh \ {k} /\ p.self = router.self
        /\ p.seqnum = router.seqnum
    BY <1>1, Zenon DEF Routers
  <2> HIDE DEF p
  <2>3. Numbers(p, mine) /\ AllGrown(router, p, mine) /\ RouterStays(p)
    BY <1>1, <2>2, ListsOnly, Zenon
  <2>4. q \in Routers /\ Numbers(q, mine) /\ AllGrown(p, q, mine) /\ RouterStays(q)
    <3>1. CASE k = Router
      BY <2>2, <2>3, <3>1, RouterNumbers, Zenon
    <3>2. CASE k = Network
      <4>1. mine[Network] <= p.lsdb[Network].seq
        BY <1>1, <2>1, <2>2, <3>2, Zenon DEF Numbers
      <4>2. NumbersKept(p, q, mine)
        BY <2>2, <2>3, <3>2, <4>1, KeyFacts, RefreshNumbers, Zenon
      <4> HIDE DEF q
      <4> QED BY <2>3, <4>2, Zenon DEF NumbersKept, RouterStays
    <3> QED BY <3>1, <3>2, Zenon DEF Keys
  <2> HIDE DEF q
  <2> QED BY <2>1, <2>3, <2>4, GrownTransitive, Zenon
<1>9. CASE ospf_maxage_lsa_remover
  <2> DEFINE q == [router EXCEPT
                    !.lsdb     = [k \in Keys |-> IF k \in Removable THEN NoLSA ELSE @[k]],
                    !.refresh  = @ \ Removable,
                    !.received = @ \ Removable,
                    !.recent   = @ \ Removable]
  <2>1. Becomes(q)
    BY <1>9, Zenon DEF ospf_maxage_lsa_remover
  <2>2. NoLSA \in Instances /\ NoLSA.seq = 0
        /\ \A k \in Removable : IsMaxAge(router.lsdb[k])
    BY Zenon DEF NoLSA, Instance, Instances, OSPF_LSA_MAXAGE, Removable
  <2>3. /\ q \in Routers /\ q.self = router.self /\ q.seqnum = router.seqnum
        /\ \A k \in Keys : q.lsdb[k] = IF k \in Removable THEN NoLSA ELSE router.lsdb[k]
        /\ q.refresh = router.refresh \ Removable
        /\ q.received = router.received \ Removable
    BY <1>1, <2>2, Zenon DEF Routers
  <2> HIDE DEF q
  <2>4. Router \notin Removable
    BY <1>1, <2>2, Zenon DEF RouterStays
  <2>5. Network \in Removable => router.self # "own"
    BY <1>1, <2>2, Zenon DEF RouterInv, NetworkPart, LiveNetwork
  <2>6. Numbers(q, mine) /\ RouterStays(q)
    BY <1>1, <2>2, <2>3, <2>4, <2>5, KeyFacts, SeqTyped DEF Numbers, RouterStays
  <2>7. AllGrown(router, q, mine)
    BY <2>3, KeyFacts, Zenon DEF AllGrown, Grown
  <2> QED BY <2>1, <2>3, <2>6, <2>7, Zenon
<1> QED BY <1>2, <1>3, <1>4, <1>5, <1>6, <1>7, <1>8, <1>9, Zenon

LEMMA SeqNext == SeqInv /\ [Next]_vars => SeqInv' /\ [\A k \in Keys : NewNumber(k)]_vars
<1> SUFFICES ASSUME SeqInv, [Next]_vars
             PROVE  SeqInv' /\ [\A k \in Keys : NewNumber(k)]_vars
  BY Zenon
<1>1. Inv'
  BY NextInv, Zenon DEF SeqInv
<1>2. CASE \E r \in Routers : /\ Numbers(r, mine) /\ AllGrown(router, r, mine)
                              /\ RouterStays(r) /\ Becomes(r)
  BY <1>1, <1>2, BecameNumbers, Zenon DEF SeqInv
<1>3. CASE \/ ospf_ls_req \/ peer_ls_req \/ peer_receive \/ ospf_ls_upd_timer
           \/ min_ls_arrival \/ lose
           \/ \E k \in Keys : peer_maxage_lsa_remover(k)
  <2>1. router \in Routers
    BY Zenon DEF SeqInv, Inv, TypeOK
  <2>2. /\ router' \in Routers /\ mine' = mine
        /\ router'.lsdb = router.lsdb /\ router'.received = router.received
        /\ router'.refresh = router.refresh /\ router'.self = router.self
        /\ router'.seqnum = router.seqnum
    BY <1>3, <2>1, Zenon DEF Routers, ospf_ls_req, peer_ls_req, peer_receive, ospf_ls_upd_timer,
                      min_ls_arrival, lose, peer_maxage_lsa_remover
  <2>3. Numbers(router', mine') /\ RouterStays(router')
    BY <2>2, Zenon DEF SeqInv, Numbers, RouterStays
  <2>4. \A k \in Keys : NewNumber(k)
    BY <2>2, Zenon DEF NewNumber
  <2> QED BY <1>1, <2>2, <2>3, <2>4, Zenon DEF SeqInv
<1>4. CASE UNCHANGED vars
  BY <1>1, <1>4, Zenon DEF vars, SeqInv
<1> QED BY <1>2, <1>3, <1>4, HandlerNumbers, Zenon DEF Next, States

(* However often the router's LSAs are flushed, removed, originated again or *)
(* outdone by instances that come back, every instance it originates has a   *)
(* sequence number it has not used before.                                   *)
THEOREM NumbersNeverReused == Spec => SequenceNumbersGrow
BY SeqInit, SeqNext, PTL DEF Spec, SequenceNumbersGrow
=============================================================================
