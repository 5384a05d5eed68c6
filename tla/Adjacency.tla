------------------------------ MODULE Adjacency ------------------------------
(***************************************************************************)
(* How two neighbours on a point-to-point link bring their databases into  *)
(* line and keep them so: the neighbour state machine (ospf_nsm.c), the    *)
(* exchange of database descriptions, requests, updates and                *)
(* acknowledgments (ospf_packet.c) and flooding (ospf_flood.c).            *)
(*                                                                         *)
(* A packet has room for one LSA: one header, one key or one instance.     *)
(* obuf holds what a router has queued and what is on the link from it, in *)
(* order; hellos go to the front of that queue, so they overtake the rest. *)
(* A handler and the events it schedules are one step: the thread master   *)
(* runs scheduled events before it reads the next packet.                  *)
(*                                                                         *)
(* LSAs come from elsewhere in the area and do not age.  Those of the type *)
(* a pluglet adds, 13, are in custom: a database summary leaves them out.  *)
(***************************************************************************)
EXTENDS Integers, Sequences, FiniteSets

CONSTANTS
    LSAs,           \* keys of LSAs, positive numbers, in the order of the database
    Customs,        \* which of them may be of type 13
    MaxSeq,         \* bound on sequence numbers of LSAs
    Checksums,      \* their checksums
    Databases,      \* what the two databases may hold at the start
    FirstSeq,       \* where the results of random() start
    Stride,         \* and how far apart they are
    SeqMod,         \* 2^32, the width of dd_seqnum
    MaxQueue,       \* bound on the packets under way when a timer sends again
    MaxTroubles     \* bound on packets lost or out of time, restarts and
                    \* neighbours given up

Routers == {1, 2}
Peer(r) == 3 - r

Instance(s, c) == [seq |-> s, sum |-> c]
NoLSA == Instance(0, 0)
Instances == [seq : 1..MaxSeq, sum : Checksums]

ASSUME AdjacencyAssumption ==
    /\ LSAs \subseteq Nat \ {0} /\ IsFiniteSet(LSAs)
    /\ Customs \subseteq SUBSET LSAs
    /\ MaxSeq \in Nat /\ Checksums \subseteq Nat
    /\ Databases \subseteq [Routers -> [LSAs -> Instances \cup {NoLSA}]]
    /\ FirstSeq \in Nat /\ Stride \in Nat /\ SeqMod \in Nat \ {0}
    /\ MaxQueue \in Nat /\ MaxTroubles \in Nat

VARIABLES
    custom,     \* the LSAs of type 13; does not change
    router,     \* of each router: [lsdb, nbr, ls_ack, obuf]
    troubles    \* packets lost, restarts and the like so far

vars == <<custom, router, troubles>>

Down == 0
InitState == 1
ExStart == 2
Exchange == 3
Loading == 4
Full == 5

-----------------------------------------------------------------------------
(* F(v).  TLC evaluates v once, also where it looks for enabled actions. *)
With(v, F(_)) == CHOOSE y \in {F(x) : x \in {v}} : TRUE

(* A list of LSAs, as an ospf_lsdb: an instance or NoLSA for every key. *)
Empty == [l \in LSAs |-> NoLSA]
Keys(db) == {l \in LSAs : db[l] # NoLSA}
First(S) == CHOOSE l \in S : \A k \in S : l <= k
Ascending(S) == {s \in [1..Cardinality(S) -> S] :
                    \A m, n \in 1..Cardinality(S) : m < n => s[m] < s[n]}

(* Positive, zero or negative as a is the more recent, the same or the less *)
(* recent instance.  No LSA is less recent than any.                        *)
ospf_lsa_more_recent(a, b) ==
    IF a.seq > b.seq THEN 1 ELSE IF a.seq < b.seq THEN -1 ELSE a.sum - b.sum

(* Seeded fault: the width is forgotten. *)
NextSeqnum_wide(n) == n + 1

(* dd_seqnum++ *)
NextSeqnum(n) == (n + 1) % SeqMod

NoFlags == [I |-> FALSE, M |-> FALSE, MS |-> FALSE]
AllFlags == [I |-> TRUE, M |-> TRUE, MS |-> TRUE]
DbDesc(flags, seqnum, l, i) ==
    [type |-> "DbDesc", flags |-> flags, seqnum |-> seqnum, lsa |-> l, inst |-> i]
LsReq(l)    == [type |-> "LsReq", lsa |-> l]
LsUpd(l, i) == [type |-> "LsUpd", lsa |-> l, inst |-> i]
LsAck(l, i) == [type |-> "LsAck", lsa |-> l, inst |-> i]
Send(o, p)  == [o EXCEPT !.obuf = Append(@, p)]

NoPacket == DbDesc(NoFlags, 0, 0, NoLSA)

(* A neighbour that is not known is in state Down. *)
ospf_nbr_new ==
    [state |-> Down, dd_seqnum |-> 0, dd_flags |-> AllFlags, last_recv |-> NoPacket,
     last_send |-> NoPacket, db_sum |-> Empty, ls_req |-> Empty, ls_rxmt |-> Empty,
     ls_req_last |-> 0, t_ls_req |-> FALSE]

(* The next header of the summary.  More is cleared with the last one. *)
ospf_db_desc_send(o) ==
    LET n     == o.nbr
        keys  == Keys(n.db_sum)
        l     == IF keys = {} THEN 0 ELSE First(keys)
        flags == IF keys \subseteq {l} /\ n.state >= Exchange
                 THEN [n.dd_flags EXCEPT !.M = FALSE] ELSE n.dd_flags
        p     == DbDesc(flags, n.dd_seqnum, l, IF l = 0 THEN NoLSA ELSE n.db_sum[l])
    IN  Send([o EXCEPT !.nbr.db_sum = [k \in LSAs |-> IF k = l THEN NoLSA ELSE @[k]],
                       !.nbr.dd_flags = flags, !.nbr.last_send = p], p)

ospf_db_desc_resend(o) == Send(o, o.nbr.last_send)

(* Nothing is sent, and no timer started, when nothing is to be requested.  *)
(* ls_req_last is the LSA asked for last, or 0.                             *)
ospf_ls_req_send(o) ==
    LET keys == Keys(o.nbr.ls_req)
    IN  IF keys = {} THEN o
        ELSE Send([o EXCEPT !.nbr.t_ls_req = TRUE, !.nbr.ls_req_last = First(keys)],
                  LsReq(First(keys)))

(* A state up to ExStart ends what an adjacency had going. *)
nsm_clear_adj(n) ==
    [n EXCEPT !.db_sum = Empty, !.ls_req = Empty, !.ls_rxmt = Empty,
              !.ls_req_last = IF n.ls_req = Empty /\ n.ls_rxmt = Empty THEN @ ELSE 0]

(* nsm_change_state, for the states up to ExStart; rnd is random(). *)
nsm_change_state(o, state, rnd) ==
    LET n == IF o.nbr.state > ExStart THEN nsm_clear_adj(o.nbr) ELSE o.nbr
        m == [n EXCEPT !.state = state, !.t_ls_req = FALSE]
    IN  IF state # ExStart THEN [o EXCEPT !.nbr = m]
        ELSE ospf_db_desc_send([o EXCEPT !.nbr =
                [m EXCEPT !.dd_seqnum = IF @ = 0 THEN rnd ELSE NextSeqnum(@),
                          !.dd_flags = AllFlags]])

(* SeqNumberMismatch and BadLSReq. *)
Restart(o, rnd) == nsm_change_state(o, ExStart, rnd)

(* The summary holds every LSA of the types nsm_negotiation_done names. *)
nsm_negotiation_done(o) ==
    [o EXCEPT !.nbr.state = Exchange,
              !.nbr.db_sum = [l \in LSAs |-> IF l \in custom THEN NoLSA ELSE o.lsdb[l]]]

(* Full, unless something is still to be requested. *)
nsm_exchange_done(o) ==
    IF Keys(o.nbr.ls_req) = {} THEN [o EXCEPT !.nbr.state = Full]
    ELSE [(IF o.nbr.t_ls_req THEN o ELSE ospf_ls_req_send(o)) EXCEPT !.nbr.state = Loading]

ospf_ls_request_delete(o, l) ==
    [o EXCEPT !.nbr.ls_req[l] = NoLSA, !.nbr.ls_req_last = IF @ = l THEN 0 ELSE @]

(* LoadingDone, or the next request. *)
ospf_check_nbr_loading(o) ==
    IF o.nbr.state # Loading THEN o
    ELSE IF Keys(o.nbr.ls_req) = {} THEN [o EXCEPT !.nbr.state = Full]
    ELSE IF o.nbr.ls_req_last = 0 THEN ospf_ls_req_send(o) ELSE o

-----------------------------------------------------------------------------
(* Seeded fault: an LSA that is not in the database is not requested. *)
DescribedLSA_known(o, l, i) ==
    LET find == o.lsdb[l]
        c    == ospf_lsa_more_recent(find, i)
    IN  [o EXCEPT !.nbr.ls_req[l] = IF c = -1 /\ find # NoLSA THEN i ELSE @,
                  !.nbr.db_sum[l] = IF c \in {-1, 0} /\ @ = find THEN NoLSA ELSE @]

(* One header of a database description.  Only the value -1 is taken for a  *)
(* more recent LSA of the neighbour.                                        *)
DescribedLSA(o, l, i) ==
    LET find == o.lsdb[l]
        c    == ospf_lsa_more_recent(find, i)
    IN  [o EXCEPT !.nbr.ls_req[l] = IF c = -1 THEN i ELSE @,
                  !.nbr.db_sum[l] = IF c \in {-1, 0} /\ @ = find THEN NoLSA ELSE @]

ospf_db_desc_proc(o, p) ==
    LET master == o.nbr.dd_flags.MS
        over   == ~p.flags.M /\ ~o.nbr.dd_flags.M
    IN  With(IF p.lsa = 0 THEN o ELSE DescribedLSA(o, p.lsa, p.inst), LAMBDA a :
        With([a EXCEPT !.nbr.dd_seqnum = IF master THEN NextSeqnum(@) ELSE p.seqnum],
             LAMBDA b :
        With(IF master /\ over THEN b ELSE ospf_db_desc_send(b), LAMBDA sent :
        With([sent EXCEPT !.nbr.last_recv = p], LAMBDA saved :
        With(IF saved.nbr.t_ls_req THEN saved ELSE ospf_ls_req_send(saved), LAMBDA req :
            IF IF master THEN over ELSE ~p.flags.M /\ ~sent.nbr.dd_flags.M
            THEN nsm_exchange_done(req) ELSE req)))))

ospf_db_desc_is_dup(o, p) ==
    p.flags = o.nbr.last_recv.flags /\ p.seqnum = o.nbr.last_recv.seqnum

(* ExStart: the router with the higher identifier becomes master. *)
Negotiate(o, r, p) ==
    LET slave  == p.flags = AllFlags /\ p.lsa = 0 /\ Peer(r) > r
        master == /\ ~p.flags.MS /\ ~p.flags.I
                  /\ p.seqnum = o.nbr.dd_seqnum /\ Peer(r) < r
    IN  IF slave
        THEN With(nsm_negotiation_done(
                [o EXCEPT !.nbr.dd_seqnum = p.seqnum, !.nbr.dd_flags.I = FALSE,
                          !.nbr.dd_flags.MS = FALSE]), LAMBDA new : ospf_db_desc_proc(new, p))
        ELSE IF master
        THEN With(nsm_negotiation_done([o EXCEPT !.nbr.dd_flags.I = FALSE]),
                  LAMBDA new : ospf_db_desc_proc(new, p))
        ELSE o

(* What the next packet of an exchange must be. *)
InSequence(o, p) ==
    /\ p.flags.MS = o.nbr.last_recv.flags.MS
    /\ ~p.flags.I
    /\ p.seqnum = IF o.nbr.dd_flags.MS THEN o.nbr.dd_seqnum ELSE NextSeqnum(o.nbr.dd_seqnum)

(* late: RouterDeadInterval has passed since the last packet was sent. *)
ospf_db_desc(o, r, p, late, rnd) ==
    LET dup == ospf_db_desc_is_dup(o, p)
    IN  CASE o.nbr.state = Down      -> o
          [] o.nbr.state = InitState ->
                With(nsm_change_state(o, ExStart, rnd), LAMBDA new : Negotiate(new, r, p))
          [] o.nbr.state = ExStart   -> Negotiate(o, r, p)
          [] o.nbr.state = Exchange  ->
                IF dup THEN IF o.nbr.dd_flags.MS THEN o ELSE ospf_db_desc_resend(o)
                ELSE IF InSequence(o, p) THEN ospf_db_desc_proc(o, p) ELSE Restart(o, rnd)
          [] OTHER ->
                IF dup /\ o.nbr.dd_flags.MS THEN o
                ELSE IF dup /\ ~late THEN ospf_db_desc_resend(o) ELSE Restart(o, rnd)

(* A request for what is not there starts the exchange again. *)
ospf_ls_req(o, p, rnd) ==
    IF o.nbr.state < Exchange THEN o
    ELSE IF o.lsdb[p.lsa] = NoLSA THEN Restart(o, rnd)
    ELSE Send(o, LsUpd(p.lsa, o.lsdb[p.lsa]))

-----------------------------------------------------------------------------
ospf_ls_retransmit_add(o, l, i) ==
    [o EXCEPT !.nbr.ls_rxmt[l] = IF ospf_lsa_more_recent(@, i) < 0 THEN i ELSE @]

(* The old instance of an LSA leaves the list; so does a new one with the   *)
(* same sequence number.                                                    *)
ospf_ls_retransmit_delete_nbr_if(o, l, i) ==
    [o EXCEPT !.nbr.ls_rxmt[l] = IF @.seq = i.seq THEN NoLSA ELSE @]

(* Seeded fault: an LSA that has come stays requested. *)
ospf_flood_through_interface_asked(o, l, i, from_nbr) ==
    LET c   == ospf_lsa_more_recent(o.nbr.ls_req[l], i)
        req == o.nbr.state < Full /\ o.nbr.ls_req[l] # NoLSA
        a   == IF req /\ c <= 0
               THEN ospf_check_nbr_loading(o) ELSE o
    IN  IF o.nbr.state < Exchange
        THEN IF l \in custom /\ o.nbr.state # Down THEN ospf_ls_retransmit_add(o, l, i) ELSE o
        ELSE IF from_nbr \/ (req /\ c >= 0) THEN a
        ELSE Send(ospf_ls_retransmit_add(a, l, i), LsUpd(l, i))

(* Whether the neighbour needs the LSA.  One of type 13 also waits for a    *)
(* neighbour that does not take part in flooding yet.                       *)
ospf_flood_through_interface(o, l, i, from_nbr) ==
    LET c   == ospf_lsa_more_recent(o.nbr.ls_req[l], i)
        req == o.nbr.state < Full /\ o.nbr.ls_req[l] # NoLSA
        a   == IF req /\ c <= 0
               THEN ospf_check_nbr_loading(ospf_ls_request_delete(o, l)) ELSE o
    IN  IF o.nbr.state < Exchange
        THEN IF l \in custom /\ o.nbr.state # Down THEN ospf_ls_retransmit_add(o, l, i) ELSE o
        ELSE IF from_nbr \/ (req /\ c >= 0) THEN a
        ELSE Send(ospf_ls_retransmit_add(a, l, i), LsUpd(l, i))

(* Seeded fault: the old instance goes on being retransmitted. *)
ospf_lsa_install_bare(o, l, i) == [o EXCEPT !.lsdb[l] = i]

ospf_lsa_install(o, l, i) ==
    [ospf_ls_retransmit_delete_nbr_if(o, l, o.lsdb[l]) EXCEPT !.lsdb[l] = i]

(* A more recent instance has come, from the neighbour or from elsewhere. *)
ospf_flood(o, l, i, from_nbr) ==
    With(ospf_flood_through_interface(o, l, i, from_nbr), LAMBDA sent :
        LET a == ospf_lsa_install(sent, l, i)
        IN  IF from_nbr THEN [a EXCEPT !.ls_ack = Append(@, LsAck(l, i))] ELSE a)

(* Seeded fault: a different instance is taken for a more recent one. *)
ospf_ls_upd_any(o, p, recent, rnd) ==
    LET l       == p.lsa
        current == o.lsdb[l]
        c       == ospf_lsa_more_recent(current, p.inst)
    IN  IF o.nbr.state < Exchange THEN o
        ELSE IF c # 0
        THEN IF recent /\ current # NoLSA THEN o ELSE ospf_flood(o, l, p.inst, TRUE)
        ELSE IF o.nbr.ls_req[l] # NoLSA THEN Restart(o, rnd)
        ELSE IF c = 0
        THEN IF o.nbr.ls_rxmt[l] # NoLSA THEN [o EXCEPT !.nbr.ls_rxmt[l] = NoLSA]
             ELSE Send(o, LsAck(l, p.inst))
        ELSE IF recent THEN o ELSE Send(o, LsUpd(l, current))

(* recent: MinLSArrival has not passed since the database copy came. *)
ospf_ls_upd(o, p, recent, rnd) ==
    LET l       == p.lsa
        current == o.lsdb[l]
        c       == ospf_lsa_more_recent(current, p.inst)
    IN  IF o.nbr.state < Exchange THEN o
        ELSE IF c < 0
        THEN IF recent /\ current # NoLSA THEN o ELSE ospf_flood(o, l, p.inst, TRUE)
        ELSE IF o.nbr.ls_req[l] # NoLSA THEN Restart(o, rnd)
        ELSE IF c = 0
        THEN IF o.nbr.ls_rxmt[l] # NoLSA THEN [o EXCEPT !.nbr.ls_rxmt[l] = NoLSA]
             ELSE Send(o, LsAck(l, p.inst))
        ELSE IF recent THEN o ELSE Send(o, LsUpd(l, current))

ospf_ls_ack(o, p) ==
    IF /\ o.nbr.state >= Exchange /\ o.nbr.ls_rxmt[p.lsa] # NoLSA
       /\ ospf_lsa_more_recent(o.nbr.ls_rxmt[p.lsa], p.inst) = 0
    THEN [o EXCEPT !.nbr.ls_rxmt[p.lsa] = NoLSA] ELSE o

(* The handler of a packet; odd is its late or recent. *)
Handle(o, r, p, odd, rnd) ==
    CASE p.type = "DbDesc" -> ospf_db_desc(o, r, p, odd, rnd)
      [] p.type = "LsReq"  -> ospf_ls_req(o, p, rnd)
      [] p.type = "LsUpd"  -> ospf_ls_upd(o, p, odd, rnd)
      [] p.type = "LsAck"  -> ospf_ls_ack(o, p)

-----------------------------------------------------------------------------
Init ==
    /\ \E db \in Databases :
          router = [r \in Routers |-> [lsdb |-> db[r], nbr |-> ospf_nbr_new,
                                       ls_ack |-> <<>>, obuf |-> <<>>]]
    /\ troubles = 0
    /\ custom \in Customs

(* random(), for a new neighbour: a number that no packet under way has. *)
random(r) == (FirstSeq + (r + 2 * troubles) * Stride) % SeqMod

(* r hears a hello of its peer, which lists r once the peer has heard of it. *)
ospf_hello(r) ==
    /\ LET o     == router[r]
           heard == IF o.nbr.state = Down THEN [o EXCEPT !.nbr.state = InitState] ELSE o
       IN  router' = [router EXCEPT ![r] =
             IF router[Peer(r)].nbr.state = Down
             THEN IF o.nbr.state > InitState THEN nsm_change_state(o, InitState, 0) ELSE heard
             ELSE IF heard.nbr.state = InitState
             THEN nsm_change_state(heard, ExStart, random(r)) ELSE o]
    /\ UNCHANGED <<custom, troubles>>

(* r handles the next packet of its peer. *)
receive(r, odd) ==
    LET q == router[Peer(r)].obuf
    IN  /\ q # <<>>
        /\ odd => troubles < MaxTroubles
        /\ troubles' = IF odd THEN troubles + 1 ELSE troubles
        /\ router' = [router EXCEPT ![Peer(r)].obuf = Tail(q),
                                    ![r] = Handle(router[r], r, Head(q), odd, random(r))]
        /\ UNCHANGED custom

(* The next packet to r is lost. *)
lose(r) ==
    /\ router[Peer(r)].obuf # <<>>
    /\ troubles < MaxTroubles
    /\ router' = [router EXCEPT ![Peer(r)].obuf = Tail(@)]
    /\ troubles' = troubles + 1
    /\ UNCHANGED custom

(* The bound on the packets a timer finds under way. *)
Room == Len(router[1].obuf) + Len(router[2].obuf) < MaxQueue

(* Seeded fault: the master sends its description once. *)
ospf_db_desc_timer_exstart(r) ==
    /\ Room
    /\ router[r].nbr.state = ExStart
    /\ router' = [router EXCEPT ![r] = ospf_db_desc_resend(@)]
    /\ UNCHANGED <<custom, troubles>>

ospf_db_desc_timer(r) ==
    /\ Room
    /\ \/ router[r].nbr.state = ExStart
       \/ router[r].nbr.state = Exchange /\ router[r].nbr.dd_flags.MS
    /\ router' = [router EXCEPT ![r] = ospf_db_desc_resend(@)]
    /\ UNCHANGED <<custom, troubles>>

ospf_ls_req_timer(r) ==
    /\ Room
    /\ router[r].nbr.t_ls_req /\ Keys(router[r].nbr.ls_req) # {}
    /\ router' = [router EXCEPT ![r] = ospf_ls_req_send(@)]
    /\ UNCHANGED <<custom, troubles>>

ospf_ls_upd_timer(r) ==
    LET rxmt == router[r].nbr.ls_rxmt
    IN  /\ Room
        /\ router[r].nbr.state >= Exchange /\ Keys(rxmt) # {}
        /\ \E seq \in Ascending(Keys(rxmt)) :
              router' = [router EXCEPT ![r].obuf =
                            @ \o [n \in DOMAIN seq |-> LsUpd(seq[n], rxmt[seq[n]])]]
        /\ UNCHANGED <<custom, troubles>>

ospf_ls_ack_timer(r) ==
    /\ router[r].ls_ack # <<>>
    /\ router' = [router EXCEPT ![r].ls_ack = <<>>, ![r].obuf = @ \o router[r].ls_ack]
    /\ UNCHANGED <<custom, troubles>>

(* An instance of an LSA reaches r over another interface. *)
learn(r, l, i) ==
    /\ ospf_lsa_more_recent(router[r].lsdb[l], i) < 0
    /\ router' = [router EXCEPT ![r] = ospf_flood(@, l, i, FALSE)]
    /\ UNCHANGED <<custom, troubles>>

(* r hears nothing for RouterDeadInterval, longer than packets are under    *)
(* way, and deletes its neighbour.                                          *)
ospf_inactivity_timer(r) ==
    /\ troubles < MaxTroubles
    /\ router[r].nbr.state # Down
    /\ \A q \in Routers : router[q].obuf = <<>>
    /\ router' = [router EXCEPT ![r].nbr = ospf_nbr_new]
    /\ troubles' = troubles + 1
    /\ UNCHANGED custom

(* r ends and starts again with nothing, and later than packets are under   *)
(* way.                                                                     *)
restart(r) ==
    /\ troubles < MaxTroubles
    /\ router' = [router EXCEPT ![r] = [lsdb |-> Empty, nbr |-> ospf_nbr_new,
                                        ls_ack |-> <<>>, obuf |-> <<>>],
                                ![Peer(r)].obuf = <<>>]
    /\ troubles' = troubles + 1
    /\ UNCHANGED custom

Next ==
    \E r \in Routers :
        \/ ospf_hello(r)
        \/ \E odd \in BOOLEAN : receive(r, odd)
        \/ lose(r)
        \/ ospf_db_desc_timer(r)
        \/ ospf_ls_req_timer(r)
        \/ ospf_ls_upd_timer(r)
        \/ ospf_ls_ack_timer(r)
        \/ \E l \in LSAs, i \in Instances : learn(r, l, i)
        \/ ospf_inactivity_timer(r)
        \/ restart(r)

Spec == Init /\ [][Next]_vars

(* Hellos are sent again and again, timers expire, the link delivers what   *)
(* it does not lose.  Fairness of the timers Room guards is strong: in the  *)
(* code they do not wait for the link.                                      *)
FairSpec ==
    /\ Spec
    /\ \A r \in Routers :
          /\ WF_vars(ospf_hello(r)) /\ WF_vars(receive(r, FALSE))
          /\ WF_vars(ospf_ls_ack_timer(r)) /\ SF_vars(ospf_db_desc_timer(r))
          /\ SF_vars(ospf_ls_req_timer(r)) /\ SF_vars(ospf_ls_upd_timer(r))

-----------------------------------------------------------------------------
(* States, sequence numbers and the three lists of a neighbour hold values   *)
(* the code can give them; dd_seqnum keeps its width.                        *)
TypeOK ==
    /\ \A r \in Routers :
          LET n == router[r].nbr
          IN  /\ n.state \in Down..Full
              /\ n.dd_seqnum \in 0..SeqMod - 1
              /\ \A db \in {router[r].lsdb, n.db_sum, n.ls_req, n.ls_rxmt} :
                    db \in [LSAs -> Instances \cup {NoLSA}]
    /\ troubles \in 0..MaxTroubles

(* What is on a request list is more recent than the database copy, however *)
(* descriptions, updates and flooding from elsewhere interleave: otherwise  *)
(* ospf_ls_upd takes the answer for a BadLSReq and the exchange starts      *)
(* again.                                                                   *)
RequestsAreNews ==
    \A r \in Routers : \A l \in Keys(router[r].nbr.ls_req) :
        ospf_lsa_more_recent(router[r].lsdb[l], router[r].nbr.ls_req[l]) < 0

(* What is on a retransmission list is the database copy: ospf_lsa_install   *)
(* takes the old instance off, so ospf_ls_upd_timer never sends one that has *)
(* been replaced.                                                            *)
RetransmitsCurrent ==
    \A r \in Routers : \A l \in Keys(router[r].nbr.ls_rxmt) :
        router[r].nbr.ls_rxmt[l] = router[r].lsdb[l]

BothFull == \A r \in Routers : router[r].nbr.state = Full

(* When both call the adjacency Full, an instance one has and the other     *)
(* lacks is on the retransmission list of the one: the exchange of          *)
(* descriptions, its repetitions and restarts skip no LSA it summarises.    *)
FullMeansSynchronised ==
    BothFull => \A r \in Routers, l \in LSAs \ custom :
        ospf_lsa_more_recent(router[Peer(r)].lsdb[l], router[r].lsdb[l]) < 0 =>
            router[r].nbr.ls_rxmt[l] = router[r].lsdb[l]

(* ospf_ls_upd and ospf_flood never take a database back to an older         *)
(* instance; only a restart loses one.                                       *)
NoOlderInstance ==
    [][\A r \in Routers, l \in LSAs :
          \/ ospf_lsa_more_recent(router'[r].lsdb[l], router[r].lsdb[l]) >= 0
          \/ restart(r)]_vars

(* Through lost packets, given up neighbours and restarts, the adjacency is *)
(* Full for good in the end, the databases agree and everything sent, LSAs  *)
(* of type 13 included, is acknowledged: every packet that may be lost has  *)
(* a timer of the code behind it.                                           *)
AdjacencyForms ==
    <>[](/\ BothFull
         /\ \A r \in Routers : router[r].nbr.ls_rxmt = Empty
         /\ \A l \in LSAs \ custom : router[1].lsdb[l] = router[2].lsdb[l])

(* "Neighbour has a more recent LSA, we must request it": an LSA described   *)
(* by the neighbour, and more recent than the database copy, is on the       *)
(* request list after ospf_db_desc_proc.                                     *)
MoreRecentIsRequested ==
    [][\A r \in Routers :
          LET p == router'[r].nbr.last_recv
          IN  (p # router[r].nbr.last_recv /\ p.lsa # 0) =>
                 (ospf_lsa_more_recent(router[r].lsdb[p.lsa], p.inst) < 0 =>
                     router'[r].nbr.ls_req[p.lsa] = p.inst)]_vars
=============================================================================
