--------------------------- MODULE AdjacencyProofs ---------------------------
(***************************************************************************)
(* Proofs about Adjacency: its type invariant, that the request list holds *)
(* news only, that the retransmission list holds database copies only, and *)
(* that databases never go back.                                           *)
(*                                                                         *)
(* The invariant is about one router at a time.  Each function of the      *)
(* model takes a router that has it to one that has it: the functions of   *)
(* the database exchange keep it, and flooding through the interface       *)
(* leaves it broken only as Flooded says.                                  *)
(***************************************************************************)
EXTENDS Adjacency, FiniteSetTheorems, SequenceTheorems, WellFoundedInduction, TLAPS

Lists == [LSAs -> Instances \cup {NoLSA}]
Flags == [I : BOOLEAN, M : BOOLEAN, MS : BOOLEAN]

Descriptions ==
    {p \in [type : {"DbDesc"}, flags : Flags, seqnum : 0..SeqMod - 1, lsa : LSAs \cup {0},
            inst : Instances \cup {NoLSA}] : p.lsa # 0 => p.inst \in Instances}
Asked == [type : {"LsReq"}, lsa : LSAs]
Sent  == [type : {"LsUpd"}, lsa : LSAs, inst : Instances]
Acked == [type : {"LsAck"}, lsa : LSAs, inst : Instances]
Packets == Descriptions \cup Asked \cup Sent \cup Acked

Neighbours ==
    [state : Down..Full, dd_seqnum : 0..SeqMod - 1, dd_flags : Flags,
     last_recv : Descriptions, last_send : Descriptions,
     db_sum : Lists, ls_req : Lists, ls_rxmt : Lists,
     ls_req_last : LSAs \cup {0}, t_ls_req : BOOLEAN]
Typed == [lsdb : Lists, nbr : Neighbours, ls_ack : Seq(Packets), obuf : Seq(Packets)]

(* What is requested is news, and nothing is outside Exchange and Loading. *)
News(lsdb, req) ==
    \A l \in LSAs : req[l] # NoLSA => ospf_lsa_more_recent(lsdb[l], req[l]) < 0
Idle(state, req) == state \notin {Exchange, Loading} => req = Empty
Current(lsdb, rxmt) == \A l \in LSAs : rxmt[l] # NoLSA => rxmt[l] = lsdb[l]

Good(o) ==
    /\ o \in Typed
    /\ News(o.lsdb, o.nbr.ls_req)
    /\ Idle(o.nbr.state, o.nbr.ls_req)
    /\ Current(o.lsdb, o.nbr.ls_rxmt)

(* A router with the invariant that has the database of o. *)
Kept(o, q) == Good(q) /\ q.lsdb = o.lsdb

-----------------------------------------------------------------------------
(* Values *)

(* A set of natural numbers has a least one. *)
LEMMA Least ==
    ASSUME NEW S \in SUBSET Nat, S # {}
    PROVE  \E l \in S : \A k \in S : l <= k
<1> DEFINE R == OpToRel(<, Nat)
<1>1. IsWellFoundedOn(R, Nat)
  BY NatLessThanWellFounded, Zenon
<1>2. PICK l \in S : \A k \in S : ~(<<k, l>> \in R)
  <2> HIDE DEF R
  <2> QED BY <1>1, WFMin, Zenon
<1>3. \A k \in S : l <= k
  <2> TAKE k \in S
  <2>1. k \in Nat /\ l \in Nat
    BY Zenon
  <2>2. ~(k < l)
    BY <1>2, <2>1, Zenon DEF OpToRel
  <2> QED BY <2>1, <2>2
<1> QED BY <1>3, Zenon

LEMMA FirstKey ==
    ASSUME NEW db \in Lists, Keys(db) # {}
    PROVE  First(Keys(db)) \in LSAs /\ db[First(Keys(db))] \in Instances
<1>1. Keys(db) \in SUBSET Nat
  BY AdjacencyAssumption, Zenon DEF Keys
<1>2. \E l \in Keys(db) : \A k \in Keys(db) : l <= k
  BY <1>1, Least, Zenon
<1>3. First(Keys(db)) \in Keys(db)
  BY <1>2, Zenon DEF First
<1> QED BY <1>3, Zenon DEF Keys, Lists

LEMMA InstanceTyped ==
    ASSUME NEW a \in Instances \cup {NoLSA}
    PROVE  a.seq \in Nat /\ a.sum \in Nat /\ a = [seq |-> a.seq, sum |-> a.sum]
<1>1. CASE a \in Instances
  <2>1. Checksums \subseteq Nat /\ MaxSeq \in Nat
    BY AdjacencyAssumption, Zenon
  <2>2. a \in [seq : 1..MaxSeq, sum : Checksums]
    BY <1>1, Zenon DEF Instances
  <2>3. a.seq \in 1..MaxSeq /\ a.sum \in Checksums
    BY <2>2, Zenon
  <2>4. a = [seq |-> a.seq, sum |-> a.sum]
    BY <2>2, Zenon
  <2> QED BY <2>1, <2>3, <2>4
<1>2. CASE a = NoLSA
  BY <1>2, Zenon DEF NoLSA, Instance
<1> QED BY <1>1, <1>2, Zenon

(* Sequence numbers come first, then checksums. *)
LEMMA Recency ==
    ASSUME NEW a \in Instances \cup {NoLSA}, NEW b \in Instances \cup {NoLSA}
    PROVE  /\ ospf_lsa_more_recent(a, b) \in Int
           /\ ospf_lsa_more_recent(a, b) > 0 <=> ospf_lsa_more_recent(b, a) < 0
           /\ ospf_lsa_more_recent(a, b) = 0 <=> a = b
           /\ a = NoLSA /\ b # NoLSA => ospf_lsa_more_recent(a, b) < 0
           /\ a = NoLSA => ospf_lsa_more_recent(a, b) <= 0
<1>1. /\ a.seq \in Nat /\ a.sum \in Nat /\ b.seq \in Nat /\ b.sum \in Nat
      /\ a = [seq |-> a.seq, sum |-> a.sum] /\ b = [seq |-> b.seq, sum |-> b.sum]
  BY InstanceTyped, Zenon
<1>2. a.seq = b.seq /\ a.sum = b.sum <=> a = b
  BY <1>1, Zenon
<1>3. a = NoLSA => a.seq = 0 /\ a.sum = 0
  BY DEF NoLSA, Instance
<1>4. b # NoLSA => b.seq > 0
  BY AdjacencyAssumption DEF Instances
<1>5. b = NoLSA => b.seq = 0 /\ b.sum = 0
  BY DEF NoLSA, Instance
<1> QED BY <1>1, <1>2, <1>3, <1>4, <1>5 DEF ospf_lsa_more_recent

LEMMA Numbered ==
    ASSUME NEW n \in Int
    PROVE  n % SeqMod \in 0..SeqMod - 1
BY AdjacencyAssumption

LEMMA StatesDiffer ==
    /\ {Down, InitState, ExStart, Exchange, Loading, Full} \subseteq Down..Full
    /\ Loading # Full /\ Exchange # Full /\ Exchange # Loading /\ Down < Exchange
    /\ InitState < Exchange /\ ExStart < Exchange /\ Exchange < Full /\ Loading < Full
    /\ Exchange < Loading /\ Exchange \in Int /\ Full \in Int
BY DEF Down, InitState, ExStart, Exchange, Loading, Full

LEMMA EmptyTyped == Empty \in Lists /\ \A l \in LSAs : Empty[l] = NoLSA
BY Zenon DEF Empty, Lists

LEMMA NoKeys ==
    ASSUME NEW db \in Lists, Keys(db) = {}
    PROVE  db = Empty
BY Zenon DEF Lists, Keys, Empty

-----------------------------------------------------------------------------
(* Sending *)

LEMMA SendKeeps ==
    ASSUME NEW o, Good(o), NEW p \in Packets
    PROVE  Kept(o, Send(o, p)) /\ Send(o, p).nbr = o.nbr
<1>1. Append(o.obuf, p) \in Seq(Packets)
  BY DEF Good, Typed
<1> QED BY <1>1, Zenon DEF Good, Typed, Send, Kept

(* What the invariant looks at is not changed. *)
LEMMA Unseen ==
    ASSUME NEW o, Good(o), NEW n \in Neighbours, n.state = o.nbr.state,
           n.ls_req = o.nbr.ls_req, n.ls_rxmt = o.nbr.ls_rxmt
    PROVE  Kept(o, [o EXCEPT !.nbr = n])
BY Zenon DEF Good, Typed, Kept

LEMMA DescSendKeeps ==
    ASSUME NEW o, Good(o)
    PROVE  LET q == ospf_db_desc_send(o)
           IN  Kept(o, q) /\ q.nbr.state = o.nbr.state
<1> DEFINE n == o.nbr
           keys  == Keys(n.db_sum)
           l     == IF keys = {} THEN 0 ELSE First(keys)
           flags == IF keys \subseteq {l} /\ n.state >= Exchange
                    THEN [n.dd_flags EXCEPT !.M = FALSE] ELSE n.dd_flags
           p     == DbDesc(flags, n.dd_seqnum, l, IF l = 0 THEN NoLSA ELSE n.db_sum[l])
           sum   == [k \in LSAs |-> IF k = l THEN NoLSA ELSE n.db_sum[k]]
           m     == [n EXCEPT !.db_sum = sum, !.dd_flags = flags, !.last_send = p]
<1>1. n \in Neighbours /\ n.db_sum \in Lists /\ n.dd_flags \in Flags
      /\ n.dd_seqnum \in 0..SeqMod - 1
  BY Zenon DEF Good, Typed, Neighbours
<1>2. l \in LSAs \cup {0} /\ (l # 0 => n.db_sum[l] \in Instances)
  BY <1>1, FirstKey, Zenon
<1>3. flags \in Flags
  BY <1>1, Zenon DEF Flags
<1>4. p \in Descriptions
  BY <1>1, <1>2, <1>3, Zenon DEF DbDesc, Descriptions
<1>5. sum \in Lists
  BY <1>1, Zenon DEF Lists
<1> HIDE DEF l, flags, p, sum
<1>6. m \in Neighbours
  BY <1>1, <1>3, <1>4, <1>5, Zenon DEF Neighbours
<1>7. Kept(o, [o EXCEPT !.nbr = m])
  BY <1>1, <1>6, Unseen, Zenon DEF Neighbours
<1>8. ospf_db_desc_send(o) = Send([o EXCEPT !.nbr = m], p)
  BY ZenonT(30) DEF ospf_db_desc_send, l, flags, p, sum, Good, Typed, Neighbours
<1>9. [o EXCEPT !.nbr = m].nbr = m /\ m.state = n.state
  BY <1>1, Zenon DEF Good, Typed, Neighbours
<1>10. p \in Packets
  BY <1>4, Zenon DEF Packets
<1> DEFINE d == [o EXCEPT !.nbr = m]
<1>11. Kept(o, d) /\ d.nbr.state = o.nbr.state /\ ospf_db_desc_send(o) = Send(d, p)
  BY <1>7, <1>8, <1>9, Zenon
<1> HIDE DEF d
<1>12. Kept(d, Send(d, p)) /\ Send(d, p).nbr = d.nbr
  BY <1>10, <1>11, SendKeeps, Zenon DEF Kept
<1> QED BY <1>11, <1>12, Zenon DEF Kept

LEMMA ResendKeeps ==
    ASSUME NEW o, Good(o)
    PROVE  LET q == ospf_db_desc_resend(o)
           IN  Kept(o, q) /\ q.nbr = o.nbr
<1>1. o.nbr.last_send \in Packets
  BY Zenon DEF Good, Typed, Neighbours, Packets
<1> QED BY <1>1, SendKeeps, Zenon DEF ospf_db_desc_resend

LEMMA ReqSendKeeps ==
    ASSUME NEW o, Good(o)
    PROVE  LET q == ospf_ls_req_send(o)
           IN  Kept(o, q) /\ q.nbr.state = o.nbr.state /\ q.nbr.ls_req = o.nbr.ls_req
<1>1. CASE Keys(o.nbr.ls_req) = {}
  BY <1>1, Zenon DEF ospf_ls_req_send, Kept
<1>2. CASE Keys(o.nbr.ls_req) # {}
  <2> DEFINE l == First(Keys(o.nbr.ls_req))
             n == [o.nbr EXCEPT !.t_ls_req = TRUE, !.ls_req_last = l]
             d == [o EXCEPT !.nbr = n]
  <2>1. o.nbr \in Neighbours /\ o.nbr.ls_req \in Lists
    BY Zenon DEF Good, Typed, Neighbours
  <2>2. l \in LSAs
    BY <1>2, <2>1, FirstKey, Zenon
  <2>3. ospf_ls_req_send(o) = Send(d, LsReq(l))
    BY <1>2, Zenon DEF ospf_ls_req_send, Good, Typed, Neighbours
  <2> HIDE DEF l
  <2>4. /\ n \in Neighbours /\ n.state = o.nbr.state
        /\ n.ls_req = o.nbr.ls_req /\ n.ls_rxmt = o.nbr.ls_rxmt
    BY <2>1, <2>2, Zenon DEF Neighbours
  <2>5. Kept(o, d) /\ d.nbr = n
    BY <2>4, Unseen, Zenon DEF Good, Typed
  <2> HIDE DEF d, n
  <2>6. LsReq(l) \in Packets
    BY <2>2, Zenon DEF LsReq, Packets, Asked
  <2>7. Kept(d, Send(d, LsReq(l))) /\ Send(d, LsReq(l)).nbr = n
    BY <2>5, <2>6, SendKeeps, Zenon DEF Kept
  <2> QED BY <2>3, <2>4, <2>5, <2>7, Zenon DEF Kept
<1> QED BY <1>1, <1>2, Zenon

-----------------------------------------------------------------------------
(* The state of the neighbour *)

(* Up to ExStart nothing is requested. *)
LEMMA ChangeKeeps ==
    ASSUME NEW o, Good(o), NEW s \in {InitState, ExStart}, NEW rnd \in 0..SeqMod - 1
    PROVE  LET q == nsm_change_state(o, s, rnd)
           IN  Kept(o, q) /\ q.nbr.state = s
<1> DEFINE n == IF o.nbr.state > ExStart THEN nsm_clear_adj(o.nbr) ELSE o.nbr
           m == [n EXCEPT !.state = s, !.t_ls_req = FALSE]
           e == [m EXCEPT !.dd_seqnum = IF @ = 0 THEN rnd ELSE NextSeqnum(@),
                          !.dd_flags = AllFlags]
<1>1. o.nbr \in Neighbours /\ o.nbr.state \in Down..Full
  BY Zenon DEF Good, Typed, Neighbours
<1>2. n \in Neighbours /\ n.ls_req = Empty /\ (n.ls_rxmt = o.nbr.ls_rxmt \/ n.ls_rxmt = Empty)
  <2>1. CASE o.nbr.state > ExStart
    BY <1>1, <2>1, EmptyTyped, Zenon DEF nsm_clear_adj, Neighbours
  <2>2. CASE ~(o.nbr.state > ExStart)
    BY <1>1, <2>2 DEF Good, Idle, Down, ExStart, Exchange, Loading, Full
  <2> QED BY <2>1, <2>2, Zenon
<1> HIDE DEF n
<1>3. /\ m \in Neighbours /\ m.state = s /\ m.ls_req = Empty
      /\ m.ls_rxmt = o.nbr.ls_rxmt \/ m.ls_rxmt = Empty
  BY <1>2, StatesDiffer, Zenon DEF Neighbours
<1>4. /\ e \in Neighbours /\ e.state = s /\ e.ls_req = Empty
      /\ e.ls_rxmt = o.nbr.ls_rxmt \/ e.ls_rxmt = Empty
  <2> HIDE DEF m
  <2>0. m.dd_seqnum + 1 \in Int
    BY <1>3 DEF Neighbours
  <2>1. NextSeqnum(m.dd_seqnum) \in 0..SeqMod - 1
    BY <2>0, Numbered, Zenon DEF NextSeqnum
  <2>2. AllFlags \in Flags
    BY Zenon DEF AllFlags, Flags
  <2> QED BY <1>3, <2>1, <2>2, Zenon DEF Neighbours
<1> HIDE DEF m, e
<1>5. ASSUME NEW x \in Neighbours, x.state = s, x.ls_req = Empty,
             x.ls_rxmt = o.nbr.ls_rxmt \/ x.ls_rxmt = Empty
      PROVE  Kept(o, [o EXCEPT !.nbr = x]) /\ [o EXCEPT !.nbr = x].nbr = x
  BY <1>5, EmptyTyped, Zenon DEF Good, Typed, News, Idle, Current, Kept
<1>6. CASE s # ExStart
  BY <1>3, <1>5, <1>6, Zenon DEF nsm_change_state, n, m
<1>7. CASE s = ExStart
  <2> DEFINE d == [o EXCEPT !.nbr = e]
  <2>1. nsm_change_state(o, s, rnd) = ospf_db_desc_send(d)
    BY <1>7, Zenon DEF nsm_change_state, n, m, e
  <2>2. Kept(o, d) /\ d.nbr.state = s
    BY <1>4, <1>5, Zenon
  <2> HIDE DEF d
  <2> QED BY <2>1, <2>2, DescSendKeeps, Zenon DEF Kept
<1> QED BY <1>6, <1>7, Zenon

(* Nothing was requested in ExStart. *)
LEMMA NegotiationKeeps ==
    ASSUME NEW o, Good(o)
    PROVE  LET q == nsm_negotiation_done(o)
           IN  Kept(o, q) /\ q.nbr.state = Exchange
<1> DEFINE sum == [l \in LSAs |-> IF l \in custom THEN NoLSA ELSE o.lsdb[l]]
           n == [o.nbr EXCEPT !.state = Exchange, !.db_sum = sum]
<1>1. o.nbr \in Neighbours /\ o.lsdb \in Lists
  BY Zenon DEF Good, Typed
<1>2. sum \in Lists
  BY <1>1, Zenon DEF Lists
<1> HIDE DEF sum
<1>3. /\ n \in Neighbours /\ n.state = Exchange
      /\ n.ls_req = o.nbr.ls_req /\ n.ls_rxmt = o.nbr.ls_rxmt
  BY <1>1, <1>2, StatesDiffer, Zenon DEF Neighbours
<1>4. nsm_negotiation_done(o) = [o EXCEPT !.nbr = n]
  BY <1>1, Zenon DEF nsm_negotiation_done, sum, Good, Typed, Neighbours
<1> HIDE DEF n
<1> QED BY <1>3, <1>4, Zenon DEF Good, Typed, Kept, Idle

(* A change of the state between Exchange, Loading and Full. *)
LEMMA StateKeeps ==
    ASSUME NEW o, Good(o), NEW s \in {Exchange, Loading, Full},
           s = Full => Keys(o.nbr.ls_req) = {}
    PROVE  Kept(o, [o EXCEPT !.nbr.state = s])
<1> DEFINE n == [o.nbr EXCEPT !.state = s]
<1>1. o.nbr \in Neighbours /\ o.nbr.ls_req \in Lists
  BY Zenon DEF Good, Typed, Neighbours
<1>2. n \in Neighbours /\ n.state = s /\ n.ls_req = o.nbr.ls_req /\ n.ls_rxmt = o.nbr.ls_rxmt
  BY <1>1 DEF Neighbours, Exchange, Loading, Full, Down
<1>3. [o EXCEPT !.nbr.state = s] = [o EXCEPT !.nbr = n]
  BY Zenon DEF Good, Typed
<1>4. s = Full => o.nbr.ls_req = Empty
  BY <1>1, NoKeys, Zenon
<1> HIDE DEF n
<1> QED BY <1>2, <1>3, <1>4, Zenon DEF Good, Typed, Kept, Idle

LEMMA ExchangeDoneKeeps ==
    ASSUME NEW o, Good(o)
    PROVE  Kept(o, nsm_exchange_done(o))
<1>1. CASE Keys(o.nbr.ls_req) = {}
  BY <1>1, StateKeeps, Zenon DEF nsm_exchange_done
<1>2. CASE Keys(o.nbr.ls_req) # {}
  <2> DEFINE d == IF o.nbr.t_ls_req THEN o ELSE ospf_ls_req_send(o)
  <2>1. Kept(o, d)
    BY ReqSendKeeps, Zenon DEF Kept
  <2>2. nsm_exchange_done(o) = [d EXCEPT !.nbr.state = Loading]
    BY <1>2, Zenon DEF nsm_exchange_done
  <2> HIDE DEF d
  <2>3. Kept(d, [d EXCEPT !.nbr.state = Loading])
    BY <2>1, StateKeeps, StatesDiffer, Zenon DEF Kept
  <2> QED BY <2>1, <2>2, <2>3, Zenon DEF Kept
<1> QED BY <1>1, <1>2, Zenon

LEMMA LoadingKeeps ==
    ASSUME NEW o, Good(o)
    PROVE  LET q == ospf_check_nbr_loading(o)
           IN  Kept(o, q) /\ q.nbr.ls_req = o.nbr.ls_req
               /\ (q.nbr.state = o.nbr.state \/ q.nbr.state = Full)
<1>1. Kept(o, o)
  BY Zenon DEF Kept
<1>2. CASE o.nbr.state = Loading /\ Keys(o.nbr.ls_req) = {}
  <2>1. Kept(o, [o EXCEPT !.nbr.state = Full])
    BY <1>2, StateKeeps, Zenon
  <2>2. [o EXCEPT !.nbr.state = Full].nbr.ls_req = o.nbr.ls_req
        /\ [o EXCEPT !.nbr.state = Full].nbr.state = Full
    BY Zenon DEF Good, Typed, Neighbours
  <2> QED BY <1>2, <2>1, <2>2, Zenon DEF ospf_check_nbr_loading
<1>3. CASE ~(o.nbr.state = Loading /\ Keys(o.nbr.ls_req) = {})
  BY <1>1, <1>3, ReqSendKeeps, Zenon DEF ospf_check_nbr_loading
<1> QED BY <1>2, <1>3, Zenon

-----------------------------------------------------------------------------
(* Descriptions and requests *)

(* A change of the request list in Exchange or Loading. *)
LEMMA RequestsKeep ==
    ASSUME NEW o, Good(o), o.nbr.state \in {Exchange, Loading},
           NEW n \in Neighbours, n.state = o.nbr.state, n.ls_rxmt = o.nbr.ls_rxmt,
           News(o.lsdb, n.ls_req)
    PROVE  Kept(o, [o EXCEPT !.nbr = n]) /\ [o EXCEPT !.nbr = n].nbr = n
BY Zenon DEF Good, Typed, Kept, Idle

LEMMA DescribedKeeps ==
    ASSUME NEW o, Good(o), o.nbr.state = Exchange, NEW l \in LSAs, NEW i \in Instances
    PROVE  LET q == DescribedLSA(o, l, i)
           IN  Kept(o, q) /\ q.nbr.state = Exchange
<1> DEFINE find == o.lsdb[l]
           c    == ospf_lsa_more_recent(find, i)
           req  == [o.nbr.ls_req EXCEPT ![l] = IF c = -1 THEN i ELSE @]
           sum  == [o.nbr.db_sum EXCEPT ![l] = IF c \in {-1, 0} /\ @ = find THEN NoLSA ELSE @]
           n    == [o.nbr EXCEPT !.ls_req = req, !.db_sum = sum]
<1>1. o.nbr \in Neighbours /\ o.lsdb \in Lists /\ o.nbr.ls_req \in Lists /\ o.nbr.db_sum \in Lists
  BY Zenon DEF Good, Typed, Neighbours
<1>2. req \in Lists /\ sum \in Lists
  BY <1>1, Zenon DEF Lists
<1>3. News(o.lsdb, req)
  <2> SUFFICES ASSUME NEW k \in LSAs, req[k] # NoLSA
               PROVE  ospf_lsa_more_recent(o.lsdb[k], req[k]) < 0
    BY Zenon DEF News
  <2>1. CASE k = l /\ c = -1
    BY <1>1, <2>1 DEF Lists
  <2>2. CASE ~(k = l /\ c = -1)
    BY <1>1, <2>2, Zenon DEF Lists, Good, News
  <2> QED BY <2>1, <2>2, Zenon
<1>4. DescribedLSA(o, l, i) = [o EXCEPT !.nbr = n]
  BY Zenon DEF DescribedLSA, Good, Typed, Neighbours
<1> HIDE DEF req, sum
<1>5. n \in Neighbours /\ n.state = o.nbr.state /\ n.ls_rxmt = o.nbr.ls_rxmt /\ n.ls_req = req
  BY <1>1, <1>2, ZenonT(30) DEF Neighbours
<1> HIDE DEF n
<1> QED BY <1>3, <1>4, <1>5, RequestsKeep

LEMMA DescProcKeeps ==
    ASSUME NEW o, Good(o), o.nbr.state = Exchange, NEW p \in Descriptions
    PROVE  Kept(o, ospf_db_desc_proc(o, p))
<1> DEFINE master == o.nbr.dd_flags.MS
           over   == ~p.flags.M /\ ~o.nbr.dd_flags.M
           a      == IF p.lsa = 0 THEN o ELSE DescribedLSA(o, p.lsa, p.inst)
           b      == [a EXCEPT !.nbr.dd_seqnum = IF master THEN NextSeqnum(@) ELSE p.seqnum]
           sent   == IF master /\ over THEN b ELSE ospf_db_desc_send(b)
           saved  == [sent EXCEPT !.nbr.last_recv = p]
           req    == IF saved.nbr.t_ls_req THEN saved ELSE ospf_ls_req_send(saved)
           done   == IF master THEN over ELSE ~p.flags.M /\ ~sent.nbr.dd_flags.M
<1>0. ospf_db_desc_proc(o, p) = IF done THEN nsm_exchange_done(req) ELSE req
  <2> DEFINE End(x, z)  == IF IF master THEN over ELSE ~p.flags.M /\ ~x.nbr.dd_flags.M
                           THEN nsm_exchange_done(z) ELSE z
             Ask(x, y)  == With(IF y.nbr.t_ls_req THEN y ELSE ospf_ls_req_send(y),
                                LAMBDA z : End(x, z))
             Save(x)    == With([x EXCEPT !.nbr.last_recv = p], LAMBDA y : Ask(x, y))
             Answer(x)  == With(IF master /\ over THEN x ELSE ospf_db_desc_send(x), Save)
             Number(x)  == With([x EXCEPT !.nbr.dd_seqnum =
                                    IF master THEN NextSeqnum(@) ELSE p.seqnum], Answer)
  <2>1. ospf_db_desc_proc(o, p) = With(a, Number)
    BY Zenon DEF ospf_db_desc_proc
  <2> HIDE DEF a, b, sent, saved, req
  <2>2. With(a, Number) = Number(a)
    <3> HIDE DEF Number
    <3> QED BY Zenon DEF With
  <2>3. Number(a) = Answer(b)
    <3> HIDE DEF Answer
    <3> QED BY DEF With, b
  <2>4. Answer(b) = Save(sent)
    <3> HIDE DEF Save
    <3> QED BY DEF With, sent
  <2>5. Save(sent) = Ask(sent, saved)
    <3> HIDE DEF Ask
    <3> QED BY Zenon DEF With, saved
  <2>6. Ask(sent, saved) = End(sent, req)
    <3> HIDE DEF End
    <3> QED BY DEF With, req
  <2> QED BY <2>1, <2>2, <2>3, <2>4, <2>5, <2>6, Zenon
<1>1. Kept(o, a) /\ a.nbr.state = Exchange
  <2>1. p.lsa # 0 => p.lsa \in LSAs /\ p.inst \in Instances
    BY Zenon DEF Descriptions
  <2> QED BY <2>1, DescribedKeeps, Zenon DEF Kept
<1> HIDE DEF a
<1>2. Kept(o, b) /\ b.nbr.state = Exchange
  <2> DEFINE x == IF master THEN NextSeqnum(a.nbr.dd_seqnum) ELSE p.seqnum
             n == [a.nbr EXCEPT !.dd_seqnum = x]
  <2>1. a.nbr \in Neighbours /\ a.nbr.dd_seqnum + 1 \in Int
    BY <1>1 DEF Kept, Good, Typed, Neighbours
  <2>2. x \in 0..SeqMod - 1
    BY <2>1, Numbered, Zenon DEF NextSeqnum, Descriptions
  <2>3. b = [a EXCEPT !.nbr = n]
    BY <1>1, Zenon DEF Kept, Good, Typed, Neighbours
  <2> HIDE DEF x
  <2>4. /\ n \in Neighbours /\ n.state = a.nbr.state
        /\ n.ls_req = a.nbr.ls_req /\ n.ls_rxmt = a.nbr.ls_rxmt
    BY <2>1, <2>2, Zenon DEF Neighbours
  <2> HIDE DEF n, b
  <2>5. Kept(a, b) /\ b.nbr = n
    BY <1>1, <2>3, <2>4, Unseen, Zenon DEF Kept, Good, Typed
  <2> QED BY <1>1, <2>4, <2>5, Zenon DEF Kept
<1> HIDE DEF b
<1>3. Kept(o, sent) /\ sent.nbr.state = Exchange
  BY <1>2, DescSendKeeps, Zenon DEF Kept
<1> HIDE DEF sent
<1>4. Kept(o, saved) /\ saved.nbr.state = Exchange
  <2> DEFINE n == [sent.nbr EXCEPT !.last_recv = p]
  <2>1. saved = [sent EXCEPT !.nbr = n]
    BY <1>3, Zenon DEF Kept, Good, Typed
  <2>2. /\ n \in Neighbours /\ n.state = sent.nbr.state
        /\ n.ls_req = sent.nbr.ls_req /\ n.ls_rxmt = sent.nbr.ls_rxmt
    BY <1>3, Zenon DEF Kept, Good, Typed, Neighbours
  <2> HIDE DEF n, saved
  <2>3. Kept(sent, saved) /\ saved.nbr = n
    BY <1>3, <2>1, <2>2, Unseen, ZenonT(30) DEF Kept, Good, Typed
  <2> QED BY <1>3, <2>2, <2>3 DEF Kept
<1> HIDE DEF saved
<1>5. Kept(o, req)
  BY <1>4, ReqSendKeeps, Zenon DEF Kept
<1> HIDE DEF req
<1>6. Kept(req, nsm_exchange_done(req))
  BY <1>5, ExchangeDoneKeeps, Zenon DEF Kept
<1> QED BY <1>0, <1>5, <1>6, Zenon DEF Kept

LEMMA NegotiateKeeps ==
    ASSUME NEW o, Good(o), o.nbr.state = ExStart, NEW r, NEW p \in Descriptions
    PROVE  Kept(o, Negotiate(o, r, p))
<1> DEFINE a == [o EXCEPT !.nbr.dd_seqnum = p.seqnum, !.nbr.dd_flags.I = FALSE,
                          !.nbr.dd_flags.MS = FALSE]
           b == [o EXCEPT !.nbr.dd_flags.I = FALSE]
           After(x) == ospf_db_desc_proc(nsm_negotiation_done(x), p)
<1>1. Kept(o, a)
  <2> DEFINE f == [o.nbr.dd_flags EXCEPT !.I = FALSE, !.MS = FALSE]
             n == [o.nbr EXCEPT !.dd_seqnum = p.seqnum, !.dd_flags = f]
  <2>1. o.nbr \in Neighbours /\ o.nbr.dd_flags \in Flags /\ p.seqnum \in 0..SeqMod - 1
    BY Zenon DEF Good, Typed, Neighbours, Descriptions
  <2>2. f \in Flags
    BY <2>1, Zenon DEF Flags
  <2>3. a = [o EXCEPT !.nbr = n]
    BY <2>1, ZenonT(30) DEF Good, Typed, Neighbours
  <2> HIDE DEF f
  <2>4. /\ n \in Neighbours /\ n.state = o.nbr.state
        /\ n.ls_req = o.nbr.ls_req /\ n.ls_rxmt = o.nbr.ls_rxmt
    BY <2>1, <2>2, Zenon DEF Neighbours
  <2> HIDE DEF n, a
  <2> QED BY <2>3, <2>4, Unseen, Zenon
<1>2. Kept(o, b)
  <2> DEFINE f == [o.nbr.dd_flags EXCEPT !.I = FALSE]
             n == [o.nbr EXCEPT !.dd_flags = f]
  <2>1. o.nbr \in Neighbours /\ o.nbr.dd_flags \in Flags
    BY Zenon DEF Good, Typed, Neighbours
  <2>2. f \in Flags
    BY <2>1, Zenon DEF Flags
  <2>3. b = [o EXCEPT !.nbr = n]
    BY <2>1, Zenon DEF Good, Typed, Neighbours
  <2> HIDE DEF f
  <2>4. /\ n \in Neighbours /\ n.state = o.nbr.state
        /\ n.ls_req = o.nbr.ls_req /\ n.ls_rxmt = o.nbr.ls_rxmt
    BY <2>1, <2>2, Zenon DEF Neighbours
  <2> HIDE DEF n, b
  <2> QED BY <2>3, <2>4, Unseen
<1>3. Negotiate(o, r, p) \in {After(a), After(b), o}
  BY Zenon DEF Negotiate, With
<1> HIDE DEF a, b
<1>4. ASSUME NEW x, Kept(o, x)
      PROVE  Kept(o, After(x))
  BY <1>4, NegotiationKeeps, DescProcKeeps, Zenon DEF Kept
<1> QED BY <1>1, <1>2, <1>3, <1>4, Zenon DEF Kept

LEMMA DbDescKeeps ==
    ASSUME NEW o, Good(o), NEW r, NEW p \in Descriptions, NEW late, NEW rnd \in 0..SeqMod - 1
    PROVE  Kept(o, ospf_db_desc(o, r, p, late, rnd))
<1>0. Kept(o, o) /\ o.nbr.state \in Down..Full
  BY Zenon DEF Kept, Good, Typed, Neighbours
<1>1. Kept(o, Restart(o, rnd))
  BY ChangeKeeps, Zenon DEF Restart
<1>2. Kept(o, ospf_db_desc_resend(o))
  BY ResendKeeps, Zenon
<1>3. CASE o.nbr.state = InitState
  <2> DEFINE new == nsm_change_state(o, ExStart, rnd)
  <2>1. ospf_db_desc(o, r, p, late, rnd) = Negotiate(new, r, p)
    BY <1>3 DEF ospf_db_desc, With, Down, InitState, ExStart, Exchange
  <2>2. Kept(o, new) /\ new.nbr.state = ExStart
    BY ChangeKeeps, Zenon
  <2> HIDE DEF new
  <2> QED BY <2>1, <2>2, NegotiateKeeps DEF Kept
<1>4. CASE o.nbr.state = ExStart
  <2>1. ospf_db_desc(o, r, p, late, rnd) = Negotiate(o, r, p)
    BY <1>4 DEF ospf_db_desc, Down, InitState, ExStart, Exchange
  <2> QED BY <1>4, <2>1, NegotiateKeeps, Zenon
<1>5. CASE o.nbr.state = Exchange
  <2>1. ospf_db_desc(o, r, p, late, rnd) \in
            {o, ospf_db_desc_resend(o), ospf_db_desc_proc(o, p), Restart(o, rnd)}
    BY <1>5 DEF ospf_db_desc, Down, InitState, ExStart, Exchange
  <2> QED BY <1>0, <1>1, <1>2, <1>5, <2>1, DescProcKeeps, Zenon
<1>6. CASE o.nbr.state \notin {InitState, ExStart, Exchange}
  <2>1. ospf_db_desc(o, r, p, late, rnd) \in {o, ospf_db_desc_resend(o), Restart(o, rnd)}
    BY <1>6, Zenon DEF ospf_db_desc, Down, InitState, ExStart, Exchange
  <2> QED BY <1>0, <1>1, <1>2, <2>1, Zenon
<1> QED BY <1>3, <1>4, <1>5, <1>6, Zenon

LEMMA LsReqKeeps ==
    ASSUME NEW o, Good(o), NEW p \in Asked, NEW rnd \in 0..SeqMod - 1
    PROVE  Kept(o, ospf_ls_req(o, p, rnd))
<1>1. p.lsa \in LSAs /\ o.lsdb \in Lists
  BY Zenon DEF Asked, Good, Typed
<1>2. CASE o.lsdb[p.lsa] # NoLSA
  <2>1. LsUpd(p.lsa, o.lsdb[p.lsa]) \in Packets
    BY <1>1, <1>2, Zenon DEF LsUpd, Packets, Sent, Lists
  <2> QED BY <1>2, <2>1, SendKeeps, Zenon DEF ospf_ls_req, Kept
<1>3. CASE o.lsdb[p.lsa] = NoLSA
  BY <1>3, ChangeKeeps, Zenon DEF ospf_ls_req, Restart, Kept
<1> QED BY <1>2, <1>3, Zenon

-----------------------------------------------------------------------------
(* Flooding *)

(* The router after the neighbour was dealt with, before i is installed as l. *)
Flooded(o, q, l, i) ==
    /\ q \in Typed /\ q.lsdb = o.lsdb
    /\ News(o.lsdb, q.nbr.ls_req) /\ Idle(q.nbr.state, q.nbr.ls_req)
    /\ q.nbr.ls_req[l] = NoLSA \/ ospf_lsa_more_recent(q.nbr.ls_req[l], i) > 0
    /\ \A k \in LSAs \ {l} : q.nbr.ls_rxmt[k] # NoLSA => q.nbr.ls_rxmt[k] = o.lsdb[k]
    /\ q.nbr.ls_rxmt[l] \in {NoLSA, i, o.lsdb[l]}

LEMMA RequestDeleteKeeps ==
    ASSUME NEW o, Good(o), NEW l \in LSAs
    PROVE  LET q == ospf_ls_request_delete(o, l)
           IN  Kept(o, q) /\ q.nbr.ls_req[l] = NoLSA /\ q.nbr.state = o.nbr.state
<1> DEFINE req  == [o.nbr.ls_req EXCEPT ![l] = NoLSA]
           last == IF o.nbr.ls_req_last = l THEN 0 ELSE o.nbr.ls_req_last
           n    == [o.nbr EXCEPT !.ls_req = req, !.ls_req_last = last]
<1>1. o.nbr \in Neighbours /\ o.nbr.ls_req \in Lists
  BY Zenon DEF Good, Typed, Neighbours
<1>2. req \in Lists /\ req[l] = NoLSA /\ (o.nbr.ls_req = Empty => req = Empty)
  BY <1>1, Zenon DEF Lists, Empty
<1>3. last \in LSAs \cup {0}
  BY <1>1, Zenon DEF Neighbours
<1>4. News(o.lsdb, req)
  BY <1>1, Zenon DEF Good, News, Lists
<1>5. ospf_ls_request_delete(o, l) = [o EXCEPT !.nbr = n]
  BY Zenon DEF ospf_ls_request_delete, Good, Typed, Neighbours
<1> HIDE DEF req, last
<1>6. /\ n \in Neighbours /\ n.state = o.nbr.state /\ n.ls_req = req
      /\ n.ls_rxmt = o.nbr.ls_rxmt
  BY <1>1, <1>2, <1>3, Zenon DEF Neighbours
<1> HIDE DEF n
<1> QED BY <1>2, <1>4, <1>5, <1>6, Zenon DEF Good, Typed, Kept, Idle

(* An instance that is newer than the database copy is put on the list. *)
LEMMA RetransmitAdds ==
    ASSUME NEW o, Good(o), NEW l \in LSAs, NEW i \in Instances,
           ospf_lsa_more_recent(o.lsdb[l], i) < 0,
           o.nbr.ls_req[l] = NoLSA \/ ospf_lsa_more_recent(o.nbr.ls_req[l], i) > 0
    PROVE  LET q == ospf_ls_retransmit_add(o, l, i)
           IN  Flooded(o, q, l, i)
<1> DEFINE new  == IF ospf_lsa_more_recent(o.nbr.ls_rxmt[l], i) < 0 THEN i ELSE o.nbr.ls_rxmt[l]
           rxmt == [o.nbr.ls_rxmt EXCEPT ![l] = new]
           n    == [o.nbr EXCEPT !.ls_rxmt = rxmt]
<1>1. o.nbr \in Neighbours /\ o.nbr.ls_rxmt \in Lists
  BY Zenon DEF Good, Typed, Neighbours
<1>2. new \in {i, o.nbr.ls_rxmt[l]} /\ new \in Instances \cup {NoLSA}
  BY <1>1, Zenon DEF Lists
<1>3. new \in {NoLSA, i, o.lsdb[l]}
  BY <1>2, Zenon DEF Good, Current
<1>4. ospf_ls_retransmit_add(o, l, i) = [o EXCEPT !.nbr = n]
  BY Zenon DEF ospf_ls_retransmit_add, Good, Typed, Neighbours
<1> HIDE DEF new
<1>5. /\ rxmt \in Lists /\ rxmt[l] = new
      /\ \A k \in LSAs \ {l} : rxmt[k] = o.nbr.ls_rxmt[k]
  BY <1>1, <1>2, Zenon DEF Lists
<1> HIDE DEF rxmt
<1>6. /\ n \in Neighbours /\ n.state = o.nbr.state /\ n.ls_req = o.nbr.ls_req
      /\ n.ls_rxmt = rxmt
  BY <1>1, <1>5, Zenon DEF Neighbours
<1> HIDE DEF n
<1> DEFINE q == [o EXCEPT !.nbr = n]
<1>7. q \in Typed /\ q.lsdb = o.lsdb /\ q.nbr = n
  BY <1>6, Zenon DEF Good, Typed
<1> HIDE DEF q
<1>8. \A k \in LSAs \ {l} : q.nbr.ls_rxmt[k] # NoLSA => q.nbr.ls_rxmt[k] = o.lsdb[k]
  BY <1>5, <1>6, <1>7, Zenon DEF Good, Current
<1>9. Flooded(o, q, l, i)
  BY <1>3, <1>5, <1>6, <1>7, <1>8, Zenon DEF Flooded, Good
<1> QED BY <1>4, <1>9, Zenon DEF q

LEMMA FloodInterface ==
    ASSUME NEW o, Good(o), NEW l \in LSAs, NEW i \in Instances, NEW from_nbr,
           ospf_lsa_more_recent(o.lsdb[l], i) < 0
    PROVE  Flooded(o, ospf_flood_through_interface(o, l, i, from_nbr), l, i)
<1> DEFINE c   == ospf_lsa_more_recent(o.nbr.ls_req[l], i)
           req == o.nbr.state < Full /\ o.nbr.ls_req[l] # NoLSA
           d   == ospf_ls_request_delete(o, l)
           a   == IF req /\ c <= 0 THEN ospf_check_nbr_loading(d) ELSE o
           add == ospf_ls_retransmit_add(a, l, i)
           Free(x) == x.nbr.ls_req[l] = NoLSA \/ ospf_lsa_more_recent(x.nbr.ls_req[l], i) > 0
<1>1. o.nbr.state \in Down..Full /\ o.nbr.ls_req \in Lists
  BY Zenon DEF Good, Typed, Neighbours
<1>2. c \in Int
  BY <1>1, Recency, ZenonT(30) DEF Lists
<1>3. ~req => o.nbr.ls_req[l] = NoLSA
  BY <1>1, EmptyTyped DEF Good, Idle, Down, Exchange, Loading, Full
<1>4. Kept(o, a) /\ Free(a)
  <2>1. CASE req /\ c <= 0
    <3>1. Kept(o, d) /\ d.nbr.ls_req[l] = NoLSA
      BY RequestDeleteKeeps, Zenon
    <3> HIDE DEF d
    <3> QED BY <2>1, <3>1, LoadingKeeps, Zenon DEF Kept
  <2>2. CASE ~(req /\ c <= 0)
    BY <1>2, <1>3, <2>2, SMTT(30) DEF Kept
  <2> QED BY <2>1, <2>2, Zenon
<1>5. ASSUME NEW x, Kept(o, x), Free(x)
      PROVE  /\ Flooded(o, x, l, i)
             /\ Flooded(o, ospf_ls_retransmit_add(x, l, i), l, i)
  <2>1. Good(x) /\ x.lsdb = o.lsdb
    BY <1>5, Zenon DEF Kept
  <2>2. x.nbr.ls_rxmt[l] \in {NoLSA, i, o.lsdb[l]}
    BY <2>1, Zenon DEF Good, Current
  <2>3. Flooded(o, x, l, i)
    BY <1>5, <2>1, <2>2, Zenon DEF Good, Flooded, Current
  <2>4. Flooded(x, ospf_ls_retransmit_add(x, l, i), l, i)
    BY <1>5, <2>1, RetransmitAdds, Zenon
  <2> QED BY <2>1, <2>3, <2>4, Zenon DEF Flooded
<1>6. CASE o.nbr.state < Exchange
  <2>1. ~(o.nbr.state \in {Exchange, Loading})
    BY <1>1, <1>6, StatesDiffer
  <2>2. Free(o) /\ Kept(o, o)
    BY <2>1, EmptyTyped, Zenon DEF Good, Idle, Kept
  <2>3. ospf_flood_through_interface(o, l, i, from_nbr) \in {o, ospf_ls_retransmit_add(o, l, i)}
    BY <1>6, Zenon DEF ospf_flood_through_interface
  <2> QED BY <1>5, <2>2, <2>3, Zenon
<1>7. CASE ~(o.nbr.state < Exchange)
  <2>1. ospf_flood_through_interface(o, l, i, from_nbr) \in {a, Send(add, LsUpd(l, i))}
    BY <1>7, Zenon DEF ospf_flood_through_interface
  <2> HIDE DEF a
  <2>2. Flooded(o, a, l, i) /\ Flooded(o, add, l, i)
    BY <1>4, <1>5, Zenon
  <2> HIDE DEF add
  <2>3. LsUpd(l, i) \in Packets
    BY Zenon DEF LsUpd, Packets, Sent
  <2>4. /\ Send(add, LsUpd(l, i)) \in Typed /\ Send(add, LsUpd(l, i)).lsdb = add.lsdb
        /\ Send(add, LsUpd(l, i)).nbr = add.nbr
    <3>1. Append(add.obuf, LsUpd(l, i)) \in Seq(Packets)
      BY <2>2, <2>3 DEF Flooded, Typed
    <3> QED BY <2>2, <3>1, Zenon DEF Send, Flooded, Typed
  <2> QED BY <2>1, <2>2, <2>4, Zenon DEF Flooded
<1> QED BY <1>6, <1>7, Zenon

-----------------------------------------------------------------------------
(* A step of a router, and of the two routers. *)

(* A router with the invariant whose database is that of o or more recent. *)
Ahead(o, q) ==
    Good(q) /\ \A l \in LSAs : ospf_lsa_more_recent(q.lsdb[l], o.lsdb[l]) >= 0

LEMMA KeptIsAhead ==
    ASSUME NEW o, Good(o), NEW q, Kept(o, q)
    PROVE  Ahead(o, q)
<1>1. ASSUME NEW l \in LSAs
      PROVE  ospf_lsa_more_recent(o.lsdb[l], o.lsdb[l]) >= 0
  <2>1. o.lsdb[l] \in Instances \cup {NoLSA}
    BY Zenon DEF Good, Typed, Lists
  <2> QED BY <2>1, Recency, Zenon
<1> QED BY <1>1, Zenon DEF Kept, Ahead

(* With the new instance in the database, what was requested is still news, *)
(* and what is retransmitted is current again.                              *)
LEMMA InstallAhead ==
    ASSUME NEW o, Good(o), NEW q, NEW l \in LSAs, NEW i \in Instances,
           ospf_lsa_more_recent(o.lsdb[l], i) < 0, Flooded(o, q, l, i)
    PROVE  Ahead(o, ospf_lsa_install(q, l, i))
<1> DEFINE rxmt == [q.nbr.ls_rxmt EXCEPT ![l] = IF @.seq = o.lsdb[l].seq THEN NoLSA ELSE @]
           lsdb == [o.lsdb EXCEPT ![l] = i]
           n    == [q.nbr EXCEPT !.ls_rxmt = rxmt]
           new  == [q EXCEPT !.nbr = n, !.lsdb = lsdb]
<1>1. /\ o.lsdb \in Lists /\ q.nbr \in Neighbours
      /\ q.nbr.ls_req \in Lists /\ q.nbr.ls_rxmt \in Lists
  BY Zenon DEF Good, Flooded, Typed, Neighbours
<1>2. ospf_lsa_install(q, l, i) = new
  BY Zenon DEF ospf_lsa_install, ospf_ls_retransmit_delete_nbr_if, Flooded, Typed, Neighbours
<1>3. rxmt \in Lists /\ lsdb \in Lists
  BY <1>1, Zenon DEF Lists
<1>4. Current(lsdb, rxmt)
  <2> SUFFICES ASSUME NEW k \in LSAs, rxmt[k] # NoLSA
               PROVE  rxmt[k] = lsdb[k]
    BY Zenon DEF Current
  <2>1. CASE k = l
    BY <1>1, <2>1, Zenon DEF Flooded, Lists
  <2>2. CASE k # l
    BY <1>1, <2>2, Zenon DEF Flooded, Lists
  <2> QED BY <2>1, <2>2, Zenon
<1>5. News(lsdb, q.nbr.ls_req)
  <2> SUFFICES ASSUME NEW k \in LSAs, q.nbr.ls_req[k] # NoLSA
               PROVE  ospf_lsa_more_recent(lsdb[k], q.nbr.ls_req[k]) < 0
    BY Zenon DEF News
  <2>1. CASE k = l
    <3>1. lsdb[k] = i /\ ospf_lsa_more_recent(q.nbr.ls_req[k], i) > 0
      BY <1>1, <2>1, Zenon DEF Flooded, Lists
    <3>2. q.nbr.ls_req[k] \in Instances \cup {NoLSA}
      BY <1>1, Zenon DEF Lists
    <3> QED BY <3>1, <3>2, Recency, Zenon
  <2>2. CASE k # l
    BY <1>1, <2>2, Zenon DEF Flooded, News, Lists
  <2> QED BY <2>1, <2>2, Zenon
<1>6. ASSUME NEW k \in LSAs
      PROVE  ospf_lsa_more_recent(lsdb[k], o.lsdb[k]) >= 0
  <2>1. o.lsdb[k] \in Instances \cup {NoLSA} /\ (k # l => lsdb[k] = o.lsdb[k])
        /\ (k = l => lsdb[k] = i)
    BY <1>1, Zenon DEF Lists
  <2> HIDE DEF lsdb
  <2>2. k = l => ospf_lsa_more_recent(i, o.lsdb[k]) >= 0
    BY <2>1, Recency
  <2>3. k # l => ospf_lsa_more_recent(o.lsdb[k], o.lsdb[k]) >= 0
    BY <2>1, Recency, Zenon
  <2> QED BY <2>1, <2>2, <2>3, Zenon
<1> HIDE DEF rxmt, lsdb
<1>7. /\ n \in Neighbours /\ n.state = q.nbr.state /\ n.ls_req = q.nbr.ls_req
      /\ n.ls_rxmt = rxmt
  BY <1>1, <1>3, Zenon DEF Neighbours
<1> HIDE DEF n
<1>8. new \in Typed /\ new.lsdb = lsdb /\ new.nbr = n
  BY <1>3, <1>7, Zenon DEF Flooded, Typed
<1> HIDE DEF new
<1>9. Good(new)
  BY <1>4, <1>5, <1>7, <1>8, Zenon DEF Good, Flooded
<1> QED BY <1>2, <1>6, <1>8, <1>9, Zenon DEF Ahead

LEMMA FloodAhead ==
    ASSUME NEW o, Good(o), NEW l \in LSAs, NEW i \in Instances, NEW from_nbr,
           ospf_lsa_more_recent(o.lsdb[l], i) < 0
    PROVE  Ahead(o, ospf_flood(o, l, i, from_nbr))
<1> DEFINE sent == ospf_flood_through_interface(o, l, i, from_nbr)
           a == ospf_lsa_install(sent, l, i)
           b == [a EXCEPT !.ls_ack = Append(@, LsAck(l, i))]
<1>1. ospf_flood(o, l, i, from_nbr) \in {a, b}
  <2> DEFINE Install(x) == LET y == ospf_lsa_install(x, l, i)
                           IN  IF from_nbr THEN [y EXCEPT !.ls_ack = Append(@, LsAck(l, i))]
                               ELSE y
  <2>1. ospf_flood(o, l, i, from_nbr) = With(sent, Install)
    BY Zenon DEF ospf_flood
  <2> HIDE DEF sent
  <2>2. With(sent, Install) = Install(sent)
    <3> HIDE DEF Install
    <3> QED BY Zenon DEF With
  <2> QED BY <2>1, <2>2, Zenon
<1>2. Ahead(o, a)
  BY FloodInterface, InstallAhead, Zenon
<1> HIDE DEF a
<1>3. LsAck(l, i) \in Packets
  BY Zenon DEF LsAck, Packets, Acked
<1>4. b \in Typed /\ b.lsdb = a.lsdb /\ b.nbr = a.nbr
  <2>1. Append(a.ls_ack, LsAck(l, i)) \in Seq(Packets)
    BY <1>2, <1>3 DEF Ahead, Good, Typed
  <2> QED BY <1>2, <2>1, Zenon DEF Ahead, Good, Typed
<1> HIDE DEF b
<1>5. Ahead(o, b)
  BY <1>2, <1>4, Zenon DEF Ahead, Good
<1> QED BY <1>1, <1>2, <1>5, Zenon

(* An LSA leaves the retransmission list. *)
LEMMA AckedKeeps ==
    ASSUME NEW o, Good(o), NEW l \in LSAs
    PROVE  Kept(o, [o EXCEPT !.nbr.ls_rxmt[l] = NoLSA])
<1> DEFINE rxmt == [o.nbr.ls_rxmt EXCEPT ![l] = NoLSA]
           n    == [o.nbr EXCEPT !.ls_rxmt = rxmt]
<1>1. o.nbr \in Neighbours /\ o.nbr.ls_rxmt \in Lists
  BY Zenon DEF Good, Typed, Neighbours
<1>2. rxmt \in Lists /\ Current(o.lsdb, rxmt)
  BY <1>1, Zenon DEF Lists, Good, Current
<1>3. [o EXCEPT !.nbr.ls_rxmt[l] = NoLSA] = [o EXCEPT !.nbr = n]
  BY Zenon DEF Good, Typed, Neighbours
<1> HIDE DEF rxmt
<1>4. /\ n \in Neighbours /\ n.state = o.nbr.state /\ n.ls_req = o.nbr.ls_req
      /\ n.ls_rxmt = rxmt
  BY <1>1, <1>2, Zenon DEF Neighbours
<1> HIDE DEF n
<1> QED BY <1>2, <1>3, <1>4, Zenon DEF Good, Typed, Kept

LEMMA LsUpdAhead ==
    ASSUME NEW o, Good(o), NEW p \in Sent, NEW recent, NEW rnd \in 0..SeqMod - 1
    PROVE  Ahead(o, ospf_ls_upd(o, p, recent, rnd))
<1> DEFINE l   == p.lsa
           cur == o.lsdb[l]
           q   == ospf_ls_upd(o, p, recent, rnd)
<1>1. l \in LSAs /\ p.inst \in Instances /\ cur \in Instances \cup {NoLSA}
  BY Zenon DEF Sent, Good, Typed, Lists
<1>2. CASE ospf_lsa_more_recent(cur, p.inst) < 0
  <2>1. q \in {o, ospf_flood(o, l, p.inst, TRUE)}
    BY <1>2, Zenon DEF ospf_ls_upd
  <2>2. Ahead(o, o)
    BY KeptIsAhead, Zenon DEF Kept
  <2>3. Ahead(o, ospf_flood(o, l, p.inst, TRUE))
    BY <1>1, <1>2, FloodAhead, Zenon
  <2> QED BY <2>1, <2>2, <2>3, Zenon
<1>3. CASE ~(ospf_lsa_more_recent(cur, p.inst) < 0)
  <2>1. q \in {o, Restart(o, rnd), [o EXCEPT !.nbr.ls_rxmt[l] = NoLSA],
               Send(o, LsAck(l, p.inst)), Send(o, LsUpd(l, cur))}
    BY <1>3, Zenon DEF ospf_ls_upd
  <2>2. cur \in Instances
    BY <1>1, <1>3, Recency, Zenon DEF Instances, NoLSA, Instance
  <2>3. LsAck(l, p.inst) \in Packets /\ LsUpd(l, cur) \in Packets
    BY <1>1, <2>2, Zenon DEF LsAck, LsUpd, Packets, Acked, Sent
  <2>4. Kept(o, Restart(o, rnd))
    BY ChangeKeeps, Zenon DEF Restart
  <2>5. Kept(o, o) /\ Kept(o, Send(o, LsAck(l, p.inst))) /\ Kept(o, Send(o, LsUpd(l, cur)))
    BY <2>3, SendKeeps, Zenon DEF Kept
  <2>6. Kept(o, [o EXCEPT !.nbr.ls_rxmt[l] = NoLSA])
    BY <1>1, AckedKeeps, Zenon
  <2> HIDE DEF q
  <2>7. Kept(o, q)
    BY <2>1, <2>4, <2>5, <2>6, Zenon
  <2>8. Ahead(o, q)
    BY <2>7, KeptIsAhead, Zenon
  <2> QED BY <2>8, Zenon DEF q
<1> QED BY <1>2, <1>3, Zenon

LEMMA LsAckKeeps ==
    ASSUME NEW o, Good(o), NEW p \in Acked
    PROVE  Kept(o, ospf_ls_ack(o, p))
<1>1. p.lsa \in LSAs
  BY Zenon DEF Acked
<1> QED BY <1>1, AckedKeeps, Zenon DEF ospf_ls_ack, Kept

LEMMA HandleAhead ==
    ASSUME NEW o, Good(o), NEW r, NEW p \in Packets, NEW odd, NEW rnd \in 0..SeqMod - 1
    PROVE  Ahead(o, Handle(o, r, p, odd, rnd))
<1>1. CASE p \in Descriptions
  <2>1. Handle(o, r, p, odd, rnd) = ospf_db_desc(o, r, p, odd, rnd)
    BY <1>1, Zenon DEF Handle, Descriptions
  <2> QED BY <1>1, <2>1, DbDescKeeps, KeptIsAhead, Zenon
<1>2. CASE p \in Asked
  <2>1. Handle(o, r, p, odd, rnd) = ospf_ls_req(o, p, rnd)
    BY <1>2, Zenon DEF Handle, Asked
  <2> QED BY <1>2, <2>1, LsReqKeeps, KeptIsAhead, Zenon
<1>3. CASE p \in Sent
  <2>1. Handle(o, r, p, odd, rnd) = ospf_ls_upd(o, p, odd, rnd)
    BY <1>3, Zenon DEF Handle, Sent
  <2> QED BY <1>3, <2>1, LsUpdAhead, Zenon
<1>4. CASE p \in Acked
  <2>1. Handle(o, r, p, odd, rnd) = ospf_ls_ack(o, p)
    BY <1>4, Zenon DEF Handle, Acked
  <2> QED BY <1>4, <2>1, LsAckKeeps, KeptIsAhead, Zenon
<1> QED BY <1>1, <1>2, <1>3, <1>4, Zenon DEF Packets

-----------------------------------------------------------------------------
(* Actions *)

(* Both routers, f, have the invariant. *)
Sound(f) == f \in [Routers -> Typed] /\ \A r \in Routers : Good(f[r])

(* And after a step to g they do, with databases as recent as before. *)
Moves(f, g) == Sound(g) /\ \A r \in Routers : Ahead(f[r], g[r])

Inv == Sound(router) /\ troubles \in 0..MaxTroubles

LEMMA PeerOf ==
    ASSUME NEW r \in Routers
    PROVE  Peer(r) \in Routers /\ Peer(r) # r /\ Routers = {r, Peer(r)}
BY DEF Routers, Peer

LEMMA OneMoves ==
    ASSUME NEW f, Sound(f), NEW r \in Routers, NEW q, Ahead(f[r], q)
    PROVE  Moves(f, [f EXCEPT ![r] = q])
<1> DEFINE g == [f EXCEPT ![r] = q]
<1>1. q \in Typed /\ Good(q)
  BY Zenon DEF Ahead, Good
<1>2. /\ g \in [Routers -> Typed] /\ g[r] = q
      /\ \A s \in Routers : s # r => g[s] = f[s]
  BY <1>1, Zenon DEF Sound
<1> HIDE DEF g
<1>3. \A s \in Routers : Ahead(f[s], g[s])
  <2> TAKE s \in Routers
  <2>1. CASE s = r
    BY <1>2, <2>1, Zenon
  <2>2. CASE s # r
    <3>1. Good(f[s]) /\ Kept(f[s], f[s])
      BY Zenon DEF Sound, Kept
    <3> QED BY <1>2, <2>2, <3>1, KeptIsAhead, Zenon
  <2> QED BY <2>1, <2>2, Zenon
<1>4. Moves(f, g)
  BY <1>2, <1>3, Zenon DEF Moves, Sound, Ahead
<1> QED BY <1>4, Zenon DEF g

LEMMA QueueKeeps ==
    ASSUME NEW o, Good(o), NEW q \in Seq(Packets)
    PROVE  Kept(o, [o EXCEPT !.obuf = q])
BY ZenonT(30) DEF Good, Typed, Kept

LEMMA RandomTyped ==
    ASSUME NEW r \in Routers, Inv
    PROVE  random(r) \in 0..SeqMod - 1
<1>1. FirstSeq \in Nat /\ Stride \in Nat /\ MaxTroubles \in Nat
  BY AdjacencyAssumption, Zenon
<1>2. r \in Int /\ troubles \in Int
  BY <1>1 DEF Inv, Routers
<1>3. (r + 2 * troubles) * Stride \in Int
  BY <1>1, <1>2
<1>4. FirstSeq + (r + 2 * troubles) * Stride \in Int
  BY <1>1, <1>3
<1> QED BY <1>4, Numbered, Zenon DEF random

LEMMA NewNeighbour ==
    /\ ospf_nbr_new \in Neighbours
    /\ ospf_nbr_new.state = Down /\ ospf_nbr_new.ls_req = Empty
    /\ ospf_nbr_new.ls_rxmt = Empty
<1>1. NoPacket \in Descriptions /\ AllFlags \in Flags /\ 0 \in 0..SeqMod - 1
  <2>1. 0 \in 0..SeqMod - 1
    BY AdjacencyAssumption
  <2> QED BY <2>1, Zenon DEF NoPacket, DbDesc, Descriptions, NoFlags, AllFlags, Flags
<1>2. Down \in Down..Full
  BY StatesDiffer, Zenon
<1> HIDE DEF Down, Empty, NoPacket, AllFlags
<1> QED BY <1>1, <1>2, EmptyTyped, Zenon DEF ospf_nbr_new, Neighbours

(* A router that knows no neighbour. *)
LEMMA AloneGood ==
    ASSUME NEW o \in Typed, o.nbr = ospf_nbr_new
    PROVE  Good(o)
<1>1. News(o.lsdb, Empty) /\ Current(o.lsdb, Empty) /\ Idle(Down, Empty)
  BY EmptyTyped, Zenon DEF News, Current, Idle
<1> QED BY <1>1, NewNeighbour, Zenon DEF Good

(* Hearing of a neighbour for the first time. *)
LEMMA HeardKeeps ==
    ASSUME NEW o, Good(o), o.nbr.state = Down
    PROVE  Kept(o, [o EXCEPT !.nbr.state = InitState])
<1> DEFINE n == [o.nbr EXCEPT !.state = InitState]
<1>1. o.nbr \in Neighbours /\ InitState \in Down..Full
  BY StatesDiffer, Zenon DEF Good, Typed
<1>2. [o EXCEPT !.nbr.state = InitState] = [o EXCEPT !.nbr = n]
  BY Zenon DEF Good, Typed
<1>3. /\ n \in Neighbours /\ n.ls_req = o.nbr.ls_req /\ n.ls_rxmt = o.nbr.ls_rxmt
      /\ n.state = InitState
  BY <1>1, Zenon DEF Neighbours
<1> HIDE DEF n
<1>4. o.nbr.ls_req = Empty
  BY DEF Good, Idle, Down, Exchange, Loading
<1>5. Idle(n.state, n.ls_req)
  BY <1>3, <1>4, Zenon DEF Idle
<1> QED BY <1>2, <1>3, <1>5, Zenon DEF Good, Typed, Kept

LEMMA HelloMoves ==
    ASSUME Inv, NEW r \in Routers, ospf_hello(r)
    PROVE  Moves(router, router') /\ troubles' = troubles
<1> DEFINE o     == router[r]
           heard == IF o.nbr.state = Down THEN [o EXCEPT !.nbr.state = InitState] ELSE o
           early == nsm_change_state(o, InitState, 0)
           start == nsm_change_state(heard, ExStart, random(r))
<1>1. Good(o) /\ Kept(o, o)
  BY Zenon DEF Inv, Sound, Kept
<1>2. Kept(o, heard)
  BY <1>1, HeardKeeps, Zenon
<1>3. PICK q \in {o, heard, early, start} : router' = [router EXCEPT ![r] = q]
  <2> HIDE DEF heard, early, start
  <2>1. router' = [router EXCEPT ![r] =
             IF router[Peer(r)].nbr.state = Down
             THEN IF o.nbr.state > InitState THEN early ELSE heard
             ELSE IF heard.nbr.state = InitState THEN start ELSE o]
    BY Zenon DEF ospf_hello, heard, early, start
  <2> QED BY <2>1, Zenon
<1> HIDE DEF heard
<1>4. 0 \in 0..SeqMod - 1
  BY AdjacencyAssumption
<1>5. Kept(o, early)
  BY <1>1, <1>4, ChangeKeeps, Zenon
<1>6. Kept(heard, start)
  BY <1>2, RandomTyped, ChangeKeeps, Zenon DEF Kept
<1>7. Kept(o, start)
  <2> HIDE DEF start
  <2> QED BY <1>2, <1>6, Zenon DEF Kept
<1> HIDE DEF early, start
<1>8. Kept(o, q)
  BY <1>1, <1>2, <1>3, <1>5, <1>7, Zenon
<1>9. Moves(router, [router EXCEPT ![r] = q])
  <2>1. Ahead(router[r], q)
    BY <1>1, <1>8, KeptIsAhead, Zenon
  <2> QED BY <2>1, OneMoves, Zenon DEF Inv
<1> QED BY <1>3, <1>9, Zenon DEF ospf_hello

(* The queue of r changes, to one that holds packets. *)
LEMMA QueueMoves ==
    ASSUME NEW f, Sound(f), NEW r \in Routers, NEW q \in Seq(Packets)
    PROVE  Moves(f, [f EXCEPT ![r].obuf = q])
<1>1. Ahead(f[r], [f[r] EXCEPT !.obuf = q])
  BY QueueKeeps, KeptIsAhead, Zenon DEF Sound
<1>2. [f EXCEPT ![r].obuf = q] = [f EXCEPT ![r] = [f[r] EXCEPT !.obuf = q]]
  BY Zenon DEF Sound
<1> QED BY <1>1, <1>2, OneMoves, Zenon

LEMMA MovesCompose ==
    ASSUME NEW f, NEW r \in Routers, NEW q, Sound(f), NEW g, Moves(f, g),
           g[r] = f[r], Ahead(f[r], q)
    PROVE  Moves(f, [g EXCEPT ![r] = q])
<1> DEFINE h == [g EXCEPT ![r] = q]
<1>1. Moves(g, h)
  BY OneMoves, Zenon DEF Moves
<1>2. h[r] = q /\ \A s \in Routers : s # r => h[s] = g[s]
  BY Zenon DEF Moves, Sound
<1> HIDE DEF h
<1>3. \A s \in Routers : Ahead(f[s], h[s])
  BY <1>2, Zenon DEF Moves
<1>4. Moves(f, h)
  BY <1>1, <1>3, Zenon DEF Moves
<1> QED BY <1>4, Zenon DEF h

LEMMA ReceiveMoves ==
    ASSUME Inv, NEW r \in Routers, NEW odd \in BOOLEAN, receive(r, odd)
    PROVE  Moves(router, router') /\ troubles' \in 0..MaxTroubles
<1> DEFINE q   == router[Peer(r)].obuf
           new == Handle(router[r], r, Head(q), odd, random(r))
           g   == [router EXCEPT ![Peer(r)].obuf = Tail(q)]
<1>1. q \in Seq(Packets) /\ q # <<>> /\ Sound(router)
  BY PeerOf, Zenon DEF Inv, Sound, Typed, receive
<1>2. Head(q) \in Packets /\ Tail(q) \in Seq(Packets)
  <2> HIDE DEF q
  <2> QED BY <1>1, HeadTailProperties, Zenon
<1>3. Ahead(router[r], new)
  <2>1. Good(router[r])
    BY <1>1, Zenon DEF Sound
  <2> HIDE DEF q
  <2> QED BY <1>2, <2>1, RandomTyped, HandleAhead, Zenon
<1> HIDE DEF new
<1>4. router' = [g EXCEPT ![r] = new]
  BY Zenon DEF receive, new
<1>5. Moves(router, g)
  <2> HIDE DEF q
  <2> QED BY <1>1, <1>2, PeerOf, QueueMoves, Zenon
<1>6. g[r] = router[r]
  BY <1>1, PeerOf, Zenon DEF Sound
<1> HIDE DEF g
<1>7. Moves(router, router')
  BY <1>1, <1>3, <1>4, <1>5, <1>6, MovesCompose, ZenonT(30)
<1>8. troubles' \in 0..MaxTroubles
  <2>1. MaxTroubles \in Nat
    BY AdjacencyAssumption, Zenon
  <2> QED BY <2>1 DEF receive, Inv
<1> QED BY <1>7, <1>8, Zenon

LEMMA LoseMoves ==
    ASSUME Inv, NEW r \in Routers, lose(r)
    PROVE  Moves(router, router') /\ troubles' \in 0..MaxTroubles
<1> DEFINE q == router[Peer(r)].obuf
<1>1. q \in Seq(Packets) /\ q # <<>> /\ Sound(router)
  BY PeerOf, Zenon DEF Inv, Sound, Typed, lose
<1>2. router' = [router EXCEPT ![Peer(r)].obuf = Tail(q)]
  BY Zenon DEF lose
<1> HIDE DEF q
<1>3. Tail(q) \in Seq(Packets)
  BY <1>1, HeadTailProperties, Zenon
<1>4. Moves(router, router')
  BY <1>1, <1>2, <1>3, PeerOf, QueueMoves, ZenonT(30)
<1>5. MaxTroubles \in Nat
  BY AdjacencyAssumption, Zenon
<1> QED BY <1>4, <1>5 DEF lose, Inv

LEMMA ResendMoves ==
    ASSUME Inv, NEW r \in Routers, ospf_db_desc_timer(r) \/ ospf_ls_req_timer(r)
    PROVE  Moves(router, router') /\ troubles' = troubles
<1>1. Good(router[r]) /\ Sound(router)
  BY Zenon DEF Inv, Sound
<1>2. PICK q \in {ospf_db_desc_resend(router[r]), ospf_ls_req_send(router[r])} :
        router' = [router EXCEPT ![r] = q]
  BY Zenon DEF ospf_db_desc_timer, ospf_ls_req_timer
<1>3. Kept(router[r], q)
  BY <1>1, <1>2, ResendKeeps, ReqSendKeeps, Zenon
<1>4. Ahead(router[r], q)
  BY <1>1, <1>3, KeptIsAhead, Zenon
<1>5. Moves(router, router')
  BY <1>1, <1>2, <1>4, OneMoves, Zenon
<1> QED BY <1>5, Zenon DEF ospf_db_desc_timer, ospf_ls_req_timer

LEMMA RetransmitMoves ==
    ASSUME Inv, NEW r \in Routers, ospf_ls_upd_timer(r)
    PROVE  Moves(router, router') /\ troubles' = troubles
<1> DEFINE rxmt == router[r].nbr.ls_rxmt
           obuf == router[r].obuf
           upds(seq) == [n \in DOMAIN seq |-> LsUpd(seq[n], rxmt[seq[n]])]
<1>1. rxmt \in Lists /\ obuf \in Seq(Packets) /\ Sound(router)
  BY Zenon DEF Inv, Sound, Typed, Neighbours
<1>2. PICK seq \in Ascending(Keys(rxmt)) :
        router' = [router EXCEPT ![r].obuf = obuf \o upds(seq)]
  BY Zenon DEF ospf_ls_upd_timer
<1> HIDE DEF rxmt, obuf
<1>3. Cardinality(Keys(rxmt)) \in Nat
  <2>1. IsFiniteSet(LSAs) /\ Keys(rxmt) \in SUBSET LSAs
    BY AdjacencyAssumption, Zenon DEF Keys
  <2>2. IsFiniteSet(Keys(rxmt))
    BY <2>1, FS_Subset, Zenon
  <2> QED BY <2>2, FS_CardinalityType, Zenon
<1>4. seq \in [1..Cardinality(Keys(rxmt)) -> Keys(rxmt)]
  BY Zenon DEF Ascending
<1>5. \A l \in Keys(rxmt) : LsUpd(l, rxmt[l]) \in Packets
  BY <1>1, Zenon DEF Keys, Lists, LsUpd, Packets, Sent
<1>6. upds(seq) \in Seq(Packets)
  <2>1. \A n \in 1..Cardinality(Keys(rxmt)) : LsUpd(seq[n], rxmt[seq[n]]) \in Packets
    BY <1>4, <1>5, Zenon
  <2>2. upds(seq) \in [1..Cardinality(Keys(rxmt)) -> Packets]
    BY <1>4, <2>1, Zenon
  <2> QED BY <1>3, <2>2
<1> HIDE DEF upds
<1>7. obuf \o upds(seq) \in Seq(Packets)
  BY <1>1, <1>6
<1>8. Moves(router, router')
  BY <1>1, <1>2, <1>7, QueueMoves, ZenonT(30)
<1> QED BY <1>8, Zenon DEF ospf_ls_upd_timer

LEMMA AckMoves ==
    ASSUME Inv, NEW r \in Routers, ospf_ls_ack_timer(r)
    PROVE  Moves(router, router') /\ troubles' = troubles
<1> DEFINE o == router[r]
           n == [o EXCEPT !.ls_ack = <<>>, !.obuf = o.obuf \o o.ls_ack]
<1>1. Good(o) /\ Sound(router) /\ o.obuf \in Seq(Packets) /\ o.ls_ack \in Seq(Packets)
  BY Zenon DEF Inv, Sound, Typed
<1>2. router' = [router EXCEPT ![r] = n]
  BY Zenon DEF ospf_ls_ack_timer, Inv, Sound, Typed
<1>3. Kept(o, n)
  <2>1. o.obuf \o o.ls_ack \in Seq(Packets) /\ <<>> \in Seq(Packets)
    BY <1>1
  <2>2. n \in Typed /\ n.lsdb = o.lsdb /\ n.nbr = o.nbr
    BY <1>1, <2>1, Zenon DEF Good, Typed
  <2> HIDE DEF n
  <2> QED BY <1>1, <2>2, Zenon DEF Good, Kept
<1> HIDE DEF n
<1>4. Ahead(router[r], n)
  BY <1>1, <1>3, KeptIsAhead, Zenon
<1>5. Moves(router, router')
  BY <1>1, <1>2, <1>4, OneMoves, Zenon
<1> QED BY <1>5, Zenon DEF ospf_ls_ack_timer

LEMMA LearnMoves ==
    ASSUME Inv, NEW r \in Routers, NEW l \in LSAs, NEW i \in Instances, learn(r, l, i)
    PROVE  Moves(router, router') /\ troubles' = troubles
<1>1. Good(router[r]) /\ Sound(router)
  BY Zenon DEF Inv, Sound
<1>2. Ahead(router[r], ospf_flood(router[r], l, i, FALSE))
  BY <1>1, FloodAhead, Zenon DEF learn
<1>3. router' = [router EXCEPT ![r] = ospf_flood(router[r], l, i, FALSE)]
  BY Zenon DEF learn
<1>4. Moves(router, router')
  BY <1>1, <1>2, <1>3, OneMoves, ZenonT(30)
<1> QED BY <1>4, Zenon DEF learn

LEMMA InactivityMoves ==
    ASSUME Inv, NEW r \in Routers, ospf_inactivity_timer(r)
    PROVE  Moves(router, router') /\ troubles' \in 0..MaxTroubles
<1> DEFINE o == router[r]
           n == [o EXCEPT !.nbr = ospf_nbr_new]
<1>1. Good(o) /\ Sound(router)
  BY Zenon DEF Inv, Sound
<1>2. router' = [router EXCEPT ![r] = n]
  BY Zenon DEF ospf_inactivity_timer, Inv, Sound
<1>3. n \in Typed /\ n.lsdb = o.lsdb /\ n.nbr = ospf_nbr_new
  BY <1>1, NewNeighbour, Zenon DEF Good, Typed
<1> HIDE DEF n
<1>4. Kept(o, n)
  BY <1>3, AloneGood, Zenon DEF Kept
<1>5. Ahead(router[r], n)
  BY <1>1, <1>4, KeptIsAhead
<1>6. Moves(router, router')
  BY <1>1, <1>2, <1>5, OneMoves, ZenonT(30)
<1>7. MaxTroubles \in Nat
  BY AdjacencyAssumption
<1> QED BY <1>6, <1>7 DEF ospf_inactivity_timer, Inv

(* The router that restarts loses its database, and the other one nothing. *)
LEMMA RestartSound ==
    ASSUME Inv, NEW r \in Routers, restart(r)
    PROVE  /\ Sound(router') /\ Ahead(router[Peer(r)], router'[Peer(r)])
           /\ troubles' \in 0..MaxTroubles
<1> DEFINE new == [lsdb |-> Empty, nbr |-> ospf_nbr_new, ls_ack |-> <<>>, obuf |-> <<>>]
           s   == Peer(r)
           cut == [router[s] EXCEPT !.obuf = <<>>]
<1>1. <<>> \in Seq(Packets) /\ s \in Routers /\ s # r /\ Routers = {r, s}
  BY PeerOf
<1>2. Good(new)
  <2>1. new \in Typed /\ new.nbr = ospf_nbr_new
    BY <1>1, EmptyTyped, NewNeighbour, Zenon DEF Typed
  <2> QED BY <2>1, AloneGood, Zenon
<1>3. Good(router[s]) /\ Kept(router[s], cut)
  BY <1>1, QueueKeeps, Zenon DEF Inv, Sound
<1>4. Ahead(router[s], cut) /\ Good(cut)
  BY <1>3, KeptIsAhead, Zenon DEF Kept
<1> HIDE DEF new, s
<1>5. router' = [router EXCEPT ![r] = new, ![s].obuf = <<>>]
  BY Zenon DEF restart, new, s
<1>6. router' = [router EXCEPT ![r] = new, ![s] = cut]
  BY <1>1, <1>5, Zenon DEF Inv, Sound
<1> HIDE DEF cut
<1>7. /\ DOMAIN router' = Routers /\ router'[r] = new /\ router'[s] = cut
      /\ router' = [t \in Routers |-> router'[t]]
  BY <1>1, <1>6, Zenon DEF Inv, Sound
<1>8. \A t \in Routers : Good(router'[t]) /\ router'[t] \in Typed
  BY <1>1, <1>2, <1>4, <1>7, Zenon DEF Good
<1>9. Sound(router')
  BY <1>7, <1>8, Zenon DEF Sound
<1>10. MaxTroubles \in Nat /\ troubles' \in 0..MaxTroubles
  <2>1. MaxTroubles \in Nat
    BY AdjacencyAssumption
  <2> QED BY <2>1 DEF restart, Inv
<1>11. Ahead(router[s], router'[s])
  BY <1>4, <1>7
<1> QED BY <1>9, <1>10, <1>11, Zenon DEF s

LEMMA InitInv == Init => Inv
<1> SUFFICES ASSUME Init PROVE Inv
  BY Zenon
<1> DEFINE new(d) == [lsdb |-> d, nbr |-> ospf_nbr_new, ls_ack |-> <<>>, obuf |-> <<>>]
<1>1. PICK db \in Databases : router = [r \in Routers |-> new(db[r])]
  BY Zenon DEF Init
<1>2. db \in [Routers -> Lists]
  <2>1. Databases \subseteq [Routers -> Lists]
    BY AdjacencyAssumption, Zenon DEF Lists
  <2> QED BY <2>1, Zenon
<1>3. \A d \in Lists : new(d) \in Typed /\ new(d).nbr = ospf_nbr_new
  BY NewNeighbour DEF Typed
<1> HIDE DEF new
<1>4. \A d \in Lists : Good(new(d))
  BY <1>3, AloneGood, Zenon
<1>5. Sound(router)
  BY <1>1, <1>2, <1>3, <1>4 DEF Sound
<1>6. troubles \in 0..MaxTroubles
  <2>1. MaxTroubles \in Nat
    BY AdjacencyAssumption, Zenon
  <2> QED BY <2>1 DEF Init
<1> QED BY <1>5, <1>6, Zenon DEF Inv

(* Every step keeps the invariant, and the databases but that of a router   *)
(* that restarts.                                                           *)
LEMMA StepKeeps ==
    ASSUME Inv, [Next]_vars
    PROVE  /\ Inv'
           /\ \A r \in Routers : restart(r) \/ Ahead(router[r], router'[r])
<1> DEFINE Goal == /\ Inv'
                   /\ \A r \in Routers : restart(r) \/ Ahead(router[r], router'[r])
<1>1. ASSUME Moves(router, router'), troubles' \in 0..MaxTroubles
      PROVE  Goal
  BY <1>1, Zenon DEF Moves, Inv
<1>2. troubles' = troubles => troubles' \in 0..MaxTroubles
  BY Zenon DEF Inv
<1>3. ASSUME UNCHANGED vars PROVE Goal
  <2>1. \A r \in Routers : Ahead(router[r], router'[r])
    <3> TAKE r \in Routers
    <3>1. router'[r] = router[r] /\ Good(router[r])
      BY <1>3, Zenon DEF vars, Inv, Sound
    <3>2. Ahead(router[r], router[r])
      BY <3>1, KeptIsAhead, Zenon DEF Kept
    <3> QED BY <3>1, <3>2, Zenon
  <2>2. Inv'
    BY <1>3, Zenon DEF vars, Inv, Sound
  <2> QED BY <2>1, <2>2, Zenon
<1>4. ASSUME NEW r \in Routers, ospf_hello(r) PROVE Goal
  <2>1. Moves(router, router') /\ troubles' = troubles
    BY <1>4, HelloMoves, Zenon
  <2> QED BY <1>1, <1>2, <2>1, Zenon
<1>5. ASSUME NEW r \in Routers, NEW odd \in BOOLEAN, receive(r, odd) PROVE Goal
  <2>1. Moves(router, router') /\ troubles' \in 0..MaxTroubles
    BY <1>5, ReceiveMoves, Zenon
  <2> QED BY <1>1, <2>1, Zenon
<1>6. ASSUME NEW r \in Routers, lose(r) PROVE Goal
  <2>1. Moves(router, router') /\ troubles' \in 0..MaxTroubles
    BY <1>6, LoseMoves, Zenon
  <2> QED BY <1>1, <2>1, Zenon
<1>7. ASSUME NEW r \in Routers, ospf_db_desc_timer(r) \/ ospf_ls_req_timer(r) PROVE Goal
  <2>1. Moves(router, router') /\ troubles' = troubles
    BY <1>7, ResendMoves, ZenonT(30)
  <2> QED BY <1>1, <1>2, <2>1
<1>8. ASSUME NEW r \in Routers, ospf_ls_upd_timer(r) PROVE Goal
  <2>1. Moves(router, router') /\ troubles' = troubles
    BY <1>8, RetransmitMoves, ZenonT(30)
  <2> QED BY <1>1, <1>2, <2>1
<1>9. ASSUME NEW r \in Routers, ospf_ls_ack_timer(r) PROVE Goal
  <2>1. Moves(router, router') /\ troubles' = troubles
    BY <1>9, AckMoves, ZenonT(30)
  <2> QED BY <1>1, <1>2, <2>1
<1>10. ASSUME NEW r \in Routers, NEW l \in LSAs, NEW i \in Instances, learn(r, l, i)
       PROVE  Goal
  <2>1. Moves(router, router') /\ troubles' = troubles
    BY <1>10, LearnMoves, ZenonT(30)
  <2> QED BY <1>1, <1>2, <2>1, Zenon
<1>11. ASSUME NEW r \in Routers, ospf_inactivity_timer(r) PROVE Goal
  <2>1. Moves(router, router') /\ troubles' \in 0..MaxTroubles
    BY <1>11, InactivityMoves
  <2> QED BY <1>1, <2>1
<1>12. ASSUME NEW r \in Routers, restart(r) PROVE Goal
  <2>1. /\ Sound(router') /\ Ahead(router[Peer(r)], router'[Peer(r)])
        /\ troubles' \in 0..MaxTroubles
    BY <1>12, RestartSound, Zenon
  <2>2. \A s \in Routers : s = r \/ s = Peer(r)
    BY PeerOf, Zenon
  <2> QED BY <1>12, <2>1, <2>2, Zenon DEF Inv
<1> HIDE DEF Goal
<1>13. ASSUME Next PROVE Goal
  <2>1. PICK r \in Routers :
           \/ ospf_hello(r)
           \/ \E odd \in BOOLEAN : receive(r, odd)
           \/ lose(r)
           \/ ospf_db_desc_timer(r) \/ ospf_ls_req_timer(r)
           \/ ospf_ls_upd_timer(r)
           \/ ospf_ls_ack_timer(r)
           \/ \E l \in LSAs, i \in Instances : learn(r, l, i)
           \/ ospf_inactivity_timer(r)
           \/ restart(r)
    BY <1>13, Zenon DEF Next
  <2> QED
    BY <1>4, <1>5, <1>6, <1>7, <1>8, <1>9, <1>10, <1>11, <1>12, <2>1, Zenon
<1>14. Goal
  BY <1>3, <1>13, Zenon
<1> QED BY <1>14, Zenon DEF Goal

LEMMA Invariance == Spec => []Inv
<1>1. Inv /\ [Next]_vars => Inv'
  BY StepKeeps, Zenon
<1> QED BY InitInv, <1>1, PTL DEF Spec

-----------------------------------------------------------------------------
(* Whatever is lost, late, repeated or restarted, the state of a neighbour,  *)
(* its lists and its dd_seqnum have values the code can give them.           *)
THEOREM TypeCorrect == Spec => []TypeOK
<1>1. Inv => TypeOK
  <2> SUFFICES ASSUME Inv PROVE TypeOK
    BY Zenon
  <2>1. ASSUME NEW r \in Routers
        PROVE  /\ router[r].lsdb \in Lists /\ router[r].nbr \in Neighbours
    BY DEF Inv, Sound, Typed
  <2> QED BY <2>1, Zenon DEF TypeOK, Inv, Neighbours, Lists
<1> QED BY Invariance, <1>1, PTL

(* ospf_db_desc_proc, ospf_ls_upd and flooding from elsewhere keep the       *)
(* request list ahead of the database, so no answer is taken for a BadLSReq. *)
THEOREM RequestsStayNews == Spec => []RequestsAreNews
<1>1. Inv => RequestsAreNews
  BY DEF Inv, Sound, Good, News, RequestsAreNews, Keys
<1> QED BY Invariance, <1>1, PTL

(* ospf_lsa_install takes the replaced instance off the retransmission list: *)
(* ospf_ls_upd_timer only sends what is in the database.                     *)
THEOREM RetransmitsStayCurrent == Spec => []RetransmitsCurrent
<1>1. Inv => RetransmitsCurrent
  BY Zenon DEF Inv, Sound, Good, Current, RetransmitsCurrent, Keys
<1> QED BY Invariance, <1>1, PTL

(* No handler and no timer takes a database back to an older instance; only  *)
(* a restart does.                                                           *)
THEOREM DatabasesGrow == Spec => NoOlderInstance
<1> DEFINE Step == \A r \in Routers, l \in LSAs :
                      \/ ospf_lsa_more_recent(router'[r].lsdb[l], router[r].lsdb[l]) >= 0
                      \/ restart(r)
<1>1. Inv /\ [Next]_vars => [Step]_vars
  BY StepKeeps, Zenon DEF Ahead
<1>2. Spec => [][Step]_vars
  <2> HIDE DEF Step
  <2> QED BY Invariance, <1>1, PTL DEF Spec
<1> QED BY <1>2, Zenon DEF NoOlderInstance
=============================================================================
