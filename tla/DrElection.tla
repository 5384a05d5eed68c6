------------------------------ MODULE DrElection ------------------------------
(***************************************************************************)
(* Election of the designated router on a broadcast network: the interface *)
(* state machine and the election of ospf_ism.c, the part of ospf_hello    *)
(* (ospf_packet.c) that raises its events, and the part of the neighbour   *)
(* state machine (ospf_nsm.c) that the election reads and drives.          *)
(*                                                                         *)
(* One interface of each router is attached to the network.  Its table     *)
(* nbrs holds the neighbours and, as in the code, the router itself: DR    *)
(* and BDR of the interface are the d_router and bd_router of its own      *)
(* entry.  A router's identifier is also its address, 0 is no address.     *)
(*                                                                         *)
(* A hello is delivered with its sender's state of the moment, or lost.    *)
(* Its handler and the events it schedules are one step: the thread master *)
(* runs scheduled events before it reads the next packet.                  *)
(***************************************************************************)
EXTENDS Integers, FiniteSets

CONSTANTS
    Routers,        \* identifiers, positive numbers
    Priorities,     \* router priorities that can be configured
    Configured      \* the networks, see below

(* A network has the priorities of the routers attached to it at the start,  *)
(* bounds on failures, that is interfaces that go down and neighbours lost,  *)
(* and on changes of a priority, and whether failures come at any time.      *)
ASSUME ElectionAssumption ==
    /\ Routers \subseteq Nat \ {0} /\ IsFiniteSet(Routers)
    /\ Priorities \subseteq Nat /\ 0 \in Priorities
    /\ \A c \in Configured :
          /\ DOMAIN c.priority \subseteq Routers
          /\ \A r \in DOMAIN c.priority : c.priority[r] \in Priorities
          /\ c.anytime \in BOOLEAN
          /\ c.faults \in Nat /\ c.commands \in Nat

VARIABLES
    net,        \* the network
    oi,         \* the interface of each router: [state, nbrs]
    faults,     \* faults so far
    commands    \* commands so far

vars == <<net, oi, faults, commands>>

None == 0
Elected == {"DROther", "Backup", "DR"}
TwoWayUp == {"TwoWay", "ExStart"}     \* ExStart stands for ExStart and above

-----------------------------------------------------------------------------
(* F(v).  TLC evaluates v once, also where it looks for enabled actions. *)
With(v, F(_)) == CHOOSE y \in {F(x) : x \in {v}} : TRUE

(* A table entry.  A neighbour that is not in the table is in state Down.   *)
Entry(st, p, d, b) == [state |-> st, priority |-> p, d_router |-> d, bd_router |-> b]
NewNbr == Entry("Down", -1, None, None)

DR(o, r)  == o.nbrs[r].d_router
BDR(o, r) == o.nbrs[r].bd_router

(* Seeded fault: the own entry keeps the state of a new one. *)
nbr_self_reset_bare(r, p) ==
    [s \in Routers |-> IF s = r THEN Entry("Down", p, None, None) ELSE NewNbr]

(* A table with nothing but the router itself. *)
nbr_self_reset(r, p) ==
    [s \in Routers |-> IF s = r THEN Entry("TwoWay", p, None, None) ELSE NewNbr]

(* The highest priority, among these the highest router identifier. *)
ospf_dr_election_sub(o, S) ==
    IF S = {} THEN None
    ELSE CHOOSE s \in S : \A t \in S :
             \/ o.nbrs[t].priority < o.nbrs[s].priority
             \/ o.nbrs[t].priority = o.nbrs[s].priority /\ t <= s

ospf_dr_eligible_routers(o) ==
    {s \in Routers : o.nbrs[s].priority > 0 /\ o.nbrs[s].state \in TwoWayUp}

(* Seeded fault: routers that declare themselves DR may become BDR. *)
ospf_elect_bdr_any(o, r) ==
    LET el == ospf_dr_eligible_routers(o)
        declared == {s \in el : o.nbrs[s].bd_router = s}
    IN  [o EXCEPT !.nbrs[r].bd_router =
            ospf_dr_election_sub(o, IF declared # {} THEN declared ELSE el)]

ospf_elect_bdr(o, r) ==
    LET no_dr    == {s \in ospf_dr_eligible_routers(o) : o.nbrs[s].d_router # s}
        declared == {s \in no_dr : o.nbrs[s].bd_router = s}
    IN  [o EXCEPT !.nbrs[r].bd_router =
            ospf_dr_election_sub(o, IF declared # {} THEN declared ELSE no_dr)]

(* Seeded fault: the best router becomes DR, declared or not. *)
ospf_elect_dr_best(o, r) ==
    [o EXCEPT !.nbrs[r].d_router = ospf_dr_election_sub(o, ospf_dr_eligible_routers(o))]

ospf_elect_dr(o, r) ==
    LET el       == ospf_dr_eligible_routers(o)
        declared == {s \in el : o.nbrs[s].d_router = s}
    IN  [o EXCEPT !.nbrs[r].d_router =
            IF declared # {} THEN ospf_dr_election_sub(o, declared)
            ELSE IF BDR(o, r) \in el THEN BDR(o, r) ELSE None]

ospf_ism_state(o, r) ==
    IF DR(o, r) = r THEN "DR" ELSE IF BDR(o, r) = r THEN "Backup" ELSE "DROther"

(* Both elections in a row. *)
ElectBoth(o, r) == With(ospf_elect_bdr(o, r), LAMBDA x : ospf_elect_dr(x, r))

(* The state ospf_ism_event changes to. *)
TakeRole(o, r) == [o EXCEPT !.state = ospf_ism_state(o, r)]

(* The elections run once more when the own role changes. *)
Election(o, r) ==
    With(ElectBoth(o, r), LAMBDA first :
        LET role == ospf_ism_state(first, r)
        IN  IF role # o.state /\ ~(role = "DROther" /\ o.state \notin Elected)
            THEN With(ElectBoth(first, r), LAMBDA second : TakeRole(second, r))
            ELSE TakeRole(first, r))

nsm_should_adj(o, r, s) == r \in {DR(o, r), BDR(o, r)} \/ s \in {DR(o, r), BDR(o, r)}

(* Seeded fault: adjacencies are formed, never given up. *)
AdjOK_grow(o, r) ==
    [o EXCEPT !.nbrs = [s \in Routers |->
        IF s # r /\ @[s].state = "TwoWay" /\ nsm_should_adj(o, r, s)
        THEN [@[s] EXCEPT !.state = "ExStart"] ELSE @[s]]]

(* AdjOK? for every neighbour that is 2-way or above. *)
AdjOK(o, r) ==
    [o EXCEPT !.nbrs = [s \in Routers |->
        IF s # r /\ @[s].state \in TwoWayUp
        THEN [@[s] EXCEPT !.state = IF nsm_should_adj(o, r, s) THEN "ExStart" ELSE "TwoWay"]
        ELSE @[s]]]

(* The election tells the neighbours when DR or BDR changed. *)
ospf_dr_election(o, r) ==
    With(Election(o, r), LAMBDA e :
        IF DR(e, r) # DR(o, r) \/ BDR(e, r) # BDR(o, r) THEN AdjOK(e, r) ELSE e)

NeighborChange(o, r) == IF o.state \in Elected THEN ospf_dr_election(o, r) ELSE o
BackupSeen(o, r)     == IF o.state = "Waiting" THEN ospf_dr_election(o, r) ELSE o

(* nsm_change_state: the event of the interface when a neighbour crosses    *)
(* the line between Init and 2-Way.                                         *)
nsm_change_state(o, r, s, st) ==
    With([o EXCEPT !.nbrs[s].state = st], LAMBDA new :
        IF (o.nbrs[s].state \in TwoWayUp) # (st \in TwoWayUp)
        THEN NeighborChange(new, r) ELSE new)

-----------------------------------------------------------------------------
(* ospf_make_hello.  A neighbour that declares this router both DR and BDR  *)
(* makes it hide the BDR, so that the neighbour sees an event.              *)
ospf_make_hello(o, r) ==
    LET known == {s \in Routers \ {r} : o.nbrs[s].state # "Down"}
        flag  == \E s \in known : o.nbrs[s].d_router = r /\ o.nbrs[s].bd_router = r
    IN  [priority |-> o.nbrs[r].priority, d_router |-> DR(o, r),
         bd_router |-> IF flag THEN None ELSE BDR(o, r), neighbors |-> known]

(* Events of ospf_hello for the interface, by the old entry of the sender.  *)
SeenBackup(o, s, h) ==
    /\ o.state = "Waiting"
    /\ (h.d_router = s /\ h.bd_router = None) \/ h.bd_router = s
(* How many of the things an election depends on the hello changes. *)
Changes(old, s, h) ==
    LET count(changed) == IF changed THEN 1 ELSE 0
    IN  count((h.d_router = s) # (old.d_router = s))
        + count((h.bd_router = s) # (old.bd_router = s))
        + count(old.priority >= 0 /\ old.priority # h.priority)

(* NeighborChange, once for every change. *)
Repeat(o, r, n) ==
    IF n = 0 THEN o
    ELSE With(NeighborChange(o, r), LAMBDA once :
        IF n = 1 THEN once
        ELSE With(NeighborChange(once, r), LAMBDA twice :
            IF n = 2 THEN twice ELSE NeighborChange(twice, r)))

(* 2-WayReceived: an adjacency when it is due. *)
TwoWayReceived(o, r, s) ==
    IF o.nbrs[s].state # "Init" THEN o
    ELSE nsm_change_state(o, r, s, IF nsm_should_adj(o, r, s) THEN "ExStart" ELSE "TwoWay")

(* ospf_hello, and the events it schedules: PacketReceived, then 2-Way or   *)
(* 1-Way, then those of the interface.  The entry is updated before.        *)
ospf_hello(o, r, s, h) ==
    LET old == o.nbrs[s]
        st  == IF old.state = "Down" THEN "Init" ELSE old.state
    IN  With([o EXCEPT !.nbrs[s] = Entry(st, h.priority, h.d_router, h.bd_router)],
             LAMBDA noted :
        IF r \notin h.neighbors THEN nsm_change_state(noted, r, s, "Init")
        ELSE With(TwoWayReceived(noted, r, s), LAMBDA twoway :
             With(IF SeenBackup(o, s, h) THEN BackupSeen(twoway, r) ELSE twoway, LAMBDA seen :
             Repeat(seen, r, Changes(old, s, h)))))

-----------------------------------------------------------------------------
Attached == DOMAIN net.priority

Init ==
    /\ net \in Configured
    /\ oi = [r \in Routers |->
               [state |-> "Down",
                nbrs  |-> nbr_self_reset(r, IF r \in Attached THEN net.priority[r] ELSE 0)]]
    /\ faults = 0
    /\ commands = 0

Running == {r \in Routers : oi[r].state # "Down"}

(* No hello, timer or event is left that would change anything. *)
Settled ==
    /\ \A r \in Running : oi[r].state # "Waiting"
    /\ \A r \in Running : \A s \in Routers \ {r} :
          IF s \in Running
          THEN /\ oi[r].nbrs[s].state \in TwoWayUp
               /\ ospf_hello(oi[r], r, s, ospf_make_hello(oi[s], s)) = oi[r]
          ELSE oi[r].nbrs[s].state = "Down"

(* A router may fail: at any moment, or when all are up and have agreed. *)
MayFail == faults < net.faults /\ (net.anytime \/ (Running = Attached /\ Settled))

(* ospf_if_up, ism_interface_up. *)
interface_up(r) ==
    /\ r \in Attached /\ oi[r].state = "Down"
    /\ oi' = [oi EXCEPT ![r].state = IF @ = "Down" /\ oi[r].nbrs[r].priority = 0
                                     THEN "DROther" ELSE "Waiting"]
    /\ UNCHANGED <<net, faults, commands>>

(* ism_interface_down: every neighbour is killed and the own entry reset. *)
interface_down(r) ==
    /\ oi[r].state # "Down" /\ MayFail
    /\ oi' = [oi EXCEPT ![r] = [state |-> "Down",
                                nbrs |-> nbr_self_reset(r, oi[r].nbrs[r].priority)]]
    /\ faults' = faults + 1
    /\ UNCHANGED <<net, commands>>

(* Hello timer of s; r receives the packet. *)
hello(s, r) ==
    /\ s # r
    /\ oi[s].state # "Down" /\ oi[r].state # "Down"
    /\ \E h \in {ospf_make_hello(oi[s], s)} : oi' = [oi EXCEPT ![r] = ospf_hello(@, r, s, h)]
    /\ UNCHANGED <<net, faults, commands>>

(* Wait timer. *)
wait_timer(r) ==
    /\ oi[r].state = "Waiting"
    /\ oi' = [oi EXCEPT ![r] = ospf_dr_election(@, r)]
    /\ UNCHANGED <<net, faults, commands>>

(* Seeded fault: the entry is freed without the event. *)
ForgetNbr_silent(o, r, s) == [o EXCEPT !.nbrs[s] = NewNbr]

(* Inactivity timer: the neighbour is deleted. *)
ForgetNbr(o, r, s) == [nsm_change_state(o, r, s, "Down") EXCEPT !.nbrs[s] = NewNbr]

(* A neighbour that is down is silent; that every hello of another one is   *)
(* lost is a fault.                                                         *)
inactivity_timer(r, s) ==
    /\ s # r /\ oi[r].nbrs[s].state # "Down"
    /\ \/ oi[s].state = "Down" /\ faults' = faults
       \/ /\ oi[s].state # "Down"
          /\ MayFail /\ faults' = faults + 1
    /\ oi' = [oi EXCEPT ![r] = ForgetNbr(@, r, s)]
    /\ UNCHANGED <<net, commands>>

(* ip ospf priority. *)
ip_ospf_priority(r, p) ==
    /\ r \in Attached /\ commands < net.commands
    /\ oi[r].nbrs[r].priority # p
    /\ oi' = [oi EXCEPT ![r] = NeighborChange([@ EXCEPT !.nbrs[r].priority = p], r)]
    /\ commands' = commands + 1
    /\ UNCHANGED <<net, faults>>

Next ==
    \E r \in Routers :
        \/ interface_up(r)
        \/ interface_down(r)
        \/ wait_timer(r)
        \/ \E s \in Routers : hello(s, r)
        \/ \E s \in Routers : inactivity_timer(r, s)
        \/ \E p \in Priorities : ip_ospf_priority(r, p)

Spec == Init /\ [][Next]_vars

(* Hellos are sent again and again, timers expire, and a lost neighbour is  *)
(* noticed.                                                                 *)
FairSpec ==
    /\ Spec
    /\ WF_vars(\E r \in Routers : wait_timer(r))
    /\ WF_vars(\E r, s \in Routers : oi[s].state = "Down" /\ inactivity_timer(r, s))
    /\ \A r \in Routers : \A s \in Routers \ {r} : WF_vars(hello(s, r))

-----------------------------------------------------------------------------
(* The interfaces and tables have their types. *)
TypeOK ==
    /\ \A r \in Routers :
          /\ oi[r].state \in {"Down", "Waiting"} \cup Elected
          /\ oi[r].nbrs[r].state = "TwoWay" /\ oi[r].nbrs[r].priority \in Priorities
          /\ \A s \in Routers :
                oi[r].nbrs[s] \in [state : {"Down", "Init"} \cup TwoWayUp,
                                   priority : {-1} \cup Priorities,
                                   d_router : Routers \cup {None},
                                   bd_router : Routers \cup {None}]
    /\ faults \in 0 .. net.faults
    /\ commands \in 0 .. net.commands

(* An adjacency is formed with a 2-way neighbour exactly when one of the    *)
(* two is DR or BDR: every election that changes them raises AdjOK? for     *)
(* all neighbours (ospf_dr_change, nsm_adj_ok).                             *)
AdjacencyFollowsElection ==
    \A r \in Routers : \A s \in Routers \ {r} :
        oi[r].nbrs[s].state \in TwoWayUp =>
            (oi[r].nbrs[s].state = "ExStart") = nsm_should_adj(oi[r], r, s)

Candidates == {r \in Running : oi[r].nbrs[r].priority > 0}

(* One DR and one BDR, the same for all: running routers that may be one,   *)
(* different, and present when there are enough candidates.                 *)
Agreement ==
    \E d, b \in Candidates \cup {None} :
        /\ \A r \in Running : DR(oi[r], r) = d /\ BDR(oi[r], r) = b
        /\ Candidates # {} => d # None
        /\ Candidates \ {d} # {} => b # None
        /\ d # None => b # d

(* When the hellos bring no more news, the routers agree on the DR and the  *)
(* BDR, whatever order the elections of ospf_ism.c ran in.                  *)
SettledRoutersAgree == Settled => Agreement

(* After the last fault and command, the routers come to agree for good. *)
ElectionEnds == <>[](Settled /\ Agreement)

(* A DR steps back only for a router that declares itself DR and outranks   *)
(* it, or when it may no longer be one: an election prefers who declares    *)
(* itself, so nobody takes over by joining with a higher priority.          *)
YieldsToDeclared ==
    [][\A r \in Routers :
          oi[r].state = "DR" /\ oi'[r].state \in {"Backup", "DROther"} =>
              \/ oi'[r].nbrs[r].priority = 0
              \/ \E s \in Routers \ {r} :
                    /\ oi'[r].nbrs[s].d_router = s
                    /\ \/ oi'[r].nbrs[s].priority > oi'[r].nbrs[r].priority
                       \/ oi'[r].nbrs[s].priority = oi'[r].nbrs[r].priority /\ s > r]_vars
=============================================================================
