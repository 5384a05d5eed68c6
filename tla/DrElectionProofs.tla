--------------------------- MODULE DrElectionProofs ---------------------------
(***************************************************************************)
(* Proofs about DrElection, for every number of routers, all priorities,   *)
(* and any number of faults and commands.                                  *)
(*                                                                         *)
(* First the election itself: what a round of it returns (Outcome), and    *)
(* that a second round ends where a third would (TwoRoundsFinal), by the   *)
(* role the router gains or loses in the first.  Then the events of an     *)
(* interface, one lemma each: from a table that is Ready to one that is    *)
(* Good, of which no further election would change anything.  Good is      *)
(* the inductive invariant.  Agreement follows from it alone: in settled   *)
(* routers the tables are the same but for a hidden BDR.                   *)
(***************************************************************************)
EXTENDS DrElection, Sequences, WellFoundedInduction, TLAPS

Address  == Routers \cup {None}
NbrState == {"Down", "Init"} \cup TwoWayUp
Entries  == [state : NbrState, priority : {-1} \cup Priorities,
             d_router : Address, bd_router : Address]
Tables   == [Routers -> Entries]
Ifaces   == [state : {"Down", "Waiting"} \cup Elected, nbrs : Tables]

LEMMA Constants ==
    /\ \A r \in Routers : r \in Nat /\ r # None
    /\ \A p \in Priorities : p \in Nat
    /\ \A p \in {-1} \cup Priorities : p \in Int
BY ElectionAssumption DEF None

-----------------------------------------------------------------------------
(* The best of a set of routers, by priority and then by identifier.        *)
NotBelow(n, s, t) ==
    \/ n[t].priority < n[s].priority
    \/ n[t].priority = n[s].priority /\ t <= s

Best(n, S, s) ==
    IF S = {} THEN s = None ELSE s \in S /\ \A t \in S : NotBelow(n, s, t)

LEMMA Least ==
    ASSUME NEW S \in SUBSET Nat, S # {}
    PROVE  \E l \in S : \A k \in S : l <= k
<1> DEFINE R == OpToRel(<, Nat)
<1>1. IsWellFoundedOn(R, Nat)
  BY NatLessThanWellFounded, Zenon
<1>2. PICK l \in S : \A k \in S : ~(<<k, l>> \in R)
  <2> HIDE DEF R
  <2> QED BY <1>1, WFMin, Zenon
<1>3. \A k \in S : l <= k
  <2> TAKE k \in S
  <2>1. k \in Nat /\ l \in Nat
    BY Zenon
  <2>2. ~(k < l)
    BY <1>2, <2>1, Zenon DEF OpToRel
  <2> QED BY <2>1, <2>2
<1> QED BY <1>3, Zenon

(* Every set of routers that is not empty has a best one: in a list of them *)
(* all, take the shortest beginning whose members in the set have none.     *)
LEMMA BestExists ==
    ASSUME NEW n \in Tables, NEW S \in SUBSET Routers, S # {}
    PROVE  \E s \in S : \A t \in S : NotBelow(n, s, t)
<1>1. \A s \in Routers : s \in Nat /\ n[s].priority \in Int
  BY Constants, Zenon DEF Tables, Entries
<1>2. \A s, t, u \in Routers : NotBelow(n, s, t) /\ NotBelow(n, t, u) => NotBelow(n, s, u)
  BY <1>1 DEF NotBelow
<1>3. \A s, t \in Routers : NotBelow(n, s, s) /\ (NotBelow(n, s, t) \/ NotBelow(n, t, s))
  BY <1>1 DEF NotBelow
<1>4. PICK list \in Seq(Routers) : \A s \in Routers : \E i \in 1 .. Len(list) : list[i] = s
  BY ElectionAssumption, Zenon DEF IsFiniteSet
<1> DEFINE N       == Len(list)
           Upto(k) == {s \in S : \E i \in 1 .. k : list[i] = s}
           Has(T)  == \E s \in T : \A t \in T : NotBelow(n, s, t)
           Bad     == {k \in 0 .. N : Upto(k) # {} /\ ~Has(Upto(k))}
<1>5. N \in Nat /\ Upto(N) = S
  BY <1>4
<1> SUFFICES ASSUME ~Has(S) PROVE FALSE
  BY Zenon
<1> HIDE DEF N, Has
<1>6. Bad \in SUBSET Nat /\ Bad # {}
  <2> HIDE DEF Upto
  <2>1. Bad \subseteq Nat /\ N \in 0 .. N
    BY <1>5
  <2>2. N \in Bad
    BY <1>5, <2>1, Zenon
  <2> QED BY <2>1, <2>2, Zenon
<1>7. PICK k \in Bad : \A j \in Bad : k <= j
  <2> HIDE DEF Bad
  <2> QED BY <1>6, Least, Zenon
<1>8. k \in 0 .. N /\ Upto(k) # {} /\ ~Has(Upto(k))
  BY Zenon
<1>9. k \in Nat /\ k # 0 /\ k - 1 \in 0 .. N
  <2>1. Upto(0) = {}
    OBVIOUS
  <2> QED BY <1>5, <1>8, <2>1
<1>10. Upto(k - 1) = {} \/ Has(Upto(k - 1))
  <2>1. k - 1 \notin Bad
    <3> HIDE DEF Bad
    <3> QED BY <1>6, <1>7, <1>9
  <2> QED BY <1>9, <2>1, Zenon
<1> DEFINE x == list[k]
<1>11. Upto(k) = Upto(k - 1) \cup ({x} \cap S)
  <2>1. 1 .. k = (1 .. k - 1) \cup {k}
    BY <1>9
  <2> QED BY <2>1, Zenon
<1>12. x \in S /\ x \in Routers /\ Upto(k - 1) \in SUBSET Routers
  <2> HIDE DEF Upto, x
  <2>1. x \in S
    <3> SUFFICES ASSUME x \notin S PROVE FALSE
      BY Zenon
    <3>1. Upto(k) = Upto(k - 1)
      BY <1>11, Zenon
    <3> QED BY <1>8, <1>10, <3>1, Zenon
  <2> QED BY <2>1, Zenon DEF Upto
<1> HIDE DEF Upto, x
<1> USE DEF Has
<1>13. CASE Upto(k - 1) = {}
  <2>1. Upto(k) = {x}
    BY <1>11, <1>12, <1>13
  <2> QED BY <1>8, <1>3, <1>12, <2>1, Zenon
<1>14. CASE Has(Upto(k - 1))
  <2>1. PICK s \in Upto(k - 1) : \A t \in Upto(k - 1) : NotBelow(n, s, t)
    BY <1>14, Zenon
  <2>2. s \in Routers /\ x \in Routers
    BY <1>12, Zenon
  <2>3. CASE NotBelow(n, s, x)
    <3>1. \A t \in Upto(k) : NotBelow(n, s, t)
      BY <1>11, <2>1, <2>3, Zenon
    <3> QED BY <1>8, <1>11, <3>1, Zenon
  <2>4. CASE NotBelow(n, x, s)
    <3>1. \A t \in Upto(k) : NotBelow(n, x, t)
      BY <1>2, <1>3, <1>11, <1>12, <2>1, <2>2, <2>4, Zenon
    <3> QED BY <1>8, <1>11, <1>12, <3>1, Zenon
  <2> QED BY <1>3, <2>2, <2>3, <2>4, Zenon
<1> QED BY <1>10, <1>13, <1>14, Zenon

(* ospf_dr_election_sub returns the best, or no router from an empty list.  *)
LEMMA SubIsBest ==
    ASSUME NEW o \in Ifaces, NEW S \in SUBSET Routers
    PROVE  Best(o.nbrs, S, ospf_dr_election_sub(o, S))
<1>1. CASE S = {}
  BY <1>1, Zenon DEF Best, ospf_dr_election_sub
<1>2. CASE S # {}
  <2>1. o.nbrs \in Tables
    BY Zenon DEF Ifaces
  <2>2. \E s \in S : \A t \in S : NotBelow(o.nbrs, s, t)
    BY <1>2, <2>1, BestExists, Zenon
  <2> QED BY <1>2, <2>2, Zenon DEF Best, ospf_dr_election_sub, NotBelow
<1> QED BY <1>1, <1>2, Zenon

(* There is only one, and it depends on the priorities only. *)
LEMMA BestUnique ==
    ASSUME NEW n \in Tables, NEW m \in Tables, NEW S \in SUBSET Routers, NEW s, NEW t,
           \A x \in S : n[x].priority = m[x].priority,
           Best(n, S, s), Best(m, S, t)
    PROVE  s = t
<1>1. \A x \in Routers : x \in Nat /\ n[x].priority \in Int
  BY Constants, Zenon DEF Tables, Entries
<1>2. CASE S = {}
  BY <1>2, Zenon DEF Best
<1>3. CASE S # {}
  <2>1. s \in S /\ t \in S /\ NotBelow(n, s, t) /\ NotBelow(m, t, s)
    BY <1>3, Zenon DEF Best
  <2> QED BY <2>1, <1>1 DEF NotBelow
<1> QED BY <1>2, <1>3, Zenon

-----------------------------------------------------------------------------
(* What one round of elections finds in a table: the routers that do not    *)
(* declare themselves DR, those of them that declare themselves BDR, and    *)
(* those that declare themselves DR; d and b are the DR and BDR it elects.  *)
NoDr(o)       == {s \in ospf_dr_eligible_routers(o) : o.nbrs[s].d_router # s}
DeclareBdr(o) == {s \in NoDr(o) : o.nbrs[s].bd_router = s}
DeclareDr(o)  == {s \in ospf_dr_eligible_routers(o) : o.nbrs[s].d_router = s}

Outcome(o, d, b) ==
    /\ Best(o.nbrs, IF DeclareBdr(o) # {} THEN DeclareBdr(o) ELSE NoDr(o), b)
    /\ IF DeclareDr(o) # {} THEN Best(o.nbrs, DeclareDr(o), d) ELSE d = b

(* Another round elects the same. *)
Final(o, r) == Outcome(o, DR(o, r), BDR(o, r))

(* Elections write the router's own d_router and bd_router only. *)
Voted(o, q, r) ==
    /\ q \in Ifaces
    /\ \A s \in Routers \ {r} : q.nbrs[s] = o.nbrs[s]
    /\ q.nbrs[r].state = o.nbrs[r].state /\ q.nbrs[r].priority = o.nbrs[r].priority

LEMMA RoutersListed ==
    ASSUME NEW o
    PROVE  /\ ospf_dr_eligible_routers(o) \in SUBSET Routers
           /\ NoDr(o) \in SUBSET Routers /\ DeclareBdr(o) \in SUBSET Routers
           /\ DeclareDr(o) \in SUBSET Routers
BY Zenon DEF ospf_dr_eligible_routers, NoDr, DeclareBdr, DeclareDr

LEMMA OutcomeEligible ==
    ASSUME NEW o, NEW d, NEW b, Outcome(o, d, b)
    PROVE  /\ d \in ospf_dr_eligible_routers(o) \cup {None}
           /\ b \in NoDr(o) \cup {None}
           /\ b \in ospf_dr_eligible_routers(o) \cup {None}
<1>1. b \in NoDr(o) \cup {None}
  BY Zenon DEF Outcome, Best, DeclareBdr
<1>2. b \in ospf_dr_eligible_routers(o) \cup {None}
  BY <1>1, Zenon DEF NoDr
<1> QED BY <1>1, <1>2, Zenon DEF Outcome, Best, DeclareDr

(* An outcome depends on who is eligible, their priorities, and whether     *)
(* they declare themselves.                                                 *)
LEMMA OutcomeCarries ==
    ASSUME NEW o \in Ifaces, NEW q \in Ifaces, NEW d, NEW b,
           ospf_dr_eligible_routers(q) = ospf_dr_eligible_routers(o),
           \A s \in ospf_dr_eligible_routers(o) :
               /\ q.nbrs[s].priority = o.nbrs[s].priority
               /\ q.nbrs[s].d_router = s <=> o.nbrs[s].d_router = s
               /\ o.nbrs[s].d_router # s =>
                      (q.nbrs[s].bd_router = s <=> o.nbrs[s].bd_router = s),
           Outcome(o, d, b)
    PROVE  Outcome(q, d, b)
<1>1. NoDr(q) = NoDr(o) /\ DeclareDr(q) = DeclareDr(o)
  BY Zenon DEF NoDr, DeclareDr
<1>2. DeclareBdr(q) = DeclareBdr(o)
  BY <1>1, Zenon DEF DeclareBdr, NoDr
<1>3. ASSUME NEW S \in SUBSET ospf_dr_eligible_routers(o), NEW x, Best(o.nbrs, S, x)
      PROVE  Best(q.nbrs, S, x)
  BY <1>3, Zenon DEF Best, NotBelow
<1>4. NoDr(o) \in SUBSET ospf_dr_eligible_routers(o)
      /\ DeclareBdr(o) \in SUBSET ospf_dr_eligible_routers(o)
      /\ DeclareDr(o) \in SUBSET ospf_dr_eligible_routers(o)
  BY Zenon DEF NoDr, DeclareBdr, DeclareDr
<1> QED BY <1>1, <1>2, <1>3, <1>4, Zenon DEF Outcome

LEMMA OutcomeUnique ==
    ASSUME NEW o \in Ifaces, NEW d, NEW b, NEW e, NEW c, Outcome(o, d, b), Outcome(o, e, c)
    PROVE  d = e /\ b = c
<1>1. o.nbrs \in Tables
  BY Zenon DEF Ifaces
<1>2. b = c
  BY <1>1, BestUnique, RoutersListed, Zenon DEF Outcome
<1> QED BY <1>1, <1>2, BestUnique, RoutersListed, Zenon DEF Outcome

LEMMA VotedEligible ==
    ASSUME NEW o, NEW q, NEW r \in Routers, Voted(o, q, r)
    PROVE  ospf_dr_eligible_routers(q) = ospf_dr_eligible_routers(o)
BY Zenon DEF Voted, ospf_dr_eligible_routers

(* ospf_elect_bdr and ospf_elect_dr, one after the other. *)
LEMMA ElectBothOutcome ==
    ASSUME NEW o \in Ifaces, NEW r \in Routers
    PROVE  /\ Voted(o, ElectBoth(o, r), r)
           /\ ElectBoth(o, r).state = o.state
           /\ Outcome(o, DR(ElectBoth(o, r), r), BDR(ElectBoth(o, r), r))
<1> DEFINE el == ospf_dr_eligible_routers(o)
           B  == IF DeclareBdr(o) # {} THEN DeclareBdr(o) ELSE NoDr(o)
           b  == ospf_dr_election_sub(o, B)
           x  == [o EXCEPT !.nbrs[r].bd_router = b]
           F(y) == ospf_elect_dr(y, r)
           d  == IF DeclareDr(x) # {} THEN ospf_dr_election_sub(x, DeclareDr(x))
                 ELSE IF BDR(x, r) \in ospf_dr_eligible_routers(x) THEN BDR(x, r) ELSE None
           q  == [x EXCEPT !.nbrs[r].d_router = d]
<1>1. ospf_elect_bdr(o, r) = x
  BY Zenon DEF ospf_elect_bdr, NoDr, DeclareBdr
<1>2. ElectBoth(o, r) = F(x)
  <2> HIDE DEF x, F
  <2>1. With(x, F) = F(x)
    BY Zenon DEF With
  <2>2. ElectBoth(o, r) = With(ospf_elect_bdr(o, r), F)
    BY Zenon DEF ElectBoth, F
  <2> QED BY <1>1, <2>1, <2>2, Zenon
<1>3. F(x) = q
  <2> HIDE DEF x
  <2> QED BY Zenon DEF ospf_elect_dr, DeclareDr
<1>4. B \in SUBSET Routers
  BY RoutersListed, Zenon
<1>5. Best(o.nbrs, B, b)
  <2> HIDE DEF B
  <2> QED BY <1>4, SubIsBest, Zenon
<1>6. b \in el \cup {None} /\ b \in Address
  <2>1. b \in B \cup {None}
    <3> HIDE DEF B, b
    <3> QED BY <1>5, Zenon DEF Best
  <2>2. B \in SUBSET el
    BY Zenon DEF NoDr, DeclareBdr
  <2> HIDE DEF B, b
  <2> QED BY <2>1, <2>2, RoutersListed, Zenon DEF Address
<1>7. Voted(o, x, r) /\ x.state = o.state /\ BDR(x, r) = b
      /\ \A s \in Routers : x.nbrs[s].d_router = o.nbrs[s].d_router
  <2> HIDE DEF b
  <2> QED BY <1>6 DEF Voted, Ifaces, Tables, Entries, BDR
<1>8. ospf_dr_eligible_routers(x) = el
  BY <1>7, VotedEligible, Zenon
<1>9. DeclareDr(x) = DeclareDr(o)
  <2> HIDE DEF x
  <2> QED BY <1>7, <1>8, Zenon DEF DeclareDr, ospf_dr_eligible_routers
<1>10. IF DeclareDr(o) # {} THEN Best(o.nbrs, DeclareDr(o), d) ELSE d = b
  <2> HIDE DEF x, b
  <2>1. CASE DeclareDr(o) # {}
    <3> DEFINE D == DeclareDr(o)
    <3>1. d = ospf_dr_election_sub(x, D)
      BY <1>9, <2>1, Zenon
    <3> HIDE DEF d, D
    <3>2. D \in SUBSET Routers
      BY RoutersListed, Zenon DEF D
    <3>3. Best(x.nbrs, D, d)
      BY <3>1, <3>2, <1>7, SubIsBest, Zenon DEF Voted
    <3>4. \A s \in Routers : x.nbrs[s].priority = o.nbrs[s].priority
      BY <1>7, Zenon DEF Voted
    <3>5. Best(o.nbrs, D, d)
      BY <3>2, <3>3, <3>4, Zenon DEF Best, NotBelow
    <3> QED BY <2>1, <3>5, Zenon DEF D
  <2>2. CASE DeclareDr(o) = {}
    BY <2>2, <1>6, <1>7, <1>8, <1>9, Zenon
  <2> QED BY <2>1, <2>2, Zenon
<1>11. d \in Address
  <2> HIDE DEF d, b, x
  <2> QED BY <1>6, <1>10, RoutersListed, Zenon DEF Best, Address
<1>12. Voted(o, q, r) /\ q.state = o.state /\ DR(q, r) = d /\ BDR(q, r) = b
  <2> HIDE DEF d, b, x
  <2>1. x \in Ifaces
    BY <1>7, Zenon DEF Voted
  <2>2. Voted(x, q, r) /\ q.state = x.state /\ DR(q, r) = d /\ BDR(q, r) = BDR(x, r)
    BY <2>1, <1>11, ZenonT(30) DEF Voted, Ifaces, Tables, Entries, BDR, DR
  <2> HIDE DEF q
  <2> QED BY <2>2, <1>7, Zenon DEF Voted
<1>13. Outcome(o, d, b)
  <2> HIDE DEF d, b
  <2> QED BY <1>5, <1>10, Zenon DEF Outcome
<1> HIDE DEF q, d, b, x, F
<1> QED BY <1>2, <1>3, <1>12, <1>13, Zenon

(* q is o after one round. *)
Round(o, q, r) == Voted(o, q, r) /\ Outcome(o, DR(q, r), BDR(q, r))

(* A round that does not change the own role is final: the own entry counts *)
(* by the role only.                                                        *)
LEMMA SameRoleFinal ==
    ASSUME NEW o \in Ifaces, NEW q, NEW r \in Routers, Round(o, q, r),
           ospf_ism_state(q, r) = ospf_ism_state(o, r)
    PROVE  Final(q, r)
<1>1. q \in Ifaces
  BY Zenon DEF Round, Voted
<1>2. ospf_dr_eligible_routers(q) = ospf_dr_eligible_routers(o)
  BY VotedEligible, Zenon DEF Round
<1>3. /\ DR(q, r) = r <=> DR(o, r) = r
      /\ DR(o, r) # r => (BDR(q, r) = r <=> BDR(o, r) = r)
  BY Zenon DEF ospf_ism_state
<1>4. \A s \in Routers :
         /\ q.nbrs[s].priority = o.nbrs[s].priority
         /\ q.nbrs[s].d_router = s <=> o.nbrs[s].d_router = s
         /\ o.nbrs[s].d_router # s =>
                (q.nbrs[s].bd_router = s <=> o.nbrs[s].bd_router = s)
  BY <1>3, Zenon DEF Round, Voted, DR, BDR
<1> QED BY <1>1, <1>2, <1>4, OutcomeCarries, RoutersListed, Zenon DEF Round, Final

LEMMA FinalStays ==
    ASSUME NEW o \in Ifaces, NEW q, NEW r \in Routers, Round(o, q, r), Final(o, r)
    PROVE  ospf_ism_state(q, r) = ospf_ism_state(o, r)
BY OutcomeUnique, Zenon DEF Round, Final, ospf_ism_state

(* The own entry and the others', in the lists of a round's start and end.  *)
LEMMA RoundLists ==
    ASSUME NEW o \in Ifaces, NEW q, NEW r \in Routers, Round(o, q, r)
    PROVE  LET el == ospf_dr_eligible_routers(o)
           IN  /\ \A s \in el \ {r} : /\ s \in DeclareDr(q) <=> s \in DeclareDr(o)
                                      /\ s \in NoDr(q) <=> s \in NoDr(o)
                                      /\ s \in DeclareBdr(q) <=> s \in DeclareBdr(o)
               /\ \A p \in {o, q} :
                      /\ DeclareDr(p) \in SUBSET el /\ NoDr(p) \in SUBSET el
                      /\ DeclareBdr(p) \in SUBSET el
                      /\ r \in DeclareDr(p) <=> r \in el /\ DR(p, r) = r
                      /\ r \in NoDr(p) <=> r \in el /\ DR(p, r) # r
                      /\ r \in DeclareBdr(p) <=> r \in el /\ DR(p, r) # r /\ BDR(p, r) = r
<1>1. ospf_dr_eligible_routers(q) = ospf_dr_eligible_routers(o)
  BY VotedEligible, Zenon DEF Round
<1>2. \A s \in ospf_dr_eligible_routers(o) \ {r} : q.nbrs[s] = o.nbrs[s]
  BY RoutersListed, Zenon DEF Round, Voted
<1> QED BY <1>1, <1>2, Zenon DEF DeclareDr, NoDr, DeclareBdr, DR, BDR

(* Who is not DR before and after leaves those who declare it as they were. *)
LEMMA RoundKeepsDeclared ==
    ASSUME NEW o \in Ifaces, NEW q, NEW r \in Routers, Round(o, q, r),
           DR(o, r) # r, DR(q, r) # r
    PROVE  DeclareDr(q) = DeclareDr(o)
<1> DEFINE el == ospf_dr_eligible_routers(o)
<1>1. r \notin DeclareDr(o) /\ r \notin DeclareDr(q)
  BY RoundLists
<1>2. \A s \in el \ {r} : s \in DeclareDr(q) <=> s \in DeclareDr(o)
  BY RoundLists, Zenon
<1>3. DeclareDr(o) \in SUBSET el /\ DeclareDr(q) \in SUBSET el
  BY RoundLists, Zenon
<1> QED BY <1>1, <1>2, <1>3

(* Whoever makes itself DR without having declared it stays DR: nobody else *)
(* declared it.                                                             *)
LEMMA NewDrStays ==
    ASSUME NEW o \in Ifaces, NEW q \in Ifaces, NEW t, NEW r \in Routers,
           Round(o, q, r), Round(q, t, r), DR(o, r) # r, DR(q, r) = r
    PROVE  DR(t, r) = r
<1>1. r # None
  BY Constants, Zenon
<1>2. r \in ospf_dr_eligible_routers(o)
  BY <1>1, OutcomeEligible DEF Round
<1>3. DeclareDr(o) = {}
  <2> SUFFICES ASSUME DeclareDr(o) # {} PROVE FALSE
    BY Zenon
  <2>1. r \in DeclareDr(o)
    BY Zenon DEF Round, Outcome, Best
  <2> QED BY <2>1, RoundLists, Zenon
<1>4. DeclareDr(q) = {r}
  BY <1>2, <1>3, RoundLists
<1> QED BY <1>4, Zenon DEF Round, Outcome, Best

(* Whoever becomes BDR was not DR, and found nobody that declared itself,   *)
(* so that it stays.                                                        *)
LEMMA NewBdrFinal ==
    ASSUME NEW o \in Ifaces, NEW q \in Ifaces, NEW r \in Routers,
           Round(o, q, r), ospf_ism_state(q, r) = "Backup"
    PROVE  Final(q, r)
<1>1. DR(q, r) # r /\ BDR(q, r) = r /\ r # None
  BY Constants, Zenon DEF ospf_ism_state
<1>2. r \in NoDr(o) /\ r \in ospf_dr_eligible_routers(o)
  BY <1>1, OutcomeEligible DEF Round
<1>3. DR(o, r) # r
  BY <1>2, Zenon DEF NoDr, DR
<1>4. CASE BDR(o, r) = r
  BY <1>1, <1>3, <1>4, SameRoleFinal, Zenon DEF ospf_ism_state
<1>5. CASE BDR(o, r) # r
  <2>1. DeclareBdr(o) = {}
    <3> SUFFICES ASSUME DeclareBdr(o) # {} PROVE FALSE
      BY Zenon
    <3>1. r \in DeclareBdr(o)
      BY <1>1, Zenon DEF Round, Outcome, Best
    <3> QED BY <3>1, <1>5, RoundLists, Zenon
  <2>2. DeclareBdr(q) = {r}
    BY <1>1, <1>2, <2>1, RoundLists
  <2>3. DeclareDr(q) = DeclareDr(o)
    BY <1>1, <1>3, RoundKeepsDeclared, Zenon
  <2>4. DeclareDr(o) # {} /\ Best(o.nbrs, DeclareDr(o), DR(q, r))
    BY <1>1, Zenon DEF Round, Outcome
  <2>5. \A s \in Routers : q.nbrs[s].priority = o.nbrs[s].priority
    BY Zenon DEF Round, Voted
  <2>6. Best(q.nbrs, DeclareDr(q), DR(q, r))
    BY <2>3, <2>4, <2>5, RoutersListed, Zenon DEF Best, NotBelow
  <2>7. Best(q.nbrs, DeclareBdr(q), r)
    BY <2>2, Constants DEF Best, NotBelow, Ifaces, Tables, Entries
  <2> QED BY <1>1, <2>2, <2>3, <2>4, <2>6, <2>7, Zenon DEF Final, Outcome
<1> QED BY <1>4, <1>5, Zenon

(* Whoever is BDR no more gave way to one that declared itself. *)
LEMMA OldBdrFinal ==
    ASSUME NEW o \in Ifaces, NEW q \in Ifaces, NEW r \in Routers, Round(o, q, r),
           ospf_ism_state(o, r) = "Backup", ospf_ism_state(q, r) = "DROther"
    PROVE  Final(q, r)
<1>1. DR(o, r) # r /\ BDR(o, r) = r /\ DR(q, r) # r /\ BDR(q, r) # r
  BY Zenon DEF ospf_ism_state
<1>2. CASE r \notin ospf_dr_eligible_routers(o)
  <2>1. ospf_dr_eligible_routers(q) = ospf_dr_eligible_routers(o)
    BY VotedEligible, Zenon DEF Round
  <2>2. \A s \in ospf_dr_eligible_routers(o) : q.nbrs[s] = o.nbrs[s]
    BY <1>2, RoutersListed, Zenon DEF Round, Voted
  <2> QED BY <2>1, <2>2, OutcomeCarries, Zenon DEF Round, Final
<1>3. CASE r \in ospf_dr_eligible_routers(o)
  <2>1. r \in DeclareBdr(o)
    BY <1>1, <1>3, RoundLists, Zenon
  <2>2. Best(o.nbrs, DeclareBdr(o), BDR(q, r)) /\ BDR(q, r) \in DeclareBdr(o)
    BY <2>1, Zenon DEF Round, Outcome, Best
  <2>3. DeclareBdr(q) = DeclareBdr(o) \ {r}
    BY <1>1, RoundLists
  <2>4. DeclareDr(q) = DeclareDr(o)
    BY <1>1, RoundKeepsDeclared, Zenon
  <2>5. \A s \in Routers : q.nbrs[s].priority = o.nbrs[s].priority
    BY Zenon DEF Round, Voted
  <2>6. BDR(q, r) \in DeclareBdr(q) /\ Best(q.nbrs, DeclareBdr(q), BDR(q, r))
    BY <1>1, <2>2, <2>3, <2>5, RoutersListed, Zenon DEF Best, NotBelow
  <2>7. IF DeclareDr(q) # {} THEN Best(q.nbrs, DeclareDr(q), DR(q, r))
        ELSE DR(q, r) = BDR(q, r)
    BY <2>4, <2>5, RoutersListed, Zenon DEF Best, NotBelow, Round, Outcome
  <2> QED BY <2>6, <2>7, Zenon DEF Final, Outcome
<1> QED BY <1>2, <1>3, Zenon

(* A DR that gives way finds the same DR again. *)
LEMMA OldDrStaysAway ==
    ASSUME NEW o \in Ifaces, NEW q \in Ifaces, NEW t, NEW r \in Routers,
           Round(o, q, r), Round(q, t, r), DR(o, r) = r, DR(q, r) # r
    PROVE  DR(t, r) # r
<1>1. CASE r \in ospf_dr_eligible_routers(o)
  <2>1. r \in DeclareDr(o)
    BY <1>1, RoundLists, Zenon
  <2>2. DR(q, r) \in DeclareDr(o)
    BY <2>1, Zenon DEF Round, Outcome, Best
  <2>3. DR(q, r) \in DeclareDr(q) /\ r \notin DeclareDr(q)
    BY <2>2, RoundLists
  <2> QED BY <2>3, Zenon DEF Round, Outcome, Best
<1>2. CASE r \notin ospf_dr_eligible_routers(o)
  BY <1>2, VotedEligible, OutcomeEligible, Constants DEF Round
<1> QED BY <1>1, <1>2, Zenon

(* Two rounds are enough, and one when it leaves the role as it is. *)
LEMMA TwoRoundsFinal ==
    ASSUME NEW o \in Ifaces, NEW q \in Ifaces, NEW t \in Ifaces, NEW r \in Routers,
           Round(o, q, r), Round(q, t, r), ospf_ism_state(q, r) # ospf_ism_state(o, r)
    PROVE  Final(t, r)
<1>1. CASE ospf_ism_state(t, r) = ospf_ism_state(q, r)
  BY <1>1, SameRoleFinal, Zenon
<1>2. CASE ospf_ism_state(t, r) = "Backup"
  BY <1>2, NewBdrFinal, Zenon
<1>3. CASE ospf_ism_state(q, r) = "DR"
  <2>1. DR(t, r) = r
    BY <1>3, NewDrStays, Zenon DEF ospf_ism_state
  <2> QED BY <2>1, <1>1, <1>3, Zenon DEF ospf_ism_state
<1>4. CASE ospf_ism_state(q, r) = "Backup"
  BY <1>1, <1>4, NewBdrFinal, FinalStays, Zenon
<1>5. CASE ospf_ism_state(q, r) = "DROther" /\ ospf_ism_state(t, r) = "DR"
  <2>1. CASE ospf_ism_state(o, r) = "DR"
    BY <1>5, <2>1, OldDrStaysAway, Zenon DEF ospf_ism_state
  <2>2. CASE ospf_ism_state(o, r) = "Backup"
    BY <1>1, <1>5, <2>2, OldBdrFinal, FinalStays, Zenon
  <2> QED BY <2>1, <2>2, <1>5, Zenon DEF ospf_ism_state
<1> QED BY <1>1, <1>2, <1>3, <1>4, <1>5, Zenon DEF ospf_ism_state

-----------------------------------------------------------------------------
(* A neighbour declares itself DR and outranks the router, or the router    *)
(* may not be DR.                                                           *)
Beaten(o, r) ==
    \/ o.nbrs[r].priority = 0
    \/ \E s \in Routers \ {r} :
          /\ s \in ospf_dr_eligible_routers(o)
          /\ o.nbrs[s].d_router = s
          /\ ~NotBelow(o.nbrs, r, s)

(* Between o and q the router has not stepped back but for a reason.        *)
Held(o, q, r) == DR(o, r) = r /\ ~Beaten(o, r) => DR(q, r) = r

(* What the events of an interface find: types, ... *)
Proper(o, r) ==
    /\ o \in Ifaces
    /\ o.nbrs[r].state = "TwoWay" /\ o.nbrs[r].priority \in Priorities
    /\ \A s \in Routers : o.nbrs[s].state = "Down" \/ o.nbrs[s].priority \in Priorities
    /\ o.state = "Down" => \A s \in Routers \ {r} : o.nbrs[s].state = "Down"

(* ... a state that is the elected role, or nobody elected yet, ... *)
Consistent(o, r) ==
    /\ o.state \in Elected => o.state = ospf_ism_state(o, r)
    /\ o.state \notin Elected => DR(o, r) = None /\ BDR(o, r) = None

(* ... and adjacencies that follow DR and BDR. *)
Follows(o, r) ==
    \A s \in Routers \ {r} :
        o.nbrs[s].state \in TwoWayUp =>
            (o.nbrs[s].state = "ExStart") = nsm_should_adj(o, r, s)

Ready(o, r) == Proper(o, r) /\ Consistent(o, r) /\ Follows(o, r)

(* What they leave behind: an election of which another round would change  *)
(* nothing.                                                                 *)
Good(o, r) == Ready(o, r) /\ (o.state \in Elected => Final(o, r))

LEMMA RoundHolds ==
    ASSUME NEW o \in Ifaces, NEW q, NEW r \in Routers, Round(o, q, r),
           o.nbrs[r].state = "TwoWay", o.nbrs[r].priority \in Priorities
    PROVE  Held(o, q, r)
<1> SUFFICES ASSUME DR(o, r) = r, ~Beaten(o, r) PROVE DR(q, r) = r
  BY Zenon DEF Held
<1>1. \A s \in Routers : s \in Nat /\ o.nbrs[s].priority \in Int
  BY Constants, Zenon DEF Ifaces, Tables, Entries
<1>2. r \in DeclareDr(o)
  BY Constants DEF Beaten, DeclareDr, DR, ospf_dr_eligible_routers, TwoWayUp
<1>3. DR(q, r) \in DeclareDr(o) /\ NotBelow(o.nbrs, DR(q, r), r)
  BY <1>2, Zenon DEF Round, Outcome, Best
<1>4. DR(q, r) \in Routers
  BY <1>3, RoutersListed, Zenon
<1>5. DR(q, r) # r => NotBelow(o.nbrs, r, DR(q, r))
  BY <1>3, <1>4, Zenon DEF Beaten, DeclareDr
<1> QED BY <1>1, <1>3, <1>4, <1>5 DEF NotBelow

LEMMA VotedBeaten ==
    ASSUME NEW o, NEW q, NEW r \in Routers, Voted(o, q, r)
    PROVE  Beaten(q, r) <=> Beaten(o, r)
BY VotedEligible DEF Voted, Beaten, NotBelow

LEMMA VotedTransitive ==
    ASSUME NEW o, NEW p, NEW q, NEW r \in Routers, Voted(o, p, r), Voted(p, q, r)
    PROVE  Voted(o, q, r)
BY Zenon DEF Voted

(* ospf_dr_election up to the state it returns: at most two rounds. *)
LEMMA ElectionFinal ==
    ASSUME NEW o, NEW r \in Routers, Proper(o, r), Consistent(o, r)
    PROVE  LET q == Election(o, r)
           IN  /\ Voted(o, q, r) /\ Held(o, q, r) /\ Final(q, r)
               /\ q.state = ospf_ism_state(q, r)
<1> DEFINE first  == ElectBoth(o, r)
           second == ElectBoth(first, r)
           again  == ospf_ism_state(first, r) # o.state
                     /\ ~(ospf_ism_state(first, r) = "DROther" /\ o.state \notin Elected)
           T(y)   == TakeRole(y, r)
           F(y)   == LET role == ospf_ism_state(y, r)
                     IN  IF role # o.state /\ ~(role = "DROther" /\ o.state \notin Elected)
                         THEN With(ElectBoth(y, r), T) ELSE TakeRole(y, r)
<1>1. o \in Ifaces /\ o.nbrs[r].state = "TwoWay" /\ o.nbrs[r].priority \in Priorities
  BY Zenon DEF Proper
<1>2. first \in Ifaces /\ Round(o, first, r)
  BY <1>1, ElectBothOutcome, Zenon DEF Round, Voted
<1>3. second \in Ifaces /\ Round(first, second, r)
  <2> HIDE DEF first
  <2> QED BY <1>2, ElectBothOutcome, Zenon DEF Round, Voted
<1>4. Election(o, r) = IF again THEN T(second) ELSE T(first)
  <2>1. Election(o, r) = With(first, F)
    BY Zenon DEF Election
  <2> HIDE DEF first, F, T
  <2>2. With(first, F) = F(first)
    BY Zenon DEF With
  <2>3. With(second, T) = T(second)
    BY Zenon DEF With
  <2> QED BY <2>1, <2>2, <2>3, Zenon DEF F, T
<1> HIDE DEF first, second
<1>5. again <=> ospf_ism_state(first, r) # ospf_ism_state(o, r)
  <2>1. CASE o.state \in Elected
    BY <2>1, Zenon DEF Consistent
  <2>2. CASE o.state \notin Elected
    <3>1. ospf_ism_state(o, r) = "DROther"
      BY <2>2, Constants, Zenon DEF Consistent, ospf_ism_state
    <3>2. ospf_ism_state(first, r) \in Elected
      BY Zenon DEF ospf_ism_state, Elected
    <3> QED BY <2>2, <3>1, <3>2, Zenon
  <2> QED BY <2>1, <2>2, Zenon
<1>6. ASSUME NEW p \in Ifaces
      PROVE  /\ T(p) \in Ifaces /\ T(p).nbrs = p.nbrs
             /\ T(p).state = ospf_ism_state(T(p), r)
  BY Zenon DEF TakeRole, Ifaces, ospf_ism_state, Elected, DR, BDR
<1> HIDE DEF T
<1>7. ASSUME NEW p \in Ifaces, Voted(o, p, r), Held(o, p, r), Final(p, r)
      PROVE  /\ Voted(o, T(p), r) /\ Held(o, T(p), r) /\ Final(T(p), r)
             /\ T(p).state = ospf_ism_state(T(p), r)
  <2>1. T(p) \in Ifaces /\ T(p).nbrs = p.nbrs /\ T(p).state = ospf_ism_state(T(p), r)
    BY <1>6, Zenon
  <2>2. Voted(o, T(p), r) /\ Held(o, T(p), r)
    BY <1>7, <2>1, Zenon DEF Voted, Held, DR
  <2>3. ospf_dr_eligible_routers(T(p)) = ospf_dr_eligible_routers(p)
    BY <2>1, Zenon DEF ospf_dr_eligible_routers
  <2>4. Final(T(p), r)
    BY <1>7, <2>1, <2>3, OutcomeCarries, Zenon DEF Final, DR, BDR
  <2> QED BY <2>1, <2>2, <2>4, Zenon
<1>8. Held(o, first, r) /\ Voted(o, first, r)
  BY <1>1, <1>2, RoundHolds, Zenon DEF Round
<1>9. CASE ~again
  <2>1. Final(first, r)
    BY <1>1, <1>2, <1>5, <1>9, SameRoleFinal, Zenon
  <2> QED BY <1>2, <1>4, <1>7, <1>8, <1>9, <2>1, Zenon
<1>10. CASE again
  <2>1. Final(second, r)
    BY <1>1, <1>2, <1>3, <1>5, <1>10, TwoRoundsFinal, Zenon
  <2>2. Voted(o, second, r)
    BY <1>2, <1>3, VotedTransitive, Zenon DEF Round
  <2>3. first.nbrs[r].state = "TwoWay" /\ first.nbrs[r].priority \in Priorities
    BY <1>1, <1>8, Zenon DEF Voted
  <2>4. Held(first, second, r)
    BY <1>2, <1>3, <2>3, RoundHolds, Zenon
  <2>5. Held(o, second, r)
    BY <1>8, <2>4, VotedBeaten, Zenon DEF Held
  <2> QED BY <1>3, <1>4, <1>7, <1>10, <2>1, <2>2, <2>5, Zenon
<1> QED BY <1>9, <1>10, Zenon

-----------------------------------------------------------------------------
(* Between o and q the router elected and reconsidered its adjacencies; the *)
(* neighbours are as near, and declare, what they did.                      *)
View(o, q, r) ==
    /\ q \in Ifaces
    /\ \A s \in Routers :
          /\ q.nbrs[s].priority = o.nbrs[s].priority
          /\ q.nbrs[s].state \in TwoWayUp <=> o.nbrs[s].state \in TwoWayUp
          /\ o.nbrs[s].state \notin TwoWayUp => q.nbrs[s].state = o.nbrs[s].state
    /\ q.nbrs[r].state = o.nbrs[r].state
    /\ \A s \in Routers \ {r} : /\ q.nbrs[s].d_router = o.nbrs[s].d_router
                                /\ q.nbrs[s].bd_router = o.nbrs[s].bd_router

Evolves(o, q, r) == View(o, q, r) /\ Held(o, q, r)

LEMMA ViewBeaten ==
    ASSUME NEW o, NEW q, NEW r \in Routers, View(o, q, r)
    PROVE  /\ ospf_dr_eligible_routers(q) = ospf_dr_eligible_routers(o)
           /\ Beaten(q, r) <=> Beaten(o, r)
<1>1. ospf_dr_eligible_routers(q) = ospf_dr_eligible_routers(o)
  BY Zenon DEF View, ospf_dr_eligible_routers
<1>2. \A s \in Routers : NotBelow(q.nbrs, r, s) <=> NotBelow(o.nbrs, r, s)
  BY Zenon DEF View, NotBelow
<1> QED BY <1>1, <1>2, Zenon DEF View, Beaten

LEMMA EvolvesTransitive ==
    ASSUME NEW o, NEW p, NEW q, NEW r \in Routers, Evolves(o, p, r), Evolves(p, q, r)
    PROVE  Evolves(o, q, r)
<1>1. View(o, p, r) /\ View(p, q, r)
  BY Zenon DEF Evolves
<1>2. View(o, q, r)
  BY <1>1 DEF View
<1> QED BY <1>1, <1>2, ViewBeaten, Zenon DEF Evolves, Held

LEMMA ReadyItself ==
    ASSUME NEW o, NEW r \in Routers, Ready(o, r)
    PROVE  o \in Ifaces /\ Proper(o, r) /\ Evolves(o, o, r)
<1>1. o \in Ifaces /\ Proper(o, r)
  BY Zenon DEF Ready, Proper
<1> QED BY <1>1, Zenon DEF Evolves, View, Held

LEMMA AdjOKFollows ==
    ASSUME NEW o \in Ifaces, NEW r \in Routers
    PROVE  LET q == AdjOK(o, r)
           IN  /\ View(o, q, r) /\ Follows(q, r) /\ q.state = o.state
               /\ q.nbrs[r] = o.nbrs[r]
<1> DEFINE n == [s \in Routers |->
                   IF s # r /\ o.nbrs[s].state \in TwoWayUp
                   THEN [o.nbrs[s] EXCEPT !.state = IF nsm_should_adj(o, r, s)
                                                    THEN "ExStart" ELSE "TwoWay"]
                   ELSE o.nbrs[s]]
           q == [o EXCEPT !.nbrs = n]
<1>1. AdjOK(o, r) = q
  BY Zenon DEF AdjOK, Ifaces
<1>2. \A s \in Routers : o.nbrs[s] \in Entries
  BY Zenon DEF Ifaces, Tables
<1>3. ASSUME NEW s \in Routers
      PROVE  /\ n[s] \in Entries
             /\ n[s].priority = o.nbrs[s].priority
             /\ n[s].state \in TwoWayUp <=> o.nbrs[s].state \in TwoWayUp
             /\ o.nbrs[s].state \notin TwoWayUp => n[s].state = o.nbrs[s].state
             /\ n[s].d_router = o.nbrs[s].d_router
             /\ n[s].bd_router = o.nbrs[s].bd_router
             /\ s # r /\ n[s].state \in TwoWayUp =>
                    (n[s].state = "ExStart") = nsm_should_adj(o, r, s)
  <2>1. CASE s # r /\ o.nbrs[s].state \in TwoWayUp
    <3> DEFINE st == IF nsm_should_adj(o, r, s) THEN "ExStart" ELSE "TwoWay"
    <3>1. n[s] = [o.nbrs[s] EXCEPT !.state = st]
      BY <2>1, Zenon
    <3>2. st \in TwoWayUp /\ (st = "ExStart") = nsm_should_adj(o, r, s)
      BY Zenon DEF TwoWayUp, nsm_should_adj
    <3> HIDE DEF st, n
    <3> QED BY <1>2, <2>1, <3>1, <3>2, Zenon DEF Entries, NbrState
  <2>2. CASE ~(s # r /\ o.nbrs[s].state \in TwoWayUp)
    BY <1>2, <2>2, Zenon
  <2> QED BY <2>1, <2>2, Zenon
<1>4. n[r] = o.nbrs[r] /\ n \in Tables
  BY <1>3, Zenon DEF Tables
<1> HIDE DEF n
<1>5. q \in Ifaces /\ q.nbrs = n /\ q.state = o.state
  BY <1>4, Zenon DEF Ifaces
<1> HIDE DEF q
<1>6. \A s \in Routers : nsm_should_adj(q, r, s) = nsm_should_adj(o, r, s)
  BY <1>4, <1>5, Zenon DEF nsm_should_adj, DR, BDR
<1>7. View(o, q, r) /\ Follows(q, r)
  BY <1>3, <1>4, <1>5, <1>6, Zenon DEF View, Follows
<1> QED BY <1>1, <1>4, <1>5, <1>7, Zenon

(* The election, and AdjOK? for all neighbours when DR or BDR changed. *)
LEMMA DrElectionGood ==
    ASSUME NEW o, NEW r \in Routers, Ready(o, r), o.state # "Down"
    PROVE  LET q == ospf_dr_election(o, r)
           IN  Good(q, r) /\ Evolves(o, q, r) /\ q.state \in Elected
<1> DEFINE e    == Election(o, r)
           F(y) == IF DR(y, r) # DR(o, r) \/ BDR(y, r) # BDR(o, r) THEN AdjOK(y, r) ELSE y
           q    == F(e)
<1>1. ospf_dr_election(o, r) = q
  <2>1. ospf_dr_election(o, r) = With(e, F)
    BY Zenon DEF ospf_dr_election
  <2> HIDE DEF e, F
  <2>2. With(e, F) = F(e)
    BY Zenon DEF With
  <2> QED BY <2>1, <2>2, Zenon
<1>2. /\ Voted(o, e, r) /\ Held(o, e, r) /\ Final(e, r)
      /\ e.state = ospf_ism_state(e, r)
  BY ElectionFinal, Zenon DEF Ready
<1>3. e \in Ifaces /\ View(o, e, r)
  BY <1>2, Zenon DEF Voted, View
<1> HIDE DEF e
<1>4. View(e, q, r) /\ q.state = e.state /\ q.nbrs[r] = e.nbrs[r]
  <2>1. CASE q = AdjOK(e, r)
    BY <1>3, <2>1, AdjOKFollows, Zenon
  <2>2. CASE q = e
    BY <1>3, <2>2, Zenon DEF View
  <2> QED BY <2>1, <2>2, Zenon
<1>5. Follows(q, r)
  <2>1. CASE DR(e, r) # DR(o, r) \/ BDR(e, r) # BDR(o, r)
    BY <1>3, <2>1, AdjOKFollows, Zenon
  <2>2. CASE ~(DR(e, r) # DR(o, r) \/ BDR(e, r) # BDR(o, r))
    BY <1>2, <2>2, ZenonT(30) DEF Ready, Follows, Voted, nsm_should_adj
  <2> QED BY <2>1, <2>2, Zenon
<1> HIDE DEF q
<1>6. View(o, q, r) /\ q \in Ifaces
  BY <1>3, <1>4 DEF View
<1>7. Held(o, q, r)
  BY <1>2, <1>4, Zenon DEF Held, DR
<1>8. q.state = ospf_ism_state(q, r) /\ q.state \in Elected
  BY <1>2, <1>4, Zenon DEF ospf_ism_state, Elected, DR, BDR
<1>9. Final(q, r)
  <2>1. ospf_dr_eligible_routers(q) = ospf_dr_eligible_routers(e)
    BY <1>4, ViewBeaten, Zenon
  <2>2. \A s \in Routers : /\ q.nbrs[s].priority = e.nbrs[s].priority
                           /\ q.nbrs[s].d_router = e.nbrs[s].d_router
                           /\ q.nbrs[s].bd_router = e.nbrs[s].bd_router
    BY <1>4, Zenon DEF View
  <2> QED BY <1>2, <1>3, <1>4, <1>6, <2>1, <2>2, OutcomeCarries, RoutersListed
          DEF Final, DR, BDR
<1>10. Proper(q, r)
  BY <1>6, <1>8, Zenon DEF Ready, Proper, View, Elected, TwoWayUp
<1> QED BY <1>1, <1>5, <1>6, <1>7, <1>8, <1>9, <1>10, Zenon DEF Good, Ready, Consistent, Evolves

LEMMA NeighborChangeGood ==
    ASSUME NEW o, NEW r \in Routers, Ready(o, r)
    PROVE  LET q == NeighborChange(o, r)
           IN  Good(q, r) /\ Evolves(o, q, r)
<1>1. CASE o.state \in Elected
  BY <1>1, DrElectionGood, Zenon DEF NeighborChange, Elected
<1>2. CASE o.state \notin Elected
  BY <1>2, ReadyItself, Zenon DEF NeighborChange, Good
<1> QED BY <1>1, <1>2, Zenon

LEMMA BackupSeenReady ==
    ASSUME NEW o, NEW r \in Routers, Ready(o, r)
    PROVE  LET q == BackupSeen(o, r)
           IN  Ready(q, r) /\ Evolves(o, q, r) /\ (Good(o, r) => Good(q, r))
<1>1. CASE o.state = "Waiting"
  BY <1>1, DrElectionGood, Zenon DEF BackupSeen, Good
<1>2. CASE o.state # "Waiting"
  BY <1>2, ReadyItself, Zenon DEF BackupSeen
<1> QED BY <1>1, <1>2, Zenon

LEMMA RepeatGood ==
    ASSUME NEW o, NEW r \in Routers, NEW n, Ready(o, r), n = 0 => Good(o, r)
    PROVE  LET q == Repeat(o, r, n)
           IN  Good(q, r) /\ Evolves(o, q, r)
<1> DEFINE once  == NeighborChange(o, r)
           twice == NeighborChange(once, r)
           third == NeighborChange(twice, r)
           G(y)  == IF n = 2 THEN y ELSE NeighborChange(y, r)
           F(y)  == IF n = 1 THEN y ELSE With(NeighborChange(y, r), G)
<1>1. Good(once, r) /\ Evolves(o, once, r)
  BY NeighborChangeGood, Zenon
<1>2. Good(twice, r) /\ Evolves(once, twice, r)
  <2> HIDE DEF once
  <2> QED BY <1>1, NeighborChangeGood, Zenon DEF Good
<1>3. Good(third, r) /\ Evolves(twice, third, r)
  <2> HIDE DEF twice
  <2> QED BY <1>2, NeighborChangeGood, Zenon DEF Good
<1>4. Repeat(o, r, n) \in {once, twice, third} \/ (n = 0 /\ Repeat(o, r, n) = o)
  <2>1. Repeat(o, r, n) = IF n = 0 THEN o ELSE With(once, F)
    BY Zenon DEF Repeat
  <2> HIDE DEF once, F, G
  <2>2. With(once, F) = F(once)
    BY Zenon DEF With
  <2>3. F(once) = IF n = 1 THEN once ELSE With(twice, G)
    BY Zenon DEF F
  <2> HIDE DEF twice
  <2>4. With(twice, G) = G(twice)
    BY DEF With
  <2>5. G(twice) = IF n = 2 THEN twice ELSE third
    BY Zenon DEF G
  <2> HIDE DEF third
  <2> QED BY <2>1, <2>2, <2>3, <2>4, <2>5, Zenon
<1> HIDE DEF once, twice, third
<1>5. Evolves(o, twice, r) /\ Evolves(o, third, r)
  BY <1>1, <1>2, <1>3, EvolvesTransitive, Zenon
<1>6. Evolves(o, o, r)
  BY ReadyItself, Zenon
<1> QED BY <1>1, <1>2, <1>3, <1>4, <1>5, <1>6, Zenon

-----------------------------------------------------------------------------
(* The table with another state for one neighbour. *)
Moved(o, s, st) == [o EXCEPT !.nbrs[s].state = st]

LEMMA MovedReady ==
    ASSUME NEW o, NEW r \in Routers, NEW s \in Routers \ {r}, NEW st \in NbrState,
           Ready(o, r),
           st # "Down" => o.nbrs[s].priority \in Priorities /\ o.state # "Down",
           st \in TwoWayUp => (st = "ExStart") = nsm_should_adj(o, r, s)
    PROVE  LET q == Moved(o, s, st)
           IN  /\ Ready(q, r) /\ q.state = o.state
               /\ \A x \in Routers \ {s} : q.nbrs[x] = o.nbrs[x]
               /\ q.nbrs[s].state = st /\ q.nbrs[s].priority = o.nbrs[s].priority
               /\ q.nbrs[s].d_router = o.nbrs[s].d_router
               /\ q.nbrs[s].bd_router = o.nbrs[s].bd_router
               /\ (o.nbrs[s].state \in TwoWayUp <=> st \in TwoWayUp) /\ Good(o, r)
                      => Good(q, r)
<1> DEFINE q == Moved(o, s, st)
<1>1. o \in Ifaces
  BY Zenon DEF Ready, Proper
<1>2. /\ q \in Ifaces /\ q.state = o.state
      /\ \A x \in Routers \ {s} : q.nbrs[x] = o.nbrs[x]
      /\ q.nbrs[s].state = st /\ q.nbrs[s].priority = o.nbrs[s].priority
      /\ q.nbrs[s].d_router = o.nbrs[s].d_router
      /\ q.nbrs[s].bd_router = o.nbrs[s].bd_router
  BY <1>1, ZenonT(30) DEF Moved, Ifaces, Tables, Entries
<1> HIDE DEF q
<1>3. q.nbrs[r] = o.nbrs[r]
  BY <1>2, Zenon
<1>4. Proper(q, r)
  BY <1>2, <1>3, Zenon DEF Ready, Proper
<1>5. Consistent(q, r)
  BY <1>2, <1>3, Zenon DEF Ready, Consistent, ospf_ism_state, DR, BDR
<1>6. \A x \in Routers : nsm_should_adj(q, r, x) = nsm_should_adj(o, r, x)
  BY <1>3, Zenon DEF nsm_should_adj, DR, BDR
<1>7. Follows(q, r)
  BY <1>2, <1>6 DEF Ready, Follows
<1>8. ASSUME o.nbrs[s].state \in TwoWayUp <=> st \in TwoWayUp, Good(o, r)
      PROVE  Good(q, r)
  <2>1. ospf_dr_eligible_routers(q) = ospf_dr_eligible_routers(o)
    BY <1>2, <1>8, Zenon DEF ospf_dr_eligible_routers
  <2>2. \A x \in Routers : /\ q.nbrs[x].priority = o.nbrs[x].priority
                           /\ q.nbrs[x].d_router = o.nbrs[x].d_router
                           /\ q.nbrs[x].bd_router = o.nbrs[x].bd_router
    BY <1>2, Zenon
  <2>3. q.state \in Elected => Final(q, r)
    BY <1>1, <1>2, <1>3, <1>8, <2>1, <2>2, OutcomeCarries, RoutersListed
       DEF Good, Final, DR, BDR
  <2> QED BY <1>4, <1>5, <1>7, <2>3, Zenon DEF Good, Ready
<1> QED BY <1>2, <1>4, <1>5, <1>7, <1>8, ZenonT(30) DEF Ready, q

LEMMA ChangeStateGood ==
    ASSUME NEW o, NEW r \in Routers, NEW s \in Routers \ {r}, NEW st \in NbrState,
           Ready(o, r),
           st # "Down" => o.nbrs[s].priority \in Priorities /\ o.state # "Down",
           st \in TwoWayUp => (st = "ExStart") = nsm_should_adj(o, r, s)
    PROVE  LET q == nsm_change_state(o, r, s, st)
           IN  /\ Ready(q, r) /\ Evolves(Moved(o, s, st), q, r)
               /\ Good(o, r) => Good(q, r)
               /\ (o.nbrs[s].state \in TwoWayUp) # (st \in TwoWayUp) => Good(q, r)
<1> DEFINE new   == Moved(o, s, st)
           cross == (o.nbrs[s].state \in TwoWayUp) # (st \in TwoWayUp)
           F(y)  == IF cross THEN NeighborChange(y, r) ELSE y
<1>1. nsm_change_state(o, r, s, st) = F(new)
  <2>1. nsm_change_state(o, r, s, st) = With(new, F)
    BY Zenon DEF nsm_change_state, Moved
  <2> HIDE DEF new, F
  <2>2. With(new, F) = F(new)
    BY Zenon DEF With
  <2> QED BY <2>1, <2>2, Zenon
<1>2. Ready(new, r) /\ (~cross /\ Good(o, r) => Good(new, r))
  BY MovedReady, Zenon
<1> HIDE DEF new, cross
<1>3. CASE cross
  BY <1>1, <1>2, <1>3, NeighborChangeGood, Zenon DEF Good, new, cross
<1>4. CASE ~cross
  BY <1>1, <1>2, <1>4, ReadyItself, Zenon DEF new, cross
<1> QED BY <1>3, <1>4, Zenon

LEMMA TwoWayReceivedGood ==
    ASSUME NEW o, NEW r \in Routers, NEW s \in Routers \ {r}, Ready(o, r), o.state # "Down",
           o.nbrs[s].priority \in Priorities
    PROVE  LET q == TwoWayReceived(o, r, s)
           IN  /\ Ready(q, r) /\ (Good(o, r) => Good(q, r))
               /\ \/ Evolves(o, q, r)
                  \/ \E st \in TwoWayUp : Evolves(Moved(o, s, st), q, r)
<1>1. CASE o.nbrs[s].state # "Init"
  BY <1>1, ReadyItself, Zenon DEF TwoWayReceived
<1>2. CASE o.nbrs[s].state = "Init"
  <2> DEFINE st == IF nsm_should_adj(o, r, s) THEN "ExStart" ELSE "TwoWay"
  <2>1. TwoWayReceived(o, r, s) = nsm_change_state(o, r, s, st)
    BY <1>2, Zenon DEF TwoWayReceived
  <2>2. /\ st \in TwoWayUp /\ st \in NbrState
        /\ (st = "ExStart") = nsm_should_adj(o, r, s)
    BY Zenon DEF TwoWayUp, NbrState, nsm_should_adj
  <2> HIDE DEF st
  <2> QED BY <2>1, <2>2, ChangeStateGood
<1> QED BY <1>1, <1>2, Zenon

-----------------------------------------------------------------------------
Hellos == [priority : Priorities, d_router : Address, bd_router : Address,
           neighbors : SUBSET Routers]

(* The table once a hello is noted, and before its events. *)
Noted(o, s, h) ==
    [o EXCEPT !.nbrs[s] =
        Entry(IF o.nbrs[s].state = "Down" THEN "Init" ELSE o.nbrs[s].state,
              h.priority, h.d_router, h.bd_router)]

(* Without changes, or from a neighbour that is not 2-way, a hello leaves   *)
(* the election as it is.                                                   *)
LEMMA NotedReady ==
    ASSUME NEW o, NEW r \in Routers, NEW s \in Routers \ {r}, NEW h \in Hellos,
           Good(o, r), o.state # "Down"
    PROVE  LET q == Noted(o, s, h)
           IN  /\ Ready(q, r) /\ q.state = o.state
               /\ \A x \in Routers \ {s} : q.nbrs[x] = o.nbrs[x]
               /\ q.nbrs[s].state = IF o.nbrs[s].state = "Down" THEN "Init"
                                    ELSE o.nbrs[s].state
               /\ q.nbrs[s].priority = h.priority
               /\ q.nbrs[s].d_router = h.d_router
               /\ q.nbrs[s].bd_router = h.bd_router
               /\ o.nbrs[s].state \notin TwoWayUp \/ Changes(o.nbrs[s], s, h) = 0
                      => Good(q, r)
<1> DEFINE q  == Noted(o, s, h)
           st == IF o.nbrs[s].state = "Down" THEN "Init" ELSE o.nbrs[s].state
<1>1. o \in Ifaces /\ Ready(o, r)
  BY Zenon DEF Good, Ready, Proper
<1>2. /\ st \in NbrState /\ st # "Down"
      /\ st \in TwoWayUp <=> o.nbrs[s].state \in TwoWayUp
      /\ st \in TwoWayUp => st = o.nbrs[s].state
  BY <1>1, Zenon DEF Ifaces, Tables, Entries, NbrState, TwoWayUp
<1>3. q = [o EXCEPT !.nbrs[s] = Entry(st, h.priority, h.d_router, h.bd_router)]
  BY Zenon DEF Noted
<1> HIDE DEF q, st
<1>4. /\ q \in Ifaces /\ q.state = o.state
      /\ \A x \in Routers \ {s} : q.nbrs[x] = o.nbrs[x]
      /\ q.nbrs[s].state = st /\ q.nbrs[s].priority = h.priority
      /\ q.nbrs[s].d_router = h.d_router
      /\ q.nbrs[s].bd_router = h.bd_router
  <2> DEFINE e == Entry(st, h.priority, h.d_router, h.bd_router)
  <2>1. /\ e \in Entries /\ e.state = st /\ e.priority = h.priority
        /\ e.d_router = h.d_router /\ e.bd_router = h.bd_router
    BY <1>2, Zenon DEF Entry, Entries, Hellos
  <2> HIDE DEF e
  <2>2. q = [o EXCEPT !.nbrs[s] = e]
    BY <1>3, Zenon DEF e
  <2>3. q \in Ifaces /\ q.state = o.state /\ q.nbrs[s] = e
        /\ \A x \in Routers \ {s} : q.nbrs[x] = o.nbrs[x]
    BY <1>1, <2>1, <2>2, Zenon DEF Ifaces, Tables
  <2> QED BY <2>1, <2>3, Zenon
<1>5. q.nbrs[r] = o.nbrs[r]
  BY <1>4, Zenon
<1>6. h.priority \in Priorities
  BY Zenon DEF Hellos
<1>7. Proper(q, r)
  BY <1>1, <1>4, <1>5, <1>6, Zenon DEF Ready, Proper
<1>8. Consistent(q, r)
  BY <1>1, <1>4, <1>5, Zenon DEF Ready, Consistent, ospf_ism_state, DR, BDR
<1>9. \A x \in Routers : nsm_should_adj(q, r, x) = nsm_should_adj(o, r, x)
  BY <1>5, Zenon DEF nsm_should_adj, DR, BDR
<1>10. Follows(q, r)
  BY <1>1, <1>2, <1>4, <1>9 DEF Ready, Follows
<1>11. ASSUME o.nbrs[s].state \notin TwoWayUp \/ Changes(o.nbrs[s], s, h) = 0
       PROVE  Good(q, r)
  <2>1. CASE o.nbrs[s].state \notin TwoWayUp
    <3>1. ospf_dr_eligible_routers(q) = ospf_dr_eligible_routers(o)
      BY <1>2, <1>4, <2>1, Zenon DEF ospf_dr_eligible_routers
    <3>2. s \notin ospf_dr_eligible_routers(o)
      BY <2>1, Zenon DEF ospf_dr_eligible_routers
    <3>3. q.state \in Elected => Final(q, r)
      BY <1>1, <1>4, <1>5, <3>1, <3>2, OutcomeCarries, RoutersListed, Zenon
         DEF Good, Final, DR, BDR
    <3> QED BY <1>7, <1>8, <1>10, <3>3, Zenon DEF Good, Ready
  <2>2. CASE o.nbrs[s].state \in TwoWayUp /\ Changes(o.nbrs[s], s, h) = 0
    <3>1. o.nbrs[s].priority \in Priorities /\ o.nbrs[s].priority \in Nat
      BY <1>1, <2>2, Constants, Zenon DEF Ready, Proper, TwoWayUp
    <3>2. /\ h.priority = o.nbrs[s].priority
          /\ h.d_router = s <=> o.nbrs[s].d_router = s
          /\ h.bd_router = s <=> o.nbrs[s].bd_router = s
      BY <2>2, <3>1 DEF Changes
    <3>3. ospf_dr_eligible_routers(q) = ospf_dr_eligible_routers(o)
      BY <1>2, <1>4, <3>2 DEF ospf_dr_eligible_routers
    <3>4. \A x \in Routers : /\ q.nbrs[x].priority = o.nbrs[x].priority
                             /\ q.nbrs[x].d_router = x <=> o.nbrs[x].d_router = x
                             /\ q.nbrs[x].bd_router = x <=> o.nbrs[x].bd_router = x
      BY <1>4, <3>2, Zenon
    <3>5. q.state \in Elected => Final(q, r)
      BY <1>1, <1>4, <1>5, <3>3, <3>4, OutcomeCarries, RoutersListed
         DEF Good, Final, DR, BDR
    <3> QED BY <1>7, <1>8, <1>10, <3>5 DEF Good, Ready
  <2> QED BY <1>11, <2>1, <2>2, Zenon
<1> QED BY <1>4, <1>7, <1>8, <1>10, <1>11, ZenonT(30) DEF Ready, q, st

(* A DR that is one no more was beaten. *)
Yields(o, q, r) == DR(o, r) = r => DR(q, r) = r \/ Beaten(q, r)

LEMMA EvolvesYields ==
    ASSUME NEW o, NEW p, NEW q, NEW r \in Routers, DR(p, r) = DR(o, r), Evolves(p, q, r)
    PROVE  Yields(o, q, r)
BY ViewBeaten, Zenon DEF Evolves, Held, Yields

(* What a hello leaves of its sender in the table. *)
Heard(q, s, h) ==
    /\ q.nbrs[s].priority = h.priority
    /\ q.nbrs[s].d_router = h.d_router
    /\ q.nbrs[s].bd_router = h.bd_router

(* ospf_hello and the events it schedules. *)
LEMMA HelloGood ==
    ASSUME NEW o, NEW r \in Routers, NEW s \in Routers \ {r}, NEW h \in Hellos,
           Good(o, r), o.state # "Down"
    PROVE  LET q == ospf_hello(o, r, s, h)
           IN  Good(q, r) /\ Yields(o, q, r) /\ Heard(q, s, h)
<1> DEFINE noted  == Noted(o, s, h)
           n      == Changes(o.nbrs[s], s, h)
           twoway == TwoWayReceived(noted, r, s)
           seen   == IF SeenBackup(o, s, h) THEN BackupSeen(twoway, r) ELSE twoway
           last   == Repeat(seen, r, n)
           H(y)   == Repeat(y, r, n)
           G(y)   == With(IF SeenBackup(o, s, h) THEN BackupSeen(y, r) ELSE y, H)
           F(y)   == IF r \notin h.neighbors THEN nsm_change_state(y, r, s, "Init")
                     ELSE With(TwoWayReceived(y, r, s), G)
<1>1. ospf_hello(o, r, s, h) =
          IF r \notin h.neighbors THEN nsm_change_state(noted, r, s, "Init") ELSE last
  <2>1. ospf_hello(o, r, s, h) = With(noted, F)
    BY Zenon DEF ospf_hello, Noted
  <2> HIDE DEF noted, F, G, H
  <2>2. With(noted, F) = F(noted)
    BY Zenon DEF With
  <2>3. F(noted) = IF r \notin h.neighbors THEN nsm_change_state(noted, r, s, "Init")
                   ELSE With(twoway, G)
    BY Zenon DEF F
  <2> HIDE DEF twoway
  <2>4. With(twoway, G) = G(twoway)
    BY DEF With
  <2>5. G(twoway) = With(seen, H)
    BY Zenon DEF G
  <2> HIDE DEF seen
  <2>6. With(seen, H) = H(seen)
    BY DEF With
  <2>7. H(seen) = last
    BY Zenon DEF H
  <2> QED BY <2>1, <2>2, <2>3, <2>4, <2>5, <2>6, <2>7, Zenon
<1>2. /\ Ready(noted, r) /\ noted.state = o.state /\ noted.nbrs[r] = o.nbrs[r]
      /\ noted.nbrs[s].state \in TwoWayUp <=> o.nbrs[s].state \in TwoWayUp
      /\ Heard(noted, s, h) /\ noted.nbrs[s].priority \in Priorities
      /\ o.nbrs[s].state \notin TwoWayUp \/ Changes(o.nbrs[s], s, h) = 0 => Good(noted, r)
  <2>1. /\ Ready(noted, r) /\ noted.state = o.state
        /\ \A x \in Routers \ {s} : noted.nbrs[x] = o.nbrs[x]
        /\ noted.nbrs[s].state = IF o.nbrs[s].state = "Down" THEN "Init" ELSE o.nbrs[s].state
        /\ noted.nbrs[s].priority = h.priority
        /\ noted.nbrs[s].d_router = h.d_router
        /\ noted.nbrs[s].bd_router = h.bd_router
        /\ o.nbrs[s].state \notin TwoWayUp \/ Changes(o.nbrs[s], s, h) = 0 => Good(noted, r)
    BY NotedReady, Zenon
  <2> HIDE DEF noted
  <2>2. noted.nbrs[s].state \in TwoWayUp <=> o.nbrs[s].state \in TwoWayUp
    BY <2>1, Zenon DEF TwoWayUp
  <2> QED BY <2>1, <2>2, Zenon DEF Heard, Hellos
<1> HIDE DEF noted
<1>3. ASSUME NEW st \in NbrState, Ready(noted, r)
      PROVE  LET p == Moved(noted, s, st) IN DR(p, r) = DR(o, r) /\ Heard(p, s, h)
  <2>1. noted \in Ifaces
    BY <1>2, ReadyItself, Zenon
  <2> QED BY <1>2, <2>1, Zenon DEF Moved, Heard, DR, Ifaces, Tables, Entries
<1>4. DR(noted, r) = DR(o, r)
  BY <1>2, Zenon DEF DR
<1>5. ASSUME NEW p, NEW q, Heard(p, s, h), Evolves(p, q, r)
      PROVE  Heard(q, s, h)
  BY <1>5, Zenon DEF Heard, Evolves, View
<1>6. CASE r \notin h.neighbors
  <2> DEFINE q == nsm_change_state(noted, r, s, "Init")
  <2>1. "Init" \in NbrState /\ "Init" # "Down" /\ "Init" \notin TwoWayUp
    BY Zenon DEF NbrState, TwoWayUp
  <2>2. /\ Evolves(Moved(noted, s, "Init"), q, r)
        /\ Good(noted, r) => Good(q, r)
        /\ (noted.nbrs[s].state \in TwoWayUp) # ("Init" \in TwoWayUp) => Good(q, r)
    BY <1>2, <2>1, ChangeStateGood, ZenonT(30)
  <2>3. Good(q, r)
    BY <1>2, <2>1, <2>2, Zenon
  <2> HIDE DEF q
  <2>4. Heard(q, s, h) /\ Yields(o, q, r)
    BY <1>2, <1>3, <1>5, <2>1, <2>2, EvolvesYields, ZenonT(30)
  <2> QED BY <1>1, <1>6, <2>3, <2>4, Zenon DEF q
<1>7. CASE r \in h.neighbors
  <2>1. /\ Ready(twoway, r) /\ (Good(noted, r) => Good(twoway, r))
        /\ \/ Evolves(noted, twoway, r)
           \/ \E st \in TwoWayUp : Evolves(Moved(noted, s, st), twoway, r)
    BY <1>2, TwoWayReceivedGood, Zenon
  <2>2. PICK p : Evolves(p, twoway, r) /\ DR(p, r) = DR(o, r) /\ Heard(p, s, h)
    BY <1>2, <1>3, <1>4, <2>1, Zenon DEF NbrState
  <2> HIDE DEF twoway
  <2>3. Ready(seen, r) /\ Evolves(twoway, seen, r) /\ (Good(twoway, r) => Good(seen, r))
    BY <2>1, BackupSeenReady, ReadyItself, Zenon
  <2> HIDE DEF seen
  <2>4. n = 0 => Good(seen, r)
    BY <1>2, <2>1, <2>3, Zenon
  <2> HIDE DEF n
  <2>5. Good(last, r) /\ Evolves(seen, last, r)
    BY <2>3, <2>4, RepeatGood, Zenon
  <2> HIDE DEF last
  <2>6. Evolves(p, last, r)
    BY <2>2, <2>3, <2>5, EvolvesTransitive, Zenon
  <2>7. Heard(last, s, h) /\ Yields(o, last, r)
    BY <1>5, <2>2, <2>6, EvolvesYields, Zenon
  <2> QED BY <1>1, <1>7, <2>5, <2>7, Zenon
<1> QED BY <1>6, <1>7, Zenon

LEMMA ForgetGood ==
    ASSUME NEW o, NEW r \in Routers, NEW s \in Routers \ {r}, Good(o, r)
    PROVE  LET q == ForgetNbr(o, r, s)
           IN  Good(q, r) /\ Yields(o, q, r)
<1> DEFINE x == nsm_change_state(o, r, s, "Down")
           q == [x EXCEPT !.nbrs[s] = NewNbr]
<1>1. "Down" \in NbrState /\ "Down" \notin TwoWayUp
  BY Zenon DEF NbrState, TwoWayUp
<1>2. Good(x, r) /\ Evolves(Moved(o, s, "Down"), x, r)
  BY <1>1, ChangeStateGood, Zenon DEF Good
<1>3. Moved(o, s, "Down").nbrs[s].state = "Down" /\ DR(Moved(o, s, "Down"), r) = DR(o, r)
  BY <1>1, MovedReady DEF Good, DR
<1>4. x.nbrs[s].state = "Down" /\ Yields(o, x, r)
  BY <1>1, <1>2, <1>3, EvolvesYields, ZenonT(30) DEF Evolves, View
<1> HIDE DEF x
<1>5. x \in Ifaces /\ Ready(x, r)
  BY <1>2, ReadyItself, Zenon DEF Good
<1>6. NewNbr \in Entries /\ NewNbr.state = "Down"
  BY Zenon DEF NewNbr, Entry, Entries, NbrState, Address
<1>7. /\ q \in Ifaces /\ q.state = x.state /\ q.nbrs[s] = NewNbr
      /\ \A y \in Routers \ {s} : q.nbrs[y] = x.nbrs[y]
  BY <1>5, <1>6, Zenon DEF Ifaces, Tables
<1> HIDE DEF q
<1>8. q.nbrs[r] = x.nbrs[r]
  BY <1>7, Zenon
<1>9. Proper(q, r)
  BY <1>5, <1>6, <1>7, <1>8, Zenon DEF Ready, Proper
<1>10. Consistent(q, r)
  BY <1>5, <1>7, <1>8, Zenon DEF Ready, Consistent, ospf_ism_state, DR, BDR
<1>11. \A y \in Routers : nsm_should_adj(q, r, y) = nsm_should_adj(x, r, y)
  BY <1>8, Zenon DEF nsm_should_adj, DR, BDR
<1>12. Follows(q, r)
  BY <1>1, <1>5, <1>6, <1>7, <1>11, Zenon DEF Ready, Follows
<1>13. /\ ospf_dr_eligible_routers(q) = ospf_dr_eligible_routers(x)
       /\ s \notin ospf_dr_eligible_routers(x)
  BY <1>1, <1>4, <1>6, <1>7, Zenon DEF ospf_dr_eligible_routers
<1>14. q.state \in Elected => Final(q, r)
  <2> SUFFICES ASSUME q.state \in Elected PROVE Final(q, r)
    BY Zenon
  <2>1. Outcome(x, DR(x, r), BDR(x, r))
    BY <1>2, <1>7, Zenon DEF Good, Final
  <2>2. \A y \in ospf_dr_eligible_routers(x) : q.nbrs[y] = x.nbrs[y]
    BY <1>7, <1>13, RoutersListed, Zenon
  <2>3. Outcome(q, DR(x, r), BDR(x, r))
    BY <1>5, <1>7, <1>13, <2>1, <2>2, OutcomeCarries, Zenon
  <2> QED BY <1>8, <2>3, Zenon DEF Final, DR, BDR
<1>15. Beaten(x, r) => Beaten(q, r)
  BY <1>7, <1>8, <1>13, Zenon DEF Beaten, NotBelow
<1>16. Yields(o, q, r)
  BY <1>4, <1>8, <1>15, Zenon DEF Yields, DR
<1>17. ForgetNbr(o, r, s) = q
  BY Zenon DEF ForgetNbr, q, x
<1> QED BY <1>9, <1>10, <1>12, <1>14, <1>16, <1>17, Zenon DEF Good, Ready

-----------------------------------------------------------------------------
(* The inductive invariant: between two steps the table of every router is  *)
(* in order, and its election final.                                        *)
Inv ==
    /\ oi \in [Routers -> Ifaces]
    /\ \A r \in Routers : Good(oi[r], r)
    /\ net \in Configured
    /\ faults \in 0 .. net.faults
    /\ commands \in 0 .. net.commands

LEMMA ResetGood ==
    ASSUME NEW r \in Routers, NEW p \in Priorities
    PROVE  Good([state |-> "Down", nbrs |-> nbr_self_reset(r, p)], r)
<1> DEFINE n == nbr_self_reset(r, p)
           o == [state |-> "Down", nbrs |-> n]
<1>1. NewNbr \in Entries /\ NewNbr.state = "Down"
  BY Zenon DEF NewNbr, Entry, Entries, NbrState, Address
<1>2. /\ Entry("TwoWay", p, None, None) \in Entries
      /\ Entry("TwoWay", p, None, None).state = "TwoWay"
      /\ Entry("TwoWay", p, None, None).priority = p
      /\ Entry("TwoWay", p, None, None).d_router = None
      /\ Entry("TwoWay", p, None, None).bd_router = None
  BY Zenon DEF Entry, Entries, NbrState, TwoWayUp, Address
<1>3. n \in Tables /\ n[r] = Entry("TwoWay", p, None, None)
      /\ \A s \in Routers \ {r} : n[s] = NewNbr
  BY <1>1, <1>2, Zenon DEF nbr_self_reset, Tables
<1> HIDE DEF n
<1>4. o \in Ifaces /\ o.state = "Down" /\ o.nbrs = n /\ "Down" \notin Elected
  BY <1>3, Zenon DEF Ifaces, Elected
<1> HIDE DEF o
<1>5. Proper(o, r)
  BY <1>1, <1>2, <1>3, <1>4, Zenon DEF Proper
<1>6. Consistent(o, r) /\ Follows(o, r)
  BY <1>1, <1>2, <1>3, <1>4, Zenon DEF Consistent, Follows, DR, BDR, TwoWayUp
<1> QED BY <1>4, <1>5, <1>6, Zenon DEF Good, Ready, o, n

LEMMA InitInv == Init => Inv
<1> SUFFICES ASSUME Init PROVE Inv
  BY Zenon
<1> DEFINE p(r) == IF r \in Attached THEN net.priority[r] ELSE 0
<1>1. /\ net \in Configured /\ faults = 0 /\ commands = 0
      /\ oi = [r \in Routers |-> [state |-> "Down", nbrs |-> nbr_self_reset(r, p(r))]]
  BY Zenon DEF Init
<1>2. \A r \in Routers : p(r) \in Priorities
  BY <1>1, ElectionAssumption, Zenon DEF Attached
<1> HIDE DEF p
<1>3. \A r \in Routers : Good(oi[r], r)
  BY <1>1, <1>2, ResetGood, Zenon
<1>4. \A r \in Routers : oi[r] \in Ifaces
  BY <1>3, Zenon DEF Good, Ready, Proper
<1>5. oi \in [Routers -> Ifaces]
  BY <1>1, <1>4, Zenon
<1>6. net.faults \in Nat /\ net.commands \in Nat
  BY <1>1, ElectionAssumption, Zenon
<1> QED BY <1>1, <1>3, <1>5, <1>6 DEF Inv

(* A step of one router that leaves its table in order and steps back only  *)
(* for a reason.                                                            *)
Keeps(r) ==
    \E q : /\ oi' = [oi EXCEPT ![r] = q]
           /\ Good(q, r)
           /\ oi[r].state # "Down" /\ q.state # "Down" => Yields(oi[r], q, r)

LEMMA UpKeeps ==
    ASSUME NEW r \in Routers, Inv, interface_up(r)
    PROVE  Keeps(r)
<1> DEFINE o  == oi[r]
           st == IF o.nbrs[r].priority = 0 THEN "DROther" ELSE "Waiting"
           q  == [o EXCEPT !.state = st]
<1>1. Good(o, r) /\ Ready(o, r) /\ o \in Ifaces /\ o.state = "Down"
  BY Zenon DEF Inv, interface_up, Good, Ready, Proper
<1>2. oi' = [oi EXCEPT ![r] = q]
  BY <1>1, Zenon DEF interface_up, Inv
<1> HIDE DEF o
<1>3. st \in {"Waiting", "DROther"} /\ st # "Down"
  BY Zenon
<1> HIDE DEF st
<1>4. q \in Ifaces /\ q.nbrs = o.nbrs /\ q.state = st
  BY <1>1, <1>3, Zenon DEF Ifaces, Elected
<1> HIDE DEF q
<1>5. DR(q, r) = None /\ BDR(q, r) = None
  BY <1>1, <1>4, Zenon DEF Ready, Consistent, Elected, DR, BDR
<1>6. Proper(q, r)
  BY <1>1, <1>3, <1>4, Zenon DEF Ready, Proper
<1>7. Consistent(q, r)
  BY <1>3, <1>4, <1>5, Constants, Zenon DEF Consistent, Elected, ospf_ism_state
<1>8. Follows(q, r)
  BY <1>1, <1>4, Zenon DEF Ready, Follows, nsm_should_adj, DR, BDR
<1>9. q.state \in Elected => Final(q, r)
  <2> SUFFICES ASSUME q.state \in Elected PROVE Final(q, r)
    BY Zenon
  <2>1. o.nbrs[r].priority = 0
    BY <1>4, Zenon DEF Elected, st
  <2>2. ospf_dr_eligible_routers(q) = {}
    BY <1>1, <1>4, <2>1 DEF ospf_dr_eligible_routers, Ready, Proper, TwoWayUp
  <2> QED BY <1>5, <2>2, Zenon DEF Final, Outcome, Best, NoDr, DeclareBdr, DeclareDr
<1> QED BY <1>1, <1>2, <1>6, <1>7, <1>8, <1>9, Zenon DEF Keeps, Good, Ready, o

LEMMA DownKeeps ==
    ASSUME NEW r \in Routers, Inv, interface_down(r)
    PROVE  Keeps(r)
<1> DEFINE q == [state |-> "Down", nbrs |-> nbr_self_reset(r, oi[r].nbrs[r].priority)]
<1>1. oi' = [oi EXCEPT ![r] = q] /\ q.state = "Down"
  BY Zenon DEF interface_down
<1>2. oi[r].nbrs[r].priority \in Priorities
  BY ReadyItself, Zenon DEF Inv, Good, Proper
<1>3. Good(q, r)
  BY <1>2, ResetGood, Zenon
<1> HIDE DEF q
<1> QED BY <1>1, <1>3, Zenon DEF Keeps

LEMMA WaitKeeps ==
    ASSUME NEW r \in Routers, Inv, wait_timer(r)
    PROVE  Keeps(r)
<1> DEFINE q == ospf_dr_election(oi[r], r)
<1>1. oi' = [oi EXCEPT ![r] = q] /\ oi[r].state # "Down"
  BY Zenon DEF wait_timer
<1>2. Ready(oi[r], r)
  BY Zenon DEF Inv, Good
<1>3. Good(q, r) /\ Evolves(oi[r], q, r)
  BY <1>1, <1>2, DrElectionGood, Zenon
<1>4. Yields(oi[r], q, r)
  BY <1>3, EvolvesYields, Zenon
<1> HIDE DEF q
<1> QED BY <1>1, <1>3, <1>4, Zenon DEF Keeps

LEMMA HelloTyped ==
    ASSUME NEW s \in Routers, Inv
    PROVE  ospf_make_hello(oi[s], s) \in Hellos
<1>1. Proper(oi[s], s)
  BY Zenon DEF Inv, Good, Ready
<1>2. DR(oi[s], s) \in Address /\ BDR(oi[s], s) \in Address
  BY <1>1, Zenon DEF Proper, Ifaces, Tables, Entries, DR, BDR
<1>3. oi[s].nbrs[s].priority \in Priorities
  BY <1>1, Zenon DEF Proper
<1> QED BY <1>2, <1>3, Zenon DEF ospf_make_hello, Hellos, Address

LEMMA HelloKeeps ==
    ASSUME NEW r \in Routers, NEW s \in Routers, Inv, hello(s, r)
    PROVE  Keeps(r)
<1> DEFINE h == ospf_make_hello(oi[s], s)
           q == ospf_hello(oi[r], r, s, h)
<1>1. oi' = [oi EXCEPT ![r] = q] /\ oi[r].state # "Down" /\ s # r
  BY Zenon DEF hello
<1>2. Good(oi[r], r) /\ h \in Hellos
  BY HelloTyped, Zenon DEF Inv
<1> HIDE DEF h
<1>3. Good(q, r) /\ Yields(oi[r], q, r)
  BY <1>1, <1>2, HelloGood, Zenon
<1> HIDE DEF q
<1> QED BY <1>1, <1>3, ZenonT(30) DEF Keeps

LEMMA InactivityKeeps ==
    ASSUME NEW r \in Routers, NEW s \in Routers, Inv, inactivity_timer(r, s)
    PROVE  Keeps(r)
<1> DEFINE q == ForgetNbr(oi[r], r, s)
<1>1. oi' = [oi EXCEPT ![r] = q] /\ s # r
  BY Zenon DEF inactivity_timer
<1>2. Good(q, r) /\ Yields(oi[r], q, r)
  BY <1>1, ForgetGood, Zenon DEF Inv
<1> HIDE DEF q
<1> QED BY <1>1, <1>2, Zenon DEF Keeps

LEMMA PriorityKeeps ==
    ASSUME NEW r \in Routers, NEW p \in Priorities, Inv, ip_ospf_priority(r, p)
    PROVE  Keeps(r)
<1> DEFINE o == oi[r]
           n == [o EXCEPT !.nbrs[r].priority = p]
           q == NeighborChange(n, r)
<1>1. oi' = [oi EXCEPT ![r] = q]
  BY Zenon DEF ip_ospf_priority
<1>2. Ready(o, r) /\ o \in Ifaces
  BY Zenon DEF Inv, Good, Ready, Proper
<1> HIDE DEF o
<1>3. /\ n \in Ifaces /\ n.state = o.state
      /\ \A s \in Routers \ {r} : n.nbrs[s] = o.nbrs[s]
      /\ n.nbrs[r].state = o.nbrs[r].state /\ n.nbrs[r].priority = p
      /\ DR(n, r) = DR(o, r) /\ BDR(n, r) = BDR(o, r)
  BY <1>2, ZenonT(30) DEF Ifaces, Tables, Entries, DR, BDR
<1> HIDE DEF n
<1>4. Proper(n, r)
  BY <1>2, <1>3, Zenon DEF Ready, Proper
<1>5. Consistent(n, r)
  BY <1>2, <1>3, Zenon DEF Ready, Consistent, ospf_ism_state
<1>6. Follows(n, r)
  BY <1>2, <1>3 DEF Ready, Follows, nsm_should_adj
<1>7. Good(q, r) /\ Evolves(n, q, r)
  BY <1>4, <1>5, <1>6, NeighborChangeGood, Zenon DEF Ready
<1>8. Yields(o, q, r)
  BY <1>3, <1>7, EvolvesYields, Zenon
<1> HIDE DEF q
<1> QED BY <1>1, <1>7, <1>8, Zenon DEF Keeps, o

LEMMA OneStep ==
    ASSUME Inv, Next
    PROVE  /\ \E r \in Routers : Keeps(r)
           /\ net' = net /\ faults' \in 0 .. net.faults /\ commands' \in 0 .. net.commands
<1>1. /\ net \in Configured /\ faults \in 0 .. net.faults /\ commands \in 0 .. net.commands
      /\ net.faults \in Nat /\ net.commands \in Nat
  BY ElectionAssumption, Zenon DEF Inv
<1>2. PICK r \in Routers :
         \/ interface_up(r)
         \/ interface_down(r)
         \/ wait_timer(r)
         \/ \E s \in Routers : hello(s, r)
         \/ \E s \in Routers : inactivity_timer(r, s)
         \/ \E p \in Priorities : ip_ospf_priority(r, p)
  BY Zenon DEF Next
<1>3. CASE interface_up(r)
  BY <1>1, <1>3, UpKeeps, ZenonT(30) DEF interface_up
<1>4. CASE interface_down(r)
  <2>1. net' = net /\ faults' = faults + 1 /\ commands' = commands /\ faults < net.faults
    BY <1>4, Zenon DEF interface_down, MayFail
  <2> QED BY <1>1, <1>4, <2>1, DownKeeps
<1>5. CASE wait_timer(r)
  BY <1>1, <1>5, WaitKeeps, Zenon DEF wait_timer
<1>6. CASE \E s \in Routers : hello(s, r)
  BY <1>1, <1>6, HelloKeeps, Zenon DEF hello
<1>7. CASE \E s \in Routers : inactivity_timer(r, s)
  <2>1. PICK s \in Routers : inactivity_timer(r, s)
    BY <1>7, Zenon
  <2>2. /\ net' = net /\ commands' = commands
        /\ faults' = faults \/ (faults' = faults + 1 /\ faults < net.faults)
    BY <2>1, Zenon DEF inactivity_timer, MayFail
  <2>3. Keeps(r)
    BY <2>1, InactivityKeeps, Zenon
  <2> QED BY <1>1, <2>2, <2>3
<1>8. CASE \E p \in Priorities : ip_ospf_priority(r, p)
  <2>1. PICK p \in Priorities : ip_ospf_priority(r, p)
    BY <1>8, Zenon
  <2>2. /\ net' = net /\ faults' = faults
        /\ commands' = commands + 1 /\ commands < net.commands
    BY <2>1, Zenon DEF ip_ospf_priority
  <2>3. Keeps(r)
    BY <2>1, PriorityKeeps, Zenon
  <2> QED BY <1>1, <2>2, <2>3
<1> QED BY <1>2, <1>3, <1>4, <1>5, <1>6, <1>7, <1>8, Zenon

LEMMA NextInv == Inv /\ [Next]_vars => Inv'
<1> SUFFICES ASSUME Inv, [Next]_vars PROVE Inv'
  BY Zenon
<1>1. CASE Next
  <2>1. /\ net' = net /\ faults' \in 0 .. net.faults /\ commands' \in 0 .. net.commands
    BY <1>1, OneStep, Zenon
  <2>2. PICK r \in Routers : Keeps(r)
    BY <1>1, OneStep, Zenon
  <2>3. PICK q : oi' = [oi EXCEPT ![r] = q] /\ Good(q, r)
    BY <2>2, ZenonT(30) DEF Keeps
  <2>4. q \in Ifaces
    BY <2>3, Zenon DEF Good, Ready, Proper
  <2>5. oi' \in [Routers -> Ifaces] /\ oi'[r] = q /\ \A s \in Routers \ {r} : oi'[s] = oi[s]
    BY <2>3, <2>4, Zenon DEF Inv
  <2>6. \A s \in Routers : Good(oi'[s], s)
    BY <2>3, <2>5, Zenon DEF Inv
  <2> QED BY <2>1, <2>5, <2>6, Zenon DEF Inv
<1>2. CASE UNCHANGED vars
  BY <1>2, Zenon DEF Inv, vars
<1> QED BY <1>1, <1>2, Zenon

LEMMA InvHolds == Spec => []Inv
BY InitInv, NextInv, PTL DEF Spec

(* For every network, the interfaces and tables stay in their types: every  *)
(* election finds somebody to elect or elects nobody, and the own entry     *)
(* stays 2-Way through every event.                                         *)
THEOREM ElectionTypes == Spec => []TypeOK
<1>1. Inv => TypeOK
  <2> SUFFICES ASSUME Inv PROVE TypeOK
    BY Zenon
  <2>1. \A r \in Routers : Proper(oi[r], r)
    BY Zenon DEF Inv, Good, Ready
  <2> QED BY <2>1 DEF Inv, TypeOK, Proper, Ifaces, Tables, Entries, NbrState, Address
<1> QED BY <1>1, InvHolds, PTL

(* For every network, and whatever order hellos, timers, failures and       *)
(* commands come in, a 2-way neighbour is adjacent exactly when the router  *)
(* or the neighbour is DR or BDR.                                           *)
THEOREM AdjacenciesFollow == Spec => []AdjacencyFollowsElection
<1>1. Inv => AdjacencyFollowsElection
  BY Zenon DEF Inv, Good, Ready, Follows, AdjacencyFollowsElection
<1> QED BY <1>1, InvHolds, PTL

(* For every network a DR steps back only for a neighbour that declares     *)
(* itself DR and outranks it, or when its own priority is 0.                *)
THEOREM DrYieldsToDeclared == Spec => YieldsToDeclared
<1> DEFINE Reason(r) ==
        \/ oi'[r].nbrs[r].priority = 0
        \/ \E s \in Routers \ {r} :
              /\ oi'[r].nbrs[s].d_router = s
              /\ \/ oi'[r].nbrs[s].priority > oi'[r].nbrs[r].priority
                 \/ oi'[r].nbrs[s].priority = oi'[r].nbrs[r].priority /\ s > r
           Yielding == \A r \in Routers :
               oi[r].state = "DR" /\ oi'[r].state \in {"Backup", "DROther"} => Reason(r)
<1>1. Inv /\ [Next]_vars => [Yielding]_vars
  <2> SUFFICES ASSUME Inv, Next, NEW r \in Routers,
                      oi[r].state = "DR", oi'[r].state \in {"Backup", "DROther"}
               PROVE  Reason(r)
    BY Zenon DEF vars
  <2>1. PICK x \in Routers : Keeps(x)
    BY OneStep, Zenon
  <2>2. PICK q : /\ oi' = [oi EXCEPT ![x] = q] /\ Good(q, x)
                 /\ oi[x].state # "Down" /\ q.state # "Down" => Yields(oi[x], q, x)
    BY <2>1, ZenonT(30) DEF Keeps
  <2>3. x = r /\ oi'[r] = q
    BY <2>2, Zenon DEF Inv
  <2>4. Good(q, r) /\ Yields(oi[r], q, r)
    BY <2>2, <2>3, Zenon
  <2>5. DR(oi[r], r) = r
    BY Zenon DEF Inv, Good, Ready, Consistent, Elected, ospf_ism_state
  <2>6. DR(q, r) # r
    BY <2>3, <2>4, Zenon DEF Good, Ready, Consistent, Elected, ospf_ism_state
  <2>7. Beaten(q, r)
    BY <2>4, <2>5, <2>6, Zenon DEF Yields
  <2>8. \A s \in Routers : s \in Nat /\ q.nbrs[s].priority \in Int
    BY <2>4, Constants, Zenon DEF Good, Ready, Proper, Ifaces, Tables, Entries
  <2> QED BY <2>3, <2>7, <2>8 DEF Beaten, NotBelow
<1> QED BY <1>1, InvHolds, PTL DEF Spec, YieldsToDeclared

-----------------------------------------------------------------------------
(* A router hides its BDR when a neighbour declares it both DR and BDR. *)
Hides(s) ==
    \E t \in Routers \ {s} : /\ oi[s].nbrs[t].state # "Down"
                             /\ oi[s].nbrs[t].d_router = s /\ oi[s].nbrs[t].bd_router = s

(* Once settled, the tables hold what the others declare, but a hidden BDR. *)
LEMMA SettledTables ==
    ASSUME Inv, Settled, NEW r \in Running
    PROVE  /\ r \in Routers /\ oi[r] \in Ifaces /\ Final(oi[r], r)
           /\ ospf_dr_eligible_routers(oi[r]) = Candidates
           /\ \A s \in Routers \ {r} : oi[r].nbrs[s].state # "Down" => s \in Running
           /\ \A s \in Running :
                 /\ oi[r].nbrs[s].priority = oi[s].nbrs[s].priority
                 /\ oi[r].nbrs[s].d_router = DR(oi[s], s)
                 /\ \/ oi[r].nbrs[s].bd_router = BDR(oi[s], s)
                    \/ oi[r].nbrs[s].bd_router = None /\ Hides(s)
<1>1. /\ r \in Routers /\ Good(oi[r], r) /\ oi[r] \in Ifaces
      /\ oi[r].state # "Down" /\ oi[r].state # "Waiting"
  BY Zenon DEF Inv, Running, Settled
<1>2. Final(oi[r], r)
  BY <1>1, Zenon DEF Good, Ifaces
<1>3. \A s \in Routers \ {r} : s \notin Running => oi[r].nbrs[s].state = "Down"
  BY Zenon DEF Settled
<1>4. ASSUME NEW s \in Running, s # r
      PROVE  /\ oi[r].nbrs[s].state \in TwoWayUp
             /\ Heard(oi[r], s, ospf_make_hello(oi[s], s))
  <2>1. s \in Routers \ {r}
    BY <1>4, Zenon DEF Running
  <2>2. /\ ospf_hello(oi[r], r, s, ospf_make_hello(oi[s], s)) = oi[r]
        /\ oi[r].nbrs[s].state \in TwoWayUp
    BY <2>1, Zenon DEF Settled
  <2>3. ospf_make_hello(oi[s], s) \in Hellos
    BY <2>1, HelloTyped, Zenon
  <2>4. Heard(ospf_hello(oi[r], r, s, ospf_make_hello(oi[s], s)), s,
              ospf_make_hello(oi[s], s))
    BY <1>1, <2>1, <2>3, HelloGood, Zenon
  <2> QED BY <2>2, <2>4, Zenon
<1>5. ASSUME NEW s \in Running
      PROVE  /\ oi[r].nbrs[s].priority = oi[s].nbrs[s].priority
             /\ oi[r].nbrs[s].d_router = DR(oi[s], s)
             /\ \/ oi[r].nbrs[s].bd_router = BDR(oi[s], s)
                \/ oi[r].nbrs[s].bd_router = None /\ Hides(s)
  <2>1. CASE s = r
    BY <2>1, Zenon DEF DR, BDR
  <2>2. CASE s # r
    BY <1>4, <2>2, Zenon DEF Heard, ospf_make_hello, Hides
  <2> QED BY <2>1, <2>2, Zenon
<1>6. ospf_dr_eligible_routers(oi[r]) = Candidates
  <2>1. \A s \in Running : oi[r].nbrs[s].state \in TwoWayUp
    BY <1>1, <1>4, Zenon DEF Good, Ready, Proper, TwoWayUp
  <2>2. \A s \in Routers : oi[r].nbrs[s].state \in TwoWayUp => s \in Running
    BY <1>3, Zenon DEF TwoWayUp
  <2>3. Running \in SUBSET Routers
    BY Zenon DEF Running
  <2> QED BY <1>5, <2>1, <2>2, <2>3, Zenon DEF ospf_dr_eligible_routers, Candidates
<1> QED BY <1>1, <1>2, <1>3, <1>5, <1>6, Zenon

(* All routers find the same best one in the same set of candidates. *)
LEMMA SameBest ==
    ASSUME Inv, Settled, NEW r \in Running, NEW s \in Running,
           NEW S \in SUBSET Candidates, NEW x, NEW y,
           Best(oi[r].nbrs, S, x), Best(oi[s].nbrs, S, y)
    PROVE  x = y
<1>1. oi[r].nbrs \in Tables /\ oi[s].nbrs \in Tables
  BY SettledTables, Zenon DEF Ifaces
<1>2. S \in SUBSET Routers /\ S \in SUBSET Running
  BY Zenon DEF Candidates, Running
<1>3. \A z \in S : oi[r].nbrs[z].priority = oi[s].nbrs[z].priority
  BY <1>2, SettledTables
<1> QED BY <1>1, <1>2, <1>3, BestUnique, Zenon

(* Those that are DR in their own eyes. *)
SelfDr == {s \in Candidates : DR(oi[s], s) = s}

LEMMA AllDeclareSelfDr ==
    ASSUME Inv, Settled, NEW r \in Running
    PROVE  DeclareDr(oi[r]) = SelfDr /\ NoDr(oi[r]) = Candidates \ SelfDr
<1>1. ospf_dr_eligible_routers(oi[r]) = Candidates
  BY SettledTables, Zenon
<1>2. \A s \in Candidates : oi[r].nbrs[s].d_router = DR(oi[s], s)
  BY SettledTables, Zenon DEF Candidates
<1> QED BY <1>1, <1>2, Zenon DEF DeclareDr, NoDr, SelfDr

(* If there are candidates one of them is DR: were there none, the best     *)
(* candidate would have given way to one that is BDR in its own eyes, and   *)
(* with nobody DR that one is DR as well.                                   *)
LEMMA SomebodyIsDr ==
    ASSUME Inv, Settled, Candidates # {}
    PROVE  SelfDr # {}
<1> SUFFICES ASSUME SelfDr = {} PROVE FALSE
  BY Zenon
<1>1. Candidates \in SUBSET Running /\ Candidates \in SUBSET Routers
  BY Zenon DEF Candidates, Running
<1>2. PICK c \in Candidates : TRUE
  BY Zenon
<1>3. oi[c].nbrs \in Tables
  BY <1>1, SettledTables, Zenon DEF Ifaces
<1>4. PICK a \in Candidates : \A t \in Candidates : NotBelow(oi[c].nbrs, a, t)
  BY <1>1, <1>3, BestExists, Zenon
<1>5. Best(oi[c].nbrs, Candidates, a)
  BY <1>4, Zenon DEF Best
<1>6. \A r \in Running : DR(oi[r], r) = BDR(oi[r], r)
  BY AllDeclareSelfDr, SettledTables, Zenon DEF Final, Outcome
<1> DEFINE b == BDR(oi[a], a)
<1>7. b # a
  BY <1>1, <1>6, Zenon DEF SelfDr
<1>8. b \in DeclareBdr(oi[a])
  <2>1. Outcome(oi[a], DR(oi[a], a), b)
    BY <1>1, SettledTables, Zenon DEF Final
  <2>2. CASE DeclareBdr(oi[a]) # {}
    BY <2>1, <2>2, Zenon DEF Outcome, Best
  <2>3. CASE DeclareBdr(oi[a]) = {}
    <3>1. Best(oi[a].nbrs, Candidates, b)
      BY <1>1, <2>1, <2>3, AllDeclareSelfDr, Zenon DEF Outcome
    <3> QED BY <1>1, <1>5, <1>7, <3>1, SameBest, Zenon
  <2> QED BY <2>2, <2>3, Zenon
<1>9. b \in Candidates /\ oi[a].nbrs[b].bd_router = b
  BY <1>1, <1>8, AllDeclareSelfDr, Zenon DEF DeclareBdr
<1>10. BDR(oi[b], b) = b
  BY <1>1, <1>9, SettledTables, Constants
<1> QED BY <1>1, <1>6, <1>9, <1>10, Zenon DEF SelfDr

LEMMA SettledAgree ==
    ASSUME Inv, Settled
    PROVE  Agreement
<1>1. Candidates \in SUBSET Running /\ Candidates \in SUBSET Routers
  BY Zenon DEF Candidates, Running
<1>2. None \notin Routers
  BY Constants, Zenon
<1>3. CASE Candidates = {}
  <2>1. \A r \in Running : DR(oi[r], r) = None /\ BDR(oi[r], r) = None
    BY <1>3, SettledTables, OutcomeEligible DEF Final
  <2> QED BY <1>3, <2>1, Zenon DEF Agreement
<1>4. CASE Candidates # {}
  <2>1. PICK d \in SelfDr : TRUE
    BY <1>4, SomebodyIsDr, Zenon
  <2>2. d \in Candidates /\ d \in Running /\ d \in Routers /\ DR(oi[d], d) = d
    BY <1>1, <2>1, Zenon DEF SelfDr
  <2>3. \A r \in Running : DR(oi[r], r) = d
    <3> TAKE r \in Running
    <3>1. SelfDr # {} /\ SelfDr \in SUBSET Candidates
      BY <2>1, Zenon DEF SelfDr
    <3>2. \A x \in Running : Best(oi[x].nbrs, SelfDr, DR(oi[x], x))
      <4> TAKE x \in Running
      <4>1. Outcome(oi[x], DR(oi[x], x), BDR(oi[x], x))
        BY SettledTables, Zenon DEF Final
      <4>2. DeclareDr(oi[x]) = SelfDr
        BY AllDeclareSelfDr, Zenon
      <4> QED BY <3>1, <4>1, <4>2, Zenon DEF Outcome
    <3> QED BY <2>2, <3>1, <3>2, SameBest, Zenon
  <2>4. SelfDr = {d}
    BY <1>1, <2>1, <2>3, Zenon DEF SelfDr
  <2>5. \A s \in Running \ {d} : ~Hides(s)
    <3> SUFFICES ASSUME NEW s \in Running \ {d}, Hides(s) PROVE FALSE
      BY Zenon
    <3>1. PICK t \in Routers \ {s} : oi[s].nbrs[t].state # "Down" /\ oi[s].nbrs[t].d_router = s
      BY Zenon DEF Hides
    <3>2. t \in Running
      BY <3>1, SettledTables, Zenon
    <3>3. oi[s].nbrs[t].d_router = DR(oi[t], t)
      BY <3>2, SettledTables, Zenon
    <3> QED BY <2>3, <3>1, <3>2, <3>3, Zenon
  <2> DEFINE others == Candidates \ {d}
             decl   == {s \in others : BDR(oi[s], s) = s}
             b      == BDR(oi[d], d)
  <2>6. \A r \in Running : NoDr(oi[r]) = others /\ DeclareBdr(oi[r]) = decl
    <3> TAKE r \in Running
    <3>1. NoDr(oi[r]) = others
      BY <2>4, AllDeclareSelfDr, Zenon
    <3>2. \A s \in others : oi[r].nbrs[s].bd_router = BDR(oi[s], s)
      BY <1>1, <2>5, SettledTables, Zenon
    <3> QED BY <3>1, <3>2, Zenon DEF DeclareBdr
  <2> HIDE DEF decl, others
  <2>7. \A r \in Running : Best(oi[r].nbrs, IF decl # {} THEN decl ELSE others, BDR(oi[r], r))
    <3> TAKE r \in Running
    <3>1. Outcome(oi[r], DR(oi[r], r), BDR(oi[r], r))
      BY SettledTables, Zenon DEF Final
    <3>2. NoDr(oi[r]) = others /\ DeclareBdr(oi[r]) = decl
      BY <2>6, Zenon
    <3> QED BY <3>1, <3>2, Zenon DEF Outcome
  <2>8. \A r \in Running : BDR(oi[r], r) = b
    <3>1. (IF decl # {} THEN decl ELSE others) \in SUBSET Candidates
      BY Zenon DEF decl, others
    <3> QED BY <2>2, <2>7, <3>1, SameBest, Zenon
  <2>9. b \in others \cup {None} /\ (b = None => others = {})
    <3>1. others \in SUBSET Routers
      BY <1>1, Zenon DEF others
    <3> QED BY <1>2, <2>2, <2>7, <3>1, ZenonT(30) DEF Best, decl
  <2>10. Candidates \ {d} # {} => b # None
    BY <2>9, Zenon DEF others
  <2>11. b # d /\ b \in Candidates \cup {None}
    BY <1>2, <2>2, <2>9, Zenon DEF others
  <2> HIDE DEF b
  <2>12. d # None
    BY <1>2, <2>2, Zenon
  <2> QED BY <2>2, <2>3, <2>8, <2>10, <2>11, <2>12, Zenon DEF Agreement
<1> QED BY <1>3, <1>4, Zenon

(* For any number of routers and any priorities: when hellos, timers and    *)
(* events would change nothing any more, all running routers have the same  *)
(* DR and the same BDR, two different candidates if there are two.          *)
THEOREM SettledMeansAgreed == Spec => []SettledRoutersAgree
<1>1. Inv => SettledRoutersAgree
  BY SettledAgree, Zenon DEF SettledRoutersAgree
<1> QED BY <1>1, InvHolds, PTL

-----------------------------------------------------------------------------
(* Nothing is left to elect between two steps. *)
NoElectionDue == \A r \in Routers : NeighborChange(oi[r], r) = oi[r]

LEMMA SameTable ==
    ASSUME NEW o \in Ifaces, NEW q, NEW r \in Routers, Voted(o, q, r), q.state = o.state,
           DR(q, r) = DR(o, r), BDR(q, r) = BDR(o, r)
    PROVE  q = o
<1>1. q \in Ifaces /\ q.nbrs \in Tables /\ o.nbrs \in Tables
  BY Zenon DEF Voted, Ifaces
<1>2. q.nbrs[r] \in Entries /\ o.nbrs[r] \in Entries
  BY <1>1, Zenon DEF Tables
<1>3. q.nbrs[r] = o.nbrs[r]
  BY <1>2 DEF Voted, DR, BDR, Entries
<1>4. \A s \in Routers : q.nbrs[s] = o.nbrs[s]
  BY <1>3, Zenon DEF Voted
<1>5. q.nbrs = o.nbrs
  BY <1>1, <1>4 DEF Tables
<1> QED BY <1>1, <1>5 DEF Ifaces

(* For every network, every handler leaves an election that another         *)
(* NeighborChange would not change: the second round the election runs when *)
(* the own role changes is always enough, and AdjOK? was raised for all it  *)
(* concerns.                                                                *)
THEOREM ElectionsAreFinal == Spec => []NoElectionDue
<1>1. ASSUME NEW o, NEW r \in Routers, Good(o, r), o.state \in Elected
      PROVE  ospf_dr_election(o, r) = o
  <2> DEFINE first == ElectBoth(o, r)
             e     == Election(o, r)
  <2>1. o \in Ifaces /\ Final(o, r) /\ o.state = ospf_ism_state(o, r)
    BY <1>1, Zenon DEF Good, Ready, Proper, Consistent
  <2>2. Voted(o, e, r) /\ Final(e, r) /\ e.state = ospf_ism_state(e, r)
    BY <1>1, ElectionFinal, Zenon DEF Good, Ready
  <2>3. Voted(o, first, r) /\ first.state = o.state
        /\ Outcome(o, DR(first, r), BDR(first, r))
    BY <2>1, ElectBothOutcome, Zenon
  <2>4. first = o
    <3> HIDE DEF first
    <3>1. DR(first, r) = DR(o, r) /\ BDR(first, r) = BDR(o, r)
      BY <2>1, <2>3, OutcomeUnique, Zenon DEF Final
    <3> QED BY <2>1, <2>3, <3>1, SameTable, Zenon
  <2>5. e = TakeRole(o, r)
    <3> DEFINE T(y) == TakeRole(y, r)
               F(y) == LET role == ospf_ism_state(y, r)
                       IN  IF role # o.state /\ ~(role = "DROther" /\ o.state \notin Elected)
                           THEN With(ElectBoth(y, r), T) ELSE TakeRole(y, r)
    <3>1. e = With(first, F)
      BY Zenon DEF Election
    <3> HIDE DEF F, first
    <3>2. With(first, F) = F(first)
      BY Zenon DEF With
    <3>3. F(o) = TakeRole(o, r)
      BY <2>1, Zenon DEF F
    <3> QED BY <2>4, <3>1, <3>2, <3>3, Zenon
  <2>6. e = o
    BY <2>1, <2>5, Zenon DEF TakeRole, Ifaces
  <2> DEFINE G(y) == IF DR(y, r) # DR(o, r) \/ BDR(y, r) # BDR(o, r) THEN AdjOK(y, r) ELSE y
  <2>7. ospf_dr_election(o, r) = With(e, G)
    BY Zenon DEF ospf_dr_election
  <2> HIDE DEF e, G
  <2>8. With(e, G) = G(e)
    BY DEF With
  <2>9. G(o) = o
    BY Zenon DEF G
  <2> QED BY <2>6, <2>7, <2>8, <2>9, Zenon
<1>2. Inv => NoElectionDue
  BY <1>1, Zenon DEF Inv, NoElectionDue, NeighborChange
<1> QED BY <1>2, InvHolds, PTL
=============================================================================
