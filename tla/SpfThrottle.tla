----------------------------- MODULE SpfThrottle -----------------------------
(***************************************************************************)
(* When ospfd runs its shortest path calculation (ospf_spf.c).  An event   *)
(* that needs one calls ospf_spf_calculate_schedule, which arms a timer    *)
(* unless it is armed; the delay adapts to how close events follow each    *)
(* other.  The timer's handler calculates one area after the other, the    *)
(* backbone last, and then the inter-area routes.  Events also come from   *)
(* inside the handler: a virtual link that changes cost while an area is   *)
(* calculated (ospf_interface.c:1124), a change of the ABR status after.   *)
(*                                                                         *)
(* Time is counted in milliseconds from zero up to Horizon; a timer may    *)
(* run late.  spf_reason_flags only reach the log and are left out.        *)
(***************************************************************************)
EXTENDS Integers

CONSTANTS
    Throttles,      \* settings of "timers throttle spf": [delay, hold, max]
    Outcomes,       \* what the calculation of one area may do
    NAreas,         \* areas of the router
    UintMod,        \* 2^32, the width of unsigned int
    Horizon,        \* bound: a time of Horizon or more is Horizon
    MaxChanges      \* bound on the commands given while ospfd runs

ASSUME ThrottleAssumption ==
    /\ Throttles \subseteq [delay : Nat, hold : Nat, max : Nat]
    /\ Outcomes \subseteq {"native", "replaced", "skipped"}
    /\ NAreas \in Nat
    /\ UintMod \in Nat \ {0}
    /\ Horizon \in Nat
    /\ \A c \in Throttles : c.max <= Horizon /\ c.delay <= Horizon
    /\ MaxChanges \in Nat

NoTimer == -1
NotRunning == -1

VARIABLES
    throttle,               \* spf_delay, spf_holdtime, spf_max_holdtime
    spf_hold_multiplier,
    t_spf_calc,             \* milliseconds until the timer expires, or NoTimer
    elapsed,                \* milliseconds since ts_spf
    areas,                  \* areas the running handler has to calculate, or NotRunning
    pending,                \* history: an event came since the last start of the handler
    armed,                  \* history: what the documentation asks of the armed timer
    streak,                 \* history: the documented multiple of the hold time
    changes                 \* commands so far

vars == <<throttle, spf_hold_multiplier, t_spf_calc, elapsed, areas, pending, armed, streak,
          changes>>

-----------------------------------------------------------------------------
MinOf(a, b) == IF a < b THEN a ELSE b

(* ht: the product is computed in unsigned int. *)
HoldTime == MinOf((throttle.hold * spf_hold_multiplier) % UintMod, throttle.max)

(* The hold time of doc/user/ospfd.rst:196-203: a multiple of the initial   *)
(* hold time.  After a command nothing but the initial one is promised.     *)
DocumentedHold ==
    MinOf((IF changes = 0 THEN streak ELSE 1) * throttle.hold, throttle.max)

Init ==
    /\ throttle \in Throttles
    /\ spf_hold_multiplier = 1
    /\ t_spf_calc = NoTimer
    /\ elapsed = Horizon
    /\ areas = NotRunning
    /\ pending = FALSE
    /\ armed = [hold |-> 0, delay |-> 0, age |-> 0, early |-> FALSE]
    /\ streak = 1
    /\ changes = 0

(* Seeded fault: the remaining hold time without the initial delay. *)
ScheduleDelay_rest ==
    IF elapsed < HoldTime THEN HoldTime - elapsed ELSE throttle.delay

(* The delay the schedule computes for the timer it arms. *)
ScheduleDelay ==
    IF elapsed < HoldTime /\ HoldTime - elapsed >= throttle.delay
    THEN HoldTime - elapsed
    ELSE throttle.delay

(* Seeded fault: the multiplier is not reset. *)
NextMultiplier_kept ==
    IF elapsed < HoldTime /\ HoldTime < throttle.max
    THEN spf_hold_multiplier + 1 ELSE spf_hold_multiplier

(* And the multiplier it leaves. *)
NextMultiplier ==
    IF elapsed < HoldTime
    THEN IF HoldTime < throttle.max THEN spf_hold_multiplier + 1 ELSE spf_hold_multiplier
    ELSE 1

(* An event needs a calculation. *)
ospf_spf_calculate_schedule ==
    /\ pending' = TRUE
    /\ IF t_spf_calc # NoTimer
       THEN UNCHANGED <<t_spf_calc, spf_hold_multiplier, armed, streak>>
       ELSE /\ t_spf_calc' = ScheduleDelay
            /\ spf_hold_multiplier' = NextMultiplier
            /\ armed' = [hold |-> DocumentedHold, delay |-> throttle.delay, age |-> 0,
                         early |-> FALSE]
            /\ streak' = IF elapsed < DocumentedHold
                         THEN MinOf(streak + 1, throttle.max + 1) ELSE 1
    /\ UNCHANGED <<throttle, elapsed, areas, changes>>

(* One millisecond, also while the handler runs. *)
Later(t) == MinOf(t + 1, Horizon)
tick ==
    /\ elapsed' = Later(elapsed)
    /\ armed' = [armed EXCEPT !.age = Later(@)]
    /\ t_spf_calc' = IF t_spf_calc > 0 THEN t_spf_calc - 1 ELSE t_spf_calc
    /\ UNCHANGED <<throttle, spf_hold_multiplier, areas, pending, streak, changes>>

(* ospf_spf_calculate_timer, up to the loop over the areas. *)
timer_start ==
    /\ t_spf_calc = 0
    /\ areas = NotRunning
    /\ t_spf_calc' = NoTimer
    /\ areas' = NAreas
    /\ pending' = FALSE
    /\ UNCHANGED <<throttle, spf_hold_multiplier, elapsed, armed, streak, changes>>

(* One area: the native calculation takes the time, a REP pluglet in its    *)
(* place does not, and without a router-LSA of its own there is nothing.    *)
ospf_spf_calculate(outcome) ==
    /\ areas > 0
    /\ areas' = areas - 1
    /\ elapsed' = IF outcome = "native" THEN 0 ELSE elapsed
    /\ armed' = [armed EXCEPT !.early = @ \/ (outcome = "native" /\ t_spf_calc # NoTimer)]
    /\ UNCHANGED <<throttle, spf_hold_multiplier, t_spf_calc, pending, streak, changes>>

(* Seeded fault: the timer is forgotten when the handler returns. *)
timer_end_disarm ==
    /\ areas = 0
    /\ areas' = NotRunning
    /\ t_spf_calc' = NoTimer
    /\ UNCHANGED <<throttle, spf_hold_multiplier, elapsed, pending, armed, streak, changes>>

(* The routes, and the return of the handler. *)
timer_end ==
    /\ areas = 0
    /\ areas' = NotRunning
    /\ UNCHANGED <<throttle, spf_hold_multiplier, t_spf_calc, elapsed, pending, armed, streak,
                   changes>>

(* The command runs between two handlers, not inside one. *)
ospf_timers_spf_set(c) ==
    /\ areas = NotRunning
    /\ changes < MaxChanges
    /\ c # throttle
    /\ throttle' = c
    /\ changes' = changes + 1
    /\ UNCHANGED <<spf_hold_multiplier, t_spf_calc, elapsed, areas, pending, armed, streak>>

Next ==
    \/ ospf_spf_calculate_schedule
    \/ tick
    \/ timer_start
    \/ \E outcome \in Outcomes : ospf_spf_calculate(outcome)
    \/ timer_end
    \/ \E c \in Throttles : ospf_timers_spf_set(c)

Spec == Init /\ [][Next]_vars

(* Time passes, and the thread master runs an expired timer to its end. *)
FairSpec ==
    /\ Spec
    /\ WF_vars(tick)
    /\ WF_vars(timer_start)
    /\ WF_vars(\E outcome \in Outcomes : ospf_spf_calculate(outcome))
    /\ WF_vars(timer_end)

-----------------------------------------------------------------------------
(* The variables have their types, and the timer is never armed for longer  *)
(* than the settings allow.                                                 *)
TypeOK ==
    /\ throttle \in Throttles
    /\ spf_hold_multiplier \in Nat \ {0}
    /\ t_spf_calc \in 0..Horizon \cup {NoTimer}
    /\ elapsed \in 0..Horizon
    /\ areas \in 0..NAreas \cup {NotRunning}
    /\ pending \in BOOLEAN
    /\ armed \in [hold : 0..Horizon, delay : 0..Horizon, age : 0..Horizon, early : BOOLEAN]
    /\ streak \in Nat \ {0}
    /\ changes \in 0..MaxChanges

(* ospf_spf_calculate_schedule returns early when a timer is armed, and the *)
(* handler forgets its timer before it reads the database.  So an event     *)
(* that no calculation has begun after, one that came from inside the       *)
(* handler too, has a timer armed for it.                                   *)
NoEventForgotten == pending => t_spf_calc # NoTimer

(* While the settings stay, the multiplier does not run past what reaches   *)
(* the maximum: the product of ospf_spf.c:1571 stays far below its width.   *)
MultiplierBounded ==
    changes = 0 =>
        throttle.hold * spf_hold_multiplier <= throttle.max + throttle.hold

(* While the settings stay, the capped multiplier gives the documented hold *)
(* time: a multiple of the initial one that grows with every calculation    *)
(* asked for within the hold time, bounded by the maximum, and that falls   *)
(* back when a hold time passes without an event (doc/user/ospfd.rst:196).  *)
HoldAsDocumented == changes = 0 => HoldTime = DocumentedHold

(* The handler starts no sooner than the hold time after the last           *)
(* calculation, and no sooner than the initial delay after the event that   *)
(* armed its timer; settings changed meanwhile count as they were when it   *)
(* was armed.  A timer armed while the handler runs is excepted: ts_spf is  *)
(* then still the end of the calculation before.                            *)
ThrottleHonoured ==
    [][timer_start => /\ ~armed.early => elapsed >= armed.hold
                      /\ armed.age >= armed.delay]_vars

(* Every event is followed by a start of the handler.                       *)
EventsAreServed == pending ~> ~pending
=============================================================================
