----------------------- MODULE TimerAndMessagesProofs -----------------------
(***************************************************************************)
(* Two services that the rest of the daemon is driven by: the timer that   *)
(* starts the SPF calculation, and the messages by which pluglets come in  *)
(* and their data go out.  The two components share nothing.               *)
(***************************************************************************)
EXTENDS SpfThrottle, PluginMessages, TLAPS

-----------------------------------------------------------------------------
(***************************************************************************)
(* What holds of the SPF throttle for every setting, number of areas and   *)
(* width of the integers.                                                  *)
(***************************************************************************)

(* The delay of a timer keeps its promise: what is left of it reaches the   *)
(* hold time and the initial delay.                                         *)
TimerCovers ==
    t_spf_calc # NoTimer =>
        /\ ~armed.early => elapsed + t_spf_calc >= armed.hold
        /\ armed.age + t_spf_calc >= armed.delay

(* The code's multiplier is the documented one, or both reach the maximum.  *)
MultiplierAsDocumented ==
    \/ spf_hold_multiplier = streak
    \/ /\ throttle.hold * spf_hold_multiplier >= throttle.max
       /\ throttle.hold * streak >= throttle.max

(* No command, and products that fit: what the last theorems assume. *)
Steady ==
    /\ MaxChanges = 0
    /\ \A c \in Throttles : c.max + c.hold < UintMod

-----------------------------------------------------------------------------
(* Products of natural numbers are natural numbers, and grow with a factor. *)
LEMMA Products ==
    ASSUME NEW a \in Nat, NEW b \in Nat
    PROVE  /\ a * b \in Nat
           /\ a * (b + 1) = a * b + a
           /\ a > 0 => a * b >= b
  <1>1. a * b \in Nat /\ a * (b + 1) = a * b + a
    BY SMT
  <1>2. ASSUME a > 0 PROVE a * b >= b
    <2>1. PICK d \in Nat : a = d + 1
      <3>1. a - 1 \in Nat /\ a = (a - 1) + 1
        BY <1>2
      <3> QED
        BY <3>1
    <2>2. a * b = d * b + b /\ d * b \in Nat
      BY <2>1
    <2> QED
      BY <2>2
  <1> QED
    BY <1>1, <1>2

(* The settings in force are natural numbers below the horizon. *)
LEMMA Settings ==
    ASSUME throttle \in Throttles
    PROVE  /\ throttle.delay \in 0..Horizon
           /\ throttle.hold \in Nat
           /\ throttle.max \in 0..Horizon
  BY ThrottleAssumption

(* The two hold times lie between zero and the maximum. *)
LEMMA HoldTypes ==
    ASSUME TypeOK
    PROVE  /\ HoldTime \in 0..throttle.max
           /\ DocumentedHold \in 0..throttle.max
  <1>1. throttle.hold * spf_hold_multiplier \in Nat
    BY Settings, Products DEF TypeOK
  <1>2. (throttle.hold * spf_hold_multiplier) % UintMod \in Nat
    BY <1>1, ThrottleAssumption
  <1>3. (IF changes = 0 THEN streak ELSE 1) * throttle.hold \in Nat
    BY Settings, Products DEF TypeOK
  <1>4. HoldTime \in 0..throttle.max
    BY <1>2, Settings DEF HoldTime, MinOf, TypeOK
  <1>5. DocumentedHold \in 0..throttle.max
    BY <1>3, Settings DEF DocumentedHold, MinOf, TypeOK
  <1> QED
    BY <1>4, <1>5

(* Type correctness is inductive. *)
LEMMA TypeStep ==
    ASSUME TypeOK, [Next]_vars
    PROVE  TypeOK'
  <1> USE ThrottleAssumption
  <1>1. CASE ospf_spf_calculate_schedule
    <2>1. CASE t_spf_calc # NoTimer
      BY <1>1, <2>1 DEF ospf_spf_calculate_schedule, TypeOK
    <2>2. CASE t_spf_calc = NoTimer
      <3>1. /\ HoldTime \in 0..throttle.max
            /\ DocumentedHold \in 0..throttle.max
            /\ throttle.delay \in 0..Horizon
            /\ throttle.max \in 0..Horizon
        BY HoldTypes, Settings DEF TypeOK
      <3>2. ScheduleDelay \in 0..Horizon
        BY <3>1 DEF ScheduleDelay, TypeOK
      <3>3. NextMultiplier \in Nat \ {0}
        BY <3>1 DEF NextMultiplier, TypeOK
      <3>4. streak' \in Nat \ {0}
        BY <1>1, <2>2, <3>1 DEF ospf_spf_calculate_schedule, MinOf, TypeOK
      <3>5. armed' \in [hold : 0..Horizon, delay : 0..Horizon, age : 0..Horizon,
                        early : BOOLEAN]
        <4>1. DocumentedHold \in 0..Horizon /\ 0 \in 0..Horizon
          BY <3>1
        <4>2. armed' = [hold |-> DocumentedHold, delay |-> throttle.delay, age |-> 0,
                        early |-> FALSE]
          BY <1>1, <2>2 DEF ospf_spf_calculate_schedule
        <4> HIDE DEF DocumentedHold
        <4> QED
          BY <3>1, <4>1, <4>2
      <3> QED
        BY <1>1, <2>2, <3>2, <3>3, <3>4, <3>5 DEF ospf_spf_calculate_schedule, TypeOK
    <2> QED
      BY <2>1, <2>2
  <1>2. CASE tick
    <2>1. \A t \in 0..Horizon : Later(t) \in 0..Horizon
      BY DEF Later, MinOf
    <2>2. armed' \in [hold : 0..Horizon, delay : 0..Horizon, age : 0..Horizon, early : BOOLEAN]
      BY <1>2, <2>1 DEF tick, TypeOK
    <2> QED
      BY <1>2, <2>1, <2>2 DEF tick, TypeOK, NoTimer
  <1>3. CASE timer_start
    <2>1. NAreas \in 0..NAreas
      OBVIOUS
    <2> QED
      BY <1>3, <2>1, Zenon DEF timer_start, TypeOK
  <1>4. ASSUME NEW outcome \in Outcomes, ospf_spf_calculate(outcome)
        PROVE  TypeOK'
    <2>1. armed' \in [hold : 0..Horizon, delay : 0..Horizon, age : 0..Horizon, early : BOOLEAN]
      BY <1>4, Zenon DEF ospf_spf_calculate, TypeOK
    <2>2. areas' \in 0..NAreas
      BY <1>4 DEF ospf_spf_calculate, TypeOK, NotRunning
    <2>3. elapsed' \in 0..Horizon
      BY <1>4 DEF ospf_spf_calculate, TypeOK
    <2> QED
      BY <1>4, <2>1, <2>2, <2>3 DEF ospf_spf_calculate, TypeOK
  <1>5. CASE timer_end
    BY <1>5 DEF timer_end, TypeOK
  <1>6. ASSUME NEW c \in Throttles, ospf_timers_spf_set(c)
        PROVE  TypeOK'
    BY <1>6 DEF ospf_timers_spf_set, TypeOK
  <1>7. CASE UNCHANGED vars
    BY <1>7 DEF vars, TypeOK
  <1> QED
    BY <1>1, <1>2, <1>3, <1>4, <1>5, <1>6, <1>7 DEF Next

(* An armed timer outlives every step but the start of its handler. *)
LEMMA ForgottenStep ==
    ASSUME TypeOK, NoEventForgotten, [Next]_vars
    PROVE  NoEventForgotten'
  <1>1. CASE ospf_spf_calculate_schedule
    <2>1. ScheduleDelay \in Nat
      BY HoldTypes, Settings DEF ScheduleDelay, TypeOK
    <2> QED
      BY <1>1, <2>1 DEF ospf_spf_calculate_schedule, NoEventForgotten, NoTimer
  <1>2. CASE tick
    BY <1>2, ThrottleAssumption DEF tick, NoEventForgotten, TypeOK, NoTimer
  <1>3. CASE timer_start
    BY <1>3 DEF timer_start, NoEventForgotten
  <1>4. ASSUME NEW outcome \in Outcomes, ospf_spf_calculate(outcome)
        PROVE  NoEventForgotten'
    BY <1>4 DEF ospf_spf_calculate, NoEventForgotten
  <1>5. CASE timer_end
    BY <1>5 DEF timer_end, NoEventForgotten
  <1>6. ASSUME NEW c \in Throttles, ospf_timers_spf_set(c)
        PROVE  NoEventForgotten'
    BY <1>6 DEF ospf_timers_spf_set, NoEventForgotten
  <1>7. CASE UNCHANGED vars
    BY <1>7 DEF vars, NoEventForgotten
  <1> QED
    BY <1>1, <1>2, <1>3, <1>4, <1>5, <1>6, <1>7 DEF Next

(* The first states satisfy the types. *)
LEMMA InitType == Init => TypeOK
  <1> SUFFICES ASSUME Init PROVE TypeOK
    OBVIOUS
  <1>1. 0 \in 0..Horizon /\ Horizon \in 0..Horizon /\ 0 \in 0..MaxChanges /\ 1 \in Nat \ {0}
    BY ThrottleAssumption
  <1>2. armed \in [hold : 0..Horizon, delay : 0..Horizon, age : 0..Horizon, early : BOOLEAN]
    BY <1>1 DEF Init
  <1> QED
    BY <1>1, <1>2, Zenon DEF Init, TypeOK

(* The throttle is type correct, and no event that needs a calculation is   *)
(* forgotten: ospf_spf_calculate_schedule leaves a timer armed for it, and  *)
(* ospf_spf_calculate_timer gives up its own before it reads the database.  *)
THEOREM EventsKept == Spec => [](TypeOK /\ NoEventForgotten)
  <1>1. Init => TypeOK /\ NoEventForgotten
    BY InitType DEF Init, NoEventForgotten
  <1>2. TypeOK /\ NoEventForgotten /\ [Next]_vars => (TypeOK /\ NoEventForgotten)'
    BY TypeStep, ForgottenStep
  <1> QED
    BY <1>1, <1>2, PTL DEF Spec

-----------------------------------------------------------------------------
(* While the settings stay, the product does not wrap and the code's hold   *)
(* time is the documented one.                                              *)
LEMMA HoldsAgree ==
    ASSUME TypeOK, Steady, MultiplierBounded, MultiplierAsDocumented
    PROVE  /\ changes = 0
           /\ HoldTime = MinOf(throttle.hold * spf_hold_multiplier, throttle.max)
           /\ DocumentedHold = MinOf(throttle.hold * streak, throttle.max)
           /\ HoldTime = DocumentedHold
  <1> DEFINE p == throttle.hold * spf_hold_multiplier
             q == throttle.hold * streak
  <1>1. changes = 0
    BY DEF TypeOK, Steady
  <1>2. /\ throttle.hold \in Nat
        /\ throttle.max \in Nat
        /\ throttle.max + throttle.hold < UintMod
    BY Settings DEF TypeOK, Steady
  <1>3. p \in Nat /\ q \in Nat
    BY <1>2, Products DEF TypeOK
  <1>4. p <= throttle.max + throttle.hold
    BY <1>1 DEF MultiplierBounded
  <1>5. p % UintMod = p
    <2> HIDE DEF p
    <2> QED
      BY <1>2, <1>3, <1>4, ThrottleAssumption
  <1>6. HoldTime = MinOf(p, throttle.max)
    BY <1>5 DEF HoldTime
  <1>7. DocumentedHold = MinOf(q, throttle.max)
    <2>1. streak * throttle.hold = q
      BY <1>2 DEF TypeOK
    <2> QED
      BY <1>1, <2>1 DEF DocumentedHold
  <1>8. p = q \/ (p >= throttle.max /\ q >= throttle.max)
    BY DEF MultiplierAsDocumented
  <1>9. MinOf(p, throttle.max) = MinOf(q, throttle.max)
    <2> HIDE DEF p, q
    <2> QED
      BY <1>2, <1>3, <1>8 DEF MinOf
  <1> QED
    BY <1>1, <1>6, <1>7, <1>9

(* Arming the timer keeps the multiplier bounded and as documented. *)
LEMMA MultiplierArm ==
    ASSUME TypeOK, Steady, MultiplierBounded, MultiplierAsDocumented,
           ospf_spf_calculate_schedule, t_spf_calc = NoTimer
    PROVE  MultiplierBounded' /\ MultiplierAsDocumented'
  <1> DEFINE h == throttle.hold
             m == throttle.max
             k == spf_hold_multiplier
             n == streak
  <1>1. /\ HoldTime = MinOf(h * k, m)
        /\ HoldTime = DocumentedHold
        /\ DocumentedHold = MinOf(h * n, m)
    BY HoldsAgree
  <1>2. h \in Nat /\ m \in Nat /\ k \in Nat \ {0} /\ n \in Nat \ {0} /\ elapsed \in Nat
    BY Settings DEF TypeOK
  <1>3. /\ h * k \in Nat /\ h * n \in Nat
        /\ h * (k + 1) = h * k + h /\ h * (n + 1) = h * n + h
        /\ h * (m + 1) = h * m + h /\ h * m \in Nat
        /\ h > 0 => h * n >= n /\ h * m >= m
        /\ h * 1 = h
    <2> HIDE DEF h, m, k, n
    <2>1. h * 1 = h
      BY <1>2
    <2>2. h * k \in Nat /\ h * (k + 1) = h * k + h
      BY <1>2, Products
    <2>3. h * n \in Nat /\ h * (n + 1) = h * n + h /\ (h > 0 => h * n >= n)
      BY <1>2, Products
    <2>4. h * m \in Nat /\ h * (m + 1) = h * m + h /\ (h > 0 => h * m >= m)
      BY <1>2, Products
    <2> QED
      BY <2>1, <2>2, <2>3, <2>4
  <1>4. throttle' = throttle /\ changes' = changes
    BY DEF ospf_spf_calculate_schedule
  <1>5. h * k <= m + h /\ (k = n \/ (h * k >= m /\ h * n >= m))
    BY HoldsAgree DEF MultiplierBounded, MultiplierAsDocumented
  <1>6. CASE elapsed < HoldTime /\ HoldTime < m
    <2>1. h * k < m /\ h > 0
      <3>1. h * k < m
        BY <1>1, <1>2, <1>3, <1>6 DEF MinOf
      <3>2. h # 0
        <4> SUFFICES ASSUME h = 0 PROVE FALSE
          OBVIOUS
        <4>1. h * k = 0
          BY <1>2
        <4> QED
          BY <1>1, <1>2, <1>6, <4>1 DEF MinOf
      <3> QED
        BY <1>2, <3>1, <3>2
    <2>2. k = n
      BY <1>2, <1>3, <1>5, <2>1
    <2>3. n < m
      <3> HIDE DEF h, m, k, n
      <3> QED
        BY <1>2, <1>3, <2>1, <2>2
    <2>4. spf_hold_multiplier' = k + 1
      BY <1>6 DEF ospf_spf_calculate_schedule, NextMultiplier
    <2>5. streak' = n + 1
      BY <1>1, <1>2, <1>6, <2>3 DEF ospf_spf_calculate_schedule, MinOf
    <2>6. h * (k + 1) <= m + h
      <3> HIDE DEF h, m, k, n
      <3> QED
        BY <1>2, <1>3, <2>1
    <2> QED
      BY <1>4, <2>2, <2>4, <2>5, <2>6 DEF MultiplierBounded, MultiplierAsDocumented
  <1>7. CASE elapsed < HoldTime /\ ~(HoldTime < m)
    <2>1. h * k >= m /\ h * n >= m /\ h # 0
      <3>1. h * k >= m /\ h * n >= m
        <4> HIDE DEF h, m, k, n
        <4> QED
          BY <1>1, <1>2, <1>3, <1>7 DEF MinOf
      <3>2. h # 0
        <4> SUFFICES ASSUME h = 0 PROVE FALSE
          OBVIOUS
        <4>1. h * k = 0
          BY <1>2
        <4> QED
          BY <1>1, <1>2, <1>7, <4>1 DEF MinOf
      <3> QED
        BY <3>1, <3>2
    <2>2. spf_hold_multiplier' = k
      BY <1>7 DEF ospf_spf_calculate_schedule, NextMultiplier
    <2>3. streak' = MinOf(n + 1, m + 1)
      BY <1>1, <1>7 DEF ospf_spf_calculate_schedule
    <2>4. h * MinOf(n + 1, m + 1) >= m
      <3> HIDE DEF h, m, k, n
      <3>1. h * (n + 1) >= m /\ h * (m + 1) >= m
        BY <1>2, <1>3, <2>1
      <3> QED
        BY <3>1 DEF MinOf
    <2> QED
      BY <1>4, <1>5, <2>1, <2>2, <2>3, <2>4 DEF MultiplierBounded, MultiplierAsDocumented
  <1>8. CASE ~(elapsed < HoldTime)
    <2>1. spf_hold_multiplier' = 1
      BY <1>8 DEF ospf_spf_calculate_schedule, NextMultiplier
    <2>2. streak' = 1
      BY <1>1, <1>8 DEF ospf_spf_calculate_schedule
    <2>3. h * 1 <= m + h
      BY <1>2, <1>3
    <2> QED
      BY <1>4, <2>1, <2>2, <2>3 DEF MultiplierBounded, MultiplierAsDocumented
  <1> QED
    BY <1>6, <1>7, <1>8

(* Every step keeps the multiplier bounded and as documented. *)
LEMMA MultiplierStep ==
    ASSUME TypeOK, Steady, MultiplierBounded, MultiplierAsDocumented, [Next]_vars
    PROVE  MultiplierBounded' /\ MultiplierAsDocumented'
  <1>1. CASE ospf_spf_calculate_schedule
    <2>1. CASE t_spf_calc # NoTimer
      BY <1>1, <2>1
      DEF ospf_spf_calculate_schedule, MultiplierBounded, MultiplierAsDocumented
    <2> QED
      BY <1>1, <2>1, MultiplierArm
  <1>2. ASSUME UNCHANGED <<throttle, spf_hold_multiplier, streak, changes>>
        PROVE  MultiplierBounded' /\ MultiplierAsDocumented'
    BY <1>2 DEF MultiplierBounded, MultiplierAsDocumented
  <1>3. CASE tick \/ timer_start \/ timer_end \/ UNCHANGED vars
    BY <1>2, <1>3 DEF tick, timer_start, timer_end, vars
  <1>4. ASSUME NEW outcome \in Outcomes, ospf_spf_calculate(outcome)
        PROVE  MultiplierBounded' /\ MultiplierAsDocumented'
    BY <1>2, <1>4 DEF ospf_spf_calculate
  <1>5. ASSUME NEW c \in Throttles, ospf_timers_spf_set(c)
        PROVE  FALSE
    BY <1>5 DEF ospf_timers_spf_set, TypeOK, Steady
  <1> QED
    BY <1>1, <1>3, <1>4, <1>5 DEF Next

(* Every step keeps the promise of an armed timer: time that passes is      *)
(* taken from what is left of it, and a calculation that ends after it was  *)
(* armed is marked as early.                                                *)
LEMMA CoverStep ==
    ASSUME TypeOK, Steady, MultiplierBounded, MultiplierAsDocumented, TimerCovers, [Next]_vars
    PROVE  TimerCovers'
  <1>1. CASE ospf_spf_calculate_schedule
    <2>1. CASE t_spf_calc # NoTimer
      BY <1>1, <2>1 DEF ospf_spf_calculate_schedule, TimerCovers
    <2>2. CASE t_spf_calc = NoTimer
      <3>1. /\ HoldTime = DocumentedHold
            /\ HoldTime \in 0..throttle.max
            /\ throttle.max \in Nat /\ throttle.delay \in Nat /\ elapsed \in Nat
        BY HoldsAgree, HoldTypes, Settings DEF TypeOK
      <3>2. /\ t_spf_calc' = ScheduleDelay
            /\ armed' = [hold |-> DocumentedHold, delay |-> throttle.delay, age |-> 0,
                         early |-> FALSE]
            /\ elapsed' = elapsed
        BY <1>1, <2>2 DEF ospf_spf_calculate_schedule
      <3>3. elapsed + ScheduleDelay >= HoldTime /\ ScheduleDelay >= throttle.delay
            /\ ScheduleDelay \in Nat
        <4> HIDE DEF HoldTime
        <4> QED
          BY <3>1 DEF ScheduleDelay
      <3> HIDE DEF HoldTime, DocumentedHold, ScheduleDelay
      <3> QED
        BY <3>1, <3>2, <3>3 DEF TimerCovers
    <2> QED
      BY <2>1, <2>2
  <1>2. CASE tick
    <2>1. /\ elapsed' = Later(elapsed)
          /\ armed'.age = Later(armed.age)
          /\ armed'.hold = armed.hold /\ armed'.delay = armed.delay /\ armed'.early = armed.early
          /\ t_spf_calc' = IF t_spf_calc > 0 THEN t_spf_calc - 1 ELSE t_spf_calc
      BY <1>2 DEF tick, TypeOK
    <2>2. /\ elapsed \in 0..Horizon /\ armed.age \in 0..Horizon
          /\ armed.hold \in 0..Horizon /\ armed.delay \in 0..Horizon /\ armed.early \in BOOLEAN
          /\ t_spf_calc \in 0..Horizon \cup {NoTimer}
      BY DEF TypeOK
    <2>3. ASSUME NEW t \in 0..Horizon, NEW g \in 0..Horizon, t_spf_calc # NoTimer,
                 t + t_spf_calc >= g
          PROVE  Later(t) + t_spf_calc' >= g
      BY <2>1, <2>2, <2>3, ThrottleAssumption DEF Later, MinOf, NoTimer
    <2>4. t_spf_calc' # NoTimer => t_spf_calc # NoTimer
      BY <2>1, <2>2, ThrottleAssumption DEF NoTimer
    <2> QED
      BY <2>1, <2>2, <2>3, <2>4 DEF TimerCovers
  <1>3. CASE timer_start
    BY <1>3 DEF timer_start, TimerCovers
  <1>4. ASSUME NEW outcome \in Outcomes, ospf_spf_calculate(outcome)
        PROVE  TimerCovers'
    <2>1. /\ t_spf_calc' = t_spf_calc
          /\ armed'.age = armed.age /\ armed'.hold = armed.hold /\ armed'.delay = armed.delay
      BY <1>4 DEF ospf_spf_calculate, TypeOK
    <2>2. ASSUME ~armed'.early, t_spf_calc # NoTimer
          PROVE  ~armed.early /\ elapsed' = elapsed
      BY <1>4, <2>2, Zenon DEF ospf_spf_calculate, TypeOK
    <2> QED
      BY <2>1, <2>2 DEF TimerCovers
  <1>5. CASE timer_end \/ UNCHANGED vars
    BY <1>5 DEF timer_end, vars, TimerCovers
  <1>6. ASSUME NEW c \in Throttles, ospf_timers_spf_set(c)
        PROVE  TimerCovers'
    BY <1>6 DEF ospf_timers_spf_set, TimerCovers
  <1> QED
    BY <1>1, <1>2, <1>3, <1>4, <1>5, <1>6 DEF Next

(* The inductive invariant. *)
ThrottleInv == TypeOK /\ MultiplierBounded /\ MultiplierAsDocumented /\ TimerCovers

(* The first states satisfy the invariant. *)
LEMMA InitInv == Init => ThrottleInv
  <1> SUFFICES ASSUME Init PROVE ThrottleInv
    OBVIOUS
  <1>1. TypeOK
    BY InitType
  <1>2. throttle.hold * spf_hold_multiplier <= throttle.max + throttle.hold
    BY <1>1, Settings DEF Init, TypeOK
  <1> QED
    BY <1>1, <1>2
    DEF Init, ThrottleInv, MultiplierBounded, MultiplierAsDocumented, TimerCovers

(* With settings that stay and whose sum fits into unsigned int, the        *)
(* multiplier of ospf_spf_calculate_schedule is bounded, and its capped     *)
(* product is the hold time the documentation describes.                    *)
THEOREM HoldTimeCorrect ==
    ASSUME Steady
    PROVE  Spec => [](MultiplierBounded /\ HoldAsDocumented)
  <1>1. Init => ThrottleInv
    BY InitInv
  <1>2. ThrottleInv /\ [Next]_vars => ThrottleInv'
    BY TypeStep, MultiplierStep, CoverStep DEF ThrottleInv
  <1>3. ThrottleInv => MultiplierBounded /\ HoldAsDocumented
    BY HoldsAgree DEF ThrottleInv, HoldAsDocumented
  <1> QED
    BY <1>1, <1>2, <1>3, PTL DEF Spec

(* Under the same assumption the handler never starts before the hold time  *)
(* after the last calculation, or the initial delay after the event that    *)
(* armed its timer, has passed, unless an area was calculated natively      *)
(* between the two.                                                         *)
THEOREM ThrottleCorrect ==
    ASSUME Steady
    PROVE  Spec => ThrottleHonoured
  <1>1. Init => ThrottleInv
    BY InitInv
  <1>2. ThrottleInv /\ [Next]_vars => ThrottleInv'
    BY TypeStep, MultiplierStep, CoverStep DEF ThrottleInv
  <1>3. ThrottleInv /\ [Next]_vars =>
            [timer_start => /\ ~armed.early => elapsed >= armed.hold
                            /\ armed.age >= armed.delay]_vars
    BY DEF ThrottleInv, TypeOK, TimerCovers, timer_start, NoTimer
  <1> QED
    BY <1>1, <1>2, <1>3, PTL DEF Spec, ThrottleHonoured

-----------------------------------------------------------------------------
(***************************************************************************)
(* Proofs about PluginMessages, for all manifests and data, queues of any  *)
(* length and any even width of int.                                       *)
(*                                                                         *)
(* A request is in one of four places: the manifest, the queue, the buffer *)
(* and local variables of the manager, the history.  RequestsKept says     *)
(* that what is in the later places are the lines of the manifest, in      *)
(* order, each as far decoded as the manager's position says.              *)
(* Measurements says the same of the data of pluglets.  Both claim         *)
(* something of the buffer only while it has one user.                     *)
(***************************************************************************)

(* What a message may carry. *)
Texts    == (UNION {{m[n].file : n \in 1 .. Len(m)} : m \in Manifests})
            \cup {d.data : d \in Data} \cup {NoData}
Messages == [type : Int, text : Texts]
Calls    == Data \cup {[type |-> 0, data |-> NoData]}

Types ==
    /\ manifest \in Manifests
    /\ ui \in Nat
    /\ requests \in Seq(Messages) /\ measures \in Seq(Messages)
    /\ delivered \in Seq(Messages) /\ message \in Messages
    /\ injected \in Seq([file : Texts, point : Int, anchor : Int])
    /\ anchor \in Int /\ point \in Int
    /\ call \in Calls /\ accepted \in Seq(Calls)
    /\ mgr \in {"recv", "sleep", "anchor", "point", "inject", "ended"}
    /\ main \in {"idle", "type", "data", "send"}
    /\ mixed \in BOOLEAN

(* Requests the manager has in hand. *)
InHand == IF ManagerUsesBuffer THEN 1 ELSE 0
Done   == Len(injected) + InHand

(* The message the tool makes of a line. *)
Asks(m, l) == l # Invalid /\ m.type = Encode(l) /\ m.text = l.file

RequestsKept ==
    /\ Done + Len(requests) <= Len(manifest)
    /\ ui # 0 => ui = Done + Len(requests) + 1
    /\ \A n \in 1 .. Len(requests) : Asks(requests[n], manifest[Done + n])
    /\ ~mixed =>
         /\ \A n \in 1 .. Len(injected) : Faithful(n)
         /\ ManagerUsesBuffer => Asks(message, manifest[Done])
         /\ mgr \in {"point", "inject"} => anchor = DecodeAnchor(message.type)
         /\ mgr = "inject" => point = DecodePoint(message.type, anchor)

Measurements ==
    /\ Len(delivered) + Len(measures) = Len(accepted)
    /\ ~mixed =>
         /\ \A n \in 1 .. Len(delivered) : Carries(delivered[n], accepted[n])
         /\ \A n \in 1 .. Len(measures) :
               Carries(measures[n], accepted[Len(delivered) + n])
         /\ main \in {"data", "send"} => message.type = call.type
         /\ main = "send" => Carries(message, call)

-----------------------------------------------------------------------------
(* The encoding of a position and its decoding *)

LEMMA LineTyped ==
    ASSUME NEW m \in Manifests, NEW n \in 1 .. Len(m), m[n] # Invalid
    PROVE  /\ Encode(m[n]) \in Int /\ m[n].file \in Texts
           /\ m[n].point \in Int /\ m[n].anchor \in Int
           /\ m[n] = [file |-> m[n].file, point |-> m[n].point, anchor |-> m[n].anchor]
<1>1. /\ m[n].point \in Int /\ m[n].anchor \in Int
      /\ m[n] = [file |-> m[n].file, point |-> m[n].point, anchor |-> m[n].anchor]
  BY MessagesAssumption, Zenon
<1>2. Encode(m[n]) \in Int
  BY <1>1 DEF Encode
<1>3. m[n].file \in {m[i].file : i \in 1 .. Len(m)}
  BY Zenon
<1>4. m[n].file \in Texts
  BY <1>3, Zenon DEF Texts
<1> QED BY <1>1, <1>2, <1>4, Zenon

LEMMA DecodeTyped ==
    ASSUME NEW t \in Int, NEW a \in Int
    PROVE  DecodeAnchor(t) \in Int /\ DecodePoint(t, a) \in Int
<1>1. ToInt(t) \in Int
  BY MessagesAssumption DEF ToInt
<1>2. \A x \in Int : Rem(x, 100) \in Int
  BY DEF Rem
<1>3. \A x \in Int : x \div 100 \in Int
  OBVIOUS
<1> QED BY <1>1, <1>2, <1>3 DEF DecodeAnchor, DecodePoint

(* A type that int can hold is not changed by the cast. *)
LEMMA CastKeeps ==
    ASSUME NEW t \in 1 .. IntMod \div 2 - 1
    PROVE  ToInt(t) = t
<1> DEFINE h == IntMod \div 2
<1>1. h \in Nat /\ IntMod = 2 * h
  BY MessagesAssumption
<1>2. t + h \in 0 .. IntMod - 1
  BY <1>1
<1>3. \A x \in 0 .. IntMod - 1 : x % IntMod = x
  BY MessagesAssumption
<1> QED BY <1>1, <1>2, <1>3 DEF ToInt

(* The manager reads back the position of a well-formed line. *)
LEMMA DecodeEncode ==
    ASSUME NEW l, l.point \in Int, l.anchor \in Int, WellFormed(l)
    PROVE  /\ DecodeAnchor(Encode(l)) = l.anchor
           /\ DecodePoint(Encode(l), l.anchor) = l.point
<1>1. l.anchor \in 0 .. 99 /\ Encode(l) \in 1 .. IntMod \div 2 - 1
  BY Zenon DEF WellFormed
<1>2. ToInt(Encode(l)) = l.point * 100 + l.anchor
  BY <1>1, CastKeeps, Zenon DEF Encode
<1>3. l.point \in Nat
  BY <1>1 DEF Encode
<1>4. DecodeAnchor(Encode(l)) = l.anchor
  <2>1. (l.point * 100 + l.anchor) % 100 = l.anchor
    BY <1>1, <1>3
  <2> QED BY <1>1, <1>2, <1>3, <2>1 DEF DecodeAnchor, Rem
<1>5. DecodePoint(Encode(l), l.anchor) = l.point
  BY <1>1, <1>2, <1>3 DEF DecodePoint
<1> QED BY <1>4, <1>5, Zenon

-----------------------------------------------------------------------------
LEMMA TypesInit == MsgInit => Types
<1> SUFFICES ASSUME MsgInit PROVE Types
  BY Zenon
<1>1. NoData \in Texts
  BY Zenon DEF Texts
<1>2. message \in Messages /\ call \in Calls
  BY <1>1 DEF MsgInit, Messages, Calls
<1>3. mixed \in BOOLEAN
  BY Zenon DEF MsgInit
<1> QED BY <1>2, <1>3 DEF MsgInit, Types

(* A line in the queue is of the manifest. *)
LEMMA ManifestLength == ASSUME Types PROVE Len(manifest) \in Nat
BY MessagesAssumption, Zenon DEF Types

LEMMA CallTyped == ASSUME NEW c \in Calls PROVE c.type \in Int /\ c.data \in Texts
<1>1. CASE c \in Data
  <2>1. c.data \in {d.data : d \in Data}
    BY <1>1, Zenon
  <2>2. c.data \in Texts
    BY <2>1, Zenon DEF Texts
  <2> QED BY <1>1, <2>2, MessagesAssumption, Zenon
<1>2. CASE c = [type |-> 0, data |-> NoData]
  <2>1. NoData \in Texts
    BY Zenon DEF Texts
  <2> QED BY <1>2, <2>1
<1> QED BY <1>1, <1>2, Zenon DEF Calls

(* The tool: the next line goes to the end of the queue. *)
LEMMA ToolStep ==
    ASSUME Types, RequestsKept, Measurements, tool
    PROVE  Types' /\ RequestsKept' /\ Measurements'
<1>1. UNCHANGED <<manifest, message, measures, mixed, mgr, anchor, point, injected,
                  main, call, accepted, delivered>>
  BY Zenon DEF tool, ui_stop, ui_send, mgrVars, mainVars, serverVars
<1>2. Len(manifest) \in Nat
  BY ManifestLength, Zenon
<1>3. Measurements'
  BY <1>1, Zenon DEF Measurements, Carries
<1>4. Done \in Nat /\ Done' = Done
  BY <1>1 DEF Types, Done, InHand, ManagerUsesBuffer
<1>5. CASE ui_stop
  <2>1. requests' = requests /\ ui' = 0
    BY <1>5, Zenon DEF ui_stop
  <2>2. Types'
    BY <1>1, <2>1, Zenon DEF Types
  <2>3. RequestsKept'
    BY <1>1, <1>4, <2>1, Zenon DEF RequestsKept, Faithful, ManagerUsesBuffer
  <2> QED BY <1>3, <2>2, <2>3, Zenon
<1>6. CASE ui_send
  <2> DEFINE l == manifest[ui]
             m == [type |-> Encode(l), text |-> l.file]
  <2>1. /\ ui \in 1 .. Len(manifest) /\ l # Invalid
        /\ requests' = Append(requests, m) /\ ui' = ui + 1
    BY <1>6, Zenon DEF ui_send
  <2>2. m \in Messages /\ Asks(m, l)
    BY <2>1, LineTyped, Zenon DEF Types, Messages, Asks
  <2> HIDE DEF m
  <2>3. Types'
    BY <1>1, <2>1, <2>2 DEF Types
  <2>4. ui = Done + Len(requests) + 1
    BY <2>1 DEF RequestsKept
  <2>5. Len(requests') = Len(requests) + 1 /\ Len(requests) \in Nat
        /\ requests'[Len(requests) + 1] = m
        /\ \A n \in 1 .. Len(requests) : requests'[n] = requests[n]
    BY <2>1, <2>2 DEF Types
  <2>6. \A n \in 1 .. Len(requests') : Asks(requests'[n], manifest[Done + n])
    <3> TAKE n \in 1 .. Len(requests')
    <3>1. CASE n = Len(requests) + 1
      BY <1>4, <2>2, <2>4, <2>5, <3>1
    <3>2. CASE n \in 1 .. Len(requests)
      BY <2>5, <3>2, Zenon DEF RequestsKept
    <3> QED BY <2>5, <3>1, <3>2
  <2>7. RequestsKept'
    <3>1. Done' + Len(requests') <= Len(manifest') /\ ui' = Done' + Len(requests') + 1
      BY <1>1, <1>2, <1>4, <2>1, <2>4, <2>5
    <3> QED BY <1>1, <1>4, <2>6, <3>1, Zenon DEF RequestsKept, Faithful, ManagerUsesBuffer
  <2> QED BY <1>3, <2>3, <2>7
<1> QED BY <1>5, <1>6, Zenon DEF tool

(* The manager takes a request: it moves from the queue into the buffer. *)
LEMMA ReceiveStep ==
    ASSUME Types, RequestsKept, Measurements, manager_receive
    PROVE  Types' /\ RequestsKept' /\ Measurements'
<1>1. /\ mgr = "recv" /\ mgr' = "anchor" /\ requests # <<>>
      /\ message' = Head(requests) /\ requests' = Tail(requests)
      /\ UNCHANGED <<manifest, ui, anchor, point, injected, measures, main, call,
                     accepted, delivered>>
  BY Zenon DEF manager_receive, mainVars, serverVars
<1>2. mixed' = (mixed \/ main # "idle") /\ mixed' \in BOOLEAN
  BY Zenon DEF manager_receive
<1>3. /\ message' \in Messages /\ requests' \in Seq(Messages)
      /\ message' = requests[1] /\ Len(requests') = Len(requests) - 1
      /\ Len(requests) \in Nat /\ Len(requests) >= 1
      /\ \A n \in 1 .. Len(requests') : requests'[n] = requests[n + 1]
  BY <1>1 DEF Types
<1>4. Types'
  BY <1>1, <1>2, <1>3, Zenon DEF Types
<1>5. Measurements'
  BY <1>1, <1>2, Zenon DEF Measurements, Carries
<1>6. Len(injected) \in Nat /\ Done = Len(injected) /\ Done' = Len(injected) + 1
  BY <1>1 DEF Types, Done, InHand, ManagerUsesBuffer
<1>7. Asks(message', manifest[Done'])
  BY <1>3, <1>6 DEF RequestsKept
<1>8. \A n \in 1 .. Len(requests') : Asks(requests'[n], manifest[Done' + n])
  <2> TAKE n \in 1 .. Len(requests')
  <2>1. Asks(requests[n + 1], manifest[Done + (n + 1)])
    BY <1>3 DEF RequestsKept
  <2>2. Done + (n + 1) = Done' + n
    BY <1>3, <1>6
  <2> QED BY <1>3, <2>1, <2>2, Zenon
<1>9. RequestsKept'
  <2>1. Done' + Len(requests') <= Len(manifest')
        /\ (ui' # 0 => ui' = Done' + Len(requests') + 1)
    BY <1>1, <1>3, <1>6, ManifestLength DEF RequestsKept, Types
  <2> QED BY <1>1, <1>2, <1>7, <1>8, <2>1, Zenon DEF RequestsKept, Faithful
<1> QED BY <1>4, <1>5, <1>9, Zenon

(* The manager decodes the type, and waits. *)
LEMMA ManagerStep ==
    ASSUME Types, RequestsKept, Measurements,
           \/ manager_awake \/ manager_interrupted \/ manager_failed
           \/ decode_anchor \/ decode_point
    PROVE  Types' /\ RequestsKept' /\ Measurements'
<1>1. UNCHANGED <<manifest, ui, requests, message, measures, mixed, injected, main, call,
                  accepted, delivered>>
  BY Zenon DEF manager_awake, manager_interrupted, manager_failed, decode_anchor, decode_point,
         toolVars, mainVars, serverVars
<1>2. message.type \in Int
  BY Zenon DEF Types, Messages
<1>3. Measurements'
  BY <1>1, Zenon DEF Measurements, Carries
<1>4. Types'
  BY <1>1, <1>2, DecodeTyped, Zenon
     DEF Types, manager_awake, manager_interrupted, manager_failed, decode_anchor, decode_point
<1>5. ManagerUsesBuffer' = ManagerUsesBuffer /\ Done' = Done
  BY <1>1 DEF manager_awake, manager_interrupted, manager_failed, decode_anchor,
              decode_point, ManagerUsesBuffer, Done, InHand
<1>6. ~mixed => /\ mgr' \in {"point", "inject"} => anchor' = DecodeAnchor(message.type)
                /\ mgr' = "inject" => point' = DecodePoint(message.type, anchor')
  BY Zenon DEF RequestsKept, manager_awake, manager_interrupted, manager_failed, decode_anchor,
         decode_point
<1>7. RequestsKept'
  BY <1>1, <1>5, <1>6, Zenon DEF RequestsKept, Faithful
<1> QED BY <1>3, <1>4, <1>7, Zenon

(* The manager injects: the request moves from the buffer to the history. *)
LEMMA InjectStep ==
    ASSUME Types, RequestsKept, Measurements, inject
    PROVE  Types' /\ RequestsKept' /\ Measurements'
<1> DEFINE r == [file |-> message.text, point |-> point, anchor |-> anchor]
           N == Len(injected)
<1>1. /\ mgr = "inject" /\ mgr' = "recv" /\ injected' = Append(injected, r)
      /\ UNCHANGED <<manifest, ui, requests, anchor, point, message, measures, mixed, main,
                     call, accepted, delivered>>
  BY Zenon DEF inject, toolVars, mainVars, serverVars
<1>2. r \in [file : Texts, point : Int, anchor : Int] /\ N \in Nat
  BY DEF Types, Messages
<1>3. Types'
  <2>1. injected \in Seq([file : Texts, point : Int, anchor : Int])
    BY Zenon DEF Types
  <2>2. injected' \in Seq([file : Texts, point : Int, anchor : Int])
    BY <1>1, <1>2, <2>1
  <2> QED BY <1>1, <2>2, Zenon DEF Types
<1>4. Measurements'
  BY <1>1, Zenon DEF Measurements, Carries
<1>5. /\ Len(injected') = N + 1 /\ injected'[N + 1] = r
      /\ \A n \in 1 .. N : injected'[n] = injected[n]
  BY <1>1, <1>2 DEF Types
<1>6. Done = N + 1 /\ Done' = N + 1
  BY <1>1, <1>2, <1>5 DEF Done, InHand, ManagerUsesBuffer
<1>7. ~mixed /\ WellFormed(manifest[N + 1]) => r = manifest[N + 1]
  <2> SUFFICES ASSUME ~mixed, WellFormed(manifest[N + 1]) PROVE r = manifest[N + 1]
    BY Zenon
  <2> DEFINE l == manifest[N + 1]
  <2>1. Asks(message, l) /\ anchor = DecodeAnchor(message.type)
        /\ point = DecodePoint(message.type, anchor)
    BY <1>1, <1>6, Zenon DEF RequestsKept, ManagerUsesBuffer
  <2>2. N + 1 \in 1 .. Len(manifest)
    BY <1>2, <1>6, ManifestLength DEF RequestsKept, Types
  <2>3. /\ l.point \in Int /\ l.anchor \in Int
        /\ l = [file |-> l.file, point |-> l.point, anchor |-> l.anchor]
    BY <2>1, <2>2, LineTyped, Zenon DEF Types, Asks
  <2>4. DecodeAnchor(Encode(l)) = l.anchor /\ DecodePoint(Encode(l), l.anchor) = l.point
    BY <2>3, DecodeEncode, Zenon
  <2> QED BY <2>1, <2>3, <2>4, Zenon DEF Asks
<1> HIDE DEF r
<1>8. ~mixed => \A n \in 1 .. Len(injected') : Faithful(n)'
  <2> SUFFICES ASSUME ~mixed, NEW n \in 1 .. N + 1
               PROVE  WellFormed(manifest[n]) => injected'[n] = manifest[n]
    BY <1>1, <1>5, Zenon DEF Faithful
  <2>1. CASE n = N + 1
    BY <1>5, <1>7, <2>1, Zenon
  <2>2. CASE n \in 1 .. N
    BY <1>5, <2>2, Zenon DEF RequestsKept, Faithful
  <2> QED BY <1>2, <2>1, <2>2
<1>9. RequestsKept'
  BY <1>1, <1>6, <1>8, Zenon DEF RequestsKept, ManagerUsesBuffer
<1> QED BY <1>3, <1>4, <1>9

-----------------------------------------------------------------------------
(* The main thread writes the buffer.  What the invariants say of it at the *)
(* manager they say no more, since the write has mixed them up.             *)
LEMMA WriteStep ==
    ASSUME Types, RequestsKept, Measurements,
           (\E d \in Data : send_data(d)) \/ send_type \/ send_text
    PROVE  Types' /\ RequestsKept' /\ Measurements'
<1>1. UNCHANGED <<manifest, ui, requests, mgr, anchor, point, measures, injected, accepted,
                  delivered>>
  BY Zenon DEF send_data, send_type, send_text, toolVars, mgrVars, serverVars
<1>2. call \in Calls /\ call.type \in Int /\ call.data \in Texts
  BY CallTyped, Zenon DEF Types
<1>3. mixed' \in BOOLEAN /\ (mixed => mixed')
  BY Zenon DEF send_data, send_type, send_text, Types
<1>4. ~mixed' /\ ManagerUsesBuffer => message' = message
  BY Zenon DEF send_data, send_type, send_text
<1>5. message' \in Messages /\ call' \in Calls /\ main' \in {"idle", "type", "data", "send"}
  BY <1>2, Zenon DEF send_data, send_type, send_text, Types, Messages, Calls
<1>6. Types'
  BY <1>1, <1>3, <1>5, Zenon DEF Types
<1>7. Done' = Done /\ ManagerUsesBuffer' = ManagerUsesBuffer
  BY <1>1, Zenon DEF Done, InHand, ManagerUsesBuffer
<1>8. RequestsKept'
  BY <1>1, <1>3, <1>4, <1>7, Zenon DEF RequestsKept, Faithful, ManagerUsesBuffer
<1>9. ~mixed' => /\ main' \in {"data", "send"} => message'.type = call'.type
                 /\ main' = "send" => Carries(message', call')
  <2> SUFFICES ASSUME ~mixed'
               PROVE  /\ main' \in {"data", "send"} => message'.type = call'.type
                      /\ main' = "send" => Carries(message', call')
    BY Zenon
  <2>1. CASE \E d \in Data : send_data(d)
    BY <2>1, Zenon DEF send_data
  <2>2. CASE send_type
    BY <2>2, Zenon DEF send_type, Types, Messages
  <2>3. CASE send_text
    BY <1>3, <2>3, Zenon DEF send_text, Types, Messages, Measurements, Carries
  <2> QED BY <2>1, <2>2, <2>3, Zenon
<1>10. Measurements'
  BY <1>1, <1>3, <1>9, Zenon DEF Measurements, Carries
<1> QED BY <1>6, <1>8, <1>10, Zenon

(* A message the queue takes carries what the call was given. *)
LEMMA SendStep ==
    ASSUME Types, RequestsKept, Measurements, send_message
    PROVE  Types' /\ RequestsKept' /\ Measurements'
<1>1. /\ main = "send" /\ main' = "idle"
      /\ UNCHANGED <<manifest, ui, requests, mgr, anchor, point, message, mixed, injected,
                     call, delivered>>
  BY Zenon DEF send_message, toolVars, mgrVars, serverVars
<1>2. RequestsKept'
  BY <1>1, Zenon DEF RequestsKept, Done, InHand, ManagerUsesBuffer, Faithful
<1>3. CASE UNCHANGED <<measures, accepted>>
  <2>1. Types' /\ Measurements'
    BY <1>1, <1>3, Zenon DEF Types, Measurements, Carries
  <2> QED BY <1>2, <2>1, Zenon
<1>4. CASE measures' = Append(measures, message) /\ accepted' = Append(accepted, call)
  <2>1. Types'
    BY <1>1, <1>4 DEF Types
  <2>2. /\ Len(measures) \in Nat /\ Len(accepted) \in Nat /\ Len(delivered) \in Nat
        /\ Len(measures') = Len(measures) + 1 /\ Len(accepted') = Len(accepted) + 1
        /\ measures'[Len(measures) + 1] = message
        /\ accepted'[Len(accepted) + 1] = call
        /\ \A n \in 1 .. Len(measures) : measures'[n] = measures[n]
        /\ \A n \in 1 .. Len(accepted) : accepted'[n] = accepted[n]
    BY <1>4 DEF Types
  <2>3. Len(delivered) + Len(measures) = Len(accepted)
    BY Zenon DEF Measurements
  <2>4. ~mixed => \A n \in 1 .. Len(delivered) : Carries(delivered[n], accepted'[n])
    BY <2>2, <2>3 DEF Measurements
  <2>5. ~mixed => \A n \in 1 .. Len(measures') :
                     Carries(measures'[n], accepted'[Len(delivered) + n])
    <3> SUFFICES ASSUME ~mixed, NEW n \in 1 .. Len(measures) + 1
                 PROVE  Carries(measures'[n], accepted'[Len(delivered) + n])
      BY <2>2, Zenon
    <3>1. CASE n = Len(measures) + 1
      <4>1. Len(delivered) + n = Len(accepted) + 1
        BY <2>2, <2>3, <3>1
      <4>2. Carries(message, call)
        BY <1>1, Zenon DEF Measurements
      <4> QED BY <2>2, <3>1, <4>1, <4>2, Zenon
    <3>2. CASE n \in 1 .. Len(measures)
      <4>1. Len(delivered) + n \in 1 .. Len(accepted)
        BY <2>2, <2>3, <3>2
      <4> QED BY <2>2, <3>2, <4>1, Zenon DEF Measurements
    <3> QED BY <2>2, <3>1, <3>2
  <2>6. Measurements'
    BY <1>1, <2>2, <2>3, <2>4, <2>5 DEF Measurements, Carries
  <2> QED BY <1>2, <2>1, <2>6, Zenon
<1> QED BY <1>3, <1>4, Zenon DEF send_message

(* The server takes the oldest message, or ends, or starts again. *)
LEMMA ServerStep ==
    ASSUME Types, RequestsKept, Measurements, server_receive \/ server_failed \/ server_start
    PROVE  Types' /\ RequestsKept' /\ Measurements'
<1>1. UNCHANGED <<manifest, ui, requests, mgr, anchor, point, message, mixed, injected, main,
                  call, accepted>>
  BY Zenon DEF server_receive, server_failed, server_start, toolVars, mgrVars, mainVars
<1>2. RequestsKept'
  BY <1>1, Zenon DEF RequestsKept, Done, InHand, ManagerUsesBuffer, Faithful
<1>3. CASE server_failed \/ server_start
  <2>1. Types' /\ Measurements'
    BY <1>1, <1>3, ZenonT(30) DEF server_failed, server_start, Types, Measurements, Carries
  <2> QED BY <1>2, <2>1, Zenon
<1>4. CASE server_receive
  <2>1. /\ measures # <<>> /\ delivered' = Append(delivered, Head(measures))
        /\ measures' = Tail(measures)
    BY <1>4, Zenon DEF server_receive
  <2>2. Types'
    BY <1>1, <2>1 DEF Types
  <2>3. /\ Len(measures) \in Nat /\ Len(delivered) \in Nat /\ Len(measures) >= 1
        /\ Len(measures') = Len(measures) - 1 /\ Len(delivered') = Len(delivered) + 1
        /\ delivered'[Len(delivered) + 1] = measures[1]
        /\ \A n \in 1 .. Len(delivered) : delivered'[n] = delivered[n]
        /\ \A n \in 1 .. Len(measures') : measures'[n] = measures[n + 1]
    <3>1. measures \in Seq(Messages) /\ delivered \in Seq(Messages)
      BY Zenon DEF Types
    <3>2. /\ Len(measures) \in Nat /\ Len(measures) >= 1 /\ Len(measures') = Len(measures) - 1
          /\ \A n \in 1 .. Len(measures') : measures'[n] = measures[n + 1]
      BY <2>1, <3>1
    <3>3. /\ Len(delivered) \in Nat /\ Len(delivered') = Len(delivered) + 1
          /\ delivered'[Len(delivered) + 1] = measures[1]
          /\ \A n \in 1 .. Len(delivered) : delivered'[n] = delivered[n]
      BY <2>1, <3>1
    <3> QED BY <3>2, <3>3, Zenon
  <2>4. ~mixed => \A n \in 1 .. Len(delivered') : Carries(delivered'[n], accepted[n])
    <3> SUFFICES ASSUME ~mixed, NEW n \in 1 .. Len(delivered) + 1
                 PROVE  Carries(delivered'[n], accepted[n])
      BY <2>3, Zenon
    <3>1. CASE n = Len(delivered) + 1
      BY <2>3, <3>1 DEF Measurements
    <3>2. CASE n \in 1 .. Len(delivered)
      BY <2>3, <3>2, Zenon DEF Measurements
    <3> QED BY <2>3, <3>1, <3>2
  <2>5. ~mixed => \A n \in 1 .. Len(measures') :
                     Carries(measures'[n], accepted[Len(delivered') + n])
    <3> SUFFICES ASSUME ~mixed, NEW n \in 1 .. Len(measures')
                 PROVE  Carries(measures'[n], accepted[Len(delivered') + n])
      BY Zenon
    <3>1. Carries(measures[n + 1], accepted[Len(delivered) + (n + 1)])
      BY <2>3 DEF Measurements
    <3>2. Len(delivered) + (n + 1) = Len(delivered') + n
      BY <2>3
    <3> QED BY <2>3, <3>1, <3>2, Zenon
  <2>6. Len(delivered') + Len(measures') = Len(accepted')
    <3>1. Len(delivered) + Len(measures) = Len(accepted) /\ accepted' = accepted
      BY <1>1, Zenon DEF Measurements
    <3>2. /\ Len(measures) \in Nat /\ Len(delivered) \in Nat
          /\ Len(measures') = Len(measures) - 1 /\ Len(delivered') = Len(delivered) + 1
      BY <2>3, Zenon
    <3>3. Len(delivered') + Len(measures') = Len(delivered) + Len(measures)
      BY <3>2
    <3> QED BY <3>1, <3>3, Zenon
  <2>7. Measurements'
    BY <1>1, <2>4, <2>5, <2>6, ZenonT(30) DEF Measurements, Carries
  <2> QED BY <1>2, <2>2, <2>7, Zenon
<1> QED BY <1>3, <1>4, Zenon

-----------------------------------------------------------------------------
LEMMA MessagesInv == MsgSpec => [](Types /\ RequestsKept /\ Measurements)
<1>1. MsgInit => Types /\ RequestsKept /\ Measurements
  <2> SUFFICES ASSUME MsgInit PROVE Types /\ RequestsKept /\ Measurements
    BY Zenon
  <2>1. Types /\ Len(manifest) \in Nat
    BY TypesInit, ManifestLength, Zenon
  <2>2. RequestsKept
    BY <2>1 DEF MsgInit, RequestsKept, Done, InHand, ManagerUsesBuffer
  <2>3. Measurements
    BY DEF MsgInit, Measurements
  <2> QED BY <2>1, <2>2, <2>3, Zenon
<1>2. Types /\ RequestsKept /\ Measurements /\ [MsgNext]_msgVars
        => Types' /\ RequestsKept' /\ Measurements'
  <2> SUFFICES ASSUME Types, RequestsKept, Measurements, [MsgNext]_msgVars
               PROVE  Types' /\ RequestsKept' /\ Measurements'
    BY Zenon
  <2>1. CASE UNCHANGED msgVars
    BY <2>1 DEF msgVars, Types, RequestsKept, Measurements, Done, InHand, ManagerUsesBuffer,
                Faithful, Carries
  <2>2. CASE MsgNext
    BY <2>2, ToolStep, ReceiveStep, ManagerStep, InjectStep, WriteStep, SendStep, ServerStep, Zenon
       DEF MsgNext, manager, pluglet
  <2> QED BY <2>1, <2>2, Zenon
<1> QED BY <1>1, <1>2, PTL DEF MsgSpec

(* For every manifest and every width of int: as long as the two threads   *)
(* have not met in the buffer of plugins_manager.c, the injections are the *)
(* lines of the manifest, in order.                                        *)
THEOREM InjectionsFaithful == MsgSpec => []InjectionsFollowManifest
<1>1. Types /\ RequestsKept /\ Measurements => InjectionsFollowManifest
  <2> SUFFICES ASSUME Types, RequestsKept, ~mixed, NEW n \in 1 .. Len(injected)
               PROVE  n <= Len(manifest) /\ Faithful(n)
    BY Zenon DEF InjectionsFollowManifest
  <2>1. Len(injected) \in Nat /\ Len(requests) \in Nat /\ Len(manifest) \in Nat
    BY ManifestLength, SMTT(30) DEF Types
  <2>2. Len(injected) <= Len(manifest)
    BY <2>1 DEF RequestsKept, Done, InHand
  <2> QED BY <2>1, <2>2 DEF RequestsKept
<1> QED BY <1>1, MessagesInv, PTL

(* For queues of any length and over any number of restarts of the server: *)
(* what send_data of ospf_plugins_api.c put into the queue is printed      *)
(* complete and in order, as long as the threads have not met.             *)
THEOREM MeasurementsOrdered == MsgSpec => []MeasuresInOrder
<1>1. Types /\ RequestsKept /\ Measurements => MeasuresInOrder
  <2> SUFFICES ASSUME Types, Measurements, ~mixed
               PROVE  LET got == delivered \o measures
                      IN  /\ Len(got) = Len(accepted)
                          /\ \A n \in 1 .. Len(got) : Carries(got[n], accepted[n])
    BY Zenon DEF MeasuresInOrder
  <2> DEFINE got == delivered \o measures
             D   == Len(delivered)
  <2>1. /\ D \in Nat /\ Len(measures) \in Nat
        /\ Len(got) = D + Len(measures)
        /\ \A n \in 1 .. D : got[n] = delivered[n]
        /\ \A n \in 1 .. Len(measures) : got[D + n] = measures[n]
    BY DEF Types
  <2> HIDE DEF got
  <2>2. \A n \in 1 .. Len(got) : Carries(got[n], accepted[n])
    <3> TAKE n \in 1 .. Len(got)
    <3>1. CASE n \in 1 .. D
      BY <2>1, <3>1, Zenon DEF Measurements
    <3>2. CASE n > D
      <4>1. n - D \in 1 .. Len(measures) /\ D + (n - D) = n
        BY <2>1, <3>2
      <4> QED BY <2>1, <4>1, Zenon DEF Measurements
    <3> QED BY <2>1, <3>1, <3>2
  <2> QED BY <2>1, <2>2, Zenon DEF Measurements, got
<1> QED BY <1>1, MessagesInv, PTL

-----------------------------------------------------------------------------
(* A queue keeps within its limit, and a step leaves the bounded counters    *)
(* within theirs.                                                            *)
LEMMA QueueStep ==
    ASSUME NEW q \in Seq(Messages), NEW m \in Messages
    PROVE  /\ Len(q) < QueueLimit => Len(Append(q, m)) <= QueueLimit
           /\ q # <<>> /\ Len(q) <= QueueLimit => Len(Tail(q)) <= QueueLimit
BY MessagesAssumption

(* For every limit and every manifest no queue outgrows its limit, and the *)
(* threads are where the code can be.                                      *)
THEOREM QueuesBounded == MsgSpec => []MsgTypeOK
<1>1. MsgInit => MsgTypeOK
  <2> SUFFICES ASSUME MsgInit PROVE MsgTypeOK
    OBVIOUS
  <2>1. Len(manifest) \in Nat
    BY TypesInit, ManifestLength, Zenon
  <2>2. server \in BOOLEAN /\ mixed \in BOOLEAN
    BY Zenon DEF MsgInit
  <2> QED BY <2>1, <2>2, MessagesAssumption DEF MsgInit, MsgTypeOK
<1>2. Types /\ RequestsKept /\ Measurements /\ Types' /\ RequestsKept' /\ Measurements'
        /\ MsgTypeOK /\ [MsgNext]_msgVars => MsgTypeOK'
  <2> SUFFICES ASSUME Types, RequestsKept, Types', RequestsKept', MsgTypeOK, [MsgNext]_msgVars
               PROVE  MsgTypeOK'
    BY Zenon
  <2>1. ui' \in 0 .. Len(manifest') + 1
    <3>1. /\ ui' \in Nat /\ Len(manifest') \in Nat /\ Len(requests') \in Nat
          /\ Done' \in Nat
      BY ManifestLength, SMTT(30) DEF Types, Done, InHand
    <3>2. ui' # 0 => ui' = Done' + Len(requests') + 1
      BY Zenon DEF RequestsKept
    <3>3. Done' + Len(requests') <= Len(manifest')
      BY Zenon DEF RequestsKept
    <3> QED BY <3>1, <3>2, <3>3
  <2>2. server' \in BOOLEAN
    BY Zenon DEF MsgTypeOK, MsgNext, msgVars, tool, manager, pluglet, ui_stop, ui_send, manager_receive,
       manager_awake, manager_interrupted, manager_failed, decode_anchor, decode_point, inject,
       send_data, send_type, send_text, send_message, server_receive, server_failed,
       server_start, serverVars
  <2>3. calls' \in 0 .. MaxData /\ signals' \in 0 .. MaxSignals
    BY MessagesAssumption, SMTT(30)
       DEF MsgTypeOK, MsgNext, msgVars, tool, manager, pluglet, ui_stop, ui_send, manager_receive,
       manager_awake, manager_interrupted, manager_failed, decode_anchor, decode_point, inject,
       send_data, send_type, send_text, send_message, server_receive, server_failed,
       server_start, mainVars, mgrVars
  <2>4. \/ requests' = requests
        \/ Len(requests) < QueueLimit /\ \E m \in Messages : requests' = Append(requests, m)
        \/ requests # <<>> /\ requests' = Tail(requests)
    <3>1. CASE ui_send
      <4> DEFINE m == [type |-> Encode(manifest[ui]), text |-> manifest[ui].file]
      <4>1. m \in Messages
        BY <3>1, LineTyped, Zenon DEF ui_send, Types, Messages
      <4> QED BY <3>1, <4>1, Zenon DEF ui_send
    <3> QED BY <3>1, Zenon
       DEF MsgNext, msgVars, tool, manager, pluglet, ui_stop, manager_receive,
       manager_awake, manager_interrupted, manager_failed, decode_anchor, decode_point, inject,
       send_data, send_type, send_text, send_message, server_receive, server_failed,
       server_start, toolVars
  <2>5. \/ measures' = measures
        \/ Len(measures) < QueueLimit /\ measures' = Append(measures, message)
        \/ measures # <<>> /\ measures' = Tail(measures)
    BY Zenon DEF MsgNext, msgVars, tool, manager, pluglet, ui_stop, ui_send, manager_receive,
       manager_awake, manager_interrupted, manager_failed, decode_anchor, decode_point, inject,
       send_data, send_type, send_text, send_message, server_receive, server_failed,
       server_start
  <2>6. Len(requests') <= QueueLimit
    BY <2>4, QueueStep, Zenon DEF Types, MsgTypeOK
  <2>7. Len(measures') <= QueueLimit
    BY <2>5, QueueStep, Zenon DEF Types, MsgTypeOK
  <2>8. mixed' \in BOOLEAN
    BY Zenon DEF Types
  <2> QED BY <2>1, <2>2, <2>3, <2>6, <2>7, <2>8, Zenon DEF MsgTypeOK, Types
<1> QED BY <1>1, <1>2, MessagesInv, PTL DEF MsgSpec
=============================================================================
