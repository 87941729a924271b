-------------------------- MODULE HardclockProofs --------------------------
(***************************************************************************)
(* The hardclock loses no tick and keeps its period, for every clock rate  *)
(* and every period.                                                       *)
(***************************************************************************)
EXTENDS Hardclock, TLAPS

(* The registers start in their reset values.                              *)
LEMMA ZeroInRange == 0 \in Nat /\ 0 \in 0 .. (US_DIV - 1)
BY TimerAssumption

LEMMA InitInv == Init => Inv
<1> SUFFICES ASSUME Init PROVE Inv
  OBVIOUS
<1>1. TypeOK
  BY ZeroInRange, Zenon DEF Init, IntcInit, TypeOK
<1>2. TickNotLost
  BY Zenon DEF Init, IntcInit, TickNotLost
<1> QED BY <1>1, <1>2, Zenon DEF Init, IntcInit, Inv

(* A CPU access names what it needs.                                       *)
LEMMA AccessType ==
    ASSUME NEW w \in Access
    PROVE  /\ w.reg = "hc" => w.v \in Period
           /\ w.reg = "csr" => w.enable \in BOOLEAN /\ w.latch \in BOOLEAN
<1>1. CASE w \in {NoAccess, [reg |-> "read csr"]}
  <2>1. w = [reg |-> "none"] \/ w = [reg |-> "read csr"]
    BY <1>1 DEF NoAccess
  <2>2. w.reg = "none" \/ w.reg = "read csr"
    <3>1. [reg |-> "none"].reg = "none" /\ [reg |-> "read csr"].reg = "read csr"
      OBVIOUS
    <3> QED BY <2>1, <3>1, Zenon
  <2>3. w.reg # "hc" /\ w.reg # "csr"
    BY <2>2
  <2> QED BY <2>3, Zenon
<1>2. CASE w \in [reg : {"hc"}, v : Period]
  BY <1>2
<1>3. CASE w \in [reg : {"csr"}, enable : BOOLEAN, latch : BOOLEAN]
  <2>1. w.reg = "csr" /\ "csr" # "hc"
    BY <1>3
  <2>2. w.enable \in BOOLEAN /\ w.latch \in BOOLEAN
    BY <1>3, Zenon
  <2> QED BY <2>1, <2>2, Zenon
<1> QED BY <1>1, <1>2, <1>3 DEF Access

(* What a clock makes of the controller's bit for the timer: the pulses    *)
(* of the timer decide, and a request wins over a release.                 *)
LEMMA TimerBit ==
    ASSUME Inv, NEW v \in {NoAccess, Unmask},
           IntcClock({}, Pulse(int_set), Pulse(int_clr), v)
    PROVE  /\ line_d' = {}
           /\ stat' \subseteq Source /\ mask' \subseteq Source
           /\ TIMER \in stat' <=> int_set \/ (TIMER \in stat /\ ~int_clr)
<1>1. v.reg # "stat"
  BY DEF NoAccess, Unmask
<1>2. line_d' = {} /\ stat' = (stat \ Pulse(int_clr)) \cup Pulse(int_set)
  BY <1>1 DEF IntcClock, Pulsed, Rising, Falling, Inv
<1>3. Pulse(int_set) \subseteq Source /\ Pulse(int_clr) \subseteq Source
  BY TimerAssumption DEF Pulse
<1>4. stat' \subseteq Source
  BY <1>2, <1>3 DEF Inv, TypeOK
<1>5. mask' \subseteq Source
  <2>1. CASE v = NoAccess
    BY <2>1 DEF IntcClock, NoAccess, Inv, TypeOK
  <2>2. CASE v = Unmask
    BY <2>2, TimerAssumption, SourceAssumption
       DEF IntcClock, Unmask, Merged, InHalf, Inv, TypeOK
  <2> QED BY <2>1, <2>2
<1>6. TIMER \in stat' <=> int_set \/ (TIMER \in stat /\ ~int_clr)
  BY <1>2 DEF Pulse, Inv, TypeOK
<1> QED BY <1>2, <1>4, <1>5, <1>6

(* What a clock makes of the counter.                                      *)
LEMMA Counter ==
    ASSUME Inv, NEW w \in Access, TimerClock(w), History(w)
    PROVE  /\ us_count' \in Nat /\ elapsed' = us_count'
           /\ latch_val' = 0 => us_count' = 0
           /\ latch_val' # 0 => us_count' < latch_val'
<1>1. us_count \in Nat /\ latch_val \in Nat /\ hc \in Nat
  BY TimerAssumption DEF Inv, TypeOK
<1>2. elapsed' = us_count' /\ us_count' \in Nat
  BY <1>1 DEF Inv, TimerClock, Count, History
<1>3. CASE Loads(w)
  BY <1>1, <1>2, <1>3 DEF TimerClock, Count
<1>4. CASE ~Loads(w)
  BY <1>1, <1>2, <1>4 DEF Inv, TimerClock, Count, Expires, Counting
<1> QED BY <1>2, <1>3, <1>4

(* A clock outside reset preserves the invariant.                          *)
LEMMA ClockInv ==
    ASSUME Inv, NEW w \in Access, NEW v \in {NoAccess, Unmask}, Clock(w, v)
    PROVE  Inv'
<1>1. /\ line_d' = {} /\ stat' \subseteq Source /\ mask' \subseteq Source
      /\ TIMER \in stat' <=> int_set \/ (TIMER \in stat /\ ~int_clr)
  BY TimerBit DEF Clock
<1>2. /\ us_count' \in Nat /\ elapsed' = us_count'
      /\ latch_val' = 0 => us_count' = 0
      /\ latch_val' # 0 => us_count' < latch_val'
  BY Counter DEF Clock
<1>3. presc' \in 0 .. (US_DIV - 1)
  BY TimerAssumption DEF Inv, TypeOK, Clock, TimerClock, us_tick
<1>4. hc' \in Period \cup {0} /\ latch_val' \in Period \cup {0} /\ enable' \in BOOLEAN
  BY AccessType DEF Inv, TypeOK, Clock, TimerClock
<1>5. int_set' \in BOOLEAN /\ int_clr' \in BOOLEAN /\ owed' \in BOOLEAN
  BY DEF Clock, TimerClock, History, Expires, Counting, us_tick, ReadsCsr, Inv, TypeOK
<1>6. TypeOK'
  BY <1>1, <1>2, <1>3, <1>4, <1>5 DEF TypeOK
<1>7. /\ int_set' => owed'
      /\ ~int_set' /\ int_clr' => ~owed'
  BY DEF Clock, TimerClock, History
<1>8. TickNotLost'
  <2>1. SUFFICES ASSUME ~int_set', ~int_clr' PROVE owed' <=> TIMER \in stat'
    BY DEF TickNotLost
  <2>2. owed' <=> owed
    BY <2>1, <1>5 DEF Clock, TimerClock, History, Inv, TypeOK
  <2>3. owed <=> int_set \/ (TIMER \in stat /\ ~int_clr)
    BY DEF Inv, TickNotLost, TypeOK
  <2> QED BY <2>2, <2>3, <1>1
<1> QED BY <1>1, <1>2, <1>6, <1>7, <1>8 DEF Inv

(* A reset leaves the initial state.                                       *)
LEMMA ResetInv == ASSUME Reset PROVE Inv'
<1>1. TypeOK'
  BY ZeroInRange, Zenon DEF Reset, TimerReset, IntcReset, TypeOK
<1>2. TickNotLost'
  BY Zenon DEF Reset, TimerReset, IntcReset, TickNotLost
<1> QED BY <1>1, <1>2, Zenon DEF Reset, TimerReset, IntcReset, Inv

(* Every step preserves the invariant.                                     *)
LEMMA NextInv == Inv /\ [Next]_vars => Inv'
<1> SUFFICES ASSUME Inv, [Next]_vars PROVE Inv'
  OBVIOUS
<1>1. CASE \E w \in Access, v \in {NoAccess, Unmask} : Clock(w, v)
  BY <1>1, ClockInv
<1>2. CASE Reset
  BY <1>2, ResetInv
<1>3. CASE UNCHANGED vars
  BY <1>3 DEF vars, timerVars, intcVars, Inv, TypeOK, TickNotLost
<1> QED BY <1>1, <1>2, <1>3 DEF Next

(* The timer and its interrupt bits are type correct: the prescaler stays  *)
(* below its divider, for every divider and set of periods.                *)
THEOREM HardclockTypes == Spec => []TypeOK
<1>1. Spec => []Inv
  BY InitInv, NextInv, PTL DEF Spec
<1>2. Inv => TypeOK
  BY DEF Inv
<1> QED BY <1>1, <1>2, PTL

(* The timer interrupt is pending exactly when a tick is owed to the       *)
(* guest: next_intc.sv's "set wins over clear in the same cycle" and the   *)
(* release by a CSR read in next_timer.sv lose no tick.                    *)
THEOREM NoTickLost == Spec => []TickNotLost
<1>1. Spec => []Inv
  BY InitInv, NextInv, PTL DEF Spec
<1>2. Inv => TickNotLost
  BY DEF Inv
<1> QED BY <1>1, <1>2, PTL

(* An expiry comes after the loaded number of microseconds, neither before *)
(* nor after, for every value of the latch and of the clock divider.       *)
THEOREM PeriodIsExact == Spec => ExactPeriod
<1>1. Inv /\ Inv' /\ [Next]_vars =>
        [/\ int_set' => enable /\ elapsed + 1 = latch_val
         /\ latch_val' # 0 => elapsed' < latch_val']_vars
  <2> SUFFICES ASSUME Inv, Inv', Next
               PROVE  /\ int_set' => enable /\ elapsed + 1 = latch_val
                      /\ latch_val' # 0 => elapsed' < latch_val'
    BY DEF vars
  <2>1. ASSUME int_set'
        PROVE  enable /\ elapsed + 1 = latch_val
    <3>1. PICK w \in Access, v \in {NoAccess, Unmask} : Clock(w, v)
      BY <2>1 DEF Next, Reset, TimerReset
    <3>2. Expires
      BY <2>1, <3>1 DEF Clock, TimerClock
    <3>3. us_count \in Nat /\ latch_val \in Nat /\ latch_val # 0
      BY <3>2, TimerAssumption DEF Inv, TypeOK, Expires, Counting
    <3> QED BY <3>2, <3>3 DEF Inv, Expires, Counting
  <2>2. latch_val' # 0 => elapsed' < latch_val'
    BY DEF Inv
  <2> QED BY <2>1, <2>2
<1>2. Spec => []Inv
  BY InitInv, NextInv, PTL DEF Spec
<1> QED BY <1>1, <1>2, PTL DEF Spec, ExactPeriod
=============================================================================
