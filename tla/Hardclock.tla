----------------------------- MODULE Hardclock -----------------------------
(***************************************************************************)
(* next_timer.sv and its bit of the interrupt controller: the hardclock    *)
(* that drives the guest's scheduler.  One step is one clock.  Of the CSR  *)
(* only the enable bit is kept; the staging bytes hc0 and hc1 are one      *)
(* value.                                                                  *)
(***************************************************************************)
EXTENDS Intc

CONSTANTS US_DIV,       \* clocks of a microsecond
          Period        \* values the guest loads into the latch

ASSUME TimerAssumption ==
    /\ US_DIV \in Nat \ {0} /\ Period \subseteq Nat /\ TIMER \in Source

VARIABLES
    hc, enable, latch_val, presc, us_count, int_set, int_clr,
    (* history: whether the timer has expired since the CSR was last read,  *)
    (* and the microseconds counted since it last expired or was loaded     *)
    owed, elapsed

timerVars == <<hc, enable, latch_val, presc, us_count, int_set, int_clr>>
vars == <<timerVars, intcVars, owed, elapsed>>

us_tick == presc = US_DIV - 1
Counting == us_tick /\ enable /\ latch_val # 0

(* Mutant: the period is one microsecond too long.                         *)
ExpiresLate == Counting /\ us_count >= latch_val

Expires == Counting /\ us_count >= latch_val - 1

(* A write of the CSR sets the enable bit and, with bit 6, loads the latch *)
(* and restarts the count.                                                 *)
Loads(w) == w.reg = "csr" /\ w.latch
ReadsCsr(w) == w.reg = "read csr"

Count(w) ==
    us_count' = IF Loads(w) \/ Expires THEN 0
                ELSE IF Counting THEN us_count + 1 ELSE us_count

TimerClock(w) ==
    /\ presc' = IF us_tick THEN 0 ELSE presc + 1
    /\ Count(w)
    /\ hc' = IF w.reg = "hc" THEN w.v ELSE hc
    /\ enable' = IF w.reg = "csr" THEN w.enable ELSE enable
    /\ latch_val' = IF Loads(w) THEN hc ELSE latch_val
    /\ int_set' = Expires /\ int_clr' = ReadsCsr(w)

TimerReset ==
    /\ hc' = 0 /\ enable' = FALSE /\ latch_val' = 0 /\ presc' = 0 /\ us_count' = 0
    /\ int_set' = FALSE /\ int_clr' = FALSE
-----------------------------------------------------------------------------
Init ==
    /\ hc = 0 /\ enable = FALSE /\ latch_val = 0 /\ presc = 0 /\ us_count = 0
    /\ int_set = FALSE /\ int_clr = FALSE
    /\ IntcInit /\ owed = FALSE /\ elapsed = 0

Access == {NoAccess, [reg |-> "read csr"]}
          \cup [reg : {"hc"}, v : Period]
          \cup [reg : {"csr"}, enable : BOOLEAN, latch : BOOLEAN]
Unmask == [reg |-> "mask", half |-> 1, lanes |-> {TIMER}, v |-> {TIMER}]

Pulse(p) == IF p THEN {TIMER} ELSE {}
History(w) ==
    /\ owed' = (Expires \/ (owed /\ ~ReadsCsr(w)))
    /\ elapsed' = IF Expires \/ Loads(w) THEN 0
                  ELSE IF Counting THEN elapsed + 1 ELSE elapsed

(* A clock with one access of the CPU, to the timer (w) or to the          *)
(* controller (v); the guest does not write the controller's status.       *)
Clock(w, v) ==
    /\ w = NoAccess \/ v = NoAccess
    /\ TimerClock(w) /\ IntcClock({}, Pulse(int_set), Pulse(int_clr), v)
    /\ History(w)

(* dev_reset reaches both.                                                 *)
Reset == TimerReset /\ IntcReset({}) /\ owed' = FALSE /\ elapsed' = 0

Next == (\E w \in Access, v \in {NoAccess, Unmask} : Clock(w, v)) \/ Reset

Spec == Init /\ [][Next]_vars
-----------------------------------------------------------------------------
TypeOK ==
    /\ hc \in Period \cup {0} /\ latch_val \in Period \cup {0}
    /\ presc \in 0 .. (US_DIV - 1) /\ us_count \in Nat /\ elapsed \in Nat
    /\ enable \in BOOLEAN /\ int_set \in BOOLEAN /\ int_clr \in BOOLEAN
    /\ owed \in BOOLEAN /\ stat \subseteq Source /\ mask \subseteq Source

(* No tick is lost and none is seen twice: once the pulses have passed,    *)
(* INT_TIMER is pending exactly when the timer has expired since the CSR   *)
(* was last read, an expiry in the very clock of the read included.        *)
TickNotLost == ~int_set /\ ~int_clr => (owed <=> TIMER \in stat)

(* The timer expires when the loaded number of microseconds has been       *)
(* counted, however often it was stopped, and never while stopped: no      *)
(* expiry comes before, and none is left out, for the microseconds counted *)
(* since the last never reach that number.                                 *)
ExactPeriod ==
    [][/\ int_set' => enable /\ elapsed + 1 = latch_val
       /\ latch_val' # 0 => elapsed' < latch_val']_vars

(* The inductive invariant behind both: what a pulse still on its way says *)
(* about owed, and that the counter stays below the latch.                 *)
Inv ==
    /\ TypeOK /\ line_d = {}
    /\ int_set => owed
    /\ ~int_set /\ int_clr => ~owed
    /\ TickNotLost
    /\ elapsed = us_count
    /\ latch_val = 0 => us_count = 0
    /\ latch_val # 0 => us_count < latch_val
=============================================================================
