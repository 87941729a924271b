-------------------------------- MODULE Intc -------------------------------
(***************************************************************************)
(* next_intc.sv and the conversion of device lines to pulses in front of   *)
(* it (next_system.sv).  A register is the set of its one bits; a source   *)
(* is a bit number.                                                        *)
(***************************************************************************)
EXTENDS Integers, FiniteSetsExt

CONSTANTS Source,       \* the interrupt bits considered, a subset of 0..31
          Forced        \* FORCED_MASK: bits every mask write sets

ASSUME SourceAssumption == Source \subseteq 0 .. 31 /\ Forced \subseteq Source

VARIABLES stat, mask,
          line_d        \* the lines as of the clock before

intcVars == <<stat, mask, line_d>>

TIMER == 29
SND_IN == 22
NoAccess == [reg |-> "none"]

(* The level of a source; the timer is promoted by SCR2.                   *)
Level(s, timer_ipl7) ==
    IF s >= 30 \/ (s = TIMER /\ timer_ipl7) THEN 7
    ELSE IF s >= 18 THEN 6 ELSE IF s >= 15 THEN 5 ELSE IF s = 14 THEN 4
    ELSE IF s >= 2 THEN 3 ELSE s + 1
ipl(timer_ipl7) == Max({0} \cup {Level(s, timer_ipl7) : s \in stat \cap mask})

IntcInit == stat = {} /\ mask = {} /\ line_d = {}

(* A line that rises requests its interrupt, one that falls releases it.   *)
Rising(line) == line \ line_d
Falling(line) == line_d \ line

(* A CPU write names a half of a register and the bits of the enabled      *)
(* bytes; the other byte of that half keeps the value it had before the    *)
(* pulses of this clock.                                                   *)
InHalf(h) == {s \in Source : s \div 16 = h}
Merged(r, w) == ((InHalf(w.half) \cap r) \ w.lanes) \cup (w.v \cap w.lanes)

(* Mutant: a release wins over a request of the same clock.                *)
PulsedClearWins(line, set, clr) ==
    (stat \cup set \cup Rising(line)) \ (clr \cup Falling(line))

Pulsed(line, set, clr) ==
    (stat \ (clr \cup Falling(line))) \cup set \cup Rising(line)

(* A clock: line are the high level lines, set and clr the pulses of the   *)
(* sources that make their own, w the CPU's access.                        *)
IntcClock(line, set, clr, w) ==
    LET pulsed == Pulsed(line, set, clr)
    IN  /\ stat' = IF w.reg = "stat"
                   THEN (pulsed \ InHalf(w.half)) \cup Merged(stat, w) ELSE pulsed
        /\ mask' = IF w.reg = "mask"
                   THEN (mask \ InHalf(w.half)) \cup Merged(mask, w)
                        \cup (Forced \cap InHalf(w.half)) ELSE mask
        /\ line_d' = line

IntcReset(line) == stat' = {} /\ mask' = {} /\ line_d' = line
=============================================================================
