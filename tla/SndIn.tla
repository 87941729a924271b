------------------------------- MODULE SndIn -------------------------------
(***************************************************************************)
(* next_snd_in.sv: the sound-input DMA channel, clock by clock.            *)
(*                                                                         *)
(* ch is the record of the module's registers; the assignments of one      *)
(* clock are computed from the old registers and a later one wins.  The    *)
(* CSR is its four bits en, sup, cmp and exc.  A pointer is written in one *)
(* step; the saved pointers, which the engine never reads, and the mu-law  *)
(* encoding of a sample are left out.  The fractional sample clock is      *)
(* reduced to its tick.                                                    *)
(***************************************************************************)
EXTENDS Integers, Sequences

CONSTANTS WordBytes,    \* 4: bytes of a DMA word
          PerWord,      \* 4: samples packed into one DMA word
          Sample,       \* sample values
          RamTop,       \* addresses below RamTop are main RAM
          AddrTop       \* largest pointer considered

ASSUME SndInAssumption ==
    /\ {WordBytes, PerWord} \subseteq Nat \ {0}
    /\ RamTop \in Nat /\ AddrTop \in Nat /\ Sample # {}

VARIABLE ch

NoWrite == [reg |-> "none"]
Command == {"SETENABLE", "SETSUPDATE", "DEV2M", "CLRCOMPLETE", "RESET", "INITBUF"}

ChReset == [
    en |-> FALSE, sup |-> FALSE, cmp |-> FALSE, exc |-> FALSE,
    next_ptr |-> 0, limit_ptr |-> 0, start_ptr |-> 0, stop_ptr |-> 0,
    sample_count |-> 0, samples |-> <<>>, m_din |-> <<>>,
    request_status |-> FALSE, overrun |-> FALSE,
    m_req |-> FALSE, m_addr |-> 0, cancelled |-> FALSE]

bad_window == \/ ch.next_ptr % WordBytes # 0 \/ ch.limit_ptr % WordBytes # 0
              \/ ch.next_ptr > ch.limit_ptr
csr_cmd(w) == IF w.reg = "csr" THEN w.cmd ELSE {}
csr_reset(w) == "RESET" \in csr_cmd(w)
m_err == ch.m_req /\ ch.m_addr >= RamTop

(* The assignments of a clock in the order of the code: each takes the     *)
(* registers c as assigned so far and reads the old ones, ch.              *)
complete_segment(c, active) ==
    IF ch.sup
    THEN [c EXCEPT !.cmp = TRUE, !.sup = FALSE,
                   !.next_ptr = ch.start_ptr, !.limit_ptr = ch.stop_ptr]
    ELSE [c EXCEPT !.cmp = TRUE, !.en = FALSE, !.overrun = @ \/ active]

bus_exception(c) == [c EXCEPT !.en = FALSE, !.cmp = TRUE, !.exc = TRUE]
-----------------------------------------------------------------------------
(* Mutant: a word that meets a busy bus is dropped without a sign.         *)
StartWordQuiet(c, s, w) ==
    IF ~ch.en THEN [c EXCEPT !.request_status = TRUE, !.overrun = TRUE]
    ELSE IF ~ch.m_req /\ ~bad_window /\ ch.next_ptr < ch.limit_ptr /\ ~csr_reset(w)
    THEN [c EXCEPT !.request_status = TRUE, !.m_addr = ch.next_ptr,
                   !.m_din = Append(ch.samples, s), !.m_req = TRUE, !.cancelled = FALSE]
    ELSE [c EXCEPT !.request_status = TRUE]

(* The codec: a sample is shifted in; the last of a word starts a DMA      *)
(* write, if the channel can take it.                                      *)
StartWord(c, s, w) ==
    IF ~ch.en \/ ch.m_req THEN [c EXCEPT !.request_status = TRUE, !.overrun = TRUE]
    ELSE IF ~bad_window /\ ch.next_ptr < ch.limit_ptr /\ ~csr_reset(w)
    THEN [c EXCEPT !.request_status = TRUE, !.m_addr = ch.next_ptr,
                   !.m_din = Append(ch.samples, s), !.m_req = TRUE, !.cancelled = FALSE]
    ELSE [c EXCEPT !.request_status = TRUE]

(* Mutant: the count of samples does not come round.                       *)
CodecNoWrap(c, active, tick, s, w) ==
    IF active /\ tick THEN [c EXCEPT !.sample_count = @ + 1] ELSE c

Codec(c, active, tick, s, w) ==
    IF ~active THEN [c EXCEPT !.sample_count = 0]
    ELSE IF ~tick THEN c
    ELSE LET shifted == [c EXCEPT
                 !.sample_count = (ch.sample_count + 1) % PerWord,
                 !.samples = IF Len(ch.samples) = PerWord - 1
                             THEN Tail(Append(ch.samples, s)) ELSE Append(ch.samples, s)]
         IN  IF ch.sample_count = PerWord - 1 THEN StartWord(shifted, s, w) ELSE shifted

(* The answer to the request, which counts unless it was aborted.          *)
answer(m_ack) == ch.m_req /\ (m_ack \/ m_err)

(* Mutant: the answer to an aborted request counts.                        *)
CountsLate(m_ack, w) == answer(m_ack) /\ ~csr_reset(w)

Counts(m_ack, w) == answer(m_ack) /\ ~ch.cancelled /\ ~csr_reset(w)
Unoccupied(w) == ~ch.m_req /\ ch.en /\ ~csr_reset(w)

Faults(m_ack, w) == \/ Counts(m_ack, w) /\ m_err
                    \/ Unoccupied(w) /\ bad_window
Moves(m_ack, w) == Counts(m_ack, w) /\ ~m_err
Ends(m_ack, w) ==
    \/ Moves(m_ack, w) /\ ch.next_ptr + WordBytes = ch.limit_ptr
    \/ Unoccupied(w) /\ ~bad_window /\ ch.next_ptr = ch.limit_ptr
completion_event(m_ack, w) == Faults(m_ack, w) \/ Ends(m_ack, w)

(* The answer of the bus, or the end of a segment that needs no transfer.  *)
Event(c, active, m_ack, w) ==
    LET moved == IF Moves(m_ack, w) THEN [c EXCEPT !.next_ptr = ch.next_ptr + WordBytes]
                 ELSE c
    IN  IF Faults(m_ack, w) THEN bus_exception(c)
        ELSE IF Ends(m_ack, w) THEN complete_segment(moved, active) ELSE moved
Answered(c, m_ack) ==
    IF answer(m_ack) THEN [c EXCEPT !.m_req = FALSE, !.cancelled = FALSE] ELSE c

(* Mutant: COMPLETE is cleared although the channel has stopped, the fault *)
(* docs/SCSI_DMA.md describes.                                             *)
AcknowledgesAlways(cmd) == "CLRCOMPLETE" \in cmd

(* CLRCOMPLETE acknowledges a running or reenabled channel only.           *)
Acknowledges(cmd) == "CLRCOMPLETE" \in cmd /\ (ch.en \/ "SETENABLE" \in cmd)

(* A CSR command.  A completion of this very clock survives the            *)
(* acknowledgement of an older one, and a stopped channel keeps COMPLETE.  *)
refused(cmd) == "SETENABLE" \in cmd /\ (bad_window \/ "DEV2M" \notin cmd)
CsrReset(c, cmd, m_ack) ==
    IF "RESET" \in cmd
    THEN [c EXCEPT !.en = FALSE, !.sup = FALSE, !.cmp = FALSE,
                   !.cancelled = @ \/ (ch.m_req /\ ~m_ack /\ ~m_err)]
    ELSE c
CsrEnable(c, cmd) ==
    IF refused(cmd) THEN bus_exception(c)
    ELSE IF "SETENABLE" \in cmd THEN [c EXCEPT !.en = TRUE] ELSE c
Csr(c, cmd, m_ack, event) ==
    LET r == CsrReset(c, cmd, m_ack)
        e == CsrEnable([r EXCEPT
                 !.sample_count = IF "INITBUF" \in cmd THEN 0 ELSE @,
                 !.sup = @ \/ "SETSUPDATE" \in cmd], cmd)
    IN  [e EXCEPT !.cmp = @ /\ ~(Acknowledges(cmd) /\ ~event /\ ~refused(cmd))]

CpuPointer(c, w) ==
    [c EXCEPT !.next_ptr = IF w.reg = "next_ptr" THEN w.a ELSE @,
              !.limit_ptr = IF w.reg = "limit_ptr" THEN w.a ELSE @,
              !.start_ptr = IF w.reg = "start_ptr" THEN w.a ELSE @,
              !.stop_ptr = IF w.reg = "stop_ptr" THEN w.a ELSE @]

ClearStatus(c, clear) ==
    [c EXCEPT !.request_status = @ /\ ~clear, !.overrun = @ /\ ~clear]

(* A clock: s is the codec's sample, tick its strobe, m_ack the answer of  *)
(* the bus, w the CPU's register write.                                    *)
ChClock(active, clear, tick, s, m_ack, w) ==
    LET codec == Codec(ch, active, tick, s, w)
        engine == Event(Answered(codec, m_ack), active, m_ack, w)
        cpu == Csr(CpuPointer(engine, w), csr_cmd(w), m_ack, completion_event(m_ack, w))
    IN  ch' = ClearStatus(cpu, clear)
-----------------------------------------------------------------------------
(* The registers' types, pointers of any size.                             *)
Channel == [
    en : BOOLEAN, sup : BOOLEAN, cmp : BOOLEAN, exc : BOOLEAN,
    next_ptr : Nat, limit_ptr : Nat, start_ptr : Nat, stop_ptr : Nat,
    sample_count : 0 .. (PerWord - 1), samples : Seq(Sample), m_din : Seq(Sample),
    request_status : BOOLEAN, overrun : BOOLEAN,
    m_req : BOOLEAN, m_addr : Nat, cancelled : BOOLEAN]

Pointer == {"next_ptr", "limit_ptr", "start_ptr", "stop_ptr"}

ChTypeOK ==
    /\ ch \in Channel
    /\ {ch.next_ptr, ch.limit_ptr, ch.start_ptr, ch.stop_ptr, ch.m_addr} \subseteq 0 .. AddrTop
    /\ Len(ch.samples) < PerWord /\ Len(ch.m_din) <= PerWord
=============================================================================
