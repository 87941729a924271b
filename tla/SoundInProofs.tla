--------------------------- MODULE SoundInProofs ---------------------------
(* Proofs about recording for every word size, set of buffers, order of    *)
(* the driver's accesses and timing of the bus.                            *)
EXTENDS SoundIn, TLAPS, SequenceTheorems

-----------------------------------------------------------------------------
(* The channel's clock, field by field.                                    *)

Starts(active, tick, w) ==
    /\ active /\ tick /\ ch.sample_count = PerWord - 1 /\ ch.en /\ ~ch.m_req
    /\ ~bad_window /\ ch.next_ptr < ch.limit_ptr /\ ~csr_reset(w)

LEMMA CodecFields ==
  ASSUME ch \in Channel, NEW active \in BOOLEAN, NEW tick \in BOOLEAN,
         NEW s \in Sample, NEW w
  PROVE  LET c == Codec(ch, active, tick, s, w)
         IN  /\ c \in Channel
             /\ c.en = ch.en /\ c.sup = ch.sup /\ c.cmp = ch.cmp /\ c.exc = ch.exc
             /\ c.next_ptr = ch.next_ptr /\ c.limit_ptr = ch.limit_ptr
             /\ c.start_ptr = ch.start_ptr /\ c.stop_ptr = ch.stop_ptr
             /\ c.m_req = (ch.m_req \/ Starts(active, tick, w))
             /\ c.m_addr = IF Starts(active, tick, w) THEN ch.next_ptr ELSE ch.m_addr
             /\ c.m_din = IF Starts(active, tick, w) THEN Append(ch.samples, s) ELSE ch.m_din
             /\ c.cancelled = (ch.cancelled /\ ~Starts(active, tick, w))
             /\ c.sample_count = IF ~active THEN 0
                                 ELSE IF ~tick THEN ch.sample_count
                                 ELSE (ch.sample_count + 1) % PerWord
             /\ c.samples = IF ~active \/ ~tick THEN ch.samples
                            ELSE IF Len(ch.samples) = PerWord - 1
                            THEN Tail(Append(ch.samples, s)) ELSE Append(ch.samples, s)
             /\ c.overrun = (ch.overrun \/ (active /\ tick /\ ch.sample_count = PerWord - 1
                                            /\ (~ch.en \/ ch.m_req)))
  <1> DEFINE c == Codec(ch, active, tick, s, w)
  <1>0. PerWord \in Nat \ {0} /\ 0 \in 0 .. (PerWord - 1)
    BY SndInAssumption
  <1>1. CASE ~active
    <2>1. c = [ch EXCEPT !.sample_count = 0]
      BY <1>1 DEF Codec
    <2>2. /\ c \in Channel /\ c.en = ch.en /\ c.sup = ch.sup /\ c.cmp = ch.cmp
          /\ c.exc = ch.exc /\ c.next_ptr = ch.next_ptr /\ c.limit_ptr = ch.limit_ptr
          /\ c.start_ptr = ch.start_ptr /\ c.stop_ptr = ch.stop_ptr /\ c.m_req = ch.m_req
          /\ c.m_addr = ch.m_addr /\ c.m_din = ch.m_din /\ c.cancelled = ch.cancelled
          /\ c.sample_count = 0 /\ c.samples = ch.samples /\ c.overrun = ch.overrun
          /\ c.request_status = ch.request_status
      BY <1>0, <2>1 DEF Channel
    <2>3. ~Starts(active, tick, w)
      BY <1>1 DEF Starts
    <2>4. ch.m_req \in BOOLEAN /\ ch.cancelled \in BOOLEAN /\ ch.overrun \in BOOLEAN
      BY DEF Channel
    <2> HIDE DEF c
    <2> QED BY <1>1, <2>2, <2>3, <2>4 DEF c
  <1>2. CASE active /\ ~tick
    <2>1. c = ch
      BY <1>2 DEF Codec
    <2> QED BY <1>0, <1>2, <2>1 DEF Channel, Starts
  <1>3. CASE active /\ tick
    <2> DEFINE n == (ch.sample_count + 1) % PerWord
               q == IF Len(ch.samples) = PerWord - 1
                    THEN Tail(Append(ch.samples, s)) ELSE Append(ch.samples, s)
               sh == [ch EXCEPT !.sample_count = n, !.samples = q]
    <2>1. n \in 0 .. (PerWord - 1)
      BY <1>0 DEF Channel
    <2>2. q \in Seq(Sample) /\ Append(ch.samples, s) \in Seq(Sample)
      BY DEF Channel
    <2>3. c = IF ch.sample_count = PerWord - 1 THEN StartWord(sh, s, w) ELSE sh
      BY <1>3 DEF Codec
    <2> HIDE DEF n, q
    <2>4. /\ sh \in Channel /\ sh.sample_count = n /\ sh.samples = q
          /\ sh.en = ch.en /\ sh.sup = ch.sup /\ sh.cmp = ch.cmp /\ sh.exc = ch.exc
          /\ sh.next_ptr = ch.next_ptr /\ sh.limit_ptr = ch.limit_ptr
          /\ sh.start_ptr = ch.start_ptr /\ sh.stop_ptr = ch.stop_ptr
          /\ sh.m_req = ch.m_req /\ sh.m_addr = ch.m_addr /\ sh.m_din = ch.m_din
          /\ sh.cancelled = ch.cancelled /\ sh.overrun = ch.overrun
          /\ sh.request_status = ch.request_status
      BY <2>1, <2>2 DEF Channel
    <2> HIDE DEF sh
    <2>9. ch.m_req \in BOOLEAN /\ ch.cancelled \in BOOLEAN /\ ch.overrun \in BOOLEAN
      BY DEF Channel
    <2>5. CASE ch.sample_count # PerWord - 1
      BY <1>3, <2>3, <2>4, <2>5 DEF Starts, n, q, Channel
    <2>6. CASE ch.sample_count = PerWord - 1 /\ (~ch.en \/ ch.m_req)
      <3>1. c = [sh EXCEPT !.request_status = TRUE, !.overrun = TRUE]
        BY <2>3, <2>6 DEF StartWord
      <3>2. ~Starts(active, tick, w)
        BY <2>6 DEF Starts
      <3>3. /\ c \in Channel /\ c.en = sh.en /\ c.sup = sh.sup /\ c.cmp = sh.cmp
            /\ c.exc = sh.exc /\ c.next_ptr = sh.next_ptr /\ c.limit_ptr = sh.limit_ptr
            /\ c.start_ptr = sh.start_ptr /\ c.stop_ptr = sh.stop_ptr /\ c.m_req = sh.m_req
            /\ c.m_addr = sh.m_addr /\ c.m_din = sh.m_din /\ c.cancelled = sh.cancelled
            /\ c.sample_count = sh.sample_count /\ c.samples = sh.samples
            /\ c.overrun = TRUE /\ c.request_status = TRUE
        BY <2>4, <3>1 DEF Channel
      <3> HIDE DEF c
      <3> QED BY <1>3, <2>4, <2>6, <2>9, <3>2, <3>3 DEF n, q, c
    <2>7. CASE ch.sample_count = PerWord - 1 /\ ~(~ch.en \/ ch.m_req) /\ Starts(active, tick, w)
      <3>1. c = [sh EXCEPT !.request_status = TRUE, !.m_addr = ch.next_ptr,
                   !.m_din = Append(ch.samples, s), !.m_req = TRUE, !.cancelled = FALSE]
        BY <2>3, <2>7 DEF StartWord, Starts
      <3>2. /\ c \in Channel /\ c.en = sh.en /\ c.sup = sh.sup /\ c.cmp = sh.cmp
            /\ c.exc = sh.exc /\ c.next_ptr = sh.next_ptr /\ c.limit_ptr = sh.limit_ptr
            /\ c.start_ptr = sh.start_ptr /\ c.stop_ptr = sh.stop_ptr /\ c.m_req = TRUE
            /\ c.m_addr = ch.next_ptr /\ c.m_din = Append(ch.samples, s)
            /\ c.cancelled = FALSE /\ c.sample_count = sh.sample_count
            /\ c.samples = sh.samples /\ c.overrun = sh.overrun /\ c.request_status = TRUE
        BY <2>2, <2>4, <3>1 DEF Channel
      <3> HIDE DEF c
      <3> QED BY <1>3, <2>4, <2>7, <2>9, <3>2 DEF n, q, c
    <2>8. CASE ch.sample_count = PerWord - 1 /\ ~(~ch.en \/ ch.m_req) /\ ~Starts(active, tick, w)
      <3>1. c = [sh EXCEPT !.request_status = TRUE]
        BY <1>3, <2>3, <2>8 DEF StartWord, Starts
      <3>2. /\ c \in Channel /\ c.en = sh.en /\ c.sup = sh.sup /\ c.cmp = sh.cmp
            /\ c.exc = sh.exc /\ c.next_ptr = sh.next_ptr /\ c.limit_ptr = sh.limit_ptr
            /\ c.start_ptr = sh.start_ptr /\ c.stop_ptr = sh.stop_ptr /\ c.m_req = sh.m_req
            /\ c.m_addr = sh.m_addr /\ c.m_din = sh.m_din /\ c.cancelled = sh.cancelled
            /\ c.sample_count = sh.sample_count /\ c.samples = sh.samples
            /\ c.overrun = sh.overrun /\ c.request_status = TRUE
        BY <2>4, <3>1 DEF Channel
      <3> HIDE DEF c
      <3> QED BY <1>3, <2>4, <2>8, <2>9, <3>2 DEF n, q, c
    <2> QED BY <2>5, <2>6, <2>7, <2>8
  <1> QED BY <1>1, <1>2, <1>3

LEMMA AnsweredFields ==
  ASSUME ch \in Channel, NEW c \in Channel, NEW m_ack \in BOOLEAN
  PROVE  LET d == Answered(c, m_ack)
         IN  /\ d \in Channel /\ d.en = c.en /\ d.sup = c.sup /\ d.cmp = c.cmp
             /\ d.exc = c.exc /\ d.next_ptr = c.next_ptr /\ d.limit_ptr = c.limit_ptr
             /\ d.start_ptr = c.start_ptr /\ d.stop_ptr = c.stop_ptr
             /\ d.m_req = (c.m_req /\ ~answer(m_ack)) /\ d.m_addr = c.m_addr
             /\ d.m_din = c.m_din /\ d.cancelled = (c.cancelled /\ ~answer(m_ack))
             /\ d.sample_count = c.sample_count /\ d.samples = c.samples
             /\ d.overrun = c.overrun
  <1>1. CASE answer(m_ack)
    <2>1. Answered(c, m_ack) = [c EXCEPT !.m_req = FALSE, !.cancelled = FALSE]
      BY <1>1 DEF Answered
    <2> QED BY <1>1, <2>1 DEF Channel
  <1>2. CASE ~answer(m_ack)
    <2>1. Answered(c, m_ack) = c
      BY <1>2 DEF Answered
    <2> QED BY <1>2, <2>1 DEF Channel
  <1> QED BY <1>1, <1>2

LEMMA OneEvent ==
  ASSUME NEW m_ack \in BOOLEAN, NEW w
  PROVE  /\ ~(Faults(m_ack, w) /\ Ends(m_ack, w))
         /\ ~(Faults(m_ack, w) /\ Moves(m_ack, w))
  BY DEF Faults, Ends, Moves, Counts, Unoccupied, answer

LEMMA EventFields ==
  ASSUME ch \in Channel, NEW c \in Channel, NEW active \in BOOLEAN, NEW m_ack \in BOOLEAN,
         NEW w
  PROVE  LET d == Event(c, active, m_ack, w)
             ends == Ends(m_ack, w)
             faults == Faults(m_ack, w)
         IN  /\ d \in Channel /\ d.en = (c.en /\ ~faults /\ ~(ends /\ ~ch.sup))
             /\ d.sup = (c.sup /\ ~(ends /\ ch.sup)) /\ d.cmp = (c.cmp \/ faults \/ ends)
             /\ d.exc = (c.exc \/ faults)
             /\ d.next_ptr = IF ends /\ ch.sup THEN ch.start_ptr
                             ELSE IF Moves(m_ack, w) THEN ch.next_ptr + WordBytes ELSE c.next_ptr
             /\ d.limit_ptr = IF ends /\ ch.sup THEN ch.stop_ptr ELSE c.limit_ptr
             /\ d.start_ptr = c.start_ptr /\ d.stop_ptr = c.stop_ptr /\ d.m_req = c.m_req
             /\ d.m_addr = c.m_addr /\ d.m_din = c.m_din /\ d.cancelled = c.cancelled
             /\ d.sample_count = c.sample_count /\ d.samples = c.samples
             /\ d.overrun = (c.overrun \/ (ends /\ ~ch.sup /\ active))
  <1> DEFINE d == Event(c, active, m_ack, w)
             n == ch.next_ptr + WordBytes
             moved == IF Moves(m_ack, w) THEN [c EXCEPT !.next_ptr = n] ELSE c
  <1>1. d = IF Faults(m_ack, w) THEN bus_exception(c)
            ELSE IF Ends(m_ack, w) THEN complete_segment(moved, active) ELSE moved
    BY DEF Event
  <1>2. n \in Nat
    <2>1. WordBytes \in Nat
      BY SndInAssumption
    <2>2. ch.next_ptr \in Nat
      BY DEF Channel
    <2> QED BY <2>1, <2>2
  <1> HIDE DEF n
  <1>3. /\ moved \in Channel /\ moved.en = c.en /\ moved.sup = c.sup /\ moved.cmp = c.cmp
        /\ moved.exc = c.exc
        /\ moved.next_ptr = IF Moves(m_ack, w) THEN n ELSE c.next_ptr
        /\ moved.limit_ptr = c.limit_ptr /\ moved.start_ptr = c.start_ptr
        /\ moved.stop_ptr = c.stop_ptr /\ moved.m_req = c.m_req /\ moved.m_addr = c.m_addr
        /\ moved.m_din = c.m_din /\ moved.cancelled = c.cancelled
        /\ moved.sample_count = c.sample_count /\ moved.samples = c.samples
        /\ moved.overrun = c.overrun
    BY <1>2 DEF Channel
  <1>4. /\ c.en \in BOOLEAN /\ c.sup \in BOOLEAN /\ c.cmp \in BOOLEAN /\ c.exc \in BOOLEAN
        /\ c.overrun \in BOOLEAN /\ ch.start_ptr \in Nat /\ ch.stop_ptr \in Nat
    BY DEF Channel
  <1> HIDE DEF moved
  <1>5. CASE Faults(m_ack, w)
    <2>1. d = [c EXCEPT !.en = FALSE, !.cmp = TRUE, !.exc = TRUE]
      BY <1>1, <1>5 DEF bus_exception
    <2>2. /\ d \in Channel /\ d.en = FALSE /\ d.sup = c.sup /\ d.cmp = TRUE /\ d.exc = TRUE
          /\ d.next_ptr = c.next_ptr /\ d.limit_ptr = c.limit_ptr
          /\ d.start_ptr = c.start_ptr /\ d.stop_ptr = c.stop_ptr /\ d.m_req = c.m_req
          /\ d.m_addr = c.m_addr /\ d.m_din = c.m_din /\ d.cancelled = c.cancelled
          /\ d.sample_count = c.sample_count /\ d.samples = c.samples
          /\ d.overrun = c.overrun
      BY <2>1 DEF Channel
    <2> HIDE DEF d
    <2> QED BY <1>4, <1>5, <2>2, OneEvent DEF d
  <1>6. CASE ~Faults(m_ack, w) /\ Ends(m_ack, w) /\ ch.sup
    <2>1. d = [moved EXCEPT !.cmp = TRUE, !.sup = FALSE,
                            !.next_ptr = ch.start_ptr, !.limit_ptr = ch.stop_ptr]
      BY <1>1, <1>6 DEF complete_segment
    <2>2. /\ d \in Channel /\ d.en = moved.en /\ d.sup = FALSE /\ d.cmp = TRUE
          /\ d.exc = moved.exc /\ d.next_ptr = ch.start_ptr /\ d.limit_ptr = ch.stop_ptr
          /\ d.start_ptr = moved.start_ptr /\ d.stop_ptr = moved.stop_ptr
          /\ d.m_req = moved.m_req /\ d.m_addr = moved.m_addr /\ d.m_din = moved.m_din
          /\ d.cancelled = moved.cancelled /\ d.sample_count = moved.sample_count
          /\ d.samples = moved.samples /\ d.overrun = moved.overrun
      BY <1>3, <1>4, <2>1 DEF Channel
    <2> HIDE DEF d
    <2> QED BY <1>3, <1>4, <1>6, <2>2 DEF d
  <1>7. CASE ~Faults(m_ack, w) /\ Ends(m_ack, w) /\ ~ch.sup
    <2>1. d = [moved EXCEPT !.cmp = TRUE, !.en = FALSE, !.overrun = moved.overrun \/ active]
      BY <1>1, <1>7 DEF complete_segment
    <2>2. /\ d \in Channel /\ d.en = FALSE /\ d.sup = moved.sup /\ d.cmp = TRUE
          /\ d.exc = moved.exc /\ d.next_ptr = moved.next_ptr
          /\ d.limit_ptr = moved.limit_ptr /\ d.start_ptr = moved.start_ptr
          /\ d.stop_ptr = moved.stop_ptr /\ d.m_req = moved.m_req /\ d.m_addr = moved.m_addr
          /\ d.m_din = moved.m_din /\ d.cancelled = moved.cancelled
          /\ d.sample_count = moved.sample_count /\ d.samples = moved.samples
          /\ d.overrun = (moved.overrun \/ active)
      BY <1>3, <1>4, <2>1 DEF Channel
    <2> HIDE DEF d
    <2> QED BY <1>3, <1>4, <1>7, <2>2 DEF d, n
  <1>8. CASE ~Faults(m_ack, w) /\ ~Ends(m_ack, w)
    <2>1. d = moved
      BY <1>1, <1>8
    <2> HIDE DEF d
    <2> QED BY <1>3, <1>4, <1>8, <2>1 DEF d, n
  <1> QED BY <1>5, <1>6, <1>7, <1>8

LEMMA PointerFields ==
  ASSUME NEW c \in Channel, NEW w, w.reg \in Pointer => w.a \in Nat
  PROVE  LET d == CpuPointer(c, w)
         IN  /\ d \in Channel /\ d.en = c.en /\ d.sup = c.sup /\ d.cmp = c.cmp
             /\ d.exc = c.exc
             /\ d.next_ptr = IF w.reg = "next_ptr" THEN w.a ELSE c.next_ptr
             /\ d.limit_ptr = IF w.reg = "limit_ptr" THEN w.a ELSE c.limit_ptr
             /\ d.start_ptr = IF w.reg = "start_ptr" THEN w.a ELSE c.start_ptr
             /\ d.stop_ptr = IF w.reg = "stop_ptr" THEN w.a ELSE c.stop_ptr
             /\ d.m_req = c.m_req /\ d.m_addr = c.m_addr /\ d.m_din = c.m_din
             /\ d.cancelled = c.cancelled /\ d.sample_count = c.sample_count
             /\ d.samples = c.samples /\ d.overrun = c.overrun
  BY DEF CpuPointer, Channel, Pointer

LEMMA CsrResetFields ==
  ASSUME ch \in Channel, NEW c \in Channel, NEW m_ack \in BOOLEAN, NEW cmd
  PROVE  LET d == CsrReset(c, cmd, m_ack)
             rst == "RESET" \in cmd
         IN  /\ d \in Channel /\ d.en = (c.en /\ ~rst) /\ d.sup = (c.sup /\ ~rst)
             /\ d.cmp = (c.cmp /\ ~rst) /\ d.exc = c.exc /\ d.next_ptr = c.next_ptr
             /\ d.limit_ptr = c.limit_ptr /\ d.start_ptr = c.start_ptr
             /\ d.stop_ptr = c.stop_ptr /\ d.m_req = c.m_req /\ d.m_addr = c.m_addr
             /\ d.m_din = c.m_din
             /\ d.cancelled = (c.cancelled \/ (rst /\ ch.m_req /\ ~m_ack /\ ~m_err))
             /\ d.sample_count = c.sample_count /\ d.samples = c.samples
             /\ d.overrun = c.overrun
  <1> DEFINE d == CsrReset(c, cmd, m_ack)
             late == ch.m_req /\ ~m_ack /\ ~m_err
  <1>1. /\ c.en \in BOOLEAN /\ c.sup \in BOOLEAN /\ c.cmp \in BOOLEAN
        /\ c.cancelled \in BOOLEAN /\ late \in BOOLEAN
    BY DEF Channel
  <1> HIDE DEF late
  <1>2. CASE "RESET" \in cmd
    <2>1. d = [c EXCEPT !.en = FALSE, !.sup = FALSE, !.cmp = FALSE,
                        !.cancelled = c.cancelled \/ late]
      BY <1>2 DEF CsrReset, late
    <2>2. /\ d \in Channel /\ d.en = FALSE /\ d.sup = FALSE /\ d.cmp = FALSE
          /\ d.exc = c.exc /\ d.next_ptr = c.next_ptr /\ d.limit_ptr = c.limit_ptr
          /\ d.start_ptr = c.start_ptr /\ d.stop_ptr = c.stop_ptr /\ d.m_req = c.m_req
          /\ d.m_addr = c.m_addr /\ d.m_din = c.m_din /\ d.cancelled = (c.cancelled \/ late)
          /\ d.sample_count = c.sample_count /\ d.samples = c.samples
          /\ d.overrun = c.overrun
      BY <1>1, <2>1 DEF Channel
    <2> HIDE DEF d
    <2> QED BY <1>1, <1>2, <2>2 DEF d, late
  <1>3. CASE "RESET" \notin cmd
    <2>1. d = c
      BY <1>3 DEF CsrReset
    <2> HIDE DEF d
    <2> QED BY <1>1, <1>3, <2>1 DEF d, late
  <1> QED BY <1>2, <1>3

LEMMA CsrFields ==
  ASSUME ch \in Channel, NEW c \in Channel, NEW m_ack \in BOOLEAN, NEW cmd, NEW event
  PROVE  LET d == Csr(c, cmd, m_ack, event)
             rst == "RESET" \in cmd
             set == "SETENABLE" \in cmd
         IN  /\ d \in Channel /\ d.en = (~refused(cmd) /\ (set \/ (c.en /\ ~rst)))
             /\ d.sup = ((c.sup /\ ~rst) \/ "SETSUPDATE" \in cmd)
             /\ d.cmp = ((c.cmp /\ ~rst /\ ~(Acknowledges(cmd) /\ ~event)) \/ refused(cmd))
             /\ d.exc = (c.exc \/ refused(cmd)) /\ d.next_ptr = c.next_ptr
             /\ d.limit_ptr = c.limit_ptr /\ d.start_ptr = c.start_ptr
             /\ d.stop_ptr = c.stop_ptr /\ d.m_req = c.m_req /\ d.m_addr = c.m_addr
             /\ d.m_din = c.m_din
             /\ d.cancelled = (c.cancelled \/ (rst /\ ch.m_req /\ ~m_ack /\ ~m_err))
             /\ d.sample_count = IF "INITBUF" \in cmd THEN 0 ELSE c.sample_count
             /\ d.samples = c.samples /\ d.overrun = c.overrun
  <1> DEFINE d == Csr(c, cmd, m_ack, event)
             r == CsrReset(c, cmd, m_ack)
             u == [r EXCEPT !.sample_count = IF "INITBUF" \in cmd THEN 0 ELSE r.sample_count,
                            !.sup = r.sup \/ "SETSUPDATE" \in cmd]
             e == CsrEnable(u, cmd)
             off == Acknowledges(cmd) /\ ~event /\ ~refused(cmd)
  <1>0. 0 \in 0 .. (PerWord - 1)
    BY SndInAssumption
  <1>1. /\ c.en \in BOOLEAN /\ c.sup \in BOOLEAN /\ c.cmp \in BOOLEAN /\ c.exc \in BOOLEAN
    BY DEF Channel
  <1>2. d = [e EXCEPT !.cmp = e.cmp /\ ~off]
    BY DEF Csr
  <1>3. /\ r \in Channel /\ r.en = (c.en /\ "RESET" \notin cmd)
        /\ r.sup = (c.sup /\ "RESET" \notin cmd) /\ r.cmp = (c.cmp /\ "RESET" \notin cmd)
        /\ r.exc = c.exc /\ r.next_ptr = c.next_ptr /\ r.limit_ptr = c.limit_ptr
        /\ r.start_ptr = c.start_ptr /\ r.stop_ptr = c.stop_ptr /\ r.m_req = c.m_req
        /\ r.m_addr = c.m_addr /\ r.m_din = c.m_din
        /\ r.cancelled = (c.cancelled \/ ("RESET" \in cmd /\ ch.m_req /\ ~m_ack /\ ~m_err))
        /\ r.sample_count = c.sample_count /\ r.samples = c.samples /\ r.overrun = c.overrun
    BY CsrResetFields
  <1> HIDE DEF r
  <1>4. /\ u \in Channel /\ u.en = r.en /\ u.sup = (r.sup \/ "SETSUPDATE" \in cmd)
        /\ u.cmp = r.cmp /\ u.exc = r.exc /\ u.next_ptr = r.next_ptr
        /\ u.limit_ptr = r.limit_ptr /\ u.start_ptr = r.start_ptr /\ u.stop_ptr = r.stop_ptr
        /\ u.m_req = r.m_req /\ u.m_addr = r.m_addr /\ u.m_din = r.m_din
        /\ u.cancelled = r.cancelled
        /\ u.sample_count = IF "INITBUF" \in cmd THEN 0 ELSE r.sample_count
        /\ u.samples = r.samples /\ u.overrun = r.overrun
    BY <1>0, <1>3 DEF Channel
  <1> HIDE DEF u
  <1>5. /\ e \in Channel /\ e.en = (~refused(cmd) /\ ("SETENABLE" \in cmd \/ u.en))
        /\ e.sup = u.sup /\ e.cmp = (u.cmp \/ refused(cmd))
        /\ e.exc = (u.exc \/ refused(cmd)) /\ e.next_ptr = u.next_ptr
        /\ e.limit_ptr = u.limit_ptr /\ e.start_ptr = u.start_ptr /\ e.stop_ptr = u.stop_ptr
        /\ e.m_req = u.m_req /\ e.m_addr = u.m_addr /\ e.m_din = u.m_din
        /\ e.cancelled = u.cancelled /\ e.sample_count = u.sample_count
        /\ e.samples = u.samples /\ e.overrun = u.overrun
    <2>0. u.en \in BOOLEAN /\ u.cmp \in BOOLEAN /\ u.exc \in BOOLEAN
      BY <1>4 DEF Channel
    <2>1. CASE refused(cmd)
      <3>1. e = [u EXCEPT !.en = FALSE, !.cmp = TRUE, !.exc = TRUE]
        BY <2>1 DEF CsrEnable, bus_exception
      <3>2. /\ e \in Channel /\ e.en = FALSE /\ e.sup = u.sup /\ e.cmp = TRUE
            /\ e.exc = TRUE /\ e.next_ptr = u.next_ptr /\ e.limit_ptr = u.limit_ptr
            /\ e.start_ptr = u.start_ptr /\ e.stop_ptr = u.stop_ptr /\ e.m_req = u.m_req
            /\ e.m_addr = u.m_addr /\ e.m_din = u.m_din /\ e.cancelled = u.cancelled
            /\ e.sample_count = u.sample_count /\ e.samples = u.samples
            /\ e.overrun = u.overrun
        BY <1>4, <3>1 DEF Channel
      <3> HIDE DEF e
      <3> QED BY <2>0, <2>1, <3>2
    <2>2. CASE ~refused(cmd) /\ "SETENABLE" \in cmd
      <3>1. e = [u EXCEPT !.en = TRUE]
        BY <2>2 DEF CsrEnable
      <3>2. /\ e \in Channel /\ e.en = TRUE /\ e.sup = u.sup /\ e.cmp = u.cmp
            /\ e.exc = u.exc /\ e.next_ptr = u.next_ptr /\ e.limit_ptr = u.limit_ptr
            /\ e.start_ptr = u.start_ptr /\ e.stop_ptr = u.stop_ptr /\ e.m_req = u.m_req
            /\ e.m_addr = u.m_addr /\ e.m_din = u.m_din /\ e.cancelled = u.cancelled
            /\ e.sample_count = u.sample_count /\ e.samples = u.samples
            /\ e.overrun = u.overrun
        BY <1>4, <3>1 DEF Channel
      <3> HIDE DEF e
      <3> QED BY <2>0, <2>2, <3>2
    <2>3. CASE ~refused(cmd) /\ "SETENABLE" \notin cmd
      <3>1. e = u
        BY <2>3 DEF CsrEnable
      <3> HIDE DEF e
      <3> QED BY <1>4, <2>0, <2>3, <3>1
    <2> QED BY <2>1, <2>2, <2>3
  <1> HIDE DEF e
  <1>6. /\ d \in Channel /\ d.en = e.en /\ d.sup = e.sup /\ d.cmp = (e.cmp /\ ~off)
        /\ d.exc = e.exc /\ d.next_ptr = e.next_ptr /\ d.limit_ptr = e.limit_ptr
        /\ d.start_ptr = e.start_ptr /\ d.stop_ptr = e.stop_ptr /\ d.m_req = e.m_req
        /\ d.m_addr = e.m_addr /\ d.m_din = e.m_din /\ d.cancelled = e.cancelled
        /\ d.sample_count = e.sample_count /\ d.samples = e.samples /\ d.overrun = e.overrun
    BY <1>2, <1>5 DEF Channel
  <1> HIDE DEF d
  <1>7. d.en = (~refused(cmd) /\ ("SETENABLE" \in cmd \/ (c.en /\ "RESET" \notin cmd)))
    BY <1>1, <1>3, <1>4, <1>5, <1>6
  <1>8. d.cmp = ((c.cmp /\ "RESET" \notin cmd /\ ~(Acknowledges(cmd) /\ ~event)) \/ refused(cmd))
    BY <1>1, <1>3, <1>4, <1>5, <1>6
  <1>9. d.sup = ((c.sup /\ "RESET" \notin cmd) \/ "SETSUPDATE" \in cmd)
    BY <1>1, <1>3, <1>4, <1>5, <1>6
  <1> QED BY <1>3, <1>4, <1>5, <1>6, <1>7, <1>8, <1>9 DEF d

LEMMA ClearFields ==
  ASSUME NEW c \in Channel, NEW clear \in BOOLEAN
  PROVE  LET d == ClearStatus(c, clear)
         IN  /\ d \in Channel /\ d.en = c.en /\ d.sup = c.sup /\ d.cmp = c.cmp
             /\ d.exc = c.exc /\ d.next_ptr = c.next_ptr /\ d.limit_ptr = c.limit_ptr
             /\ d.start_ptr = c.start_ptr /\ d.stop_ptr = c.stop_ptr /\ d.m_req = c.m_req
             /\ d.m_addr = c.m_addr /\ d.m_din = c.m_din /\ d.cancelled = c.cancelled
             /\ d.sample_count = c.sample_count /\ d.samples = c.samples
             /\ d.overrun = (c.overrun /\ ~clear)
  BY DEF ClearStatus, Channel

(* The registers after a clock, in terms of those before.                  *)
ChNext(active, clear, tick, s, m_ack, w) ==
    LET cmd == csr_cmd(w)
        faults == Faults(m_ack, w)
        ends == Ends(m_ack, w)
        starts == Starts(active, tick, w)
    IN  /\ ch' \in Channel
        /\ ch'.en = (~refused(cmd) /\ ("SETENABLE" \in cmd
                       \/ (ch.en /\ ~faults /\ ~(ends /\ ~ch.sup) /\ ~csr_reset(w))))
        /\ ch'.sup = ((ch.sup /\ ~(ends /\ ch.sup) /\ ~csr_reset(w)) \/ "SETSUPDATE" \in cmd)
        /\ ch'.cmp = (refused(cmd) \/ ((ch.cmp \/ faults \/ ends) /\ ~csr_reset(w)
                   /\ ~(Acknowledges(cmd) /\ ~faults /\ ~ends)))
        /\ ch'.exc = (ch.exc \/ faults \/ refused(cmd))
        /\ ch'.next_ptr = IF w.reg = "next_ptr" THEN w.a ELSE IF ends /\ ch.sup THEN ch.start_ptr
             ELSE IF Moves(m_ack, w) THEN ch.next_ptr + WordBytes ELSE ch.next_ptr
        /\ ch'.limit_ptr = IF w.reg = "limit_ptr" THEN w.a
             ELSE IF ends /\ ch.sup THEN ch.stop_ptr ELSE ch.limit_ptr
        /\ ch'.start_ptr = IF w.reg = "start_ptr" THEN w.a ELSE ch.start_ptr
        /\ ch'.stop_ptr = IF w.reg = "stop_ptr" THEN w.a ELSE ch.stop_ptr
        /\ ch'.m_req = ((ch.m_req \/ starts) /\ ~answer(m_ack))
        /\ ch'.m_addr = IF starts THEN ch.next_ptr ELSE ch.m_addr
        /\ ch'.m_din = IF starts THEN Append(ch.samples, s) ELSE ch.m_din
        /\ ch'.cancelled = ((ch.cancelled /\ ~starts /\ ~answer(m_ack))
                         \/ (csr_reset(w) /\ ch.m_req /\ ~m_ack /\ ~m_err))
        /\ ch'.sample_count = IF "INITBUF" \in cmd \/ ~active THEN 0
             ELSE IF ~tick THEN ch.sample_count ELSE (ch.sample_count + 1) % PerWord
        /\ ch'.samples = IF ~active \/ ~tick THEN ch.samples
             ELSE IF Len(ch.samples) = PerWord - 1
             THEN Tail(Append(ch.samples, s)) ELSE Append(ch.samples, s)
        /\ ch'.overrun = (~clear /\ (\/ ch.overrun \/ (ends /\ ~ch.sup /\ active)
                         \/ (active /\ tick /\ ch.sample_count = PerWord - 1
                             /\ (~ch.en \/ ch.m_req))))

LEMMA ChFields ==
  ASSUME ch \in Channel, NEW active \in BOOLEAN, NEW clear \in BOOLEAN,
         NEW tick \in BOOLEAN, NEW s \in Sample, NEW m_ack \in BOOLEAN,
         NEW w, w.reg \in Pointer => w.a \in Nat,
         ChClock(active, clear, tick, s, m_ack, w)
  PROVE  ChNext(active, clear, tick, s, m_ack, w)
  <1> DEFINE cmd == csr_cmd(w)
             faults == Faults(m_ack, w)
             ends == Ends(m_ack, w)
             starts == Starts(active, tick, w)
             a == Codec(ch, active, tick, s, w)
             b == Answered(a, m_ack)
             c == Event(b, active, m_ack, w)
             d == CpuPointer(c, w)
             event == completion_event(m_ack, w)
             e == Csr(d, cmd, m_ack, event)
  <1>1. ch' = ClearStatus(e, clear)
    BY DEF ChClock
  <1>2. event = (faults \/ ends)
    BY DEF completion_event
  <1>3. csr_reset(w) = ("RESET" \in cmd)
    BY DEF csr_reset
  <1>4. /\ a \in Channel /\ a.en = ch.en /\ a.sup = ch.sup /\ a.cmp = ch.cmp
        /\ a.exc = ch.exc /\ a.next_ptr = ch.next_ptr /\ a.limit_ptr = ch.limit_ptr
        /\ a.start_ptr = ch.start_ptr /\ a.stop_ptr = ch.stop_ptr
        /\ a.m_req = (ch.m_req \/ starts)
        /\ a.m_addr = IF starts THEN ch.next_ptr ELSE ch.m_addr
        /\ a.m_din = IF starts THEN Append(ch.samples, s) ELSE ch.m_din
        /\ a.cancelled = (ch.cancelled /\ ~starts)
        /\ a.sample_count = IF ~active THEN 0 ELSE IF ~tick THEN ch.sample_count
                           ELSE (ch.sample_count + 1) % PerWord
        /\ a.samples = IF ~active \/ ~tick THEN ch.samples
                      ELSE IF Len(ch.samples) = PerWord - 1
                      THEN Tail(Append(ch.samples, s)) ELSE Append(ch.samples, s)
        /\ a.overrun = (ch.overrun \/ (active /\ tick /\ ch.sample_count = PerWord - 1
                                     /\ (~ch.en \/ ch.m_req)))
    BY CodecFields
  <1> HIDE DEF a
  <1>5. /\ b \in Channel /\ b.en = a.en /\ b.sup = a.sup /\ b.cmp = a.cmp /\ b.exc = a.exc
        /\ b.next_ptr = a.next_ptr /\ b.limit_ptr = a.limit_ptr /\ b.start_ptr = a.start_ptr
        /\ b.stop_ptr = a.stop_ptr /\ b.m_req = (a.m_req /\ ~answer(m_ack))
        /\ b.m_addr = a.m_addr /\ b.m_din = a.m_din
        /\ b.cancelled = (a.cancelled /\ ~answer(m_ack)) /\ b.sample_count = a.sample_count
        /\ b.samples = a.samples /\ b.overrun = a.overrun
    <2>1. a \in Channel
      BY <1>4
    <2> QED BY <2>1, AnsweredFields
  <1> HIDE DEF b
  <1>6. /\ c \in Channel /\ c.en = (b.en /\ ~faults /\ ~(ends /\ ~ch.sup))
        /\ c.sup = (b.sup /\ ~(ends /\ ch.sup)) /\ c.cmp = (b.cmp \/ faults \/ ends)
        /\ c.exc = (b.exc \/ faults)
        /\ c.next_ptr = IF ends /\ ch.sup THEN ch.start_ptr
                        ELSE IF Moves(m_ack, w) THEN ch.next_ptr + WordBytes ELSE b.next_ptr
        /\ c.limit_ptr = IF ends /\ ch.sup THEN ch.stop_ptr ELSE b.limit_ptr
        /\ c.start_ptr = b.start_ptr /\ c.stop_ptr = b.stop_ptr /\ c.m_req = b.m_req
        /\ c.m_addr = b.m_addr /\ c.m_din = b.m_din /\ c.cancelled = b.cancelled
        /\ c.sample_count = b.sample_count /\ c.samples = b.samples
        /\ c.overrun = (b.overrun \/ (ends /\ ~ch.sup /\ active))
    BY <1>5, EventFields
  <1> HIDE DEF c
  <1> HIDE DEF faults, ends, starts, cmd
  <1>7. /\ d \in Channel /\ d.en = c.en /\ d.sup = c.sup /\ d.cmp = c.cmp /\ d.exc = c.exc
        /\ d.next_ptr = IF w.reg = "next_ptr" THEN w.a ELSE c.next_ptr
        /\ d.limit_ptr = IF w.reg = "limit_ptr" THEN w.a ELSE c.limit_ptr
        /\ d.start_ptr = IF w.reg = "start_ptr" THEN w.a ELSE c.start_ptr
        /\ d.stop_ptr = IF w.reg = "stop_ptr" THEN w.a ELSE c.stop_ptr
        /\ d.m_req = c.m_req /\ d.m_addr = c.m_addr /\ d.m_din = c.m_din
        /\ d.cancelled = c.cancelled /\ d.sample_count = c.sample_count
        /\ d.samples = c.samples /\ d.overrun = c.overrun
    BY <1>6, PointerFields
  <1> HIDE DEF d
  <1>8. /\ e \in Channel
        /\ e.en = (~refused(cmd) /\ ("SETENABLE" \in cmd \/ (d.en /\ "RESET" \notin cmd)))
        /\ e.sup = ((d.sup /\ "RESET" \notin cmd) \/ "SETSUPDATE" \in cmd)
        /\ e.cmp = ((d.cmp /\ "RESET" \notin cmd /\ ~(Acknowledges(cmd) /\ ~event)) \/ refused(cmd))
        /\ e.exc = (d.exc \/ refused(cmd)) /\ e.next_ptr = d.next_ptr
        /\ e.limit_ptr = d.limit_ptr /\ e.start_ptr = d.start_ptr /\ e.stop_ptr = d.stop_ptr
        /\ e.m_req = d.m_req /\ e.m_addr = d.m_addr /\ e.m_din = d.m_din
        /\ e.cancelled = (d.cancelled \/ ("RESET" \in cmd /\ ch.m_req /\ ~m_ack /\ ~m_err))
        /\ e.sample_count = IF "INITBUF" \in cmd THEN 0 ELSE d.sample_count
        /\ e.samples = d.samples /\ e.overrun = d.overrun
    BY <1>7, CsrFields
  <1> HIDE DEF e
  <1> HIDE DEF event
  <1>9. /\ ch' \in Channel /\ ch'.en = e.en /\ ch'.sup = e.sup /\ ch'.cmp = e.cmp
        /\ ch'.exc = e.exc /\ ch'.next_ptr = e.next_ptr /\ ch'.limit_ptr = e.limit_ptr
        /\ ch'.start_ptr = e.start_ptr /\ ch'.stop_ptr = e.stop_ptr /\ ch'.m_req = e.m_req
        /\ ch'.m_addr = e.m_addr /\ ch'.m_din = e.m_din /\ ch'.cancelled = e.cancelled
        /\ ch'.sample_count = e.sample_count /\ ch'.samples = e.samples
        /\ ch'.overrun = (e.overrun /\ ~clear)
    BY <1>8, <1>1, ClearFields
  <1>10. /\ ch.en \in BOOLEAN /\ ch.sup \in BOOLEAN /\ ch.cmp \in BOOLEAN /\ ch.exc \in BOOLEAN
         /\ ch.m_req \in BOOLEAN /\ ch.cancelled \in BOOLEAN /\ ch.overrun \in BOOLEAN
    BY DEF Channel
  <1>11. /\ ch'.en = (~refused(cmd) /\ ("SETENABLE" \in cmd
                            \/ (ch.en /\ ~faults /\ ~(ends /\ ~ch.sup) /\ ~csr_reset(w))))
         /\ ch'.sup = ((ch.sup /\ ~(ends /\ ch.sup) /\ ~csr_reset(w)) \/ "SETSUPDATE" \in cmd)
         /\ ch'.cmp = (refused(cmd) \/ ((ch.cmp \/ faults \/ ends) /\ ~csr_reset(w)
                        /\ ~(Acknowledges(cmd) /\ ~faults /\ ~ends)))
         /\ ch'.exc = (ch.exc \/ faults \/ refused(cmd))
    BY <1>2, <1>3, <1>4, <1>5, <1>6, <1>7, <1>8, <1>9, <1>10
  <1>12. /\ ch'.next_ptr = IF w.reg = "next_ptr" THEN w.a ELSE IF ends /\ ch.sup THEN ch.start_ptr
                  ELSE IF Moves(m_ack, w) THEN ch.next_ptr + WordBytes ELSE ch.next_ptr
         /\ ch'.limit_ptr = IF w.reg = "limit_ptr" THEN w.a
                  ELSE IF ends /\ ch.sup THEN ch.stop_ptr ELSE ch.limit_ptr
         /\ ch'.start_ptr = IF w.reg = "start_ptr" THEN w.a ELSE ch.start_ptr
         /\ ch'.stop_ptr = IF w.reg = "stop_ptr" THEN w.a ELSE ch.stop_ptr
    BY <1>2, <1>3, <1>4, <1>5, <1>6, <1>7, <1>8, <1>9, <1>10
  <1>13. /\ ch'.m_addr = IF starts THEN ch.next_ptr ELSE ch.m_addr
         /\ ch'.m_din = IF starts THEN Append(ch.samples, s) ELSE ch.m_din
    BY <1>2, <1>3, <1>4, <1>5, <1>6, <1>7, <1>8, <1>9, <1>10
  <1>14. /\ ch'.sample_count = IF "INITBUF" \in cmd \/ ~active THEN 0
                  ELSE IF ~tick THEN ch.sample_count ELSE (ch.sample_count + 1) % PerWord
         /\ ch'.samples = IF ~active \/ ~tick THEN ch.samples
                  ELSE IF Len(ch.samples) = PerWord - 1
                  THEN Tail(Append(ch.samples, s)) ELSE Append(ch.samples, s)
         /\ ch'.overrun = (~clear /\ (\/ ch.overrun \/ (ends /\ ~ch.sup /\ active)
                              \/ (active /\ tick /\ ch.sample_count = PerWord - 1
                                  /\ (~ch.en \/ ch.m_req))))
    BY <1>2, <1>3, <1>4, <1>5, <1>6, <1>7, <1>8, <1>9, <1>10
  <1>15. /\ ch'.m_req = ((ch.m_req \/ starts) /\ ~answer(m_ack))
    BY <1>2, <1>3, <1>4, <1>5, <1>6, <1>7, <1>8, <1>9, <1>10
  <1>16. /\ ch'.cancelled = ((ch.cancelled /\ ~starts /\ ~answer(m_ack))
                              \/ (csr_reset(w) /\ ch.m_req /\ ~m_ack /\ ~m_err))
    BY <1>2, <1>3, <1>4, <1>5, <1>6, <1>7, <1>8, <1>9, <1>10
  <1> QED BY <1>9, <1>11, <1>12, <1>13, <1>14, <1>15, <1>16
         DEF faults, ends, starts, cmd, ChNext

-----------------------------------------------------------------------------
(* Arithmetic of aligned addresses, and the buffers.                       *)

LEMMA NextAligned ==
  ASSUME NEW W \in Nat \ {0}, NEW n \in Nat, n % W = 0
  PROVE  (n + W) % W = 0
  <1> DEFINE q == n \div W
             p == (n + W) \div W
             r == (n + W) % W
  <1>1. q \in Int /\ n = (W * q) + (n % W)
    OBVIOUS
  <1>2. p \in Int /\ r \in 0 .. (W - 1) /\ n + W = (W * p) + r
    OBVIOUS
  <1> HIDE DEF q, p, r
  <1>3. W * (q + 1 - p) = r
    BY <1>1, <1>2
  <1>4. \A k \in Int : k >= 1 => W * k >= W
    OBVIOUS
  <1>5. \A k \in Int : k <= -1 => W * k < 0
    OBVIOUS
  <1>6. q + 1 - p = 0
    BY <1>1, <1>2, <1>3, <1>4, <1>5
  <1>7. r = 0
    BY <1>3, <1>6
  <1> QED BY <1>7 DEF r

LEMMA AlignedGap ==
  ASSUME NEW W \in Nat \ {0}, NEW n \in Nat, NEW a \in Nat, n % W = 0, a % W = 0, n < a
  PROVE  n + W <= a
  <1> DEFINE q == n \div W
             p == a \div W
  <1>1. q \in Int /\ n = (W * q) + (n % W)
    OBVIOUS
  <1>2. p \in Int /\ a = (W * p) + (a % W)
    OBVIOUS
  <1> HIDE DEF q, p
  <1>3. W * (p - q) = a - n
    BY <1>1, <1>2
  <1>4. \A k \in Int : k >= 1 => W * k >= W
    OBVIOUS
  <1>5. \A k \in Int : k <= 0 => W * k <= 0
    OBVIOUS
  <1>6. p - q >= 1
    BY <1>1, <1>2, <1>3, <1>5
  <1> QED BY <1>1, <1>2, <1>3, <1>4, <1>6

LEMMA DescFacts ==
  /\ WordBytes \in Nat \ {0} /\ NDesc \in Nat /\ NDesc >= 1
  /\ \A k \in 1 .. (NDesc + 1) :
       Desc[k] \in 0 .. AddrTop /\ Desc[k] \in Nat /\ Desc[k] % WordBytes = 0
  /\ \A k \in 1 .. NDesc : Desc[k] < Desc[k + 1]
  <1>1. Len(Desc) \in Nat /\ DOMAIN Desc = 1 .. Len(Desc) /\ Len(Desc) >= 2
    BY SoundAssumption
  <1>2. NDesc \in Nat /\ NDesc >= 1 /\ NDesc + 1 = Len(Desc)
    BY <1>1 DEF NDesc
  <1>3. \A k \in 1 .. (NDesc + 1) : Desc[k] \in 0 .. AddrTop /\ Desc[k] % WordBytes = 0
    <2>1. \A k \in 1 .. Len(Desc) : Desc[k] \in 0 .. AddrTop
      <3> DEFINE S == 0 .. AddrTop
      <3>1. Desc \in Seq(S)
        BY SoundAssumption
      <3> HIDE DEF S
      <3>2. \A k \in 1 .. Len(Desc) : Desc[k] \in S
        BY <3>1
      <3> QED BY <3>2 DEF S
    <2>2. \A k \in DOMAIN Desc : Desc[k] % WordBytes = 0
      BY SoundAssumption
    <2> QED BY <1>1, <1>2, <2>1, <2>2
  <1>4. AddrTop \in Nat /\ WordBytes \in Nat \ {0}
    BY SndInAssumption
  <1>5. \A k \in 1 .. NDesc : Desc[k] < Desc[k + 1]
    BY <1>1, <1>2, SoundAssumption DEF NDesc
  <1> QED BY <1>2, <1>3, <1>4, <1>5

LEMMA AccessFacts ==
  ASSUME NEW w \in Access
  PROVE  /\ w.reg \in Pointer => w.a \in 0 .. AddrTop /\ w.a \in Nat
         /\ w.reg # "csr" => csr_cmd(w) = {}
         /\ w.reg \in Pointer => w.reg # "csr"
         /\ "INITBUF" \notin csr_cmd(w)
  <1>1. CASE w = NoWrite
    BY <1>1 DEF NoWrite, Pointer, csr_cmd
  <1>2. ASSUME NEW r \in Pointer, NEW a \in 0 .. AddrTop, w = Ptr(r, a)
        PROVE  w.reg = r /\ w.a = a /\ w.a \in Nat
    BY <1>2, SndInAssumption DEF Ptr
  <1>3. ASSUME NEW cmd \in SUBSET (Command \ {"INITBUF"}), w = CsrWrite(cmd)
        PROVE  w.reg = "csr" /\ "INITBUF" \notin csr_cmd(w)
    BY <1>3 DEF CsrWrite, csr_cmd
  <1>4. \A r \in Pointer : r # "csr"
    BY DEF Pointer
  <1>5. w.reg # "csr" => csr_cmd(w) = {}
    BY DEF csr_cmd
  <1> QED BY <1>1, <1>2, <1>3, <1>4, <1>5 DEF Access

LEMMA WriteForms ==
  /\ NoWrite.reg = "none" /\ csr_cmd(NoWrite) = {}
  /\ \A r \in Pointer : \A a : Ptr(r, a).reg = r /\ Ptr(r, a).a = a /\ csr_cmd(Ptr(r, a)) = {}
  /\ \A cmd : CsrWrite(cmd).reg = "csr" /\ csr_cmd(CsrWrite(cmd)) = cmd
  BY DEF NoWrite, Ptr, CsrWrite, csr_cmd, Pointer

-----------------------------------------------------------------------------
(* The engine.  A disabled channel rests.                                  *)
LEMMA EngineOff ==
  ASSUME ch \in Channel, Request, ~ch.en, NEW m_ack \in BOOLEAN, NEW w
  PROVE  ~Faults(m_ack, w) /\ ~Ends(m_ack, w) /\ ~Moves(m_ack, w)
  BY DEF Request, Faults, Ends, Moves, Counts, Unoccupied, answer

(* The words a clock adds to the recording.                                *)
Landed(n) == \A a \in Desc[1] .. (n - 1) : a % WordBytes = 0 => a \in rec'

LEMMA LandedSame ==
  ASSUME NEW n, NEW m_ack \in BOOLEAN, NEW w, NEW tick, Filled(n), History(w, tick, m_ack, FALSE)
  PROVE  Landed(n)
  BY DEF Filled, Landed, History

(* An enabled one fills its buffer word by word.                           *)
LEMMA EngineOn ==
  ASSUME ch \in Channel, Request, NEW k \in 1 .. NDesc, Recording(k),
         NEW m_ack \in BOOLEAN, m_ack => ch.m_req /\ ch.m_addr < RamTop,
         NEW w, NEW tick, ~csr_reset(w), History(w, tick, m_ack, FALSE)
  PROVE  LET n == IF Moves(m_ack, w) THEN ch.next_ptr + WordBytes ELSE ch.next_ptr
         IN  /\ ~bad_window /\ ch.next_ptr < ch.limit_ptr
             /\ Ends(m_ack, w) => Landed(Desc[k + 1])
             /\ ~Ends(m_ack, w) => /\ n \in Desc[k] .. (Desc[k + 1] - 1)
                                   /\ n % WordBytes = 0 /\ Landed(n)
  <1> DEFINE n == IF Moves(m_ack, w) THEN ch.next_ptr + WordBytes ELSE ch.next_ptr
             W == WordBytes
             x == ch.next_ptr
             y == Desc[k + 1]
  <1>1. /\ W \in Nat \ {0} /\ x \in Nat /\ y \in Nat /\ Desc[k] \in Nat
        /\ y % W = 0 /\ x % W = 0 /\ x \in Desc[k] .. (y - 1) /\ Desc[1] \in Nat
        /\ ch.limit_ptr = y /\ ch.en /\ Filled(x)
    BY DescFacts DEF Recording, Channel
  <1>2. ~bad_window /\ x < y
    BY <1>1 DEF bad_window
  <1>3. x + W <= y /\ (x + W) % W = 0
    BY <1>1, <1>2, AlignedGap, NextAligned
  <1>4. Landed(x)
    BY <1>1, LandedSame
  <1>5. Moves(m_ack, w) => Landed(x + W)
    <2> SUFFICES ASSUME Moves(m_ack, w), NEW a \in Desc[1] .. ((x + W) - 1), a % W = 0
                 PROVE  a \in rec'
      BY Zenon DEF Landed
    <2>1. ch.m_req /\ ~ch.cancelled /\ m_ack /\ ch.m_addr = x /\ ~stale
      BY DEF Moves, Counts, answer, Request
    <2>2. rec' = rec \cup {x}
      BY <2>1 DEF History
    <2>3. a \in Nat
      BY <1>1
    <2>4. CASE a < x
      BY <1>1, <1>4, <2>3, <2>4 DEF Landed
    <2>5. CASE a > x
      <3>1. x + W <= a
        BY <1>1, <2>3, <2>5, AlignedGap
      <3> QED BY <1>1, <2>3, <3>1
    <2>6. CASE a = x
      BY <2>2, <2>6
    <2> QED BY <1>1, <2>3, <2>4, <2>5, <2>6
  <1>6. Ends(m_ack, w) => Moves(m_ack, w) /\ x + W = y
    BY <1>1, <1>2 DEF Ends
  <1>7. Ends(m_ack, w) => Landed(y)
    BY <1>5, <1>6
  <1>8. ASSUME ~Ends(m_ack, w)
        PROVE  n \in Desc[k] .. (y - 1) /\ n % W = 0 /\ Landed(n)
    <2>1. CASE Moves(m_ack, w)
      <3>1. x + W # y
        BY <1>1, <1>8, <2>1 DEF Ends
      <3>2. n = x + W /\ Landed(x + W)
        BY <1>5, <2>1
      <3>3. x + W \in Desc[k] .. (y - 1)
        <4>1. /\ x \in Nat /\ W \in Nat /\ y \in Nat /\ Desc[k] \in Nat /\ Desc[k] <= x
              /\ x + W <= y /\ x + W # y
          BY <1>1, <1>3, <3>1
        <4> HIDE DEF x, W, y
        <4> QED BY <4>1
      <3> HIDE DEF n
      <3> QED BY <1>3, <3>2, <3>3
    <2>2. CASE ~Moves(m_ack, w)
      BY <1>1, <1>4, <2>2
    <2> QED BY <2>1, <2>2
  <1> QED BY <1>1, <1>2, <1>7, <1>8

-----------------------------------------------------------------------------
(* A clock of the channel without RESET or SETENABLE.                      *)

LEMMA ClockNext ==
  ASSUME TypeOK, NEW w \in Access, NEW tick \in BOOLEAN, NEW m_ack \in BOOLEAN, NEW ab,
         Clock(w, tick, m_ack, ab)
  PROVE  /\ ChNext(sndin_active, sndin_clear, tick, heard, m_ack, w)
         /\ History(w, tick, m_ack, ab) /\ ch \in Channel
         /\ m_ack => ch.m_req /\ ch.m_addr < RamTop
  <1>1. /\ ch \in Channel /\ sndin_active \in BOOLEAN /\ sndin_clear \in BOOLEAN
        /\ heard \in Sample
    BY DEF TypeOK, ChTypeOK
  <1>2. w.reg \in Pointer => w.a \in Nat
    BY AccessFacts
  <1>3. ChClock(sndin_active, sndin_clear, tick, heard, m_ack, w)
    BY DEF Clock
  <1>4. ChNext(sndin_active, sndin_clear, tick, heard, m_ack, w)
    BY <1>1, <1>2, <1>3, ChFields
  <1> QED BY <1>1, <1>4 DEF Clock

Clocked(w, tick, m_ack) ==
    /\ ch \in Channel /\ Request
    /\ ChNext(sndin_active, sndin_clear, tick, heard, m_ack, w)
    /\ History(w, tick, m_ack, FALSE)
    /\ m_ack => ch.m_req /\ ch.m_addr < RamTop

Plain(w) == "RESET" \notin csr_cmd(w) /\ "SETENABLE" \notin csr_cmd(w)
PointersBut(w) ==
    /\ ch'.start_ptr = IF w.reg = "start_ptr" THEN w.a ELSE ch.start_ptr
    /\ ch'.stop_ptr = IF w.reg = "stop_ptr" THEN w.a ELSE ch.stop_ptr

LEMMA Rests ==
  ASSUME ~ch.en, NEW tick \in BOOLEAN, NEW m_ack \in BOOLEAN, NEW w, Plain(w),
         Clocked(w, tick, m_ack)
  PROVE  /\ ~ch'.en /\ ch'.cmp = ch.cmp /\ ch'.exc = ch.exc
         /\ ch'.sup = (ch.sup \/ "SETSUPDATE" \in csr_cmd(w))
         /\ PointersBut(w)
         /\ ch'.next_ptr = IF w.reg = "next_ptr" THEN w.a ELSE ch.next_ptr
         /\ ch'.limit_ptr = IF w.reg = "limit_ptr" THEN w.a ELSE ch.limit_ptr
  <1>0. ch \in Channel /\ Request
        /\ ChNext(sndin_active, sndin_clear, tick, heard, m_ack, w)
    BY DEF Clocked
  <1>1. ~Faults(m_ack, w) /\ ~Ends(m_ack, w) /\ ~Moves(m_ack, w)
    BY <1>0, EngineOff
  <1>2. ~refused(csr_cmd(w)) /\ ~Acknowledges(csr_cmd(w)) /\ ~csr_reset(w)
    BY DEF refused, Acknowledges, csr_reset, Plain
  <1>3. ch.cmp \in BOOLEAN /\ ch.exc \in BOOLEAN /\ ch.sup \in BOOLEAN
    BY <1>0 DEF Channel
  <1> QED BY <1>0, <1>1, <1>2, <1>3 DEF ChNext, Plain, PointersBut

LEMMA Proceeds ==
  ASSUME NEW k \in 1 .. NDesc, Recording(k), NEW tick \in BOOLEAN, NEW m_ack \in BOOLEAN,
         NEW w, Plain(w), w.reg # "next_ptr", w.reg # "limit_ptr", Clocked(w, tick, m_ack)
  PROVE  /\ PointersBut(w)
         /\ \/ Broken'
            \/ /\ ch.sup /\ ch'.en /\ ch'.cmp
               /\ ch'.sup = ("SETSUPDATE" \in csr_cmd(w))
               /\ ch'.next_ptr = ch.start_ptr /\ ch'.limit_ptr = ch.stop_ptr
               /\ Landed(Desc[k + 1])
            \/ /\ ~ch.sup /\ ~ch'.en /\ ch'.cmp
               /\ ch'.sup = ("SETSUPDATE" \in csr_cmd(w))
               /\ Landed(Desc[k + 1])
            \/ /\ Recording(k)'
               /\ ch'.sup = (ch.sup \/ "SETSUPDATE" \in csr_cmd(w))
               /\ ch'.cmp = (ch.cmp /\ "CLRCOMPLETE" \notin csr_cmd(w))
  <1>0. /\ ch \in Channel /\ Request
        /\ ChNext(sndin_active, sndin_clear, tick, heard, m_ack, w)
        /\ History(w, tick, m_ack, FALSE)
        /\ m_ack => ch.m_req /\ ch.m_addr < RamTop
    BY DEF Clocked
  <1>1. ch.en /\ ch.cmp \in BOOLEAN /\ ch.sup \in BOOLEAN /\ ch.limit_ptr = Desc[k + 1]
    BY <1>0 DEF Channel, Recording
  <1>2. /\ ~refused(csr_cmd(w)) /\ ~csr_reset(w)
        /\ Acknowledges(csr_cmd(w)) <=> "CLRCOMPLETE" \in csr_cmd(w)
    BY <1>1 DEF refused, Acknowledges, csr_reset, Plain
  <1> DEFINE n == IF Moves(m_ack, w) THEN ch.next_ptr + WordBytes ELSE ch.next_ptr
  <1>3. /\ Ends(m_ack, w) => Landed(Desc[k + 1])
        /\ ~Ends(m_ack, w) => /\ n \in Desc[k] .. (Desc[k + 1] - 1)
                              /\ n % WordBytes = 0 /\ Landed(n)
    BY <1>0, <1>2, EngineOn
  <1>4. PointersBut(w)
    BY <1>0 DEF ChNext, PointersBut
  <1> HIDE DEF n
  <1>5. CASE Faults(m_ack, w)
    BY <1>0, <1>2, <1>4, <1>5 DEF ChNext, Broken, Plain
  <1>6. CASE ~Faults(m_ack, w) /\ Ends(m_ack, w) /\ ch.sup
    <2>1. ch'.next_ptr = ch.start_ptr /\ ch'.limit_ptr = ch.stop_ptr
      BY <1>0, <1>6 DEF ChNext
    <2>2. ch'.en
      BY <1>0, <1>1, <1>2, <1>6 DEF ChNext
    <2>3. ch'.cmp
      BY <1>0, <1>2, <1>6 DEF ChNext
    <2>4. ch'.sup = ("SETSUPDATE" \in csr_cmd(w))
      BY <1>0, <1>2, <1>6 DEF ChNext
    <2> QED BY <1>3, <1>4, <1>6, <2>1, <2>2, <2>3, <2>4
  <1>7. CASE ~Faults(m_ack, w) /\ Ends(m_ack, w) /\ ~ch.sup
    <2>1. ~ch'.en
      BY <1>0, <1>2, <1>7 DEF ChNext, Plain
    <2>2. ch'.cmp
      BY <1>0, <1>2, <1>7 DEF ChNext
    <2>3. ch'.sup = ("SETSUPDATE" \in csr_cmd(w))
      BY <1>0, <1>2, <1>7 DEF ChNext
    <2> QED BY <1>3, <1>4, <1>7, <2>1, <2>2, <2>3
  <1>8. CASE ~Faults(m_ack, w) /\ ~Ends(m_ack, w)
    <2>1. /\ ch'.en /\ ch'.limit_ptr = Desc[k + 1] /\ ch'.next_ptr = n
          /\ ch'.sup = (ch.sup \/ "SETSUPDATE" \in csr_cmd(w))
          /\ ch'.cmp = (ch.cmp /\ "CLRCOMPLETE" \notin csr_cmd(w))
      BY <1>0, <1>1, <1>2, <1>8 DEF ChNext, Plain, n
    <2>2. Recording(k)'
      BY <1>3, <1>8, <2>1 DEF Recording, Filled, Landed
    <2> QED BY <1>4, <2>1, <2>2
  <1> QED BY <1>5, <1>6, <1>7, <1>8

-----------------------------------------------------------------------------
(* The driver leaves the channel alone for a clock.                        *)

LEMMA NoWritePlain ==
  /\ Plain(NoWrite) /\ csr_cmd(NoWrite) = {} /\ NoWrite.reg \notin Pointer
  BY WriteForms DEF Plain, NoWrite, Pointer

LEMMA Undisturbed ==
  ASSUME NEW tick \in BOOLEAN, NEW m_ack \in BOOLEAN, NEW w, Clocked(w, tick, m_ack),
         csr_cmd(w) = {}, w.reg # "next_ptr", w.reg # "limit_ptr",
         NEW k \in 1 .. NDesc, Recording(k)
  PROVE  \/ Broken'
         \/ /\ ch.sup /\ ch'.en /\ ch'.cmp /\ ~ch'.sup
            /\ ch'.next_ptr = ch.start_ptr /\ ch'.limit_ptr = ch.stop_ptr
            /\ Landed(Desc[k + 1])
         \/ ~ch.sup /\ ~ch'.en /\ ch'.cmp /\ ~ch'.sup /\ Landed(Desc[k + 1])
         \/ Recording(k)' /\ ch'.sup = ch.sup /\ ch'.cmp = ch.cmp
  <1>1. Clocked(w, tick, m_ack) /\ ch \in Channel
    BY DEF Clocked
  <1>2. Plain(w)
    BY DEF Plain
  <1>3. \/ Broken'
        \/ /\ ch.sup /\ ch'.en /\ ch'.cmp
           /\ ch'.sup = ("SETSUPDATE" \in csr_cmd(w))
           /\ ch'.next_ptr = ch.start_ptr /\ ch'.limit_ptr = ch.stop_ptr
           /\ Landed(Desc[k + 1])
        \/ /\ ~ch.sup /\ ~ch'.en /\ ch'.cmp
           /\ ch'.sup = ("SETSUPDATE" \in csr_cmd(w))
           /\ Landed(Desc[k + 1])
        \/ /\ Recording(k)'
           /\ ch'.sup = (ch.sup \/ "SETSUPDATE" \in csr_cmd(w))
           /\ ch'.cmp = (ch.cmp /\ "CLRCOMPLETE" \notin csr_cmd(w))
    BY <1>1, <1>2, Proceeds
  <1>4. ch.sup \in BOOLEAN /\ ch.cmp \in BOOLEAN
    BY <1>1 DEF Channel
  <1> QED BY <1>2, <1>3, <1>4

LEMMA ChainStep ==
  ASSUME NEW tick \in BOOLEAN, NEW m_ack \in BOOLEAN, Clocked(NoWrite, tick, m_ack),
         NEW d \in Nat, NEW q \in Nat, d = done, q = queued, d < NDesc, q <= NDesc,
         done' = d, queued' = q, Chain
  PROVE  Chain'
  <1>1. /\ ch \in Channel /\ Request
        /\ ChNext(sndin_active, sndin_clear, tick, heard, m_ack, NoWrite)
        /\ History(NoWrite, tick, m_ack, FALSE)
        /\ m_ack => ch.m_req /\ ch.m_addr < RamTop
    BY DEF Clocked
  <1>2. Plain(NoWrite) /\ csr_cmd(NoWrite) = {}
        /\ NoWrite.reg # "next_ptr" /\ NoWrite.reg # "limit_ptr"
    BY NoWritePlain DEF Pointer
  <1>3. ch'.start_ptr = ch.start_ptr /\ ch'.stop_ptr = ch.stop_ptr
    BY <1>1, NoWritePlain DEF ChNext, Pointer
  <1>4. NDesc \in Nat
    BY DescFacts
  <1>5. ch.sup \in BOOLEAN /\ ch.cmp \in BOOLEAN
    BY <1>1 DEF Channel
  <1>6. CASE Recording(d + 1) /\ ~ch.cmp /\ ~ch.sup /\ q = d + 1
    <2>1. d + 1 \in 1 .. NDesc
      BY <1>4
    <2>2. \/ Broken'
          \/ ~ch'.en /\ ch'.cmp /\ ~ch'.sup /\ Landed(Desc[q + 1])
          \/ Recording(d + 1)' /\ ~ch'.sup /\ ~ch'.cmp
      BY <1>5, <1>6, <1>2, <2>1, Undisturbed
    <2> QED BY <1>6, <2>2 DEF Chain, Stopped, Filled, Landed
  <1>7. CASE Recording(d + 1) /\ ~ch.cmp /\ ch.sup /\ q = d + 2 /\ NextIs(q)
    <2>1. d + 1 \in 1 .. NDesc /\ q \in 1 .. NDesc /\ q + 1 \in 1 .. (NDesc + 1) /\ (d + 1) + 1 = q
      BY <1>4, <1>7
    <2>2. \/ Broken'
          \/ /\ ch'.en /\ ch'.cmp /\ ~ch'.sup
             /\ ch'.next_ptr = Desc[q] /\ ch'.limit_ptr = Desc[q + 1] /\ Landed(Desc[q])
          \/ Recording(d + 1)' /\ ch'.sup /\ ~ch'.cmp
      BY <1>5, <1>7, <1>2, <2>1, Undisturbed DEF NextIs
    <2>3. CASE /\ ch'.en /\ ch'.cmp /\ ~ch'.sup
               /\ ch'.next_ptr = Desc[q] /\ ch'.limit_ptr = Desc[q + 1] /\ Landed(Desc[q])
      <3>1. Desc[q] \in Nat /\ Desc[q + 1] \in Nat /\ Desc[q] < Desc[q + 1]
            /\ Desc[q] % WordBytes = 0
        BY <2>1, DescFacts
      <3>2. Desc[q] \in Desc[q] .. (Desc[q + 1] - 1)
        BY <3>1
      <3>3. Recording(q)'
        BY <2>1, <2>3, <3>1, <3>2 DEF Recording, Filled, Landed
      <3> QED BY <1>7, <2>3, <3>3 DEF Chain
    <2>4. CASE Recording(d + 1)' /\ ch'.sup /\ ~ch'.cmp
      <3>1. NextIs(q)'
        BY <1>3, <1>7 DEF NextIs
      <3> QED BY <1>7, <2>4, <3>1 DEF Chain
    <2> QED BY <2>2, <2>3, <2>4 DEF Chain
  <1>8. CASE Recording(q) /\ ch.cmp /\ ~ch.sup /\ q = d + 2
    <2>1. q \in 1 .. NDesc
      BY <1>4, <1>8
    <2>2. \/ Broken'
          \/ ~ch'.en /\ ch'.cmp /\ ~ch'.sup /\ Landed(Desc[q + 1])
          \/ Recording(q)' /\ ~ch'.sup /\ ch'.cmp
      BY <1>5, <1>8, <1>2, <2>1, Undisturbed
    <2> QED BY <1>8, <2>2 DEF Chain, Stopped, Filled, Landed
  <1>9. CASE Stopped(q) /\ ~ch.sup /\ q \in {d + 1, d + 2}
    <2>1. ~ch.en /\ ch.cmp /\ Landed(Desc[q + 1])
      BY <1>1, <1>9, LandedSame DEF Stopped
    <2>2. ~ch'.en /\ ch'.cmp /\ ~ch'.sup
      BY <1>2, <1>5, <1>9, <2>1, Rests
    <2> QED BY <1>9, <2>1, <2>2 DEF Chain, Stopped, Filled, Landed
  <1>10. CASE Broken
    <2>1. ~ch'.en /\ ch'.cmp /\ ch'.exc
      BY <1>2, <1>10, Rests DEF Broken
    <2> QED BY <2>1 DEF Chain, Broken
  <1> QED BY <1>6, <1>7, <1>8, <1>9, <1>10 DEF Chain

LEMMA MissedStep ==
  ASSUME NEW tick \in BOOLEAN, NEW m_ack \in BOOLEAN, Clocked(NoWrite, tick, m_ack),
         NEW d \in Nat, d = done, done' = d, queued' = queued, Missed
  PROVE  Missed'
  <1>1. /\ ch \in Channel /\ Request
        /\ ChNext(sndin_active, sndin_clear, tick, heard, m_ack, NoWrite)
        /\ History(NoWrite, tick, m_ack, FALSE)
    BY DEF Clocked
  <1>2. ~ch.en /\ ch.cmp /\ ch.sup /\ Landed(Desc[(d + 1) + 1])
    BY <1>1, LandedSame DEF Missed, Stopped
  <1>3. ~ch'.en /\ ch'.cmp /\ ch'.sup
    BY <1>2, NoWritePlain, Rests
  <1> QED BY <1>2, <1>3 DEF Missed, Stopped, Filled, Landed

-----------------------------------------------------------------------------
(* The driver's programs.                                                  *)

LEMMA LeftFacts ==
  ASSUME NEW p \in Seq(Access), NEW n \in 0 .. (Len(p) - 1), Left(p, n)
  PROVE  /\ todo # <<>> /\ Head(todo) = p[n + 1]
         /\ Tail(todo) = SubSeq(p, (n + 1) + 1, Len(p))
         /\ n + 1 = Len(p) => Tail(todo) = <<>>
         /\ n + 1 < Len(p) => Tail(todo) # <<>>
  <1>1. /\ Len(p) \in Nat /\ n + 1 \in 1 .. Len(p) /\ Len(p) \in (n + 1) .. Len(p)
        /\ todo = SubSeq(p, n + 1, Len(p))
    BY DEF Left
  <1>2. Head(todo) = p[n + 1] /\ Tail(todo) = SubSeq(p, (n + 1) + 1, Len(p))
    BY <1>1, HeadTailOfSubSeq
  <1>3. Len(todo) = Len(p) - (n + 1) + 1
    BY <1>1, SubSeqProperties
  <1>4. n + 1 = Len(p) => Tail(todo) = <<>>
    BY <1>1, <1>2, SubSeqEmpty
  <1>5. n + 1 < Len(p) => Len(SubSeq(p, (n + 1) + 1, Len(p))) = Len(p) - ((n + 1) + 1) + 1
    BY <1>1, SubSeqProperties
  <1>6. Len(<<>>) = 0
    OBVIOUS
  <1>7. todo # <<>>
    <2> DEFINE l == Len(p)
               t == Len(todo)
    <2>2. l \in Nat /\ n \in 0 .. (l - 1) /\ t = l - (n + 1) + 1
      BY <1>1, <1>3
    <2> HIDE DEF l, t
    <2>3. t # 0
      BY <2>2
    <2>1. Len(todo) # 0
      BY <2>3 DEF t
    <2> QED BY <1>6, <2>1
  <1>8. n + 1 < Len(p) => Tail(todo) # <<>>
    <2>1. n + 1 < Len(p) => Len(SubSeq(p, (n + 1) + 1, Len(p))) # 0
      BY <1>1, <1>5
    <2> QED BY <1>2, <1>6, <2>1
  <1> QED BY <1>2, <1>4, <1>7, <1>8

LEMMA RefillFacts ==
  ASSUME NEW q \in 1 .. NDesc
  PROVE  /\ Refill(q) \in Seq(Access) /\ Len(Refill(q)) = 3
         /\ Refill(q)[1] = Ptr("start_ptr", Desc[q])
         /\ Refill(q)[2] = Ptr("stop_ptr", Desc[q + 1])
         /\ Refill(q)[3] = CsrWrite({"SETSUPDATE", "CLRCOMPLETE"})
  <1>1. Desc[q] \in 0 .. AddrTop /\ Desc[q + 1] \in 0 .. AddrTop
    BY DescFacts
  <1>2. /\ Ptr("start_ptr", Desc[q]) \in Access /\ Ptr("stop_ptr", Desc[q + 1]) \in Access
    BY <1>1 DEF Access, Pointer
  <1>3. CsrWrite({"SETSUPDATE", "CLRCOMPLETE"}) \in Access
    BY DEF Access, Command
  <1> QED BY <1>2, <1>3 DEF Refill

LEMMA ProgramFacts ==
  ASSUME NEW k \in 1 .. NDesc
  PROVE  /\ Program(k) \in Seq(Access)
         /\ Len(Program(k)) = IF Chained(k) THEN 6 ELSE 4
         /\ Program(k)[1] = CsrWrite({"RESET"})
         /\ Program(k)[2] = Ptr("next_ptr", Desc[k])
         /\ Program(k)[3] = Ptr("limit_ptr", Desc[k + 1])
         /\ ~Chained(k) => Program(k)[4] = CsrWrite({"SETENABLE", "DEV2M"})
         /\ Chained(k) => /\ Program(k)[4] = Ptr("start_ptr", Desc[k + 1])
                          /\ Program(k)[5] = Ptr("stop_ptr", Desc[k + 2])
                          /\ Program(k)[6] = CsrWrite({"SETENABLE", "SETSUPDATE", "DEV2M"})
  <1>1. Desc[k] \in 0 .. AddrTop /\ Desc[k + 1] \in 0 .. AddrTop
    BY DescFacts
  <1>2. Chained(k) => Desc[k + 2] \in 0 .. AddrTop
    BY DescFacts DEF Chained
  <1>3. /\ Ptr("next_ptr", Desc[k]) \in Access /\ Ptr("limit_ptr", Desc[k + 1]) \in Access
        /\ Ptr("start_ptr", Desc[k + 1]) \in Access
        /\ Chained(k) => Ptr("stop_ptr", Desc[k + 2]) \in Access
    BY <1>1, <1>2 DEF Access, Pointer
  <1>4. /\ CsrWrite({"RESET"}) \in Access /\ CsrWrite({"SETENABLE", "DEV2M"}) \in Access
        /\ CsrWrite({"SETENABLE", "SETSUPDATE", "DEV2M"}) \in Access
    BY DEF Access, Command
  <1>5. CASE Chained(k)
    BY <1>3, <1>4, <1>5 DEF Program
  <1>6. CASE ~Chained(k)
    BY <1>3, <1>4, <1>6 DEF Program
  <1> QED BY <1>5, <1>6

-----------------------------------------------------------------------------
(* The interrupt handler hands over a buffer while the channel goes on.    *)

Between(k) ==
    \/ Recording(k) /\ ch.cmp /\ ~ch.sup
    \/ Stopped(k) /\ ~ch.sup
    \/ Broken

LEMMA BetweenStep ==
  ASSUME NEW tick \in BOOLEAN, NEW m_ack \in BOOLEAN, NEW w, Clocked(w, tick, m_ack),
         csr_cmd(w) = {}, w.reg # "next_ptr", w.reg # "limit_ptr",
         NEW k \in 1 .. NDesc, Between(k)
  PROVE  Between(k)' /\ PointersBut(w)
  <1>1. /\ ch \in Channel /\ Request /\ History(w, tick, m_ack, FALSE)
        /\ ChNext(sndin_active, sndin_clear, tick, heard, m_ack, w)
    BY DEF Clocked
  <1>2. Plain(w)
    BY DEF Plain
  <1>3. ch.sup \in BOOLEAN /\ ch.cmp \in BOOLEAN
    BY <1>1 DEF Channel
  <1>4. CASE Recording(k) /\ ch.cmp /\ ~ch.sup
    <2>1. \/ Broken'
          \/ ~ch'.en /\ ch'.cmp /\ ~ch'.sup /\ Landed(Desc[k + 1])
          \/ Recording(k)' /\ ~ch'.sup /\ ch'.cmp
      BY <1>3, <1>4, Undisturbed
    <2> QED BY <1>1, <2>1 DEF Between, Stopped, Filled, Landed, ChNext, PointersBut
  <1>5. CASE Stopped(k) /\ ~ch.sup
    <2>1. ~ch.en /\ ch.cmp /\ Landed(Desc[k + 1])
      BY <1>1, <1>5, LandedSame DEF Stopped
    <2>2. ~ch'.en /\ ch'.cmp /\ ~ch'.sup /\ PointersBut(w)
      BY <1>2, <1>3, <1>5, <2>1, Rests
    <2> QED BY <2>1, <2>2 DEF Between, Stopped, Filled, Landed
  <1>6. CASE Broken
    <2>1. ~ch'.en /\ ch'.cmp /\ ch'.exc /\ PointersBut(w)
      BY <1>2, <1>6, Rests DEF Broken
    <2> QED BY <2>1 DEF Between, Broken
  <1> QED BY <1>4, <1>5, <1>6 DEF Between

(* The acknowledgement, with a buffer handed over or without.              *)
LEMMA AcknowledgeStep ==
  ASSUME NEW tick \in BOOLEAN, NEW m_ack \in BOOLEAN, NEW w, Clocked(w, tick, m_ack),
         w.reg = "csr", csr_cmd(w) = {"CLRCOMPLETE"},
         NEW d \in Nat, d = done, done' = d, queued = d + 1, queued' = d + 1, d < NDesc,
         Between(d + 1)
  PROVE  Chain'
  <1>1. /\ ch \in Channel /\ Request /\ History(w, tick, m_ack, FALSE)
    BY DEF Clocked
  <1>2. Plain(w) /\ "SETSUPDATE" \notin csr_cmd(w) /\ "CLRCOMPLETE" \in csr_cmd(w)
    BY DEF Plain
  <1>3. ch.sup \in BOOLEAN /\ ch.cmp \in BOOLEAN /\ d + 1 \in 1 .. NDesc
    BY <1>1, DescFacts DEF Channel
  <1>4. CASE Recording(d + 1) /\ ch.cmp /\ ~ch.sup
    <2>1. \/ Broken'
          \/ ~ch'.en /\ ch'.cmp /\ ~ch'.sup /\ Landed(Desc[(d + 1) + 1])
          \/ Recording(d + 1)' /\ ~ch'.sup /\ ~ch'.cmp
      BY <1>2, <1>3, <1>4, Proceeds
    <2> QED BY <2>1 DEF Chain, Stopped, Filled, Landed
  <1>5. CASE Stopped(d + 1) /\ ~ch.sup
    <2>1. ~ch.en /\ ch.cmp /\ Landed(Desc[(d + 1) + 1])
      BY <1>1, <1>5, LandedSame DEF Stopped
    <2>2. ~ch'.en /\ ch'.cmp /\ ~ch'.sup
      BY <1>2, <1>3, <1>5, <2>1, Rests
    <2> QED BY <2>1, <2>2 DEF Chain, Stopped, Filled, Landed
  <1>6. CASE Broken
    <2>1. ~ch'.en /\ ch'.cmp /\ ch'.exc
      BY <1>2, <1>6, Rests DEF Broken
    <2> QED BY <2>1 DEF Chain, Broken
  <1> QED BY <1>4, <1>5, <1>6 DEF Between

LEMMA HandOverStep ==
  ASSUME NEW tick \in BOOLEAN, NEW m_ack \in BOOLEAN, NEW w, Clocked(w, tick, m_ack),
         w.reg = "csr", csr_cmd(w) = {"SETSUPDATE", "CLRCOMPLETE"},
         NEW d \in Nat, d = done, done' = d, queued = d + 2, queued' = d + 2, d < NDesc,
         Between(d + 1), NextIs(d + 2)
  PROVE  (Chain \/ Missed)'
  <1>1. /\ ch \in Channel /\ Request /\ History(w, tick, m_ack, FALSE)
        /\ ChNext(sndin_active, sndin_clear, tick, heard, m_ack, w)
    BY DEF Clocked
  <1>2. Plain(w) /\ "SETSUPDATE" \in csr_cmd(w) /\ "CLRCOMPLETE" \in csr_cmd(w)
    BY DEF Plain
  <1>3. ch.sup \in BOOLEAN /\ ch.cmp \in BOOLEAN /\ d + 1 \in 1 .. NDesc
    BY <1>1, DescFacts DEF Channel
  <1>7. NextIs(d + 2)'
    BY <1>1 DEF NextIs, ChNext
  <1>4. CASE Recording(d + 1) /\ ch.cmp /\ ~ch.sup
    <2>1. \/ Broken'
          \/ ~ch'.en /\ ch'.cmp /\ ch'.sup /\ Landed(Desc[(d + 1) + 1])
          \/ Recording(d + 1)' /\ ch'.sup /\ ~ch'.cmp
      BY <1>2, <1>3, <1>4, Proceeds
    <2> QED BY <1>7, <2>1 DEF Chain, Missed, Stopped, Filled, Landed
  <1>5. CASE Stopped(d + 1) /\ ~ch.sup
    <2>1. ~ch.en /\ ch.cmp /\ Landed(Desc[(d + 1) + 1])
      BY <1>1, <1>5, LandedSame DEF Stopped
    <2>2. ~ch'.en /\ ch'.cmp /\ ch'.sup
      BY <1>2, <1>3, <1>5, <2>1, Rests
    <2> QED BY <2>1, <2>2 DEF Missed, Stopped, Filled, Landed
  <1>6. CASE Broken
    <2>1. ~ch'.en /\ ch'.cmp /\ ch'.exc
      BY <1>2, <1>6, Rests DEF Broken
    <2> QED BY <2>1 DEF Chain, Broken
  <1> QED BY <1>4, <1>5, <1>6 DEF Between

LEMMA RefillingPause ==
  ASSUME NEW tick \in BOOLEAN, NEW m_ack \in BOOLEAN, Clocked(NoWrite, tick, m_ack),
         NEW d \in Nat, d = done, done' = d, queued' = queued, todo' = todo, d < NDesc,
         Refilling
  PROVE  Refilling'
  <1>1. d + 1 \in 1 .. NDesc
    BY DescFacts
  <1>2. Between(d + 1)
    BY DEF Refilling, Between
  <1>3. Between(d + 1)' /\ PointersBut(NoWrite)
    BY <1>1, <1>2, NoWritePlain, BetweenStep DEF Pointer
  <1>4. ch'.start_ptr = ch.start_ptr /\ ch'.stop_ptr = ch.stop_ptr
    BY <1>3, NoWritePlain DEF PointersBut, Pointer
  <1>5. \/ Recording(done + 1)' /\ ch'.cmp /\ ~ch'.sup
        \/ Stopped(done + 1)' /\ ~ch'.sup
        \/ Broken'
    BY <1>3 DEF Between
  <1> QED BY <1>4, <1>5 DEF Refilling, Left, Refill, Ptr, CsrWrite

LEMMA RefillingWrite ==
  ASSUME NEW tick \in BOOLEAN, NEW m_ack \in BOOLEAN, NEW w, Clocked(w, tick, m_ack),
         NEW d \in Nat, d = done, done' = d, NEW q \in Nat, q = queued, queued' = q,
         q <= NDesc, d < NDesc, Write(w), Refilling
  PROVE  IF todo' = <<>> THEN (Chain \/ Missed)' ELSE Refilling'
  <1>1. d + 1 \in 1 .. NDesc /\ NDesc \in Nat
    BY DescFacts
  <1>2. Between(d + 1) /\ w = Head(todo) /\ todo' = Tail(todo)
    BY DEF Refilling, Between, Write
  <1>3. CASE q = d + 1 /\ todo = <<CsrWrite({"CLRCOMPLETE"})>>
    <2>1. w = CsrWrite({"CLRCOMPLETE"}) /\ todo' = <<>>
      BY <1>2, <1>3
    <2>2. w.reg = "csr" /\ csr_cmd(w) = {"CLRCOMPLETE"}
      BY <2>1, WriteForms
    <2>3. Chain'
      BY <1>2, <1>3, <2>2, AcknowledgeStep
    <2> QED BY <2>1, <2>3
  <1>4. ASSUME q = d + 2, NEW n \in 0 .. 2, Left(Refill(q), n),
               n >= 1 => ch.start_ptr = Desc[q], n >= 2 => ch.stop_ptr = Desc[q + 1]
        PROVE  IF todo' = <<>> THEN (Chain \/ Missed)' ELSE Refilling'
    <2> DEFINE p == Refill(q)
    <2>0. q \in 1 .. NDesc
      BY <1>1, <1>4
    <2>1. /\ p \in Seq(Access) /\ Len(p) = 3 /\ p[1] = Ptr("start_ptr", Desc[q])
          /\ p[2] = Ptr("stop_ptr", Desc[q + 1])
          /\ p[3] = CsrWrite({"SETSUPDATE", "CLRCOMPLETE"})
      BY <2>0, RefillFacts
    <2>6. Left(p, n)
      BY <1>4
    <2> HIDE DEF p
    <2>2. n \in 0 .. (Len(p) - 1)
      BY <2>1
    <2>7. /\ Head(todo) = p[n + 1] /\ Tail(todo) = SubSeq(p, (n + 1) + 1, Len(p))
          /\ n + 1 = Len(p) => Tail(todo) = <<>>
          /\ n + 1 < Len(p) => Tail(todo) # <<>>
      BY <2>1, <2>2, <2>6, LeftFacts
    <2>3. /\ w = p[n + 1] /\ todo' = SubSeq(p, (n + 1) + 1, Len(p))
          /\ n = 2 => todo' = <<>>
          /\ n < 2 => todo' # <<>>
      BY <1>2, <2>1, <2>7
    <2>4. CASE n = 2
      <3>1. w = CsrWrite({"SETSUPDATE", "CLRCOMPLETE"}) /\ todo' = <<>>
        BY <2>1, <2>3, <2>4
      <3>2. w.reg = "csr" /\ csr_cmd(w) = {"SETSUPDATE", "CLRCOMPLETE"}
        BY <3>1, WriteForms
      <3>3. NextIs(d + 2)
        BY <1>4, <2>4 DEF NextIs
      <3>4. (Chain \/ Missed)'
        BY <1>2, <1>4, <3>2, <3>3, HandOverStep
      <3> QED BY <3>1, <3>4
    <2>5. CASE n < 2
      <3>1. /\ n = 0 => w = Ptr("start_ptr", Desc[q])
            /\ n = 1 => w = Ptr("stop_ptr", Desc[q + 1])
            /\ n \in {0, 1}
        BY <2>1, <2>3, <2>5
      <3>2. /\ csr_cmd(w) = {}
            /\ n = 0 => w.reg = "start_ptr" /\ w.a = Desc[q]
            /\ n = 1 => w.reg = "stop_ptr" /\ w.a = Desc[q + 1]
        BY <3>1, WriteForms DEF Pointer
      <3>3. Between(d + 1)' /\ PointersBut(w)
        BY <1>1, <1>2, <3>1, <3>2, BetweenStep
      <3>4. /\ ch'.start_ptr = Desc[q]
            /\ n = 1 => ch'.stop_ptr = Desc[q + 1]
        BY <1>4, <3>1, <3>2, <3>3 DEF PointersBut
      <3>5. todo' = SubSeq(Refill(q), (n + 1) + 1, Len(Refill(q))) /\ n + 1 \in 0 .. 2
        BY <2>3, <3>1 DEF p
      <3>6. \/ Recording(done + 1)' /\ ch'.cmp /\ ~ch'.sup
            \/ Stopped(done + 1)' /\ ~ch'.sup
            \/ Broken'
        BY <3>3 DEF Between
      <3>7. Left(Refill(q), n + 1)'
        BY <3>5 DEF Left, Refill, Ptr, CsrWrite
      <3>8. \E m \in 0 .. 2 :
               /\ Left(Refill(q), m)'
               /\ m >= 1 => ch'.start_ptr = Desc[q]
               /\ m >= 2 => ch'.stop_ptr = Desc[q + 1]
        BY <3>1, <3>4, <3>5, <3>7
      <3>9. Refilling'
        BY <1>4, <3>6, <3>8 DEF Refilling
      <3> QED BY <2>3, <2>5, <3>9
    <2> QED BY <2>4, <2>5
  <1> QED BY <1>3, <1>4 DEF Refilling

-----------------------------------------------------------------------------
(* The driver programs the channel from its reset.                         *)

LEMMA ResetStep ==
  ASSUME ch \in Channel, NEW tick, NEW m_ack \in BOOLEAN, NEW w, csr_cmd(w) = {"RESET"},
         ChNext(sndin_active, sndin_clear, tick, heard, m_ack, w)
  PROVE  ~ch'.en /\ ~ch'.sup /\ ~ch'.cmp
  <1>1. /\ ~refused(csr_cmd(w)) /\ csr_reset(w) /\ "SETENABLE" \notin csr_cmd(w)
        /\ "SETSUPDATE" \notin csr_cmd(w)
    BY DEF refused, csr_reset
  <1>2. ~ch'.en
    BY <1>1 DEF ChNext
  <1>3. ~ch'.sup
    BY <1>1 DEF ChNext
  <1>4. ~ch'.cmp
    BY <1>1 DEF ChNext
  <1> QED BY <1>2, <1>3, <1>4

LEMMA EnableStep ==
  ASSUME NEW tick \in BOOLEAN, NEW m_ack \in BOOLEAN, NEW w, Clocked(w, tick, m_ack),
         w.reg = "csr", csr_cmd(w) \subseteq {"SETENABLE", "SETSUPDATE", "DEV2M"},
         "SETENABLE" \in csr_cmd(w), "DEV2M" \in csr_cmd(w),
         NEW k \in 1 .. NDesc, ~ch.en, ~ch.cmp, ~ch.sup, ch.next_ptr = Desc[k],
         ch.limit_ptr = Desc[k + 1], Filled(Desc[k])
  PROVE  /\ Recording(k)' /\ ~ch'.cmp /\ ch'.sup = ("SETSUPDATE" \in csr_cmd(w))
         /\ ch'.start_ptr = ch.start_ptr /\ ch'.stop_ptr = ch.stop_ptr
  <1>1. /\ ch \in Channel /\ Request /\ History(w, tick, m_ack, FALSE)
        /\ ChNext(sndin_active, sndin_clear, tick, heard, m_ack, w)
    BY DEF Clocked
  <1>2. ~Faults(m_ack, w) /\ ~Ends(m_ack, w) /\ ~Moves(m_ack, w)
    BY <1>1, EngineOff
  <1>3. k + 1 \in 1 .. (NDesc + 1) /\ k \in 1 .. (NDesc + 1)
    BY DescFacts
  <1>4. /\ Desc[k] \in Nat /\ Desc[k + 1] \in Nat /\ Desc[k] < Desc[k + 1]
        /\ Desc[k] % WordBytes = 0 /\ Desc[k + 1] % WordBytes = 0
    BY <1>3, DescFacts
  <1>5. ~bad_window /\ Desc[k] \in Desc[k] .. (Desc[k + 1] - 1)
    BY <1>4 DEF bad_window
  <1>6. ~refused(csr_cmd(w)) /\ ~csr_reset(w)
    BY <1>5 DEF refused, csr_reset
  <1>7. ch'.en
    BY <1>1, <1>6 DEF ChNext
  <1>8. ~ch'.cmp
    BY <1>1, <1>2, <1>6 DEF ChNext
  <1>9. ch'.sup = ("SETSUPDATE" \in csr_cmd(w))
    BY <1>1, <1>6 DEF ChNext
  <1>10. ch'.next_ptr = Desc[k] /\ ch'.limit_ptr = Desc[k + 1]
         /\ ch'.start_ptr = ch.start_ptr /\ ch'.stop_ptr = ch.stop_ptr
    BY <1>1, <1>2 DEF ChNext
  <1>11. Landed(Desc[k])
    BY <1>1, LandedSame
  <1>12. Recording(k)'
    BY <1>4, <1>5, <1>7, <1>10, <1>11 DEF Recording, Filled, Landed
  <1> QED BY <1>8, <1>9, <1>10, <1>12

LEMMA ProgrammingPause ==
  ASSUME NEW tick \in BOOLEAN, NEW m_ack \in BOOLEAN, Clocked(NoWrite, tick, m_ack),
         NEW d \in Nat, d = done, done' = d, queued' = queued, todo' = todo, Programming
  PROVE  Programming'
  <1>1. ~ch.en /\ ch \in Channel
    BY DEF Programming, Clocked
  <1>2. /\ ~ch'.en /\ ch'.cmp = ch.cmp /\ ch'.sup = ch.sup
        /\ ch'.start_ptr = ch.start_ptr /\ ch'.stop_ptr = ch.stop_ptr
        /\ ch'.next_ptr = ch.next_ptr /\ ch'.limit_ptr = ch.limit_ptr
    <2>1. ch.sup \in BOOLEAN
      BY <1>1 DEF Channel
    <2> QED BY <1>1, <2>1, NoWritePlain, Rests DEF PointersBut, Pointer
  <1> DEFINE k == d + 1
  <1>3. PICK n \in 0 .. (Len(Program(k)) - 1) : Left(Program(k), n) /\ Programmed(k, n)
    BY DEF Programming
  <1> HIDE DEF k
  <1>4. Left(Program(k), n)' /\ Programmed(k, n)'
    BY <1>2, <1>3 DEF Left, Programmed, Program, Chained, NDesc, Ptr, CsrWrite
  <1> QED BY <1>2, <1>3, <1>4 DEF Programming, k

(* The program's writes: RESET first, the pointers, the enable last.       *)
Enables(w) ==
    /\ w.reg = "csr" /\ csr_cmd(w) \subseteq {"SETENABLE", "SETSUPDATE", "DEV2M"}
    /\ "SETENABLE" \in csr_cmd(w) /\ "DEV2M" \in csr_cmd(w)

LEMMA ProgramWrites ==
  ASSUME NEW k \in 1 .. NDesc, NEW n \in 0 .. (Len(Program(k)) - 1), Left(Program(k), n),
         NEW w, Write(w)
  PROVE  /\ Left(Program(k), n + 1)'
         /\ n + 1 = Len(Program(k)) => todo' = <<>>
         /\ n + 1 < Len(Program(k)) => todo' # <<>>
         /\ n = 0 => csr_cmd(w) = {"RESET"}
         /\ n = 1 => w.reg = "next_ptr" /\ w.a = Desc[k] /\ csr_cmd(w) = {}
         /\ n = 2 => w.reg = "limit_ptr" /\ w.a = Desc[k + 1] /\ csr_cmd(w) = {}
         /\ Chained(k) /\ n = 3 => w.reg = "start_ptr" /\ w.a = Desc[k + 1] /\ csr_cmd(w) = {}
         /\ Chained(k) /\ n = 4 => w.reg = "stop_ptr" /\ w.a = Desc[k + 2] /\ csr_cmd(w) = {}
         /\ n + 1 = Len(Program(k)) =>
              Enables(w) /\ ("SETSUPDATE" \in csr_cmd(w) <=> Chained(k))
  <1> DEFINE p == Program(k)
  <1>1. /\ p \in Seq(Access) /\ Len(p) = IF Chained(k) THEN 6 ELSE 4
        /\ p[1] = CsrWrite({"RESET"}) /\ p[2] = Ptr("next_ptr", Desc[k])
        /\ p[3] = Ptr("limit_ptr", Desc[k + 1])
        /\ ~Chained(k) => p[4] = CsrWrite({"SETENABLE", "DEV2M"})
        /\ Chained(k) => /\ p[4] = Ptr("start_ptr", Desc[k + 1])
                         /\ p[5] = Ptr("stop_ptr", Desc[k + 2])
                         /\ p[6] = CsrWrite({"SETENABLE", "SETSUPDATE", "DEV2M"})
    BY ProgramFacts
  <1>2. w = Head(todo) /\ todo' = Tail(todo)
    BY DEF Write
  <1>3. Left(p, n) /\ n \in 0 .. (Len(p) - 1)
    OBVIOUS
  <1>4. p' = p
    BY DEF Program, Chained, NDesc, Ptr, CsrWrite
  <1> HIDE DEF p
  <1>5. /\ Head(todo) = p[n + 1] /\ Tail(todo) = SubSeq(p, (n + 1) + 1, Len(p))
        /\ n + 1 = Len(p) => Tail(todo) = <<>>
        /\ n + 1 < Len(p) => Tail(todo) # <<>>
    BY <1>1, <1>3, LeftFacts
  <1>6. w = p[n + 1]
    BY <1>2, <1>5
  <1>7. /\ n = 0 => w = CsrWrite({"RESET"})
        /\ n = 1 => w = Ptr("next_ptr", Desc[k])
        /\ n = 2 => w = Ptr("limit_ptr", Desc[k + 1])
        /\ Chained(k) /\ n = 3 => w = Ptr("start_ptr", Desc[k + 1])
        /\ Chained(k) /\ n = 4 => w = Ptr("stop_ptr", Desc[k + 2])
        /\ Chained(k) /\ n = 5 => w = CsrWrite({"SETENABLE", "SETSUPDATE", "DEV2M"})
        /\ ~Chained(k) /\ n = 3 => w = CsrWrite({"SETENABLE", "DEV2M"})
    BY <1>1, <1>6
  <1>8. /\ n = 0 => csr_cmd(w) = {"RESET"}
        /\ n = 1 => w.reg = "next_ptr" /\ w.a = Desc[k] /\ csr_cmd(w) = {}
        /\ n = 2 => w.reg = "limit_ptr" /\ w.a = Desc[k + 1] /\ csr_cmd(w) = {}
        /\ Chained(k) /\ n = 3 => w.reg = "start_ptr" /\ w.a = Desc[k + 1] /\ csr_cmd(w) = {}
        /\ Chained(k) /\ n = 4 => w.reg = "stop_ptr" /\ w.a = Desc[k + 2] /\ csr_cmd(w) = {}
        /\ Chained(k) /\ n = 5 =>
             w.reg = "csr" /\ csr_cmd(w) = {"SETENABLE", "SETSUPDATE", "DEV2M"}
        /\ ~Chained(k) /\ n = 3 => w.reg = "csr" /\ csr_cmd(w) = {"SETENABLE", "DEV2M"}
    BY <1>7, WriteForms DEF Pointer
  <1>9. n + 1 = Len(p) => Enables(w) /\ ("SETSUPDATE" \in csr_cmd(w) <=> Chained(k))
    <2>1. CASE Chained(k)
      BY <1>1, <1>3, <1>8, <2>1 DEF Enables
    <2>2. CASE ~Chained(k)
      BY <1>1, <1>3, <1>8, <2>2 DEF Enables
    <2> QED BY <2>1, <2>2
  <1>10. todo' = SubSeq(p, (n + 1) + 1, Len(p))
    BY <1>2, <1>5
  <1>11. Left(p, n + 1)'
    BY <1>4, <1>10 DEF Left
  <1> QED BY <1>2, <1>5, <1>8, <1>9, <1>11 DEF p

LEMMA ProgrammingWrite ==
  ASSUME NEW tick \in BOOLEAN, NEW m_ack \in BOOLEAN, NEW w, Clocked(w, tick, m_ack),
         NEW d \in Nat, d = done, done' = d, queued' = queued, d < NDesc,
         Write(w), Programming, DoneMeansFilled
  PROVE  IF todo' = <<>> THEN Chain' ELSE Programming'
  <1> DEFINE k == d + 1
  <1>1. k \in 1 .. NDesc /\ ~ch.en /\ queued = Handed(k)
    BY DescFacts DEF Programming
  <1>2. PICK n \in 0 .. (Len(Program(k)) - 1) : Left(Program(k), n) /\ Programmed(k, n)
    BY DEF Programming
  <1>3. /\ Left(Program(k), n + 1)'
        /\ n + 1 = Len(Program(k)) => todo' = <<>>
        /\ n + 1 < Len(Program(k)) => todo' # <<>>
        /\ n = 0 => csr_cmd(w) = {"RESET"}
        /\ n = 1 => w.reg = "next_ptr" /\ w.a = Desc[k] /\ csr_cmd(w) = {}
        /\ n = 2 => w.reg = "limit_ptr" /\ w.a = Desc[k + 1] /\ csr_cmd(w) = {}
        /\ Chained(k) /\ n = 3 => w.reg = "start_ptr" /\ w.a = Desc[k + 1] /\ csr_cmd(w) = {}
        /\ Chained(k) /\ n = 4 => w.reg = "stop_ptr" /\ w.a = Desc[k + 2] /\ csr_cmd(w) = {}
        /\ n + 1 = Len(Program(k)) =>
             Enables(w) /\ ("SETSUPDATE" \in csr_cmd(w) <=> Chained(k))
    BY <1>1, <1>2, ProgramWrites
  <1>4. Len(Program(k)) = IF Chained(k) THEN 6 ELSE 4
    BY <1>1, ProgramFacts
  <1>5. /\ ch \in Channel /\ Request /\ History(w, tick, m_ack, FALSE)
        /\ ChNext(sndin_active, sndin_clear, tick, heard, m_ack, w)
    BY DEF Clocked
  <1>6. CASE n + 1 = Len(Program(k))
    <2>1. /\ n = IF Chained(k) THEN 5 ELSE 3
      BY <1>2, <1>4, <1>6
    <2>2. /\ ~ch.cmp /\ ~ch.sup /\ ch.next_ptr = Desc[k] /\ ch.limit_ptr = Desc[k + 1]
          /\ Chained(k) => ch.start_ptr = Desc[k + 1] /\ ch.stop_ptr = Desc[k + 2]
      BY <1>2, <2>1 DEF Programmed
    <2>3. Filled(Desc[k])
      BY DEF DoneMeansFilled
    <2>4. Enables(w) /\ ("SETSUPDATE" \in csr_cmd(w) <=> Chained(k))
      BY <1>3, <1>6
    <2> HIDE DEF k
    <2>5. /\ Recording(k)' /\ ~ch'.cmp /\ ch'.sup = ("SETSUPDATE" \in csr_cmd(w))
          /\ ch'.start_ptr = ch.start_ptr /\ ch'.stop_ptr = ch.stop_ptr
      BY <1>1, <2>2, <2>3, <2>4, EnableStep DEF Enables
    <2>6. k = d + 1
      BY DEF k
    <2>7. CASE Chained(k)
      <3>5. queued' = k + 1
        BY <1>1, <2>7 DEF Handed
      <3>6. ch'.sup
        BY <2>4, <2>5, <2>7
      <3>1. queued' = d + 2 /\ ch'.sup
        BY <2>6, <3>5, <3>6
      <3>4. k + 1 = d + 2 /\ k + 2 = (d + 2) + 1
        BY <2>6
      <3>2. ch'.start_ptr = Desc[d + 2] /\ ch'.stop_ptr = Desc[(d + 2) + 1]
        BY <2>2, <2>5, <2>7, <3>4
      <3>3. NextIs(d + 2)'
        BY <3>2 DEF NextIs
      <3> QED BY <1>3, <1>6, <2>5, <2>6, <3>1, <3>3 DEF Chain
    <2>8. CASE ~Chained(k)
      <3>1. queued' = d + 1 /\ ~ch'.sup
        BY <1>1, <2>4, <2>5, <2>6, <2>8 DEF Handed
      <3> QED BY <1>3, <1>6, <2>5, <2>6, <3>1 DEF Chain
    <2> QED BY <2>7, <2>8
  <1>7. CASE n + 1 < Len(Program(k))
    <2>1. Programmed(k, n + 1)' /\ ~ch'.en
      <3>1. CASE n = 0
        <4>1. ~ch'.en /\ ~ch'.sup /\ ~ch'.cmp
          BY <1>3, <1>5, <3>1, ResetStep
        <4> QED BY <3>1, <4>1 DEF Programmed
      <3>2. CASE n >= 1
        <4>1. csr_cmd(w) = {} /\ Plain(w)
          BY <1>2, <1>3, <1>4, <1>7, <3>2 DEF Plain
        <4>2. /\ ~ch'.en /\ ch'.cmp = ch.cmp /\ ch'.sup = ch.sup /\ PointersBut(w)
              /\ ch'.next_ptr = IF w.reg = "next_ptr" THEN w.a ELSE ch.next_ptr
              /\ ch'.limit_ptr = IF w.reg = "limit_ptr" THEN w.a ELSE ch.limit_ptr
          <5>1. ch.sup \in BOOLEAN
            BY <1>5 DEF Channel
          <5> QED BY <1>1, <4>1, <5>1, Rests
        <4> HIDE DEF k
        <4>3. CASE n = 1
          BY <1>2, <1>3, <4>2, <4>3 DEF Programmed, PointersBut
        <4>4. CASE n = 2
          BY <1>2, <1>3, <4>2, <4>4 DEF Programmed, PointersBut
        <4>5. CASE n = 3 /\ Chained(k)
          BY <1>2, <1>3, <4>2, <4>5 DEF Programmed, PointersBut
        <4>6. CASE n = 4 /\ Chained(k)
          BY <1>2, <1>3, <4>2, <4>6 DEF Programmed, PointersBut
        <4> QED BY <1>2, <1>4, <1>7, <3>2, <4>3, <4>4, <4>5, <4>6
      <3> QED BY <1>2, <1>4, <3>1, <3>2
    <2>2. n + 1 \in 0 .. (Len(Program(k)) - 1)
      BY <1>2, <1>4, <1>7
    <2>3. queued' = Handed(k)
      BY <1>1
    <2>4. Programming'
      BY <1>3, <2>1, <2>2, <2>3 DEF Programming
    <2> QED BY <1>3, <1>7, <2>4
  <1> QED BY <1>2, <1>4, <1>6, <1>7

-----------------------------------------------------------------------------
(* What the driver's accesses make of the handover.                        *)

LEMMA NotEmpty ==
  ASSUME NEW s, Len(s) # 0
  PROVE  s # <<>>
  <1>1. Len(<<>>) = 0
    OBVIOUS
  <1> QED BY <1>1

LEMMA RestartStep ==
  ASSUME NEW n \in 0 .. NDesc, RestartAfter(n), ~ch'.en
  PROVE  Handover'
  <1>1. pc' = "wait" /\ done' = n /\ NDesc \in Nat
    BY DescFacts DEF RestartAfter, Go
  <1>2. CASE n < NDesc
    <2> DEFINE k == n + 1
    <2>1. k \in 1 .. NDesc /\ queued' = Handed(k) /\ todo' = Program(k)
      BY <1>1, <1>2 DEF RestartAfter, Go
    <2>2. Program(k) \in Seq(Access) /\ Len(Program(k)) \in {4, 6}
      BY <2>1, ProgramFacts
    <2>3. todo' # <<>> /\ 0 \in 0 .. (Len(Program(k)) - 1)
      <3> DEFINE p == Program(k)
      <3>1. todo' = p /\ Len(p) \in {4, 6}
        BY <2>1, <2>2
      <3> HIDE DEF p
      <3>2. p # <<>> /\ 0 \in 0 .. (Len(p) - 1)
        BY <3>1, NotEmpty
      <3> QED BY <3>1, <3>2 DEF p
    <2>4. Left(Program(k), 0)'
      <3> DEFINE p == Program(k)
      <3>1. p' = p
        BY DEF Program, Chained, NDesc, Ptr, CsrWrite
      <3>2. p \in Seq(Access) /\ todo' = p
        BY <2>1, <2>2
      <3> HIDE DEF p
      <3>3. todo' = SubSeq(p, 1, Len(p))
        BY <3>2, SubSeqFull
      <3>4. Left(p, 0)'
        BY <3>1, <3>3 DEF Left
      <3> QED BY <3>4 DEF p
    <2>5. Programmed(k, 0)'
      BY DEF Programmed
    <2>6. Programming'
      BY <1>1, <2>1, <2>3, <2>4, <2>5 DEF Programming
    <2> QED BY <1>1, <1>2, <2>3, <2>6 DEF Handover
  <1>3. CASE n = NDesc
    <2>1. Finished'
      <3>1. /\ queued' = n /\ todo' = <<CsrWrite({"RESET"})>>
        BY <1>1, <1>3 DEF RestartAfter, Go
      <3> QED BY <1>1, <3>1 DEF Finished, CsrWrite
    <2> QED BY <1>1, <1>3, <2>1 DEF Handover
  <1> QED BY <1>1, <1>2, <1>3

LEMMA RefillingStart ==
  ASSUME NEW d \in Nat, NEW q \in Nat, d = done, q = queued, q = d + 2, q <= NDesc,
         done' = d + 1, queued' = IF q < NDesc THEN q + 1 ELSE q,
         todo' = IF q < NDesc THEN Refill(q + 1) ELSE <<CsrWrite({"CLRCOMPLETE"})>>,
         Between(q)'
  PROVE  Refilling' /\ todo' # <<>>
  <1>1. NDesc \in Nat /\ (d + 1) + 1 = q /\ (d + 1) + 2 = q + 1
    BY DescFacts
  <1>2. \/ Recording(done + 1)' /\ ch'.cmp /\ ~ch'.sup
        \/ Stopped(done + 1)' /\ ~ch'.sup
        \/ Broken'
    BY <1>1 DEF Between
  <1>3. CASE q < NDesc
    <2> DEFINE p == Refill(q + 1)
    <2>1. p \in Seq(Access) /\ Len(p) = 3 /\ todo' = p /\ p' = p
      BY <1>1, <1>3, RefillFacts DEF Refill, Ptr, CsrWrite
    <2> HIDE DEF p
    <2>2. todo' = SubSeq(p, 0 + 1, Len(p))
      BY <2>1, SubSeqFull
    <2>3. Left(p, 0)'
      BY <2>1, <2>2 DEF Left
    <2>4. Left(Refill(queued), 0)'
      BY <1>3, <2>3 DEF p
    <2>5. \E n \in 0 .. 2 :
            /\ Left(Refill(queued), n)'
            /\ n >= 1 => ch'.start_ptr = Desc[queued']
            /\ n >= 2 => ch'.stop_ptr = Desc[queued' + 1]
      BY <2>4
    <2>6. todo' # <<>>
      <3>1. Len(p) # 0
        BY <2>1
      <3>2. p # <<>>
        BY <3>1, NotEmpty
      <3> QED BY <2>1, <3>2
    <2>7. queued' = done' + 2
      BY <1>1, <1>3
    <2>8. Refilling'
      BY <1>2, <2>5, <2>7 DEF Refilling
    <2> QED BY <2>6, <2>8
  <1>4. CASE q = NDesc
    <2>1. queued' = done' + 1 /\ todo' = <<CsrWrite({"CLRCOMPLETE"})>>
      BY <1>1, <1>4
    <2>2. Refilling'
      BY <1>2, <2>1 DEF Refilling, CsrWrite
    <2>3. todo' # <<>>
      BY <2>1
    <2> QED BY <2>2, <2>3
  <1> QED BY <1>1, <1>3, <1>4

LEMMA FilledNext ==
  ASSUME NEW n, NEW m, n = m, Landed(Desc[n + 1]), done' = m
  PROVE  DoneMeansFilled'
  BY DEF DoneMeansFilled, Filled, Landed

(* The handler finds the channel at a stop after buffer n.                 *)
LEMMA RestartStopped ==
  ASSUME NEW tick \in BOOLEAN, NEW m_ack \in BOOLEAN, Clocked(NoWrite, tick, m_ack),
         NEW n \in 0 .. NDesc, Stopped(n), RestartAfter(n)
  PROVE  Handover' /\ DoneMeansFilled'
  <1>1. History(NoWrite, tick, m_ack, FALSE) /\ ~ch.en /\ Filled(Desc[n + 1])
    BY DEF Clocked, Stopped
  <1>2. ~ch'.en
    BY <1>1, NoWritePlain, Rests
  <1>3. Handover'
    BY <1>2, RestartStep
  <1>4. Landed(Desc[n + 1])
    BY <1>1, LandedSame
  <1>5. DoneMeansFilled'
    BY <1>4, FilledNext DEF RestartAfter
  <1> QED BY <1>3, <1>5

Counters(d, q) ==
    /\ d \in Nat /\ q \in Nat /\ d = done /\ q = queued /\ d <= q /\ q <= NDesc

LEMMA ReadCsrStep ==
  ASSUME NEW tick \in BOOLEAN, NEW m_ack \in BOOLEAN, Clocked(NoWrite, tick, m_ack),
         NEW d, NEW q, Counters(d, q), d < NDesc, Chain, DoneMeansFilled, ReadCsr
  PROVE  Handover' /\ DoneMeansFilled'
  <1>1. /\ d \in Nat /\ q \in Nat /\ d = done /\ q = queued /\ q <= NDesc /\ NDesc \in Nat
    BY DescFacts DEF Counters
  <1>2. ch \in Channel /\ History(NoWrite, tick, m_ack, FALSE)
    BY DEF Clocked
  <1>3. Landed(Desc[d + 1])
    BY <1>1, <1>2, LandedSame DEF DoneMeansFilled
  <1>4. ASSUME done' = d, queued' = q
        PROVE  Chain' /\ DoneMeansFilled'
    <2>1. Chain'
      BY <1>1, <1>4, ChainStep
    <2> QED BY <1>3, <1>4, <2>1, FilledNext
  <1>5. CASE ch.exc
    <2>1. pc' = "failed" /\ todo' = <<>> /\ queued' = q /\ done' = d
      BY <1>1, <1>5 DEF ReadCsr, GiveUp, Go
    <2> QED BY <1>4, <2>1 DEF Handover
  <1>6. CASE ~ch.exc /\ ch.cmp /\ ~ch.en
    <2>1. Stopped(q) /\ RestartAfter(q) /\ q \in 0 .. NDesc
      BY <1>1, <1>6 DEF Chain, Recording, Broken, ReadCsr
    <2> QED BY <2>1, RestartStopped
  <1>7. CASE ~ch.exc /\ ch.cmp /\ ch.en
    <2>1. Recording(q) /\ ~ch.sup /\ q = d + 2 /\ q \in 1 .. NDesc
      BY <1>1, <1>7 DEF Chain, Stopped, Broken
    <2>2. /\ done' = d + 1 /\ queued' = IF q < NDesc THEN q + 1 ELSE q
          /\ pc' = "check"
          /\ todo' = IF q < NDesc THEN Refill(q + 1) ELSE <<CsrWrite({"CLRCOMPLETE"})>>
      BY <1>1, <1>7 DEF ReadCsr, Go
    <2>3. Between(q)'
      BY <1>7, <2>1, NoWritePlain, BetweenStep DEF Between, Pointer
    <2>4. Refilling' /\ todo' # <<>>
      BY <1>1, <2>1, <2>2, <2>3, RefillingStart
    <2>5. Landed(Desc[(d + 1) + 1])
      <3>1. Filled(ch.next_ptr) /\ ch.next_ptr \in Nat /\ ch.next_ptr >= Desc[q] /\ Desc[q] \in Nat
            /\ Desc[1] \in Nat
        BY <1>1, <1>2, <2>1, DescFacts DEF Recording, Channel
      <3>2. Filled(Desc[q])
        BY <3>1 DEF Filled
      <3>3. Landed(Desc[q])
        BY <1>2, <3>2, LandedSame
      <3> QED BY <1>1, <2>1, <3>3
    <2>6. DoneMeansFilled'
      BY <2>2, <2>5, FilledNext
    <2>7. done' < NDesc
      BY <1>1, <2>1, <2>2
    <2> QED BY <2>2, <2>4, <2>6, <2>7 DEF Handover
  <1>8. CASE ~ch.exc /\ ~ch.cmp
    <2>1. pc' = "wait" /\ todo' = <<>> /\ queued' = q /\ done' = d
      BY <1>1, <1>8 DEF ReadCsr, Go
    <2>2. done' # NDesc
      BY <1>1, <2>1
    <2>3. done' # NDesc
      BY <1>1, <2>1
    <2> QED BY <1>4, <2>1, <2>2, <2>3 DEF Handover
  <1> QED BY <1>5, <1>6, <1>7, <1>8

LEMMA CheckCsrStep ==
  ASSUME NEW tick \in BOOLEAN, NEW m_ack \in BOOLEAN, Clocked(NoWrite, tick, m_ack),
         NEW d, NEW q, Counters(d, q), d < NDesc, Chain \/ Missed, DoneMeansFilled, CheckCsr
  PROVE  Handover' /\ DoneMeansFilled'
  <1>1. /\ d \in Nat /\ q \in Nat /\ d = done /\ q = queued /\ q <= NDesc /\ NDesc \in Nat
    BY DescFacts DEF Counters
  <1>2. ch \in Channel /\ History(NoWrite, tick, m_ack, FALSE)
    BY DEF Clocked
  <1>3. Landed(Desc[d + 1])
    BY <1>1, <1>2, LandedSame DEF DoneMeansFilled
  <1>4. ASSUME done' = d, queued' = q
        PROVE  (Chain => Chain') /\ DoneMeansFilled'
    <2>1. Chain => Chain'
      BY <1>1, <1>4, ChainStep
    <2> QED BY <1>3, <1>4, <2>1, FilledNext
  <1>5. CASE ch.exc
    <2>1. pc' = "failed" /\ todo' = <<>> /\ queued' = q /\ done' = d
      BY <1>1, <1>5 DEF CheckCsr, GiveUp, Go
    <2>2. Missed => ~ch'.en
      BY NoWritePlain, Rests DEF Missed, Stopped
    <2> QED BY <1>4, <2>1, <2>2 DEF Handover
  <1>6. CASE ~ch.exc /\ ch.cmp /\ ~ch.en
    <2>1. CASE Chain
      <3>1. Stopped(q) /\ ~ch.sup /\ q \in 0 .. NDesc
        BY <1>1, <1>6, <2>1 DEF Chain, Recording, Broken
      <3>2. RestartAfter(q)
        BY <1>1, <1>6, <3>1 DEF CheckCsr
      <3> QED BY <3>1, <3>2, RestartStopped
    <2>2. CASE Missed
      <3>1. Stopped(d + 1) /\ ch.sup /\ q = d + 2 /\ d + 1 \in 0 .. NDesc /\ q - 1 = d + 1
        BY <1>1, <2>2 DEF Missed
      <3>2. RestartAfter(d + 1)
        BY <1>1, <1>6, <3>1 DEF CheckCsr
      <3> QED BY <3>1, <3>2, RestartStopped
    <2> QED BY <2>1, <2>2
  <1>7. CASE ~ch.exc /\ ~(ch.cmp /\ ~ch.en)
    <2>1. pc' = "wait" /\ todo' = <<>> /\ queued' = q /\ done' = d
      BY <1>1, <1>7 DEF CheckCsr, Go
    <2>2. Chain
      BY <1>7 DEF Missed, Stopped
    <2>3. done' # NDesc
      BY <1>1, <2>1
    <2> QED BY <1>4, <2>1, <2>2, <2>3 DEF Handover
  <1> QED BY <1>5, <1>6, <1>7

LEMMA Types ==
  ASSUME Inv
  PROVE  /\ \E d, q : Counters(d, q)
         /\ done \in Nat /\ queued \in Nat /\ NDesc \in Nat /\ done <= queued
         /\ queued <= NDesc /\ pc \in {"wait", "check", "failed"}
         /\ ch \in Channel /\ Request /\ Handover /\ DoneMeansFilled
  <1>1. NDesc \in Nat
    BY DescFacts
  <1>2. done \in 0 .. queued /\ queued \in 0 .. NDesc
    BY DEF Inv, TypeOK
  <1>3. done \in Nat /\ queued \in Nat /\ done <= queued /\ queued <= NDesc
    BY <1>1, <1>2
  <1>4. Counters(done, queued)
    BY <1>3 DEF Counters
  <1> QED BY <1>1, <1>3, <1>4 DEF Inv, TypeOK, ChTypeOK

LEMMA InvClocked ==
  ASSUME Inv, NEW w \in Access, NEW tick \in BOOLEAN, NEW m_ack \in BOOLEAN,
         Clock(w, tick, m_ack, FALSE)
  PROVE  Clocked(w, tick, m_ack)
  <1>1. TypeOK /\ Request
    BY DEF Inv
  <1> QED BY <1>1, ClockNext DEF Clocked

LEMMA AccessesAllowed ==
  ASSUME Inv, NEW w \in Accesses
  PROVE  w \in Access
  <1>1. todo \in Seq(Access)
    BY DEF Inv, TypeOK
  <1>2. \A i \in DOMAIN todo : todo[i] \in Access
    BY <1>1, ElementOfSeq, LenProperties
  <1>3. NoWrite \in Access /\ CsrWrite({"RESET"}) \in Access
    BY DEF Access, Command
  <1> QED BY <1>2, <1>3 DEF Accesses

LEMMA HandoverWrite ==
  ASSUME Inv, NEW w \in Access, NEW tick \in BOOLEAN, NEW m_ack \in BOOLEAN,
         Clock(w, tick, m_ack, FALSE), Write(w)
  PROVE  Handover' /\ DoneMeansFilled'
  <1>1. /\ done \in Nat /\ queued \in Nat /\ NDesc \in Nat /\ done <= queued
        /\ queued <= NDesc /\ pc \in {"wait", "check", "failed"}
        /\ ch \in Channel /\ Request /\ Handover /\ DoneMeansFilled
    BY Types
  <1>2. PICK d \in Nat, q \in Nat : d = done /\ q = queued
    BY <1>1
  <1>3. /\ todo # <<>> /\ done' = d /\ queued' = q /\ pc' = pc
        /\ w = Head(todo) /\ todo' = Tail(todo)
    BY <1>2 DEF Write
  <1>4. Clocked(w, tick, m_ack)
    BY InvClocked
  <1>5. DoneMeansFilled'
    <2>1. History(w, tick, m_ack, FALSE) /\ Filled(Desc[d + 1])
      BY <1>1, <1>2, <1>4 DEF Clocked, DoneMeansFilled
    <2>2. Landed(Desc[d + 1])
      BY <2>1, LandedSame
    <2> QED BY <1>3, <2>2, FilledNext
  <1>6. CASE pc = "wait" /\ d = NDesc
    <2>1. ~ch.en /\ queued = done /\ todo = <<CsrWrite({"RESET"})>>
      BY <1>1, <1>2, <1>3, <1>6 DEF Handover, Finished
    <2>2. w = CsrWrite({"RESET"}) /\ todo' = <<>>
      BY <1>3, <2>1
    <2>3. ~ch'.en /\ ~ch'.sup /\ ~ch'.cmp
      <3>1. csr_cmd(w) = {"RESET"}
        BY <2>2, WriteForms
      <3> QED BY <1>1, <1>4, <3>1, ResetStep DEF Clocked
    <2>4. Finished'
      BY <1>2, <1>3, <2>1, <2>2, <2>3 DEF Finished
    <2> QED BY <1>3, <1>5, <1>6, <2>4 DEF Handover
  <1>7. CASE pc = "wait" /\ d < NDesc
    <2>1. Programming
      BY <1>1, <1>2, <1>3, <1>7 DEF Handover
    <2>2. IF todo' = <<>> THEN Chain' ELSE Programming'
      BY <1>1, <1>2, <1>3, <1>4, <1>7, <2>1, ProgrammingWrite
    <2>3. done' # NDesc
      BY <1>1, <1>3, <1>7
    <2> QED BY <1>3, <1>5, <1>7, <2>2, <2>3 DEF Handover
  <1>8. CASE pc = "check"
    <2>1. Refilling /\ d < NDesc
      BY <1>1, <1>2, <1>3, <1>8 DEF Handover
    <2>2. IF todo' = <<>> THEN (Chain \/ Missed)' ELSE Refilling'
      BY <1>1, <1>2, <1>3, <1>4, <2>1, RefillingWrite
    <2> QED BY <1>3, <1>5, <1>8, <2>1, <2>2 DEF Handover
  <1>9. pc # "failed"
    BY <1>1, <1>3 DEF Handover
  <1>10. d = NDesc \/ d < NDesc
    BY <1>1, <1>2
  <1> QED BY <1>1, <1>6, <1>7, <1>8, <1>9, <1>10

LEMMA HandoverPause ==
  ASSUME Inv, NEW tick \in BOOLEAN, NEW m_ack \in BOOLEAN,
         Clock(NoWrite, tick, m_ack, FALSE), UNCHANGED driverVars
  PROVE  Handover' /\ DoneMeansFilled'
  <1>1. /\ done \in Nat /\ queued \in Nat /\ NDesc \in Nat /\ done <= queued
        /\ queued <= NDesc /\ pc \in {"wait", "check", "failed"}
        /\ ch \in Channel /\ Request /\ Handover /\ DoneMeansFilled
    BY Types
  <1>2. PICK d \in Nat, q \in Nat : d = done /\ q = queued
    BY <1>1
  <1>3. done' = d /\ queued' = q /\ pc' = pc /\ todo' = todo
    BY <1>2 DEF driverVars
  <1>4. Clocked(NoWrite, tick, m_ack)
    <2>1. NoWrite \in Access
      BY DEF Access
    <2> QED BY <2>1, InvClocked
  <1>5. DoneMeansFilled'
    <2>1. History(NoWrite, tick, m_ack, FALSE) /\ Filled(Desc[d + 1])
      BY <1>1, <1>2, <1>4 DEF Clocked, DoneMeansFilled
    <2>2. Landed(Desc[d + 1])
      BY <2>1, LandedSame
    <2> QED BY <1>3, <2>2, FilledNext
  <1>6. ~ch.en => ~ch'.en /\ ch'.cmp = ch.cmp
    BY <1>4, NoWritePlain, Rests
  <1>7. d < NDesc /\ Chain => Chain'
    BY <1>1, <1>2, <1>3, <1>4, ChainStep
  <1>8. Missed => Missed'
    BY <1>1, <1>2, <1>3, <1>4, MissedStep
  <1>9. d < NDesc /\ Refilling => Refilling'
    BY <1>1, <1>2, <1>3, <1>4, RefillingPause
  <1>10. Programming => Programming'
    BY <1>1, <1>2, <1>3, <1>4, ProgrammingPause
  <1>11. Finished => Finished'
    BY <1>2, <1>3, <1>6 DEF Finished
  <1> QED BY <1>1, <1>2, <1>3, <1>5, <1>6, <1>7, <1>8, <1>9, <1>10, <1>11 DEF Handover

LEMMA HandoverHandle ==
  ASSUME Inv, NEW tick \in BOOLEAN, NEW m_ack \in BOOLEAN,
         Clock(NoWrite, tick, m_ack, FALSE), Handle(NoWrite)
  PROVE  Handover' /\ DoneMeansFilled'
  <1>1. /\ done \in Nat /\ queued \in Nat /\ NDesc \in Nat /\ done <= queued
        /\ queued <= NDesc /\ ch \in Channel /\ Request /\ Handover /\ DoneMeansFilled
    BY Types
  <1>2. PICK d \in Nat, q \in Nat : d = done /\ q = queued
    BY <1>1
  <1>3. Counters(d, q)
    BY <1>1, <1>2 DEF Counters
  <1>4. Clocked(NoWrite, tick, m_ack)
    <2>1. NoWrite \in Access
      BY DEF Access
    <2> QED BY <2>1, InvClocked
  <1>5. todo = <<>>
    BY DEF Handle
  <1>6. CASE pc = "wait" /\ ReadCsr /\ d < NDesc
    <2>1. Chain
      BY <1>1, <1>2, <1>5, <1>6 DEF Handover
    <2> QED BY <1>1, <1>3, <1>4, <1>6, <2>1, ReadCsrStep
  <1>7. CASE pc = "wait" /\ ReadCsr /\ d = NDesc
    <2>1. ~ch.en /\ queued = done /\ ~ch.cmp
      BY <1>1, <1>2, <1>5, <1>7 DEF Handover, Finished
    <2>2. /\ pc' = IF ch.exc THEN "failed" ELSE "wait"
          /\ todo' = <<>> /\ queued' = q /\ done' = d
      BY <1>2, <1>7, <2>1 DEF ReadCsr, GiveUp, Go
    <2>3. ~ch'.en /\ ch'.cmp = ch.cmp
      BY <1>4, <2>1, NoWritePlain, Rests
    <2>4. Handover'
      BY <1>2, <1>7, <2>1, <2>2, <2>3 DEF Handover, Finished
    <2>5. History(NoWrite, tick, m_ack, FALSE) /\ Filled(Desc[d + 1])
      BY <1>1, <1>2, <1>4 DEF Clocked, DoneMeansFilled
    <2>6. Landed(Desc[d + 1])
      BY <2>5, LandedSame
    <2>7. DoneMeansFilled'
      BY <2>2, <2>6, FilledNext
    <2> QED BY <2>4, <2>7
  <1>8. CASE pc = "check" /\ CheckCsr
    <2>1. (Chain \/ Missed) /\ d < NDesc
      BY <1>1, <1>2, <1>5, <1>8 DEF Handover
    <2> QED BY <1>1, <1>3, <1>4, <1>8, <2>1, CheckCsrStep
  <1>9. d = NDesc \/ d < NDesc
    BY <1>1, <1>2
  <1> QED BY <1>6, <1>7, <1>8, <1>9 DEF Handle

LEMMA HandoverAbort ==
  ASSUME Inv, NEW w \in Access, NEW tick \in BOOLEAN, NEW m_ack \in BOOLEAN,
         Clock(w, tick, m_ack, TRUE), Abort(w)
  PROVE  Handover' /\ DoneMeansFilled'
  <1>1. done \in Nat /\ NDesc \in Nat /\ DoneMeansFilled
    BY Types
  <1>2. PICK d \in Nat : d = done
    BY <1>1
  <1>3. d \in 0 .. NDesc /\ RestartAfter(d) /\ w = CsrWrite({"RESET"})
    BY <1>1, <1>2 DEF Abort
  <1>4. /\ ChNext(sndin_active, sndin_clear, tick, heard, m_ack, w)
        /\ History(w, tick, m_ack, TRUE) /\ ch \in Channel
    <2>1. TypeOK
      BY DEF Inv
    <2> QED BY <2>1, ClockNext
  <1>5. ~ch'.en
    <2>1. csr_cmd(w) = {"RESET"}
      BY <1>3, WriteForms
    <2> QED BY <1>4, <2>1, ResetStep
  <1>6. Handover'
    BY <1>3, <1>5, RestartStep
  <1>7. Landed(Desc[d + 1])
    <2>1. rec' = {a \in rec : a < Desc[d + 1]}
      BY <1>2, <1>4 DEF History
    <2>2. Filled(Desc[d + 1]) /\ Desc[d + 1] \in Nat /\ Desc[1] \in Nat
      <3>1. d + 1 \in 1 .. (NDesc + 1) /\ 1 \in 1 .. (NDesc + 1)
        BY <1>1, <1>3
      <3> QED BY <1>1, <1>2, <3>1, DescFacts DEF DoneMeansFilled
    <2> QED BY <2>1, <2>2 DEF Landed, Filled
  <1>8. DoneMeansFilled'
    BY <1>3, <1>7, FilledNext DEF RestartAfter
  <1> QED BY <1>6, <1>8

-----------------------------------------------------------------------------
(* The request.  The driver touches neither NEXT, LIMIT nor ENABLE of a    *)
(* channel that runs, unless it resets it.                                 *)

Quiet(w) == w.reg # "next_ptr" /\ w.reg # "limit_ptr" /\ "SETENABLE" \notin csr_cmd(w)

LEMMA QuietWrites ==
  ASSUME Inv, NEW w, Write(w), ch.en
  PROVE  Quiet(w)
  <1>1. /\ done \in Nat /\ queued \in Nat /\ NDesc \in Nat /\ done <= queued
        /\ queued <= NDesc /\ pc \in {"wait", "check", "failed"} /\ Handover
    BY Types
  <1>2. todo # <<>> /\ w = Head(todo)
    BY DEF Write
  <1>3. pc = "check" /\ Refilling /\ done < NDesc
    <2>1. done = NDesc \/ done < NDesc
      BY <1>1
    <2> QED BY <1>1, <1>2, <2>1 DEF Handover, Finished, Programming
  <1>4. CASE todo = <<CsrWrite({"CLRCOMPLETE"})>>
    <2>1. w = CsrWrite({"CLRCOMPLETE"})
      BY <1>2, <1>4
    <2>2. w.reg = "csr" /\ csr_cmd(w) = {"CLRCOMPLETE"}
      BY <2>1, WriteForms
    <2> QED BY <2>2 DEF Quiet
  <1>5. ASSUME NEW n \in 0 .. 2, NEW q \in Nat, q = queued, queued = done + 2, Left(Refill(q), n)
        PROVE  Quiet(w)
    <2> DEFINE p == Refill(q)
    <2>0. q \in 1 .. NDesc
      BY <1>1, <1>5
    <2>1. /\ p \in Seq(Access) /\ Len(p) = 3 /\ p[1] = Ptr("start_ptr", Desc[q])
          /\ p[2] = Ptr("stop_ptr", Desc[q + 1])
          /\ p[3] = CsrWrite({"SETSUPDATE", "CLRCOMPLETE"})
      BY <2>0, RefillFacts
    <2>2. Left(p, n)
      BY <1>5
    <2> HIDE DEF p
    <2>3. n \in 0 .. (Len(p) - 1)
      BY <2>1
    <2>4. Head(todo) = p[n + 1]
      BY <2>1, <2>2, <2>3, LeftFacts
    <2>5. w = p[1] \/ w = p[2] \/ w = p[3]
      BY <1>2, <2>4
    <2>6. /\ p[1].reg = "start_ptr" /\ csr_cmd(p[1]) = {}
          /\ p[2].reg = "stop_ptr" /\ csr_cmd(p[2]) = {}
          /\ p[3].reg = "csr" /\ csr_cmd(p[3]) = {"SETSUPDATE", "CLRCOMPLETE"}
      BY <2>1, WriteForms DEF Pointer
    <2> QED BY <2>5, <2>6 DEF Quiet
  <1> QED BY <1>1, <1>3, <1>4, <1>5 DEF Refilling

LEMMA RequestStep ==
  ASSUME ch \in Channel, Request, NEW tick \in BOOLEAN, NEW m_ack \in BOOLEAN, NEW w, NEW ab,
         ChNext(sndin_active, sndin_clear, tick, heard, m_ack, w),
         History(w, tick, m_ack, ab), stale \in BOOLEAN, ch.en => Quiet(w)
  PROVE  Request'
  <1>1. /\ ch.m_req \in BOOLEAN /\ ch.cancelled \in BOOLEAN /\ ch.en \in BOOLEAN
        /\ ch'.m_req \in BOOLEAN /\ ch'.cancelled \in BOOLEAN
    BY DEF Channel, ChNext
  <1> DEFINE starts == Starts(sndin_active, tick, w)
  <1>2. /\ ch'.m_req = ((ch.m_req \/ starts) /\ ~answer(m_ack))
        /\ ch'.cancelled = ((ch.cancelled /\ ~starts /\ ~answer(m_ack))
                         \/ (csr_reset(w) /\ ch.m_req /\ ~m_ack /\ ~m_err))
        /\ ch'.m_addr = IF starts THEN ch.next_ptr ELSE ch.m_addr
    BY DEF ChNext
  <1>3. stale' = (ch'.m_req /\ (stale \/ (ch.m_req /\ csr_reset(w))))
    BY DEF History
  <1>4. stale = ch.cancelled /\ (ch.cancelled => ch.m_req)
    BY DEF Request
  <1>5. starts => ch.en /\ ~ch.m_req /\ ~bad_window /\ ch.next_ptr < ch.limit_ptr /\ ~csr_reset(w)
    BY DEF Starts
  <1>6. answer(m_ack) = (ch.m_req /\ (m_ack \/ m_err))
    BY DEF answer
  <1> HIDE DEF starts
  <1>7. stale' = ch'.cancelled
    BY <1>1, <1>2, <1>3, <1>4, <1>5, <1>6
  <1>8. ch'.cancelled => ch'.m_req
    BY <1>1, <1>2, <1>4, <1>5, <1>6
  <1>9. ASSUME ch'.m_req, ~ch'.cancelled
        PROVE  ch'.en /\ ch'.m_addr = ch'.next_ptr
    <2>1. ~answer(m_ack) /\ ~csr_reset(w) /\ ch.en
      <3>1. ~answer(m_ack)
        BY <1>2, <1>9
      <3>2. ~csr_reset(w)
        BY <1>1, <1>2, <1>5, <1>6, <1>9, <3>1
      <3>3. ch.en
        BY <1>1, <1>2, <1>5, <1>9, <3>1 DEF Request
      <3> QED BY <3>1, <3>2, <3>3
    <2>2. ch.m_req \/ starts
      BY <1>2, <1>9
    <2>3. ~Moves(m_ack, w)
      BY <2>1 DEF Moves, Counts
    <2>4. ~Faults(m_ack, w) /\ ~Ends(m_ack, w)
      <3>1. CASE ch.m_req
        BY <2>1, <3>1 DEF Faults, Ends, Moves, Counts, Unoccupied
      <3>2. CASE starts
        <4>1. ch.next_ptr # ch.limit_ptr /\ ~bad_window
          <5>1. ch.next_ptr \in Nat /\ ch.limit_ptr \in Nat /\ ch.next_ptr < ch.limit_ptr
            BY <1>5, <3>2 DEF Channel
          <5> QED BY <1>5, <3>2, <5>1
        <4> QED BY <2>1, <4>1 DEF Faults, Ends, Moves, Counts
      <3> QED BY <2>2, <3>1, <3>2
    <2>5. Quiet(w)
      BY <2>1
    <2>6. ~refused(csr_cmd(w))
      BY <2>5 DEF refused, Quiet
    <2>7. ch'.en
      BY <2>1, <2>4, <2>6 DEF ChNext
    <2>8. ch'.next_ptr = ch.next_ptr
      BY <2>3, <2>4, <2>5 DEF ChNext, Quiet
    <2>9. ch'.m_addr = ch.next_ptr
      <3>1. CASE starts
        BY <1>2, <3>1
      <3>2. CASE ~starts
        <4>1. ch.m_req /\ ~ch.cancelled
          BY <1>1, <1>2, <1>9, <2>1, <2>2, <3>2
        <4> QED BY <1>2, <3>2, <4>1 DEF Request
      <3> QED BY <3>1, <3>2
    <2> QED BY <2>7, <2>8, <2>9
  <1> QED BY <1>7, <1>8, <1>9 DEF Request

-----------------------------------------------------------------------------
(* Samples, counted modulo SampleMod.                                      *)

LEMMA ModUnique ==
  ASSUME NEW M \in Nat \ {0}, NEW x \in Int, NEW y \in Int, NEW q \in Int, y = x + M * q
  PROVE  y % M = x % M
  <1> DEFINE a == x \div M
             b == y \div M
             r == x % M
             s == y % M
  <1>1. a \in Int /\ r \in 0 .. (M - 1) /\ x = (M * a) + r
    OBVIOUS
  <1>2. b \in Int /\ s \in 0 .. (M - 1) /\ y = (M * b) + s
    OBVIOUS
  <1> HIDE DEF a, b, r, s
  <1>3. M * (a + q - b) = s - r
    BY <1>1, <1>2
  <1>4. \A k \in Int : k >= 1 => M * k >= M
    OBVIOUS
  <1>5. \A k \in Int : k <= -1 => M * k <= -M
    OBVIOUS
  <1>6. a + q - b = 0
    BY <1>1, <1>2, <1>3, <1>4, <1>5
  <1>7. s = r
    BY <1>1, <1>2, <1>3, <1>6
  <1> QED BY <1>7 DEF r, s

LEMMA ModShift ==
  ASSUME NEW M \in Nat \ {0}, NEW x \in Int, NEW d \in Int
  PROVE  ((x % M) + d) % M = (x + d) % M
  <1> DEFINE a == x \div M
             r == x % M
  <1>1. a \in Int /\ r \in 0 .. (M - 1) /\ x = (M * a) + r
    OBVIOUS
  <1> HIDE DEF a, r
  <1>2. r + d \in Int /\ x + d \in Int /\ x + d = (r + d) + M * a
    BY <1>1
  <1>3. (x + d) % M = (r + d) % M
    BY <1>1, <1>2, ModUnique
  <1> QED BY <1>3 DEF r

LEMMA ModSmall ==
  ASSUME NEW M \in Nat \ {0}, NEW x \in 0 .. (M - 1)
  PROVE  x % M = x
  <1> DEFINE a == x \div M
             r == x % M
  <1>1. a \in Int /\ r \in 0 .. (M - 1) /\ x = (M * a) + r
    OBVIOUS
  <1> HIDE DEF a, r
  <1>4. \A k \in Int : k >= 1 => M * k >= M
    OBVIOUS
  <1>5. \A k \in Int : k <= -1 => M * k <= -M
    OBVIOUS
  <1>6. a = 0
    BY <1>1, <1>4, <1>5
  <1>7. r = x
    BY <1>1, <1>6
  <1> QED BY <1>7 DEF r

SampleFacts ==
    /\ SampleMod \in Nat \ {0} /\ PerWord \in Nat \ {0} /\ heard \in 0 .. (SampleMod - 1)
    /\ ch.samples \in Seq(Sample) /\ Len(ch.samples) \in 0 .. (PerWord - 1)
    /\ ch.sample_count \in 0 .. (PerWord - 1)

LEMMA TypedSamples ==
  ASSUME TypeOK
  PROVE  SampleFacts /\ heard \in Sample /\ last \in Sample
  <1>1. ch \in Channel /\ Len(ch.samples) < PerWord /\ heard \in Sample /\ last \in Sample
    BY DEF TypeOK, ChTypeOK
  <1>2. ch.samples \in Seq(Sample) /\ ch.sample_count \in 0 .. (PerWord - 1)
    BY <1>1 DEF Channel
  <1>3. Len(ch.samples) \in Nat
    BY <1>2, LenProperties
  <1>4. SampleMod \in Nat \ {0} /\ PerWord \in Nat \ {0} /\ heard \in 0 .. (SampleMod - 1)
    BY <1>1, SoundAssumption, SndInAssumption
  <1> DEFINE l == Len(ch.samples)
  <1>5. l \in Nat /\ l < PerWord
    BY <1>1, <1>3
  <1> HIDE DEF l
  <1>6. l \in 0 .. (PerWord - 1)
    BY <1>4, <1>5
  <1> QED BY <1>1, <1>2, <1>4, <1>6 DEF SampleFacts, l

LEMMA ShiftedIn ==
  ASSUME SampleFacts, heard \in Sample, Continuous
  PROVE  LET app == Append(ch.samples, heard)
             n == Len(ch.samples)
         IN  /\ app \in Seq(Sample) /\ Len(app) = n + 1 /\ n \in Nat
             /\ app[n + 1] = heard
             /\ \A i \in 1 .. (n + 1) : app[i] = ((heard + 1) - (n + 2 - i)) % SampleMod
  <1> DEFINE s == ch.samples
             app == Append(s, heard)
             n == Len(s)
             M == SampleMod
  <1>1. s \in Seq(Sample) /\ n \in Nat /\ M \in Nat \ {0} /\ heard \in 0 .. (M - 1)
    BY DEF SampleFacts
  <1>2. \A i \in 1 .. n : s[i] = (heard - (n + 1 - i)) % M
    BY DEF Continuous
  <1> HIDE DEF s, M
  <1>3. /\ app \in Seq(Sample) /\ Len(app) = n + 1 /\ app[n + 1] = heard
        /\ \A i \in 1 .. n : app[i] = s[i]
    <2>1. /\ Append(s, heard) \in Seq(Sample) /\ Len(Append(s, heard)) = Len(s) + 1
          /\ \A i \in 1 .. Len(s) : Append(s, heard)[i] = s[i]
          /\ Append(s, heard)[Len(s) + 1] = heard
      BY <1>1, AppendProperties
    <2> QED BY <2>1
  <1> HIDE DEF app, n
  <1>4. ASSUME NEW i \in 1 .. (n + 1)
        PROVE  app[i] = ((heard + 1) - (n + 2 - i)) % M
    <2>1. CASE i \in 1 .. n
      <3>1. heard - (n + 1 - i) = (heard + 1) - (n + 2 - i)
        BY <1>1
      <3> QED BY <1>2, <1>3, <2>1, <3>1
    <2>2. CASE i = n + 1
      <3>1. (heard + 1) - (n + 2 - i) = heard
        BY <1>1, <2>2
      <3>2. heard % M = heard
        BY <1>1, ModSmall
      <3> QED BY <1>3, <2>2, <3>1, <3>2
    <2> QED BY <1>1, <2>1, <2>2
  <1> QED BY <1>1, <1>3, <1>4 DEF app, n, s, M

(* The codec's part of the clock keeps the shift register in step.         *)
LEMMA SamplesStep ==
  ASSUME SampleFacts, heard \in Sample, Continuous, NEW tick \in BOOLEAN, NEW m_ack, NEW w,
         "INITBUF" \notin csr_cmd(w), sndin_active, tick,
         ChNext(sndin_active, sndin_clear, tick, heard, m_ack, w),
         heard' = (heard + 1) % SampleMod
  PROVE  /\ Len(ch'.samples) < PerWord /\ ch'.sample_count <= Len(ch'.samples)
         /\ \A i \in 1 .. Len(ch'.samples) :
              ch'.samples[i] = (heard' - (Len(ch'.samples) + 1 - i)) % SampleMod
         /\ ch'.sample_count = IF ch.sample_count = PerWord - 1 THEN 0 ELSE ch.sample_count + 1
  <1> DEFINE s == ch.samples
             app == Append(s, heard)
             n == Len(s)
             M == SampleMod
             t == ch'.samples
             l == Len(t)
             c == ch.sample_count
  <1>1. /\ app \in Seq(Sample) /\ Len(app) = n + 1 /\ n \in Nat
        /\ \A i \in 1 .. (n + 1) : app[i] = ((heard + 1) - (n + 2 - i)) % M
    BY ShiftedIn
  <1>2. /\ M \in Nat \ {0} /\ PerWord \in Nat \ {0} /\ heard \in 0 .. (M - 1)
        /\ n \in 0 .. (PerWord - 1) /\ c \in 0 .. (PerWord - 1) /\ c <= n
    BY DEF SampleFacts, Continuous
  <1>3. /\ t = IF n = PerWord - 1 THEN Tail(app) ELSE app
        /\ ch'.sample_count = (c + 1) % PerWord
    BY DEF ChNext
  <1>4. heard' = (heard + 1) % M
    OBVIOUS
  <1> HIDE DEF app, n, s, M, t, c
  <1>5. ASSUME NEW i \in 1 .. (n + 1)
        PROVE  app[i] = (heard' - (n + 2 - i)) % M
    <2>1. (((heard + 1) % M) + (-(n + 2 - i))) % M = ((heard + 1) + (-(n + 2 - i))) % M
      <3>1. heard + 1 \in Int /\ -(n + 2 - i) \in Int
        BY <1>1, <1>2
      <3> QED BY <1>2, <3>1, ModShift
    <2>2. /\ ((heard + 1) % M) + (-(n + 2 - i)) = heard' - (n + 2 - i)
          /\ (heard + 1) + (-(n + 2 - i)) = (heard + 1) - (n + 2 - i)
      <3>1. (heard + 1) % M \in Int
        BY <1>2
      <3> QED BY <1>1, <1>2, <1>4, <3>1
    <2> QED BY <1>1, <2>1, <2>2
  <1>6. ch'.sample_count = IF c = PerWord - 1 THEN 0 ELSE c + 1
    <2>1. CASE c = PerWord - 1
      <3>1. c + 1 = 0 + PerWord * 1
        BY <1>2, <2>1
      <3>2. (c + 1) % PerWord = 0 % PerWord
        BY <1>2, <3>1, ModUnique
      <3>3. 0 % PerWord = 0
        BY <1>2, ModSmall
      <3> QED BY <1>3, <2>1, <3>2, <3>3
    <2>2. CASE c # PerWord - 1
      <3>1. c + 1 \in 0 .. (PerWord - 1)
        BY <1>2, <2>2
      <3> QED BY <1>2, <1>3, <2>2, <3>1, ModSmall
    <2> QED BY <2>1, <2>2
  <1>7. CASE n = PerWord - 1
    <2>1. t = Tail(app) /\ app # <<>>
      <3>1. Len(app) # 0
        BY <1>1
      <3>2. app # <<>>
        BY <3>1, NotEmpty
      <3> QED BY <1>3, <1>7, <3>2
    <2>2. l = n /\ \A i \in 1 .. n : t[i] = app[i + 1]
      <3>1. /\ Tail(app) \in Seq(Sample) /\ Len(Tail(app)) = Len(app) - 1
            /\ \A i \in 1 .. Len(Tail(app)) : Tail(app)[i] = app[i + 1]
        BY <1>1, <2>1, HeadTailProperties
      <3>2. Len(Tail(app)) = n
        BY <1>1, <3>1
      <3> QED BY <2>1, <3>1, <3>2
    <2> HIDE DEF l
    <2>3. ASSUME NEW i \in 1 .. l
          PROVE  t[i] = (heard' - (l + 1 - i)) % M
      <3>1. i \in 1 .. n /\ i + 1 \in 1 .. (n + 1) /\ n + 2 - (i + 1) = l + 1 - i
        BY <1>1, <2>2
      <3>2. t[i] = (heard' - (n + 2 - (i + 1))) % M
        BY <1>5, <2>2, <3>1
      <3> QED BY <3>1, <3>2
    <2>4. l < PerWord /\ ch'.sample_count <= l
      BY <1>2, <1>6, <1>7, <2>2
    <2> QED BY <1>6, <2>3, <2>4 DEF l, t, M, c
  <1>8. CASE n # PerWord - 1
    <2>1. t = app /\ l = n + 1
      BY <1>1, <1>3, <1>8
    <2> HIDE DEF l
    <2>3. ASSUME NEW i \in 1 .. l
          PROVE  t[i] = (heard' - (l + 1 - i)) % M
      <3>1. i \in 1 .. (n + 1) /\ n + 2 - i = l + 1 - i
        BY <1>1, <2>1
      <3>2. t[i] = (heard' - (n + 2 - i)) % M
        BY <1>5, <2>1, <3>1
      <3> QED BY <3>1, <3>2
    <2>4. l < PerWord /\ ch'.sample_count <= l
      BY <1>2, <1>6, <1>8, <2>1
    <2> QED BY <1>6, <2>3, <2>4 DEF l, t, M, c
  <1> QED BY <1>7, <1>8

LEMMA EnabledRecords ==
  ASSUME Inv, ch.en
  PROVE  \E k \in 1 .. NDesc : Recording(k)
  <1>1. /\ done \in Nat /\ queued \in Nat /\ NDesc \in Nat /\ done <= queued
        /\ queued <= NDesc /\ pc \in {"wait", "check", "failed"} /\ Handover
    BY Types
  <1>2. Chain => \E k \in 1 .. NDesc : Recording(k)
    <2>1. \A k : Recording(k) => k \in 1 .. NDesc
      BY DEF Recording
    <2> QED BY <2>1 DEF Chain, Stopped, Broken
  <1>3. Refilling => \E k \in 1 .. NDesc : Recording(k)
    <2>1. \A k : Recording(k) => k \in 1 .. NDesc
      BY DEF Recording
    <2> QED BY <2>1 DEF Refilling, Stopped, Broken
  <1>4. done = NDesc \/ done < NDesc
    BY <1>1
  <1> QED BY <1>1, <1>2, <1>3, <1>4
       DEF Handover, Finished, Programming, Missed, Stopped

LEMMA RunningWindow ==
  ASSUME Inv, ch.en
  PROVE  /\ ~bad_window /\ ch.next_ptr < ch.limit_ptr
         /\ ch.next_ptr + WordBytes <= ch.limit_ptr
  <1>1. PICK k \in 1 .. NDesc : Recording(k)
    BY EnabledRecords
  <1>2. ch \in Channel
    BY Types
  <1>3. k + 1 \in 1 .. (NDesc + 1) /\ k \in 1 .. (NDesc + 1)
    BY DescFacts
  <1>4. /\ ch.limit_ptr = Desc[k + 1] /\ ch.next_ptr \in Nat /\ Desc[k + 1] \in Nat
        /\ ch.next_ptr < Desc[k + 1] /\ ch.next_ptr % WordBytes = 0
        /\ Desc[k + 1] % WordBytes = 0 /\ WordBytes \in Nat \ {0}
    BY <1>1, <1>2, <1>3, DescFacts DEF Recording, Channel
  <1>5. ch.next_ptr + WordBytes <= Desc[k + 1]
    BY <1>4, AlignedGap
  <1> QED BY <1>4, <1>5 DEF bad_window

(* A word is taken over exactly when the channel starts it.                *)
LEMMA TakenStarts ==
  ASSUME ch \in Channel, NEW tick \in BOOLEAN, NEW m_ack \in BOOLEAN, NEW w,
         ChNext(sndin_active, sndin_clear, tick, heard, m_ack, w)
  PROVE  (ch'.m_req /\ ~ch.m_req) <=> Starts(sndin_active, tick, w)
  <1>1. ch.m_req \in BOOLEAN /\ ch'.m_req = ((ch.m_req \/ Starts(sndin_active, tick, w)) /\ ~answer(m_ack))
    BY DEF Channel, ChNext
  <1>2. answer(m_ack) => ch.m_req
    BY DEF answer
  <1>3. Starts(sndin_active, tick, w) => ~ch.m_req
    BY DEF Starts
  <1> QED BY <1>1, <1>2, <1>3

LEMMA WordTaken ==
  ASSUME SampleFacts, heard \in Sample, Continuous, NEW tick \in BOOLEAN, NEW m_ack, NEW w,
         Starts(sndin_active, tick, w),
         ChNext(sndin_active, sndin_clear, tick, heard, m_ack, w)
  PROVE  /\ sndin_active /\ tick /\ ch.sample_count = PerWord - 1 /\ Len(ch'.m_din) = PerWord
         /\ ch'.m_din[PerWord] = heard
         /\ ch'.m_din[1] = ((heard + 1) - PerWord) % SampleMod
  <1> DEFINE n == Len(ch.samples)
             app == Append(ch.samples, heard)
  <1>1. /\ sndin_active /\ tick /\ ch.sample_count = PerWord - 1 /\ ch'.m_din = app
    BY DEF Starts, ChNext
  <1>2. /\ Len(app) = n + 1 /\ n \in Nat /\ app[n + 1] = heard
        /\ \A i \in 1 .. (n + 1) : app[i] = ((heard + 1) - (n + 2 - i)) % SampleMod
    BY ShiftedIn
  <1>3. n = PerWord - 1 /\ PerWord \in Nat
    <2>1. n \in 0 .. (PerWord - 1) /\ PerWord \in Nat /\ ch.sample_count <= n
      BY DEF SampleFacts, Continuous
    <2> HIDE DEF n
    <2> QED BY <1>1, <2>1
  <1> HIDE DEF n, app
  <1>4. n + 1 = PerWord /\ 1 \in 1 .. (n + 1) /\ n + 2 - 1 = PerWord
    BY <1>2, <1>3
  <1> QED BY <1>1, <1>2, <1>4

LEMMA Told ==
  ASSUME Inv, NEW tick \in BOOLEAN, NEW m_ack \in BOOLEAN, NEW w, NEW ab,
         "INITBUF" \notin csr_cmd(w),
         ChNext(sndin_active, sndin_clear, tick, heard, m_ack, w),
         History(w, tick, m_ack, ab), ~gap',
         heard' = IF sndin_active /\ tick THEN (heard + 1) % SampleMod ELSE heard
  PROVE  heard' = (last' + 1 + ch'.sample_count) % SampleMod
  <1> DEFINE M == SampleMod
             c == ch.sample_count
             starts == Starts(sndin_active, tick, w)
  <1>1. TypeOK /\ Continuous /\ ch \in Channel
    BY Types DEF Inv
  <1>2. SampleFacts /\ heard \in Sample /\ last \in Sample
    BY <1>1, TypedSamples
  <1>3. /\ M \in Nat \ {0} /\ heard \in 0 .. (M - 1) /\ last \in 0 .. (M - 1)
        /\ c \in 0 .. (PerWord - 1) /\ PerWord \in Nat \ {0}
    BY <1>2, SoundAssumption DEF SampleFacts
  <1>4. (ch'.m_req /\ ~ch.m_req) <=> starts
    BY <1>1, TakenStarts
  <1>5. /\ sndin_active /\ ~csr_reset(w) /\ ~ch'.overrun
        /\ ~gap \/ starts
        /\ last' = IF starts THEN ch'.m_din[PerWord] ELSE last
    <2>1. /\ gap' = (ch'.overrun \/ ~sndin_active \/ csr_reset(w) \/ (gap /\ ~(ch'.m_req /\ ~ch.m_req)))
          /\ last' = IF ch'.m_req /\ ~ch.m_req THEN ch'.m_din[PerWord] ELSE last
      BY DEF History
    <2> HIDE DEF starts
    <2> QED BY <1>4, <2>1
  <1>6. ~sndin_clear
    BY <1>1, <1>5 DEF Continuous
  <1>7. ~gap => heard = (last + 1 + c) % M
    BY <1>1 DEF Continuous
  <1>8. CASE ~tick
    <2>1. ~starts
      BY <1>8 DEF Starts
    <2>2. ch'.sample_count = c
      BY <1>5, <1>8 DEF ChNext
    <2> HIDE DEF starts, M, c
    <2>3. heard' = heard /\ last' = last /\ ~gap
      BY <1>5, <1>8, <2>1
    <2> QED BY <1>7, <2>2, <2>3 DEF M
  <1>9. CASE tick
    <2>1. /\ heard' = (heard + 1) % M
          /\ ch'.sample_count = IF c = PerWord - 1 THEN 0 ELSE c + 1
      <3>1. heard' = (heard + 1) % SampleMod
        BY <1>5, <1>9
      <3> QED BY <1>1, <1>2, <1>5, <1>9, <3>1, SamplesStep
    <2>2. CASE c # PerWord - 1
      <3>1. ~starts
        BY <2>2 DEF Starts
      <3> HIDE DEF starts, M, c
      <3>2. ~gap /\ last' = last /\ ch'.sample_count = c + 1
        BY <1>5, <2>1, <2>2, <3>1
      <3>3. (((last + 1 + c) % M) + 1) % M = ((last + 1 + c) + 1) % M
        <4> DEFINE x == last + 1 + c
        <4>1. x \in Int /\ M \in Nat \ {0}
          BY <1>3
        <4> HIDE DEF x
        <4>3. 1 \in Int
          OBVIOUS
        <4>2. ((x % M) + 1) % M = (x + 1) % M
          BY <4>1, <4>3, ModShift, Zenon
        <4> QED BY <4>2 DEF x
      <3>4. (last + 1 + c) + 1 = last + 1 + (c + 1)
        BY <1>3
      <3> QED BY <1>7, <2>1, <3>2, <3>3, <3>4 DEF M
    <2>3. CASE c = PerWord - 1
      <3>1. ch.en /\ ~ch.m_req
        <4>1. ~(~ch.en \/ ch.m_req)
          <5>1. ch'.overrun = (~sndin_clear /\ (\/ ch.overrun \/ (Ends(m_ack, w) /\ ~ch.sup /\ sndin_active)
                         \/ (sndin_active /\ tick /\ ch.sample_count = PerWord - 1
                             /\ (~ch.en \/ ch.m_req))))
            BY DEF ChNext
          <5>2. sndin_active /\ tick /\ ch.sample_count = PerWord - 1 /\ ~sndin_clear
                /\ ~ch'.overrun
            BY <1>5, <1>6, <1>9, <2>3
          <5> QED BY <5>1, <5>2
        <4> QED BY <4>1
      <3>2. starts
        BY <1>5, <1>9, <2>3, <3>1, RunningWindow DEF Starts
      <3>3. ch'.m_din[PerWord] = heard
        BY <1>1, <1>2, <3>2, WordTaken
      <3> HIDE DEF starts, M, c
      <3>4. last' = heard /\ ch'.sample_count = 0 /\ last' + 1 + ch'.sample_count = heard + 1
        BY <1>3, <1>5, <2>1, <2>3, <3>2, <3>3
      <3> QED BY <2>1, <3>4 DEF M
    <2> QED BY <2>2, <2>3
  <1> QED BY <1>8, <1>9

LEMMA ContinuousStep ==
  ASSUME Inv, NEW w \in Access, NEW tick \in BOOLEAN, NEW m_ack \in BOOLEAN, NEW ab,
         Clock(w, tick, m_ack, ab), Switch \/ Steady
  PROVE  Continuous' /\ Len(ch'.samples) < PerWord
  <1>1. TypeOK /\ Continuous /\ ch \in Channel
    BY Types DEF Inv
  <1>2. SampleFacts /\ heard \in Sample
    BY <1>1, TypedSamples
  <1>3. /\ ChNext(sndin_active, sndin_clear, tick, heard, m_ack, w)
        /\ History(w, tick, m_ack, ab)
    BY <1>1, ClockNext
  <1>4. "INITBUF" \notin csr_cmd(w)
    BY AccessFacts
  <1>5. heard' = IF sndin_active /\ tick THEN (heard + 1) % SampleMod ELSE heard
    BY DEF Clock
  <1>6. ~gap' => heard' = (last' + 1 + ch'.sample_count) % SampleMod
    BY <1>3, <1>4, <1>5, Told
  <1>7. sndin_clear' => ~sndin_active'
    <2>1. sndin_active \in BOOLEAN
      BY <1>1 DEF TypeOK
    <2> QED BY <2>1 DEF Switch, Steady
  <1>8. /\ ch'.sample_count <= Len(ch'.samples) /\ Len(ch'.samples) < PerWord
        /\ \A i \in 1 .. Len(ch'.samples) :
             ch'.samples[i] = (heard' - (Len(ch'.samples) + 1 - i)) % SampleMod
    <2>1. CASE sndin_active /\ tick
      <3>1. heard' = (heard + 1) % SampleMod
        BY <1>5, <2>1
      <3> QED BY <1>1, <1>2, <1>3, <1>4, <2>1, <3>1, SamplesStep
    <2>2. CASE ~(sndin_active /\ tick)
      <3>1. heard' = heard /\ ch'.samples = ch.samples
        BY <1>3, <1>5, <2>2 DEF ChNext
      <3>2. ch'.sample_count = 0 \/ ch'.sample_count = ch.sample_count
        BY <1>3, <1>4, <2>2 DEF ChNext
      <3> DEFINE l == Len(ch.samples)
      <3>3. l \in 0 .. (PerWord - 1) /\ ch.sample_count <= l /\ PerWord \in Nat
        BY <1>1, <1>2 DEF SampleFacts, Continuous
      <3>4. \A i \in 1 .. l : ch.samples[i] = (heard - (l + 1 - i)) % SampleMod
        BY <1>1 DEF Continuous
      <3> HIDE DEF l
      <3>5. l < PerWord /\ ch'.sample_count <= l
        BY <3>2, <3>3
      <3>6. Len(ch'.samples) = l
        BY <3>1 DEF l
      <3> QED BY <3>1, <3>4, <3>5, <3>6
    <2> QED BY <2>1, <2>2
  <1> QED BY <1>6, <1>7, <1>8 DEF Continuous

-----------------------------------------------------------------------------
(* Types.                                                                  *)

LEMMA ChannelTypes ==
  ASSUME Inv, NEW w \in Access, NEW tick \in BOOLEAN, NEW m_ack \in BOOLEAN, NEW ab,
         Clock(w, tick, m_ack, ab), Len(ch'.samples) < PerWord
  PROVE  ChTypeOK'
  <1>1. TypeOK /\ Continuous /\ ch \in Channel /\ Request
    BY Types DEF Inv
  <1>2. SampleFacts /\ heard \in Sample
    BY <1>1, TypedSamples
  <1>3. ChNext(sndin_active, sndin_clear, tick, heard, m_ack, w)
    BY <1>1, ClockNext
  <1>4. /\ ch.next_ptr \in 0 .. AddrTop /\ ch.limit_ptr \in 0 .. AddrTop
        /\ ch.start_ptr \in 0 .. AddrTop /\ ch.stop_ptr \in 0 .. AddrTop
        /\ ch.m_addr \in 0 .. AddrTop /\ Len(ch.m_din) <= PerWord
    BY <1>1 DEF TypeOK, ChTypeOK
  <1>5. w.reg \in Pointer => w.a \in 0 .. AddrTop
    BY AccessFacts
  <1>6. Moves(m_ack, w) => ch.next_ptr + WordBytes \in 0 .. AddrTop
    <2>1. Moves(m_ack, w) => ch.en
      BY <1>1 DEF Moves, Counts, answer, Request
    <2>2. ch.en => ch.next_ptr + WordBytes <= ch.limit_ptr
      BY RunningWindow
    <2> QED BY <1>4, <2>1, <2>2, DescFacts, SndInAssumption
  <1>7. /\ ch'.next_ptr \in 0 .. AddrTop /\ ch'.limit_ptr \in 0 .. AddrTop
        /\ ch'.start_ptr \in 0 .. AddrTop /\ ch'.stop_ptr \in 0 .. AddrTop
        /\ ch'.m_addr \in 0 .. AddrTop
    <2>1. ch'.next_ptr \in 0 .. AddrTop
      BY <1>3, <1>4, <1>5, <1>6 DEF ChNext, Pointer
    <2>2. ch'.limit_ptr \in 0 .. AddrTop
      BY <1>3, <1>4, <1>5 DEF ChNext, Pointer
    <2>3. ch'.start_ptr \in 0 .. AddrTop /\ ch'.stop_ptr \in 0 .. AddrTop
      BY <1>3, <1>4, <1>5 DEF ChNext, Pointer
    <2>4. ch'.m_addr \in 0 .. AddrTop
      BY <1>3, <1>4 DEF ChNext
    <2> QED BY <2>1, <2>2, <2>3, <2>4
  <1>8. Len(ch'.m_din) <= PerWord
    <2>1. CASE Starts(sndin_active, tick, w)
      <3>1. Len(ch'.m_din) = PerWord
        BY <1>1, <1>2, <1>3, <2>1, WordTaken
      <3>2. PerWord \in Nat
        BY SndInAssumption
      <3> QED BY <3>1, <3>2
    <2>2. CASE ~Starts(sndin_active, tick, w)
      <3>1. ch'.m_din = ch.m_din
        BY <1>3, <2>2 DEF ChNext
      <3> QED BY <1>4, <3>1
    <2> QED BY <2>1, <2>2
  <1>9. ch' \in Channel
    BY <1>3 DEF ChNext
  <1> QED BY <1>7, <1>8, <1>9 DEF ChTypeOK

LEMMA ClockTypes ==
  ASSUME Inv, NEW w \in Access, NEW tick \in BOOLEAN, NEW m_ack \in BOOLEAN, NEW ab,
         Clock(w, tick, m_ack, ab), Switch \/ Steady
  PROVE  /\ stat' \subseteq Source /\ mask' \subseteq Source
         /\ {sndin_active', sndin_clear', stale', gap'} \subseteq BOOLEAN
         /\ heard' \in Sample /\ last' \in Sample /\ rec' \subseteq 0 .. (RamTop - 1)
  <1>1. TypeOK /\ Continuous /\ ch \in Channel /\ Request
    BY Types DEF Inv
  <1>2. SampleFacts /\ heard \in Sample /\ last \in Sample
    BY <1>1, TypedSamples
  <1>3. /\ ChNext(sndin_active, sndin_clear, tick, heard, m_ack, w)
        /\ History(w, tick, m_ack, ab) /\ (m_ack => ch.m_req /\ ch.m_addr < RamTop)
    BY <1>1, ClockNext
  <1>4. stat' \subseteq Source
    <2>1. stat \subseteq Source /\ SND_IN \in Source
      BY <1>1, SoundAssumption DEF TypeOK
    <2>2. Unmask(w).reg # "stat"
      BY DEF Unmask, MaskWrite, NoAccess
    <2>3. stat' = Pulsed(IF ch.cmp THEN {SND_IN} ELSE {}, {}, {})
      BY <2>2 DEF Clock, IntcClock
    <2> QED BY <2>1, <2>3 DEF Pulsed, Rising, Falling
  <1>5. mask' \subseteq Source
    <2>1. mask \subseteq Source /\ SND_IN \in Source /\ Forced \subseteq Source
      BY <1>1, SoundAssumption, SourceAssumption DEF TypeOK
    <2>2. IntcClock(IF ch.cmp THEN {SND_IN} ELSE {}, {}, {}, Unmask(w))
      BY DEF Clock
    <2>3. CASE Unmask(w) = NoAccess
      <3>1. Unmask(w).reg # "mask"
        BY <2>3 DEF NoAccess
      <3> QED BY <2>1, <2>2, <3>1 DEF IntcClock
    <2>4. CASE Unmask(w) = MaskWrite
      <3>1. Unmask(w).v \subseteq Source
        BY <2>1, <2>4 DEF MaskWrite
      <3> QED BY <2>1, <2>2, <3>1 DEF IntcClock, Merged, InHalf
    <2> QED BY <2>3, <2>4 DEF Unmask
  <1>6. {sndin_active', sndin_clear', stale', gap'} \subseteq BOOLEAN
    <2>1. stale' \in BOOLEAN /\ gap' \in BOOLEAN
      BY <1>3 DEF History
    <2>2. sndin_active \in BOOLEAN
      BY <1>1 DEF TypeOK
    <2>3. sndin_active' \in BOOLEAN /\ sndin_clear' \in BOOLEAN
      BY <2>2 DEF Switch, Steady
    <2> QED BY <2>1, <2>3
  <1>7. heard' \in Sample
    <2>1. SampleMod \in Nat \ {0} /\ Sample = 0 .. (SampleMod - 1) /\ heard \in 0 .. (SampleMod - 1)
      BY <1>2, SoundAssumption
    <2>2. (heard + 1) % SampleMod \in 0 .. (SampleMod - 1)
      BY <2>1
    <2> QED BY <2>1, <2>2 DEF Clock
  <1>8. last' \in Sample
    <2>1. CASE Starts(sndin_active, tick, w)
      <3>1. ch'.m_din[PerWord] = heard
        BY <1>1, <1>2, <1>3, <2>1, WordTaken
      <3> QED BY <1>2, <1>3, <3>1 DEF History
    <2>2. CASE ~Starts(sndin_active, tick, w)
      <3>1. ~(ch'.m_req /\ ~ch.m_req)
        BY <1>1, <1>3, <2>2, TakenStarts
      <3> QED BY <1>2, <1>3, <3>1 DEF History
    <2> QED BY <2>1, <2>2
  <1>9. rec' \subseteq 0 .. (RamTop - 1)
    <2>1. rec \subseteq 0 .. (RamTop - 1)
      BY <1>1 DEF TypeOK
    <2>2. m_ack => ch.m_addr \in 0 .. (RamTop - 1)
      <3>1. ch.m_addr \in Nat /\ RamTop \in Nat
        BY <1>1, SndInAssumption DEF Channel
      <3> QED BY <1>3, <3>1
    <2>3. rec' \subseteq rec \cup (IF m_ack THEN {ch.m_addr} ELSE {})
      BY <1>3 DEF History
    <2> QED BY <2>1, <2>2, <2>3
  <1> QED BY <1>4, <1>5, <1>6, <1>7, <1>8, <1>9

DriverOK ==
    /\ pc \in {"wait", "check", "failed"} /\ todo \in Seq(Access)
    /\ done \in 0 .. queued /\ queued \in 0 .. NDesc

LEMMA SingleWrites ==
  /\ <<CsrWrite({"RESET"})>> \in Seq(Access)
  /\ <<CsrWrite({"CLRCOMPLETE"})>> \in Seq(Access)
  /\ <<>> \in Seq(Access)
  <1>1. CsrWrite({"RESET"}) \in Access /\ CsrWrite({"CLRCOMPLETE"}) \in Access
    BY DEF Access, Command
  <1> HIDE DEF Access
  <1> QED BY <1>1

LEMMA RestartTypes ==
  ASSUME NEW n \in 0 .. NDesc, RestartAfter(n)
  PROVE  DriverOK'
  <1>1. pc' = "wait" /\ done' = n /\ NDesc \in Nat
    BY DescFacts DEF RestartAfter, Go
  <1>2. CASE n < NDesc
    <2> DEFINE k == n + 1
    <2>1. k \in 1 .. NDesc /\ queued' = Handed(k) /\ todo' = Program(k)
      BY <1>1, <1>2 DEF RestartAfter, Go
    <2>2. todo' \in Seq(Access)
      BY <2>1, ProgramFacts
    <2>3. queued' \in 0 .. NDesc /\ n <= queued' /\ n \in Nat
      BY <1>1, <2>1 DEF Handed, Chained
    <2>4. done' \in 0 .. queued'
      BY <1>1, <2>3
    <2> QED BY <1>1, <2>2, <2>3, <2>4 DEF DriverOK
  <1>3. CASE n = NDesc
    <2>1. queued' = n /\ todo' = <<CsrWrite({"RESET"})>>
      BY <1>1, <1>3 DEF RestartAfter, Go
    <2>2. todo' \in Seq(Access)
      BY <2>1, SingleWrites
    <2>3. queued' \in 0 .. NDesc /\ done' \in 0 .. queued'
      BY <1>1, <1>3, <2>1
    <2> QED BY <1>1, <2>2, <2>3 DEF DriverOK
  <1> QED BY <1>1, <1>2, <1>3

LEMMA DriverTypes ==
  ASSUME Inv, NEW w \in Access, DriverStep(w) \/ AbortStep(w)
  PROVE  DriverOK'
  <1>1. /\ done \in Nat /\ queued \in Nat /\ NDesc \in Nat /\ done <= queued
        /\ queued <= NDesc /\ pc \in {"wait", "check", "failed"} /\ Handover
    BY Types
  <1>2. DriverOK
    BY DEF Inv, TypeOK, DriverOK
  <1>3. CASE Pause(w)
    BY <1>2, <1>3 DEF Pause, driverVars, DriverOK
  <1>4. CASE Write(w)
    <2>1. todo \in Seq(Access) /\ todo # <<>> /\ todo' = Tail(todo)
      BY <1>2, <1>4 DEF Write, DriverOK
    <2>2. todo' \in Seq(Access)
      BY <2>1, HeadTailProperties
    <2> QED BY <1>2, <1>4, <2>2 DEF Write, DriverOK
  <1>5. CASE AbortStep(w)
    <2>1. RestartAfter(done) /\ done \in 0 .. NDesc
      BY <1>1, <1>5 DEF AbortStep, Abort
    <2>2. PICK n \in 0 .. NDesc : RestartAfter(n)
      BY <2>1
    <2> QED BY <2>2, RestartTypes
  <1>6. ASSUME pc' \in {"wait", "check", "failed"}, todo' = <<>>, UNCHANGED <<queued, done>>
        PROVE  DriverOK'
    BY <1>2, <1>6, SingleWrites DEF DriverOK
  <1>7. CASE Handle(w) /\ pc = "wait" /\ ReadCsr
    <2>1. CASE ch.exc
      BY <1>6, <1>7, <2>1 DEF ReadCsr, GiveUp, Go
    <2>2. CASE ~ch.exc /\ ch.cmp /\ ~ch.en
      <3>1. RestartAfter(queued) /\ queued \in 0 .. NDesc
        BY <1>1, <1>7, <2>2 DEF ReadCsr
      <3>2. PICK n \in 0 .. NDesc : RestartAfter(n)
        BY <3>1
      <3> QED BY <3>2, RestartTypes
    <2>3. CASE ~ch.exc /\ ch.cmp /\ ch.en
      <3>1. /\ done' = done + 1 /\ queued' = IF queued < NDesc THEN queued + 1 ELSE queued
            /\ pc' = "check"
            /\ todo' = IF queued < NDesc THEN Refill(queued + 1) ELSE <<CsrWrite({"CLRCOMPLETE"})>>
        BY <1>7, <2>3 DEF ReadCsr, Go
      <3>2. queued = done + 2
        <4>1. Chain
          <5>1. todo = <<>> /\ (done = NDesc \/ done < NDesc)
            BY <1>1, <1>7 DEF Handle
          <5> QED BY <1>1, <1>7, <2>3, <5>1 DEF Handover, Finished
        <4> QED BY <2>3, <4>1 DEF Chain, Stopped, Broken
      <3>3. done' \in 0 .. queued' /\ queued' \in 0 .. NDesc
        BY <1>1, <3>1, <3>2
      <3>4. todo' \in Seq(Access)
        <4>1. CASE queued < NDesc
          <5>1. queued + 1 \in 1 .. NDesc
            BY <1>1, <4>1
          <5>2. Refill(queued + 1) \in Seq(Access)
            BY <5>1, RefillFacts
          <5> QED BY <3>1, <4>1, <5>2
        <4>2. CASE ~(queued < NDesc)
          BY <3>1, <4>2, SingleWrites
        <4> QED BY <4>1, <4>2
      <3> QED BY <3>1, <3>3, <3>4 DEF DriverOK
    <2>4. CASE ~ch.exc /\ ~ch.cmp
      BY <1>6, <1>7, <2>4 DEF ReadCsr, Go
    <2> QED BY <2>1, <2>2, <2>3, <2>4
  <1>8. CASE Handle(w) /\ pc = "check" /\ CheckCsr
    <2>1. CASE ch.exc
      BY <1>6, <1>8, <2>1 DEF CheckCsr, GiveUp, Go
    <2>2. CASE ~ch.exc /\ ch.cmp /\ ~ch.en
      <3>1. RestartAfter(IF ch.sup THEN queued - 1 ELSE queued)
        BY <1>8, <2>2 DEF CheckCsr
      <3>2. ch.sup => queued = done + 2
        BY <1>1, <1>8, <2>2 DEF Handle, Handover, Chain, Missed, Recording, Broken
      <3>3. (IF ch.sup THEN queued - 1 ELSE queued) \in 0 .. NDesc
        BY <1>1, <3>2
      <3>4. PICK n \in 0 .. NDesc : RestartAfter(n)
        BY <3>1, <3>3
      <3> QED BY <3>4, RestartTypes
    <2>3. CASE ~ch.exc /\ ~(ch.cmp /\ ~ch.en)
      BY <1>6, <1>8, <2>3 DEF CheckCsr, Go
    <2> QED BY <2>1, <2>2, <2>3
  <1> QED BY <1>3, <1>4, <1>5, <1>7, <1>8 DEF DriverStep, Handle

-----------------------------------------------------------------------------
(* The invariant.                                                          *)

LEMMA InitInv == Init => Inv
  <1> SUFFICES ASSUME Init PROVE Inv
    OBVIOUS
  <1>1. /\ NDesc \in Nat /\ NDesc >= 1 /\ 1 \in 1 .. NDesc /\ 1 \in 1 .. (NDesc + 1)
    BY DescFacts
  <1>2. Desc[1] \in Nat
    BY <1>1, DescFacts
  <1>3. /\ PerWord \in Nat \ {0} /\ SampleMod \in Nat \ {0} /\ Sample = 0 .. (SampleMod - 1)
        /\ AddrTop \in Nat /\ RamTop \in Nat
    BY SndInAssumption, SoundAssumption
  <1>4. ch = ChReset /\ stat = {} /\ mask = {}
    BY DEF Init, IntcInit
  <1>5. ch \in Channel
    <2>1. <<>> \in Seq(Sample) /\ 0 \in 0 .. (PerWord - 1)
      BY <1>3
    <2> QED BY <1>4, <2>1 DEF Channel, ChReset
  <1>6. /\ ~ch.en /\ ~ch.m_req /\ ~ch.cancelled /\ ch.samples = <<>> /\ ch.m_din = <<>>
        /\ ch.sample_count = 0 /\ ch.next_ptr = 0 /\ ch.limit_ptr = 0 /\ ch.start_ptr = 0
        /\ ch.stop_ptr = 0 /\ ch.m_addr = 0
    BY <1>4 DEF ChReset
  <1>7. ChTypeOK
    <2>1. Len(<<>>) = 0
      OBVIOUS
    <2>2. Len(ch.samples) < PerWord /\ Len(ch.m_din) <= PerWord
      BY <1>3, <1>6, <2>1
    <2>3. {ch.next_ptr, ch.limit_ptr, ch.start_ptr, ch.stop_ptr, ch.m_addr} \subseteq 0 .. AddrTop
      BY <1>3, <1>6
    <2> QED BY <1>5, <2>2, <2>3 DEF ChTypeOK
  <1> DEFINE p == Program(1)
  <1>8. /\ p \in Seq(Access) /\ Len(p) \in {4, 6} /\ todo = p /\ queued = Handed(1) /\ done = 0
        /\ pc = "wait"
    BY <1>1, ProgramFacts DEF Init
  <1>9. TypeOK
    <2>1. queued \in 0 .. NDesc /\ done \in 0 .. queued
      BY <1>1, <1>8 DEF Handed, Chained
    <2>2. 0 \in Sample
      BY <1>3
    <2> QED BY <1>4, <1>7, <1>8, <2>1, <2>2 DEF TypeOK, Init
  <1>10. DoneMeansFilled
    <2>1. \A a \in Desc[1] .. (Desc[1] - 1) : FALSE
      BY <1>2
    <2>2. Desc[done + 1] = Desc[1]
      BY <1>8
    <2> QED BY <2>1, <2>2 DEF DoneMeansFilled, Filled
  <1>11. Request
    BY <1>6 DEF Request, Init, ChReset
  <1>12. Handover
    <2>1. queued = Handed(done + 1) /\ done + 1 = 1
      BY <1>8
    <2> HIDE DEF p
    <2>2. todo # <<>> /\ 0 \in 0 .. (Len(p) - 1)
      <3>1. Len(todo) # 0
        BY <1>8
      <3> QED BY <1>8, <3>1, NotEmpty
    <2>3. todo = SubSeq(p, 0 + 1, Len(p))
      BY <1>8, SubSeqFull
    <2>4. Left(p, 0) /\ Programmed(1, 0)
      BY <2>3 DEF Left, Programmed
    <2>5. Programming
      BY <1>6, <2>1, <2>2, <2>4 DEF Programming, p
    <2> QED BY <1>1, <1>8, <2>2, <2>5 DEF Handover
  <1>13. Continuous
    <2>1. Len(<<>>) = 0
      OBVIOUS
    <2>2. Len(ch.samples) = 0 /\ ch.sample_count = 0
      BY <1>6, <2>1
    <2>3. gap = TRUE /\ sndin_clear = FALSE
      BY DEF Init
    <2> QED BY <2>2, <2>3 DEF Continuous
  <1> QED BY <1>9, <1>10, <1>11, <1>12, <1>13 DEF Inv

LEMMA NextInv ==
  ASSUME Inv, Next
  PROVE  Inv'
  <1>1. PICK w \in Accesses, tick \in BOOLEAN, m_ack \in BOOLEAN :
          /\ \/ DriverStep(w) /\ Clock(w, tick, m_ack, FALSE)
             \/ AbortStep(w) /\ Clock(w, tick, m_ack, TRUE)
          /\ Switch \/ Steady
    BY DEF Next
  <1>2. w \in Access
    BY AccessesAllowed
  <1>3. PICK ab \in BOOLEAN : Clock(w, tick, m_ack, ab)
    BY <1>1
  <1>4. Continuous' /\ Len(ch'.samples) < PerWord
    BY <1>1, <1>2, <1>3, ContinuousStep
  <1>5. TypeOK'
    <2>1. ChTypeOK'
      BY <1>2, <1>3, <1>4, ChannelTypes
    <2>2. /\ stat' \subseteq Source /\ mask' \subseteq Source
          /\ {sndin_active', sndin_clear', stale', gap'} \subseteq BOOLEAN
          /\ heard' \in Sample /\ last' \in Sample /\ rec' \subseteq 0 .. (RamTop - 1)
      BY <1>1, <1>2, <1>3, ClockTypes
    <2>3. DriverOK'
      BY <1>1, <1>2, DriverTypes
    <2> QED BY <2>1, <2>2, <2>3 DEF TypeOK, DriverOK
  <1>6. Request'
    <2>1. ch \in Channel /\ Request /\ TypeOK
      BY Types DEF Inv
    <2>2. /\ ChNext(sndin_active, sndin_clear, tick, heard, m_ack, w)
          /\ History(w, tick, m_ack, ab)
      BY <1>2, <1>3, <2>1, ClockNext
    <2>3. Plain(NoWrite) /\ Quiet(NoWrite) /\ Quiet(CsrWrite({"RESET"}))
      BY NoWritePlain, WriteForms DEF Quiet, Pointer
    <2>4. ch.en => Quiet(w)
      BY <1>1, <2>3, QuietWrites DEF DriverStep, AbortStep, Handle, Pause, Abort
    <2>5. stale \in BOOLEAN
      BY <2>1 DEF TypeOK
    <2> QED BY <2>1, <2>2, <2>4, <2>5, RequestStep
  <1>7. Handover' /\ DoneMeansFilled'
    <2>1. CASE DriverStep(w) /\ Clock(w, tick, m_ack, FALSE)
      <3>1. CASE Write(w)
        BY <1>2, <2>1, <3>1, HandoverWrite
      <3>2. CASE Handle(w)
        <4>1. w = NoWrite
          BY <3>2 DEF Handle
        <4> QED BY <2>1, <3>2, <4>1, HandoverHandle
      <3>3. CASE Pause(w)
        <4>1. w = NoWrite /\ UNCHANGED driverVars
          BY <3>3 DEF Pause
        <4> QED BY <2>1, <4>1, HandoverPause
      <3> QED BY <2>1, <3>1, <3>2, <3>3 DEF DriverStep
    <2>2. CASE AbortStep(w) /\ Clock(w, tick, m_ack, TRUE)
      BY <1>2, <2>2, HandoverAbort DEF AbortStep
    <2> QED BY <1>1, <2>1, <2>2
  <1> QED BY <1>4, <1>5, <1>6, <1>7 DEF Inv

LEMMA StutterInv ==
  ASSUME Inv, UNCHANGED vars
  PROVE  Inv'
  <1>1. /\ ch' = ch /\ stat' = stat /\ mask' = mask /\ sndin_active' = sndin_active
        /\ sndin_clear' = sndin_clear /\ heard' = heard /\ todo' = todo /\ pc' = pc
        /\ queued' = queued /\ done' = done /\ rec' = rec /\ stale' = stale
        /\ last' = last /\ gap' = gap
    BY DEF vars, intcVars, codecVars, driverVars, hist
  <1>2. TypeOK'
    BY <1>1 DEF Inv, TypeOK, ChTypeOK
  <1>3. DoneMeansFilled'
    BY <1>1 DEF Inv, DoneMeansFilled, Filled
  <1>4. Request'
    BY <1>1 DEF Inv, Request
  <1>5. Continuous'
    BY <1>1 DEF Inv, Continuous
  <1>6. Handover'
    BY <1>1 DEF Inv, Handover, Finished, Programming, Chain, Missed, Refilling, Recording,
         Stopped, Broken, NextIs, Left, Programmed, Filled
  <1> QED BY <1>2, <1>3, <1>4, <1>5, <1>6 DEF Inv

(* Driver and channel stay in step through every interleaving of register  *)
(* accesses, answers of the bus, ends of buffers and aborts.               *)
THEOREM RecordingInvariant == Spec => []Inv
  <1>1. Inv /\ [Next]_vars => Inv'
    BY NextInv, StutterInv
  <1> QED BY InitInv, <1>1, PTL DEF Spec

(* The registers of next_snd_in.sv and the driver's counters keep their    *)
(* types; in particular no pointer runs past the last buffer.              *)
THEOREM RecordingTypeOK == Spec => []TypeOK
  <1>1. Inv => TypeOK
    BY DEF Inv
  <1> QED BY RecordingInvariant, <1>1, PTL

(* A buffer the driver takes to be complete holds every word recorded into *)
(* it, whichever of the handler's two CSR reads the driver learnt it from. *)
THEOREM CompleteBuffersFilled == Spec => []DoneMeansFilled
  <1>1. Inv => DoneMeansFilled
    BY DEF Inv
  <1> QED BY RecordingInvariant, <1>1, PTL

(* The rule of CLRCOMPLETE keeps the chain alive: a driver that waits for  *)
(* an interrupt is never left with a channel that is off and silent.       *)
THEOREM ChainIsKept == Spec => []ChainKept
  <1>1. Inv => ChainKept
    BY DEF Inv, Handover, ChainKept, Chain, Recording, Stopped, Broken
  <1> QED BY RecordingInvariant, <1>1, PTL

(* Samples are lost only where the overrun status, the codec's switch or a *)
(* RESET says so: the next word begins with the sample after the last.     *)
THEOREM LossIsTold == Spec => NoSilentLoss
  <1>1. ASSUME Inv, Next, ~gap, ch'.m_req, ~ch.m_req
        PROVE  ch'.m_din[1] = (last + 1) % SampleMod
    <2>1. PICK w \in Accesses, tick \in BOOLEAN, m_ack \in BOOLEAN, ab \in BOOLEAN :
            Clock(w, tick, m_ack, ab)
      BY <1>1 DEF Next
    <2>2. w \in Access
      BY <1>1, AccessesAllowed
    <2>3. TypeOK /\ Continuous /\ ch \in Channel
      BY <1>1, Types DEF Inv
    <2>4. ChNext(sndin_active, sndin_clear, tick, heard, m_ack, w)
      BY <2>1, <2>2, <2>3, ClockNext
    <2>5. Starts(sndin_active, tick, w)
      BY <1>1, <2>3, <2>4, TakenStarts
    <2>6. SampleFacts /\ heard \in Sample /\ last \in Sample
      BY <2>3, TypedSamples
    <2>7. /\ ch.sample_count = PerWord - 1
          /\ ch'.m_din[1] = ((heard + 1) - PerWord) % SampleMod
      BY <2>3, <2>4, <2>5, <2>6, WordTaken
    <2> DEFINE M == SampleMod
    <2>8. heard = (last + 1 + ch.sample_count) % M
      BY <1>1, <2>3 DEF Continuous
    <2>9. M \in Nat \ {0} /\ PerWord \in Nat \ {0} /\ last \in 0 .. (M - 1)
      BY <2>6, SoundAssumption DEF SampleFacts
    <2> DEFINE x == last + PerWord
               d == 1 - PerWord
    <2>10. x \in Int /\ d \in Int /\ last + 1 + ch.sample_count = x /\ x + d = last + 1
      BY <2>7, <2>9
    <2>11. (heard + 1) - PerWord = (x % M) + d
      <3>1. heard = x % M
        BY <2>8, <2>10
      <3>2. heard \in Int
        BY <2>6, <2>9, SoundAssumption
      <3>3. (heard + 1) - PerWord = heard + d
        BY <2>9, <3>2
      <3> HIDE DEF M, x, d
      <3> QED BY <3>1, <3>3
    <2> HIDE DEF M, x, d
    <2>12. ((x % M) + d) % M = (x + d) % M
      BY <2>9, <2>10, ModShift
    <2> QED BY <2>7, <2>10, <2>11, <2>12 DEF M
  <1>2. Inv /\ [Next]_vars =>
          [~gap /\ ch'.m_req /\ ~ch.m_req => ch'.m_din[1] = (last + 1) % SampleMod]_vars
    BY <1>1
  <1> QED BY RecordingInvariant, <1>2, PTL DEF Spec, NoSilentLoss

=============================================================================
