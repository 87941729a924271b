-------------------------- MODULE DdramPortProofs --------------------------
(* Proofs about the DDR3 path for every size of the two windows, every     *)
(* byte alphabet and every set of operations of the two masters.           *)
EXTENDS DdramPort, TLAPS

LEMMA ZeroType == Zero \in Byte /\ Zero64 \in Word64
  BY ByteAssumption DEF Zero, Zero64, Word64

LEMMA InitTypeOK == Init => TypeOK
  <1> SUFFICES ASSUME Init PROVE TypeOK
    OBVIOUS
  <1>1. ram_op \in RamOp /\ b_op \in BoxOp
    BY OpsAssumption DEF Init
  <1>2. a_cmd \in Cmd
    BY ZeroType DEF Init, Cmd
  <1>3. ram_dout \in Word32 /\ b_rdata \in Word64
    BY ZeroType DEF Init, Word32
  <1>4. mem \in [RamWord \cup BoxWord -> Word64] /\ inflight \in Seq(Word64)
    BY ZeroType DEF Init
  <1> QED BY <1>1, <1>2, <1>3, <1>4 DEF Init, TypeOK

LEMMA CtlType ==
  ASSUME TypeOK, NEW BUSY \in BOOLEAN, NEW READY \in BOOLEAN,
         CtlClock(BUSY, READY)
  PROVE  mem' \in [RamWord \cup BoxWord -> Word64] /\ inflight' \in Seq(Word64)
  <1>1. DDRAM_WORD \in RamWord \cup BoxWord /\ DDRAM_DIN \in Word64
    BY DEF TypeOK, DDRAM_WORD, DDRAM_DIN, Cmd, BoxOp
  <1>2. mem' \in [RamWord \cup BoxWord -> Word64]
    BY <1>1 DEF CtlClock, Accepted, TypeOK, Word64
  <1>3. inflight' \in Seq(Word64)
    BY <1>1 DEF CtlClock, TypeOK
  <1> QED BY <1>2, <1>3

LEMMA DdramType ==
  ASSUME TypeOK, NEW aBusy \in BOOLEAN, NEW aReady \in BOOLEAN,
         NEW dout \in Word64, DdramClock(aBusy, aReady, dout)
  PROVE  /\ a_rd' \in BOOLEAN /\ a_we' \in BOOLEAN
         /\ busy' \in BOOLEAN /\ ram_ack' \in BOOLEAN
         /\ half' \in {0, 1} /\ a_cmd' \in Cmd /\ ram_dout' \in Word32
  <1>1. ram_op.we \in BOOLEAN /\ ram_op.word \in RamWord /\ ram_op.half \in {0, 1}
        /\ ram_op.be \in SUBSET Lane4 /\ ram_op.din \in Word32
    BY DEF TypeOK, RamOp
  <1>2. /\ a_rd' \in BOOLEAN /\ a_we' \in BOOLEAN
        /\ busy' \in BOOLEAN /\ ram_ack' \in BOOLEAN
    BY <1>1 DEF DdramClock, TypeOK
  <1>3. half' \in {0, 1}
    BY <1>1 DEF DdramClock, TypeOK
  <1>4. ram_dout' \in Word32
    <2>1. Bswap(HalfOf(dout, half)) \in Word32
      BY DEF TypeOK, Bswap, HalfOf, Word32, Word64, Lane4, Lane8
    <2> QED BY <2>1 DEF DdramClock, TypeOK
  <1>5. a_cmd' \in Cmd
    <2>1. BeRev(ram_op.be, ram_op.half) \in SUBSET Lane8
      BY <1>1 DEF BeRev, Lane4, Lane8
    <2>2. BothHalves(Bswap(ram_op.din)) \in Word64
      BY <1>1 DEF BothHalves, Bswap, Word32, Word64, Lane4, Lane8
    <2>3. CASE ~DdramIssue
      BY <2>3 DEF DdramClock, TypeOK
    <2>4. CASE DdramIssue /\ ram_op.we
      <3>1. a_cmd' = WriteCmd(ram_op)
        BY <2>4 DEF DdramClock
      <3> QED BY <3>1, <2>1, <2>2, <1>1 DEF Cmd, WriteCmd
    <2>5. CASE DdramIssue /\ ~ram_op.we
      <3>1. a_cmd' = [a_cmd EXCEPT !.word = ram_op.word, !.be = Lane8]
        BY <2>5 DEF DdramClock
      <3> QED BY <3>1, <1>1 DEF Cmd, TypeOK
    <2> QED BY <2>3, <2>4, <2>5
  <1> QED BY <1>2, <1>3, <1>4, <1>5

LEMMA ArbType ==
  ASSUME TypeOK, NEW BUSY \in BOOLEAN, NEW READY \in BOOLEAN,
         NEW dout \in Word64, ArbClock(BUSY, READY, dout)
  PROVE  /\ gst' \in {"G_A", "G_B_ISSUE", "G_B_READ"}
         /\ a_read_pending' \in BOOLEAN /\ b_ack' \in BOOLEAN /\ b_rdata' \in Word64
  <1>1. a_read_pending' \in BOOLEAN
    BY DEF ArbClock, TrackRead, TypeOK
  <1>2. CASE GrantA
    BY <1>1, <1>2 DEF GrantA, TypeOK
  <1>3. CASE BIssue(BUSY)
    BY <1>1, <1>3 DEF BIssue, TypeOK, BoxOp
  <1>4. CASE BRead(READY, dout)
    BY <1>1, <1>4 DEF BRead, TypeOK
  <1> QED BY <1>2, <1>3, <1>4 DEF ArbClock

LEMMA MasterType ==
  ASSUME TypeOK, BusClock, BoxClock
  PROVE  /\ ram_req' \in BOOLEAN /\ ram_op' \in RamOp
         /\ b_req' \in BOOLEAN /\ b_op' \in BoxOp
  BY OpsAssumption DEF TypeOK, BusClock, BoxClock, busVars, boxVars

(* The word a clock presents on DDRAM_DOUT is a 64-bit word.               *)
LEMMA DoutType ==
  ASSUME TypeOK, NEW BUSY \in BOOLEAN, NEW READY \in BOOLEAN, CtlClock(BUSY, READY)
  PROVE  (IF READY THEN Head(inflight) ELSE Zero64) \in Word64
  BY ZeroType DEF CtlClock, TypeOK

LEMMA NextTypeOK == TypeOK /\ [Next]_vars => TypeOK'
  <1> SUFFICES ASSUME TypeOK, [Next]_vars PROVE TypeOK'
    OBVIOUS
  <1>1. ASSUME NEW BUSY \in BOOLEAN, NEW READY \in BOOLEAN, Run(BUSY, READY)
        PROVE  TypeOK'
    <2> DEFINE dout == IF READY THEN Head(inflight) ELSE Zero64
    <2>1. CtlClock(BUSY, READY) /\ BusClock /\ BoxClock /\ reset' \in BOOLEAN
      BY <1>1 DEF Run
    <2>2. dout \in Word64
      BY <2>1, DoutType
    <2>3. DdramClock(b_owns \/ BUSY, READY /\ ~b_owns, dout) /\ ArbClock(BUSY, READY, dout)
      BY <1>1 DEF Run
    <2>4. (b_owns \/ BUSY) \in BOOLEAN /\ (READY /\ ~b_owns) \in BOOLEAN
      OBVIOUS
    <2> HIDE DEF dout
    <2> QED BY <2>1, <2>2, <2>3, <2>4, CtlType, DdramType, ArbType, MasterType
            DEF TypeOK
  <1>2. ASSUME NEW BUSY \in BOOLEAN, NEW READY \in BOOLEAN, HoldReset(BUSY, READY)
        PROVE  TypeOK'
    <2>1. mem' \in [RamWord \cup BoxWord -> Word64] /\ inflight' \in Seq(Word64)
      BY <1>2, CtlType DEF HoldReset
    <2> QED BY <1>2, <2>1, ZeroType DEF HoldReset, DdramReset, ArbReset, TypeOK
  <1>3. CASE UNCHANGED vars
    BY <1>3 DEF vars, busVars, ddramVars, boxVars, arbVars, ctlVars, TypeOK
  <1> QED BY <1>1, <1>2, <1>3 DEF Next

(* Every register of the DDR3 path keeps its width and the memory keeps    *)
(* its shape, for any windows and any requested operations.                *)
THEOREM TypeCorrect == Spec => []TypeOK
  <1> QED BY InitTypeOK, NextTypeOK, PTL DEF Spec

-----------------------------------------------------------------------------
(* Ownership of the bus.  Run preserves it, and a reset re-establishes it  *)
(* because it ends only once the DDR3 owes nothing.                        *)

LEMMA ResetOwnership ==
  ASSUME NEW BUSY \in BOOLEAN, NEW READY \in BOOLEAN, HoldReset(BUSY, READY)
  PROVE  Inv'
  <1> SUFFICES ASSUME ~reset' PROVE Ownership'
    BY DEF Inv
  <1>1. inflight' = <<>>
    BY DEF HoldReset
  <1> QED BY <1>1 DEF HoldReset, DdramReset, ArbReset, Ownership, ReadOwner

LEMMA RunOwnership ==
  ASSUME TypeOK, ~reset, Ownership,
         NEW BUSY \in BOOLEAN, NEW READY \in BOOLEAN, Run(BUSY, READY)
  PROVE  Ownership'
  <1> DEFINE dout == IF READY THEN Head(inflight) ELSE Zero64
  <1>1. /\ CtlClock(BUSY, READY) /\ BusClock /\ BoxClock
        /\ DdramClock(b_owns \/ BUSY, READY /\ ~b_owns, dout)
        /\ ArbClock(BUSY, READY, dout)
    BY DEF Run
  <1> HIDE DEF dout
  <1>2. CASE gst = "G_A"
    <2>1. GrantA
      BY <1>1, <1>2 DEF ArbClock, BIssue, BRead
    <2>2. CASE a_read_pending
      <3>1. inflight = <<mem[a_cmd.word]>> /\ busy /\ ~a_rd /\ ~a_we
        BY <1>2, <2>2 DEF Ownership, ReadOwner
      <3>2. mem' = mem /\ inflight' = IF READY THEN <<>> ELSE inflight
        BY <1>1, <1>2, <3>1 DEF CtlClock, Accepted, DDRAM_WE, DDRAM_RD, b_owns
      <3>3. gst' = "G_A" /\ b_ack' = FALSE /\ a_read_pending' = ~READY
        BY <1>1, <1>2, <2>1, <2>2 DEF ArbClock, TrackRead, GrantA, a_active, b_owns, TypeOK
      <3>4. ~DdramIssue /\ a_cmd' = a_cmd /\ a_rd' = FALSE /\ a_we' = FALSE /\ busy' = ~READY
        BY <1>1, <1>2, <3>1 DEF DdramClock, DdramIssue, b_owns
      <3> QED BY <3>1, <3>2, <3>3, <3>4 DEF Ownership, ReadOwner
    <2>3. CASE ~a_read_pending
      <3>1. inflight = <<>> /\ ~READY
        BY <1>1, <1>2, <2>3 DEF Ownership, CtlClock
      <3>2. inflight' = IF ~BUSY /\ a_rd THEN <<mem[a_cmd.word]>> ELSE <<>>
        BY <1>1, <1>2, <3>1 DEF CtlClock, DDRAM_RD, DDRAM_WORD, b_owns
      <3>3. a_read_pending' = (a_rd /\ ~BUSY)
        BY <1>1, <1>2, <2>3, <3>1 DEF ArbClock, TrackRead, b_owns, TypeOK
      <3>4. CASE a_rd
        <4>1. mem' = mem /\ gst' = "G_A" /\ b_ack' = FALSE
          BY <1>1, <1>2, <2>1, <3>4
          DEF CtlClock, Accepted, DDRAM_WE, b_owns, GrantA, a_active, Ownership
        <4>2. a_cmd' = a_cmd /\ a_rd' = BUSY /\ a_we' = FALSE /\ busy' = TRUE
          BY <1>1, <1>2, <3>1, <3>4 DEF DdramClock, DdramIssue, b_owns, Ownership, TypeOK
        <4> QED BY <3>2, <3>3, <3>4, <4>1, <4>2 DEF Ownership, ReadOwner
      <3>5. CASE ~a_rd
        <4>1. inflight' = <<>> /\ a_read_pending' = FALSE /\ ~busy
          BY <2>3, <3>2, <3>3, <3>5 DEF Ownership
        <4>2. a_rd' = busy' /\ ~(a_rd' /\ a_we')
          BY <1>1, <3>1, <3>5, <4>1 DEF DdramClock, DdramIssue, TypeOK, RamOp
        <4>3. gst' \in {"G_A", "G_B_ISSUE"} /\ b_ack' = FALSE
              /\ (gst' = "G_B_ISSUE" => b_req /\ ~b_ack)
          BY <2>1 DEF GrantA
        <4>4. gst' = "G_B_ISSUE" => b_req'
          BY <1>1, <4>3 DEF BoxClock, boxVars
        <4> QED BY <4>1, <4>2, <4>3, <4>4 DEF Ownership, ReadOwner
      <3> QED BY <3>4, <3>5 DEF TypeOK
    <2> QED BY <2>2, <2>3 DEF TypeOK
  <1>3. CASE gst = "G_B_ISSUE"
    <2>1. BIssue(BUSY)
      BY <1>1, <1>3 DEF ArbClock, GrantA, BRead
    <2>2. inflight = <<>> /\ ~READY /\ ~a_read_pending /\ b_req /\ ~b_ack
      BY <1>1, <1>3 DEF Ownership, CtlClock
    <2>3. b_req' = TRUE /\ b_op' = b_op
      BY <1>1, <2>2 DEF BoxClock, boxVars, TypeOK
    <2>4. a_read_pending' = FALSE
      BY <1>1, <1>3, <2>2 DEF ArbClock, TrackRead, b_owns, TypeOK
    <2>5. inflight' = IF ~BUSY /\ ~b_op.we THEN <<mem[b_op.word]>> ELSE <<>>
      BY <1>1, <1>3, <2>2 DEF CtlClock, DDRAM_RD, DDRAM_WORD, b_owns
    <2>6. ~BUSY /\ ~b_op.we => mem' = mem
      BY <1>1, <1>3 DEF CtlClock, Accepted, DDRAM_WE, b_owns
    <2>7. /\ a_rd' => busy' /\ ~a_we'
          /\ busy' => ~a_we' /\ a_rd'
      BY <1>1, <1>3, <2>2 DEF DdramClock, DdramIssue, b_owns, Ownership, TypeOK, RamOp
    <2>8. CASE BUSY
      BY <2>1, <2>3, <2>4, <2>5, <2>7, <2>8 DEF BIssue, Ownership, ReadOwner
    <2>9. CASE ~BUSY
      BY <2>1, <2>3, <2>4, <2>5, <2>6, <2>7, <2>9 DEF BIssue, Ownership, ReadOwner
    <2> QED BY <2>8, <2>9
  <1>4. CASE gst = "G_B_READ"
    <2>1. BRead(READY, dout)
      BY <1>1, <1>4 DEF ArbClock, GrantA, BIssue
    <2>2. inflight = <<mem[b_op.word]>> /\ ~a_read_pending /\ b_req /\ ~b_ack /\ ~b_op.we
      BY <1>1, <1>4 DEF Ownership, ReadOwner
    <2>3. b_req' = TRUE /\ b_op' = b_op
      BY <1>1, <2>2 DEF BoxClock, boxVars, TypeOK
    <2>4. a_read_pending' = FALSE
      BY <1>1, <1>4, <2>2 DEF ArbClock, TrackRead, b_owns, TypeOK
    <2>5. mem' = mem /\ inflight' = IF READY THEN <<>> ELSE inflight
      BY <1>1, <1>4, <2>2 DEF CtlClock, Accepted, DDRAM_RD, DDRAM_WE, b_owns
    <2>6. /\ a_rd' => busy' /\ ~a_we'
          /\ busy' => ~a_we' /\ a_rd'
      BY <1>1, <1>4, <2>2 DEF DdramClock, DdramIssue, b_owns, Ownership, TypeOK, RamOp
    <2> QED BY <2>1, <2>2, <2>3, <2>4, <2>5, <2>6 DEF BRead, Ownership, ReadOwner
  <1> QED BY <1>2, <1>3, <1>4 DEF TypeOK

LEMMA NextInv == TypeOK /\ Inv /\ [Next]_vars => Inv'
  <1> SUFFICES ASSUME TypeOK, Inv, [Next]_vars PROVE Inv'
    OBVIOUS
  <1>1. ASSUME NEW BUSY \in BOOLEAN, NEW READY \in BOOLEAN, Run(BUSY, READY)
        PROVE  Inv'
    <2>1. ~reset
      BY <1>1 DEF Run
    <2> QED BY <1>1, <2>1, RunOwnership DEF Inv
  <1>2. ASSUME NEW BUSY \in BOOLEAN, NEW READY \in BOOLEAN, HoldReset(BUSY, READY)
        PROVE  Inv'
    BY <1>2, ResetOwnership
  <1>3. CASE UNCHANGED vars
    BY <1>3 DEF vars, busVars, ddramVars, boxVars, arbVars, ctlVars,
                Inv, Ownership, ReadOwner
  <1> QED BY <1>1, <1>2, <1>3 DEF Next

(* A read the DDR3 still owes always belongs to the port the arbiter will  *)
(* hand it to, whatever BUSY and the read latency do: neither port can be  *)
(* given the other's data (next_ddram_arb.sv, a_read_pending and gst).     *)
THEOREM ReadOwnerCorrect == Spec => []ReadOwner
  <1>1. Init => Inv
    BY DEF Init, Inv
  <1>2. Inv => ReadOwner
    BY DEF Inv, Ownership, ReadOwner
  <1> QED BY <1>1, <1>2, NextInv, TypeCorrect, PTL DEF Spec

-----------------------------------------------------------------------------
(* A command under way belongs to the request held.                        *)

LEMMA RunLinked ==
  ASSUME TypeOK, ~reset, Ownership, Linked,
         NEW BUSY \in BOOLEAN, NEW READY \in BOOLEAN, Run(BUSY, READY)
  PROVE  Linked'
  <1> DEFINE dout == IF READY THEN Head(inflight) ELSE Zero64
  <1>1. /\ CtlClock(BUSY, READY) /\ BusClock /\ BoxClock
        /\ DdramClock(b_owns \/ BUSY, READY /\ ~b_owns, dout)
        /\ ArbClock(BUSY, READY, dout)
    BY DEF Run
  <1> HIDE DEF dout
  <1>2. gst' # "G_A" => b_req' /\ ~b_ack'
    <2>1. CASE GrantA
      <3>1. gst' # "G_A" => b_req /\ ~b_ack /\ b_ack' = FALSE
        BY <2>1 DEF GrantA
      <3>2. b_req /\ ~b_ack => b_req'
        BY <1>1 DEF BoxClock, boxVars
      <3> QED BY <3>1, <3>2
    <2>2. CASE BIssue(BUSY)
      <3>1. b_req /\ ~b_ack /\ (gst' # "G_A" => ~b_ack')
        BY <2>2 DEF BIssue, Linked
      <3> QED BY <1>1, <3>1 DEF BoxClock, boxVars
    <2>3. CASE BRead(READY, dout)
      <3>1. b_req /\ ~b_ack /\ (gst' # "G_A" => ~b_ack')
        BY <2>3 DEF BRead, Linked
      <3> QED BY <1>1, <3>1 DEF BoxClock, boxVars
    <2> QED BY <1>1, <2>1, <2>2, <2>3 DEF ArbClock
  <1>3. CASE DdramIssue
    <2>1. ram_req /\ ~ram_ack /\ ~busy /\ ~a_rd /\ ~a_we
      BY <1>3 DEF DdramIssue
    <2>2. ram_req' /\ ram_op' = ram_op
      BY <1>1, <2>1 DEF BusClock, busVars
    <2>3. /\ a_we' = ram_op.we /\ a_rd' = ~ram_op.we /\ busy' = ~ram_op.we
          /\ ram_ack' = FALSE /\ half' = ram_op.half
          /\ ram_op.we => a_cmd' = WriteCmd(ram_op)
          /\ ~ram_op.we => a_cmd' = [a_cmd EXCEPT !.word = ram_op.word, !.be = Lane8]
      BY <1>1, <1>3, <2>1 DEF DdramClock
    <2>4. a_cmd \in Cmd /\ ram_op.we \in BOOLEAN
      BY DEF TypeOK, RamOp
    <2>5. ~ram_op.we => a_cmd'.word = ram_op.word
      BY <2>3, <2>4 DEF Cmd
    <2> QED BY <1>2, <2>2, <2>3, <2>4, <2>5 DEF Linked, WriteCmd
  <1>4. CASE ~DdramIssue
    <2>1. /\ a_cmd' = a_cmd /\ half' = half
          /\ a_we' => a_we /\ (b_owns \/ BUSY)
          /\ a_rd' => a_rd /\ (b_owns \/ BUSY)
          /\ busy' => busy /\ ~(a_we /\ ~(b_owns \/ BUSY)) /\ ~(READY /\ ~b_owns)
          /\ ram_ack' = (ram_req /\ (ram_ack \/ (a_we /\ ~(b_owns \/ BUSY))
                                           \/ (busy /\ READY /\ ~b_owns)))
      BY <1>1, <1>4 DEF DdramClock
    <2>2. CASE ~(a_rd' \/ a_we' \/ busy')
      BY <1>2, <2>2 DEF Linked
    <2>3. CASE a_rd' \/ a_we' \/ busy'
      <3>1. ram_req /\ ~ram_ack
        BY <2>1, <2>3 DEF Linked
      <3>2. ram_req' /\ ram_op' = ram_op
        BY <1>1, <3>1 DEF BusClock, busVars
      <3>3. ~ram_ack'
        <4>1. a_rd => busy /\ ~a_we
          BY DEF Ownership
        <4>2. busy => ~a_we /\ (a_rd \/ a_read_pending)
          BY DEF Ownership
        <4>3. a_rd /\ ~b_owns => ~READY
          BY <1>1 DEF Ownership, CtlClock, b_owns
        <4> QED BY <2>1, <2>3, <3>1, <4>1, <4>2, <4>3
      <3>4. WriteCmd(ram_op)' = WriteCmd(ram_op)
        BY <3>2
      <3>5. ~busy' \/ busy
        BY <2>1
      <3> QED BY <1>2, <2>1, <3>2, <3>3, <3>4, <3>5 DEF Linked
    <2> QED BY <2>2, <2>3
  <1> QED BY <1>3, <1>4

LEMMA NextLinked == TypeOK /\ Inv /\ Linked /\ [Next]_vars => Linked'
  <1> SUFFICES ASSUME TypeOK, Inv, Linked, [Next]_vars PROVE Linked'
    OBVIOUS
  <1>1. ASSUME NEW BUSY \in BOOLEAN, NEW READY \in BOOLEAN, Run(BUSY, READY)
        PROVE  Linked'
    <2>1. ~reset /\ Ownership
      BY <1>1 DEF Run, Inv
    <2> QED BY <1>1, <2>1, RunLinked
  <1>2. ASSUME NEW BUSY \in BOOLEAN, NEW READY \in BOOLEAN, HoldReset(BUSY, READY)
        PROVE  Linked'
    BY <1>2 DEF HoldReset, DdramReset, ArbReset, Linked
  <1>3. CASE UNCHANGED vars
    BY <1>3 DEF vars, busVars, ddramVars, boxVars, arbVars, ctlVars, Linked, WriteCmd
  <1> QED BY <1>1, <1>2, <1>3 DEF Next

LEMMA InitLinked == Init => Linked
  BY DEF Init, Linked

(* The invariants the two refinements rest on.                             *)
THEOREM PortInvariant == Spec => [](TypeOK /\ Inv /\ Linked)
  <1>1. Init => Inv
    BY DEF Init, Inv
  <1> QED BY <1>1, InitLinked, NextInv, NextLinked, TypeCorrect, PTL DEF Spec

-----------------------------------------------------------------------------
(* Port A is an atomic big-endian RAM.                                     *)

LEMMA GuestMemType ==
  ASSUME mem \in [RamWord \cup BoxWord -> Word64]
  PROVE  GuestMem \in [RamWord \X {0, 1} -> [Lane4 -> Byte]]
  <1> SUFFICES ASSUME NEW c \in RamWord \X {0, 1}
               PROVE  Bswap(HalfOf(mem[c[1]], c[2])) \in [Lane4 -> Byte]
    BY DEF GuestMem
  <1>1. mem[c[1]] \in Word64 /\ c[2] \in {0, 1}
    OBVIOUS
  <1> QED BY <1>1 DEF Bswap, HalfOf, Word64, Lane4, Lane8

(* Byte order: lane l of the guest's word is lane 4h + 3 - l of the DDR3   *)
(* word, in the data and in the byte enables.                              *)
LEMMA SwappedLanes ==
  ASSUME NEW o \in RamOp, NEW old \in Word64, NEW h \in {0, 1}, NEW l \in Lane4
  PROVE  LET c == WriteCmd(o)
             new == [i \in Lane8 |-> IF i \in c.be THEN c.din[i] ELSE old[i]]
         IN  Bswap(HalfOf(new, h))[l] =
               IF h = o.half /\ l \in o.be THEN o.din[l]
               ELSE Bswap(HalfOf(old, h))[l]
  <1> DEFINE c == WriteCmd(o)
             new == [i \in Lane8 |-> IF i \in c.be THEN c.din[i] ELSE old[i]]
             j == 4 * h + (3 - l)
  <1>1. j \in Lane8 /\ 3 - l \in Lane4 /\ j % 4 = 3 - l
    BY DEF Lane4, Lane8
  <1>2. Bswap(HalfOf(new, h))[l] = new[j] /\ Bswap(HalfOf(old, h))[l] = old[j]
    BY <1>1 DEF Bswap, HalfOf
  <1>3. j \in c.be <=> h = o.half /\ l \in o.be
    <2>1. o.half \in {0, 1} /\ o.be \subseteq Lane4
      BY DEF RamOp
    <2>2. c.be = {4 * o.half + (3 - k) : k \in o.be}
      BY DEF WriteCmd, BeRev
    <2>3. ASSUME NEW k \in o.be, j = 4 * o.half + (3 - k)
          PROVE  h = o.half /\ l \in o.be
      <3>1. k \in 0 .. 3 /\ l \in 0 .. 3
        BY <2>1, <2>3 DEF Lane4
      <3>2. h = o.half
        BY <2>1, <2>3, <3>1
      <3>3. k = l
        BY <2>1, <2>3, <3>1, <3>2
      <3> QED BY <3>2, <3>3
    <2> QED BY <2>2, <2>3
  <1>4. c.din[j] = o.din[l]
    <2>1. c.din[j] = Bswap(o.din)[j % 4]
      BY <1>1 DEF WriteCmd, BothHalves
    <2>2. Bswap(o.din)[3 - l] = o.din[l]
      BY <1>1 DEF Bswap, Lane4
    <2> QED BY <1>1, <2>1, <2>2
  <1>5. new[j] = IF h = o.half /\ l \in o.be THEN o.din[l] ELSE old[j]
    BY <1>1, <1>3, <1>4
  <1> QED BY <1>2, <1>5

(* A clock in which port A's write is accepted writes the request's lanes  *)
(* of the guest's word.                                                    *)
LEMMA GuestWritten ==
  ASSUME TypeOK, Linked, NEW BUSY \in BOOLEAN, NEW READY \in BOOLEAN,
         CtlClock(BUSY, READY), a_we, ~b_owns, ~BUSY
  PROVE  GuestMem' = PortA!Written(GuestMem, GuestOp)
  <1>1. a_cmd = WriteCmd(ram_op) /\ ram_op \in RamOp
        /\ mem \in [RamWord \cup BoxWord -> Word64]
    BY DEF Linked, TypeOK
  <1> DEFINE w0 == ram_op.word
             new == [i \in Lane8 |-> IF i \in a_cmd.be THEN a_cmd.din[i] ELSE mem[w0][i]]
  <1>2. w0 \in RamWord /\ ram_op.half \in {0, 1} /\ a_cmd.word = w0
    BY <1>1 DEF RamOp, WriteCmd
  <1>3. mem' = [mem EXCEPT ![w0] = new]
    BY <1>2 DEF CtlClock, Accepted, DDRAM_WE, DDRAM_WORD, DDRAM_BE, DDRAM_DIN
  <1>4. \A w \in RamWord : mem'[w] = IF w = w0 THEN new ELSE mem[w]
    BY <1>1, <1>3
  <1>5. GuestOp.cell = <<w0, ram_op.half>> /\ GuestOp.be = ram_op.be /\ GuestOp.din = ram_op.din
    BY DEF GuestOp
  <1> DEFINE c0 == <<w0, ram_op.half>>
             put == [l \in Lane4 |-> IF l \in ram_op.be THEN ram_op.din[l]
                                     ELSE GuestMem[c0][l]]
  <1>6. PortA!Written(GuestMem, GuestOp) = [GuestMem EXCEPT ![c0] = put]
    BY <1>5 DEF PortA!Written
  <1>7. GuestMem = [c \in RamWord \X {0, 1} |-> Bswap(HalfOf(mem[c[1]], c[2]))]
        /\ GuestMem' = [c \in RamWord \X {0, 1} |-> Bswap(HalfOf(mem'[c[1]], c[2]))]
    BY DEF GuestMem, Bswap, HalfOf
  <1> HIDE DEF new
  <1>8. ASSUME NEW w \in RamWord, NEW h \in {0, 1}
        PROVE  Bswap(HalfOf(mem'[w], h)) =
                 IF <<w, h>> = c0 THEN put ELSE Bswap(HalfOf(mem[w], h))
    <2>1. CASE w # w0
      BY <1>4, <2>1
    <2>2. CASE w = w0
      <3>1. mem'[w] = new /\ mem[w0] \in Word64
        BY <1>1, <1>2, <1>4, <2>2
      <3>2. ASSUME NEW l \in Lane4
            PROVE  Bswap(HalfOf(new, h))[l] =
                     IF h = ram_op.half /\ l \in ram_op.be THEN ram_op.din[l]
                     ELSE Bswap(HalfOf(mem[w0], h))[l]
        BY <1>1, <3>1, SwappedLanes DEF new
      <3>3. GuestMem[c0] = Bswap(HalfOf(mem[w0], ram_op.half))
        BY <1>2, <1>7
      <3>4. CASE h = ram_op.half
        <4>1. \A l \in Lane4 : Bswap(HalfOf(new, h))[l] = put[l]
          BY <3>2, <3>3, <3>4
        <4>2. Bswap(HalfOf(new, h)) = [l \in Lane4 |-> Bswap(HalfOf(new, h))[l]]
          BY DEF Bswap
        <4>3. Bswap(HalfOf(new, h)) = put
          BY <4>1, <4>2
        <4> QED BY <2>2, <3>1, <3>4, <4>3
      <3>5. CASE h # ram_op.half
        <4>1. \A l \in Lane4 : Bswap(HalfOf(new, h))[l] = Bswap(HalfOf(mem[w0], h))[l]
          BY <3>2, <3>5
        <4>2. Bswap(HalfOf(new, h)) = Bswap(HalfOf(mem[w0], h))
          <5>1. /\ Bswap(HalfOf(new, h)) = [l \in Lane4 |-> Bswap(HalfOf(new, h))[l]]
                /\ Bswap(HalfOf(mem[w0], h)) = [l \in Lane4 |-> Bswap(HalfOf(mem[w0], h))[l]]
            BY DEF Bswap
          <5> QED BY <4>1, <5>1
        <4> QED BY <2>2, <3>1, <3>5, <4>2
      <3> QED BY <3>4, <3>5
    <2> QED BY <2>1, <2>2
  <1> HIDE DEF put, c0
  <1>9. ASSUME NEW c \in RamWord \X {0, 1}
        PROVE  GuestMem'[c] = [GuestMem EXCEPT ![c0] = put][c]
    <2>1. c = <<c[1], c[2]>> /\ c[1] \in RamWord /\ c[2] \in {0, 1}
      OBVIOUS
    <2>2. GuestMem'[c] = IF c = c0 THEN put ELSE Bswap(HalfOf(mem[c[1]], c[2]))
      BY <1>7, <1>8, <2>1
    <2> QED BY <1>7, <2>1, <2>2
  <1> QED BY <1>6, <1>7, <1>9

(* Any other clock leaves the guest's memory alone, the mailbox's writes   *)
(* included: the two windows do not meet.                                  *)
LEMMA GuestUntouched ==
  ASSUME TypeOK, NEW BUSY \in BOOLEAN, NEW READY \in BOOLEAN,
         CtlClock(BUSY, READY), ~(a_we /\ ~b_owns /\ ~BUSY)
  PROVE  GuestMem' = GuestMem
  <1>1. ASSUME NEW w \in RamWord
        PROVE  mem'[w] = mem[w]
    <2>1. CASE BUSY \/ ~DDRAM_WE
      BY <2>1 DEF CtlClock, Accepted
    <2>2. CASE ~BUSY /\ DDRAM_WE
      <3>1. b_owns
        BY <2>2 DEF DDRAM_WE
      <3>2. DDRAM_WORD = b_op.word /\ b_op.word \in BoxWord
        BY <3>1 DEF DDRAM_WORD, TypeOK, BoxOp
      <3>3. w # DDRAM_WORD
        BY <3>2, WindowsDisjoint
      <3> QED BY <2>2, <3>3 DEF CtlClock, Accepted, TypeOK
    <2> QED BY <2>1, <2>2
  <1>2. \A c \in RamWord \X {0, 1} : mem'[c[1]] = mem[c[1]]
    BY <1>1
  <1>3. GuestMem = [c \in RamWord \X {0, 1} |-> Bswap(HalfOf(mem[c[1]], c[2]))]
        /\ GuestMem' = [c \in RamWord \X {0, 1} |-> Bswap(HalfOf(mem'[c[1]], c[2]))]
    BY DEF GuestMem, Bswap, HalfOf
  <1> QED BY <1>2, <1>3

LEMMA GuestOpType ==
  ASSUME ram_op \in RamOp PROVE GuestOp \in PortA!Op
  BY DEF GuestOp, RamOp, PortA!Op, PortA!Data, Word32

LEMMA InitPortA == Init => PortA!Init
  <1> SUFFICES ASSUME Init PROVE PortA!Init
    OBVIOUS
  <1>1. ram_op \in RamOp /\ mem \in [RamWord \cup BoxWord -> Word64] /\ ram_dout \in Word32
    BY InitTypeOK DEF TypeOK
  <1>2. GuestOp \in PortA!Op /\ GuestMem \in [RamWord \X {0, 1} -> [Lane4 -> Byte]]
    BY <1>1, GuestOpType, GuestMemType
  <1> QED BY <1>1, <1>2 DEF Init, PortA!Init, PortA!Data, Word32

(* A clock of normal operation is one of AtomicRam's steps on port A, or   *)
(* none: the access takes effect in the clock that raises ram_ack.         *)
LEMMA RunPortA ==
  ASSUME TypeOK, TypeOK', ~reset, Ownership, Linked,
         NEW BUSY \in BOOLEAN, NEW READY \in BOOLEAN, Run(BUSY, READY)
  PROVE  [PortA!Next]_(PortA!vars)
  <1> DEFINE dout == IF READY THEN Head(inflight) ELSE Zero64
  <1>1. /\ CtlClock(BUSY, READY) /\ BusClock
        /\ DdramClock(b_owns \/ BUSY, READY /\ ~b_owns, dout)
    BY DEF Run
  <1> HIDE DEF dout
  <1> DEFINE written == a_we /\ ~(b_owns \/ BUSY)
             returned == busy /\ READY /\ ~b_owns
  <1>2. /\ ram_ack' = (ram_req /\ (ram_ack \/ written \/ returned))
        /\ ram_dout' = IF returned THEN Bswap(HalfOf(dout, half)) ELSE ram_dout
    BY <1>1 DEF DdramClock
  <1>3. ~written => GuestMem' = GuestMem
    BY <1>1, GuestUntouched
  <1>4. /\ ram_req \in BOOLEAN /\ ram_ack \in BOOLEAN /\ ram_op \in RamOp
        /\ ram_req' \in BOOLEAN /\ ram_op' \in RamOp
    BY DEF TypeOK
  <1>5. ram_op' = ram_op => GuestOp' = GuestOp
    BY DEF GuestOp
  <1>6. CASE ~ram_req
    <2>1. ~written /\ ~returned
      BY <1>6 DEF Linked
    <2>2. ram_ack' = FALSE /\ ram_dout' = ram_dout /\ GuestMem' = GuestMem
      BY <1>2, <1>3, <1>6, <2>1
    <2>3. CASE ram_req' = FALSE /\ ram_op' = ram_op
      <3>1. PortA!Quiet
        BY <1>4, <1>5, <1>6, <2>2, <2>3 DEF PortA!Quiet
      <3> QED BY <3>1 DEF PortA!Next
    <2>4. CASE ram_req' = TRUE
      <3>1. GuestOp' \in PortA!Op
        BY <1>4, GuestOpType DEF GuestOp, PortA!Op, PortA!Data, RamOp, Word32
      <3>2. PortA!Issue
        BY <1>6, <2>2, <2>4, <3>1 DEF PortA!Issue
      <3> QED BY <3>2 DEF PortA!Next
    <2>5. (ram_req' = FALSE /\ ram_op' = ram_op) \/ ram_req' = TRUE
      BY <1>1, <1>4, <1>6 DEF BusClock, busVars
    <2> QED BY <2>3, <2>4, <2>5
  <1>7. CASE ram_req /\ ram_ack
    <2>1. ~written /\ ~returned
      BY <1>7 DEF Linked
    <2>2. ram_ack' = TRUE /\ ram_dout' = ram_dout /\ GuestMem' = GuestMem
      BY <1>2, <1>3, <1>7, <2>1
    <2>3. ram_req' = FALSE /\ ram_op' = ram_op
      BY <1>1, <1>7 DEF BusClock
    <2>4. PortA!Release
      BY <1>5, <1>7, <2>2, <2>3 DEF PortA!Release
    <2> QED BY <2>4 DEF PortA!Next
  <1>8. CASE ram_req /\ ~ram_ack
    <2>1. ram_req' = TRUE /\ ram_req = TRUE /\ ram_op' = ram_op /\ GuestOp' = GuestOp
      <3>1. ram_req' = ram_req /\ ram_op' = ram_op
        BY <1>1, <1>8 DEF BusClock, busVars
      <3> QED BY <1>4, <1>5, <1>8, <3>1
    <2>2. CASE written
      <3>1. ram_op.we /\ ~returned
        BY <2>2 DEF Linked, Ownership
      <3>2. ram_ack' = TRUE /\ ram_dout' = ram_dout
        BY <1>2, <1>8, <2>2, <3>1
      <3>3. GuestMem' = PortA!Written(GuestMem, GuestOp)
        BY <1>1, <2>2, GuestWritten
      <3>4. GuestOp.we
        BY <3>1 DEF GuestOp
      <3>5. PortA!Complete
        BY <1>8, <2>1, <3>2, <3>3, <3>4 DEF PortA!Complete
      <3> QED BY <3>5 DEF PortA!Next
    <2>3. CASE returned
      <3>1. /\ ~ram_op.we /\ a_cmd.word = ram_op.word /\ half = ram_op.half /\ ~a_we
        BY <2>3 DEF Linked, Ownership
      <3>2. inflight = <<mem[ram_op.word]>>
        <4>1. inflight # <<>> /\ gst = "G_A"
          BY <1>1, <2>3 DEF CtlClock, b_owns
        <4> QED BY <3>1, <4>1 DEF Ownership, ReadOwner
      <3>3. dout = mem[ram_op.word]
        BY <2>3, <3>2 DEF dout
      <3>4. ram_ack' = TRUE /\ ram_dout' = Bswap(HalfOf(mem[ram_op.word], ram_op.half))
        BY <1>2, <1>8, <2>3, <3>1, <3>3
      <3>5. GuestMem' = GuestMem
        BY <1>3, <3>1
      <3>6. GuestMem[GuestOp.cell] = Bswap(HalfOf(mem[ram_op.word], ram_op.half))
        <4>1. ram_op.word \in RamWord /\ ram_op.half \in {0, 1}
          BY <1>4 DEF RamOp
        <4>2. GuestOp.cell = <<ram_op.word, ram_op.half>>
          BY DEF GuestOp
        <4> QED BY <4>1, <4>2 DEF GuestMem
      <3>7. ~GuestOp.we
        BY <3>1 DEF GuestOp
      <3>8. PortA!Complete
        BY <1>8, <2>1, <3>4, <3>5, <3>6, <3>7 DEF PortA!Complete
      <3> QED BY <3>8 DEF PortA!Next
    <2>4. CASE ~written /\ ~returned
      <3>1. ram_ack' = FALSE /\ ram_ack = FALSE /\ ram_dout' = ram_dout
            /\ GuestMem' = GuestMem
        BY <1>2, <1>3, <1>4, <1>8, <2>4
      <3> QED BY <2>1, <3>1 DEF PortA!vars
    <2> QED BY <2>2, <2>3, <2>4
  <1> QED BY <1>4, <1>6, <1>7, <1>8

(* A clock of reset withdraws the request; a write the DDR3 accepts in it  *)
(* is the one that was held, complete.                                     *)
LEMMA ResetPortA ==
  ASSUME TypeOK, Linked, NEW BUSY \in BOOLEAN, NEW READY \in BOOLEAN,
         HoldReset(BUSY, READY)
  PROVE  PortA!Reset
  <1>1. CtlClock(BUSY, READY) /\ ram_req' = FALSE /\ ram_ack' = FALSE
        /\ ram_dout' = ram_dout /\ ram_op' = ram_op
    BY DEF HoldReset, DdramReset
  <1>2. GuestOp' = GuestOp /\ ram_dout' \in [Lane4 -> Byte]
    BY <1>1 DEF GuestOp, TypeOK, Word32
  <1>3. CASE a_we /\ ~b_owns /\ ~BUSY
    <2>1. GuestMem' = PortA!Written(GuestMem, GuestOp)
      BY <1>1, <1>3, GuestWritten
    <2>2. ram_req /\ ~ram_ack /\ GuestOp.we
      BY <1>3 DEF Linked, GuestOp
    <2> QED BY <1>1, <1>2, <2>1, <2>2 DEF PortA!Reset, PortA!Data
  <1>4. CASE ~(a_we /\ ~b_owns /\ ~BUSY)
    <2>1. GuestMem' = GuestMem
      BY <1>1, <1>4, GuestUntouched
    <2> QED BY <1>1, <1>2, <2>1 DEF PortA!Reset, PortA!Data
  <1> QED BY <1>3, <1>4

(* Port A implements an atomic big-endian RAM for every window, byte       *)
(* alphabet and operation mix: each request of the bus is answered once,   *)
(* by one indivisible access to the lanes it enables, with any BUSY and    *)
(* read latency, next to any mailbox traffic and across resets.            *)
THEOREM PortAIsRam == Spec => PortAImplementsRam
  <1>1. TypeOK /\ TypeOK' /\ Inv /\ Linked /\ [Next]_vars => [PortA!Next]_(PortA!vars)
    <2> SUFFICES ASSUME TypeOK, TypeOK', Inv, Linked, [Next]_vars
                 PROVE  [PortA!Next]_(PortA!vars)
      OBVIOUS
    <2>1. ASSUME NEW BUSY \in BOOLEAN, NEW READY \in BOOLEAN, Run(BUSY, READY)
          PROVE  [PortA!Next]_(PortA!vars)
      <3>1. ~reset /\ Ownership
        BY <2>1 DEF Run, Inv
      <3> QED BY <2>1, <3>1, RunPortA
    <2>2. ASSUME NEW BUSY \in BOOLEAN, NEW READY \in BOOLEAN, HoldReset(BUSY, READY)
          PROVE  [PortA!Next]_(PortA!vars)
      BY <2>2, ResetPortA DEF PortA!Next
    <2>3. CASE UNCHANGED vars
      BY <2>3 DEF vars, busVars, ddramVars, ctlVars, PortA!vars, GuestOp, GuestMem,
                  Bswap, HalfOf
    <2> QED BY <2>1, <2>2, <2>3 DEF Next
  <1> QED BY <1>1, InitPortA, PortInvariant, PTL DEF Spec, PortAImplementsRam, PortA!Spec

-----------------------------------------------------------------------------
(* Port B is an atomic memory of mailbox words.                            *)

LEMMA MailWritten ==
  ASSUME TypeOK, NEW BUSY \in BOOLEAN, NEW READY \in BOOLEAN,
         CtlClock(BUSY, READY), gst = "G_B_ISSUE", b_op.we, ~BUSY
  PROVE  MailMem' = PortB!Written(MailMem, MailOp)
  <1>1. b_op \in BoxOp /\ mem \in [RamWord \cup BoxWord -> Word64]
    BY DEF TypeOK
  <1>2. b_op.word \in BoxWord /\ b_op.din \in Word64
    BY <1>1 DEF BoxOp
  <1>3. mem' = [mem EXCEPT ![b_op.word] =
                  [i \in Lane8 |-> IF i \in Lane8 THEN b_op.din[i] ELSE mem[b_op.word][i]]]
    BY DEF CtlClock, Accepted, DDRAM_WE, DDRAM_WORD, DDRAM_BE, DDRAM_DIN, b_owns
  <1>4. mem' = [mem EXCEPT ![b_op.word] = b_op.din]
    BY <1>2, <1>3 DEF Word64
  <1>5. PortB!Written(MailMem, MailOp) = [MailMem EXCEPT ![b_op.word] = b_op.din]
    <2>1. PortB!Written(MailMem, MailOp) =
            [MailMem EXCEPT ![b_op.word] =
               [i \in Lane8 |-> IF i \in Lane8 THEN b_op.din[i] ELSE MailMem[b_op.word][i]]]
      BY DEF PortB!Written, MailOp
    <2> QED BY <1>2, <2>1 DEF Word64
  <1> QED BY <1>1, <1>2, <1>4, <1>5 DEF MailMem

LEMMA MailUntouched ==
  ASSUME TypeOK, NEW BUSY \in BOOLEAN, NEW READY \in BOOLEAN,
         CtlClock(BUSY, READY), ~(gst = "G_B_ISSUE" /\ b_op.we /\ ~BUSY)
  PROVE  MailMem' = MailMem
  <1>1. ASSUME NEW w \in BoxWord
        PROVE  mem'[w] = mem[w]
    <2>1. CASE BUSY \/ ~DDRAM_WE
      BY <2>1 DEF CtlClock, Accepted
    <2>2. CASE ~BUSY /\ DDRAM_WE
      <3>1. ~b_owns
        BY <2>2 DEF DDRAM_WE
      <3>2. DDRAM_WORD = a_cmd.word /\ a_cmd.word \in RamWord
        BY <3>1 DEF DDRAM_WORD, TypeOK, Cmd
      <3>3. w # DDRAM_WORD
        BY <3>2, WindowsDisjoint
      <3> QED BY <2>2, <3>3 DEF CtlClock, Accepted, TypeOK
    <2> QED BY <2>1, <2>2
  <1> QED BY <1>1 DEF MailMem

LEMMA RunPortB ==
  ASSUME TypeOK, TypeOK', ~reset, Ownership, Linked,
         NEW BUSY \in BOOLEAN, NEW READY \in BOOLEAN, Run(BUSY, READY)
  PROVE  [PortB!Next]_(PortB!vars)
  <1> DEFINE dout == IF READY THEN Head(inflight) ELSE Zero64
  <1>1. CtlClock(BUSY, READY) /\ BoxClock /\ ArbClock(BUSY, READY, dout)
    BY DEF Run
  <1> HIDE DEF dout
  <1>2. /\ b_req \in BOOLEAN /\ b_ack \in BOOLEAN /\ b_op \in BoxOp
        /\ b_req' \in BOOLEAN /\ b_ack' \in BOOLEAN /\ b_op' \in BoxOp
    BY DEF TypeOK
  <1>3. b_op' = b_op => MailOp' = MailOp
    BY DEF MailOp
  <1>4. CASE gst = "G_A"
    <2>1. b_ack' = FALSE /\ b_rdata' = b_rdata
      BY <1>1, <1>4 DEF ArbClock, GrantA, BIssue, BRead
    <2>2. MailMem' = MailMem
      BY <1>1, <1>4, MailUntouched
    <2>3. CASE ~b_req /\ b_req' = TRUE
      <3>1. MailOp' \in PortB!Op
        BY <1>2 DEF MailOp, PortB!Op, PortB!Data, BoxOp, Word64
      <3>2. PortB!Issue
        BY <2>1, <2>2, <2>3, <3>1 DEF PortB!Issue
      <3> QED BY <3>2 DEF PortB!Next
    <2>4. CASE ~b_req /\ b_req' = FALSE /\ b_op' = b_op
      <3>1. PortB!Quiet
        BY <1>2, <1>3, <2>1, <2>2, <2>4 DEF PortB!Quiet
      <3> QED BY <3>1 DEF PortB!Next
    <2>5. CASE b_req /\ b_ack
      <3>1. b_req' = FALSE /\ b_op' = b_op
        BY <1>1, <2>5 DEF BoxClock
      <3>2. PortB!Release
        BY <1>3, <2>1, <2>2, <2>5, <3>1 DEF PortB!Release
      <3> QED BY <3>2 DEF PortB!Next
    <2>6. CASE b_req /\ ~b_ack
      <3>1. b_req' = b_req /\ b_op' = b_op
        BY <1>1, <2>6 DEF BoxClock, boxVars
      <3> QED BY <1>2, <1>3, <2>1, <2>2, <2>6, <3>1 DEF PortB!vars
    <2>7. \/ ~b_req /\ b_req' = TRUE
          \/ ~b_req /\ b_req' = FALSE /\ b_op' = b_op
          \/ b_req
      BY <1>1, <1>2 DEF BoxClock, boxVars
    <2> QED BY <2>3, <2>4, <2>5, <2>6, <2>7
  <1>5. CASE gst # "G_A"
    <2>1. b_req /\ ~b_ack
      BY <1>5 DEF Linked
    <2>2. b_req' = b_req /\ b_op' = b_op
      BY <1>1, <2>1 DEF BoxClock, boxVars
    <2>3. CASE gst = "G_B_ISSUE" /\ b_op.we /\ ~BUSY
      <3>1. b_ack' = TRUE /\ b_rdata' = b_rdata
        BY <1>1, <2>3 DEF ArbClock, GrantA, BIssue, BRead
      <3>2. MailMem' = PortB!Written(MailMem, MailOp) /\ MailOp.we
        BY <1>1, <2>3, MailWritten DEF MailOp
      <3>3. PortB!Complete
        BY <1>3, <2>1, <2>2, <3>1, <3>2 DEF PortB!Complete
      <3> QED BY <3>3 DEF PortB!Next
    <2>4. CASE gst = "G_B_ISSUE" /\ ~(b_op.we /\ ~BUSY)
      <3>1. b_ack' = FALSE /\ b_rdata' = b_rdata
        BY <1>1, <2>4 DEF ArbClock, GrantA, BIssue, BRead
      <3>2. MailMem' = MailMem
        BY <1>1, <2>4, MailUntouched
      <3> QED BY <1>2, <1>3, <2>1, <2>2, <3>1, <3>2 DEF PortB!vars
    <2>5. CASE gst = "G_B_READ" /\ READY
      <3>1. b_ack' = TRUE /\ b_rdata' = dout
        BY <1>1, <2>5 DEF ArbClock, GrantA, BIssue, BRead
      <3>2. inflight = <<mem[b_op.word]>> /\ ~b_op.we
        BY <2>5 DEF Ownership, ReadOwner
      <3>3. dout = mem[b_op.word]
        BY <2>5, <3>2 DEF dout
      <3>4. MailMem' = MailMem
        BY <1>1, <2>5, MailUntouched
      <3>5. MailMem[MailOp.cell] = mem[b_op.word] /\ ~MailOp.we
        BY <1>2, <3>2 DEF MailMem, MailOp, BoxOp
      <3>6. PortB!Complete
        BY <1>3, <2>1, <2>2, <3>1, <3>3, <3>4, <3>5 DEF PortB!Complete
      <3> QED BY <3>6 DEF PortB!Next
    <2>6. CASE gst = "G_B_READ" /\ ~READY
      <3>1. b_ack' = FALSE /\ b_rdata' = b_rdata
        BY <1>1, <2>6 DEF ArbClock, GrantA, BIssue, BRead
      <3>2. MailMem' = MailMem
        BY <1>1, <2>6, MailUntouched
      <3> QED BY <1>2, <1>3, <2>1, <2>2, <3>1, <3>2 DEF PortB!vars
    <2> QED BY <1>5, <2>3, <2>4, <2>5, <2>6 DEF TypeOK
  <1> QED BY <1>4, <1>5

LEMMA ResetPortB ==
  ASSUME TypeOK, Linked, NEW BUSY \in BOOLEAN, NEW READY \in BOOLEAN,
         HoldReset(BUSY, READY)
  PROVE  PortB!Reset
  <1>1. CtlClock(BUSY, READY) /\ b_req' = FALSE /\ b_ack' = FALSE
        /\ b_rdata' = Zero64 /\ b_op' = b_op
    BY DEF HoldReset, ArbReset
  <1>2. MailOp' = MailOp /\ b_rdata' \in [Lane8 -> Byte]
    BY <1>1, ZeroType DEF MailOp, Word64
  <1>3. CASE gst = "G_B_ISSUE" /\ b_op.we /\ ~BUSY
    <2>1. MailMem' = PortB!Written(MailMem, MailOp)
      BY <1>1, <1>3, MailWritten
    <2>2. b_req /\ ~b_ack /\ MailOp.we
      BY <1>3 DEF Linked, MailOp
    <2> QED BY <1>1, <1>2, <2>1, <2>2 DEF PortB!Reset, PortB!Data
  <1>4. CASE ~(gst = "G_B_ISSUE" /\ b_op.we /\ ~BUSY)
    <2>1. MailMem' = MailMem
      BY <1>1, <1>4, MailUntouched
    <2> QED BY <1>1, <1>2, <2>1 DEF PortB!Reset, PortB!Data
  <1> QED BY <1>3, <1>4

(* Port B implements an atomic memory of whole mailbox words: the bridge   *)
(* and the exception publisher may rely on it next to any guest traffic,   *)
(* and an operation is never repeated although the request is still up in  *)
(* the clock of its acknowledge (next_ddram_arb.sv, b_req && !b_ack).      *)
THEOREM PortBIsRam == Spec => PortBImplementsRam
  <1>1. Init => PortB!Init
    <2> SUFFICES ASSUME Init PROVE PortB!Init
      OBVIOUS
    <2>1. b_op \in BoxOp /\ mem \in [RamWord \cup BoxWord -> Word64] /\ b_rdata \in Word64
      BY InitTypeOK DEF TypeOK
    <2>2. MailOp \in PortB!Op /\ MailMem \in [BoxWord -> [Lane8 -> Byte]]
      BY <2>1 DEF MailOp, MailMem, BoxOp, PortB!Op, PortB!Data, Word64
    <2> QED BY <2>1, <2>2 DEF Init, PortB!Init, PortB!Data, Word64
  <1>2. TypeOK /\ TypeOK' /\ Inv /\ Linked /\ [Next]_vars => [PortB!Next]_(PortB!vars)
    <2> SUFFICES ASSUME TypeOK, TypeOK', Inv, Linked, [Next]_vars
                 PROVE  [PortB!Next]_(PortB!vars)
      OBVIOUS
    <2>1. ASSUME NEW BUSY \in BOOLEAN, NEW READY \in BOOLEAN, Run(BUSY, READY)
          PROVE  [PortB!Next]_(PortB!vars)
      <3>1. ~reset /\ Ownership
        BY <2>1 DEF Run, Inv
      <3> QED BY <2>1, <3>1, RunPortB
    <2>2. ASSUME NEW BUSY \in BOOLEAN, NEW READY \in BOOLEAN, HoldReset(BUSY, READY)
          PROVE  [PortB!Next]_(PortB!vars)
      BY <2>2, ResetPortB DEF PortB!Next
    <2>3. CASE UNCHANGED vars
      BY <2>3 DEF vars, boxVars, arbVars, ctlVars, PortB!vars, MailOp, MailMem
    <2> QED BY <2>1, <2>2, <2>3 DEF Next
  <1> QED BY <1>1, <1>2, PortInvariant, PTL DEF Spec, PortBImplementsRam, PortB!Spec

=============================================================================
