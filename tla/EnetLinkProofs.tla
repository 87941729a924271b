--------------------------- MODULE EnetLinkProofs ---------------------------
(***************************************************************************)
(* EnetLink: the frames in the mailbox's transmit ring are whole and in    *)
(* order (TxRingIntact), and so are those the MAC takes in (RxIntact).     *)
(*                                                                         *)
(* The inductive invariant IInv says, besides what the two are about, in   *)
(* which state of the bridge each word of the mailbox is what the bridge   *)
(* believes (BridgeInv, InitInv, LiveInv), which bytes of a frame are in   *)
(* the slot, in the word being packed and on the way from the MAC (TxInv), *)
(* what the MAC has gathered (MacInv), and what it has taken in (RxInv).   *)
(* The order below: registers of the bridge after a clock, arithmetic of   *)
(* slots and words, each part of IInv under a clock (BridgeNext ...        *)
(* TxInvNext), then the resets, the link switch and the ARM.               *)
(***************************************************************************)
EXTENDS EnetLink, TLAPS, SequenceTheorems

(* The inductive invariant.                                                *)
(* The registers the argument is about.                                    *)
BrReg == {"st", "ret", "m_req", "m_we", "m_addr", "m_wdata", "op_we", "op_rdata",
          "tx_wptr", "rx_rptr", "pos", "lane", "pack", "cur_len", "btx_addr", "btx_rd",
          "btx_done", "brx_start", "brx_valid", "brx_len", "brx_data"}
MacReg == {"est", "tx_en", "rx_en", "tx_sup", "tx_next", "tx_limit", "tx_len", "m_req",
           "m_addr", "pw", "pkt", "pkt_q", "btx_req", "btx_len", "btx_q", "btx_ack",
           "btx_pending", "brx_pos"}

(* The bridge waits for an operation and goes on in state ret; Phase is    *)
(* where it is or will be.  Landing: the operation has not landed yet.     *)
Wait_(ret) == br.st = "S_WAIT" /\ br.ret = ret
Phase == IF br.st = "S_WAIT" THEN br.ret ELSE br.st
Writing(kind) == Wait_("S_IDLE") /\ br.m_addr = A(kind)
Landing(kind) == Writing(kind) /\ ~box_ack

TxState == {"S_TX_FETCH", "S_TX_WRITE", "S_TX_PACK", "S_TX_HDR", "S_TX_WPTR"}
RxState == {"S_RX_POLL", "S_RX_HDR", "S_RX_READ", "S_RX_STREAM", "S_RX_RPTR"}
InitState == {"S_INIT_TXPTR", "S_INIT_RXWPTR", "S_INIT_RXRPTR", "S_INIT_MAC", "S_INIT_MAGIC"}
RetState == InitState \cup {"S_OFF", "S_IDLE", "S_TX_PACK", "S_TX_HDR", "S_TX_WPTR",
                            "S_RX_POLL", "S_RX_HDR", "S_RX_READ"}

Row == br.pos \div Lanes
k_rx == gen_base + 1 + br.rx_rptr

(* The operation the bridge waits for is the one of the state it left.     *)
Write(a, d) == br.op_we /\ br.m_we /\ br.m_addr = a /\ br.m_wdata = d
Read(a) == ~br.op_we /\ ~br.m_we /\ br.m_addr = a
WriteMac == br.op_we /\ br.m_we /\ br.m_addr = A("MAC")
Operation ==
    /\ br.ret = "S_INIT_TXPTR" => Write(A("MAGIC"), FALSE)
    /\ br.ret = "S_INIT_RXWPTR" => Write(A("TXWPTR"), 0)
    /\ br.ret = "S_INIT_RXRPTR" => Write(A("RXWPTR"), 0)
    /\ br.ret = "S_INIT_MAC" => Write(A("RXRPTR"), 0)
    /\ br.ret \in {"S_INIT_MAGIC", "S_OFF"} => WriteMac
    /\ br.ret = "S_IDLE" =>
         \/ Write(A("MAGIC"), TRUE) \/ Write(A("TXWPTR"), br.tx_wptr)
         \/ Write(A("RXRPTR"), br.rx_rptr) \/ WriteMac
    /\ br.ret \in {"S_TX_PACK", "S_TX_HDR"} => Write(TxWord(br.tx_wptr, 1 + Row), br.pack)
    /\ br.ret = "S_TX_WPTR" => Write(TxWord(br.tx_wptr, 0), br.cur_len)
    /\ br.ret = "S_RX_POLL" => Read(A("RXWPTR"))
    /\ br.ret = "S_RX_HDR" => Read(RxWord(br.rx_rptr, 0))
    /\ br.ret = "S_RX_READ" => Read(RxWord(br.rx_rptr, 1 + Row))
BridgeInv ==
    /\ BrReg \subseteq DOMAIN br
    /\ br.tx_wptr \in Nat /\ br.rx_rptr \in Nat /\ br.pos \in Nat /\ br.lane \in 0 .. (Lanes - 1)
    /\ br.btx_rd \in BOOLEAN /\ br.btx_done \in BOOLEAN
    /\ br.brx_start \in BOOLEAN /\ br.brx_valid \in BOOLEAN
    /\ br.st \in BState /\ box_ack \in BOOLEAN /\ br.m_req \in BOOLEAN
    /\ br.m_req <=> br.st = "S_WAIT"
    /\ box_ack => br.st = "S_WAIT"
    /\ br.st = "S_WAIT" => br.ret \in RetState /\ Operation
    /\ br.btx_done => br.st \in {"S_OFF", "S_INIT_CLEAR"} \/ Landing("TXWPTR")
    /\ br.btx_rd => br.st = "S_TX_FETCH" /\ br.btx_addr = br.pos
    /\ br.brx_start => Wait_("S_RX_READ") /\ br.pos = 0 /\ ~box_ack /\ ~br.brx_valid
    /\ br.brx_valid => br.st \in {"S_RX_STREAM", "S_RX_RPTR"} \/ (Wait_("S_RX_READ") /\ ~box_ack)
    /\ Phase = "S_RX_READ" => br.pos % Lanes = 0
    /\ br.st = "S_RX_STREAM" => br.lane = br.pos % Lanes

(* What the writes of the initialisation have done.                        *)
Cleared ==
    \/ br.st \in InitState \cup {"S_OFF"}
    \/ br.st = "S_WAIT" /\ br.ret \in InitState \cup {"S_OFF"} /\ (br.ret = "S_INIT_TXPTR" => box_ack)
    \/ Landing("MAGIC")
TxZero ==
    \/ br.st \in InitState \ {"S_INIT_TXPTR"}
    \/ br.st = "S_WAIT" /\ br.ret \in InitState \ {"S_INIT_TXPTR"} /\ (br.ret = "S_INIT_RXWPTR" => box_ack)
    \/ Writing("MAGIC")
WZero ==
    \/ br.st \in {"S_INIT_RXRPTR", "S_INIT_MAC", "S_INIT_MAGIC"}
    \/ br.st = "S_WAIT" /\ br.ret \in {"S_INIT_RXRPTR", "S_INIT_MAC", "S_INIT_MAGIC"} /\ (br.ret = "S_INIT_RXRPTR" => box_ack)
    \/ Landing("MAGIC")
RZero ==
    \/ br.st \in {"S_INIT_MAC", "S_INIT_MAGIC"}
    \/ br.st = "S_WAIT" /\ br.ret \in {"S_INIT_MAC", "S_INIT_MAGIC"} /\ (br.ret = "S_INIT_MAC" => box_ack)
    \/ Landing("MAGIC")
PtrZero == br.st \in InitState \/ (br.st = "S_WAIT" /\ br.ret \in InitState) \/ Writing("MAGIC")
InitInv ==
    /\ Cleared => ~box[A("MAGIC")]
    /\ TxZero => box[A("TXWPTR")] = 0
    /\ WZero => box[A("RXWPTR")] = 0
    /\ RZero => box[A("RXRPTR")] = 0
    /\ PtrZero => br.tx_wptr = 0 /\ br.rx_rptr = 0

(* The mailbox is published in this generation: the pointers in it are the *)
(* bridge's, and the receive slots in use hold the frames of this          *)
(* generation in order.                                                    *)
Live ==
    /\ Phase \in {"S_IDLE", "S_MAC"} \cup TxState \cup RxState
    /\ ~Landing("MAGIC")
HoldsRx(p, k) ==
    /\ box[RxWord(p, 0)] = RxLen[k]
    /\ \A w \in 1 .. Words : box[RxWord(p, w)] = RxFrameWord(k, w)
LiveInv == Live =>
    /\ box[A("MAGIC")] /\ ours
    /\ box[A("TXWPTR")] = IF Landing("TXWPTR") THEN br.tx_wptr - 1 ELSE br.tx_wptr
    /\ box[A("RXRPTR")] = IF Landing("RXRPTR") THEN br.rx_rptr - 1 ELSE br.rx_rptr
    /\ box[A("RXRPTR")] \in Nat
    /\ box[A("RXWPTR")] = pushed - gen_base
    /\ br.rx_rptr <= box[A("RXWPTR")] /\ box[A("RXWPTR")] - box[A("RXRPTR")] <= Slots
    /\ \A p \in box[A("RXRPTR")] .. (box[A("RXWPTR")] - 1) : HoldsRx(p, gen_base + 1 + p)

(* The transmit ring: the frames up to number n, in order.                 *)
Pub(w) == {p \in 0 .. (w - 1) : p > w - Slots}
Ring(n) ==
    \A p \in Pub(box[A("TXWPTR")]) : \E k \in 1 .. n :
        /\ HoldsFrame(p, k)
        /\ p + 1 \in Pub(box[A("TXWPTR")]) => \E j \in (k + 1) .. n : HoldsFrame(p + 1, j)
(* The frame sent last is still on its way into the ring.                  *)
Gathering == mac.est \in {"E_TX_RD", "E_TX_ACK", "E_TX_END"}
Pending == mac.tx_en \/ (mac.est = "E_BTX" /\ ~br.btx_done)
Bound == IF Pending THEN sent - 1 ELSE sent
BoxInv ==
    /\ box = [w \in MailboxWord |-> box[w]] /\ box[A("TXWPTR")] \in Nat
    /\ gen_base \in Nat /\ pushed \in Nat /\ gen_base <= pushed /\ pushed <= Len(RxLen)
    /\ last_rx \in Nat /\ last_rx <= pushed
RingInv == box[A("MAGIC")] /\ ours => Ring(Bound)

(* The frame the bridge is writing into slot tx_wptr: its first bytes are  *)
(* in the slot and in the word being packed.                               *)
Asked == br.btx_rd \/ mac.btx_pending \/ mac.btx_ack
Busy == Phase \in TxState \ {"S_TX_FETCH"} \/ (br.st = "S_TX_FETCH" /\ Asked)
InBox(k, n) == \A i \in 0 .. (n - 1) : TxSlotByte(br.tx_wptr, i) = TxEnd[k] + i
InRow(k, n) == \A i \in 0 .. (n - 1) :
                   i \div Lanes < Row => TxSlotByte(br.tx_wptr, i) = TxEnd[k] + i
InPack(k, n) == \A i \in 0 .. (n - 1) :
                   i \div Lanes = Row => br.pack[i % Lanes] = TxEnd[k] + i
LastOfWord == br.lane = Lanes - 1 \/ br.pos + 1 >= br.cur_len
WritingWord == br.st = "S_WAIT" /\ br.ret \in {"S_TX_PACK", "S_TX_HDR"}
Bytes(k) ==
    /\ br.pack = [l \in 0 .. (Lanes - 1) |-> br.pack[l]]
    /\ br.cur_len = WireLen(k) /\ br.pos < br.cur_len /\ br.lane = br.pos % Lanes
    /\ br.st = "S_TX_FETCH" => InRow(k, br.pos) /\ InPack(k, br.pos)
    /\ br.st = "S_TX_WRITE" \/ WritingWord =>
         InRow(k, br.pos + 1) /\ InPack(k, br.pos + 1) /\ LastOfWord
    /\ WritingWord /\ box_ack => InBox(k, br.pos + 1)
    /\ br.st = "S_TX_PACK" => InBox(k, br.pos + 1) /\ LastOfWord
    /\ Phase = "S_TX_PACK" => br.pos + 1 < br.cur_len
    /\ Phase = "S_TX_HDR" => br.pos + 1 >= br.cur_len
    /\ br.st \in {"S_TX_HDR", "S_TX_WPTR"} \/ Wait_("S_TX_WPTR") => InBox(k, br.cur_len)
    /\ br.st = "S_TX_WPTR" \/ (Wait_("S_TX_WPTR") /\ box_ack) =>
         box[TxWord(br.tx_wptr, 0)] = br.cur_len
Hold(k) ==
    /\ mac.est = "E_BTX" => k = sent
    /\ mac.tx_en => k < sent
    /\ mac.est # "E_BTX" => ~cable \/ dev_reset
TxInv ==
    /\ Busy => \E k \in 1 .. sent : Ring(k - 1) /\ Bytes(k) /\ Hold(k)
    /\ Landing("TXWPTR") =>
         \E k \in 1 .. sent : Ring(k - 1) /\ HoldsFrame(br.tx_wptr - 1, k) /\ k <= Bound
    /\ Writing("TXWPTR") => br.tx_wptr > 0
    /\ mac.btx_pending \/ mac.btx_ack => br.st = "S_TX_FETCH" /\ mac.est = "E_BTX"
    /\ ~(br.btx_rd /\ mac.btx_pending) /\ ~(br.btx_rd /\ mac.btx_ack)
    /\ ~(mac.btx_pending /\ mac.btx_ack)
    /\ mac.btx_pending => mac.pkt_q = TxEnd[sent] + br.pos
    /\ mac.btx_ack => mac.btx_q = TxEnd[sent] + br.pos

(* The MAC gathers the frame sent last from RAM, then holds it.            *)
MacInv ==
    /\ MacReg \subseteq DOMAIN mac
    /\ mac.est \in {"E_IDLE", "E_TX_RD", "E_TX_ACK", "E_TX_END", "E_BTX", "E_BRX"}
    /\ mac.btx_pending \in BOOLEAN /\ mac.btx_ack \in BOOLEAN /\ mac.tx_en \in BOOLEAN
    /\ ~mac.rx_en /\ ~mac.tx_sup /\ mac.brx_pos \in Nat
    /\ sent \in Nat /\ (sent > 0 => sent <= TxFrames)
    /\ mac.pkt = [i \in Buf |-> mac.pkt[i]]
    /\ mac.tx_en \/ mac.est = "E_BTX" => sent > 0
    /\ Gathering => mac.tx_en
    /\ mac.est = "E_BTX" => ~mac.tx_en
    /\ mac.btx_req <=> mac.est = "E_BTX"
    /\ mac.est \in {"E_IDLE", "E_BRX"} => mac.tx_len = 0
    /\ mac.tx_en => mac.tx_limit = [a |-> TxEnd[sent + 1], f |-> TRUE]
    /\ mac.tx_en /\ ~Gathering => mac.tx_next = TxEnd[sent]
    /\ mac.pw # None => mac.est \in {"E_TX_RD", "E_BRX", "E_IDLE"} /\ mac.pw[1] \in Buf
    /\ Gathering =>
         /\ mac.tx_len \in 0 .. TxLen(sent) /\ mac.tx_next = TxEnd[sent] + mac.tx_len
         /\ \A i \in 0 .. (mac.tx_len - 1) : InBuffer(i) = TxEnd[sent] + i
    /\ mac.est = "E_TX_ACK" =>
         mac.m_req /\ mac.m_addr = mac.tx_next /\ mac.tx_len < TxLen(sent)
    /\ mac.est = "E_TX_END" => mac.tx_len = TxLen(sent)
    /\ mac.est = "E_BTX" =>
         /\ mac.btx_len = WireLen(sent)
         /\ \A i \in 0 .. (TxLen(sent) - 1) : mac.pkt[i] = TxEnd[sent] + i

(* The frame the bridge reads from slot rx_rptr, and the MAC takes in.     *)
RxWork ==
    /\ br.st = "S_RX_POLL" => br.op_rdata \in br.rx_rptr .. box[A("RXWPTR")]
    /\ Phase \in {"S_RX_HDR", "S_RX_READ", "S_RX_STREAM", "S_RX_RPTR"} => br.rx_rptr < box[A("RXWPTR")]
    /\ br.st = "S_RX_HDR" => br.op_rdata = RxLen[k_rx]
    /\ Phase \in {"S_RX_READ", "S_RX_STREAM"} =>
         /\ br.cur_len = RxLen[k_rx] /\ br.brx_len = br.cur_len /\ br.cur_len <= MaxFrame
         /\ br.pos < br.cur_len
    /\ br.st = "S_RX_READ" => br.op_rdata = RxFrameWord(k_rx, 1 + Row)
    /\ br.st = "S_RX_STREAM" => br.pack = RxFrameWord(k_rx, 1 + Row)
Filling(k) ==
    /\ br.brx_len = RxLen[k] /\ br.brx_len > 0 /\ br.brx_len <= MaxFrame
    /\ mac.brx_pos <= br.brx_len
    /\ \A i \in 0 .. (mac.brx_pos - 1) : InBuffer(i) = RxByte(k, i)
    /\ br.brx_valid => br.brx_data = RxByte(k, mac.brx_pos)
Streaming ==
    /\ Phase \in {"S_RX_READ", "S_RX_STREAM", "S_RX_RPTR"}
    /\ Filling(k_rx)
    /\ br.pos = IF br.brx_valid THEN mac.brx_pos + 1 ELSE mac.brx_pos
    /\ br.st = "S_RX_RPTR" => br.brx_valid /\ br.pos = br.brx_len
Streamed ==
    /\ Landing("RXRPTR")
    /\ Filling(gen_base + br.rx_rptr)
    /\ mac.brx_pos = br.brx_len /\ ~br.brx_valid
    /\ last_rx < gen_base + br.rx_rptr
RxInv ==
    /\ Live => RxWork /\ last_rx <= gen_base + br.rx_rptr
    /\ mac.est = "E_BRX" => Streaming \/ Streamed
    /\ Writing("RXRPTR") => br.rx_rptr > 0
IInv == BridgeInv /\ InitInv /\ LiveInv /\ BoxInv /\ RingInv /\ TxInv /\ MacInv /\ RxInv
-----------------------------------------------------------------------------
(* The registers of the bridge after a clock.                              *)

Val(p, x, v) == IF x \in DOMAIN p THEN p[x] ELSE v

(* Assignments one after the other: the first that assigns a register      *)
(* decides its value.                                                      *)
LEMMA OverIs ==
  ASSUME NEW f, NEW g
  PROVE  f ++ g = [x \in DOMAIN f \cup DOMAIN g |-> IF x \in DOMAIN f THEN f[x] ELSE g[x]]
  BY DEF ++

(* The value of one register after two lots of assignments.                *)
LEMMA ValOver ==
  ASSUME NEW f, NEW g, NEW x, NEW v
  PROVE  Val(f ++ g, x, v) = Val(f, x, Val(g, x, v))
  BY OverIs DEF Val

(* The same for a register that g holds anyhow.                            *)
LEMMA AtOver ==
  ASSUME NEW f, NEW g, NEW x \in DOMAIN g
  PROVE  x \in DOMAIN (f ++ g) /\ (f ++ g)[x] = Val(f, x, g[x])
  BY OverIs DEF Val

(* No assignment changes nothing.                                          *)
LEMMA NoAssignment ==
  /\ DOMAIN <<>> = {}
  /\ \A x, v : Val(<<>>, x, v) = v
  BY DEF Val

Pulse == {"btx_rd", "btx_done", "brx_start", "brx_valid"}

(* The bridge's assignments s decide the next registers; the pulses fall   *)
(* unless assigned.                                                        *)
Moves(s) ==
    /\ BrReg \subseteq DOMAIN br'
    /\ \A x \in BrReg \ Pulse : br'[x] = Val(s, x, br[x])
    /\ \A x \in Pulse : br'[x] = Val(s, x, FALSE)

(* The assignments of every clock touch only the pulses of BrReg.          *)
LEMMA AlwaysIs ==
  ASSUME NEW enable, NEW m
  PROVE  /\ \A x \in BrReg \ Pulse : \A v : Val(Always(enable, m), x, v) = v
         /\ \A x \in Pulse : \A v : Val(Always(enable, m), x, v) = FALSE
  <1> DEFINE a == IF m.enet_mac # br.mac_last THEN [mac_dirty |-> TRUE] ELSE <<>>
             b == IF ~m.btx_req THEN [drop_seen |-> FALSE] ELSE <<>>
             c == IF ~enable /\ br.st # "S_OFF" THEN [disable_pending |-> TRUE] ELSE <<>>
             d == [btx_rd |-> FALSE, btx_done |-> FALSE, brx_start |-> FALSE, brx_valid |-> FALSE]
  <1>1. DOMAIN a \subseteq {"mac_dirty"} /\ DOMAIN b \subseteq {"drop_seen"}
        /\ DOMAIN c \subseteq {"disable_pending"}
    BY NoAssignment
  <1>2. /\ \A x \in BrReg \ Pulse : \A v : Val(d, x, v) = v
        /\ \A x \in Pulse : \A v : Val(d, x, v) = FALSE
    BY DEF Val, Pulse
  <1>3. Always(enable, m) = ((a ++ b) ++ c) ++ d
    BY DEF Always
  <1> HIDE DEF a, b, c, d
  <1>4. \A x \in BrReg : \A v : Val(Always(enable, m), x, v) = Val(d, x, v)
    <2> SUFFICES ASSUME NEW x \in BrReg, NEW v
                 PROVE  Val(Always(enable, m), x, v) = Val(d, x, v)
      OBVIOUS
    <2>1. x \notin DOMAIN a /\ x \notin DOMAIN b /\ x \notin DOMAIN c
      BY <1>1 DEF BrReg
    <2>2. \A u : Val(a, x, u) = u /\ Val(b, x, u) = u /\ Val(c, x, u) = u
      BY <2>1 DEF Val
    <2>3. Val(((a ++ b) ++ c) ++ d, x, v) = Val((a ++ b) ++ c, x, Val(d, x, v))
      BY ValOver
    <2>4. \A u : Val((a ++ b) ++ c, x, u) = Val(a ++ b, x, Val(c, x, u))
      BY ValOver
    <2>5. \A u : Val(a ++ b, x, u) = Val(a, x, Val(b, x, u))
      BY ValOver
    <2> QED BY <1>3, <2>2, <2>3, <2>4, <2>5
  <1>5. Pulse \subseteq BrReg
    BY DEF Pulse, BrReg
  <1> QED BY <1>2, <1>4, <1>5

(* A clock of the bridge.                                                  *)
Step(poll_tick) == State(cable, poll_tick, mac, brx_ready(cable), box_ack, Rdata)

(* A clock of next_enet_bridge.sv, as the assignments of its state.        *)
LEMMA BridgeMoves ==
  ASSUME NEW poll_tick, BrReg \subseteq DOMAIN br,
         BridgeClock(cable, poll_tick, mac, brx_ready(cable), box_ack, Rdata)
  PROVE  Moves(Step(poll_tick))
  <1> DEFINE s == Step(poll_tick)
             a == Always(cable, mac)
  <1>1. br' = (s ++ a) ++ br
    BY DEF BridgeClock, Step
  <1>p. Pulse \subseteq BrReg
    BY DEF Pulse, BrReg
  <1> HIDE DEF s, a
  <1>2. ASSUME NEW x \in BrReg PROVE br'[x] = Val(s, x, Val(a, x, br[x]))
    BY <1>1, AtOver, ValOver
  <1>3. BrReg \subseteq DOMAIN br'
    BY <1>1, AtOver
  <1>4. /\ \A x \in BrReg \ Pulse : \A v : Val(a, x, v) = v
        /\ \A x \in Pulse : \A v : Val(a, x, v) = FALSE
    BY AlwaysIs DEF a
  <1>5. \A x \in BrReg \ Pulse : br'[x] = Val(s, x, br[x])
    BY <1>2, <1>4
  <1>6. ASSUME NEW x \in Pulse PROVE br'[x] = Val(s, x, FALSE)
    <2>1. x \in BrReg
      BY <1>p
    <2>2. br'[x] = Val(s, x, Val(a, x, br[x]))
      BY <1>2, <2>1
    <2> QED BY <1>4, <2>2
  <1>7. Moves(s)
    BY <1>3, <1>5, <1>6 DEF Moves
  <1> QED BY <1>7 DEF s

(* What a DDR3 operation assigns.                                          *)
OpReg == {"m_req", "m_we", "m_addr", "m_wdata", "op_we", "ret", "st"}
Starts(we, a, d, nxt) ==
    /\ br'.st = "S_WAIT" /\ br'.m_req = TRUE /\ br'.m_we = we /\ br'.m_addr = a
    /\ br'.m_wdata = d /\ br'.op_we = we /\ br'.ret = nxt

(* Assignments r, then a DDR3 operation.                                   *)
LEMMA OpMoves ==
  ASSUME NEW r, NEW we, NEW a, NEW d, NEW nxt, Moves(r ++ ddr_op(we, a, d, nxt)),
         DOMAIN r \cap OpReg = {}
  PROVE  /\ Starts(we, a, d, nxt)
         /\ \A x \in BrReg \ (Pulse \cup OpReg) : br'[x] = Val(r, x, br[x])
         /\ \A x \in Pulse : br'[x] = Val(r, x, FALSE)
  <1> DEFINE o == ddr_op(we, a, d, nxt)
  <1>1. /\ DOMAIN o = OpReg /\ o.m_req = TRUE /\ o.m_we = we /\ o.m_addr = a /\ o.m_wdata = d
        /\ o.op_we = we /\ o.ret = nxt /\ o.st = "S_WAIT"
    BY DEF ddr_op, OpReg
  <1>2. OpReg \subseteq BrReg \ Pulse
    BY DEF OpReg, BrReg, Pulse
  <1> HIDE DEF o
  <1>3. \A x, v : Val(r ++ o, x, v) = Val(r, x, Val(o, x, v))
    BY ValOver
  <1>4. \A x \in OpReg : br'[x] = o[x]
    BY <1>1, <1>2, <1>3 DEF Moves, Val, o
  <1>5. Starts(we, a, d, nxt)
    BY <1>1, <1>4 DEF Starts, OpReg
  <1>6. \A x \in BrReg \ OpReg : \A v : Val(r ++ o, x, v) = Val(r, x, v)
    BY <1>1, <1>3 DEF Val
  <1>7. Pulse \cap OpReg = {} /\ Pulse \subseteq BrReg
    BY DEF Pulse, OpReg, BrReg
  <1> QED BY <1>5, <1>6, <1>7 DEF Moves, o

(* Which registers a clock touches, and which pulses it gives.             *)
Only(X) == \A x \in BrReg \ (X \cup Pulse) : br'[x] = br[x]
Pulses(X) == \A x \in Pulse : (x \in X => br'[x] = TRUE) /\ (x \notin X => br'[x] = FALSE)

(* Assignments to X and the pulses leave the other registers alone.        *)
LEMMA MovesIs ==
  ASSUME NEW s, NEW X, Moves(s), DOMAIN s \cap BrReg \subseteq X \cup Pulse
  PROVE  /\ Only(X)
         /\ \A x \in DOMAIN s \cap BrReg : br'[x] = s[x]
         /\ \A x \in Pulse \ DOMAIN s : br'[x] = FALSE
  <1>1. Only(X)
    BY DEF Moves, Only, Val
  <1>2. \A x \in DOMAIN s \cap BrReg : br'[x] = s[x]
    BY DEF Moves, Val
  <1>3. \A x \in Pulse \ DOMAIN s : br'[x] = FALSE
    BY DEF Moves, Val
  <1> QED BY <1>1, <1>2, <1>3

(* The same when they end in a DDR3 operation.                             *)
LEMMA MovesOp ==
  ASSUME NEW r, NEW we, NEW a, NEW d, NEW nxt, NEW X, Moves(r ++ ddr_op(we, a, d, nxt)),
         DOMAIN r \cap OpReg = {}, DOMAIN r \cap BrReg \subseteq X \cup Pulse
  PROVE  /\ Starts(we, a, d, nxt) /\ Only(X \cup OpReg)
         /\ \A x \in DOMAIN r \cap BrReg : br'[x] = r[x]
         /\ \A x \in Pulse \ DOMAIN r : br'[x] = FALSE
  <1>1. /\ Starts(we, a, d, nxt)
        /\ \A x \in BrReg \ (Pulse \cup OpReg) : br'[x] = Val(r, x, br[x])
        /\ \A x \in Pulse : br'[x] = Val(r, x, FALSE)
    BY OpMoves
  <1>2. Only(X \cup OpReg)
    BY <1>1 DEF Only, Val
  <1>3. \A x \in DOMAIN r \cap BrReg : br'[x] = r[x]
    BY <1>1 DEF Val
  <1>4. \A x \in Pulse \ DOMAIN r : br'[x] = FALSE
    BY <1>1 DEF Val
  <1> QED BY <1>1, <1>2, <1>3, <1>4

(* An operation and nothing else.                                          *)
LEMMA MovesJustOp ==
  ASSUME NEW we, NEW a, NEW d, NEW nxt, Moves(ddr_op(we, a, d, nxt))
  PROVE  Starts(we, a, d, nxt) /\ Only(OpReg) /\ Pulses({})
  <1> DEFINE o == ddr_op(we, a, d, nxt)
  <1>1. /\ DOMAIN o = OpReg /\ o.m_req = TRUE /\ o.m_we = we /\ o.m_addr = a /\ o.m_wdata = d
        /\ o.op_we = we /\ o.ret = nxt /\ o.st = "S_WAIT"
    BY DEF ddr_op, OpReg
  <1>2. OpReg \subseteq BrReg /\ OpReg \cap Pulse = {}
    BY DEF OpReg, BrReg, Pulse
  <1> HIDE DEF o
  <1>m. Moves(o)
    BY DEF o
  <1>3. /\ Only(OpReg)
        /\ \A x \in DOMAIN o \cap BrReg : br'[x] = o[x]
        /\ \A x \in Pulse \ DOMAIN o : br'[x] = FALSE
    BY <1>1, <1>m, MovesIs
  <1>4. Starts(we, a, d, nxt)
    <2>1. \A x \in OpReg : br'[x] = o[x]
      BY <1>1, <1>2, <1>3
    <2> QED BY <1>1, <2>1 DEF Starts, OpReg
  <1>5. Pulses({})
    BY <1>1, <1>2, <1>3 DEF Pulses
  <1> QED BY <1>3, <1>4, <1>5

Ptr == {"tx_wptr", "rx_rptr"}
Zero == br'.tx_wptr = 0 /\ br'.rx_rptr = 0

(* What a clock does in each state.                                        *)
EffOff ==
    /\ Pulses({}) \/ Pulses({"btx_done"})
    /\ br'.m_req = FALSE
    /\ \/ Only({"m_req"})
       \/ Only({"m_req", "st"} \cup Ptr) /\ br'.st = "S_INIT_CLEAR" /\ Zero
EffClear == /\ Starts(TRUE, A("MAGIC"), FALSE, "S_INIT_TXPTR") /\ Only(Ptr \cup OpReg)
            /\ Pulses({}) /\ Zero
EffInit(kind, nxt) == Starts(TRUE, A(kind), 0, nxt) /\ Only(OpReg) /\ Pulses({})
EffInitMac ==
    /\ \E n \in {"S_INIT_MAGIC", "S_OFF"} : Starts(TRUE, A("MAC"), mac.enet_mac, n)
    /\ Only(OpReg) /\ Pulses({})
EffMagic == Starts(TRUE, A("MAGIC"), TRUE, "S_IDLE") /\ Only(OpReg) /\ Pulses({})
EffIdle ==
    \/ Only({"st"}) /\ Pulses({}) /\ br'.st \in {"S_INIT_CLEAR", "S_IDLE", "S_MAC"}
    \/ /\ cable /\ mac.btx_req
       /\ Only({"st", "pos", "lane", "pack", "cur_len", "btx_addr"}) /\ Pulses({"btx_rd"})
       /\ br'.st = "S_TX_FETCH" /\ br'.pos = 0 /\ br'.lane = 0 /\ br'.pack = EmptyPack
       /\ br'.cur_len = mac.btx_len /\ br'.btx_addr = 0
    \/ Starts(FALSE, A("RXWPTR"), 0, "S_RX_POLL") /\ Only(OpReg) /\ Pulses({})
Packed == [br.pack EXCEPT ![br.lane] = mac.btx_q]
EffFetch ==
    \/ ~mac.btx_ack /\ Only({}) /\ Pulses({})
    \/ /\ mac.btx_ack /\ LastOfWord
       /\ Only({"st", "pack"}) /\ Pulses({}) /\ br'.st = "S_TX_WRITE" /\ br'.pack = Packed
    \/ /\ mac.btx_ack /\ ~LastOfWord
       /\ Only({"pos", "lane", "pack", "btx_addr"}) /\ Pulses({"btx_rd"})
       /\ br'.pos = br.pos + 1 /\ br'.lane = br.lane + 1 /\ br'.btx_addr = br.pos + 1
       /\ br'.pack = Packed
EffWrite ==
    /\ Starts(TRUE, TxWord(br.tx_wptr, 1 + Row), br.pack,
              IF br.pos + 1 >= br.cur_len THEN "S_TX_HDR" ELSE "S_TX_PACK")
    /\ Only(OpReg) /\ Pulses({})
EffPack ==
    /\ Only({"st", "pos", "lane", "pack", "btx_addr"}) /\ Pulses({"btx_rd"})
    /\ br'.st = "S_TX_FETCH" /\ br'.pos = br.pos + 1 /\ br'.lane = 0 /\ br'.pack = EmptyPack
    /\ br'.btx_addr = br.pos + 1
EffHdr == Starts(TRUE, TxWord(br.tx_wptr, 0), br.cur_len, "S_TX_WPTR") /\ Only(OpReg) /\ Pulses({})
EffWptr ==
    /\ Starts(TRUE, A("TXWPTR"), br.tx_wptr + 1, "S_IDLE") /\ br'.tx_wptr = br.tx_wptr + 1
    /\ Only({"tx_wptr"} \cup OpReg) /\ Pulses({"btx_done"})
EffPoll ==
    /\ Pulses({})
    /\ \/ Only({"st"}) /\ br'.st = "S_IDLE"
       \/ /\ br.op_rdata # br.rx_rptr
          /\ Starts(FALSE, RxWord(br.rx_rptr, 0), 0, "S_RX_HDR") /\ Only(OpReg)
EffRxHdr ==
    /\ br'.cur_len = br.op_rdata /\ br'.pos = 0
    /\ \/ Only({"st", "cur_len", "pos"}) /\ Pulses({}) /\ br'.st = "S_RX_RPTR"
       \/ /\ br.op_rdata # 0 /\ ~(br.op_rdata > MaxFrame)
          /\ Starts(FALSE, RxWord(br.rx_rptr, 1), 0, "S_RX_READ") /\ br'.brx_len = br.op_rdata
          /\ Only({"cur_len", "pos", "brx_len"} \cup OpReg) /\ Pulses({"brx_start"})
EffRead == /\ Only({"st", "pack", "lane"}) /\ Pulses({})
           /\ br'.st = "S_RX_STREAM" /\ br'.pack = br.op_rdata /\ br'.lane = 0
EffStream ==
    /\ br'.pos = br.pos + 1 /\ br'.brx_data = br.pack[br.lane] /\ Pulses({"brx_valid"})
    /\ \/ /\ br.pos + 1 >= br.cur_len
          /\ Only({"st", "pos", "brx_data"}) /\ br'.st = "S_RX_RPTR"
       \/ /\ ~(br.pos + 1 >= br.cur_len) /\ br.lane = Lanes - 1
          /\ Starts(FALSE, RxWord(br.rx_rptr, 2 + Row), 0, "S_RX_READ")
          /\ Only({"pos", "brx_data"} \cup OpReg)
       \/ /\ ~(br.pos + 1 >= br.cur_len) /\ br.lane # Lanes - 1
          /\ Only({"pos", "brx_data", "lane"}) /\ br'.lane = br.lane + 1
EffRptr ==
    /\ Starts(TRUE, A("RXRPTR"), br.rx_rptr + 1, "S_IDLE") /\ br'.rx_rptr = br.rx_rptr + 1
    /\ Only({"rx_rptr"} \cup OpReg) /\ Pulses({})
EffMac == Starts(TRUE, A("MAC"), mac.enet_mac, "S_IDLE") /\ Only(OpReg) /\ Pulses({})
EffWait ==
    /\ Pulses({})
    /\ \/ ~box_ack /\ Only({})
       \/ /\ box_ack /\ Only({"st", "m_req", "op_rdata"}) /\ br'.st = br.ret /\ br'.m_req = FALSE
          /\ ~br.op_we => br'.op_rdata = Rdata

(* What the states of the initialisation assign.                           *)
LEMMA InitEffects ==
  ASSUME NEW poll_tick, Moves(Step(poll_tick))
  PROVE  /\ br.st = "S_OFF" => EffOff
         /\ br.st = "S_INIT_CLEAR" => EffClear
         /\ br.st = "S_INIT_TXPTR" => EffInit("TXWPTR", "S_INIT_RXWPTR")
         /\ br.st = "S_INIT_RXWPTR" => EffInit("RXWPTR", "S_INIT_RXRPTR")
         /\ br.st = "S_INIT_RXRPTR" => EffInit("RXRPTR", "S_INIT_MAC")
         /\ br.st = "S_INIT_MAC" => EffInitMac
         /\ br.st = "S_INIT_MAGIC" => EffMagic
  <1>1. ASSUME br.st = "S_OFF" PROVE EffOff
    <2> DEFINE on == [tx_wptr |-> 0, rx_wptr |-> 0, rx_rptr |-> 0, mac_dirty |-> FALSE,
                      disable_pending |-> FALSE, st |-> "S_INIT_CLEAR"]
               done == [btx_done |-> TRUE, drop_seen |-> TRUE]
               idle == [m_req |-> FALSE]
               p == IF cable THEN on ELSE <<>>
               q == IF mac.btx_req /\ ~br.drop_seen THEN done ELSE <<>>
               s == (p ++ q) ++ idle
    <2>1. Step(poll_tick) = s
      BY <1>1 DEF Step, State, Off
    <2>2. \A x, v : Val(s, x, v) = Val(p, x, Val(q, x, Val(idle, x, v)))
      <3> HIDE DEF p, q, idle
      <3>1. \A x, v : Val((p ++ q) ++ idle, x, v) = Val(p ++ q, x, Val(idle, x, v))
        BY ValOver
      <3>2. \A x, v : Val(p ++ q, x, v) = Val(p, x, Val(q, x, v))
        BY ValOver
      <3> QED BY <3>1, <3>2
    <2> DEFINE t == [x \in BrReg |-> Val(p, x, Val(q, x, Val(idle, x, IF x \in Pulse THEN FALSE ELSE br[x])))]
    <2>3. \A x \in BrReg : br'[x] = t[x]
      <3> HIDE DEF s, p, q, idle
      <3>1. Moves(s)
        BY <2>1
      <3> QED BY <2>2, <3>1 DEF Moves
    <2>4. /\ \A v : Val(idle, "m_req", v) = FALSE
          /\ \A x, v : x # "m_req" => Val(idle, x, v) = v
      BY DEF Val
    <2>5. /\ \A v : Val(on, "tx_wptr", v) = 0 /\ Val(on, "rx_rptr", v) = 0 /\ Val(on, "st", v) = "S_INIT_CLEAR"
          /\ \A x \in BrReg \ ({"st"} \cup Ptr) : \A v : Val(on, x, v) = v
      BY DEF Val, BrReg, Ptr
    <2>b. \A x \in Pulse : \A v : Val(on, x, v) = v
      BY DEF Val, Pulse
    <2>6. /\ \A v : Val(done, "btx_done", v) = TRUE
          /\ \A x \in BrReg \ {"btx_done"} : \A v : Val(done, x, v) = v
      BY DEF Val, BrReg
    <2>7. \/ \A x, v : Val(q, x, v) = v
          \/ \A x, v : Val(q, x, v) = Val(done, x, v)
      BY NoAssignment
    <2>8. \/ \A x, v : Val(p, x, v) = v
          \/ \A x, v : Val(p, x, v) = Val(on, x, v)
      BY NoAssignment
    <2> HIDE DEF on, done, idle, p, q
    <2>a. {"st", "m_req", "tx_wptr", "rx_rptr"} \subseteq BrReg \ Pulse /\ "btx_done" \in Pulse
          /\ Pulse \subseteq BrReg /\ Ptr = {"tx_wptr", "rx_rptr"}
      BY DEF BrReg, Pulse, Ptr
    <2>9. Pulses({}) \/ Pulses({"btx_done"})
      <3>1. \A x \in Pulse : br'[x] = Val(q, x, FALSE)
        <4> SUFFICES ASSUME NEW x \in Pulse PROVE br'[x] = Val(q, x, FALSE)
          OBVIOUS
        <4>1. x \in BrReg /\ x \notin {"st", "m_req", "tx_wptr", "rx_rptr"}
          BY DEF Pulse, BrReg
        <4>2. br'[x] = Val(p, x, Val(q, x, Val(idle, x, FALSE)))
          BY <2>3, <4>1
        <4>3. \A v : Val(idle, x, v) = v /\ Val(p, x, Val(q, x, v)) = Val(q, x, v)
          BY <2>4, <2>b, <2>8, <4>1
        <4> QED BY <4>2, <4>3
      <3>2. CASE \A x, v : Val(q, x, v) = v
        BY <3>1, <3>2 DEF Pulses
      <3>3. CASE \A x, v : Val(q, x, v) = Val(done, x, v)
        <4>1. br'["btx_done"] = TRUE
          BY <3>1, <3>3, <2>6, <2>a
        <4>2. \A x \in Pulse \ {"btx_done"} : \A v : Val(q, x, v) = v
          BY <3>3, <2>6, <2>a
        <4>3. \A x \in Pulse \ {"btx_done"} : br'[x] = FALSE
          BY <3>1, <4>2
        <4> QED BY <4>1, <4>3 DEF Pulses
      <3> QED BY <2>7, <3>2, <3>3
    <2>10. \A x \in BrReg \ ({"m_req"} \cup Pulse) : br'[x] = Val(p, x, br[x])
      <3> SUFFICES ASSUME NEW x \in BrReg \ ({"m_req"} \cup Pulse) PROVE br'[x] = Val(p, x, br[x])
        OBVIOUS
      <3>1. br'[x] = Val(p, x, Val(q, x, Val(idle, x, br[x])))
        BY <2>3
      <3>2. Val(idle, x, br[x]) = br[x] /\ Val(q, x, br[x]) = br[x]
        BY <2>4, <2>6, <2>7, <2>a
      <3> QED BY <3>1, <3>2
    <2>11. br'.m_req = FALSE
      <3>1. br'["m_req"] = Val(p, "m_req", Val(q, "m_req", Val(idle, "m_req", br["m_req"])))
        BY <2>3, <2>a
      <3> QED BY <3>1, <2>4, <2>5, <2>6, <2>7, <2>8, <2>a
    <2>12. CASE \A x, v : Val(p, x, v) = v
      BY <2>9, <2>10, <2>11, <2>12 DEF EffOff, Only
    <2>13. CASE \A x, v : Val(p, x, v) = Val(on, x, v)
      <3>1. br'.st = "S_INIT_CLEAR" /\ Zero
        BY <2>10, <2>13, <2>5, <2>a DEF Zero
      <3>2. Only({"m_req", "st"} \cup Ptr)
        BY <2>10, <2>13, <2>5 DEF Only
      <3> QED BY <2>9, <2>11, <3>1, <3>2 DEF EffOff
    <2> QED BY <1>1, <2>8, <2>12, <2>13
  <1>2. ASSUME br.st = "S_INIT_CLEAR" PROVE EffClear
    <2> DEFINE r == [tx_wptr |-> 0, rx_wptr |-> 0, rx_rptr |-> 0]
    <2>1. Moves(r ++ ddr_op(TRUE, A("MAGIC"), FALSE, "S_INIT_TXPTR"))
      BY <1>2 DEF Step, State, InitClear
    <2>2. /\ DOMAIN r \cap OpReg = {} /\ DOMAIN r \cap BrReg \subseteq Ptr \cup Pulse
          /\ {"tx_wptr", "rx_rptr"} \subseteq DOMAIN r \cap BrReg /\ Pulse \cap DOMAIN r = {}
      BY DEF OpReg, Ptr, BrReg, Pulse
    <2>3. r.tx_wptr = 0 /\ r.rx_rptr = 0
      OBVIOUS
    <2> HIDE DEF r
    <2> QED BY <1>2, <2>1, <2>2, <2>3, MovesOp DEF EffClear, Zero, Pulses
  <1>3. /\ br.st = "S_INIT_TXPTR" => EffInit("TXWPTR", "S_INIT_RXWPTR")
        /\ br.st = "S_INIT_RXWPTR" => EffInit("RXWPTR", "S_INIT_RXRPTR")
        /\ br.st = "S_INIT_RXRPTR" => EffInit("RXRPTR", "S_INIT_MAC")
        /\ br.st = "S_INIT_MAGIC" => EffMagic
    BY MovesJustOp DEF Step, State, EffInit, EffMagic
  <1>4. ASSUME br.st = "S_INIT_MAC" PROVE EffInitMac
    <2> DEFINE r == [mac_last |-> mac.enet_mac, mac_dirty |-> FALSE]
               on == ddr_op(TRUE, A("MAC"), mac.enet_mac, "S_INIT_MAGIC")
               off == ddr_op(TRUE, A("MAC"), mac.enet_mac, "S_OFF")
               d == [disable_pending |-> FALSE]
    <2>1. Moves(r ++ on) \/ Moves(r ++ (d ++ off))
      BY <1>4 DEF Step, State, InitMac
    <2>2. DOMAIN r \cap BrReg = {} /\ DOMAIN d \cap BrReg = {} /\ OpReg \subseteq BrReg
          /\ Pulse \subseteq BrReg
      BY DEF BrReg, OpReg, Pulse
    <2> HIDE DEF r, d, on, off
    <2>3. CASE Moves(r ++ on)
      <3>1. Starts(TRUE, A("MAC"), mac.enet_mac, "S_INIT_MAGIC") /\ Only({} \cup OpReg)
            /\ \A x \in Pulse : br'[x] = FALSE
        BY <2>2, <2>3, MovesOp DEF on
      <3> QED BY <3>1 DEF EffInitMac, Only, Pulses
    <2>4. CASE Moves(r ++ (d ++ off))
      <3> DEFINE rd == r ++ d
      <3>1. \A x, v : Val(r ++ (d ++ off), x, v) = Val(rd ++ off, x, v)
        <4>1. \A x, v : Val(r ++ (d ++ off), x, v) = Val(r, x, Val(d ++ off, x, v))
          BY ValOver
        <4>2. \A x, v : Val(d ++ off, x, v) = Val(d, x, Val(off, x, v))
          BY ValOver
        <4>3. \A x, v : Val(rd ++ off, x, v) = Val(rd, x, Val(off, x, v))
          BY ValOver
        <4>4. \A x, v : Val(rd, x, v) = Val(r, x, Val(d, x, v))
          BY ValOver
        <4> QED BY <4>1, <4>2, <4>3, <4>4
      <3>2. DOMAIN rd \cap BrReg = {}
        BY <2>2, OverIs
      <3> HIDE DEF rd
      <3>3. Moves(rd ++ off)
        BY <2>4, <3>1 DEF Moves
      <3>4. Starts(TRUE, A("MAC"), mac.enet_mac, "S_OFF") /\ Only({} \cup OpReg)
            /\ \A x \in Pulse : br'[x] = FALSE
        BY <2>2, <3>2, <3>3, MovesOp DEF off
      <3> QED BY <3>4 DEF EffInitMac, Only, Pulses
    <2> QED BY <1>4, <2>1, <2>3, <2>4
  <1> QED BY <1>1, <1>2, <1>3, <1>4

(* The same for two lots of assignments to different registers.            *)
LEMMA MovesBoth ==
  ASSUME NEW f, NEW g, NEW X, Moves(f ++ g), DOMAIN f \cap DOMAIN g = {},
         (DOMAIN f \cup DOMAIN g) \cap BrReg \subseteq X \cup Pulse
  PROVE  /\ Only(X)
         /\ \A x \in DOMAIN f \cap BrReg : br'[x] = f[x]
         /\ \A x \in DOMAIN g \cap BrReg : br'[x] = g[x]
         /\ \A x \in Pulse \ (DOMAIN f \cup DOMAIN g) : br'[x] = FALSE
  <1> DEFINE s == f ++ g
  <1>1. /\ DOMAIN s = DOMAIN f \cup DOMAIN g
        /\ \A x \in DOMAIN f : s[x] = f[x]
        /\ \A x \in DOMAIN g : s[x] = g[x]
    BY OverIs
  <1>2. Moves(s)
    OBVIOUS
  <1> HIDE DEF s
  <1> QED BY <1>1, <1>2, MovesIs

(* A state that assigns nothing.                                           *)
LEMMA MovesNone ==
  ASSUME Moves(<<>>)
  PROVE  Only({}) /\ Pulses({})
  <1>1. Only({}) /\ \A x \in Pulse \ {} : br'[x] = FALSE
    BY NoAssignment, MovesIs
  <1> QED BY <1>1 DEF Pulses

(* What S_IDLE and S_OFF assign.                                           *)
LEMMA IdleEffects ==
  ASSUME NEW poll_tick, Moves(Step(poll_tick)), br.st = "S_IDLE"
  PROVE  EffIdle
  <1> DEFINE a == [disable_pending |-> FALSE, st |-> "S_INIT_CLEAR"]
             b == [pos |-> 0, lane |-> 0, pack |-> EmptyPack, cur_len |-> mac.btx_len,
                   btx_addr |-> 0, btx_rd |-> TRUE, st |-> "S_TX_FETCH"]
             c == [st |-> "S_MAC"]
  <1>1. \/ Moves(a) \/ (cable /\ mac.btx_req /\ Moves(b))
        \/ Moves(ddr_op(FALSE, A("RXWPTR"), 0, "S_RX_POLL")) \/ Moves(c) \/ Moves(<<>>)
    BY DEF Step, State, Idle
  <1>2. ASSUME Moves(a) PROVE Only({"st"}) /\ Pulses({}) /\ br'.st = "S_INIT_CLEAR"
    <2>1. DOMAIN a \cap BrReg = {"st"} /\ a.st = "S_INIT_CLEAR" /\ Pulse \cap DOMAIN a = {}
      BY DEF BrReg, Pulse
    <2> HIDE DEF a
    <2> QED BY <1>2, <2>1, MovesIs DEF Pulses
  <1>3. ASSUME Moves(b)
        PROVE  /\ Only({"st", "pos", "lane", "pack", "cur_len", "btx_addr"}) /\ Pulses({"btx_rd"})
               /\ br'.st = "S_TX_FETCH" /\ br'.pos = 0 /\ br'.lane = 0 /\ br'.pack = EmptyPack
               /\ br'.cur_len = mac.btx_len /\ br'.btx_addr = 0
    <2>1. /\ DOMAIN b = {"st", "pos", "lane", "pack", "cur_len", "btx_addr", "btx_rd"}
          /\ DOMAIN b \subseteq BrReg
          /\ b.st = "S_TX_FETCH" /\ b.pos = 0 /\ b.lane = 0 /\ b.pack = EmptyPack
          /\ b.cur_len = mac.btx_len /\ b.btx_addr = 0 /\ b.btx_rd = TRUE
      BY DEF BrReg
    <2>2. "btx_rd" \in Pulse /\ Pulse \cap DOMAIN b = {"btx_rd"}
      BY DEF Pulse
    <2> HIDE DEF b
    <2>3. /\ Only({"st", "pos", "lane", "pack", "cur_len", "btx_addr"})
          /\ \A x \in DOMAIN b \cap BrReg : br'[x] = b[x]
          /\ \A x \in Pulse \ DOMAIN b : br'[x] = FALSE
      BY <1>3, <2>1, <2>2, MovesIs
    <2>4. Pulses({"btx_rd"})
      BY <2>1, <2>2, <2>3 DEF Pulses
    <2> QED BY <2>1, <2>3, <2>4
  <1>4. ASSUME Moves(c) PROVE Only({"st"}) /\ Pulses({}) /\ br'.st = "S_MAC"
    <2>1. DOMAIN c \cap BrReg = {"st"} /\ c.st = "S_MAC" /\ Pulse \cap DOMAIN c = {}
      BY DEF BrReg, Pulse
    <2> HIDE DEF c
    <2> QED BY <1>4, <2>1, MovesIs DEF Pulses
  <1>5. ASSUME Moves(<<>>) PROVE Only({"st"}) /\ Pulses({}) /\ br'.st = "S_IDLE"
    BY <1>5, MovesNone DEF Only, BrReg, Pulse
  <1> HIDE DEF a, b, c
  <1> QED BY <1>1, <1>2, <1>3, <1>4, <1>5, MovesJustOp DEF EffIdle

(* What S_TX_FETCH assigns.                                                *)
LEMMA FetchEffects ==
  ASSUME NEW poll_tick, Moves(Step(poll_tick)), br.st = "S_TX_FETCH"
  PROVE  EffFetch
  <1> DEFINE f == [pack |-> Packed]
             g == [st |-> "S_TX_WRITE"]
             h == [pos |-> br.pos + 1, lane |-> br.lane + 1, btx_addr |-> br.pos + 1, btx_rd |-> TRUE]
  <1>1. \/ ~mac.btx_ack /\ Moves(<<>>)
        \/ mac.btx_ack /\ LastOfWord /\ Moves(f ++ g)
        \/ mac.btx_ack /\ ~LastOfWord /\ Moves(f ++ h)
    BY DEF Step, State, TxFetch, LastOfWord, Packed
  <1>2. /\ DOMAIN f = {"pack"} /\ f.pack = Packed
        /\ DOMAIN g = {"st"} /\ g.st = "S_TX_WRITE"
        /\ DOMAIN h = {"pos", "lane", "btx_addr", "btx_rd"}
        /\ h.pos = br.pos + 1 /\ h.lane = br.lane + 1 /\ h.btx_addr = br.pos + 1 /\ h.btx_rd = TRUE
        /\ {"pack", "st", "pos", "lane", "btx_addr", "btx_rd"} \subseteq BrReg
        /\ Pulse \cap {"pack", "st", "pos", "lane", "btx_addr", "btx_rd"} = {"btx_rd"}
    BY DEF BrReg, Pulse
  <1> HIDE DEF f, g, h
  <1>3. ASSUME Moves(f ++ g)
        PROVE  Only({"st", "pack"}) /\ Pulses({}) /\ br'.st = "S_TX_WRITE" /\ br'.pack = Packed
    <2>0. /\ DOMAIN f \cap DOMAIN g = {}
          /\ (DOMAIN f \cup DOMAIN g) \cap BrReg \subseteq {"st", "pack"} \cup Pulse
      BY <1>2, <1>3
    <2>1. /\ Only({"st", "pack"})
          /\ \A x \in DOMAIN f \cap BrReg : br'[x] = f[x]
          /\ \A x \in DOMAIN g \cap BrReg : br'[x] = g[x]
          /\ \A x \in Pulse \ (DOMAIN f \cup DOMAIN g) : br'[x] = FALSE
      BY <1>3, <2>0, MovesBoth
    <2>2. Pulses({})
      BY <1>2, <2>1 DEF Pulses
    <2> QED BY <1>2, <2>1, <2>2
  <1>4. ASSUME Moves(f ++ h)
        PROVE  /\ Only({"pos", "lane", "pack", "btx_addr"}) /\ Pulses({"btx_rd"})
               /\ br'.pos = br.pos + 1 /\ br'.lane = br.lane + 1 /\ br'.btx_addr = br.pos + 1
               /\ br'.pack = Packed
    <2>0. /\ DOMAIN f \cap DOMAIN h = {}
          /\ (DOMAIN f \cup DOMAIN h) \cap BrReg \subseteq {"pos", "lane", "pack", "btx_addr"} \cup Pulse
      BY <1>2, <1>4
    <2>1. /\ Only({"pos", "lane", "pack", "btx_addr"})
          /\ \A x \in DOMAIN f \cap BrReg : br'[x] = f[x]
          /\ \A x \in DOMAIN h \cap BrReg : br'[x] = h[x]
          /\ \A x \in Pulse \ (DOMAIN f \cup DOMAIN h) : br'[x] = FALSE
      BY <1>4, <2>0, MovesBoth
    <2>2. Pulses({"btx_rd"})
      BY <1>2, <2>1 DEF Pulses
    <2> QED BY <1>2, <2>1, <2>2
  <1> QED BY <1>1, <1>3, <1>4, MovesNone DEF EffFetch

(* What the other states of a transmission assign.                         *)
LEMMA TxEffects ==
  ASSUME NEW poll_tick, Moves(Step(poll_tick))
  PROVE  /\ br.st = "S_TX_WRITE" => EffWrite
         /\ br.st = "S_TX_PACK" => EffPack
         /\ br.st = "S_TX_HDR" => EffHdr
         /\ br.st = "S_TX_WPTR" => EffWptr
         /\ br.st = "S_MAC" => EffMac
  <1>1. br.st = "S_TX_WRITE" => EffWrite
    BY MovesJustOp DEF Step, State, TxWrite, EffWrite, Row
  <1>2. br.st = "S_TX_HDR" => EffHdr
    BY MovesJustOp DEF Step, State, EffHdr
  <1>3. ASSUME br.st = "S_TX_PACK" PROVE EffPack
    <2> DEFINE s == [pos |-> br.pos + 1, lane |-> 0, pack |-> EmptyPack,
                     btx_addr |-> br.pos + 1, btx_rd |-> TRUE, st |-> "S_TX_FETCH"]
    <2>1. Moves(s)
      BY <1>3 DEF Step, State, TxPack
    <2>2. /\ DOMAIN s = {"pos", "lane", "pack", "btx_addr", "btx_rd", "st"}
          /\ DOMAIN s \subseteq BrReg /\ Pulse \cap DOMAIN s = {"btx_rd"}
          /\ s.pos = br.pos + 1 /\ s.lane = 0 /\ s.pack = EmptyPack /\ s.btx_addr = br.pos + 1
          /\ s.btx_rd = TRUE /\ s.st = "S_TX_FETCH"
      BY DEF BrReg, Pulse
    <2> HIDE DEF s
    <2>3. /\ Only({"st", "pos", "lane", "pack", "btx_addr"})
          /\ \A x \in DOMAIN s \cap BrReg : br'[x] = s[x]
          /\ \A x \in Pulse \ DOMAIN s : br'[x] = FALSE
      BY <2>1, <2>2, MovesIs
    <2>4. Pulses({"btx_rd"})
      BY <2>2, <2>3 DEF Pulses
    <2> QED BY <2>2, <2>3, <2>4 DEF EffPack
  <1>4. ASSUME br.st = "S_TX_WPTR" PROVE EffWptr
    <2> DEFINE r == [tx_wptr |-> br.tx_wptr + 1, btx_done |-> TRUE, drop_seen |-> TRUE]
    <2>1. Moves(r ++ ddr_op(TRUE, A("TXWPTR"), br.tx_wptr + 1, "S_IDLE"))
      BY <1>4 DEF Step, State, TxWptr
    <2>2. /\ DOMAIN r \cap BrReg = {"tx_wptr", "btx_done"} /\ DOMAIN r \cap OpReg = {}
          /\ Pulse \cap DOMAIN r = {"btx_done"} /\ r.tx_wptr = br.tx_wptr + 1 /\ r.btx_done = TRUE
      BY DEF BrReg, Pulse, OpReg
    <2> HIDE DEF r
    <2>3. /\ Starts(TRUE, A("TXWPTR"), br.tx_wptr + 1, "S_IDLE") /\ Only({"tx_wptr"} \cup OpReg)
          /\ \A x \in DOMAIN r \cap BrReg : br'[x] = r[x]
          /\ \A x \in Pulse \ DOMAIN r : br'[x] = FALSE
      BY <2>1, <2>2, MovesOp
    <2>4. Pulses({"btx_done"})
      BY <2>2, <2>3 DEF Pulses
    <2> QED BY <2>2, <2>3, <2>4 DEF EffWptr
  <1>5. ASSUME br.st = "S_MAC" PROVE EffMac
    <2> DEFINE r == [mac_last |-> mac.enet_mac, mac_dirty |-> FALSE]
    <2>1. Moves(r ++ ddr_op(TRUE, A("MAC"), mac.enet_mac, "S_IDLE"))
      BY <1>5 DEF Step, State, PublishMac
    <2>2. /\ DOMAIN r \cap BrReg = {} /\ DOMAIN r \cap OpReg = {} /\ Pulse \cap DOMAIN r = {}
      BY DEF BrReg, Pulse, OpReg
    <2> HIDE DEF r
    <2>3. /\ Starts(TRUE, A("MAC"), mac.enet_mac, "S_IDLE") /\ Only({} \cup OpReg)
          /\ \A x \in Pulse \ DOMAIN r : br'[x] = FALSE
      BY <2>1, <2>2, MovesOp
    <2>4. Only(OpReg) /\ Pulses({})
      BY <2>2, <2>3 DEF Pulses, Only
    <2> QED BY <2>3, <2>4 DEF EffMac
  <1> QED BY <1>1, <1>2, <1>3, <1>4, <1>5

(* What the states of a reception assign.                                  *)
LEMMA RxEffects ==
  ASSUME NEW poll_tick, Moves(Step(poll_tick))
  PROVE  /\ br.st = "S_RX_POLL" => EffPoll
         /\ br.st = "S_RX_HDR" => EffRxHdr
         /\ br.st = "S_RX_READ" => EffRead
         /\ br.st = "S_RX_STREAM" => EffStream
         /\ br.st = "S_RX_RPTR" => EffRptr
  <1>1. ASSUME br.st = "S_RX_POLL" PROVE EffPoll
    <2> DEFINE r == [rx_wptr |-> br.op_rdata]
               g == [st |-> "S_IDLE"]
    <2>1. \/ br.op_rdata # br.rx_rptr /\ Moves(r ++ ddr_op(FALSE, RxWord(br.rx_rptr, 0), 0, "S_RX_HDR"))
          \/ Moves(r ++ g)
      BY <1>1 DEF Step, State, RxPoll
    <2>2. /\ DOMAIN r \cap BrReg = {} /\ DOMAIN r \cap OpReg = {} /\ DOMAIN r = {"rx_wptr"}
          /\ DOMAIN g = {"st"} /\ g.st = "S_IDLE" /\ "st" \in BrReg
          /\ Pulse \cap {"st", "rx_wptr"} = {}
      BY DEF BrReg, Pulse, OpReg
    <2> HIDE DEF r, g
    <2>3. ASSUME Moves(r ++ ddr_op(FALSE, RxWord(br.rx_rptr, 0), 0, "S_RX_HDR"))
          PROVE  Starts(FALSE, RxWord(br.rx_rptr, 0), 0, "S_RX_HDR") /\ Only(OpReg) /\ Pulses({})
      <3>1. /\ Starts(FALSE, RxWord(br.rx_rptr, 0), 0, "S_RX_HDR") /\ Only({} \cup OpReg)
            /\ \A x \in Pulse \ DOMAIN r : br'[x] = FALSE
        BY <2>2, <2>3, MovesOp
      <3> QED BY <2>2, <3>1 DEF Pulses, Only
    <2>4. ASSUME Moves(r ++ g) PROVE Only({"st"}) /\ br'.st = "S_IDLE" /\ Pulses({})
      <3>0. /\ DOMAIN r \cap DOMAIN g = {}
            /\ (DOMAIN r \cup DOMAIN g) \cap BrReg \subseteq {"st"} \cup Pulse
        BY <2>2, <2>4
      <3>1. /\ Only({"st"}) /\ \A x \in DOMAIN g \cap BrReg : br'[x] = g[x]
            /\ \A x \in Pulse \ (DOMAIN r \cup DOMAIN g) : br'[x] = FALSE
        BY <2>4, <3>0, MovesBoth
      <3>2. Pulses({})
        BY <2>2, <3>1 DEF Pulses
      <3> QED BY <2>2, <3>1, <3>2
    <2> QED BY <2>1, <2>3, <2>4 DEF EffPoll
  <1>2. ASSUME br.st = "S_RX_HDR" PROVE EffRxHdr
    <2> DEFINE r == [cur_len |-> br.op_rdata, pos |-> 0]
               g == [st |-> "S_RX_RPTR"]
               h == [brx_start |-> TRUE, brx_len |-> br.op_rdata]
               o == ddr_op(FALSE, RxWord(br.rx_rptr, 1), 0, "S_RX_READ")
    <2>1. \/ Moves(r ++ g)
          \/ br.op_rdata # 0 /\ ~(br.op_rdata > MaxFrame) /\ Moves(r ++ (h ++ o))
      BY <1>2 DEF Step, State, RxHdr
    <2>2. /\ DOMAIN r = {"cur_len", "pos"} /\ r.cur_len = br.op_rdata /\ r.pos = 0
          /\ DOMAIN g = {"st"} /\ g.st = "S_RX_RPTR"
          /\ DOMAIN h = {"brx_start", "brx_len"} /\ h.brx_start = TRUE /\ h.brx_len = br.op_rdata
          /\ {"st", "cur_len", "pos", "brx_start", "brx_len"} \subseteq BrReg
          /\ Pulse \cap {"st", "cur_len", "pos", "brx_start", "brx_len"} = {"brx_start"}
          /\ {"cur_len", "pos", "brx_start", "brx_len"} \cap OpReg = {}
      BY DEF BrReg, Pulse, OpReg
    <2> HIDE DEF r, g, h, o
    <2>3. ASSUME Moves(r ++ g)
          PROVE  /\ br'.cur_len = br.op_rdata /\ br'.pos = 0 /\ br'.st = "S_RX_RPTR"
                 /\ Only({"st", "cur_len", "pos"}) /\ Pulses({})
      <3>0. /\ DOMAIN r \cap DOMAIN g = {}
            /\ (DOMAIN r \cup DOMAIN g) \cap BrReg \subseteq {"st", "cur_len", "pos"} \cup Pulse
        BY <2>2, <2>3
      <3>1. /\ Only({"st", "cur_len", "pos"})
            /\ \A x \in DOMAIN r \cap BrReg : br'[x] = r[x]
            /\ \A x \in DOMAIN g \cap BrReg : br'[x] = g[x]
            /\ \A x \in Pulse \ (DOMAIN r \cup DOMAIN g) : br'[x] = FALSE
        BY <2>3, <3>0, MovesBoth
      <3>2. Pulses({})
        BY <2>2, <3>1 DEF Pulses
      <3> QED BY <2>2, <3>1, <3>2
    <2>4. ASSUME Moves(r ++ (h ++ o))
          PROVE  /\ br'.cur_len = br.op_rdata /\ br'.pos = 0 /\ br'.brx_len = br.op_rdata
                 /\ Starts(FALSE, RxWord(br.rx_rptr, 1), 0, "S_RX_READ")
                 /\ Only({"cur_len", "pos", "brx_len"} \cup OpReg) /\ Pulses({"brx_start"})
      <3> DEFINE q == r ++ h
      <3>1. \A x, v : Val(r ++ (h ++ o), x, v) = Val(q ++ o, x, v)
        <4>1. \A x, v : Val(r ++ (h ++ o), x, v) = Val(r, x, Val(h ++ o, x, v))
          BY ValOver
        <4>2. \A x, v : Val(h ++ o, x, v) = Val(h, x, Val(o, x, v))
          BY ValOver
        <4>3. \A x, v : Val(q ++ o, x, v) = Val(q, x, Val(o, x, v))
          BY ValOver
        <4>4. \A x, v : Val(q, x, v) = Val(r, x, Val(h, x, v))
          BY ValOver
        <4> QED BY <4>1, <4>2, <4>3, <4>4
      <3>2. /\ DOMAIN q = {"cur_len", "pos", "brx_start", "brx_len"}
            /\ q["cur_len"] = br.op_rdata /\ q["pos"] = 0
            /\ q["brx_start"] = TRUE /\ q["brx_len"] = br.op_rdata
        BY <2>2, OverIs
      <3> HIDE DEF q
      <3>3. Moves(q ++ o)
        BY <2>4, <3>1 DEF Moves
      <3>4. DOMAIN q \cap OpReg = {} /\ DOMAIN q \cap BrReg \subseteq {"cur_len", "pos", "brx_len"} \cup Pulse
        BY <2>2, <3>2
      <3>5. /\ Starts(FALSE, RxWord(br.rx_rptr, 1), 0, "S_RX_READ")
            /\ Only({"cur_len", "pos", "brx_len"} \cup OpReg)
            /\ \A x \in DOMAIN q \cap BrReg : br'[x] = q[x]
            /\ \A x \in Pulse \ DOMAIN q : br'[x] = FALSE
        BY <3>3, <3>4, MovesOp DEF o
      <3>6. Pulses({"brx_start"})
        BY <2>2, <3>2, <3>5 DEF Pulses
      <3> QED BY <2>2, <3>2, <3>5, <3>6
    <2> QED BY <2>1, <2>3, <2>4 DEF EffRxHdr
  <1>3. ASSUME br.st = "S_RX_READ" PROVE EffRead
    <2> DEFINE s == [pack |-> br.op_rdata, lane |-> 0, st |-> "S_RX_STREAM"]
    <2>1. Moves(s)
      BY <1>3 DEF Step, State
    <2>2. /\ DOMAIN s = {"pack", "lane", "st"} /\ DOMAIN s \subseteq BrReg /\ Pulse \cap DOMAIN s = {}
          /\ s.pack = br.op_rdata /\ s.lane = 0 /\ s.st = "S_RX_STREAM"
      BY DEF BrReg, Pulse
    <2> HIDE DEF s
    <2>3. /\ Only({"st", "pack", "lane"})
          /\ \A x \in DOMAIN s \cap BrReg : br'[x] = s[x]
          /\ \A x \in Pulse \ DOMAIN s : br'[x] = FALSE
      BY <2>1, <2>2, MovesIs
    <2>4. Pulses({})
      BY <2>2, <2>3 DEF Pulses
    <2> QED BY <2>2, <2>3, <2>4 DEF EffRead
  <1>4. ASSUME br.st = "S_RX_STREAM" PROVE EffStream
    <2> DEFINE r == [brx_valid |-> TRUE, brx_data |-> br.pack[br.lane], pos |-> br.pos + 1]
               g == [st |-> "S_RX_RPTR"]
               h == [lane |-> br.lane + 1]
    <2>1. \/ br.pos + 1 >= br.cur_len /\ Moves(r ++ g)
          \/ /\ ~(br.pos + 1 >= br.cur_len) /\ br.lane = Lanes - 1
             /\ Moves(r ++ ddr_op(FALSE, RxWord(br.rx_rptr, 2 + Row), 0, "S_RX_READ"))
          \/ ~(br.pos + 1 >= br.cur_len) /\ br.lane # Lanes - 1 /\ Moves(r ++ h)
      BY <1>4 DEF Step, State, RxStream, Row
    <2>2. /\ DOMAIN r = {"brx_valid", "brx_data", "pos"} /\ r.brx_valid = TRUE
          /\ r.brx_data = br.pack[br.lane] /\ r.pos = br.pos + 1
          /\ DOMAIN g = {"st"} /\ g.st = "S_RX_RPTR" /\ DOMAIN h = {"lane"} /\ h.lane = br.lane + 1
          /\ {"brx_valid", "brx_data", "pos", "st", "lane"} \subseteq BrReg
          /\ Pulse \cap {"brx_valid", "brx_data", "pos", "st", "lane"} = {"brx_valid"}
          /\ {"brx_valid", "brx_data", "pos"} \cap OpReg = {}
      BY DEF BrReg, Pulse, OpReg
    <2> HIDE DEF r, g, h
    <2> DEFINE Sets == br'.pos = br.pos + 1 /\ br'.brx_data = br.pack[br.lane] /\ Pulses({"brx_valid"})
    <2>3. ASSUME Moves(r ++ g)
          PROVE  Sets /\ Only({"st", "pos", "brx_data"}) /\ br'.st = "S_RX_RPTR"
      <3>0. /\ DOMAIN r \cap DOMAIN g = {}
            /\ (DOMAIN r \cup DOMAIN g) \cap BrReg \subseteq {"st", "pos", "brx_data"} \cup Pulse
        BY <2>2, <2>3
      <3>1. /\ Only({"st", "pos", "brx_data"})
            /\ \A x \in DOMAIN r \cap BrReg : br'[x] = r[x]
            /\ \A x \in DOMAIN g \cap BrReg : br'[x] = g[x]
            /\ \A x \in Pulse \ (DOMAIN r \cup DOMAIN g) : br'[x] = FALSE
        BY <2>3, <3>0, MovesBoth
      <3>2. Pulses({"brx_valid"})
        BY <2>2, <3>1 DEF Pulses
      <3> QED BY <2>2, <3>1, <3>2
    <2>4. ASSUME Moves(r ++ h)
          PROVE  Sets /\ Only({"pos", "brx_data", "lane"}) /\ br'.lane = br.lane + 1
      <3>0. /\ DOMAIN r \cap DOMAIN h = {}
            /\ (DOMAIN r \cup DOMAIN h) \cap BrReg \subseteq {"pos", "brx_data", "lane"} \cup Pulse
        BY <2>2, <2>4
      <3>1. /\ Only({"pos", "brx_data", "lane"})
            /\ \A x \in DOMAIN r \cap BrReg : br'[x] = r[x]
            /\ \A x \in DOMAIN h \cap BrReg : br'[x] = h[x]
            /\ \A x \in Pulse \ (DOMAIN r \cup DOMAIN h) : br'[x] = FALSE
        BY <2>4, <3>0, MovesBoth
      <3>2. Pulses({"brx_valid"})
        BY <2>2, <3>1 DEF Pulses
      <3> QED BY <2>2, <3>1, <3>2
    <2>5. ASSUME Moves(r ++ ddr_op(FALSE, RxWord(br.rx_rptr, 2 + Row), 0, "S_RX_READ"))
          PROVE  /\ Sets /\ Only({"pos", "brx_data"} \cup OpReg)
                 /\ Starts(FALSE, RxWord(br.rx_rptr, 2 + Row), 0, "S_RX_READ")
      <3>0. DOMAIN r \cap OpReg = {} /\ DOMAIN r \cap BrReg \subseteq {"pos", "brx_data"} \cup Pulse
        BY <2>2
      <3>1. /\ Starts(FALSE, RxWord(br.rx_rptr, 2 + Row), 0, "S_RX_READ")
            /\ Only({"pos", "brx_data"} \cup OpReg)
            /\ \A x \in DOMAIN r \cap BrReg : br'[x] = r[x]
            /\ \A x \in Pulse \ DOMAIN r : br'[x] = FALSE
        BY <2>5, <3>0, MovesOp
      <3>2. Pulses({"brx_valid"})
        BY <2>2, <3>1 DEF Pulses
      <3> QED BY <2>2, <3>1, <3>2
    <2> QED BY <2>1, <2>3, <2>4, <2>5 DEF EffStream
  <1>5. ASSUME br.st = "S_RX_RPTR" PROVE EffRptr
    <2> DEFINE r == [rx_rptr |-> br.rx_rptr + 1]
    <2>1. Moves(r ++ ddr_op(TRUE, A("RXRPTR"), br.rx_rptr + 1, "S_IDLE"))
      BY <1>5 DEF Step, State, RxRptr
    <2>2. /\ DOMAIN r = {"rx_rptr"} /\ "rx_rptr" \in BrReg /\ DOMAIN r \cap OpReg = {}
          /\ Pulse \cap DOMAIN r = {} /\ r.rx_rptr = br.rx_rptr + 1
      BY DEF BrReg, Pulse, OpReg
    <2> HIDE DEF r
    <2>3. /\ Starts(TRUE, A("RXRPTR"), br.rx_rptr + 1, "S_IDLE") /\ Only({"rx_rptr"} \cup OpReg)
          /\ \A x \in DOMAIN r \cap BrReg : br'[x] = r[x]
          /\ \A x \in Pulse \ DOMAIN r : br'[x] = FALSE
      BY <2>1, <2>2, MovesOp
    <2>4. Pulses({})
      BY <2>2, <2>3 DEF Pulses
    <2> QED BY <2>2, <2>3, <2>4 DEF EffRptr
  <1> QED BY <1>1, <1>2, <1>3, <1>4, <1>5

(* What S_WAIT assigns.                                                    *)
LEMMA WaitEffects ==
  ASSUME NEW poll_tick, Moves(Step(poll_tick)), br.st = "S_WAIT"
  PROVE  EffWait
  <1> DEFINE r == IF br.op_we THEN <<>> ELSE [op_rdata |-> Rdata]
             g == [m_req |-> FALSE, st |-> br.ret]
  <1>1. (~box_ack /\ Moves(<<>>)) \/ (box_ack /\ Moves(r ++ g))
    BY DEF Step, State, Wait
  <1>2. ~br.op_we => r.op_rdata = Rdata /\ "op_rdata" \in DOMAIN r
    OBVIOUS
  <1>3. DOMAIN r \subseteq {"op_rdata"}
    BY NoAssignment
  <1>4. /\ DOMAIN g = {"m_req", "st"} /\ g.m_req = FALSE /\ g.st = br.ret
        /\ {"m_req", "st", "op_rdata"} \subseteq BrReg /\ Pulse \cap {"m_req", "st", "op_rdata"} = {}
    BY DEF BrReg, Pulse
  <1> HIDE DEF r, g
  <1>5. ASSUME Moves(r ++ g)
        PROVE  /\ Only({"st", "m_req", "op_rdata"}) /\ br'.st = br.ret /\ br'.m_req = FALSE
               /\ ~br.op_we => br'.op_rdata = Rdata
               /\ Pulses({})
    <2>0. /\ DOMAIN r \cap DOMAIN g = {}
          /\ (DOMAIN r \cup DOMAIN g) \cap BrReg \subseteq {"st", "m_req", "op_rdata"} \cup Pulse
      BY <1>3, <1>4, <1>5
    <2>1. /\ Only({"st", "m_req", "op_rdata"})
          /\ \A x \in DOMAIN r \cap BrReg : br'[x] = r[x]
          /\ \A x \in DOMAIN g \cap BrReg : br'[x] = g[x]
          /\ \A x \in Pulse \ (DOMAIN r \cup DOMAIN g) : br'[x] = FALSE
      BY <1>5, <2>0, MovesBoth
    <2>2. Pulses({})
      BY <1>3, <1>4, <2>1 DEF Pulses
    <2> QED BY <1>2, <1>4, <2>1, <2>2
  <1> QED BY <1>1, <1>5, MovesNone DEF EffWait

-----------------------------------------------------------------------------
(* Sizes, slots, words and addresses.                                      *)

(* The sizes of the mailbox and of the buffer.                             *)
LEMMA Sizes ==
  /\ Lanes \in Nat \ {0} /\ Slots \in Nat \ {0} /\ MaxFrame \in Nat \ {0}
  /\ BufLen \in Nat \ {0} /\ CrcLen \in Nat /\ Trail \in Nat /\ MaxFrame <= BufLen
  BY SizeAssumption, BridgeAssumption, LinkAssumption

(* Division by a symbolic divisor.                                         *)
LEMMA DivUnique ==
  ASSUME NEW d \in Nat \ {0}, NEW n \in Nat, NEW q \in Int, NEW r \in 0 .. (d - 1),
         n = d * q + r
  PROVE  n \div d = q /\ n % d = r
  <1> DEFINE p == n \div d
             s == n % d
  <1>1. p \in Int /\ s \in 0 .. (d - 1) /\ n = (d * p) + s
    OBVIOUS
  <1> HIDE DEF p, s
  <1>2. d * (q - p) = s - r
    BY <1>1
  <1>3. \A k \in Int : k >= 1 => d * k >= d
    OBVIOUS
  <1>4. \A k \in Int : k <= -1 => d * k <= -d
    OBVIOUS
  <1>5. q - p = 0
    BY <1>1, <1>2, <1>3, <1>4
  <1>6. s = r
    BY <1>1, <1>2, <1>5
  <1> QED BY <1>1, <1>5, <1>6 DEF p, s

LEMMA DivIs ==
  ASSUME NEW d \in Nat \ {0}, NEW n \in Nat
  PROVE  n \div d \in Nat /\ n % d \in 0 .. (d - 1) /\ n = d * (n \div d) + (n % d)
  <1> DEFINE p == n \div d
             s == n % d
  <1>1. p \in Int /\ s \in 0 .. (d - 1) /\ n = (d * p) + s
    OBVIOUS
  <1> HIDE DEF p, s
  <1>2. \A k \in Int : k <= -1 => d * k <= -d
    OBVIOUS
  <1>3. p >= 0
    BY <1>1, <1>2
  <1> QED BY <1>1, <1>3 DEF p, s

LEMMA DivZero ==
  ASSUME NEW d \in Nat \ {0}
  PROVE  0 \div d = 0 /\ 0 % d = 0
  BY DivUnique

(* From one byte to the next.                                              *)
LEMMA DivNext ==
  ASSUME NEW d \in Nat \ {0}, NEW n \in Nat
  PROVE  /\ n % d = d - 1 => (n + 1) \div d = n \div d + 1 /\ (n + 1) % d = 0
         /\ n % d # d - 1 => (n + 1) \div d = n \div d /\ (n + 1) % d = (n % d) + 1
  <1> DEFINE p == n \div d
             s == n % d
  <1>1. p \in Nat /\ s \in 0 .. (d - 1) /\ n = d * p + s
    BY DivIs
  <1> HIDE DEF p, s
  <1>2. ASSUME s = d - 1 PROVE (n + 1) \div d = p + 1 /\ (n + 1) % d = 0
    <2>1. n + 1 = d * (p + 1) + 0 /\ 0 \in 0 .. (d - 1) /\ p + 1 \in Int /\ n + 1 \in Nat
      BY <1>1, <1>2
    <2> QED BY <2>1, DivUnique
  <1>3. ASSUME s # d - 1 PROVE (n + 1) \div d = p /\ (n + 1) % d = s + 1
    <2>1. n + 1 = d * p + (s + 1) /\ s + 1 \in 0 .. (d - 1) /\ p \in Int /\ n + 1 \in Nat
      BY <1>1, <1>3
    <2> QED BY <2>1, DivUnique
  <1> QED BY <1>2, <1>3 DEF p, s

(* Division is monotonic.                                                  *)
LEMMA DivMono ==
  ASSUME NEW d \in Nat \ {0}, NEW n \in Nat, NEW m \in Nat, m <= n
  PROVE  m \div d <= n \div d
  <1> DEFINE p == n \div d
             s == n % d
             q == m \div d
             r == m % d
  <1>1. p \in Nat /\ s \in 0 .. (d - 1) /\ n = d * p + s
    BY DivIs
  <1>2. q \in Nat /\ r \in 0 .. (d - 1) /\ m = d * q + r
    BY DivIs
  <1> HIDE DEF p, s, q, r
  <1>3. d * (q - p) <= s - r
    BY <1>1, <1>2
  <1>4. \A k \in Int : k >= 1 => d * k >= d
    OBVIOUS
  <1>5. q <= p
    BY <1>1, <1>2, <1>3, <1>4
  <1> QED BY <1>5 DEF p, q

(* A byte is known by its word and its lane.                               *)
LEMMA DivSame ==
  ASSUME NEW d \in Nat \ {0}, NEW n \in Nat, NEW m \in Nat,
         m \div d = n \div d, m % d = n % d
  PROVE  m = n
  BY DivIs

(* Slots apart by less than the ring are different.                        *)
LEMMA ModApart ==
  ASSUME NEW d \in Nat \ {0}, NEW n \in Nat, NEW m \in Nat, m < n, n < m + d
  PROVE  m % d # n % d
  <1> DEFINE p == n \div d
             s == n % d
             q == m \div d
             r == m % d
  <1>1. p \in Nat /\ s \in 0 .. (d - 1) /\ n = d * p + s
    BY DivIs
  <1>2. q \in Nat /\ r \in 0 .. (d - 1) /\ m = d * q + r
    BY DivIs
  <1> HIDE DEF p, s, q, r
  <1>3. ASSUME s = r PROVE FALSE
    <2>1. d * (p - q) > 0 /\ d * (p - q) < d
      BY <1>1, <1>2, <1>3
    <2>2. \A k \in Int : k >= 1 => d * k >= d
      OBVIOUS
    <2>3. \A k \in Int : k <= 0 => d * k <= 0
      OBVIOUS
    <2> QED BY <1>1, <1>2, <2>1, <2>2, <2>3
  <1> QED BY <1>3 DEF s, r

(* Every byte of a frame has a word of the slot.                           *)
LEMMA WordIn ==
  ASSUME NEW i \in Nat, i < MaxFrame
  PROVE  1 + i \div Lanes \in 1 .. Words
  <1> DEFINE L == Lanes
             n == MaxFrame + L - 1
             p == n \div L
             s == n % L
             q == i \div L
             r == i % L
  <1>0. L \in Nat \ {0} /\ MaxFrame \in Nat \ {0} /\ n \in Nat
    BY Sizes
  <1>1. p \in Nat /\ s \in 0 .. (L - 1) /\ n = L * p + s
    BY <1>0, DivIs
  <1>2. q \in Nat /\ r \in 0 .. (L - 1) /\ i = L * q + r
    BY <1>0, DivIs
  <1>3. Words = p
    BY DEF Words
  <1>4. n >= i + L
    BY <1>0
  <1> HIDE DEF p, s, q, r, n
  <1>5. L * (q + 1 - p) <= s - r
    BY <1>0, <1>1, <1>2, <1>4
  <1>6. \A k \in Int : k >= 1 => L * k >= L
    BY <1>0
  <1>7. q + 1 <= p
    BY <1>0, <1>1, <1>2, <1>5, <1>6
  <1> QED BY <1>0, <1>2, <1>3, <1>7 DEF q

(* The mailbox.                                                            *)
Kind == {"MAGIC", "TXWPTR", "RXWPTR", "RXRPTR", "MAC"}

(* The words of the mailbox are apart.                                     *)
LEMMA Addresses ==
  /\ \A k \in Kind : A(k) \in MailboxWord /\ A(k)[1] = k
  /\ \A p \in Nat : \A w \in 0 .. Words :
       TxWord(p, w) \in MailboxWord /\ RxWord(p, w) \in MailboxWord
  /\ \A p, q, v, w :
       /\ TxWord(p, w) = TxWord(q, v) <=> (p % Slots = q % Slots /\ w = v)
       /\ RxWord(p, w) = RxWord(q, v) <=> (p % Slots = q % Slots /\ w = v)
       /\ TxWord(p, w) # RxWord(q, v)
  /\ \A k \in Kind : \A p, w : TxWord(p, w) # A(k) /\ RxWord(p, w) # A(k)
  /\ \A j, k \in Kind : A(j) = A(k) => j = k
  <1>1. \A k \in Kind : A(k) \in MailboxWord /\ A(k)[1] = k
    BY DEF A, Kind, MailboxWord
  <1>2. ASSUME NEW p \in Nat, NEW w \in 0 .. Words
        PROVE  TxWord(p, w) \in MailboxWord /\ RxWord(p, w) \in MailboxWord
    <2>1. p % Slots \in 0 .. (Slots - 1)
      BY Sizes, DivIs
    <2> QED BY <2>1 DEF TxWord, RxWord, MailboxWord
  <1>3. ASSUME NEW p, NEW q, NEW v, NEW w
        PROVE  /\ TxWord(p, w) = TxWord(q, v) <=> (p % Slots = q % Slots /\ w = v)
               /\ RxWord(p, w) = RxWord(q, v) <=> (p % Slots = q % Slots /\ w = v)
               /\ TxWord(p, w) # RxWord(q, v)
    BY DEF TxWord, RxWord
  <1>4. ASSUME NEW k \in Kind, NEW p, NEW w PROVE TxWord(p, w) # A(k) /\ RxWord(p, w) # A(k)
    <2>1. TxWord(p, w)[1] = "TX" /\ RxWord(p, w)[1] = "RX"
      BY DEF TxWord, RxWord
    <2> QED BY <1>1, <2>1 DEF Kind
  <1>5. \A j, k \in Kind : A(j) = A(k) => j = k
    BY <1>1
  <1> QED BY <1>1, <1>2, <1>3, <1>4, <1>5

(* The transmit frames.                                                    *)
LEMMA FrameFacts ==
  ASSUME NEW k \in 1 .. TxFrames
  PROVE  /\ TxEnd[k] \in Nat /\ TxEnd[k + 1] \in Nat /\ TxEnd[k + 1] = TxEnd[k] + TxLen(k)
         /\ TxLen(k) \in Nat /\ 0 < TxLen(k) /\ TxLen(k) <= BufLen
         /\ WireLen(k) \in Nat /\ 0 < WireLen(k) /\ WireLen(k) <= TxLen(k) /\ WireLen(k) <= MaxFrame
  <1>1. TxEnd \in Seq(0 .. RamTop) /\ RamTop \in Nat
    BY LinkAssumption, SizeAssumption
  <1>2. Len(TxEnd) \in Nat /\ \A i \in 1 .. Len(TxEnd) : TxEnd[i] \in 0 .. RamTop
    BY <1>1
  <1>3. k \in 1 .. Len(TxEnd) /\ k + 1 \in 1 .. Len(TxEnd)
    BY <1>2 DEF TxFrames
  <1>4. TxEnd[k] \in Nat /\ TxEnd[k + 1] \in Nat
    BY <1>1, <1>2, <1>3
  <1>5. TxLen(k) \in 1 .. BufLen /\ WireLen(k) <= MaxFrame
    BY LinkAssumption
  <1>6. TxEnd[k + 1] = TxEnd[k] + TxLen(k)
    BY <1>4 DEF TxLen
  <1>7. WireLen(k) \in Nat /\ 0 < WireLen(k) /\ WireLen(k) <= TxLen(k)
    BY <1>5, Sizes DEF WireLen
  <1> QED BY <1>4, <1>5, <1>6, <1>7, Sizes

-----------------------------------------------------------------------------
(* BridgeInv.                                                              *)

(* What an answer of the mailbox does.                                     *)
LEMMA AccessIs ==
  ASSUME BoxInv, NEW answer \in BOOLEAN, Access(answer)
  PROVE  /\ box' = [w \in MailboxWord |-> box'[w]]
         /\ ~(answer /\ br.m_we) => box' = box
         /\ answer /\ br.m_we =>
              /\ \A w \in MailboxWord : w # br.m_addr => box'[w] = box[w]
              /\ br.m_addr \in MailboxWord => box'[br.m_addr] = br.m_wdata
         /\ answer /\ br.m_we /\ br.m_addr = A("MAGIC") /\ br.m_wdata => ours' /\ gen_base' = pushed
         /\ ~(answer /\ br.m_we /\ br.m_addr = A("MAGIC") /\ br.m_wdata) =>
              (ours' <=> ours) /\ gen_base' = gen_base
  <1>1. box = [w \in MailboxWord |-> box[w]]
    BY DEF BoxInv
  <1>2. CASE answer /\ br.m_we
    <2>1. box' = [box EXCEPT ![br.m_addr] = br.m_wdata]
      BY <1>2 DEF Access
    <2>2. box' = [w \in MailboxWord |-> IF w = br.m_addr THEN br.m_wdata ELSE box[w]]
      BY <1>1, <2>1
    <2> QED BY <1>2, <2>2 DEF Access
  <1>3. CASE ~(answer /\ br.m_we)
    <2>1. box' = box
      BY <1>3 DEF Access
    <2> QED BY <1>1, <1>3, <2>1 DEF Access
  <1> QED BY <1>2, <1>3

(* The states of the bridge.                                               *)
LEMMA States ==
  ASSUME br.st \in BState
  PROVE  \/ br.st \in InitState \cup {"S_OFF", "S_INIT_CLEAR", "S_IDLE", "S_MAC", "S_WAIT"}
         \/ br.st \in TxState \cup RxState
  BY DEF BState, InitState, TxState, RxState

(* The registers a clock leaves alone, and the pulses it gives, by name.   *)
LEMMA OnlyIs ==
  ASSUME NEW X, Only(X)
  PROVE  /\ "st" \notin X => br'.st = br.st
         /\ "ret" \notin X => br'.ret = br.ret
         /\ "m_req" \notin X => br'.m_req = br.m_req
         /\ "m_we" \notin X => br'.m_we = br.m_we
         /\ "m_addr" \notin X => br'.m_addr = br.m_addr
         /\ "m_wdata" \notin X => br'.m_wdata = br.m_wdata
         /\ "op_we" \notin X => br'.op_we = br.op_we
         /\ "op_rdata" \notin X => br'.op_rdata = br.op_rdata
         /\ "tx_wptr" \notin X => br'.tx_wptr = br.tx_wptr
         /\ "rx_rptr" \notin X => br'.rx_rptr = br.rx_rptr
         /\ "pos" \notin X => br'.pos = br.pos
         /\ "lane" \notin X => br'.lane = br.lane
         /\ "pack" \notin X => br'.pack = br.pack
         /\ "cur_len" \notin X => br'.cur_len = br.cur_len
         /\ "btx_addr" \notin X => br'.btx_addr = br.btx_addr
         /\ "brx_len" \notin X => br'.brx_len = br.brx_len
         /\ "brx_data" \notin X => br'.brx_data = br.brx_data
  <1>1. \A x \in BrReg \ Pulse : x \notin X => br'[x] = br[x]
    BY DEF Only
  <1>2. {"st", "ret", "m_req", "m_we", "m_addr", "m_wdata", "op_we", "op_rdata", "tx_wptr", "rx_rptr", "pos", "lane", "pack", "cur_len", "btx_addr", "brx_len", "brx_data"} \subseteq BrReg \ Pulse
    BY DEF BrReg, Pulse
  <1> QED BY <1>1, <1>2

(* A pulse is up just when it has been assigned.                           *)
LEMMA PulseIs ==
  ASSUME NEW X, Pulses(X)
  PROVE  /\ br'.btx_rd \in BOOLEAN /\ br'.btx_done \in BOOLEAN
         /\ br'.brx_start \in BOOLEAN /\ br'.brx_valid \in BOOLEAN
         /\ br'.btx_rd <=> "btx_rd" \in X
         /\ br'.btx_done <=> "btx_done" \in X
         /\ br'.brx_start <=> "brx_start" \in X
         /\ br'.brx_valid <=> "brx_valid" \in X
  BY DEF Pulses, Pulse

(* The pointers and counters of the bridge.                                *)
BrTypes ==
    /\ BrReg \subseteq DOMAIN br
    /\ br.tx_wptr \in Nat /\ br.rx_rptr \in Nat /\ br.pos \in Nat /\ br.lane \in 0 .. (Lanes - 1)

(* The next state is one of the bridge's, with no operation under way and  *)
(* no pulse but one for the state.                                         *)
LEMMA GoesNext ==
  ASSUME BrTypes', box_ack' = FALSE, br'.st \in BState \ {"S_WAIT"}, br'.m_req = FALSE,
         NEW X, Pulses(X),
         \/ X = {}
         \/ X = {"btx_done"} /\ br'.st \in {"S_OFF", "S_INIT_CLEAR"}
         \/ X = {"btx_rd"} /\ br'.st = "S_TX_FETCH" /\ br'.btx_addr = br'.pos
         \/ X = {"brx_valid"} /\ br'.st \in {"S_RX_STREAM", "S_RX_RPTR"},
         br'.st = "S_RX_READ" => br'.pos % Lanes = 0,
         br'.st = "S_RX_STREAM" => br'.lane = br'.pos % Lanes
  PROVE  BridgeInv'
  <1>1. /\ br'.btx_rd \in BOOLEAN /\ br'.btx_done \in BOOLEAN
        /\ br'.brx_start \in BOOLEAN /\ br'.brx_valid \in BOOLEAN
        /\ br'.btx_rd => br'.st = "S_TX_FETCH" /\ br'.btx_addr = br'.pos
        /\ br'.btx_done => br'.st \in {"S_OFF", "S_INIT_CLEAR"}
        /\ ~br'.brx_start
        /\ br'.brx_valid => br'.st \in {"S_RX_STREAM", "S_RX_RPTR"}
    BY PulseIs
  <1> QED BY <1>1 DEF BridgeInv, BrTypes, Phase

(* An operation is started.                                                *)
LEMMA StartsNext ==
  ASSUME NEW we, NEW a, NEW d, NEW nxt, nxt \in RetState, Starts(we, a, d, nxt), Operation',
         BrTypes', box_ack' = FALSE, NEW X, Pulses(X),
         \/ X = {}
         \/ X = {"btx_done"} /\ nxt = "S_IDLE" /\ a = A("TXWPTR")
         \/ X = {"brx_start"} /\ nxt = "S_RX_READ" /\ br'.pos = 0
         \/ X = {"brx_valid"} /\ nxt = "S_RX_READ",
         nxt = "S_RX_READ" => br'.pos % Lanes = 0
  PROVE  BridgeInv'
  <1>1. br'.st = "S_WAIT" /\ br'.ret = nxt /\ br'.m_addr = a /\ br'.m_req = TRUE
    BY DEF Starts
  <1>2. /\ br'.btx_rd \in BOOLEAN /\ br'.btx_done \in BOOLEAN
        /\ br'.brx_start \in BOOLEAN /\ br'.brx_valid \in BOOLEAN
        /\ ~br'.btx_rd
        /\ br'.btx_done => nxt = "S_IDLE" /\ a = A("TXWPTR")
        /\ br'.brx_start => nxt = "S_RX_READ" /\ br'.pos = 0 /\ ~br'.brx_valid
        /\ br'.brx_valid => nxt = "S_RX_READ"
    BY PulseIs
  <1> QED BY <1>1, <1>2 DEF BridgeInv, BrTypes, Phase, Landing, Writing, Wait_, BState

(* An operation other than the read of a received word keeps BridgeInv.    *)
LEMMA StartsPlain ==
  ASSUME NEW nxt, nxt \in RetState \ {"S_RX_READ"}, \E we, a, d : Starts(we, a, d, nxt),
         Operation', BrTypes', box_ack' = FALSE, Pulses({})
  PROVE  BridgeInv'
  <1>1. PICK we, a, d : Starts(we, a, d, nxt)
    OBVIOUS
  <1>2. br'.st = "S_WAIT" /\ br'.ret = nxt /\ br'.m_addr = a /\ br'.m_req = TRUE
    BY <1>1 DEF Starts
  <1>3. /\ br'.btx_rd \in BOOLEAN /\ br'.btx_done \in BOOLEAN
        /\ br'.brx_start \in BOOLEAN /\ br'.brx_valid \in BOOLEAN
        /\ ~br'.btx_rd /\ ~br'.btx_done /\ ~br'.brx_start /\ ~br'.brx_valid
    BY PulseIs
  <1> QED BY <1>2, <1>3 DEF BridgeInv, BrTypes, Phase, Landing, Writing, Wait_, BState

(* The pointers and counters of a clock that only starts an operation.     *)
LEMMA OpKeeps ==
  ASSUME Only(OpReg)
  PROVE  /\ br'.tx_wptr = br.tx_wptr /\ br'.rx_rptr = br.rx_rptr
         /\ br'.pos = br.pos /\ br'.lane = br.lane /\ br'.pack = br.pack
         /\ br'.cur_len = br.cur_len /\ br'.op_rdata = br.op_rdata
         /\ br'.brx_len = br.brx_len /\ br'.brx_data = br.brx_data /\ br'.btx_addr = br.btx_addr
  BY OnlyIs DEF OpReg

(* BridgeInv under the states of the initialisation, S_IDLE and S_MAC.     *)
LEMMA BridgeInit ==
  ASSUME BridgeInv, NEW poll_tick, Moves(Step(poll_tick)), box_ack' = FALSE,
         br.st \in InitState \cup {"S_OFF", "S_INIT_CLEAR", "S_IDLE", "S_MAC"}
  PROVE  BridgeInv'
  <1>0. /\ BrReg \subseteq DOMAIN br' /\ Lanes \in Nat \ {0}
        /\ br.tx_wptr \in Nat /\ br.rx_rptr \in Nat /\ br.pos \in Nat
        /\ br.lane \in 0 .. (Lanes - 1) /\ (br.st # "S_WAIT" => br.m_req = FALSE)
    BY Sizes DEF Moves, BridgeInv
  <1>op. ASSUME Only(OpReg) PROVE BrTypes'
    BY <1>0, <1>op, OpKeeps DEF BrTypes
  <1>st. br.st # "S_WAIT" /\ br.m_req = FALSE
    BY <1>0 DEF InitState
  <1>1. CASE br.st = "S_OFF"
    <2>1. EffOff
      BY <1>1, InitEffects
    <2>4. /\ br'.st \in {"S_OFF", "S_INIT_CLEAR"} /\ br'.pos = br.pos /\ br'.lane = br.lane
          /\ br'.m_req = FALSE /\ br'.tx_wptr \in Nat /\ br'.rx_rptr \in Nat
      <3>1. CASE Only({"m_req"})
        BY <1>0, <1>1, <2>1, <3>1, OnlyIs DEF EffOff
      <3>2. CASE Only({"m_req", "st"} \cup Ptr) /\ br'.st = "S_INIT_CLEAR" /\ Zero
        BY <2>1, <3>2, OnlyIs DEF EffOff, Ptr, Zero
      <3> QED BY <2>1, <3>1, <3>2 DEF EffOff
    <2>5. BrTypes' /\ br'.st \in BState \ {"S_WAIT"} /\ br'.st # "S_RX_READ" /\ br'.st # "S_RX_STREAM"
      BY <1>0, <2>4 DEF BrTypes, BState
    <2>6. Pulses({}) \/ Pulses({"btx_done"})
      BY <2>1 DEF EffOff
    <2> QED BY <2>4, <2>5, <2>6, GoesNext
  <1>2. CASE br.st = "S_INIT_CLEAR"
    <2>1. EffClear
      BY <1>2, InitEffects
    <2>2. br'.tx_wptr = 0 /\ br'.rx_rptr = 0 /\ br'.pos = br.pos /\ br'.lane = br.lane
      BY <2>1, OnlyIs DEF EffClear, Zero, Ptr, OpReg
    <2>3. BrTypes'
      BY <1>0, <2>2 DEF BrTypes
    <2>4. Operation'
      BY <2>1 DEF EffClear, Starts, Operation, Write
    <2>5. /\ \E we, a, d : Starts(we, a, d, "S_INIT_TXPTR")
          /\ Pulses({}) /\ "S_INIT_TXPTR" \in RetState \ {"S_RX_READ"}
      BY <2>1 DEF EffClear, RetState, InitState
    <2> QED BY <2>3, <2>4, <2>5, StartsPlain
  <1>3. ASSUME NEW kind, NEW nxt, nxt \in RetState, EffInit(kind, nxt),
               <<kind, nxt>> \in {<<"TXWPTR", "S_INIT_RXWPTR">>, <<"RXWPTR", "S_INIT_RXRPTR">>,
                                  <<"RXRPTR", "S_INIT_MAC">>}
        PROVE  BridgeInv'
    <2>1. Operation'
      BY <1>3 DEF EffInit, Starts, Operation, Write
    <2>2. /\ \E we, a, d : Starts(we, a, d, nxt)
          /\ Pulses({}) /\ BrTypes' /\ nxt \in RetState \ {"S_RX_READ"}
      BY <1>3, <1>op DEF EffInit
    <2> QED BY <2>1, <2>2, StartsPlain
  <1>4. CASE br.st \in {"S_INIT_TXPTR", "S_INIT_RXWPTR", "S_INIT_RXRPTR"}
    <2>1. {"S_INIT_RXWPTR", "S_INIT_RXRPTR", "S_INIT_MAC"} \subseteq RetState
      BY DEF RetState, InitState
    <2> QED BY <1>3, <1>4, <2>1, InitEffects
  <1>5. CASE br.st \in {"S_INIT_MAC", "S_MAC"}
    <2>1. \E n \in {"S_INIT_MAGIC", "S_OFF", "S_IDLE"} :
             Starts(TRUE, A("MAC"), mac.enet_mac, n) /\ Only(OpReg) /\ Pulses({})
      BY <1>5, InitEffects, TxEffects DEF EffInitMac, EffMac
    <2>2. PICK n \in {"S_INIT_MAGIC", "S_OFF", "S_IDLE"} :
             Starts(TRUE, A("MAC"), mac.enet_mac, n) /\ Only(OpReg) /\ Pulses({})
      BY <2>1
    <2>3. Operation' /\ n \in RetState \ {"S_RX_READ"}
      BY <2>2 DEF Starts, Operation, WriteMac, RetState, InitState
    <2>4. BrTypes' /\ \E we, a, d : Starts(we, a, d, n)
      BY <1>op, <2>2
    <2> QED BY <2>2, <2>3, <2>4, StartsPlain
  <1>6. CASE br.st = "S_INIT_MAGIC"
    <2>1. Starts(TRUE, A("MAGIC"), TRUE, "S_IDLE") /\ Only(OpReg) /\ Pulses({})
      BY <1>6, InitEffects DEF EffMagic
    <2>2. Operation' /\ "S_IDLE" \in RetState \ {"S_RX_READ"}
      BY <2>1 DEF Starts, Operation, Write, RetState
    <2>3. BrTypes' /\ \E we, a, d : Starts(we, a, d, "S_IDLE")
      BY <1>op, <2>1
    <2> QED BY <2>1, <2>2, <2>3, StartsPlain
  <1>7. CASE br.st = "S_IDLE"
    <2>0. EffIdle
      BY <1>7, IdleEffects
    <2>1. CASE Only({"st"}) /\ Pulses({}) /\ br'.st \in {"S_INIT_CLEAR", "S_IDLE", "S_MAC"}
      <3>1. /\ br'.tx_wptr = br.tx_wptr /\ br'.rx_rptr = br.rx_rptr /\ br'.pos = br.pos
            /\ br'.lane = br.lane /\ br'.m_req = br.m_req
        BY <2>1, OnlyIs
      <3>2. BrTypes' /\ br'.st \in BState \ {"S_WAIT"} /\ br'.st # "S_RX_READ" /\ br'.st # "S_RX_STREAM"
            /\ br'.m_req = FALSE
        BY <1>0, <1>st, <2>1, <3>1 DEF BrTypes, BState
      <3> QED BY <2>1, <3>2, GoesNext
    <2>2. CASE /\ Only({"st", "pos", "lane", "pack", "cur_len", "btx_addr"}) /\ Pulses({"btx_rd"})
               /\ br'.st = "S_TX_FETCH" /\ br'.pos = 0 /\ br'.lane = 0 /\ br'.btx_addr = 0
      <3>1. br'.tx_wptr = br.tx_wptr /\ br'.rx_rptr = br.rx_rptr /\ br'.m_req = br.m_req
        BY <2>2, OnlyIs
      <3>2. BrTypes' /\ br'.st \in BState \ {"S_WAIT"} /\ br'.st # "S_RX_READ" /\ br'.st # "S_RX_STREAM"
            /\ br'.m_req = FALSE
        BY <1>0, <1>st, <2>2, <3>1 DEF BrTypes, BState
      <3> QED BY <2>2, <3>2, GoesNext
    <2>3. CASE Starts(FALSE, A("RXWPTR"), 0, "S_RX_POLL") /\ Only(OpReg) /\ Pulses({})
      <3>1. Operation' /\ "S_RX_POLL" \in RetState \ {"S_RX_READ"}
        BY <2>3 DEF Starts, Operation, Read, RetState
      <3>2. BrTypes' /\ \E we, a, d : Starts(we, a, d, "S_RX_POLL")
        BY <1>op, <2>3
      <3> QED BY <2>3, <3>1, <3>2, StartsPlain
    <2> QED BY <2>0, <2>1, <2>2, <2>3 DEF EffIdle
  <1> QED BY <1>1, <1>2, <1>4, <1>5, <1>6, <1>7 DEF InitState

(* BridgeInv under the states of a transmission.                           *)
LEMMA BridgeTx ==
  ASSUME BridgeInv, NEW poll_tick, Moves(Step(poll_tick)), box_ack' = FALSE, br.st \in TxState
  PROVE  BridgeInv'
  <1>0. /\ BrReg \subseteq DOMAIN br' /\ Lanes \in Nat \ {0}
        /\ br.tx_wptr \in Nat /\ br.rx_rptr \in Nat /\ br.pos \in Nat
        /\ br.lane \in 0 .. (Lanes - 1) /\ br.st # "S_WAIT" /\ br.m_req = FALSE
    BY Sizes DEF Moves, BridgeInv, TxState
  <1>op. ASSUME Only(OpReg) PROVE BrTypes'
    BY <1>0, <1>op, OpKeeps DEF BrTypes
  <1> DEFINE Plain == br'.st \in BState \ {"S_WAIT"} /\ br'.st # "S_RX_READ" /\ br'.st # "S_RX_STREAM"
  <1>1. CASE br.st = "S_TX_FETCH"
    <2>0. EffFetch
      BY <1>1, FetchEffects
    <2>1. CASE Only({}) /\ Pulses({})
      <3>1. /\ br'.tx_wptr = br.tx_wptr /\ br'.rx_rptr = br.rx_rptr /\ br'.pos = br.pos
            /\ br'.lane = br.lane /\ br'.m_req = br.m_req /\ br'.st = br.st
        BY <2>1, OnlyIs
      <3>2. BrTypes' /\ Plain /\ br'.m_req = FALSE
        BY <1>0, <1>1, <3>1 DEF BrTypes, BState
      <3> QED BY <2>1, <3>2, GoesNext
    <2>2. CASE Only({"st", "pack"}) /\ Pulses({}) /\ br'.st = "S_TX_WRITE"
      <3>1. /\ br'.tx_wptr = br.tx_wptr /\ br'.rx_rptr = br.rx_rptr /\ br'.pos = br.pos
            /\ br'.lane = br.lane /\ br'.m_req = br.m_req
        BY <2>2, OnlyIs
      <3>2. BrTypes' /\ Plain /\ br'.m_req = FALSE
        BY <1>0, <2>2, <3>1 DEF BrTypes, BState
      <3> QED BY <2>2, <3>2, GoesNext
    <2>3. CASE /\ ~LastOfWord
               /\ Only({"pos", "lane", "pack", "btx_addr"}) /\ Pulses({"btx_rd"})
               /\ br'.pos = br.pos + 1 /\ br'.lane = br.lane + 1 /\ br'.btx_addr = br.pos + 1
      <3>1. /\ br'.tx_wptr = br.tx_wptr /\ br'.rx_rptr = br.rx_rptr
            /\ br'.m_req = br.m_req /\ br'.st = br.st
        BY <2>3, OnlyIs
      <3>3. br'.lane \in 0 .. (Lanes - 1) /\ br'.pos \in Nat
        BY <1>0, <2>3 DEF LastOfWord
      <3>2. BrTypes' /\ Plain /\ br'.m_req = FALSE /\ br'.st = "S_TX_FETCH" /\ br'.btx_addr = br'.pos
        BY <1>0, <1>1, <2>3, <3>1, <3>3 DEF BrTypes, BState
      <3> QED BY <2>3, <3>2, GoesNext
    <2> QED BY <2>0, <2>1, <2>2, <2>3 DEF EffFetch
  <1>2. CASE br.st = "S_TX_WRITE"
    <2>1. EffWrite
      BY <1>2, TxEffects
    <2>2. PICK nxt \in {"S_TX_HDR", "S_TX_PACK"} :
            Starts(TRUE, TxWord(br.tx_wptr, 1 + Row), br.pack, nxt)
      BY <2>1 DEF EffWrite
    <2>3. /\ Only(OpReg) /\ Pulses({}) /\ BrTypes'
      BY <1>op, <2>1 DEF EffWrite
    <2>4. Operation'
      BY <2>2, <2>3, OpKeeps DEF Operation, Starts, Write, Row
    <2>5. nxt \in RetState \ {"S_RX_READ"} /\ \E we, a, d : Starts(we, a, d, nxt)
      BY <2>2 DEF RetState
    <2> QED BY <2>3, <2>4, <2>5, StartsPlain
  <1>3. CASE br.st = "S_TX_PACK"
    <2>1. EffPack
      BY <1>3, TxEffects
    <2>2. br'.tx_wptr = br.tx_wptr /\ br'.rx_rptr = br.rx_rptr /\ br'.m_req = br.m_req
      BY <2>1, OnlyIs DEF EffPack
    <2>3. /\ BrTypes' /\ Plain /\ br'.m_req = FALSE /\ br'.st = "S_TX_FETCH"
          /\ br'.btx_addr = br'.pos /\ Pulses({"btx_rd"})
      BY <1>0, <2>1, <2>2 DEF EffPack, BrTypes, BState
    <2> QED BY <2>3, GoesNext
  <1>4. CASE br.st = "S_TX_HDR"
    <2>1. EffHdr
      BY <1>4, TxEffects
    <2>3. /\ Only(OpReg) /\ Pulses({}) /\ BrTypes' /\ Starts(TRUE, TxWord(br.tx_wptr, 0), br.cur_len, "S_TX_WPTR")
      BY <1>op, <2>1 DEF EffHdr
    <2>4. Operation'
      BY <2>3, OpKeeps DEF Operation, Starts, Write
    <2>5. "S_TX_WPTR" \in RetState \ {"S_RX_READ"} /\ \E we, a, d : Starts(we, a, d, "S_TX_WPTR")
      BY <2>3 DEF RetState
    <2> QED BY <2>3, <2>4, <2>5, StartsPlain
  <1>5. CASE br.st = "S_TX_WPTR"
    <2>1. EffWptr
      BY <1>5, TxEffects
    <2>2. br'.rx_rptr = br.rx_rptr /\ br'.pos = br.pos /\ br'.lane = br.lane
      BY <2>1, OnlyIs DEF EffWptr, OpReg
    <2>a. /\ Pulses({"btx_done"})
          /\ Starts(TRUE, A("TXWPTR"), br.tx_wptr + 1, "S_IDLE") /\ br'.tx_wptr = br.tx_wptr + 1
      BY <2>1 DEF EffWptr
    <2>3. BrTypes'
      BY <1>0, <2>a, <2>2 DEF BrTypes
    <2>4. /\ Operation' /\ br'.st = "S_WAIT" /\ br'.ret = "S_IDLE" /\ br'.m_req = TRUE
          /\ br'.m_addr = A("TXWPTR")
      BY <2>a DEF Operation, Starts, Write
    <2>5. /\ br'.btx_rd \in BOOLEAN /\ br'.btx_done \in BOOLEAN
          /\ br'.brx_start \in BOOLEAN /\ br'.brx_valid \in BOOLEAN
          /\ ~br'.btx_rd /\ ~br'.brx_start /\ ~br'.brx_valid
      BY <2>a, PulseIs
    <2> QED BY <2>3, <2>4, <2>5
            DEF BridgeInv, BrTypes, Phase, Landing, Writing, Wait_, BState, RetState
  <1> QED BY <1>1, <1>2, <1>3, <1>4, <1>5 DEF TxState

(* BridgeInv under the states of a reception.                              *)
LEMMA BridgeRx ==
  ASSUME BridgeInv, NEW poll_tick, Moves(Step(poll_tick)), box_ack' = FALSE, br.st \in RxState
  PROVE  BridgeInv'
  <1>0. /\ BrReg \subseteq DOMAIN br' /\ Lanes \in Nat \ {0}
        /\ br.tx_wptr \in Nat /\ br.rx_rptr \in Nat /\ br.pos \in Nat
        /\ br.lane \in 0 .. (Lanes - 1) /\ br.st # "S_WAIT" /\ br.m_req = FALSE
    BY Sizes DEF Moves, BridgeInv, RxState
  <1>op. ASSUME Only(OpReg) PROVE BrTypes'
    BY <1>0, <1>op, OpKeeps DEF BrTypes
  <1> DEFINE Plain == br'.st \in BState \ {"S_WAIT"} /\ br'.st # "S_RX_READ" /\ br'.st # "S_RX_STREAM"
  <1>1. CASE br.st = "S_RX_POLL"
    <2>0. EffPoll
      BY <1>1, RxEffects
    <2>1. CASE Only({"st"}) /\ br'.st = "S_IDLE"
      <3>1. /\ br'.tx_wptr = br.tx_wptr /\ br'.rx_rptr = br.rx_rptr /\ br'.pos = br.pos
            /\ br'.lane = br.lane /\ br'.m_req = br.m_req
        BY <2>1, OnlyIs
      <3>2. BrTypes' /\ Plain /\ br'.m_req = FALSE /\ Pulses({})
        BY <1>0, <2>0, <2>1, <3>1 DEF EffPoll, BrTypes, BState
      <3> QED BY <3>2, GoesNext
    <2>2. CASE Starts(FALSE, RxWord(br.rx_rptr, 0), 0, "S_RX_HDR") /\ Only(OpReg)
      <3>1. Operation'
        BY <2>2, OpKeeps DEF Operation, Starts, Read
      <3>2. /\ "S_RX_HDR" \in RetState \ {"S_RX_READ"} /\ \E we, a, d : Starts(we, a, d, "S_RX_HDR")
            /\ BrTypes' /\ Pulses({})
        BY <1>op, <2>0, <2>2 DEF EffPoll, RetState
      <3> QED BY <3>1, <3>2, StartsPlain
    <2> QED BY <2>0, <2>1, <2>2 DEF EffPoll
  <1>2. CASE br.st = "S_RX_HDR"
    <2>0. EffRxHdr
      BY <1>2, RxEffects
    <2>1. CASE Only({"st", "cur_len", "pos"}) /\ Pulses({}) /\ br'.st = "S_RX_RPTR"
      <3>1. /\ br'.tx_wptr = br.tx_wptr /\ br'.rx_rptr = br.rx_rptr
            /\ br'.lane = br.lane /\ br'.m_req = br.m_req
        BY <2>1, OnlyIs
      <3>2. BrTypes' /\ Plain /\ br'.m_req = FALSE
        BY <1>0, <2>0, <2>1, <3>1 DEF EffRxHdr, BrTypes, BState
      <3> QED BY <2>1, <3>2, GoesNext
    <2>2. CASE /\ Starts(FALSE, RxWord(br.rx_rptr, 1), 0, "S_RX_READ")
               /\ Only({"cur_len", "pos", "brx_len"} \cup OpReg) /\ Pulses({"brx_start"})
      <3>1. br'.tx_wptr = br.tx_wptr /\ br'.rx_rptr = br.rx_rptr /\ br'.lane = br.lane
        BY <2>2, OnlyIs DEF OpReg
      <3>2. br'.pos = 0 /\ br'.pos \div Lanes = 0 /\ br'.pos % Lanes = 0
        BY <1>0, <2>0, DivZero DEF EffRxHdr
      <3>3. Row' = 0
        BY <3>2 DEF Row
      <3>4. Operation'
        BY <2>2, <3>1, <3>3 DEF Operation, Starts, Read
      <3>5. BrTypes' /\ "S_RX_READ" \in RetState
        BY <1>0, <3>1, <3>2 DEF BrTypes, RetState
      <3> QED BY <2>2, <3>2, <3>4, <3>5, StartsNext
    <2> QED BY <2>0, <2>1, <2>2 DEF EffRxHdr
  <1>3. CASE br.st = "S_RX_READ"
    <2>1. EffRead
      BY <1>3, RxEffects
    <2>2. /\ br'.tx_wptr = br.tx_wptr /\ br'.rx_rptr = br.rx_rptr /\ br'.pos = br.pos
          /\ br'.m_req = br.m_req
      BY <2>1, OnlyIs DEF EffRead
    <2>3. br.pos % Lanes = 0
      BY <1>3 DEF BridgeInv, Phase
    <2>4. /\ BrTypes' /\ br'.st \in BState \ {"S_WAIT"} /\ br'.m_req = FALSE /\ Pulses({})
          /\ br'.st # "S_RX_READ" /\ br'.lane = br'.pos % Lanes
      BY <1>0, <2>1, <2>2, <2>3 DEF EffRead, BrTypes, BState
    <2> QED BY <2>4, GoesNext
  <1>4. CASE br.st = "S_RX_STREAM"
    <2>0. EffStream
      BY <1>4, RxEffects
    <2>a. br.lane = br.pos % Lanes /\ br'.pos = br.pos + 1 /\ Pulses({"brx_valid"})
      BY <1>4, <2>0 DEF BridgeInv, EffStream
    <2>b. /\ br.lane = Lanes - 1 => (br.pos + 1) \div Lanes = Row + 1 /\ (br.pos + 1) % Lanes = 0
          /\ br.lane # Lanes - 1 => (br.pos + 1) % Lanes = br.lane + 1
      BY <1>0, <2>a, DivNext DEF Row
    <2>1. CASE Only({"st", "pos", "brx_data"}) /\ br'.st = "S_RX_RPTR"
      <3>1. /\ br'.tx_wptr = br.tx_wptr /\ br'.rx_rptr = br.rx_rptr
            /\ br'.lane = br.lane /\ br'.m_req = br.m_req
        BY <2>1, OnlyIs
      <3>2. BrTypes' /\ Plain /\ br'.m_req = FALSE
        BY <1>0, <2>a, <2>1, <3>1 DEF BrTypes, BState
      <3> QED BY <2>a, <2>1, <3>2, GoesNext
    <2>2. CASE /\ br.lane = Lanes - 1
               /\ Starts(FALSE, RxWord(br.rx_rptr, 2 + Row), 0, "S_RX_READ")
               /\ Only({"pos", "brx_data"} \cup OpReg)
      <3>1. br'.tx_wptr = br.tx_wptr /\ br'.rx_rptr = br.rx_rptr /\ br'.lane = br.lane
        BY <2>2, OnlyIs DEF OpReg
      <3>2. Row' = Row + 1 /\ br'.pos % Lanes = 0 /\ Row \in Nat
        BY <1>0, <2>a, <2>b, <2>2, DivIs DEF Row
      <3>3. 1 + Row' = 2 + Row
        BY <3>2
      <3>4. Operation'
        BY <2>2, <3>1, <3>3 DEF Operation, Starts, Read
      <3>5. BrTypes' /\ "S_RX_READ" \in RetState
        BY <1>0, <2>a, <3>1 DEF BrTypes, RetState
      <3> QED BY <2>a, <2>2, <3>2, <3>4, <3>5, StartsNext
    <2>3. CASE /\ br.lane # Lanes - 1
               /\ Only({"pos", "brx_data", "lane"}) /\ br'.lane = br.lane + 1
      <3>1. /\ br'.tx_wptr = br.tx_wptr /\ br'.rx_rptr = br.rx_rptr
            /\ br'.m_req = br.m_req /\ br'.st = br.st
        BY <2>3, OnlyIs
      <3>2. /\ BrTypes' /\ br'.m_req = FALSE /\ br'.st = "S_RX_STREAM" /\ br'.st \in BState \ {"S_WAIT"}
            /\ br'.lane = br'.pos % Lanes
        BY <1>0, <1>4, <2>a, <2>b, <2>3, <3>1 DEF BrTypes, BState
      <3> QED BY <2>a, <2>3, <3>2, GoesNext
    <2> QED BY <2>0, <2>1, <2>2, <2>3 DEF EffStream
  <1>5. CASE br.st = "S_RX_RPTR"
    <2>1. EffRptr
      BY <1>5, RxEffects
    <2>2. br'.tx_wptr = br.tx_wptr /\ br'.pos = br.pos /\ br'.lane = br.lane
      BY <2>1, OnlyIs DEF EffRptr, OpReg
    <2>a. /\ Starts(TRUE, A("RXRPTR"), br.rx_rptr + 1, "S_IDLE") /\ br'.rx_rptr = br.rx_rptr + 1
          /\ Pulses({})
      BY <2>1 DEF EffRptr
    <2>3. BrTypes'
      BY <1>0, <2>a, <2>2 DEF BrTypes
    <2>4. Operation'
      BY <2>a DEF Operation, Starts, Write
    <2>5. "S_IDLE" \in RetState \ {"S_RX_READ"} /\ \E we, a, d : Starts(we, a, d, "S_IDLE")
      BY <2>a DEF RetState
    <2> QED BY <2>a, <2>3, <2>4, <2>5, StartsPlain
  <1> QED BY <1>1, <1>2, <1>3, <1>4, <1>5 DEF RxState

(* BridgeInv under S_WAIT.                                                 *)
LEMMA BridgeWait ==
  ASSUME BridgeInv, NEW poll_tick, Moves(Step(poll_tick)), box_ack' \in BOOLEAN,
         box_ack => box_ack' = FALSE, br.st = "S_WAIT"
  PROVE  BridgeInv'
  <1>0. /\ BrReg \subseteq DOMAIN br'
        /\ br.tx_wptr \in Nat /\ br.rx_rptr \in Nat /\ br.pos \in Nat
        /\ br.lane \in 0 .. (Lanes - 1) /\ br.m_req = TRUE /\ br.ret \in RetState /\ Operation
        /\ br.ret = "S_RX_READ" => br.pos % Lanes = 0
    BY DEF Moves, BridgeInv, Phase
  <1>1. EffWait
    BY WaitEffects
  <1>2. CASE ~box_ack /\ Only({})
    <2>1. /\ br'.tx_wptr = br.tx_wptr /\ br'.rx_rptr = br.rx_rptr /\ br'.pos = br.pos
          /\ br'.lane = br.lane /\ br'.m_req = br.m_req /\ br'.st = br.st /\ br'.ret = br.ret
          /\ br'.m_we = br.m_we /\ br'.m_addr = br.m_addr /\ br'.m_wdata = br.m_wdata
          /\ br'.op_we = br.op_we /\ br'.pack = br.pack /\ br'.cur_len = br.cur_len
      BY <1>2, OnlyIs
    <2>2. Operation'
      BY <1>0, <2>1 DEF Operation, Write, Read, WriteMac, Row
    <2>3. /\ br'.btx_rd \in BOOLEAN /\ br'.btx_done \in BOOLEAN
          /\ br'.brx_start \in BOOLEAN /\ br'.brx_valid \in BOOLEAN
          /\ ~br'.btx_rd /\ ~br'.btx_done /\ ~br'.brx_start /\ ~br'.brx_valid
      BY <1>1, PulseIs DEF EffWait
    <2> QED BY <1>0, <2>1, <2>2, <2>3 DEF BridgeInv, BState, Phase
  <1>3. CASE box_ack /\ Only({"st", "m_req", "op_rdata"}) /\ br'.st = br.ret /\ br'.m_req = FALSE
    <2>1. /\ br'.tx_wptr = br.tx_wptr /\ br'.rx_rptr = br.rx_rptr /\ br'.pos = br.pos
          /\ br'.lane = br.lane
      BY <1>3, OnlyIs
    <2>2. BrTypes' /\ br'.st \in BState \ {"S_WAIT"} /\ br'.st # "S_RX_STREAM" /\ Pulses({})
      BY <1>0, <1>1, <1>3, <2>1 DEF BrTypes, EffWait, RetState, InitState, BState
    <2>3. br'.st = "S_RX_READ" => br'.pos % Lanes = 0
      BY <1>0, <1>3, <2>1
    <2> QED BY <1>3, <2>2, <2>3, GoesNext
  <1> QED BY <1>1, <1>2, <1>3 DEF EffWait

(* BridgeInv under a clock.                                                *)
LEMMA BridgeNext ==
  ASSUME BridgeInv, NEW poll_tick, NEW answer \in BOOLEAN, Moves(Step(poll_tick)), Access(answer),
         box_ack' = answer
  PROVE  BridgeInv'
  <1>1. answer => br.st = "S_WAIT" /\ ~box_ack
    BY DEF Access, BridgeInv
  <1>2. br.st \in BState
    BY DEF BridgeInv
  <1> QED BY <1>1, <1>2, States, BridgeInit, BridgeTx, BridgeRx, BridgeWait

-----------------------------------------------------------------------------
(* InitInv.                                                                *)

(* Nothing lands unless the bridge waits for it.                           *)
LEMMA Still ==
  ASSUME BridgeInv, BoxInv, NEW answer \in BOOLEAN, Access(answer), br.st # "S_WAIT" \/ box_ack
  PROVE  answer = FALSE /\ box' = box /\ (ours' <=> ours) /\ gen_base' = gen_base
  <1>1. ~answer
    BY DEF Access, BridgeInv
  <1> QED BY <1>1, AccessIs

(* What the writes of the initialisation have done, when nothing lands.    *)
LEMMA InitPlain ==
  ASSUME BridgeInv, InitInv, NEW poll_tick, Moves(Step(poll_tick)), br.st # "S_WAIT",
         box' = box, box_ack' = FALSE
  PROVE  InitInv'
  <1>0. br.st \in BState
    BY DEF BridgeInv
  <1>1. CASE br.st = "S_OFF"
    <2>1. EffOff
      BY <1>1, InitEffects
    <2>2. br'.st \in {"S_OFF", "S_INIT_CLEAR"}
      BY <1>1, <2>1, OnlyIs DEF EffOff
    <2>3. ~box[A("MAGIC")]
      BY <1>1 DEF InitInv, Cleared
    <2>4. ~TxZero' /\ ~WZero' /\ ~RZero' /\ ~PtrZero'
      BY <2>2 DEF TxZero, WZero, RZero, PtrZero, InitState, Landing, Writing, Wait_
    <2> QED BY <2>3, <2>4 DEF InitInv
  <1>2. CASE br.st = "S_INIT_CLEAR"
    <2>1. br'.st = "S_WAIT" /\ br'.ret = "S_INIT_TXPTR" /\ br'.tx_wptr = 0 /\ br'.rx_rptr = 0
      BY <1>2, InitEffects DEF EffClear, Starts, Zero
    <2> QED BY <2>1
            DEF InitInv, Cleared, TxZero, WZero, RZero, PtrZero, InitState, Landing, Writing, Wait_
  <1>3. CASE br.st \in InitState
    <2>1. /\ br'.st = "S_WAIT" /\ br'.tx_wptr = br.tx_wptr /\ br'.rx_rptr = br.rx_rptr
          /\ \/ br.st = "S_INIT_TXPTR" /\ br'.ret = "S_INIT_RXWPTR"
             \/ br.st = "S_INIT_RXWPTR" /\ br'.ret = "S_INIT_RXRPTR"
             \/ br.st = "S_INIT_RXRPTR" /\ br'.ret = "S_INIT_MAC"
             \/ br.st = "S_INIT_MAC" /\ br'.ret \in {"S_INIT_MAGIC", "S_OFF"}
             \/ br.st = "S_INIT_MAGIC" /\ br'.ret = "S_IDLE" /\ br'.m_addr = A("MAGIC")
      <3>1. CASE br.st = "S_INIT_TXPTR"
        BY <3>1, InitEffects, OpKeeps DEF EffInit, Starts
      <3>2. CASE br.st = "S_INIT_RXWPTR"
        BY <3>2, InitEffects, OpKeeps DEF EffInit, Starts
      <3>3. CASE br.st = "S_INIT_RXRPTR"
        BY <3>3, InitEffects, OpKeeps DEF EffInit, Starts
      <3>4. CASE br.st = "S_INIT_MAC"
        BY <3>4, InitEffects, OpKeeps DEF EffInitMac, Starts
      <3>5. CASE br.st = "S_INIT_MAGIC"
        BY <3>5, InitEffects, OpKeeps DEF EffMagic, Starts
      <3> QED BY <1>3, <3>1, <3>2, <3>3, <3>4, <3>5 DEF InitState
    <2>2. /\ Cleared /\ PtrZero
          /\ br.st # "S_INIT_TXPTR" => TxZero
          /\ br.st \in {"S_INIT_RXRPTR", "S_INIT_MAC", "S_INIT_MAGIC"} => WZero
          /\ br.st \in {"S_INIT_MAC", "S_INIT_MAGIC"} => RZero
      BY <1>3 DEF Cleared, TxZero, WZero, RZero, PtrZero
    <2>3. /\ ~box[A("MAGIC")] /\ br.tx_wptr = 0 /\ br.rx_rptr = 0
          /\ br.st # "S_INIT_TXPTR" => box[A("TXWPTR")] = 0
          /\ br.st \in {"S_INIT_RXRPTR", "S_INIT_MAC", "S_INIT_MAGIC"} => box[A("RXWPTR")] = 0
          /\ br.st \in {"S_INIT_MAC", "S_INIT_MAGIC"} => box[A("RXRPTR")] = 0
      BY <2>2 DEF InitInv
    <2>4. /\ TxZero' => br.st # "S_INIT_TXPTR"
          /\ WZero' => br.st \in {"S_INIT_RXRPTR", "S_INIT_MAC", "S_INIT_MAGIC"}
          /\ RZero' => br.st \in {"S_INIT_MAC", "S_INIT_MAGIC"}
      BY <2>1 DEF TxZero, WZero, RZero, InitState, Landing, Writing, Wait_
    <2> QED BY <2>1, <2>3, <2>4 DEF InitInv
  <1>4. CASE br.st \in {"S_IDLE", "S_MAC"} \cup TxState \cup RxState
    <2>1. \/ br'.st \in {"S_INIT_CLEAR", "S_IDLE", "S_MAC"} \cup TxState \cup RxState
          \/ /\ br'.st = "S_WAIT" /\ br'.ret \notin InitState \cup {"S_OFF"}
             /\ br'.m_addr # A("MAGIC")
      <3>1. CASE br.st = "S_IDLE"
        <4>1. EffIdle
          BY <3>1, IdleEffects
        <4> QED BY <4>1, Addresses DEF EffIdle, Starts, InitState, TxState, Kind
      <3>2. CASE br.st = "S_MAC"
        BY <3>2, TxEffects, Addresses DEF EffMac, Starts, InitState, Kind
      <3>3. CASE br.st = "S_TX_FETCH"
        <4>1. EffFetch
          BY <3>3, FetchEffects
        <4>2. br'.st \in {"S_TX_FETCH", "S_TX_WRITE"}
          BY <3>3, <4>1, OnlyIs DEF EffFetch
        <4> QED BY <4>2 DEF TxState
      <3>4. CASE br.st = "S_TX_WRITE"
        <4>1. EffWrite
          BY <3>4, TxEffects
        <4>2. /\ br'.st = "S_WAIT" /\ br'.ret \in {"S_TX_HDR", "S_TX_PACK"}
              /\ br'.m_addr = TxWord(br.tx_wptr, 1 + Row)
          BY <4>1 DEF EffWrite, Starts
        <4> QED BY <4>2, Addresses DEF InitState, Kind
      <3>5. CASE br.st = "S_TX_PACK"
        BY <3>5, TxEffects DEF EffPack, TxState
      <3>6. CASE br.st = "S_TX_HDR"
        <4>1. /\ br'.st = "S_WAIT" /\ br'.ret = "S_TX_WPTR" /\ br'.m_addr = TxWord(br.tx_wptr, 0)
          BY <3>6, TxEffects DEF EffHdr, Starts
        <4> QED BY <4>1, Addresses DEF InitState, Kind
      <3>7. CASE br.st = "S_TX_WPTR"
        BY <3>7, TxEffects, Addresses DEF EffWptr, Starts, InitState, Kind
      <3>8. CASE br.st = "S_RX_POLL"
        <4>1. EffPoll
          BY <3>8, RxEffects
        <4> QED BY <4>1, Addresses DEF EffPoll, Starts, InitState, Kind
      <3>9. CASE br.st = "S_RX_HDR"
        <4>1. EffRxHdr
          BY <3>9, RxEffects
        <4> QED BY <4>1, Addresses DEF EffRxHdr, Starts, InitState, RxState, Kind
      <3>10. CASE br.st = "S_RX_READ"
        BY <3>10, RxEffects DEF EffRead, RxState
      <3>11. CASE br.st = "S_RX_STREAM"
        <4>1. EffStream
          BY <3>11, RxEffects
        <4>2. \/ br'.st \in {"S_RX_RPTR", "S_RX_STREAM"}
              \/ br'.st = "S_WAIT" /\ br'.ret = "S_RX_READ" /\ br'.m_addr = RxWord(br.rx_rptr, 2 + Row)
          BY <3>11, <4>1, OnlyIs DEF EffStream, Starts
        <4> QED BY <4>2, Addresses DEF InitState, RxState, Kind
      <3>12. CASE br.st = "S_RX_RPTR"
        BY <3>12, RxEffects, Addresses DEF EffRptr, Starts, InitState, Kind
      <3> QED BY <1>4, <3>1, <3>2, <3>3, <3>4, <3>5, <3>6, <3>7, <3>8, <3>9, <3>10, <3>11, <3>12
              DEF TxState, RxState
    <2>2. ~Cleared' /\ ~TxZero' /\ ~WZero' /\ ~RZero' /\ ~PtrZero'
      BY <2>1 DEF Cleared, TxZero, WZero, RZero, PtrZero, InitState, TxState, RxState,
                  Landing, Writing, Wait_
    <2> QED BY <2>2 DEF InitInv
  <1> QED BY <1>0, <1>1, <1>2, <1>3, <1>4, States

(* What an operation under way does to the mailbox.                        *)
LEMMA WaitIs ==
  ASSUME BridgeInv, BoxInv, NEW poll_tick, NEW answer \in BOOLEAN, Moves(Step(poll_tick)),
         Access(answer), box_ack' = answer, br.st = "S_WAIT"
  PROVE  \/ /\ ~box_ack /\ ~answer /\ Only({}) /\ Pulses({}) /\ box' = box
            /\ (ours' <=> ours) /\ gen_base' = gen_base
         \/ /\ ~box_ack /\ answer /\ Only({}) /\ Pulses({})
            /\ ~br.m_we => box' = box
            /\ br.m_we => /\ \A w \in MailboxWord : w # br.m_addr => box'[w] = box[w]
                          /\ br.m_addr \in MailboxWord => box'[br.m_addr] = br.m_wdata
         \/ /\ box_ack /\ ~answer /\ Only({"st", "m_req", "op_rdata"}) /\ Pulses({}) /\ box' = box
            /\ br'.st = br.ret /\ (~br.op_we => br'.op_rdata = Rdata)
            /\ (ours' <=> ours) /\ gen_base' = gen_base
  <1>1. EffWait
    BY WaitEffects
  <1>2. CASE box_ack
    BY <1>1, <1>2, Still DEF EffWait
  <1>3. CASE ~box_ack /\ answer
    BY <1>1, <1>3, AccessIs DEF EffWait
  <1>4. CASE ~box_ack /\ ~answer
    BY <1>1, <1>4, AccessIs DEF EffWait
  <1> QED BY <1>2, <1>3, <1>4

(* The registers of an operation that is only waited for.                  *)
LEMMA WaitKeeps ==
  ASSUME Only({})
  PROVE  /\ br'.st = br.st /\ br'.ret = br.ret /\ br'.m_req = br.m_req /\ br'.m_we = br.m_we
         /\ br'.m_addr = br.m_addr /\ br'.m_wdata = br.m_wdata /\ br'.op_we = br.op_we
         /\ br'.op_rdata = br.op_rdata /\ br'.tx_wptr = br.tx_wptr /\ br'.rx_rptr = br.rx_rptr
         /\ br'.pos = br.pos /\ br'.lane = br.lane /\ br'.pack = br.pack
         /\ br'.cur_len = br.cur_len /\ br'.btx_addr = br.btx_addr
         /\ br'.brx_len = br.brx_len /\ br'.brx_data = br.brx_data
  BY OnlyIs

(* The end of an operation leaves the place in the frame alone.            *)
LEMMA AckKeeps ==
  ASSUME Only({"st", "m_req", "op_rdata"})
  PROVE  /\ br'.tx_wptr = br.tx_wptr /\ br'.rx_rptr = br.rx_rptr
         /\ br'.pos = br.pos /\ br'.lane = br.lane /\ br'.pack = br.pack
         /\ br'.cur_len = br.cur_len /\ br'.btx_addr = br.btx_addr
         /\ br'.brx_len = br.brx_len /\ br'.brx_data = br.brx_data
         /\ br'.m_addr = br.m_addr /\ br'.m_wdata = br.m_wdata /\ br'.m_we = br.m_we
  BY OnlyIs

(* InitInv under S_WAIT.                                                   *)
LEMMA InitWait ==
  ASSUME BridgeInv, BoxInv, InitInv, NEW poll_tick, NEW answer \in BOOLEAN, Moves(Step(poll_tick)),
         Access(answer), box_ack' = answer, br.st = "S_WAIT"
  PROVE  InitInv'
  <1>0. Operation /\ br.ret \in RetState /\ box_ack \in BOOLEAN
    BY DEF BridgeInv
  <1>1. CASE ~box_ack /\ ~answer /\ Only({}) /\ box' = box
    <2>1. br'.st = br.st /\ br'.ret = br.ret /\ br'.m_addr = br.m_addr
          /\ br'.tx_wptr = br.tx_wptr /\ br'.rx_rptr = br.rx_rptr
      BY <1>1, WaitKeeps
    <2>3. (Cleared' <=> Cleared) /\ (TxZero' <=> TxZero) /\ (WZero' <=> WZero)
          /\ (RZero' <=> RZero) /\ (PtrZero' <=> PtrZero)
      BY <1>1, <2>1 DEF Cleared, TxZero, WZero, RZero, PtrZero, Landing, Writing, Wait_
    <2> QED BY <1>1, <2>1, <2>3 DEF InitInv
  <1>2. CASE box_ack /\ ~answer /\ Only({"st", "m_req", "op_rdata"}) /\ br'.st = br.ret /\ box' = box
    <2>1. br'.tx_wptr = br.tx_wptr /\ br'.rx_rptr = br.rx_rptr
      BY <1>2, AckKeeps
    <2>3. (Cleared' => Cleared) /\ (TxZero' => TxZero) /\ (WZero' => WZero)
          /\ (RZero' => RZero) /\ (PtrZero' => PtrZero)
      BY <1>0, <1>2 DEF Cleared, TxZero, WZero, RZero, PtrZero, Landing, Writing, Wait_,
                        RetState, InitState
    <2> QED BY <1>2, <2>1, <2>3 DEF InitInv
  <1>3. CASE /\ ~box_ack /\ answer /\ Only({})
             /\ ~br.m_we => box' = box
             /\ br.m_we => /\ \A w \in MailboxWord : w # br.m_addr => box'[w] = box[w]
                           /\ br.m_addr \in MailboxWord => box'[br.m_addr] = br.m_wdata
    <2>1. br'.st = br.st /\ br'.ret = br.ret /\ br'.m_addr = br.m_addr
          /\ br'.tx_wptr = br.tx_wptr /\ br'.rx_rptr = br.rx_rptr /\ box_ack' = TRUE
      BY <1>3, WaitKeeps
    <2>a. \A k \in Kind : A(k) \in MailboxWord
      BY Addresses
    <2>d. \A j, k \in Kind : A(j) = A(k) => j = k
      BY Addresses
    <2>2. /\ ~Landing("MAGIC")' /\ (Writing("MAGIC")' <=> Writing("MAGIC"))
          /\ (Writing("MAGIC") <=> Landing("MAGIC"))
      BY <1>3, <2>1 DEF Landing, Writing, Wait_
    <2>3. PtrZero' <=> PtrZero
      BY <2>1, <2>2 DEF PtrZero
    <2>4. CASE br.ret = "S_INIT_TXPTR"
      <3>1. box'[A("MAGIC")] = FALSE
        BY <1>0, <1>3, <2>4, <2>a DEF Operation, Write, Kind
      <3>2. ~TxZero' /\ ~WZero' /\ ~RZero'
        BY <2>1, <2>2, <2>4 DEF TxZero, WZero, RZero, InitState, Landing, Writing, Wait_
      <3> QED BY <2>1, <2>3, <3>1, <3>2 DEF InitInv
    <2>5. CASE br.ret = "S_INIT_RXWPTR"
      <3>1. box'[A("TXWPTR")] = 0 /\ box'[A("MAGIC")] = box[A("MAGIC")]
        BY <1>0, <1>3, <2>5, <2>a, <2>d DEF Operation, Write, Kind
      <3>2. ~WZero' /\ ~RZero' /\ Cleared
        BY <2>1, <2>2, <2>5 DEF WZero, RZero, Cleared, InitState, Landing, Writing, Wait_
      <3> QED BY <2>1, <2>3, <3>1, <3>2 DEF InitInv
    <2>6. CASE br.ret = "S_INIT_RXRPTR"
      <3>1. /\ box'[A("RXWPTR")] = 0 /\ box'[A("MAGIC")] = box[A("MAGIC")]
            /\ box'[A("TXWPTR")] = box[A("TXWPTR")]
        BY <1>0, <1>3, <2>6, <2>a, <2>d DEF Operation, Write, Kind
      <3>2. ~RZero' /\ Cleared /\ TxZero
        BY <2>1, <2>2, <2>6 DEF RZero, Cleared, TxZero, InitState, Landing, Writing, Wait_
      <3> QED BY <2>1, <2>3, <3>1, <3>2 DEF InitInv
    <2>7. CASE br.ret = "S_INIT_MAC"
      <3>1. /\ box'[A("RXRPTR")] = 0 /\ box'[A("MAGIC")] = box[A("MAGIC")]
            /\ box'[A("TXWPTR")] = box[A("TXWPTR")] /\ box'[A("RXWPTR")] = box[A("RXWPTR")]
        BY <1>0, <1>3, <2>7, <2>a, <2>d DEF Operation, Write, Kind
      <3>2. Cleared /\ TxZero /\ WZero
        BY <2>1, <2>2, <2>7 DEF WZero, Cleared, TxZero, InitState, Landing, Writing, Wait_
      <3> QED BY <2>1, <2>3, <3>1, <3>2 DEF InitInv
    <2>8. CASE br.ret \in {"S_INIT_MAGIC", "S_OFF"}
      <3>1. /\ box'[A("RXRPTR")] = box[A("RXRPTR")] /\ box'[A("MAGIC")] = box[A("MAGIC")]
            /\ box'[A("TXWPTR")] = box[A("TXWPTR")] /\ box'[A("RXWPTR")] = box[A("RXWPTR")]
        BY <1>0, <1>3, <2>8, <2>a, <2>d DEF Operation, WriteMac, Kind
      <3>2. Cleared /\ (TxZero' => TxZero) /\ (WZero' => WZero) /\ (RZero' => RZero)
        BY <2>1, <2>2, <2>8 DEF WZero, RZero, Cleared, TxZero, InitState, Landing, Writing, Wait_
      <3> QED BY <2>1, <2>3, <3>1, <3>2 DEF InitInv
    <2>9. CASE br.ret = "S_IDLE" /\ br.m_addr = A("MAGIC")
      <3>1. box'[A("TXWPTR")] = box[A("TXWPTR")]
        BY <1>0, <1>3, <2>9, <2>a, <2>d DEF Operation, Write, WriteMac, Kind
      <3>2. ~Cleared' /\ ~WZero' /\ ~RZero' /\ TxZero
        BY <2>1, <2>2, <2>9 DEF WZero, RZero, Cleared, TxZero, InitState, Landing, Writing, Wait_
      <3> QED BY <2>1, <2>3, <3>1, <3>2 DEF InitInv
    <2>10. CASE br.ret \notin InitState \cup {"S_OFF"} /\ ~(br.ret = "S_IDLE" /\ br.m_addr = A("MAGIC"))
      <3>1. ~Cleared' /\ ~TxZero' /\ ~WZero' /\ ~RZero' /\ ~PtrZero'
        BY <2>1, <2>10 DEF Cleared, TxZero, WZero, RZero, PtrZero, InitState, Landing, Writing, Wait_
      <3> QED BY <3>1 DEF InitInv
    <2> QED BY <2>4, <2>5, <2>6, <2>7, <2>8, <2>9, <2>10 DEF InitState
  <1> QED BY <1>1, <1>2, <1>3, WaitIs

(* InitInv under a clock.                                                  *)
LEMMA InitNext ==
  ASSUME BridgeInv, BoxInv, InitInv, NEW poll_tick, NEW answer \in BOOLEAN, Moves(Step(poll_tick)),
         Access(answer), box_ack' = answer
  PROVE  InitInv'
  <1>1. CASE br.st = "S_WAIT"
    BY <1>1, InitWait
  <1>2. CASE br.st # "S_WAIT"
    BY <1>2, Still, InitPlain
  <1> QED BY <1>1, <1>2

-----------------------------------------------------------------------------
(* LiveInv.                                                                *)

Serving == {"S_IDLE", "S_MAC"} \cup TxState \cup RxState

(* Assignments elsewhere leave the ring pointers alone.                    *)
LEMMA PtrKept ==
  ASSUME \E X : Only(X) /\ "tx_wptr" \notin X /\ "rx_rptr" \notin X
  PROVE  br'.tx_wptr = br.tx_wptr /\ br'.rx_rptr = br.rx_rptr
  BY OnlyIs

(* Assignments elsewhere leave the state alone.                            *)
LEMMA StKept ==
  ASSUME \E X : Only(X) /\ "st" \notin X
  PROVE  br'.st = br.st
  BY OnlyIs

(* How the pointers move in the states that serve the rings.               *)
LEMMA PtrMoves ==
  ASSUME BridgeInv, NEW poll_tick, Moves(Step(poll_tick)), br.st \in Serving, box_ack' = FALSE
  PROVE  /\ \/ br'.tx_wptr = br.tx_wptr /\ ~Landing("TXWPTR")'
            \/ br.st = "S_TX_WPTR" /\ br'.tx_wptr = br.tx_wptr + 1 /\ Landing("TXWPTR")'
         /\ \/ br'.rx_rptr = br.rx_rptr /\ ~Landing("RXRPTR")'
            \/ br.st = "S_RX_RPTR" /\ br'.rx_rptr = br.rx_rptr + 1 /\ Landing("RXRPTR")'
         /\ ~Writing("MAGIC")'
  <1> DEFINE Goal == /\ \/ br'.tx_wptr = br.tx_wptr /\ ~Landing("TXWPTR")'
                        \/ br.st = "S_TX_WPTR" /\ br'.tx_wptr = br.tx_wptr + 1 /\ Landing("TXWPTR")'
                     /\ \/ br'.rx_rptr = br.rx_rptr /\ ~Landing("RXRPTR")'
                        \/ br.st = "S_RX_RPTR" /\ br'.rx_rptr = br.rx_rptr + 1 /\ Landing("RXRPTR")'
                     /\ ~Writing("MAGIC")'
  <1>a. \A j, k \in Kind : A(j) = A(k) => j = k
    BY Addresses
  <1>b. ASSUME br'.tx_wptr = br.tx_wptr, br'.rx_rptr = br.rx_rptr, br'.st # "S_WAIT" \/ br'.ret # "S_IDLE"
        PROVE  Goal
    BY <1>b DEF Landing, Writing, Wait_
  <1>1. CASE br.st = "S_IDLE"
    <2>1. EffIdle
      BY <1>1, IdleEffects
    <2>2. br'.tx_wptr = br.tx_wptr /\ br'.rx_rptr = br.rx_rptr
      <3>1. \E X : Only(X) /\ "tx_wptr" \notin X /\ "rx_rptr" \notin X
        BY <2>1 DEF EffIdle, OpReg
      <3> QED BY <3>1, PtrKept
    <2>3. br'.st # "S_WAIT" \/ br'.ret # "S_IDLE"
      BY <2>1 DEF EffIdle, Starts
    <2> QED BY <1>b, <2>2, <2>3
  <1>2. CASE br.st = "S_MAC"
    <2>1. EffMac
      BY <1>2, TxEffects
    <2>2. br'.tx_wptr = br.tx_wptr /\ br'.rx_rptr = br.rx_rptr /\ br'.m_addr = A("MAC")
      BY <2>1, OpKeeps DEF EffMac, Starts
    <2> QED BY <1>a, <2>2 DEF Landing, Writing, Kind
  <1>3. CASE br.st = "S_TX_FETCH"
    <2>1. EffFetch
      BY <1>3, FetchEffects
    <2>2. br'.tx_wptr = br.tx_wptr /\ br'.rx_rptr = br.rx_rptr
      <3>1. \E X : Only(X) /\ "tx_wptr" \notin X /\ "rx_rptr" \notin X
        BY <2>1 DEF EffFetch
      <3> QED BY <3>1, PtrKept
    <2>3. br'.st # "S_WAIT"
      BY <1>3, <2>1, OnlyIs DEF EffFetch
    <2> QED BY <1>b, <2>2, <2>3
  <1>4. CASE br.st = "S_TX_WRITE"
    <2>1. EffWrite
      BY <1>4, TxEffects
    <2>2. br'.tx_wptr = br.tx_wptr /\ br'.rx_rptr = br.rx_rptr
      BY <2>1, OpKeeps DEF EffWrite
    <2>3. br'.ret # "S_IDLE"
      BY <2>1 DEF EffWrite, Starts
    <2> QED BY <1>b, <2>2, <2>3
  <1>5. CASE br.st = "S_TX_PACK"
    <2>1. EffPack
      BY <1>5, TxEffects
    <2>2. br'.tx_wptr = br.tx_wptr /\ br'.rx_rptr = br.rx_rptr /\ br'.st # "S_WAIT"
      BY <2>1, OnlyIs DEF EffPack
    <2> QED BY <1>b, <2>2
  <1>6. CASE br.st = "S_TX_HDR"
    <2>1. EffHdr
      BY <1>6, TxEffects
    <2>2. br'.tx_wptr = br.tx_wptr /\ br'.rx_rptr = br.rx_rptr
      BY <2>1, OpKeeps DEF EffHdr
    <2>3. br'.ret # "S_IDLE"
      BY <2>1 DEF EffHdr, Starts
    <2> QED BY <1>b, <2>2, <2>3
  <1>7. CASE br.st = "S_TX_WPTR"
    <2>1. EffWptr
      BY <1>7, TxEffects
    <2>2. br'.rx_rptr = br.rx_rptr
      BY <2>1, OnlyIs DEF EffWptr, OpReg
    <2>3. /\ br'.tx_wptr = br.tx_wptr + 1 /\ br'.st = "S_WAIT" /\ br'.ret = "S_IDLE"
          /\ br'.m_addr = A("TXWPTR")
      BY <2>1 DEF EffWptr, Starts
    <2> QED BY <1>7, <1>a, <2>2, <2>3 DEF Landing, Writing, Wait_, Kind
  <1>8. CASE br.st = "S_RX_POLL"
    <2>1. EffPoll
      BY <1>8, RxEffects
    <2>2. br'.tx_wptr = br.tx_wptr /\ br'.rx_rptr = br.rx_rptr
      <3>1. \E X : Only(X) /\ "tx_wptr" \notin X /\ "rx_rptr" \notin X
        BY <2>1 DEF EffPoll, OpReg
      <3> QED BY <3>1, PtrKept
    <2>3. br'.st # "S_WAIT" \/ br'.ret # "S_IDLE"
      BY <2>1 DEF EffPoll, Starts
    <2> QED BY <1>b, <2>2, <2>3
  <1>9. CASE br.st = "S_RX_HDR"
    <2>1. EffRxHdr
      BY <1>9, RxEffects
    <2>2. br'.tx_wptr = br.tx_wptr /\ br'.rx_rptr = br.rx_rptr
      <3>1. \E X : Only(X) /\ "tx_wptr" \notin X /\ "rx_rptr" \notin X
        BY <2>1 DEF EffRxHdr, OpReg
      <3> QED BY <3>1, PtrKept
    <2>3. br'.st # "S_WAIT" \/ br'.ret # "S_IDLE"
      BY <2>1 DEF EffRxHdr, Starts
    <2> QED BY <1>b, <2>2, <2>3
  <1>10. CASE br.st = "S_RX_READ"
    <2>1. EffRead
      BY <1>10, RxEffects
    <2>2. br'.tx_wptr = br.tx_wptr /\ br'.rx_rptr = br.rx_rptr /\ br'.st # "S_WAIT"
      BY <2>1, OnlyIs DEF EffRead
    <2> QED BY <1>b, <2>2
  <1>11. CASE br.st = "S_RX_STREAM"
    <2>1. EffStream
      BY <1>11, RxEffects
    <2>2. br'.tx_wptr = br.tx_wptr /\ br'.rx_rptr = br.rx_rptr
      <3>1. \E X : Only(X) /\ "tx_wptr" \notin X /\ "rx_rptr" \notin X
        BY <2>1 DEF EffStream, OpReg
      <3> QED BY <3>1, PtrKept
    <2>3. br'.st # "S_WAIT" \/ br'.ret # "S_IDLE"
      BY <1>11, <2>1, OnlyIs DEF EffStream, Starts
    <2> QED BY <1>b, <2>2, <2>3
  <1>12. CASE br.st = "S_RX_RPTR"
    <2>1. EffRptr
      BY <1>12, RxEffects
    <2>2. br'.tx_wptr = br.tx_wptr
      BY <2>1, OnlyIs DEF EffRptr, OpReg
    <2>3. /\ br'.rx_rptr = br.rx_rptr + 1 /\ br'.st = "S_WAIT" /\ br'.ret = "S_IDLE"
          /\ br'.m_addr = A("RXRPTR")
      BY <2>1 DEF EffRptr, Starts
    <2> QED BY <1>12, <1>a, <2>2, <2>3 DEF Landing, Writing, Wait_, Kind
  <1> QED BY <1>1, <1>2, <1>3, <1>4, <1>5, <1>6, <1>7, <1>8, <1>9, <1>10, <1>11, <1>12
          DEF Serving, TxState, RxState

(* Before the mailbox is published.                                        *)
LEMMA NotServing ==
  ASSUME BridgeInv, NEW poll_tick, Moves(Step(poll_tick)), box_ack' = FALSE,
         br.st \in InitState \cup {"S_OFF", "S_INIT_CLEAR"}
  PROVE  ~Live'
  <1>1. CASE br.st = "S_OFF"
    <2>0. EffOff
      BY <1>1, InitEffects
    <2>1. br'.st \in {"S_OFF", "S_INIT_CLEAR"}
      BY <1>1, <2>0, OnlyIs DEF EffOff
    <2> QED BY <2>1 DEF Live, Phase, TxState, RxState
  <1>2. CASE br.st = "S_INIT_CLEAR"
    <2>1. br'.st = "S_WAIT" /\ br'.ret = "S_INIT_TXPTR"
      BY <1>2, InitEffects DEF EffClear, Starts
    <2> QED BY <2>1 DEF Live, Phase, TxState, RxState
  <1>3. CASE br.st \in {"S_INIT_TXPTR", "S_INIT_RXWPTR", "S_INIT_RXRPTR"}
    <2>1. br'.st = "S_WAIT" /\ br'.ret \in {"S_INIT_RXWPTR", "S_INIT_RXRPTR", "S_INIT_MAC"}
      BY <1>3, InitEffects DEF EffInit, Starts
    <2> QED BY <2>1 DEF Live, Phase, TxState, RxState
  <1>4. CASE br.st = "S_INIT_MAC"
    <2>1. br'.st = "S_WAIT" /\ br'.ret \in {"S_INIT_MAGIC", "S_OFF"}
      BY <1>4, InitEffects DEF EffInitMac, Starts
    <2> QED BY <2>1 DEF Live, Phase, TxState, RxState
  <1>5. CASE br.st = "S_INIT_MAGIC"
    <2>1. br'.st = "S_WAIT" /\ br'.ret = "S_IDLE" /\ br'.m_addr = A("MAGIC")
      BY <1>5, InitEffects DEF EffMagic, Starts
    <2> QED BY <2>1 DEF Live, Landing, Writing, Wait_
  <1> QED BY <1>1, <1>2, <1>3, <1>4, <1>5 DEF InitState

(* The mailbox stays published while the rings are served.                 *)
LEMMA LivePlain ==
  ASSUME BridgeInv, LiveInv, BoxInv, RxInv, NEW poll_tick, Moves(Step(poll_tick)), br.st # "S_WAIT",
         box' = box, box_ack' = FALSE, ours' <=> ours, gen_base' = gen_base, pushed' = pushed
  PROVE  LiveInv'
  <1>0. br.st \in InitState \cup {"S_OFF", "S_INIT_CLEAR"} \/ br.st \in Serving
    BY States DEF BridgeInv, Serving
  <1>1. CASE br.st \in InitState \cup {"S_OFF", "S_INIT_CLEAR"}
    BY <1>1, NotServing DEF LiveInv
  <1>2. CASE br.st \in Serving
    <2>1. Live /\ ~Landing("TXWPTR") /\ ~Landing("RXRPTR")
      BY <1>2 DEF Live, Phase, Landing, Writing, Wait_, Serving
    <2>2. /\ box[A("MAGIC")] /\ ours /\ box[A("TXWPTR")] = br.tx_wptr /\ box[A("RXRPTR")] = br.rx_rptr
          /\ box[A("RXRPTR")] \in Nat /\ box[A("RXWPTR")] = pushed - gen_base
          /\ br.rx_rptr <= box[A("RXWPTR")] /\ box[A("RXWPTR")] - box[A("RXRPTR")] <= Slots
          /\ \A p \in box[A("RXRPTR")] .. (box[A("RXWPTR")] - 1) : HoldsRx(p, gen_base + 1 + p)
          /\ br.st = "S_RX_RPTR" => br.rx_rptr < box[A("RXWPTR")]
      BY <2>1 DEF LiveInv, RxInv, RxWork, Phase
    <2>3. /\ br.tx_wptr \in Nat /\ br.rx_rptr \in Nat /\ pushed \in Nat /\ gen_base \in Nat
      BY DEF BridgeInv, BoxInv
    <2>4. \A p, k : HoldsRx(p, k)' <=> HoldsRx(p, k)
      BY DEF HoldsRx
    <2>p. /\ \/ br'.tx_wptr = br.tx_wptr /\ ~Landing("TXWPTR")'
             \/ br.st = "S_TX_WPTR" /\ br'.tx_wptr = br.tx_wptr + 1 /\ Landing("TXWPTR")'
          /\ \/ br'.rx_rptr = br.rx_rptr /\ ~Landing("RXRPTR")'
             \/ br.st = "S_RX_RPTR" /\ br'.rx_rptr = br.rx_rptr + 1 /\ Landing("RXRPTR")'
      BY <1>2, PtrMoves
    <2>5. box'[A("TXWPTR")] = IF Landing("TXWPTR")' THEN br'.tx_wptr - 1 ELSE br'.tx_wptr
      BY <2>2, <2>3, <2>p
    <2>6. /\ box'[A("RXRPTR")] = IF Landing("RXRPTR")' THEN br'.rx_rptr - 1 ELSE br'.rx_rptr
          /\ br'.rx_rptr <= box[A("RXWPTR")]
      BY <2>2, <2>3, <2>p
    <2> HIDE DEF Landing
    <2> QED BY <2>2, <2>4, <2>5, <2>6 DEF LiveInv
  <1> QED BY <1>0, <1>1, <1>2

(* A write elsewhere leaves the receive slots alone.                       *)
LEMMA RxKept ==
  ASSUME NEW a, \A w \in MailboxWord : w # a => box'[w] = box[w], \A p, w : RxWord(p, w) # a,
         NEW p \in Nat, NEW k
  PROVE  HoldsRx(p, k)' <=> HoldsRx(p, k)
  <1>1. \A w \in 0 .. Words : RxWord(p, w) \in MailboxWord
    BY Addresses
  <1>2. \A w \in 0 .. Words : box'[RxWord(p, w)] = box[RxWord(p, w)]
    BY <1>1
  <1>3. Words \in Nat
    <2>1. MaxFrame + Lanes - 1 \in Nat /\ Lanes \in Nat \ {0}
      BY Sizes
    <2> QED BY <2>1, DivIs DEF Words
  <1>4. 0 \in 0 .. Words /\ \A w \in 1 .. Words : w \in 0 .. Words
    BY <1>3
  <1> QED BY <1>2, <1>4 DEF HoldsRx

(* A landing MAGIC publishes an empty mailbox of this generation.          *)
LEMMA LivePublish ==
  ASSUME BridgeInv, InitInv, BoxInv, NEW poll_tick, Moves(Step(poll_tick)), Access(TRUE),
         box_ack' = TRUE, Landing("MAGIC"), pushed' = pushed
  PROVE  /\ LiveInv' /\ Live' /\ box'[A("TXWPTR")] = 0 /\ gen_base' = pushed /\ br'.rx_rptr = 0
         /\ ours' /\ br'.tx_wptr = 0
  <1>0. Operation /\ br.st = "S_WAIT" /\ br.ret = "S_IDLE" /\ br.m_addr = A("MAGIC") /\ ~box_ack
    BY DEF BridgeInv, Landing, Writing, Wait_
  <1>a. /\ \A k \in Kind : A(k) \in MailboxWord
        /\ \A j, k \in Kind : A(j) = A(k) => j = k
    BY Addresses
  <1>1. br.m_we /\ br.m_wdata = TRUE
    BY <1>0, <1>a DEF Operation, Write, WriteMac, Kind
  <1>2. /\ \A w \in MailboxWord : w # A("MAGIC") => box'[w] = box[w]
        /\ box'[A("MAGIC")] = TRUE /\ ours' /\ gen_base' = pushed
    BY <1>0, <1>1, <1>a, AccessIs DEF Kind
  <1>3. /\ box'[A("TXWPTR")] = box[A("TXWPTR")] /\ box'[A("RXRPTR")] = box[A("RXRPTR")]
        /\ box'[A("RXWPTR")] = box[A("RXWPTR")]
    BY <1>2, <1>a DEF Kind
  <1>4. /\ TxZero /\ WZero /\ RZero /\ PtrZero
    BY DEF TxZero, WZero, RZero, PtrZero, Landing
  <1>5. /\ box[A("TXWPTR")] = 0 /\ box[A("RXRPTR")] = 0 /\ box[A("RXWPTR")] = 0
        /\ br.tx_wptr = 0 /\ br.rx_rptr = 0
    BY <1>4 DEF InitInv
  <1>w. EffWait
    BY <1>0, WaitEffects
  <1>6. br'.tx_wptr = 0 /\ br'.rx_rptr = 0 /\ br'.st = "S_WAIT" /\ br'.ret = "S_IDLE"
        /\ br'.m_addr = A("MAGIC")
    BY <1>0, <1>5, <1>w, WaitKeeps DEF EffWait
  <1>7. ~Landing("TXWPTR")' /\ ~Landing("RXRPTR")' /\ Live'
    BY <1>6 DEF Live, Landing, Phase
  <1>8. pushed - pushed = 0 /\ pushed \in Nat /\ Slots \in Nat
    BY Sizes DEF BoxInv
  <1>9. LiveInv'
    BY <1>2, <1>3, <1>5, <1>6, <1>7, <1>8 DEF LiveInv
  <1> QED BY <1>2, <1>3, <1>5, <1>6, <1>7, <1>9

(* What else can land while the mailbox is published.                      *)
LEMMA LiveLands ==
  ASSUME BridgeInv, Live, br.st = "S_WAIT"
  PROVE  \/ br.ret = "S_IDLE" /\ Write(A("MAGIC"), TRUE) /\ box_ack
         \/ br.ret = "S_IDLE" /\ Write(A("TXWPTR"), br.tx_wptr) /\ br.m_addr # A("RXRPTR")
         \/ br.ret = "S_IDLE" /\ Write(A("RXRPTR"), br.rx_rptr) /\ br.m_addr # A("TXWPTR")
         \/ br.ret = "S_IDLE" /\ WriteMac /\ br.m_addr # A("TXWPTR") /\ br.m_addr # A("RXRPTR")
         \/ br.ret \in {"S_TX_PACK", "S_TX_HDR"} /\ Write(TxWord(br.tx_wptr, 1 + Row), br.pack)
         \/ br.ret = "S_TX_WPTR" /\ Write(TxWord(br.tx_wptr, 0), br.cur_len)
         \/ br.ret \in {"S_RX_POLL", "S_RX_HDR", "S_RX_READ"} /\ ~br.m_we /\ ~br.op_we
  <1>0. Operation /\ br.ret \in RetState /\ box_ack \in BOOLEAN
    BY DEF BridgeInv
  <1>a. \A j, k \in Kind : A(j) = A(k) => j = k
    BY Addresses
  <1>1. br.ret \in {"S_IDLE", "S_TX_PACK", "S_TX_HDR", "S_TX_WPTR", "S_RX_POLL", "S_RX_HDR", "S_RX_READ"}
    BY <1>0 DEF Live, Phase, RetState, InitState, TxState, RxState
  <1>2. CASE br.ret = "S_IDLE"
    <2>1. \/ Write(A("MAGIC"), TRUE) \/ Write(A("TXWPTR"), br.tx_wptr)
          \/ Write(A("RXRPTR"), br.rx_rptr) \/ WriteMac
      BY <1>0, <1>2 DEF Operation
    <2>2. Write(A("MAGIC"), TRUE) => box_ack
      BY <1>0, <1>2 DEF Live, Landing, Writing, Wait_, Write
    <2>3. /\ Write(A("TXWPTR"), br.tx_wptr) => br.m_addr # A("RXRPTR")
          /\ Write(A("RXRPTR"), br.rx_rptr) => br.m_addr # A("TXWPTR")
          /\ WriteMac => br.m_addr # A("TXWPTR") /\ br.m_addr # A("RXRPTR")
      BY <1>a DEF Write, WriteMac, Kind
    <2> QED BY <1>2, <2>1, <2>2, <2>3
  <1>3. CASE br.ret \in {"S_TX_PACK", "S_TX_HDR"}
    BY <1>0, <1>3 DEF Operation
  <1>4. CASE br.ret = "S_TX_WPTR"
    BY <1>0, <1>4 DEF Operation
  <1>5. CASE br.ret \in {"S_RX_POLL", "S_RX_HDR", "S_RX_READ"}
    BY <1>0, <1>5 DEF Operation, Read
  <1> QED BY <1>1, <1>2, <1>3, <1>4, <1>5

(* LiveInv under S_WAIT.                                                   *)
LEMMA LiveWait ==
  ASSUME BridgeInv, BoxInv, InitInv, LiveInv, NEW poll_tick, NEW answer \in BOOLEAN, Moves(Step(poll_tick)),
         Access(answer), box_ack' = answer, br.st = "S_WAIT", pushed' = pushed
  PROVE  LiveInv'
  <1>0. box_ack \in BOOLEAN /\ br.ret \in RetState
    BY DEF BridgeInv
  <1>1. CASE /\ ~box_ack /\ ~answer /\ Only({}) /\ box' = box /\ (ours' <=> ours) /\ gen_base' = gen_base
    <2>1. br'.st = br.st /\ br'.ret = br.ret /\ br'.m_addr = br.m_addr
          /\ br'.tx_wptr = br.tx_wptr /\ br'.rx_rptr = br.rx_rptr
      BY <1>1, WaitKeeps
    <2>2. /\ Live' <=> Live
          /\ Landing("TXWPTR")' <=> Landing("TXWPTR")
          /\ Landing("RXRPTR")' <=> Landing("RXRPTR")
      BY <1>1, <2>1 DEF Live, Landing, Writing, Wait_, Phase
    <2>3. \A p, k : HoldsRx(p, k)' <=> HoldsRx(p, k)
      BY <1>1 DEF HoldsRx
    <2> QED BY <1>1, <2>1, <2>2, <2>3 DEF LiveInv
  <1>2. CASE /\ box_ack /\ ~answer /\ Only({"st", "m_req", "op_rdata"}) /\ br'.st = br.ret /\ box' = box
             /\ (ours' <=> ours) /\ gen_base' = gen_base
    <2>1. br'.tx_wptr = br.tx_wptr /\ br'.rx_rptr = br.rx_rptr
      BY <1>2, AckKeeps
    <2>2. /\ Live' => Live
          /\ ~Landing("TXWPTR")' /\ ~Landing("TXWPTR") /\ ~Landing("RXRPTR")' /\ ~Landing("RXRPTR")
      BY <1>0, <1>2 DEF Live, Landing, Writing, Wait_, Phase, RetState, InitState
    <2>3. \A p, k : HoldsRx(p, k)' <=> HoldsRx(p, k)
      BY <1>2 DEF HoldsRx
    <2> QED BY <1>2, <2>1, <2>2, <2>3 DEF LiveInv
  <1>3. CASE /\ ~box_ack /\ answer /\ Only({})
             /\ ~br.m_we => box' = box
             /\ br.m_we => /\ \A w \in MailboxWord : w # br.m_addr => box'[w] = box[w]
                           /\ br.m_addr \in MailboxWord => box'[br.m_addr] = br.m_wdata
    <2>1. /\ br'.st = br.st /\ br'.ret = br.ret /\ br'.m_addr = br.m_addr
          /\ br'.tx_wptr = br.tx_wptr /\ br'.rx_rptr = br.rx_rptr /\ box_ack' = TRUE
          /\ answer = TRUE
      BY <1>3, WaitKeeps
    <2>2. CASE Landing("MAGIC")
      BY <2>1, <2>2, LivePublish
    <2>3. CASE ~Landing("MAGIC")
      <3> SUFFICES ASSUME Live' PROVE LiveInv'
        BY DEF LiveInv
      <3>1. Live
        BY <2>1, <2>3 DEF Live, Phase
      <3>2. ~Landing("TXWPTR")' /\ ~Landing("RXRPTR")'
        BY <2>1 DEF Landing
      <3>a. /\ \A k \in Kind : A(k) \in MailboxWord
            /\ \A j, k \in Kind : A(j) = A(k) => j = k
            /\ \A k \in Kind : \A p, w : TxWord(p, w) # A(k) /\ RxWord(p, w) # A(k)
            /\ \A p, q, v, w : TxWord(p, w) # RxWord(q, v)
        BY Addresses
      <3>3. /\ box[A("MAGIC")] /\ ours
            /\ box[A("TXWPTR")] = IF Landing("TXWPTR") THEN br.tx_wptr - 1 ELSE br.tx_wptr
            /\ box[A("RXRPTR")] = IF Landing("RXRPTR") THEN br.rx_rptr - 1 ELSE br.rx_rptr
            /\ box[A("RXRPTR")] \in Nat
            /\ box[A("RXWPTR")] = pushed - gen_base
            /\ br.rx_rptr <= box[A("RXWPTR")] /\ box[A("RXWPTR")] - box[A("RXRPTR")] <= Slots
            /\ \A p \in box[A("RXRPTR")] .. (box[A("RXWPTR")] - 1) : HoldsRx(p, gen_base + 1 + p)
            /\ br.rx_rptr \in Nat /\ br.tx_wptr \in Nat /\ pushed \in Nat /\ gen_base \in Nat
        BY <3>1 DEF LiveInv, BridgeInv, BoxInv
      <3>4. (ours' <=> ours) /\ gen_base' = gen_base
        <4>1. ~(br.m_we /\ br.m_addr = A("MAGIC") /\ br.m_wdata)
          <5>1. CASE br.ret = "S_IDLE"
            BY <1>3, <2>3, <5>1 DEF Landing, Writing, Wait_
          <5>2. CASE br.ret # "S_IDLE"
            BY <3>1, <3>a, <5>2, LiveLands DEF Write, Kind
          <5> QED BY <5>1, <5>2
        <4> QED BY <4>1, AccessIs
      <3>5. CASE br.ret = "S_IDLE" /\ Write(A("TXWPTR"), br.tx_wptr) /\ br.m_addr # A("RXRPTR")
        <4>1. Landing("TXWPTR") /\ ~Landing("RXRPTR")
          BY <1>3, <3>5 DEF Landing, Writing, Wait_, Write
        <4>2. /\ box'[A("TXWPTR")] = br.tx_wptr /\ box'[A("MAGIC")] = box[A("MAGIC")]
              /\ box'[A("RXRPTR")] = box[A("RXRPTR")] /\ box'[A("RXWPTR")] = box[A("RXWPTR")]
          BY <1>3, <3>5, <3>a DEF Write, Kind
        <4>3. \A p \in Nat : \A k : HoldsRx(p, k)' <=> HoldsRx(p, k)
          <5>1. br.m_addr = A("TXWPTR") /\ br.m_we
            BY <3>5 DEF Write
          <5>2. \A p, w : RxWord(p, w) # br.m_addr
            BY <3>a, <5>1 DEF Kind
          <5> QED BY <1>3, <5>1, <5>2, RxKept
        <4>4. \A p \in box'[A("RXRPTR")] .. (box'[A("RXWPTR")] - 1) : p \in Nat /\ p \in box[A("RXRPTR")] .. (box[A("RXWPTR")] - 1)
          BY <3>3, <4>2
        <4> QED BY <2>1, <3>2, <3>3, <3>4, <4>1, <4>2, <4>3, <4>4 DEF LiveInv
      <3>6. CASE br.ret = "S_IDLE" /\ Write(A("RXRPTR"), br.rx_rptr) /\ br.m_addr # A("TXWPTR")
        <4>1. Landing("RXRPTR") /\ ~Landing("TXWPTR")
          BY <1>3, <3>6 DEF Landing, Writing, Wait_, Write
        <4>2. /\ box'[A("RXRPTR")] = br.rx_rptr /\ box'[A("MAGIC")] = box[A("MAGIC")]
              /\ box'[A("TXWPTR")] = box[A("TXWPTR")] /\ box'[A("RXWPTR")] = box[A("RXWPTR")]
          BY <1>3, <3>6, <3>a DEF Write, Kind
        <4>3. \A p \in Nat : \A k : HoldsRx(p, k)' <=> HoldsRx(p, k)
          <5>1. br.m_addr = A("RXRPTR") /\ br.m_we
            BY <3>6 DEF Write
          <5>2. \A p, w : RxWord(p, w) # br.m_addr
            BY <3>a, <5>1 DEF Kind
          <5> QED BY <1>3, <5>1, <5>2, RxKept
        <4>4. \A p \in box'[A("RXRPTR")] .. (box'[A("RXWPTR")] - 1) : p \in Nat /\ p \in box[A("RXRPTR")] .. (box[A("RXWPTR")] - 1)
          BY <3>3, <4>1, <4>2
        <4>5. box'[A("RXWPTR")] - box'[A("RXRPTR")] <= Slots
          BY <3>3, <4>1, <4>2, Sizes
        <4> QED BY <2>1, <3>2, <3>3, <3>4, <4>1, <4>2, <4>3, <4>4, <4>5 DEF LiveInv
      <3>7. CASE /\ \A k \in Kind \ {"MAC"} : box'[A(k)] = box[A(k)]
                 /\ \A p \in Nat : \A k : HoldsRx(p, k)' <=> HoldsRx(p, k)
                 /\ ~Landing("TXWPTR") /\ ~Landing("RXRPTR")
        <4>2. /\ box'[A("RXRPTR")] = box[A("RXRPTR")] /\ box'[A("MAGIC")] = box[A("MAGIC")]
              /\ box'[A("TXWPTR")] = box[A("TXWPTR")] /\ box'[A("RXWPTR")] = box[A("RXWPTR")]
          BY <3>7 DEF Kind
        <4>4. \A p \in box'[A("RXRPTR")] .. (box'[A("RXWPTR")] - 1) : p \in Nat /\ p \in box[A("RXRPTR")] .. (box[A("RXWPTR")] - 1)
          BY <3>3, <4>2
        <4> QED BY <2>1, <3>2, <3>3, <3>4, <3>7, <4>2, <4>4 DEF LiveInv
      <3>8. CASE br.ret = "S_IDLE" /\ WriteMac /\ br.m_addr # A("TXWPTR") /\ br.m_addr # A("RXRPTR")
        <4>1. br.m_addr = A("MAC") /\ br.m_we
          BY <3>8 DEF WriteMac
        <4>2. \A k \in Kind \ {"MAC"} : box'[A(k)] = box[A(k)]
          BY <1>3, <3>a, <4>1 DEF Kind
        <4>3. \A p, w : RxWord(p, w) # br.m_addr
          BY <3>a, <4>1 DEF Kind
        <4>4. ~Landing("TXWPTR") /\ ~Landing("RXRPTR")
          BY <3>8 DEF Landing, Writing
        <4> QED BY <1>3, <3>7, <4>1, <4>2, <4>3, <4>4, RxKept
      <3>9. CASE /\ br.ret \in {"S_TX_PACK", "S_TX_HDR", "S_TX_WPTR"} /\ br.m_we
                 /\ \E w : br.m_addr = TxWord(br.tx_wptr, w)
        <4>2. \A k \in Kind \ {"MAC"} : box'[A(k)] = box[A(k)]
          BY <1>3, <3>a, <3>9 DEF Kind
        <4>3. \A p, w : RxWord(p, w) # br.m_addr
          BY <3>a, <3>9
        <4>4. ~Landing("TXWPTR") /\ ~Landing("RXRPTR")
          BY <3>9 DEF Landing, Writing, Wait_
        <4> QED BY <1>3, <3>7, <3>9, <4>2, <4>3, <4>4, RxKept
      <3>10. CASE br.ret \in {"S_RX_POLL", "S_RX_HDR", "S_RX_READ"} /\ ~br.m_we
        <4>1. box' = box
          BY <1>3, <3>10
        <4>2. \A p, k : HoldsRx(p, k)' <=> HoldsRx(p, k)
          BY <4>1 DEF HoldsRx
        <4>4. ~Landing("TXWPTR") /\ ~Landing("RXRPTR")
          BY <3>10 DEF Landing, Writing, Wait_
        <4> QED BY <3>7, <4>1, <4>2, <4>4
      <3> QED BY <1>3, <3>1, <3>5, <3>6, <3>8, <3>9, <3>10, LiveLands DEF Write
    <2> QED BY <2>2, <2>3
  <1> QED BY <1>1, <1>2, <1>3, WaitIs

(* LiveInv under a clock.                                                  *)
LEMMA LiveNext ==
  ASSUME BridgeInv, BoxInv, InitInv, LiveInv, RxInv, NEW poll_tick, NEW answer \in BOOLEAN,
         Moves(Step(poll_tick)), Access(answer), box_ack' = answer, pushed' = pushed
  PROVE  LiveInv'
  <1>1. CASE br.st = "S_WAIT"
    BY <1>1, LiveWait
  <1>2. CASE br.st # "S_WAIT"
    BY <1>2, Still, LivePlain
  <1> QED BY <1>1, <1>2

-----------------------------------------------------------------------------
(* The registers of the MAC after a clock.                                 *)

(* The MAC's registers outside its packet buffer.                          *)
PlainReg == MacReg \ {"pkt", "pkt_q", "pw"}
MacOnly(X) == \A x \in PlainReg \ X : mac'[x] = mac[x]
Readout == IF mac.est = "E_BTX" THEN br.btx_addr ELSE mac.rx_pos
Stored == IF mac.pw = None THEN mac.pkt ELSE [mac.pkt EXCEPT ![mac.pw[1]] = mac.pw[2]]
MacMoves(e, c) ==
    /\ MacReg \subseteq DOMAIN mac'
    /\ \A x \in PlainReg : mac'[x] = Val(e, x, Val(c, x, mac[x]))
    /\ mac'.pkt_q = mac.pkt[Readout] /\ mac'.pkt = Stored
    /\ mac'.pw = Val(e, "pw", None)

(* Nothing but the engine writes the buffer's registers.                   *)
LEMMA MacMovesIs ==
  ASSUME NEW e, NEW c, MacReg \subseteq DOMAIN mac, mac' = ((e ++ c) ++ Buffer(br)) ++ mac,
         {"pkt", "pkt_q"} \cap DOMAIN e = {}, {"pkt", "pkt_q", "pw"} \cap DOMAIN c = {}
  PROVE  MacMoves(e, c)
  <1> DEFINE b == Buffer(br)
  <1>1. /\ DOMAIN b = {"pkt", "pkt_q", "pw"} /\ b.pkt_q = mac.pkt[Readout] /\ b.pkt = Stored
        /\ b.pw = None
    BY DEF Buffer, Readout, Stored
  <1>2. mac' = ((e ++ c) ++ b) ++ mac
    OBVIOUS
  <1> HIDE DEF b
  <1>3. /\ MacReg \subseteq DOMAIN mac'
        /\ \A x \in MacReg : mac'[x] = Val((e ++ c) ++ b, x, mac[x])
    BY <1>2, AtOver
  <1>4. \A x, v : Val((e ++ c) ++ b, x, v) = Val(e ++ c, x, Val(b, x, v))
    BY ValOver
  <1>5. \A x, v : Val(e ++ c, x, v) = Val(e, x, Val(c, x, v))
    BY ValOver
  <1>6. \A x \in MacReg : mac'[x] = Val(e, x, Val(c, x, Val(b, x, mac[x])))
    BY <1>3, <1>4, <1>5
  <1>7. \A x \in PlainReg : \A v : Val(b, x, v) = v
    BY <1>1 DEF Val, PlainReg
  <1>8. PlainReg \subseteq MacReg /\ {"pkt", "pkt_q", "pw"} \subseteq MacReg
    BY DEF PlainReg, MacReg
  <1>9. \A x \in PlainReg : mac'[x] = Val(e, x, Val(c, x, mac[x]))
    BY <1>6, <1>7, <1>8
  <1>10. /\ \A v : Val(b, "pkt_q", v) = mac.pkt[Readout]
         /\ \A v : Val(b, "pkt", v) = Stored /\ Val(b, "pw", v) = None
    BY <1>1 DEF Val
  <1>11. /\ \A v : Val(c, "pkt_q", v) = v /\ Val(c, "pkt", v) = v /\ Val(c, "pw", v) = v
         /\ \A v : Val(e, "pkt_q", v) = v /\ Val(e, "pkt", v) = v
    BY DEF Val
  <1>12. /\ mac'["pkt_q"] = mac.pkt[Readout] /\ mac'["pkt"] = Stored
         /\ mac'["pw"] = Val(e, "pw", None)
    BY <1>6, <1>8, <1>10, <1>11
  <1> QED BY <1>3, <1>9, <1>12 DEF MacMoves

(* The packet buffer, with the byte about to be stored.                    *)
LEMMA TupleIs ==
  ASSUME NEW n, NEW v
  PROVE  <<n, v>> # None /\ <<n, v>>[1] = n /\ <<n, v>>[2] = v
  <1>1. DOMAIN <<n, v>> = 1 .. 2 /\ DOMAIN None = {"none"}
    BY DEF None
  <1>2. 1 .. 2 # {"none"}
    <2>1. 1 \in 1 .. 2 /\ 2 \in 1 .. 2 /\ 1 # 2
      OBVIOUS
    <2> QED BY <2>1
  <1> QED BY <1>1, <1>2

(* The buffer takes the byte of the write port in the next clock.          *)
LEMMA BufferIs ==
  ASSUME mac.pkt = [i \in Buf |-> mac.pkt[i]], mac.pw # None => mac.pw[1] \in Buf,
         mac'.pkt = Stored
  PROVE  /\ mac'.pkt = [i \in Buf |-> mac'.pkt[i]]
         /\ \A p \in Buf : mac'.pkt[p] = InBuffer(p)
         /\ mac'.pw = None => \A p \in Buf : InBuffer(p)' = InBuffer(p)
         /\ \A n, v : mac'.pw = <<n, v>> =>
              \A p \in Buf : InBuffer(p)' = IF p = n THEN v ELSE InBuffer(p)
  <1>1. /\ mac'.pkt = [i \in Buf |-> mac'.pkt[i]]
        /\ \A p \in Buf : mac'.pkt[p] = InBuffer(p)
    <2>1. CASE mac.pw = None
      BY <2>1 DEF Stored, InBuffer
    <2>2. CASE mac.pw # None
      <3>1. mac'.pkt = [mac.pkt EXCEPT ![mac.pw[1]] = mac.pw[2]] /\ mac.pw[1] \in Buf
        BY <2>2 DEF Stored
      <3>2. mac'.pkt = [i \in Buf |-> IF i = mac.pw[1] THEN mac.pw[2] ELSE mac.pkt[i]]
        BY <3>1
      <3> QED BY <2>2, <3>2 DEF InBuffer
    <2> QED BY <2>1, <2>2
  <1>2. mac'.pw = None => \A p \in Buf : InBuffer(p)' = InBuffer(p)
    BY <1>1 DEF InBuffer
  <1>3. ASSUME NEW n, NEW v, mac'.pw = <<n, v>>, NEW p \in Buf
        PROVE  InBuffer(p)' = IF p = n THEN v ELSE InBuffer(p)
    BY <1>1, <1>3, TupleIs DEF InBuffer
  <1> QED BY <1>1, <1>2, <1>3

(* The driver's register writes.                                           *)
Stopped == mac.est = "E_IDLE" /\ ~mac.tx_en

(* What the driver writes: to a stopped channel, the enable last.          *)
LEMMA DriverIs ==
  ASSUME NEW w \in DriverWrites
  PROVE  LET c == CpuWrite(w) IN
         /\ {"pkt", "pkt_q", "pw", "est"} \cap DOMAIN c = {}
         /\ \/ /\ DOMAIN c \cap MacReg = {}
               /\ ~(w # None /\ w.reg = "tx_csr")
            \/ /\ Stopped /\ DOMAIN c \subseteq {"tx_next", "tx_limit"}
               /\ ~(w # None /\ w.reg = "tx_csr")
            \/ /\ Stopped /\ sent < TxFrames /\ w # None /\ w.reg = "tx_csr"
               /\ DOMAIN c \subseteq {"tx_en", "tx_cmp"} /\ "tx_en" \in DOMAIN c /\ c["tx_en"] = TRUE
               /\ mac.tx_next = TxEnd[sent + 1]
               /\ mac.tx_limit = [a |-> TxEnd[sent + 1 + 1], f |-> TRUE]
  <1> DEFINE c == CpuWrite(w)
  <1>1. CASE w = None
    BY <1>1, NoAssignment DEF CpuWrite
  <1>2. CASE w # None
    <2>1. \/ w = Setup
          \/ Stopped /\ sent < TxFrames /\ w = Send
          \/ w = [reg |-> "enet_mac", v |-> mac.enet_mac + 1]
      BY <1>2 DEF DriverWrites, Stopped
    <2>2. CASE w = [reg |-> "dis_loop", v |-> TRUE] \/ w = [reg |-> "rx_mode", v |-> "promiscuous"]
               \/ w = [reg |-> "enet_mac", v |-> mac.enet_mac + 1]
      <3>1. c = [x \in {w.reg} |-> w.v] /\ w.reg \in {"dis_loop", "rx_mode", "enet_mac"}
        BY <1>2, <2>2 DEF CpuWrite
      <3>2. DOMAIN c \subseteq {"dis_loop", "rx_mode", "enet_mac"}
        BY <3>1
      <3>3. {"dis_loop", "rx_mode", "enet_mac"} \cap MacReg = {}
            /\ {"dis_loop", "rx_mode", "enet_mac"} \cap {"pkt", "pkt_q", "pw", "est"} = {}
        BY DEF MacReg
      <3> QED BY <3>1, <3>2, <3>3
    <2>3. CASE w = [reg |-> "reset", v |-> FALSE]
      <3>1. c = [stopped |-> FALSE] /\ w.reg = "reset"
        BY <1>2, <2>3 DEF CpuWrite, MbReset
      <3> QED BY <3>1 DEF MacReg
    <2>4. CASE Stopped /\ w = [reg |-> "tx_next", v |-> TxEnd[sent + 1]]
      <3>1. c = [x \in {w.reg} |-> w.v] /\ w.reg = "tx_next"
        BY <1>2, <2>4 DEF CpuWrite
      <3> QED BY <2>4, <3>1
    <2>5. CASE Stopped /\ w = [reg |-> "tx_limit", v |-> [a |-> TxEnd[sent + 1 + 1], f |-> TRUE]]
      <3>1. c = [x \in {w.reg} |-> w.v] /\ w.reg = "tx_limit"
        BY <1>2, <2>5 DEF CpuWrite
      <3> QED BY <2>5, <3>1
    <2>6. CASE /\ Stopped /\ sent < TxFrames /\ w = [reg |-> "tx_csr", v |-> {"SETENABLE", "CLRCOMPLETE"}]
               /\ mac.tx_next = TxEnd[sent + 1]
               /\ mac.tx_limit = [a |-> TxEnd[sent + 1 + 1], f |-> TRUE]
      <3>1. c = CsrCmd("tx_en", "tx_sup", "tx_cmp", {"SETENABLE", "CLRCOMPLETE"}) /\ w.reg = "tx_csr"
        BY <1>2, <2>6 DEF CpuWrite
      <3> DEFINE f == [x \in {"tx_cmp"} |-> FALSE]
                 g == [x \in {"tx_en"} |-> TRUE]
      <3>2. c = ((f ++ g) ++ <<>>) ++ <<>>
        BY <3>1 DEF CsrCmd
      <3>3. DOMAIN f = {"tx_cmp"} /\ DOMAIN g = {"tx_en"} /\ g["tx_en"] = TRUE
        OBVIOUS
      <3> HIDE DEF f, g
      <3>4. DOMAIN (f ++ g) = {"tx_cmp", "tx_en"} /\ (f ++ g)["tx_en"] = TRUE
        BY <3>3, OverIs
      <3>5. \A h : DOMAIN (h ++ <<>>) = DOMAIN h
        BY NoAssignment, OverIs
      <3>6. \A h : \A x \in DOMAIN h : (h ++ <<>>)[x] = h[x]
        BY NoAssignment, OverIs
      <3>7. DOMAIN c = {"tx_cmp", "tx_en"} /\ c["tx_en"] = TRUE
        BY <3>2, <3>4, <3>5, <3>6
      <3> QED BY <1>2, <2>6, <3>1, <3>7
    <2> QED BY <2>1, <2>2, <2>3, <2>4, <2>5, <2>6 DEF Setup, Send
  <1> QED BY <1>1, <1>2

(* A clock in which the driver writes nothing the argument is about.       *)
LEMMA EngineMoves ==
  ASSUME NEW e, NEW c, NEW X, MacMoves(e, c), DOMAIN c \cap MacReg = {}, DOMAIN e \cap PlainReg \subseteq X
  PROVE  /\ MacOnly(X)
         /\ \A x \in DOMAIN e \cap PlainReg : mac'[x] = e[x]
         /\ mac'.pw = IF "pw" \in DOMAIN e THEN e["pw"] ELSE None
  <1>1. PlainReg \subseteq MacReg
    BY DEF PlainReg
  <1>2. \A x \in PlainReg : mac'[x] = Val(e, x, mac[x])
    BY <1>1 DEF MacMoves, Val
  <1>3. mac'.pw = IF "pw" \in DOMAIN e THEN e["pw"] ELSE None
    BY DEF MacMoves, Val
  <1> QED BY <1>2, <1>3 DEF MacOnly, Val

(* The registers by name.                                                  *)
LEMMA MacOnlyIs ==
  ASSUME NEW X, MacOnly(X)
  PROVE  /\ "est" \notin X => mac'.est = mac.est
         /\ "tx_en" \notin X => mac'.tx_en = mac.tx_en
         /\ "rx_en" \notin X => mac'.rx_en = mac.rx_en
         /\ "tx_sup" \notin X => mac'.tx_sup = mac.tx_sup
         /\ "tx_next" \notin X => mac'.tx_next = mac.tx_next
         /\ "tx_limit" \notin X => mac'.tx_limit = mac.tx_limit
         /\ "tx_len" \notin X => mac'.tx_len = mac.tx_len
         /\ "m_req" \notin X => mac'.m_req = mac.m_req
         /\ "m_addr" \notin X => mac'.m_addr = mac.m_addr
         /\ "btx_req" \notin X => mac'.btx_req = mac.btx_req
         /\ "btx_len" \notin X => mac'.btx_len = mac.btx_len
         /\ "btx_q" \notin X => mac'.btx_q = mac.btx_q
         /\ "btx_ack" \notin X => mac'.btx_ack = mac.btx_ack
         /\ "btx_pending" \notin X => mac'.btx_pending = mac.btx_pending
         /\ "brx_pos" \notin X => mac'.brx_pos = mac.brx_pos
  <1>1. \A x \in PlainReg : x \notin X => mac'[x] = mac[x]
    BY DEF MacOnly
  <1>2. {"est", "tx_en", "rx_en", "tx_sup", "tx_next", "tx_limit", "tx_len", "m_req", "m_addr",
         "btx_req", "btx_len", "btx_q", "btx_ack", "btx_pending", "brx_pos"} \subseteq PlainReg
    BY DEF PlainReg, MacReg
  <1> QED BY <1>1, <1>2

(* What a clock does in each state of the engine.                          *)
TxRegs == {"tx_en", "tx_next", "tx_limit"}
Driver ==
    \/ mac'.tx_en = mac.tx_en /\ mac'.tx_next = mac.tx_next /\ mac'.tx_limit = mac.tx_limit /\ sent' = sent
    \/ ~mac.tx_en /\ mac'.tx_en = mac.tx_en /\ sent' = sent
    \/ /\ ~mac.tx_en /\ sent < TxFrames /\ sent' = sent + 1 /\ mac'.tx_en = TRUE
       /\ mac'.tx_next = TxEnd[sent + 1] /\ mac'.tx_limit = [a |-> TxEnd[sent + 1 + 1], f |-> TRUE]
MacIdle ==
    /\ MacOnly({"est", "brx_pos"} \cup TxRegs) /\ mac'.pw = None /\ Driver
    /\ \/ mac'.est = "E_IDLE" /\ mac'.brx_pos = mac.brx_pos
       \/ br.brx_start /\ brx_ready(cable) /\ mac'.est = "E_BRX" /\ mac'.brx_pos = 0
       \/ mac.tx_en /\ mac'.est = "E_TX_RD" /\ mac'.brx_pos = mac.brx_pos
MacRd ==
    /\ mac'.pw = None /\ sent' = sent
    /\ \/ mac.tx_next >= mac.tx_limit.a /\ MacOnly({"est"}) /\ mac'.est = "E_TX_END"
       \/ /\ ~(mac.tx_next >= mac.tx_limit.a) /\ MacOnly({"est", "m_req", "m_addr"})
          /\ mac'.est = "E_TX_ACK" /\ mac'.m_req = TRUE /\ mac'.m_addr = mac.tx_next
MacAck ==
    /\ sent' = sent /\ MacOnly({"est", "m_req", "tx_len", "tx_next"})
    /\ mac'.est = "E_TX_RD" /\ mac'.tx_len = mac.tx_len + 1 /\ mac'.tx_next = mac.tx_next + 1
    /\ mac'.pw = <<mac.tx_len, mac.m_addr>>
MacEnd ==
    /\ mac'.pw = None /\ sent' = sent /\ mac'.tx_en = FALSE
    /\ \/ MacOnly({"est", "tx_en", "tx_len"}) /\ mac'.tx_len = 0 /\ mac'.est = "E_IDLE"
       \/ /\ cable /\ MacOnly({"est", "tx_en", "btx_req", "btx_len"}) /\ mac'.est = "E_BTX"
          /\ mac'.btx_req = TRUE /\ mac'.btx_len = EffLen
MacBtx ==
    /\ mac'.pw = None /\ sent' = sent
    /\ \/ /\ br.btx_done \/ ~cable
          /\ MacOnly({"est", "btx_req", "btx_pending", "tx_len", "btx_ack", "btx_q"})
          /\ mac'.est = "E_IDLE" /\ mac'.btx_req = FALSE /\ mac'.btx_pending = FALSE /\ mac'.tx_len = 0
          /\ mac'.btx_ack = FALSE \/ (mac.btx_pending /\ br.btx_done)
       \/ /\ ~br.btx_done /\ cable /\ mac.btx_pending /\ MacOnly({"btx_q", "btx_ack", "btx_pending"})
          /\ mac'.btx_q = mac.pkt_q /\ mac'.btx_ack = TRUE /\ mac'.btx_pending = FALSE
       \/ /\ ~br.btx_done /\ cable /\ ~mac.btx_pending /\ MacOnly({"btx_ack", "btx_pending"})
          /\ mac'.btx_ack = FALSE
          /\ \/ br.btx_rd /\ mac'.btx_pending = TRUE
             \/ ~br.btx_rd /\ mac'.btx_pending = mac.btx_pending
MacBrx ==
    /\ sent' = sent /\ MacOnly({"est", "brx_pos"})
    /\ \/ mac.brx_pos >= br.brx_len /\ mac'.est = "E_IDLE"
       \/ ~(mac.brx_pos >= br.brx_len) /\ mac'.est = "E_BRX"
    /\ \/ br.brx_valid /\ mac.brx_pos < BufLen /\ mac'.brx_pos = mac.brx_pos + 1
          /\ mac'.pw = <<mac.brx_pos, br.brx_data>>
       \/ ~(br.brx_valid /\ mac.brx_pos < BufLen) /\ mac'.brx_pos = mac.brx_pos /\ mac'.pw = None
MacOff ==
    /\ sent' = sent /\ mac'.pw = None /\ mac'.est = "E_IDLE" /\ mac'.tx_en = FALSE /\ mac'.rx_en = FALSE
    /\ mac'.tx_sup = FALSE /\ mac'.tx_len = 0 /\ mac'.btx_req = FALSE /\ mac'.btx_ack = FALSE
    /\ mac'.btx_pending = FALSE /\ mac'.brx_pos = 0

(* The clock of the MAC outside its reset, and what the driver has sent.   *)
MacTick(w, tick) ==
    /\ w \in DriverWrites
    /\ MacClock(w, tick, mac.m_req, mac.m_addr, br, cable)
    /\ sent' = IF w # None /\ w.reg = "tx_csr" THEN sent + 1 ELSE sent

(* What E_IDLE assigns.                                                    *)
LEMMA MacIdleIs ==
  ASSUME MacInv, NEW w, NEW tick, MacTick(w, tick), mac.est = "E_IDLE"
  PROVE  MacIdle /\ mac'.pkt = Stored /\ mac'.pkt_q = mac.pkt[Readout] /\ MacReg \subseteq DOMAIN mac'
  <1> DEFINE c == CpuWrite(w)
             r == [brx_pos |-> 0, est |-> "E_BRX"]
             t == [est |-> "E_TX_RD"]
             o == [rx_status |-> (mac.rx_status \cup {"OVERFLOW"}) \ {"PKT_OK"},
                   rx_len |-> 0, tx_status |-> mac.tx_status \ {"NET_BUSY"}]
  <1>1. PICK e : /\ mac' = ((e ++ c) ++ Buffer(br)) ++ mac
                 /\ e = EIdle(tick, br, cable)
    BY DEF MacTick, MacClock, Engine
  <1>2. \/ e = <<>> \/ e = o
        \/ br.brx_start /\ brx_ready(cable) /\ e = r
        \/ mac.tx_en /\ e = t
    BY <1>1 DEF EIdle, MacInv
  <1>3. /\ {"pkt", "pkt_q", "pw", "est"} \cap DOMAIN c = {}
        /\ \/ /\ DOMAIN c \cap MacReg = {}
              /\ ~(w # None /\ w.reg = "tx_csr")
           \/ /\ Stopped /\ DOMAIN c \subseteq {"tx_next", "tx_limit"}
              /\ ~(w # None /\ w.reg = "tx_csr")
           \/ /\ Stopped /\ sent < TxFrames /\ w # None /\ w.reg = "tx_csr"
              /\ DOMAIN c \subseteq {"tx_en", "tx_cmp"} /\ "tx_en" \in DOMAIN c /\ c["tx_en"] = TRUE
              /\ mac.tx_next = TxEnd[sent + 1]
              /\ mac.tx_limit = [a |-> TxEnd[sent + 1 + 1], f |-> TRUE]
    BY DriverIs DEF MacTick
  <1>4. /\ DOMAIN r = {"brx_pos", "est"} /\ r["brx_pos"] = 0 /\ r["est"] = "E_BRX"
        /\ DOMAIN t = {"est"} /\ t["est"] = "E_TX_RD"
        /\ DOMAIN o = {"rx_status", "rx_len", "tx_status"}
    OBVIOUS
  <1>5. sent' = IF w # None /\ w.reg = "tx_csr" THEN sent + 1 ELSE sent
    BY DEF MacTick
  <1>6. MacReg \subseteq DOMAIN mac
    BY DEF MacInv
  <1> HIDE DEF c, r, t, o
  <1>7. DOMAIN e \cap {"pkt", "pkt_q", "pw"} = {} /\ DOMAIN e \cap PlainReg \subseteq {"est", "brx_pos"}
    BY <1>2, <1>4, NoAssignment DEF PlainReg, MacReg
  <1>8. MacMoves(e, c)
    BY <1>1, <1>3, <1>6, <1>7, MacMovesIs
  <1>9. /\ \A x \in PlainReg : mac'[x] = Val(e, x, Val(c, x, mac[x]))
        /\ mac'.pw = None
    BY <1>7, <1>8 DEF MacMoves, Val
  <1>10. {"est", "brx_pos", "tx_en", "tx_next", "tx_limit"} \subseteq PlainReg
         /\ DOMAIN c \cap PlainReg \subseteq TxRegs
    BY <1>3 DEF PlainReg, MacReg, TxRegs
  <1>11. MacOnly({"est", "brx_pos"} \cup TxRegs)
    BY <1>7, <1>9, <1>10 DEF MacOnly, Val
  <1>12. /\ mac'["est"] = Val(e, "est", "E_IDLE") /\ mac'["brx_pos"] = Val(e, "brx_pos", mac.brx_pos)
    <2>1. "est" \notin DOMAIN c /\ "brx_pos" \notin DOMAIN c
      BY <1>10 DEF TxRegs
    <2> QED BY <2>1, <1>9, <1>10 DEF Val
  <1>13. \/ mac'.est = "E_IDLE" /\ mac'.brx_pos = mac.brx_pos
         \/ br.brx_start /\ brx_ready(cable) /\ mac'.est = "E_BRX" /\ mac'.brx_pos = 0
         \/ mac.tx_en /\ mac'.est = "E_TX_RD" /\ mac'.brx_pos = mac.brx_pos
    BY <1>2, <1>4, <1>12, NoAssignment DEF Val
  <1>14. \A x \in TxRegs : mac'[x] = Val(c, x, mac[x])
    BY <1>7, <1>9, <1>10 DEF Val, TxRegs
  <1>15. Driver
    <2>1. CASE DOMAIN c \cap MacReg = {} /\ ~(w # None /\ w.reg = "tx_csr")
      <3>1. \A x \in TxRegs : x \notin DOMAIN c
        BY <2>1 DEF TxRegs, MacReg
      <3>2. \A x \in TxRegs : mac'[x] = mac[x]
        BY <3>1, <1>14 DEF Val
      <3> QED BY <3>2, <2>1, <1>5 DEF Driver, TxRegs
    <2>2. CASE Stopped /\ DOMAIN c \subseteq {"tx_next", "tx_limit"} /\ ~(w # None /\ w.reg = "tx_csr")
      <3>1. mac'["tx_en"] = mac["tx_en"]
        BY <2>2, <1>14 DEF TxRegs, Val
      <3> QED BY <3>1, <2>2, <1>5 DEF Driver, Stopped
    <2>3. CASE /\ Stopped /\ sent < TxFrames /\ w # None /\ w.reg = "tx_csr"
               /\ DOMAIN c \subseteq {"tx_en", "tx_cmp"} /\ "tx_en" \in DOMAIN c /\ c["tx_en"] = TRUE
               /\ mac.tx_next = TxEnd[sent + 1]
               /\ mac.tx_limit = [a |-> TxEnd[sent + 1 + 1], f |-> TRUE]
      <3>1. mac'["tx_en"] = TRUE /\ mac'["tx_next"] = mac["tx_next"] /\ mac'["tx_limit"] = mac["tx_limit"]
        BY <2>3, <1>14 DEF TxRegs, Val
      <3> QED BY <3>1, <2>3, <1>5 DEF Driver, Stopped
    <2> QED BY <1>3, <2>1, <2>2, <2>3
  <1> QED BY <1>8, <1>9, <1>11, <1>13, <1>15 DEF MacIdle, MacMoves

(* Outside the idle state the driver's writes reach none of them.          *)
LEMMA EngineIs ==
  ASSUME MacInv, NEW w, NEW tick, MacTick(w, tick), mac.est # "E_IDLE", NEW e, NEW X,
         e = Engine(tick, mac.m_req, mac.m_addr, br, cable),
         {"pkt", "pkt_q"} \cap DOMAIN e = {}, DOMAIN e \cap PlainReg \subseteq X
  PROVE  /\ MacOnly(X) /\ sent' = sent
         /\ \A x \in DOMAIN e \cap PlainReg : mac'[x] = e[x]
         /\ mac'.pw = IF "pw" \in DOMAIN e THEN e["pw"] ELSE None
         /\ mac'.pkt = Stored /\ mac'.pkt_q = mac.pkt[Readout] /\ MacReg \subseteq DOMAIN mac'
  <1> DEFINE c == CpuWrite(w)
  <1>1. mac' = ((e ++ c) ++ Buffer(br)) ++ mac
    BY DEF MacTick, MacClock
  <1>2. /\ {"pkt", "pkt_q", "pw"} \cap DOMAIN c = {} /\ DOMAIN c \cap MacReg = {}
        /\ ~(w # None /\ w.reg = "tx_csr")
    BY DriverIs DEF MacTick, Stopped
  <1>3. MacReg \subseteq DOMAIN mac
    BY DEF MacInv
  <1>4. sent' = sent
    BY <1>2 DEF MacTick
  <1> HIDE DEF c
  <1>5. MacMoves(e, c)
    BY <1>1, <1>2, <1>3, MacMovesIs
  <1> QED BY <1>2, <1>4, <1>5, EngineMoves DEF MacMoves

(* The assignments h are those of f and, elsewhere, those of g.            *)
Over(h, f, g) ==
    /\ DOMAIN h = DOMAIN f \cup DOMAIN g
    /\ \A x \in DOMAIN f : h[x] = f[x]
    /\ \A x \in DOMAIN g : x \notin DOMAIN f => h[x] = g[x]

(* ++ in the form the proofs use.                                          *)
LEMMA IsOver ==
  ASSUME NEW f, NEW g
  PROVE  Over(f ++ g, f, g)
  BY OverIs DEF Over

(* What every clock of the MAC does to its buffer.                         *)
Stores == mac'.pkt = Stored /\ mac'.pkt_q = mac.pkt[Readout] /\ MacReg \subseteq DOMAIN mac'

(* What E_TX_RD assigns.                                                   *)
LEMMA MacRdIs ==
  ASSUME MacInv, NEW w, NEW tick, MacTick(w, tick), mac.est = "E_TX_RD"
  PROVE  MacRd /\ Stores
  <1> DEFINE s == [est |-> "E_TX_END"]
             g == [m_req |-> TRUE, m_we |-> FALSE, m_addr |-> mac.tx_next, est |-> "E_TX_ACK"]
  <1>1. PICK e : e = Engine(tick, mac.m_req, mac.m_addr, br, cable)
    OBVIOUS
  <1>2. \/ mac.tx_next >= mac.tx_limit.a /\ e = s
        \/ ~(mac.tx_next >= mac.tx_limit.a) /\ e = g
    BY <1>1 DEF Engine, ETxRd
  <1>3. /\ DOMAIN s = {"est"} /\ s["est"] = "E_TX_END"
        /\ DOMAIN g = {"m_req", "m_we", "m_addr", "est"} /\ g["est"] = "E_TX_ACK"
        /\ g["m_req"] = TRUE /\ g["m_addr"] = mac.tx_next
        /\ {"est", "m_req", "m_addr"} \subseteq PlainReg /\ "m_we" \notin PlainReg
    BY DEF PlainReg, MacReg
  <1> HIDE DEF s, g
  <1>4. CASE mac.tx_next >= mac.tx_limit.a /\ e = s
    <2>1. {"pkt", "pkt_q"} \cap DOMAIN e = {} /\ DOMAIN e \cap PlainReg \subseteq {"est"}
          /\ "pw" \notin DOMAIN e
      BY <1>3, <1>4
    <2>2. /\ MacOnly({"est"}) /\ sent' = sent
          /\ \A x \in DOMAIN e \cap PlainReg : mac'[x] = e[x]
          /\ mac'.pw = IF "pw" \in DOMAIN e THEN e["pw"] ELSE None
          /\ mac'.pkt = Stored /\ mac'.pkt_q = mac.pkt[Readout] /\ MacReg \subseteq DOMAIN mac'
      BY <1>1, <2>1, EngineIs
    <2> QED BY <1>3, <1>4, <2>1, <2>2 DEF MacRd, Stores
  <1>5. CASE ~(mac.tx_next >= mac.tx_limit.a) /\ e = g
    <2>1. {"pkt", "pkt_q"} \cap DOMAIN e = {} /\ DOMAIN e \cap PlainReg \subseteq {"est", "m_req", "m_addr"}
          /\ "pw" \notin DOMAIN e
      BY <1>3, <1>5
    <2>2. /\ MacOnly({"est", "m_req", "m_addr"}) /\ sent' = sent
          /\ \A x \in DOMAIN e \cap PlainReg : mac'[x] = e[x]
          /\ mac'.pw = IF "pw" \in DOMAIN e THEN e["pw"] ELSE None
          /\ mac'.pkt = Stored /\ mac'.pkt_q = mac.pkt[Readout] /\ MacReg \subseteq DOMAIN mac'
      BY <1>1, <2>1, EngineIs
    <2> QED BY <1>3, <1>5, <2>1, <2>2 DEF MacRd, Stores
  <1> QED BY <1>2, <1>4, <1>5

(* What E_TX_ACK assigns.                                                  *)
LEMMA MacAckIs ==
  ASSUME MacInv, NEW w, NEW tick, MacTick(w, tick), mac.est = "E_TX_ACK"
  PROVE  MacAck /\ Stores
  <1>0. /\ sent \in 1 .. TxFrames /\ mac.m_req /\ mac.m_addr = mac.tx_next
        /\ mac.tx_next = TxEnd[sent] + mac.tx_len /\ mac.tx_len < TxLen(sent) /\ mac.tx_len \in Nat
    BY DEF MacInv, Gathering
  <1>b. TxEnd[sent + 1] <= RamTop /\ RamTop \in Nat
    <2>1. TxEnd \in Seq(0 .. RamTop) /\ RamTop \in Nat
      BY LinkAssumption, SizeAssumption
    <2>2. Len(TxEnd) \in Nat /\ \A i \in 1 .. Len(TxEnd) : TxEnd[i] \in 0 .. RamTop
      BY <2>1
    <2>3. sent + 1 \in 1 .. Len(TxEnd)
      BY <1>0, <2>2 DEF TxFrames
    <2> QED BY <2>1, <2>2, <2>3
  <1>c. /\ TxEnd[sent] \in Nat /\ TxEnd[sent + 1] \in Nat /\ TxEnd[sent + 1] = TxEnd[sent] + TxLen(sent)
        /\ TxLen(sent) \in Nat /\ TxLen(sent) <= BufLen /\ BufLen \in Nat
    BY <1>0, FrameFacts, Sizes
  <1>d. ~m_err /\ mac.tx_len < BufLen
    BY <1>0, <1>b, <1>c DEF m_err
  <1> DEFINE f == [pw |-> <<mac.tx_len, mac.m_addr>>, tx_len |-> mac.tx_len + 1]
             d == IF mac.tx_len = 0 THEN [dst |-> mac.m_addr] ELSE <<>>
             g == [m_req |-> FALSE, tx_next |-> mac.tx_next + 1, est |-> "E_TX_RD"]
  <1>1. PICK e : e = Engine(tick, mac.m_req, mac.m_addr, br, cable)
    OBVIOUS
  <1>2. e = (f ++ d) ++ g
    BY <1>0, <1>1, <1>d DEF Engine, ETxAck
  <1>3. /\ DOMAIN f = {"pw", "tx_len"} /\ f["tx_len"] = mac.tx_len + 1
        /\ f["pw"] = <<mac.tx_len, mac.m_addr>>
        /\ DOMAIN g = {"m_req", "tx_next", "est"} /\ g["est"] = "E_TX_RD" /\ g["tx_next"] = mac.tx_next + 1
        /\ DOMAIN d \subseteq {"dst"}
    BY NoAssignment
  <1>4. {"est", "m_req", "tx_len", "tx_next"} \subseteq PlainReg /\ {"pw", "dst"} \cap PlainReg = {}
    BY DEF PlainReg, MacReg
  <1> HIDE DEF f, d, g
  <1>5. /\ DOMAIN (f ++ d) = {"pw", "tx_len"} \cup DOMAIN d
        /\ (f ++ d)["tx_len"] = mac.tx_len + 1 /\ (f ++ d)["pw"] = <<mac.tx_len, mac.m_addr>>
    <2>1. Over(f ++ d, f, d)
      BY IsOver
    <2>2. "tx_len" \in DOMAIN f /\ "pw" \in DOMAIN f
      BY <1>3
    <2> QED BY <1>3, <2>1, <2>2 DEF Over
  <1>6. /\ DOMAIN e = {"pw", "tx_len", "m_req", "tx_next", "est"} \cup DOMAIN d
        /\ e["tx_len"] = mac.tx_len + 1 /\ e["pw"] = <<mac.tx_len, mac.m_addr>>
        /\ e["est"] = "E_TX_RD" /\ e["tx_next"] = mac.tx_next + 1
    <2>1. Over(e, f ++ d, g)
      BY <1>2, IsOver
    <2>2. "tx_len" \in DOMAIN (f ++ d) /\ "pw" \in DOMAIN (f ++ d)
          /\ "est" \in DOMAIN g /\ "est" \notin DOMAIN (f ++ d)
          /\ "tx_next" \in DOMAIN g /\ "tx_next" \notin DOMAIN (f ++ d)
      BY <1>3, <1>5
    <2>3. e["tx_len"] = (f ++ d)["tx_len"] /\ e["pw"] = (f ++ d)["pw"]
      BY <2>1, <2>2 DEF Over
    <2>4. e["est"] = g["est"] /\ e["tx_next"] = g["tx_next"]
      BY <2>1, <2>2 DEF Over
    <2>5. DOMAIN e = DOMAIN (f ++ d) \cup DOMAIN g
      BY <2>1 DEF Over
    <2> QED BY <1>3, <1>5, <2>3, <2>4, <2>5
  <1>7. {"pkt", "pkt_q"} \cap DOMAIN e = {} /\ DOMAIN e \cap PlainReg \subseteq {"est", "m_req", "tx_len", "tx_next"}
    BY <1>3, <1>4, <1>6
  <1>8. /\ MacOnly({"est", "m_req", "tx_len", "tx_next"}) /\ sent' = sent
        /\ \A x \in DOMAIN e \cap PlainReg : mac'[x] = e[x]
        /\ mac'.pw = IF "pw" \in DOMAIN e THEN e["pw"] ELSE None
        /\ mac'.pkt = Stored /\ mac'.pkt_q = mac.pkt[Readout] /\ MacReg \subseteq DOMAIN mac'
    BY <1>1, <1>7, EngineIs
  <1> QED BY <1>4, <1>6, <1>8 DEF MacAck, Stores

(* What E_TX_END assigns.                                                  *)
LEMMA MacEndIs ==
  ASSUME MacInv, NEW w, NEW tick, MacTick(w, tick), mac.est = "E_TX_END"
  PROVE  MacEnd /\ Stores
  <1> DEFINE d == [tx_cmp |-> TRUE] ++ [tx_en |-> FALSE]
             p == IF pkt_for_me
                  THEN [tx_status |-> (mac.tx_status \cup {"NET_BUSY"}) \ {"TX_RECVD"},
                        rx_len |-> Padded(EffLen), rx_pos |-> 0]
                  ELSE [tx_status |-> mac.tx_status \ {"TX_RECVD"}]
             q == [tx_len |-> 0, est |-> "E_IDLE"]
             n == [tx_status |-> Collided, tx_len |-> 0, est |-> "E_IDLE"]
             b == [tx_status |-> mac.tx_status \ {"TX_RECVD"},
                   btx_req |-> TRUE, btx_len |-> EffLen, est |-> "E_BTX"]
  <1>1. PICK e : e = Engine(tick, mac.m_req, mac.m_addr, br, cable)
    OBVIOUS
  <1>2. mac.tx_limit.f /\ ~mac.tx_sup
    BY DEF MacInv, Gathering
  <1>3. e = d ++ (p ++ q) \/ e = d ++ n \/ (cable /\ e = d ++ b)
    BY <1>1, <1>2 DEF Engine, ETxEnd, dma_done_tx
  <1>4. DOMAIN d = {"tx_cmp", "tx_en"} /\ d["tx_en"] = FALSE
    <2> DEFINE x == [tx_cmp |-> TRUE]
               y == [tx_en |-> FALSE]
    <2>1. DOMAIN x = {"tx_cmp"} /\ DOMAIN y = {"tx_en"} /\ y["tx_en"] = FALSE
      OBVIOUS
    <2>2. d = x ++ y
      OBVIOUS
    <2> HIDE DEF x, y, d
    <2>3. Over(d, x, y)
      BY <2>2, IsOver
    <2> QED BY <2>1, <2>3 DEF Over
  <1>5. /\ DOMAIN p \subseteq {"tx_status", "rx_len", "rx_pos"}
        /\ DOMAIN q = {"tx_len", "est"} /\ q["tx_len"] = 0 /\ q["est"] = "E_IDLE"
        /\ DOMAIN n = {"tx_status", "tx_len", "est"} /\ n["tx_len"] = 0 /\ n["est"] = "E_IDLE"
        /\ DOMAIN b = {"tx_status", "btx_req", "btx_len", "est"} /\ b["btx_req"] = TRUE
        /\ b["btx_len"] = EffLen /\ b["est"] = "E_BTX"
    OBVIOUS
  <1>6. /\ {"est", "tx_en", "tx_len", "btx_req", "btx_len"} \subseteq PlainReg
        /\ {"tx_cmp", "tx_status", "rx_len", "rx_pos"} \cap PlainReg = {}
    BY DEF PlainReg, MacReg
  <1> HIDE DEF d, p, q, n, b
  <1>7. ASSUME NEW g, DOMAIN g \subseteq {"tx_status", "rx_len", "rx_pos", "tx_len", "est"},
               {"tx_len", "est"} \subseteq DOMAIN g, g["tx_len"] = 0, g["est"] = "E_IDLE", e = d ++ g
        PROVE  MacEnd /\ Stores
    <2>1. /\ DOMAIN e = {"tx_cmp", "tx_en"} \cup DOMAIN g /\ e["tx_en"] = FALSE
          /\ e["tx_len"] = 0 /\ e["est"] = "E_IDLE"
      <3>1. Over(e, d, g)
        BY <1>7, IsOver
      <3>2. "tx_en" \in DOMAIN d /\ "tx_len" \notin DOMAIN d /\ "est" \notin DOMAIN d
        BY <1>4
      <3>3. e["tx_en"] = d["tx_en"] /\ e["tx_len"] = g["tx_len"] /\ e["est"] = g["est"]
        BY <1>7, <3>1, <3>2 DEF Over
      <3>4. DOMAIN e = DOMAIN d \cup DOMAIN g
        BY <3>1 DEF Over
      <3> QED BY <1>4, <1>7, <3>3, <3>4
    <2>2. {"pkt", "pkt_q"} \cap DOMAIN e = {} /\ DOMAIN e \cap PlainReg \subseteq {"est", "tx_en", "tx_len"}
          /\ "pw" \notin DOMAIN e
      BY <1>6, <1>7, <2>1
    <2>3. /\ MacOnly({"est", "tx_en", "tx_len"}) /\ sent' = sent
          /\ \A x \in DOMAIN e \cap PlainReg : mac'[x] = e[x]
          /\ mac'.pw = IF "pw" \in DOMAIN e THEN e["pw"] ELSE None
          /\ mac'.pkt = Stored /\ mac'.pkt_q = mac.pkt[Readout] /\ MacReg \subseteq DOMAIN mac'
      BY <1>1, <2>2, EngineIs
    <2>4. mac'["tx_en"] = FALSE /\ mac'["tx_len"] = 0 /\ mac'["est"] = "E_IDLE"
      BY <1>6, <1>7, <2>1, <2>3
    <2> QED BY <2>2, <2>3, <2>4 DEF MacEnd, Stores
  <1>8. CASE e = d ++ (p ++ q)
    <2>1. /\ DOMAIN (p ++ q) = DOMAIN p \cup DOMAIN q
          /\ (p ++ q)["tx_len"] = 0 /\ (p ++ q)["est"] = "E_IDLE"
      <3>1. Over(p ++ q, p, q)
        BY IsOver
      <3>2. {"tx_len", "est"} \subseteq DOMAIN q /\ "tx_len" \notin DOMAIN p /\ "est" \notin DOMAIN p
        BY <1>5
      <3> QED BY <1>5, <3>1, <3>2 DEF Over
    <2> QED BY <1>5, <1>7, <1>8, <2>1
  <1>9. CASE e = d ++ n
    BY <1>5, <1>7, <1>9
  <1>10. CASE cable /\ e = d ++ b
    <2>1. /\ DOMAIN e = {"tx_cmp", "tx_en", "tx_status", "btx_req", "btx_len", "est"} /\ e["tx_en"] = FALSE
          /\ e["btx_req"] = TRUE /\ e["btx_len"] = EffLen /\ e["est"] = "E_BTX"
      <3>1. Over(e, d, b)
        BY <1>10, IsOver
      <3>2. /\ "tx_en" \in DOMAIN d /\ {"btx_req", "btx_len", "est"} \subseteq DOMAIN b
            /\ {"btx_req", "btx_len", "est"} \cap DOMAIN d = {}
        BY <1>4, <1>5
      <3>3. /\ e["tx_en"] = d["tx_en"] /\ e["btx_req"] = b["btx_req"]
            /\ e["btx_len"] = b["btx_len"] /\ e["est"] = b["est"]
        BY <3>1, <3>2 DEF Over
      <3>4. DOMAIN e = DOMAIN d \cup DOMAIN b
        BY <3>1 DEF Over
      <3> QED BY <1>4, <1>5, <3>3, <3>4
    <2>2. {"pkt", "pkt_q"} \cap DOMAIN e = {}
          /\ DOMAIN e \cap PlainReg \subseteq {"est", "tx_en", "btx_req", "btx_len"}
          /\ "pw" \notin DOMAIN e
      BY <1>6, <2>1
    <2>3. /\ MacOnly({"est", "tx_en", "btx_req", "btx_len"}) /\ sent' = sent
          /\ \A x \in DOMAIN e \cap PlainReg : mac'[x] = e[x]
          /\ mac'.pw = IF "pw" \in DOMAIN e THEN e["pw"] ELSE None
          /\ mac'.pkt = Stored /\ mac'.pkt_q = mac.pkt[Readout] /\ MacReg \subseteq DOMAIN mac'
      BY <1>1, <2>2, EngineIs
    <2>4. mac'["tx_en"] = FALSE /\ mac'["btx_req"] = TRUE /\ mac'["btx_len"] = EffLen /\ mac'["est"] = "E_BTX"
      BY <1>6, <2>1, <2>3
    <2> QED BY <1>10, <2>2, <2>3, <2>4 DEF MacEnd, Stores
  <1> QED BY <1>3, <1>8, <1>9, <1>10

(* A register the engine alone assigns.                                    *)
LEMMA EngineVal ==
  ASSUME MacInv, NEW w, NEW tick, MacTick(w, tick), mac.est # "E_IDLE", NEW e,
         e = Engine(tick, mac.m_req, mac.m_addr, br, cable),
         {"pkt", "pkt_q"} \cap DOMAIN e = {}
  PROVE  /\ \A x \in PlainReg : mac'[x] = Val(e, x, mac[x])
         /\ sent' = sent /\ Stores
         /\ mac'.pw = IF "pw" \in DOMAIN e THEN e["pw"] ELSE None
  <1> DEFINE X == DOMAIN e \cap PlainReg
  <1>1. DOMAIN e \cap PlainReg \subseteq X
    OBVIOUS
  <1> HIDE DEF X
  <1>2. /\ MacOnly(X) /\ sent' = sent
        /\ \A x \in DOMAIN e \cap PlainReg : mac'[x] = e[x]
        /\ mac'.pw = IF "pw" \in DOMAIN e THEN e["pw"] ELSE None
        /\ mac'.pkt = Stored /\ mac'.pkt_q = mac.pkt[Readout] /\ MacReg \subseteq DOMAIN mac'
    BY <1>1, EngineIs
  <1>3. \A x \in PlainReg : mac'[x] = Val(e, x, mac[x])
    BY <1>2 DEF MacOnly, Val, X
  <1> QED BY <1>2, <1>3 DEF Stores

(* What E_BTX assigns.                                                     *)
LEMMA MacBtxIs ==
  ASSUME MacInv, NEW w, NEW tick, MacTick(w, tick), mac.est = "E_BTX"
  PROVE  MacBtx /\ Stores
  <1> DEFINE D == IF br.btx_done
                  THEN [btx_req |-> FALSE, btx_pending |-> FALSE, tx_len |-> 0, est |-> "E_IDLE"]
                  ELSE <<>>
             M == IF ~cable
                  THEN [btx_req |-> FALSE, btx_pending |-> FALSE, tx_status |-> Collided,
                        tx_len |-> 0, est |-> "E_IDLE"]
                  ELSE IF mac.btx_pending
                  THEN [btx_q |-> mac.pkt_q, btx_ack |-> TRUE, btx_pending |-> FALSE]
                  ELSE IF br.btx_rd THEN [btx_pending |-> TRUE] ELSE <<>>
             K == [btx_ack |-> FALSE]
  <1>1. PICK e : e = Engine(tick, mac.m_req, mac.m_addr, br, cable)
    OBVIOUS
  <1>2. e = (D ++ M) ++ K
    BY <1>1 DEF Engine, EBtx
  <1>3. /\ br.btx_done => /\ DOMAIN D = {"btx_req", "btx_pending", "tx_len", "est"}
                          /\ D["btx_req"] = FALSE /\ D["btx_pending"] = FALSE
                          /\ D["tx_len"] = 0 /\ D["est"] = "E_IDLE"
        /\ ~br.btx_done => DOMAIN D = {}
    BY NoAssignment
  <1>4. /\ ~cable => /\ DOMAIN M = {"btx_req", "btx_pending", "tx_len", "est", "tx_status"}
                     /\ M["btx_req"] = FALSE /\ M["btx_pending"] = FALSE
                     /\ M["tx_len"] = 0 /\ M["est"] = "E_IDLE"
        /\ cable /\ mac.btx_pending =>
             /\ DOMAIN M = {"btx_q", "btx_ack", "btx_pending"}
             /\ M["btx_q"] = mac.pkt_q /\ M["btx_ack"] = TRUE /\ M["btx_pending"] = FALSE
        /\ cable /\ ~mac.btx_pending /\ br.btx_rd =>
             DOMAIN M = {"btx_pending"} /\ M["btx_pending"] = TRUE
        /\ cable /\ ~mac.btx_pending /\ ~br.btx_rd => DOMAIN M = {}
    BY NoAssignment
  <1>5. DOMAIN K = {"btx_ack"} /\ K["btx_ack"] = FALSE
    OBVIOUS
  <1>6. /\ {"est", "btx_req", "btx_pending", "tx_len", "btx_ack", "btx_q"} \subseteq PlainReg
        /\ {"tx_status"} \cap PlainReg = {}
    BY DEF PlainReg, MacReg
  <1>7. mac.btx_pending \in BOOLEAN /\ mac["btx_pending"] = mac.btx_pending /\ mac["est"] = "E_BTX"
    BY DEF MacInv
  <1> HIDE DEF D, M, K
  <1>8. /\ DOMAIN e = (DOMAIN D \cup DOMAIN M) \cup DOMAIN K
        /\ \A x, v : Val(e, x, v) = Val(D, x, Val(M, x, Val(K, x, v)))
    <2>1. Over(D ++ M, D, M) /\ Over(e, D ++ M, K)
      BY <1>2, IsOver
    <2>2. DOMAIN e = (DOMAIN D \cup DOMAIN M) \cup DOMAIN K
      BY <2>1 DEF Over
    <2>3. ASSUME NEW x, NEW v
          PROVE  Val(e, x, v) = Val(D, x, Val(M, x, Val(K, x, v)))
      <3>1. Val((D ++ M) ++ K, x, v) = Val(D ++ M, x, Val(K, x, v))
        BY ValOver
      <3>2. \A u : Val(D ++ M, x, u) = Val(D, x, Val(M, x, u))
        BY ValOver
      <3> QED BY <1>2, <3>1, <3>2
    <2> QED BY <2>2, <2>3
  <1>9. DOMAIN e \subseteq {"btx_req", "btx_pending", "tx_len", "est", "tx_status", "btx_q", "btx_ack"}
    BY <1>3, <1>4, <1>5, <1>8
  <1>10. /\ \A x \in PlainReg : mac'[x] = Val(e, x, mac[x])
         /\ sent' = sent /\ Stores /\ mac'.pw = None
    <2>1. {"pkt", "pkt_q"} \cap DOMAIN e = {} /\ "pw" \notin DOMAIN e
      BY <1>9
    <2> QED BY <1>1, <2>1, EngineVal
  <1>11. \A x \in PlainReg : mac'[x] = Val(D, x, Val(M, x, Val(K, x, mac[x])))
    BY <1>8, <1>10
  <1>12. \A x \in PlainReg : x \notin DOMAIN D /\ x \notin DOMAIN M /\ x \notin DOMAIN K => mac'[x] = mac[x]
    BY <1>11 DEF Val
  <1>13. CASE br.btx_done \/ ~cable
    <2>1. MacOnly({"est", "btx_req", "btx_pending", "tx_len", "btx_ack", "btx_q"})
      BY <1>3, <1>4, <1>5, <1>6, <1>12 DEF MacOnly
    <2>2. mac'["est"] = "E_IDLE" /\ mac'["tx_len"] = 0
      BY <1>3, <1>4, <1>6, <1>11, <1>13 DEF Val
    <2>3. mac'["btx_req"] = FALSE
      BY <1>3, <1>4, <1>6, <1>11, <1>13 DEF Val
    <2>4. mac'["btx_pending"] = FALSE
      BY <1>3, <1>4, <1>6, <1>11, <1>13 DEF Val
    <2>5. mac'["btx_ack"] = FALSE \/ (mac.btx_pending /\ br.btx_done)
      BY <1>3, <1>4, <1>5, <1>6, <1>11, <1>13 DEF Val
    <2> QED BY <1>10, <1>13, <2>1, <2>2, <2>3, <2>4, <2>5 DEF MacBtx
  <1>14. CASE ~br.btx_done /\ cable /\ mac.btx_pending
    <2>1. MacOnly({"btx_q", "btx_ack", "btx_pending"})
      BY <1>3, <1>4, <1>5, <1>6, <1>12, <1>14 DEF MacOnly
    <2>2. mac'["btx_q"] = mac.pkt_q
      BY <1>3, <1>4, <1>5, <1>6, <1>11, <1>14 DEF Val
    <2>3. mac'["btx_ack"] = TRUE
      BY <1>3, <1>4, <1>5, <1>6, <1>11, <1>14 DEF Val
    <2>4. mac'["btx_pending"] = FALSE
      BY <1>3, <1>4, <1>5, <1>6, <1>11, <1>14 DEF Val
    <2> QED BY <1>10, <1>14, <2>1, <2>2, <2>3, <2>4 DEF MacBtx
  <1>15. CASE ~br.btx_done /\ cable /\ ~mac.btx_pending
    <2>1. MacOnly({"btx_ack", "btx_pending"})
      BY <1>3, <1>4, <1>5, <1>6, <1>12, <1>15 DEF MacOnly
    <2>2. mac'["btx_ack"] = FALSE
      BY <1>3, <1>4, <1>5, <1>6, <1>11, <1>15 DEF Val
    <2>3. br.btx_rd => mac'["btx_pending"] = TRUE
      BY <1>3, <1>4, <1>5, <1>6, <1>11, <1>15 DEF Val
    <2>4. ~br.btx_rd => mac'["btx_pending"] = mac["btx_pending"]
      BY <1>3, <1>4, <1>5, <1>6, <1>11, <1>15 DEF Val
    <2> QED BY <1>10, <1>15, <2>1, <2>2, <2>3, <2>4 DEF MacBtx
  <1> QED BY <1>10, <1>13, <1>14, <1>15

(* What E_BRX assigns.                                                     *)
LEMMA MacBrxIs ==
  ASSUME MacInv, NEW w, NEW tick, MacTick(w, tick), mac.est = "E_BRX"
  PROVE  MacBrx /\ Stores
  <1> DEFINE t == IF pkt_for_me /\ ~loopback /\ cable
                  THEN [tx_status |-> mac.tx_status \cup {"NET_BUSY"},
                        rx_len |-> Padded(mac.brx_pos), rx_pos |-> 0] ELSE <<>>
             i == [est |-> "E_IDLE"]
             D == IF mac.brx_pos >= br.brx_len THEN t ++ i ELSE <<>>
             s == [pw |-> <<mac.brx_pos, br.brx_data>>, brx_pos |-> mac.brx_pos + 1]
             d == IF mac.brx_pos = 0 THEN [dst |-> br.brx_data] ELSE <<>>
             M == IF br.brx_valid /\ mac.brx_pos < BufLen THEN s ++ d ELSE <<>>
  <1>1. PICK e : e = Engine(tick, mac.m_req, mac.m_addr, br, cable)
    OBVIOUS
  <1>2. e = D ++ M
    BY <1>1 DEF Engine, EBrx
  <1>3. /\ DOMAIN t \subseteq {"tx_status", "rx_len", "rx_pos"}
        /\ DOMAIN i = {"est"} /\ i["est"] = "E_IDLE"
        /\ DOMAIN d \subseteq {"dst"}
        /\ DOMAIN s = {"pw", "brx_pos"} /\ s["pw"] = <<mac.brx_pos, br.brx_data>>
        /\ s["brx_pos"] = mac.brx_pos + 1
    BY NoAssignment
  <1>4. /\ mac.brx_pos >= br.brx_len => D = t ++ i
        /\ ~(mac.brx_pos >= br.brx_len) => DOMAIN D = {}
        /\ br.brx_valid /\ mac.brx_pos < BufLen => M = s ++ d
        /\ ~(br.brx_valid /\ mac.brx_pos < BufLen) => DOMAIN M = {}
    BY NoAssignment
  <1>5. /\ {"est", "brx_pos"} \subseteq PlainReg
        /\ {"tx_status", "rx_len", "rx_pos", "dst", "pw"} \cap PlainReg = {}
    BY DEF PlainReg, MacReg
  <1> HIDE DEF D, M, t, i, s, d
  <1>6. /\ mac.brx_pos >= br.brx_len =>
             /\ "est" \in DOMAIN D /\ D["est"] = "E_IDLE"
             /\ DOMAIN D \subseteq {"tx_status", "rx_len", "rx_pos", "est"}
        /\ br.brx_valid /\ mac.brx_pos < BufLen =>
             /\ {"pw", "brx_pos"} \subseteq DOMAIN M /\ M["pw"] = <<mac.brx_pos, br.brx_data>>
             /\ M["brx_pos"] = mac.brx_pos + 1 /\ DOMAIN M \subseteq {"pw", "brx_pos", "dst"}
    <2>1. Over(t ++ i, t, i) /\ Over(s ++ d, s, d)
      BY IsOver
    <2>2. "est" \in DOMAIN i /\ "est" \notin DOMAIN t
      BY <1>3
    <2>3. (t ++ i)["est"] = "E_IDLE" /\ DOMAIN (t ++ i) = DOMAIN t \cup DOMAIN i
      BY <1>3, <2>1, <2>2 DEF Over
    <2>4. "pw" \in DOMAIN s /\ "brx_pos" \in DOMAIN s
      BY <1>3
    <2>5. /\ (s ++ d)["pw"] = s["pw"] /\ (s ++ d)["brx_pos"] = s["brx_pos"]
          /\ DOMAIN (s ++ d) = DOMAIN s \cup DOMAIN d
      BY <2>1, <2>4 DEF Over
    <2> QED BY <1>3, <1>4, <2>3, <2>5
  <1>7. Over(e, D, M)
    BY <1>2, IsOver
  <1>8. /\ DOMAIN e = DOMAIN D \cup DOMAIN M
        /\ DOMAIN e \subseteq {"tx_status", "rx_len", "rx_pos", "est", "pw", "brx_pos", "dst"}
    BY <1>4, <1>6, <1>7 DEF Over
  <1>9. /\ \A x \in PlainReg : mac'[x] = Val(e, x, mac[x])
        /\ sent' = sent /\ Stores
        /\ mac'.pw = IF "pw" \in DOMAIN e THEN e["pw"] ELSE None
    <2>1. {"pkt", "pkt_q"} \cap DOMAIN e = {}
      BY <1>8
    <2> QED BY <1>1, <2>1, EngineVal
  <1>10. MacOnly({"est", "brx_pos"})
    BY <1>5, <1>8, <1>9 DEF MacOnly, Val
  <1>11. /\ mac.brx_pos >= br.brx_len => mac'["est"] = "E_IDLE"
         /\ ~(mac.brx_pos >= br.brx_len) => mac'["est"] = mac["est"]
    <2>1. mac'["est"] = Val(e, "est", mac["est"])
      BY <1>5, <1>9
    <2>2. CASE mac.brx_pos >= br.brx_len
      <3>1. "est" \in DOMAIN e /\ e["est"] = "E_IDLE"
        BY <1>6, <1>7, <2>2 DEF Over
      <3> QED BY <2>1, <2>2, <3>1 DEF Val
    <2>3. CASE ~(mac.brx_pos >= br.brx_len)
      <3>1. "est" \notin DOMAIN e
        BY <1>4, <1>6, <1>7, <2>3 DEF Over
      <3> QED BY <2>1, <2>3, <3>1 DEF Val
    <2> QED BY <2>2, <2>3
  <1>12. CASE br.brx_valid /\ mac.brx_pos < BufLen
    <2>1. "pw" \notin DOMAIN D /\ "brx_pos" \notin DOMAIN D
      BY <1>4, <1>6
    <2>2. /\ "pw" \in DOMAIN e /\ e["pw"] = M["pw"]
          /\ "brx_pos" \in DOMAIN e /\ e["brx_pos"] = M["brx_pos"]
      BY <1>6, <1>7, <1>12, <2>1 DEF Over
    <2>3. mac'["brx_pos"] = mac.brx_pos + 1 /\ mac'.pw = <<mac.brx_pos, br.brx_data>>
      BY <1>5, <1>6, <1>9, <1>12, <2>2 DEF Val
    <2> QED BY <1>9, <1>10, <1>11, <1>12, <2>3 DEF MacBrx
  <1>13. CASE ~(br.brx_valid /\ mac.brx_pos < BufLen)
    <2>1. "pw" \notin DOMAIN e /\ "brx_pos" \notin DOMAIN e
      BY <1>4, <1>6, <1>8, <1>13
    <2>2. mac'["brx_pos"] = mac["brx_pos"] /\ mac'.pw = None
      BY <1>5, <1>9, <2>1 DEF Val
    <2> QED BY <1>9, <1>10, <1>11, <1>13, <2>2 DEF MacBrx
  <1> QED BY <1>9, <1>12, <1>13

(* Under a reset of the controller.                                        *)
LEMMA MacOffIs ==
  ASSUME MacInv, MacReset(br), sent' = sent
  PROVE  MacOff /\ Stores
  <1> DEFINE b == Buffer(br)
  <1>1. /\ DOMAIN b = {"pkt", "pkt_q", "pw"} /\ b["pkt_q"] = mac.pkt[Readout] /\ b["pkt"] = Stored
    BY DEF Buffer, Readout, Stored
  <1>2. mac' = (ResetRegs ++ b) ++ mac
    BY DEF MacReset
  <1>3. /\ {"est", "tx_en", "rx_en", "tx_sup", "tx_len", "btx_req", "btx_ack", "btx_pending",
            "brx_pos", "pw"} \subseteq DOMAIN ResetRegs
        /\ "pkt" \notin DOMAIN ResetRegs /\ "pkt_q" \notin DOMAIN ResetRegs
    BY DEF ResetRegs
  <1>4. /\ ResetRegs["est"] = "E_IDLE" /\ ResetRegs["tx_en"] = FALSE /\ ResetRegs["rx_en"] = FALSE
        /\ ResetRegs["tx_sup"] = FALSE /\ ResetRegs["tx_len"] = 0 /\ ResetRegs["btx_req"] = FALSE
        /\ ResetRegs["btx_ack"] = FALSE /\ ResetRegs["btx_pending"] = FALSE
        /\ ResetRegs["brx_pos"] = 0 /\ ResetRegs["pw"] = None
    BY DEF ResetRegs
  <1>5. MacReg \subseteq DOMAIN mac
    BY DEF MacInv
  <1> HIDE DEF b
  <1>6. Over(ResetRegs ++ b, ResetRegs, b) /\ Over(mac', ResetRegs ++ b, mac)
    BY <1>2, IsOver
  <1>7. \A x \in DOMAIN ResetRegs : mac'[x] = ResetRegs[x]
    BY <1>6 DEF Over
  <1>8. mac'["pkt"] = Stored /\ mac'["pkt_q"] = mac.pkt[Readout]
    <2>1. "pkt" \in DOMAIN b /\ "pkt_q" \in DOMAIN b
      BY <1>1
    <2>2. /\ (ResetRegs ++ b)["pkt"] = b["pkt"] /\ (ResetRegs ++ b)["pkt_q"] = b["pkt_q"]
          /\ "pkt" \in DOMAIN (ResetRegs ++ b) /\ "pkt_q" \in DOMAIN (ResetRegs ++ b)
      BY <1>3, <1>6, <2>1 DEF Over
    <2> QED BY <1>1, <1>6, <2>2 DEF Over
  <1>9. MacReg \subseteq DOMAIN mac'
    BY <1>5, <1>6 DEF Over
  <1>10. /\ mac'["est"] = "E_IDLE" /\ mac'["tx_en"] = FALSE /\ mac'["rx_en"] = FALSE
         /\ mac'["tx_sup"] = FALSE /\ mac'["tx_len"] = 0 /\ mac'["btx_req"] = FALSE
         /\ mac'["btx_ack"] = FALSE /\ mac'["btx_pending"] = FALSE
         /\ mac'["brx_pos"] = 0 /\ mac'["pw"] = None
    BY <1>3, <1>4, <1>7
  <1> QED BY <1>8, <1>9, <1>10 DEF MacOff, Stores

-----------------------------------------------------------------------------
(* MacInv.                                                                 *)

(* The buffer after any clock outside reset.                               *)
LEMMA BufferNext ==
  ASSUME MacInv, Stores
  PROVE  /\ mac'.pkt = [i \in Buf |-> mac'.pkt[i]]
         /\ \A p \in Buf : mac'.pkt[p] = InBuffer(p)
         /\ mac'.pw = None => \A p \in Buf : InBuffer(p)' = InBuffer(p)
         /\ \A n, v : mac'.pw = <<n, v>> =>
              \A p \in Buf : InBuffer(p)' = IF p = n THEN v ELSE InBuffer(p)
  <1>1. /\ mac.pkt = [i \in Buf |-> mac.pkt[i]] /\ (mac.pw # None => mac.pw[1] \in Buf)
        /\ mac'.pkt = Stored
    BY DEF MacInv, Stores
  <1> QED BY <1>1, BufferIs

(* A byte of a frame fits the buffer.                                      *)
LEMMA ByteFits ==
  /\ 0 .. BufLen \subseteq Buf
  /\ \A k \in 1 .. TxFrames : 0 .. TxLen(k) \subseteq Buf
  <1>1. 0 .. BufLen \subseteq Buf
    BY Sizes DEF Buf
  <1>2. ASSUME NEW k \in 1 .. TxFrames PROVE 0 .. TxLen(k) \subseteq Buf
    BY <1>1, FrameFacts, Sizes
  <1> QED BY <1>1, <1>2

(* The frame sent last is a frame of the driver.                           *)
LEMMA SentIs ==
  ASSUME MacInv, sent > 0
  PROVE  sent \in 1 .. TxFrames
  BY DEF MacInv

(* MacInv under E_IDLE.                                                    *)
LEMMA MacIdleNext ==
  ASSUME MacInv, MacIdle, Stores, mac.est = "E_IDLE"
  PROVE  MacInv'
  <1>1. /\ mac'.rx_en = mac.rx_en /\ mac'.tx_sup = mac.tx_sup /\ mac'.tx_len = mac.tx_len
        /\ mac'.m_req = mac.m_req /\ mac'.m_addr = mac.m_addr /\ mac'.btx_req = mac.btx_req
        /\ mac'.btx_len = mac.btx_len /\ mac'.btx_q = mac.btx_q /\ mac'.btx_ack = mac.btx_ack
        /\ mac'.btx_pending = mac.btx_pending
    <2> DEFINE X == {"est", "brx_pos"} \cup TxRegs
    <2>1. MacOnly(X)
      BY DEF MacIdle
    <2>2. {"rx_en", "tx_sup", "tx_len", "m_req", "m_addr", "btx_req", "btx_len", "btx_q", "btx_ack",
           "btx_pending"} \cap X = {}
      BY DEF TxRegs
    <2> HIDE DEF X
    <2> QED BY <2>1, <2>2, MacOnlyIs
  <1>2. /\ mac'.pw = None /\ mac'.pkt = [i \in Buf |-> mac'.pkt[i]] /\ MacReg \subseteq DOMAIN mac'
    BY BufferNext DEF MacIdle, Stores
  <1>3. mac'.est \in {"E_IDLE", "E_TX_RD", "E_BRX"} /\ mac'.brx_pos \in Nat
        /\ (mac'.est = "E_TX_RD" => mac.tx_en)
    BY DEF MacIdle, MacInv
  <1>4. /\ mac'.tx_en \in BOOLEAN /\ sent' \in Nat /\ (sent' > 0 => sent' <= TxFrames)
        /\ (mac'.tx_en => sent' > 0 /\ mac'.tx_next = TxEnd[sent'])
        /\ (mac'.tx_en => mac'.tx_limit = [a |-> TxEnd[sent' + 1], f |-> TRUE])
        /\ (mac.tx_en => mac'.tx_en)
    <2>1. /\ mac.tx_en \in BOOLEAN /\ sent \in Nat /\ (sent > 0 => sent <= TxFrames)
          /\ (mac.tx_en => sent > 0 /\ mac.tx_next = TxEnd[sent])
          /\ (mac.tx_en => mac.tx_limit = [a |-> TxEnd[sent + 1], f |-> TRUE])
      BY DEF MacInv, Gathering
    <2>2. CASE mac'.tx_en = mac.tx_en /\ mac'.tx_next = mac.tx_next /\ mac'.tx_limit = mac.tx_limit /\ sent' = sent
      BY <2>1, <2>2
    <2>3. CASE ~mac.tx_en /\ mac'.tx_en = mac.tx_en /\ sent' = sent
      BY <2>1, <2>3
    <2>4. CASE /\ ~mac.tx_en /\ sent < TxFrames /\ sent' = sent + 1 /\ mac'.tx_en = TRUE
               /\ mac'.tx_next = TxEnd[sent + 1] /\ mac'.tx_limit = [a |-> TxEnd[sent + 1 + 1], f |-> TRUE]
      <3>1. sent + 1 <= TxFrames /\ sent + 1 > 0 /\ sent + 1 \in Nat
        <4>1. TxFrames \in Int
          <5>1. TxEnd \in Seq(0 .. RamTop)
            BY LinkAssumption
          <5> QED BY <5>1 DEF TxFrames
        <4> QED BY <2>1, <2>4, <4>1
      <3> QED BY <2>4, <3>1
    <2> QED BY <2>2, <2>3, <2>4 DEF MacIdle, Driver
  <1>5. /\ ~mac.rx_en /\ ~mac.tx_sup /\ mac.tx_len = 0 /\ ~mac.btx_req
        /\ mac.btx_pending \in BOOLEAN /\ mac.btx_ack \in BOOLEAN
    BY DEF MacInv
  <1>6. Gathering' => /\ mac'.tx_en /\ mac'.est = "E_TX_RD" /\ mac'.tx_len = 0
                      /\ mac'.tx_next = TxEnd[sent'] + 0 /\ TxLen(sent') \in Nat
    <2>1. ASSUME Gathering'
          PROVE  mac'.tx_en /\ mac'.est = "E_TX_RD" /\ sent' \in 1 .. TxFrames
      BY <1>3, <1>4, <2>1 DEF Gathering
    <2>2. \A k \in 1 .. TxFrames : TxEnd[k] = TxEnd[k] + 0 /\ TxLen(k) \in Nat
      BY FrameFacts
    <2> QED BY <1>1, <1>4, <1>5, <2>1, <2>2
  <1> QED BY <1>1, <1>2, <1>3, <1>4, <1>5, <1>6 DEF MacInv, Gathering

(* MacInv under E_TX_RD.                                                   *)
LEMMA MacRdNext ==
  ASSUME MacInv, MacRd, Stores, mac.est = "E_TX_RD"
  PROVE  MacInv'
  <1>1. /\ mac'.tx_en = mac.tx_en /\ mac'.rx_en = mac.rx_en /\ mac'.tx_sup = mac.tx_sup
        /\ mac'.tx_next = mac.tx_next /\ mac'.tx_limit = mac.tx_limit /\ mac'.tx_len = mac.tx_len
        /\ mac'.btx_req = mac.btx_req /\ mac'.btx_len = mac.btx_len /\ mac'.btx_ack = mac.btx_ack
        /\ mac'.btx_pending = mac.btx_pending /\ mac'.brx_pos = mac.brx_pos
    <2>1. PICK X : MacOnly(X) /\ X \subseteq {"est", "m_req", "m_addr"}
      BY DEF MacRd
    <2>2. {"tx_en", "rx_en", "tx_sup", "tx_next", "tx_limit", "tx_len", "btx_req", "btx_len", "btx_ack",
           "btx_pending", "brx_pos"} \cap X = {}
      BY <2>1
    <2> QED BY <2>1, <2>2, MacOnlyIs
  <1>2. /\ mac'.pw = None /\ mac'.pkt = [i \in Buf |-> mac'.pkt[i]] /\ MacReg \subseteq DOMAIN mac'
        /\ \A p \in Buf : InBuffer(p)' = InBuffer(p)
    BY BufferNext DEF MacRd, Stores
  <1>3. /\ mac.tx_en /\ sent \in 1 .. TxFrames /\ mac.tx_len \in 0 .. TxLen(sent)
        /\ mac.tx_next = TxEnd[sent] + mac.tx_len /\ mac.tx_limit.a = TxEnd[sent + 1]
        /\ \A i \in 0 .. (mac.tx_len - 1) : InBuffer(i) = TxEnd[sent] + i
    BY DEF MacInv, Gathering
  <1>4. /\ TxEnd[sent] \in Nat /\ TxEnd[sent + 1] = TxEnd[sent] + TxLen(sent) /\ TxLen(sent) \in Nat
        /\ 0 .. TxLen(sent) \subseteq Buf
    BY <1>3, FrameFacts, ByteFits
  <1>5. \/ mac'.est = "E_TX_END" /\ mac.tx_len = TxLen(sent)
        \/ mac'.est = "E_TX_ACK" /\ mac'.m_req = TRUE /\ mac'.m_addr = mac.tx_next /\ mac.tx_len < TxLen(sent)
    BY <1>3, <1>4 DEF MacRd
  <1>6. \A i \in 0 .. (mac.tx_len - 1) : InBuffer(i)' = TxEnd[sent] + i
    BY <1>2, <1>3, <1>4
  <1>7. sent' = sent
    BY DEF MacRd
  <1>8. mac'.est \in {"E_TX_END", "E_TX_ACK"} /\ Gathering
    BY <1>5 DEF Gathering
  <1>9. /\ ~mac.rx_en /\ ~mac.tx_sup /\ ~mac.btx_req /\ mac.brx_pos \in Nat
        /\ mac.btx_pending \in BOOLEAN /\ mac.btx_ack \in BOOLEAN /\ mac.tx_en \in BOOLEAN
        /\ mac.tx_limit = [a |-> TxEnd[sent + 1], f |-> TRUE] /\ sent \in Nat /\ sent <= TxFrames
    BY <1>3 DEF MacInv
  <1> QED BY <1>1, <1>2, <1>3, <1>5, <1>6, <1>7, <1>8, <1>9 DEF MacInv, Gathering

(* MacInv under E_TX_ACK.                                                  *)
LEMMA MacAckNext ==
  ASSUME MacInv, MacAck, Stores, mac.est = "E_TX_ACK"
  PROVE  MacInv'
  <1>1. /\ mac'.tx_en = mac.tx_en /\ mac'.rx_en = mac.rx_en /\ mac'.tx_sup = mac.tx_sup
        /\ mac'.tx_limit = mac.tx_limit
        /\ mac'.btx_req = mac.btx_req /\ mac'.btx_len = mac.btx_len /\ mac'.btx_ack = mac.btx_ack
        /\ mac'.btx_pending = mac.btx_pending /\ mac'.brx_pos = mac.brx_pos
    <2>1. PICK X : MacOnly(X) /\ X = {"est", "m_req", "tx_len", "tx_next"}
      BY DEF MacAck
    <2>2. {"tx_en", "rx_en", "tx_sup", "tx_limit", "btx_req", "btx_len", "btx_ack",
           "btx_pending", "brx_pos"} \cap X = {}
      BY <2>1
    <2> QED BY <2>1, <2>2, MacOnlyIs
  <1>2. /\ mac'.pkt = [i \in Buf |-> mac'.pkt[i]] /\ MacReg \subseteq DOMAIN mac'
        /\ \A n, v : mac'.pw = <<n, v>> =>
              \A p \in Buf : InBuffer(p)' = IF p = n THEN v ELSE InBuffer(p)
    BY BufferNext DEF Stores
  <1>3. /\ mac.tx_en /\ sent \in 1 .. TxFrames /\ mac.tx_len \in 0 .. TxLen(sent)
        /\ mac.tx_next = TxEnd[sent] + mac.tx_len /\ mac.m_addr = mac.tx_next /\ mac.tx_len < TxLen(sent)
        /\ \A i \in 0 .. (mac.tx_len - 1) : InBuffer(i) = TxEnd[sent] + i
    BY DEF MacInv, Gathering
  <1>4. /\ TxEnd[sent] \in Nat /\ TxLen(sent) \in Nat /\ 0 .. TxLen(sent) \subseteq Buf
    BY <1>3, FrameFacts, ByteFits
  <1>5. /\ sent' = sent /\ mac'.est = "E_TX_RD" /\ mac'.tx_len = mac.tx_len + 1
        /\ mac'.tx_next = mac.tx_next + 1 /\ mac'.pw = <<mac.tx_len, mac.m_addr>>
    BY DEF MacAck
  <1>6. mac.tx_len \in Buf /\ mac'.pw[1] = mac.tx_len
    BY <1>3, <1>4, <1>5
  <1>7. \A p \in Buf : InBuffer(p)' = IF p = mac.tx_len THEN mac.m_addr ELSE InBuffer(p)
    BY <1>2, <1>5
  <1>8. \A i \in 0 .. (mac'.tx_len - 1) : InBuffer(i)' = TxEnd[sent] + i
    <2> SUFFICES ASSUME NEW i \in 0 .. (mac'.tx_len - 1) PROVE InBuffer(i)' = TxEnd[sent] + i
      OBVIOUS
    <2>1. i \in Buf /\ i \in 0 .. mac.tx_len
      BY <1>3, <1>4, <1>5
    <2>2. InBuffer(i)' = IF i = mac.tx_len THEN mac.m_addr ELSE InBuffer(i)
      BY <1>7, <2>1
    <2>3. CASE i = mac.tx_len
      BY <1>3, <2>2, <2>3
    <2>4. CASE i # mac.tx_len
      <3>1. i \in 0 .. (mac.tx_len - 1)
        BY <1>3, <1>4, <2>1, <2>4
      <3> QED BY <1>3, <2>2, <2>4, <3>1
    <2> QED BY <2>3, <2>4
  <1>9. /\ ~mac.rx_en /\ ~mac.tx_sup /\ ~mac.btx_req /\ mac.brx_pos \in Nat
        /\ mac.btx_pending \in BOOLEAN /\ mac.btx_ack \in BOOLEAN /\ mac.tx_en \in BOOLEAN
        /\ mac.tx_limit = [a |-> TxEnd[sent + 1], f |-> TRUE] /\ sent \in Nat /\ sent <= TxFrames
    BY <1>3 DEF MacInv
  <1>10. /\ mac'.tx_len \in 0 .. TxLen(sent) /\ mac'.tx_next = TxEnd[sent] + mac'.tx_len
    BY <1>3, <1>4, <1>5
  <1> QED BY <1>1, <1>2, <1>3, <1>5, <1>6, <1>8, <1>9, <1>10 DEF MacInv, Gathering

(* MacInv under E_TX_END.                                                  *)
LEMMA MacEndNext ==
  ASSUME MacInv, MacEnd, Stores, mac.est = "E_TX_END"
  PROVE  MacInv'
  <1>1. PICK X : /\ MacOnly(X) /\ X \subseteq {"est", "tx_en", "tx_len", "btx_req", "btx_len"}
                 /\ \/ /\ mac'.tx_len = 0 /\ mac'.est = "E_IDLE"
                       /\ "btx_req" \notin X
                    \/ /\ mac'.est = "E_BTX" /\ mac'.btx_req = TRUE /\ mac'.btx_len = EffLen
    BY DEF MacEnd
  <1>2. /\ mac'.rx_en = mac.rx_en /\ mac'.tx_sup = mac.tx_sup /\ mac'.btx_ack = mac.btx_ack
        /\ mac'.btx_pending = mac.btx_pending /\ mac'.brx_pos = mac.brx_pos
    <2>1. {"rx_en", "tx_sup", "btx_ack", "btx_pending", "brx_pos"} \cap X = {}
      BY <1>1
    <2> QED BY <1>1, <2>1, MacOnlyIs
  <1>3. "btx_req" \notin X => mac'.btx_req = mac.btx_req
    BY <1>1, MacOnlyIs
  <1>4. /\ mac'.pw = None /\ mac'.pkt = [i \in Buf |-> mac'.pkt[i]] /\ MacReg \subseteq DOMAIN mac'
        /\ \A p \in Buf : mac'.pkt[p] = InBuffer(p)
    BY BufferNext DEF MacEnd, Stores
  <1>5. /\ sent \in 1 .. TxFrames /\ mac.tx_len = TxLen(sent) /\ ~mac.btx_req
        /\ \A i \in 0 .. (mac.tx_len - 1) : InBuffer(i) = TxEnd[sent] + i
    BY DEF MacInv, Gathering
  <1>6. EffLen = WireLen(sent)
    BY <1>5 DEF EffLen, WireLen
  <1>7. \A i \in 0 .. (TxLen(sent) - 1) : mac'.pkt[i] = TxEnd[sent] + i
    <2>1. TxLen(sent) \in Nat /\ 0 .. TxLen(sent) \subseteq Buf
      BY <1>5, FrameFacts, ByteFits
    <2> QED BY <1>4, <1>5, <2>1
  <1>8. sent' = sent /\ mac'.tx_en = FALSE
    BY DEF MacEnd
  <1>9. /\ ~mac.rx_en /\ ~mac.tx_sup /\ mac.brx_pos \in Nat /\ sent \in Nat /\ sent <= TxFrames /\ sent > 0
        /\ mac.btx_pending \in BOOLEAN /\ mac.btx_ack \in BOOLEAN
    BY <1>5 DEF MacInv
  <1>10. CASE mac'.tx_len = 0 /\ mac'.est = "E_IDLE" /\ "btx_req" \notin X
    BY <1>2, <1>3, <1>4, <1>5, <1>8, <1>9, <1>10 DEF MacInv, Gathering
  <1>11. CASE mac'.est = "E_BTX" /\ mac'.btx_req = TRUE /\ mac'.btx_len = EffLen
    BY <1>2, <1>4, <1>6, <1>7, <1>8, <1>9, <1>11 DEF MacInv, Gathering
  <1> QED BY <1>1, <1>10, <1>11

(* MacInv under E_BTX.                                                     *)
LEMMA MacBtxNext ==
  ASSUME MacInv, MacBtx, Stores, mac.est = "E_BTX"
  PROVE  MacInv'
  <1>1. PICK X : /\ MacOnly(X) /\ X \subseteq {"est", "btx_req", "btx_pending", "tx_len", "btx_ack", "btx_q"}
                 /\ \/ /\ mac'.est = "E_IDLE" /\ mac'.btx_req = FALSE /\ mac'.tx_len = 0
                    \/ {"est", "btx_req"} \cap X = {}
    BY DEF MacBtx
  <1>2. /\ mac'.rx_en = mac.rx_en /\ mac'.tx_sup = mac.tx_sup /\ mac'.tx_en = mac.tx_en
        /\ mac'.btx_len = mac.btx_len /\ mac'.brx_pos = mac.brx_pos
    <2>1. {"rx_en", "tx_sup", "tx_en", "btx_len", "brx_pos"} \cap X = {}
      BY <1>1
    <2> QED BY <1>1, <2>1, MacOnlyIs
  <1>3. {"est", "btx_req"} \cap X = {} => mac'.est = mac.est /\ mac'.btx_req = mac.btx_req
    BY <1>1, MacOnlyIs
  <1>4. /\ mac'.pw = None /\ mac'.pkt = [i \in Buf |-> mac'.pkt[i]] /\ MacReg \subseteq DOMAIN mac'
        /\ \A p \in Buf : mac'.pkt[p] = InBuffer(p)
    BY BufferNext DEF MacBtx, Stores
  <1>5. /\ sent \in 1 .. TxFrames /\ mac.btx_req /\ ~mac.tx_en /\ mac.btx_len = WireLen(sent)
        /\ \A i \in 0 .. (TxLen(sent) - 1) : mac.pkt[i] = TxEnd[sent] + i
        /\ mac.pw = None
    BY DEF MacInv
  <1>7. \A i \in 0 .. (TxLen(sent) - 1) : mac'.pkt[i] = TxEnd[sent] + i
    <2>1. TxLen(sent) \in Nat /\ 0 .. TxLen(sent) \subseteq Buf
      BY <1>5, FrameFacts, ByteFits
    <2>2. \A i \in 0 .. (TxLen(sent) - 1) : InBuffer(i) = mac.pkt[i]
      BY <1>5 DEF InBuffer
    <2> QED BY <1>4, <1>5, <2>1, <2>2
  <1>8. sent' = sent
    BY DEF MacBtx
  <1>9. /\ ~mac.rx_en /\ ~mac.tx_sup /\ mac.brx_pos \in Nat /\ sent \in Nat /\ sent <= TxFrames /\ sent > 0
        /\ mac.btx_pending \in BOOLEAN /\ mac.btx_ack \in BOOLEAN
    BY <1>5 DEF MacInv
  <1>a. mac'.btx_pending \in BOOLEAN /\ mac'.btx_ack \in BOOLEAN
    <2>1. mac'.btx_ack \in BOOLEAN
      <3>1. CASE br.btx_done \/ ~cable
        <4>1. ASSUME mac.btx_pending /\ br.btx_done /\ ~(mac'.btx_ack = FALSE)
              PROVE  mac'.btx_ack = TRUE
          BY <4>1 DEF MacBtx
        <4> QED BY <3>1, <4>1 DEF MacBtx
      <3>2. CASE ~(br.btx_done \/ ~cable)
        BY <3>2 DEF MacBtx
      <3> QED BY <3>1, <3>2
    <2>2. mac'.btx_pending \in BOOLEAN
      BY <1>9 DEF MacBtx
    <2> QED BY <2>1, <2>2
  <1>10. CASE mac'.est = "E_IDLE" /\ mac'.btx_req = FALSE /\ mac'.tx_len = 0
    BY <1>2, <1>4, <1>5, <1>8, <1>9, <1>a, <1>10 DEF MacInv, Gathering
  <1>11. CASE {"est", "btx_req"} \cap X = {}
    BY <1>2, <1>3, <1>4, <1>5, <1>7, <1>8, <1>9, <1>a, <1>11 DEF MacInv, Gathering
  <1> QED BY <1>1, <1>10, <1>11

(* MacInv under E_BRX.                                                     *)
LEMMA MacBrxNext ==
  ASSUME MacInv, MacBrx, Stores, mac.est = "E_BRX"
  PROVE  MacInv'
  <1>1. /\ mac'.tx_en = mac.tx_en /\ mac'.rx_en = mac.rx_en /\ mac'.tx_sup = mac.tx_sup
        /\ mac'.tx_next = mac.tx_next /\ mac'.tx_limit = mac.tx_limit /\ mac'.tx_len = mac.tx_len
        /\ mac'.btx_req = mac.btx_req /\ mac'.btx_ack = mac.btx_ack /\ mac'.btx_pending = mac.btx_pending
    <2>1. PICK X : MacOnly(X) /\ X = {"est", "brx_pos"}
      BY DEF MacBrx
    <2>2. {"tx_en", "rx_en", "tx_sup", "tx_next", "tx_limit", "tx_len", "btx_req", "btx_ack", "btx_pending"}
          \cap X = {}
      BY <2>1
    <2> QED BY <2>1, <2>2, MacOnlyIs
  <1>2. mac'.pkt = [i \in Buf |-> mac'.pkt[i]] /\ MacReg \subseteq DOMAIN mac'
    BY BufferNext DEF Stores
  <1>3. mac'.est \in {"E_IDLE", "E_BRX"} /\ sent' = sent
    BY DEF MacBrx
  <1>4. /\ ~mac.rx_en /\ ~mac.tx_sup /\ mac.brx_pos \in Nat /\ sent \in Nat /\ (sent > 0 => sent <= TxFrames)
        /\ mac.btx_pending \in BOOLEAN /\ mac.btx_ack \in BOOLEAN /\ ~mac.btx_req /\ mac.tx_len = 0
        /\ mac.tx_en \in BOOLEAN /\ (mac.tx_en => sent > 0 /\ mac.tx_next = TxEnd[sent])
        /\ (mac.tx_en => mac.tx_limit = [a |-> TxEnd[sent + 1], f |-> TRUE])
    BY DEF MacInv, Gathering
  <1>5. /\ mac'.brx_pos \in Nat
        /\ mac'.pw # None => mac'.pw[1] \in Buf
    <2>1. \A n, v : <<n, v>>[1] = n
      OBVIOUS
    <2>2. mac.brx_pos < BufLen => mac.brx_pos \in Buf
      BY <1>4, Sizes DEF Buf
    <2> QED BY <1>4, <2>1, <2>2 DEF MacBrx
  <1> QED BY <1>1, <1>2, <1>3, <1>4, <1>5 DEF MacInv, Gathering

(* MacInv under a reset.                                                   *)
LEMMA MacOffNext ==
  ASSUME MacInv, MacOff, Stores
  PROVE  MacInv'
  <1>1. mac'.pkt = [i \in Buf |-> mac'.pkt[i]] /\ MacReg \subseteq DOMAIN mac'
    BY BufferNext DEF Stores
  <1>2. sent \in Nat /\ (sent > 0 => sent <= TxFrames) /\ sent' = sent
    BY DEF MacInv, MacOff
  <1>3. /\ mac'.est = "E_IDLE" /\ mac'.pw = None /\ ~mac'.tx_en /\ ~mac'.rx_en /\ ~mac'.tx_sup
        /\ mac'.tx_len = 0 /\ ~mac'.btx_req /\ mac'.brx_pos \in Nat
    BY DEF MacOff
  <1>4. mac'.tx_en \in BOOLEAN /\ mac'.btx_pending \in BOOLEAN /\ mac'.btx_ack \in BOOLEAN
    BY DEF MacOff
  <1> QED BY <1>1, <1>2, <1>3, <1>4 DEF MacInv, Gathering

(* A clock of the MAC.                                                     *)
MacMoved ==
    /\ Stores
    /\ \/ dev_reset /\ MacOff
       \/ ~dev_reset /\ mac.est = "E_IDLE" /\ MacIdle
       \/ ~dev_reset /\ mac.est = "E_TX_RD" /\ MacRd
       \/ ~dev_reset /\ mac.est = "E_TX_ACK" /\ MacAck
       \/ ~dev_reset /\ mac.est = "E_TX_END" /\ MacEnd
       \/ ~dev_reset /\ mac.est = "E_BTX" /\ MacBtx
       \/ ~dev_reset /\ mac.est = "E_BRX" /\ MacBrx

(* A clock of the MAC is a step of one of its states, or a reset.          *)
LEMMA ClockMac ==
  ASSUME MacInv, NEW w \in DriverWrites, NEW tick, dev_reset => w = None, MacStep(w, tick),
         sent' = IF w # None /\ w.reg = "tx_csr" THEN sent + 1 ELSE sent
  PROVE  MacMoved
  <1>1. CASE dev_reset
    <2>1. MacReset(br) /\ sent' = sent
      BY <1>1 DEF MacStep
    <2> QED BY <1>1, <2>1, MacOffIs DEF MacMoved
  <1>2. CASE ~dev_reset
    <2>1. MacTick(w, tick)
      BY <1>2 DEF MacTick, MacStep
    <2>2. mac.est \in {"E_IDLE", "E_TX_RD", "E_TX_ACK", "E_TX_END", "E_BTX", "E_BRX"}
      BY DEF MacInv
    <2>3. CASE mac.est = "E_IDLE"
      BY <1>2, <2>1, <2>3, MacIdleIs DEF MacMoved, Stores
    <2>4. CASE mac.est = "E_TX_RD"
      BY <1>2, <2>1, <2>4, MacRdIs DEF MacMoved
    <2>5. CASE mac.est = "E_TX_ACK"
      BY <1>2, <2>1, <2>5, MacAckIs DEF MacMoved
    <2>6. CASE mac.est = "E_TX_END"
      BY <1>2, <2>1, <2>6, MacEndIs DEF MacMoved
    <2>7. CASE mac.est = "E_BTX"
      BY <1>2, <2>1, <2>7, MacBtxIs DEF MacMoved
    <2>8. CASE mac.est = "E_BRX"
      BY <1>2, <2>1, <2>8, MacBrxIs DEF MacMoved
    <2> QED BY <2>2, <2>3, <2>4, <2>5, <2>6, <2>7, <2>8
  <1> QED BY <1>1, <1>2

(* MacInv under a clock.                                                   *)
LEMMA MacNext ==
  ASSUME MacInv, MacMoved
  PROVE  MacInv'
  BY MacOffNext, MacIdleNext, MacRdNext, MacAckNext, MacEndNext, MacBtxNext, MacBrxNext DEF MacMoved

(* What a clock does to the frame sent last.                               *)
MacTurn ==
    /\ sent \in Nat /\ (sent' = sent \/ sent' = sent + 1)
    /\ mac'.est = "E_BTX" =>
         /\ ~dev_reset /\ cable /\ sent' = sent /\ ~mac'.tx_en
         /\ (mac.est = "E_BTX" /\ ~br.btx_done) \/ (mac.est = "E_TX_END" /\ mac.tx_en)
    /\ mac.est = "E_BTX" =>
         /\ sent' = sent /\ ~mac'.tx_en
         /\ mac'.est # "E_BTX" => br.btx_done \/ ~cable \/ dev_reset
    /\ mac'.tx_en /\ sent' = sent => mac.tx_en
    /\ mac'.tx_en \/ mac'.est = "E_BTX" => sent' > 0

(* What a clock of the MAC means for the frame sent last.                  *)
LEMMA Turns ==
  ASSUME MacInv, MacMoved
  PROVE  MacTurn
  <1>1. /\ mac'.tx_en \in BOOLEAN /\ (mac'.tx_en \/ mac'.est = "E_BTX" => sent' > 0)
        /\ (mac'.est = "E_BTX" => ~mac'.tx_en)
    BY MacNext DEF MacInv
  <1>2. sent \in Nat /\ (Gathering => mac.tx_en) /\ mac.tx_en \in BOOLEAN
        /\ (mac.est = "E_BTX" => ~mac.tx_en)
    BY DEF MacInv
  <1>3. CASE dev_reset /\ MacOff
    BY <1>1, <1>2, <1>3 DEF MacTurn, MacOff
  <1>4. CASE ~dev_reset /\ mac.est = "E_IDLE" /\ MacIdle
    <2>1. mac'.est \in {"E_IDLE", "E_TX_RD", "E_BRX"}
      BY <1>4 DEF MacIdle
    <2>2. /\ sent' = sent \/ sent' = sent + 1
          /\ (mac'.tx_en /\ sent' = sent => mac.tx_en)
      BY <1>2, <1>4 DEF MacIdle, Driver
    <2> QED BY <1>1, <1>2, <1>4, <2>1, <2>2 DEF MacTurn
  <1>5. CASE ~dev_reset /\ mac.est = "E_TX_RD" /\ MacRd
    <2>1. mac'.est \in {"E_TX_ACK", "E_TX_END"} /\ sent' = sent
      BY <1>5 DEF MacRd
    <2> QED BY <1>1, <1>2, <1>5, <2>1 DEF MacTurn, Gathering
  <1>6. CASE ~dev_reset /\ mac.est = "E_TX_ACK" /\ MacAck
    <2>1. mac'.est = "E_TX_RD" /\ sent' = sent
      BY <1>6 DEF MacAck
    <2> QED BY <1>1, <1>2, <1>6, <2>1 DEF MacTurn, Gathering
  <1>7. CASE ~dev_reset /\ mac.est = "E_TX_END" /\ MacEnd
    <2>1. mac'.est \in {"E_IDLE", "E_BTX"} /\ sent' = sent /\ (mac'.est = "E_BTX" => cable)
      BY <1>7 DEF MacEnd
    <2> QED BY <1>1, <1>2, <1>7, <2>1 DEF MacTurn, Gathering
  <1>8. CASE ~dev_reset /\ mac.est = "E_BTX" /\ MacBtx
    <2>1. /\ sent' = sent
          /\ \/ mac'.est = "E_IDLE" /\ (br.btx_done \/ ~cable)
             \/ ~br.btx_done /\ cable
      BY <1>8 DEF MacBtx
    <2>2. mac'.tx_en = mac.tx_en
      <3>1. PICK X : MacOnly(X) /\ "tx_en" \notin X
        BY <1>8 DEF MacBtx
      <3> QED BY <3>1, MacOnlyIs
    <2>3. ~br.btx_done /\ cable => mac'.est = mac.est
      <3>1. ASSUME ~br.btx_done /\ cable
            PROVE  \E X : MacOnly(X) /\ "est" \notin X
        <4>1. "est" \notin {"btx_q", "btx_ack", "btx_pending"} /\ "est" \notin {"btx_ack", "btx_pending"}
          OBVIOUS
        <4>2. MacOnly({"btx_q", "btx_ack", "btx_pending"}) \/ MacOnly({"btx_ack", "btx_pending"})
          BY <1>8, <3>1 DEF MacBtx
        <4> QED BY <4>1, <4>2
      <3> QED BY <3>1, MacOnlyIs
    <2> QED BY <1>1, <1>2, <1>8, <2>1, <2>2, <2>3 DEF MacTurn
  <1>9. CASE ~dev_reset /\ mac.est = "E_BRX" /\ MacBrx
    <2>1. mac'.est \in {"E_IDLE", "E_BRX"} /\ sent' = sent
      BY <1>9 DEF MacBrx
    <2>2. mac'.tx_en = mac.tx_en
      <3>1. PICK X : MacOnly(X) /\ X = {"est", "brx_pos"}
        BY <1>9 DEF MacBrx
      <3>2. "tx_en" \notin X
        BY <3>1
      <3> QED BY <3>1, <3>2, MacOnlyIs
    <2> QED BY <1>1, <1>2, <1>9, <2>1, <2>2 DEF MacTurn
  <1> QED BY <1>3, <1>4, <1>5, <1>6, <1>7, <1>8, <1>9 DEF MacMoved

(* The number of frames that may be in the ring never falls.               *)
LEMMA BoundGrows ==
  ASSUME MacInv, MacMoved, MacTurn
  PROVE  Bound \in Nat /\ Bound' \in Nat /\ Bound <= Bound' /\ Bound' <= sent' /\ sent' \in Nat
  <1>1. sent \in Nat /\ sent' \in Nat /\ (Pending => sent > 0) /\ (Pending' => sent' > 0)
    <2>1. (Pending => sent > 0)
      BY DEF MacInv, Pending
    <2>2. (Pending' => sent' > 0)
      BY DEF MacTurn, Pending
    <2> QED BY <2>1, <2>2 DEF MacTurn
  <1>2. sent' = sent \/ sent' = sent + 1
    BY DEF MacTurn
  <1>3. sent' = sent => (Pending' => Pending)
    BY DEF MacTurn, Pending
  <1>4. Bound = IF Pending THEN sent - 1 ELSE sent
    BY DEF Bound
  <1>5. Bound' = IF Pending' THEN sent' - 1 ELSE sent'
    BY DEF Bound
  <1>6. CASE Pending
    <2>1. Bound = sent - 1
      BY <1>4, <1>6
    <2>2. Bound' = sent' - 1 \/ Bound' = sent'
      BY <1>5
    <2>3. CASE Pending'
      <3>1. Bound' = sent' - 1
        BY <1>5, <2>3
      <3>2. sent > 0
        BY <1>1, <1>6
      <3>3. sent' > 0
        BY <1>1, <2>3
      <3>4. sent \in Nat /\ sent' \in Nat
        BY <1>1
      <3>5. \A n, m \in Nat : n > 0 /\ m > 0 /\ (m = n \/ m = n + 1) =>
                n - 1 \in Nat /\ m - 1 \in Nat /\ n - 1 <= m - 1 /\ m - 1 <= m
        OBVIOUS
      <3>6. sent - 1 \in Nat /\ sent' - 1 \in Nat /\ sent - 1 <= sent' - 1 /\ sent' - 1 <= sent'
        BY <1>2, <3>2, <3>3, <3>4, <3>5
      <3> QED BY <2>1, <3>1, <3>4, <3>6
    <2>4. CASE ~Pending'
      <3>1. Bound' = sent'
        BY <1>5, <2>4
      <3> QED BY <1>1, <1>2, <1>6, <2>1, <3>1
    <2> QED BY <2>3, <2>4
  <1>7. CASE ~Pending
    <2>1. Bound = sent
      BY <1>4, <1>7
    <2>3. CASE Pending'
      <3>1. Bound' = sent' - 1 /\ sent' = sent + 1
        BY <1>2, <1>3, <1>5, <1>7, <2>3
      <3> QED BY <1>1, <2>1, <3>1
    <2>4. CASE ~Pending'
      <3>1. Bound' = sent'
        BY <1>5, <2>4
      <3> QED BY <1>1, <1>2, <2>1, <3>1
    <2> QED BY <2>3, <2>4
  <1> QED BY <1>6, <1>7

(* The bytes the bridge asks for.                                          *)
Handshake ==
    /\ mac'.btx_pending => mac'.est = "E_BTX" /\ mac.est = "E_BTX" /\ br.btx_rd
    /\ mac'.btx_ack =>
         /\ mac'.est = "E_BTX" /\ mac.est = "E_BTX" /\ mac.btx_pending
         /\ mac'.btx_q = mac.pkt_q
    /\ ~(mac'.btx_pending /\ mac'.btx_ack)
    /\ mac.est = "E_BTX" => mac'.pkt_q = mac.pkt[br.btx_addr]

(* What a clock of the MAC means for the byte the bridge asks for.         *)
LEMMA Shakes ==
  ASSUME MacInv, MacMoved, ~(br.btx_rd /\ mac.btx_pending), mac.btx_pending => ~br.btx_done,
         mac.btx_pending \/ mac.btx_ack => mac.est = "E_BTX"
  PROVE  Handshake
  <1>1. mac'.pkt_q = mac.pkt[Readout]
    BY DEF MacMoved, Stores
  <1>2. mac.est = "E_BTX" => mac'.pkt_q = mac.pkt[br.btx_addr]
    BY <1>1 DEF Readout
  <1>b. mac.btx_pending \in BOOLEAN /\ mac.btx_ack \in BOOLEAN
    BY DEF MacInv
  <1>3. CASE dev_reset /\ MacOff
    BY <1>2, <1>3 DEF MacOff, Handshake
  <1>4. CASE mac.est # "E_BTX" /\ ~dev_reset
    <2>1. \E X : MacOnly(X) /\ "btx_pending" \notin X /\ "btx_ack" \notin X
      <3>1. {"btx_pending", "btx_ack"} \cap ({"est", "brx_pos"} \cup TxRegs) = {}
        BY DEF TxRegs
      <3>2. CASE MacIdle
        BY <3>1, <3>2 DEF MacIdle
      <3>3. CASE MacRd
        <4>1. PICK X : MacOnly(X) /\ X \subseteq {"est", "m_req", "m_addr"}
          BY <3>3 DEF MacRd
        <4> QED BY <4>1
      <3>4. CASE MacAck
        <4>1. PICK X : MacOnly(X) /\ X = {"est", "m_req", "tx_len", "tx_next"}
          BY <3>4 DEF MacAck
        <4> QED BY <4>1
      <3>5. CASE MacEnd
        <4>1. PICK X : MacOnly(X) /\ X \subseteq {"est", "tx_en", "tx_len", "btx_req", "btx_len"}
          BY <3>5 DEF MacEnd
        <4> QED BY <4>1
      <3>6. CASE MacBrx
        <4>1. PICK X : MacOnly(X) /\ X = {"est", "brx_pos"}
          BY <3>6 DEF MacBrx
        <4> QED BY <4>1
      <3> QED BY <1>4, <3>2, <3>3, <3>4, <3>5, <3>6 DEF MacMoved
    <2>2. mac'.btx_pending = mac.btx_pending /\ mac'.btx_ack = mac.btx_ack
      BY <2>1, MacOnlyIs
    <2>3. ~mac'.btx_pending /\ ~mac'.btx_ack
      BY <1>4, <2>2
    <2> QED BY <1>2, <2>3 DEF Handshake
  <1>5. CASE mac.est = "E_BTX" /\ ~dev_reset
    <2>1. MacBtx
      BY <1>5 DEF MacMoved
    <2>2. CASE br.btx_done \/ ~cable
      <3>1. ~mac'.btx_pending /\ ~mac'.btx_ack
        BY <2>1, <2>2 DEF MacBtx
      <3> QED BY <1>2, <3>1 DEF Handshake
    <2>3. CASE ~br.btx_done /\ cable /\ mac.btx_pending
      <3>1. MacOnly({"btx_q", "btx_ack", "btx_pending"}) /\ mac'.btx_q = mac.pkt_q
            /\ ~mac'.btx_pending
        BY <2>1, <2>3 DEF MacBtx
      <3>2. mac'.est = "E_BTX"
        <4>1. "est" \notin {"btx_q", "btx_ack", "btx_pending"}
          OBVIOUS
        <4> QED BY <1>5, <3>1, <4>1, MacOnlyIs
      <3> QED BY <1>2, <1>5, <2>3, <3>1, <3>2 DEF Handshake
    <2>4. CASE ~br.btx_done /\ cable /\ ~mac.btx_pending
      <3>1. MacOnly({"btx_ack", "btx_pending"}) /\ ~mac'.btx_ack /\ (mac'.btx_pending => br.btx_rd)
        <4>1. ~br.btx_rd => mac'.btx_pending = mac.btx_pending
          BY <2>1, <2>4 DEF MacBtx
        <4>2. ~br.btx_rd => ~mac'.btx_pending
          BY <2>4, <4>1
        <4> QED BY <2>1, <2>4, <4>2 DEF MacBtx
      <3>2. mac'.est = "E_BTX"
        <4>1. "est" \notin {"btx_ack", "btx_pending"}
          OBVIOUS
        <4> QED BY <1>5, <3>1, <4>1, MacOnlyIs
      <3> QED BY <1>2, <1>5, <2>4, <3>1, <3>2 DEF Handshake
    <2> QED BY <2>2, <2>3, <2>4
  <1> QED BY <1>3, <1>4, <1>5 DEF MacMoved

-----------------------------------------------------------------------------
(* The rings: RingInv and BoxInv.                                          *)

(* Where a write of the bridge lands, in a clock or as the core is reset.  *)
Elsewhere(a) == \A w \in MailboxWord : w # a => box'[w] = box[w]
SameGen == (ours' <=> ours) /\ gen_base' = gen_base
Landed(a, d) == SameGen /\ Elsewhere(a) /\ (a \in MailboxWord => box'[a] = d)

(* What an access to the mailbox can do, by the word it writes.            *)
LEMMA Lands ==
  ASSUME BridgeInv, BoxInv, InitInv, NEW answer \in BOOLEAN, Access(answer)
  PROVE  \/ box' = box /\ SameGen
         \/ /\ answer /\ Landing("MAGIC") /\ box[A("TXWPTR")] = 0 /\ Elsewhere(A("MAGIC"))
            /\ gen_base' = pushed
         \/ /\ ~Live /\ ~box'[A("MAGIC")] /\ SameGen
            /\ box'[A("TXWPTR")] = box[A("TXWPTR")] \/ box'[A("TXWPTR")] = 0
         \/ Live /\ Landing("TXWPTR") /\ Landed(A("TXWPTR"), br.tx_wptr)
         \/ Live /\ Landing("RXRPTR") /\ Landed(A("RXRPTR"), br.rx_rptr)
         \/ Live /\ Wait_("S_IDLE") /\ br.m_addr = A("MAC") /\ SameGen /\ Elsewhere(A("MAC"))
         \/ Live /\ ~box_ack /\ WritingWord /\ Landed(TxWord(br.tx_wptr, 1 + Row), br.pack)
         \/ Live /\ ~box_ack /\ Wait_("S_TX_WPTR") /\ Landed(TxWord(br.tx_wptr, 0), br.cur_len)
  <1>1. CASE ~(answer /\ br.m_we)
    <2>1. box' = box
      BY <1>1, AccessIs
    <2>2. SameGen
      BY <1>1, AccessIs DEF SameGen
    <2> QED BY <2>1, <2>2
  <1>2. CASE answer /\ br.m_we
    <2>0. /\ \A k \in Kind : A(k) \in MailboxWord
          /\ \A j, k \in Kind : A(j) = A(k) => j = k
          /\ \A k \in Kind : \A p, w : TxWord(p, w) # A(k)
      BY Addresses
    <2>1. br.st = "S_WAIT" /\ ~box_ack /\ br.ret \in RetState /\ Operation
      <3>1. br.m_req /\ ~box_ack
        BY <1>2 DEF Access
      <3> QED BY <3>1 DEF BridgeInv
    <2>2. /\ Elsewhere(br.m_addr)
          /\ br.m_addr \in MailboxWord => box'[br.m_addr] = br.m_wdata
      <3>1. \A w \in MailboxWord : w # br.m_addr => box'[w] = box[w]
        BY <1>2, AccessIs
      <3>2. br.m_addr \in MailboxWord => box'[br.m_addr] = br.m_wdata
        BY <1>2, AccessIs
      <3> QED BY <3>1, <3>2 DEF Elsewhere
    <2>3. ~(br.m_addr = A("MAGIC") /\ br.m_wdata) => SameGen
      <3>1. ASSUME ~(br.m_addr = A("MAGIC") /\ br.m_wdata) PROVE SameGen
        <4>1. ~(answer /\ br.m_we /\ br.m_addr = A("MAGIC") /\ br.m_wdata)
          BY <3>1
        <4>2. (ours' <=> ours) /\ gen_base' = gen_base
          BY <4>1, AccessIs
        <4> QED BY <4>2 DEF SameGen
      <3> QED BY <3>1
    <2>4. CASE br.ret = "S_INIT_TXPTR"
      <3>1. br.m_addr = A("MAGIC") /\ br.m_wdata = FALSE
        BY <2>1, <2>4 DEF Operation, Write
      <3>2. box'[A("MAGIC")] = FALSE /\ box'[A("TXWPTR")] = box[A("TXWPTR")]
        BY <2>0, <2>2, <3>1 DEF Elsewhere, Kind
      <3>3. ~Live
        BY <2>1, <2>4 DEF Live, Phase, TxState, RxState
      <3>4. ~br.m_wdata
        BY <3>1
      <3> QED BY <2>3, <3>2, <3>3, <3>4
    <2>5. CASE br.ret \in RetState \cap (InitState \cup {"S_OFF"}) /\ br.ret # "S_INIT_TXPTR"
      <3>1. \E k \in Kind \ {"MAGIC"} : br.m_addr = A(k) /\ (k = "TXWPTR" => br.m_wdata = 0)
        BY <2>0, <2>1, <2>5 DEF Operation, Write, WriteMac, Kind, InitState
      <3>2. Cleared
        BY <2>1, <2>5 DEF Cleared
      <3>3. ~box[A("MAGIC")]
        BY <3>2 DEF InitInv
      <3>4. br.m_addr # A("MAGIC") /\ box'[A("MAGIC")] = box[A("MAGIC")]
        BY <2>0, <2>2, <3>1 DEF Elsewhere, Kind
      <3>5. box'[A("TXWPTR")] = box[A("TXWPTR")] \/ box'[A("TXWPTR")] = 0
        BY <2>0, <2>2, <3>1 DEF Elsewhere, Kind
      <3>6. ~Live
        BY <2>1, <2>5 DEF Live, Phase, TxState, RxState, InitState
      <3>7. ~box'[A("MAGIC")]
        BY <3>3, <3>4
      <3> QED BY <2>3, <3>4, <3>5, <3>6, <3>7
    <2>6. CASE Landing("MAGIC")
      <3>1. br.m_addr = A("MAGIC") /\ br.ret = "S_IDLE"
        BY <2>6 DEF Landing, Writing, Wait_
      <3>2. br.m_wdata
        BY <2>0, <2>1, <3>1 DEF Operation, Write, WriteMac, Kind
      <3>3. gen_base' = pushed
        BY <1>2, <3>1, <3>2, AccessIs
      <3>4. TxZero
        BY <2>6 DEF TxZero, Landing
      <3> QED BY <1>2, <2>2, <2>6, <3>1, <3>3, <3>4 DEF InitInv
    <2>7. CASE br.ret \notin InitState \cup {"S_OFF"} /\ ~Landing("MAGIC")
      <3>1. Live
        BY <2>1, <2>7 DEF Live, Phase, RetState, TxState, RxState
      <3>2. CASE br.ret = "S_IDLE" /\ Write(A("TXWPTR"), br.tx_wptr)
        <4>1. br.m_addr = A("TXWPTR") /\ br.m_wdata = br.tx_wptr
          BY <3>2 DEF Write
        <4>2. SameGen
          BY <2>0, <2>3, <4>1 DEF Kind
        <4>3. Landed(A("TXWPTR"), br.tx_wptr)
          BY <2>2, <4>1, <4>2 DEF Landed
        <4>4. Landing("TXWPTR")
          BY <2>1, <3>2, <4>1 DEF Landing, Writing, Wait_
        <4> QED BY <3>1, <4>3, <4>4
      <3>3. CASE br.ret = "S_IDLE" /\ Write(A("RXRPTR"), br.rx_rptr)
        <4>1. br.m_addr = A("RXRPTR") /\ br.m_wdata = br.rx_rptr
          BY <3>3 DEF Write
        <4>2. SameGen
          BY <2>0, <2>3, <4>1 DEF Kind
        <4>3. Landed(A("RXRPTR"), br.rx_rptr)
          BY <2>2, <4>1, <4>2 DEF Landed
        <4>4. Landing("RXRPTR")
          BY <2>1, <3>3, <4>1 DEF Landing, Writing, Wait_
        <4> QED BY <3>1, <4>3, <4>4
      <3>4. CASE br.ret = "S_IDLE" /\ WriteMac
        <4>1. br.m_addr = A("MAC")
          BY <3>4 DEF WriteMac
        <4>2. SameGen
          BY <2>0, <2>3, <4>1 DEF Kind
        <4>3. Wait_("S_IDLE") /\ Elsewhere(A("MAC"))
          BY <2>1, <2>2, <3>4, <4>1 DEF Wait_
        <4> QED BY <3>1, <4>1, <4>2, <4>3
      <3>5. CASE br.ret \in {"S_TX_PACK", "S_TX_HDR"} /\ Write(TxWord(br.tx_wptr, 1 + Row), br.pack)
        <4>1. br.m_addr = TxWord(br.tx_wptr, 1 + Row) /\ br.m_wdata = br.pack
          BY <3>5 DEF Write
        <4>2. SameGen
          BY <2>0, <2>3, <4>1 DEF Kind
        <4>3. Landed(TxWord(br.tx_wptr, 1 + Row), br.pack)
          BY <2>2, <4>1, <4>2 DEF Landed
        <4>4. WritingWord
          BY <2>1, <3>5 DEF WritingWord
        <4> QED BY <2>1, <3>1, <4>3, <4>4
      <3>6. CASE br.ret = "S_TX_WPTR" /\ Write(TxWord(br.tx_wptr, 0), br.cur_len)
        <4>1. br.m_addr = TxWord(br.tx_wptr, 0) /\ br.m_wdata = br.cur_len
          BY <3>6 DEF Write
        <4>2. SameGen
          BY <2>0, <2>3, <4>1 DEF Kind
        <4>3. Landed(TxWord(br.tx_wptr, 0), br.cur_len)
          BY <2>2, <4>1, <4>2 DEF Landed
        <4>4. Wait_("S_TX_WPTR")
          BY <2>1, <3>6 DEF Wait_
        <4> QED BY <2>1, <3>1, <4>3, <4>4
      <3> QED BY <1>2, <2>1, <3>1, <3>2, <3>3, <3>4, <3>5, <3>6, LiveLands
    <2> QED BY <2>1, <2>4, <2>5, <2>6, <2>7
  <1> QED BY <1>1, <1>2

(* The transmit ring when its words and its pointer stay.                  *)
TxKept(p) == \A w \in 0 .. Words : box'[TxWord(p, w)] = box[TxWord(p, w)]

(* A byte of a slot nothing is written to.                                 *)
LEMMA ByteKept ==
  ASSUME NEW p, TxKept(p), NEW i \in Nat, i < MaxFrame
  PROVE  TxSlotByte(p, i)' = TxSlotByte(p, i)
  <1>1. 1 + i \div Lanes \in 0 .. Words
    BY WordIn
  <1> QED BY <1>1 DEF TxKept, TxSlotByte

(* A frame in a slot nothing is written to.                                *)
LEMMA FrameKept ==
  ASSUME NEW p, TxKept(p), NEW k \in 1 .. TxFrames
  PROVE  HoldsFrame(p, k)' <=> HoldsFrame(p, k)
  <1>1. WireLen(k) \in Nat /\ WireLen(k) <= MaxFrame /\ MaxFrame \in Nat
    BY FrameFacts, Sizes
  <1>2. \A i \in 0 .. (WireLen(k) - 1) : i \in Nat /\ i < MaxFrame
    BY <1>1
  <1>3. \A i \in 0 .. (WireLen(k) - 1) : TxSlotByte(p, i)' = TxSlotByte(p, i)
    BY <1>2, ByteKept
  <1>4. 0 \in 0 .. Words
    <2>1. 0 \in Nat /\ 0 < MaxFrame /\ Words \in Int
      BY Sizes DEF Words
    <2>2. 1 + 0 \div Lanes \in 1 .. Words
      BY <2>1, WordIn
    <2>3. 0 \div Lanes = 0
      BY Sizes, DivZero
    <2> QED BY <2>1, <2>2, <2>3
  <1>5. box'[TxWord(p, 0)] = box[TxWord(p, 0)]
    BY <1>4 DEF TxKept
  <1> QED BY <1>3, <1>5 DEF HoldsFrame

(* A ring of the frames up to n is one of the frames up to m.              *)
LEMMA RingGrows ==
  ASSUME NEW n \in Nat, NEW m \in Nat, n <= m, Ring(n)
  PROVE  Ring(m)
  <1> SUFFICES ASSUME NEW p \in Pub(box[A("TXWPTR")])
               PROVE  \E k \in 1 .. m :
                         /\ HoldsFrame(p, k)
                         /\ p + 1 \in Pub(box[A("TXWPTR")]) => \E j \in (k + 1) .. m : HoldsFrame(p + 1, j)
    BY DEF Ring
  <1>1. PICK k \in 1 .. n :
           /\ HoldsFrame(p, k)
           /\ p + 1 \in Pub(box[A("TXWPTR")]) => \E j \in (k + 1) .. n : HoldsFrame(p + 1, j)
    BY DEF Ring
  <1>2. k \in 1 .. m /\ \A j \in (k + 1) .. n : j \in (k + 1) .. m
    OBVIOUS
  <1> QED BY <1>1, <1>2

(* The ring when its pointer and its slots are left alone.                 *)
LEMMA RingKept ==
  ASSUME NEW n \in Nat, n <= TxFrames, Ring(n), box'[A("TXWPTR")] = box[A("TXWPTR")],
         \A p \in Pub(box[A("TXWPTR")]) : TxKept(p), TxFrames \in Int
  PROVE  Ring(n)'
  <1> DEFINE P == Pub(box[A("TXWPTR")])
  <1>1. Pub(box[A("TXWPTR")])' = P
    BY DEF Pub
  <1> SUFFICES ASSUME NEW p \in P
               PROVE  \E k \in 1 .. n :
                         /\ HoldsFrame(p, k)'
                         /\ p + 1 \in P => \E j \in (k + 1) .. n : HoldsFrame(p + 1, j)'
    BY <1>1 DEF Ring
  <1>2. PICK k \in 1 .. n :
           /\ HoldsFrame(p, k)
           /\ p + 1 \in P => \E j \in (k + 1) .. n : HoldsFrame(p + 1, j)
    BY DEF Ring
  <1> HIDE DEF P
  <1>3. HoldsFrame(p, k)'
    <2>1. TxKept(p) /\ k \in 1 .. TxFrames
      BY DEF P
    <2> QED BY <1>2, <2>1, FrameKept
  <1>4. ASSUME p + 1 \in P
        PROVE  \E j \in (k + 1) .. n : HoldsFrame(p + 1, j)'
    <2>1. PICK j \in (k + 1) .. n : HoldsFrame(p + 1, j)
      BY <1>2, <1>4
    <2>2. TxKept(p + 1) /\ j \in 1 .. TxFrames
      BY <1>4 DEF P
    <2> QED BY <2>1, <2>2, FrameKept
  <1> QED BY <1>3, <1>4

(* The number of frames, as the solver wants it.                           *)
LEMMA FramesInt == TxFrames \in Int
  <1>1. TxEnd \in Seq(0 .. RamTop)
    BY LinkAssumption
  <1> QED BY <1>1 DEF TxFrames

(* A write to a pointer word leaves the slots alone.                       *)
LEMMA KindKeeps ==
  ASSUME NEW k \in Kind, Elsewhere(A(k)), NEW p \in Nat
  PROVE  TxKept(p)
  <1>1. \A w \in 0 .. Words : TxWord(p, w) \in MailboxWord /\ TxWord(p, w) # A(k)
    BY Addresses
  <1> QED BY <1>1 DEF Elsewhere, TxKept

(* The slots before the one being written, down to the ring's size.        *)
LEMMA SlotKeeps ==
  ASSUME NEW q \in Nat, NEW v, Elsewhere(TxWord(q, v)), NEW p \in Pub(q)
  PROVE  TxKept(p)
  <1>1. p \in Nat /\ p < q /\ q < p + Slots /\ Slots \in Nat \ {0}
    BY Sizes DEF Pub
  <1>2. p % Slots # q % Slots
    BY <1>1, ModApart
  <1>3. \A w \in 0 .. Words : TxWord(p, w) \in MailboxWord /\ TxWord(p, w) # TxWord(q, v)
    BY <1>1, <1>2, Addresses
  <1> QED BY <1>3 DEF Elsewhere, TxKept

(* A write elsewhere leaves a pointer word alone.                          *)
LEMMA KindStays ==
  ASSUME NEW k \in Kind, NEW a, Elsewhere(a), A(k) # a
  PROVE  box'[A(k)] = box[A(k)]
  BY Addresses DEF Elsewhere

(* A landing write that is not the pointer's leaves the ring alone.        *)
LEMMA RingStable ==
  ASSUME BridgeInv, BoxInv, InitInv, LiveInv, NEW answer \in BOOLEAN, Access(answer),
         Live, ~Landing("TXWPTR")
  PROVE  /\ box'[A("TXWPTR")] = box[A("TXWPTR")] /\ SameGen
         /\ \A p \in Pub(box[A("TXWPTR")]) : TxKept(p)
         /\ \A n \in Nat : n <= TxFrames /\ Ring(n) => Ring(n)'
  <1>0. /\ box[A("TXWPTR")] = br.tx_wptr /\ br.tx_wptr \in Nat
        /\ \A p \in Pub(box[A("TXWPTR")]) : p \in Nat
    BY DEF LiveInv, BridgeInv, Pub
  <1>k. {"MAGIC", "TXWPTR", "RXWPTR", "RXRPTR", "MAC"} = Kind
    BY DEF Kind
  <1>1. /\ box'[A("TXWPTR")] = box[A("TXWPTR")] /\ SameGen
        /\ \A p \in Pub(box[A("TXWPTR")]) : TxKept(p)
    <2>1. CASE box' = box /\ SameGen
      BY <2>1 DEF TxKept
    <2>2. CASE Landing("MAGIC")
      BY <2>2 DEF Live
    <2>3. CASE Landing("RXRPTR") /\ Landed(A("RXRPTR"), br.rx_rptr)
      <3>1. A("TXWPTR") # A("RXRPTR")
        BY Addresses, <1>k
      <3>2. SameGen /\ Elsewhere(A("RXRPTR"))
        BY <2>3 DEF Landed
      <3>3. box'[A("TXWPTR")] = box[A("TXWPTR")]
        BY <1>k, <3>1, <3>2, KindStays
      <3>4. \A p \in Nat : TxKept(p)
        BY <1>k, <3>2, KindKeeps
      <3> QED BY <1>0, <3>2, <3>3, <3>4
    <2>4. CASE SameGen /\ Elsewhere(A("MAC"))
      <3>1. A("TXWPTR") # A("MAC")
        BY Addresses, <1>k
      <3>3. box'[A("TXWPTR")] = box[A("TXWPTR")]
        BY <1>k, <3>1, <2>4, KindStays
      <3>4. \A p \in Nat : TxKept(p)
        BY <1>k, <2>4, KindKeeps
      <3> QED BY <1>0, <2>4, <3>3, <3>4
    <2>5. ASSUME NEW v, NEW d, Landed(TxWord(br.tx_wptr, v), d)
          PROVE  /\ box'[A("TXWPTR")] = box[A("TXWPTR")] /\ SameGen
                 /\ \A p \in Pub(box[A("TXWPTR")]) : TxKept(p)
      <3>1. A("TXWPTR") # TxWord(br.tx_wptr, v)
        BY Addresses, <1>k
      <3>2. SameGen /\ Elsewhere(TxWord(br.tx_wptr, v))
        BY <2>5 DEF Landed
      <3>3. box'[A("TXWPTR")] = box[A("TXWPTR")]
        BY <1>k, <3>1, <3>2, KindStays
      <3>4. \A p \in Pub(br.tx_wptr) : TxKept(p)
        BY <1>0, <3>2, SlotKeeps
      <3> QED BY <1>0, <3>2, <3>3, <3>4
    <2> QED BY <2>1, <2>2, <2>3, <2>4, <2>5, Lands
  <1>2. ASSUME NEW n \in Nat, n <= TxFrames, Ring(n) PROVE Ring(n)'
    BY <1>1, <1>2, FramesInt, RingKept
  <1> QED BY <1>1, <1>2

(* The pointer lands on a frame complete in its slot.                      *)
LEMMA RingAdvances ==
  ASSUME BridgeInv, Elsewhere(A("TXWPTR")), NEW n \in Nat, NEW k \in 1 .. n, n <= TxFrames,
         br.tx_wptr > 0, box[A("TXWPTR")] = br.tx_wptr - 1, box'[A("TXWPTR")] = br.tx_wptr,
         Ring(k - 1), HoldsFrame(br.tx_wptr - 1, k)
  PROVE  Ring(n)'
  <1> DEFINE t == br.tx_wptr
             q == br.tx_wptr - 1
             P == Pub(br.tx_wptr)
             O == Pub(br.tx_wptr - 1)
  <1>0. t \in Nat /\ q \in Nat /\ t = q + 1 /\ k \in Nat /\ TxFrames \in Int /\ Slots \in Nat \ {0}
        /\ k <= TxFrames
    BY FramesInt, Sizes DEF BridgeInv
  <1>1. /\ \A p \in P : p \in Nat /\ (p = q \/ p \in O)
        /\ \A p \in O : p \in Nat /\ p < q
        /\ \A p \in P : p + 1 \in P => p # q /\ (p + 1 = q \/ p + 1 \in O)
    BY <1>0 DEF Pub
  <1>2. \A p \in Nat : TxKept(p)
    <2>1. "TXWPTR" \in Kind
      BY DEF Kind
    <2> QED BY <2>1, KindKeeps
  <1>3. \A p \in Nat : \A j \in 1 .. TxFrames : HoldsFrame(p, j)' <=> HoldsFrame(p, j)
    BY <1>2, FrameKept
  <1>4. \A p \in O : \E i \in 1 .. (k - 1) :
            /\ HoldsFrame(p, i)
            /\ p + 1 \in O => \E j \in (i + 1) .. (k - 1) : HoldsFrame(p + 1, j)
    BY DEF Ring
  <1>5. HoldsFrame(q, k) /\ box'[A("TXWPTR")] = t
    OBVIOUS
  <1>6. Pub(box[A("TXWPTR")])' = P
    BY <1>5 DEF Pub
  <1> SUFFICES ASSUME NEW p \in P
               PROVE  \E i \in 1 .. n :
                         /\ HoldsFrame(p, i)'
                         /\ p + 1 \in P => \E j \in (i + 1) .. n : HoldsFrame(p + 1, j)'
    BY <1>6 DEF Ring
  <1> HIDE DEF t, q, P, O
  <1>7. CASE p = q
    <2>1. HoldsFrame(p, k)'
      BY <1>0, <1>3, <1>5, <1>7
    <2>2. ~(p + 1 \in P)
      BY <1>1, <1>7
    <2> QED BY <2>1, <2>2
  <1>8. CASE p \in O
    <2>1. PICK i \in 1 .. (k - 1) :
            /\ HoldsFrame(p, i)
            /\ p + 1 \in O => \E j \in (i + 1) .. (k - 1) : HoldsFrame(p + 1, j)
      BY <1>4, <1>8
    <2>2. p \in Nat /\ p + 1 \in Nat /\ i \in 1 .. n /\ i \in 1 .. TxFrames /\ k \in (i + 1) .. n
          /\ k \in 1 .. TxFrames
      BY <1>0, <1>1, <1>8
    <2>3. HoldsFrame(p, i)'
      BY <1>3, <2>1, <2>2
    <2>4. ASSUME p + 1 \in P PROVE \E j \in (i + 1) .. n : HoldsFrame(p + 1, j)'
      <3>1. CASE p + 1 = q
        <4>1. HoldsFrame(p + 1, k)'
          BY <1>3, <1>5, <2>2, <3>1
        <4> QED BY <2>2, <4>1
      <3>2. CASE p + 1 \in O
        <4>1. PICK j \in (i + 1) .. (k - 1) : HoldsFrame(p + 1, j)
          BY <2>1, <3>2
        <4>2. j \in (i + 1) .. n /\ j \in 1 .. TxFrames
          BY <1>0, <2>2
        <4>3. HoldsFrame(p + 1, j)'
          BY <1>3, <2>2, <4>1, <4>2
        <4> QED BY <4>2, <4>3
      <3> QED BY <1>1, <2>4, <3>1, <3>2
    <2> QED BY <2>2, <2>3, <2>4
  <1> QED BY <1>1, <1>7, <1>8

(* RingInv under a clock.                                                  *)
LEMMA RingNext ==
  ASSUME BridgeInv, BoxInv, InitInv, LiveInv, RingInv, TxInv, NEW answer \in BOOLEAN, Access(answer),
         Bound \in Nat, Bound' \in Nat, Bound <= Bound', Bound' <= TxFrames
  PROVE  RingInv'
  <1> DEFINE m == Bound'
  <1>0. m \in Nat /\ m <= TxFrames /\ Bound <= m /\ TxFrames \in Int
    BY FramesInt
  <1>1. ASSUME NEW n \in Nat, n = Bound', Ring(n)' PROVE RingInv'
    BY <1>1 DEF RingInv, Ring
  <1>2. PICK n \in Nat : n = Bound'
    BY <1>0
  <1> SUFFICES ASSUME box'[A("MAGIC")], ours' PROVE Ring(n)'
    BY <1>1, <1>2 DEF RingInv
  <1>3. n <= TxFrames /\ Bound <= n
    BY <1>0, <1>2
  <1> HIDE DEF m
  <1>4. ASSUME box[A("MAGIC")], ours PROVE Ring(n)
    BY <1>3, <1>4, RingGrows DEF RingInv
  <1>5. CASE box' = box /\ SameGen
    <2>1. Ring(n) /\ box'[A("TXWPTR")] = box[A("TXWPTR")] /\ \A p : TxKept(p)
      BY <1>4, <1>5 DEF SameGen, TxKept
    <2> QED BY <1>0, <1>3, <2>1, RingKept
  <1>6. CASE Landing("MAGIC") /\ box[A("TXWPTR")] = 0 /\ Elsewhere(A("MAGIC"))
    <2>1. "TXWPTR" \in Kind /\ "MAGIC" \in Kind
      BY DEF Kind
    <2>2. A("TXWPTR") # A("MAGIC")
      BY <2>1, Addresses
    <2>3. box'[A("TXWPTR")] = 0
      BY <1>6, <2>1, <2>2, KindStays
    <2>4. Pub(box[A("TXWPTR")])' = {}
      BY <2>3 DEF Pub
    <2> QED BY <2>4 DEF Ring
  <1>7. CASE Live /\ Landing("TXWPTR") /\ Landed(A("TXWPTR"), br.tx_wptr)
    <2>1. A("TXWPTR") \in MailboxWord
      BY Addresses DEF Kind
    <2>2. Elsewhere(A("TXWPTR")) /\ box'[A("TXWPTR")] = br.tx_wptr
      BY <1>7, <2>1 DEF Landed
    <2>3. box[A("TXWPTR")] = br.tx_wptr - 1
      BY <1>7 DEF LiveInv
    <2>4. PICK k \in 1 .. sent : Ring(k - 1) /\ HoldsFrame(br.tx_wptr - 1, k) /\ k <= Bound
      BY <1>7 DEF TxInv
    <2>5. br.tx_wptr > 0
      BY <1>7 DEF TxInv, Landing
    <2>6. k \in 1 .. n
      BY <1>3, <2>4
    <2> QED BY <1>3, <2>2, <2>3, <2>4, <2>5, <2>6, RingAdvances
  <1>8. CASE Live /\ ~Landing("TXWPTR")
    <2>1. box[A("MAGIC")] /\ ours
      BY <1>8 DEF LiveInv
    <2>2. Ring(n)
      BY <1>4, <2>1
    <2> QED BY <1>3, <1>8, <2>2, RingStable
  <1>9. /\ Landing("RXRPTR") => ~Landing("TXWPTR")
        /\ br.m_addr = A("MAC") => ~Landing("TXWPTR")
        /\ WritingWord => ~Landing("TXWPTR")
        /\ Wait_("S_TX_WPTR") => ~Landing("TXWPTR")
    <2>1. A("TXWPTR") # A("RXRPTR") /\ A("TXWPTR") # A("MAC")
      BY Addresses DEF Kind
    <2> QED BY <2>1 DEF Landing, Writing, Wait_, WritingWord
  <1> QED BY <1>5, <1>6, <1>7, <1>8, <1>9, Lands

(* What the invariants say of the bridge and the mailbox.                  *)
Reached == BridgeInv /\ BoxInv /\ InitInv /\ LiveInv
(* A clock of the bridge and of the mailbox's port.                        *)
Ticks(poll_tick, answer) ==
    answer \in BOOLEAN /\ Moves(Step(poll_tick)) /\ Access(answer) /\ box_ack' = answer

(* The mailbox comes to life as its MAGIC lands, and only so.              *)
LEMMA LiveFrom ==
  ASSUME BridgeInv, BoxInv, NEW poll_tick, NEW answer, Ticks(poll_tick, answer), Live'
  PROVE  Live \/ (Landing("MAGIC") /\ answer = TRUE)
  <1>0. /\ answer \in BOOLEAN /\ Moves(Step(poll_tick)) /\ Access(answer) /\ box_ack' = answer
        /\ box_ack \in BOOLEAN /\ br.st \in BState
    BY DEF Ticks, BridgeInv
  <1>1. CASE br.st # "S_WAIT"
    <2>1. answer = FALSE
      BY <1>0, <1>1, Still
    <2>2. br.st \in Serving
      BY <1>0, <1>1, <2>1, NotServing, States DEF Serving
    <2> QED BY <1>1, <2>2 DEF Serving, Live, Phase, Landing, Writing, Wait_
  <1>2. CASE br.st = "S_WAIT"
    <2>0. br.ret \in RetState
      BY <1>2 DEF BridgeInv
    <2>1. CASE ~box_ack /\ Only({})
      <3>1. br'.st = br.st /\ br'.ret = br.ret /\ br'.m_addr = br.m_addr
        BY <2>1, WaitKeeps
      <3> QED BY <1>0, <1>2, <2>1, <3>1 DEF Live, Phase, Landing, Writing, Wait_
    <2>2. CASE box_ack /\ br'.st = br.ret
      BY <1>2, <2>0, <2>2 DEF Live, Phase, Landing, RetState, InitState
    <2> QED BY <1>0, <1>2, <2>1, <2>2, WaitIs
  <1> QED BY <1>1, <1>2

(* While it lives only the two consumer pointers and the transmit slots    *)
(* are written.                                                            *)
LEMMA LiveStays ==
  ASSUME Reached, NEW answer \in BOOLEAN, Access(answer), Live
  PROVE  SameGen /\ box'[A("RXWPTR")] = box[A("RXWPTR")] /\ box'[A("MAGIC")] = box[A("MAGIC")]
  <1>1. {"MAGIC", "TXWPTR", "RXWPTR", "RXRPTR", "MAC"} = Kind
    BY DEF Kind
  <1>2. ASSUME NEW a, SameGen, Elsewhere(a), a # A("RXWPTR"), a # A("MAGIC")
        PROVE  SameGen /\ box'[A("RXWPTR")] = box[A("RXWPTR")] /\ box'[A("MAGIC")] = box[A("MAGIC")]
    BY <1>1, <1>2, KindStays
  <1>3. /\ \A k \in {"TXWPTR", "RXRPTR", "MAC"} : A(k) # A("RXWPTR") /\ A(k) # A("MAGIC")
        /\ \A p, w : TxWord(p, w) # A("RXWPTR") /\ TxWord(p, w) # A("MAGIC")
    BY <1>1, Addresses
  <1>4. BridgeInv /\ BoxInv /\ InitInv /\ LiveInv
    BY DEF Reached
  <1>5. ~Landing("MAGIC")
    BY DEF Live
  <1>6. \A a, d : Landed(a, d) => SameGen /\ Elsewhere(a)
    BY DEF Landed
  <1>7. \/ box' = box /\ SameGen
        \/ \E k \in {"TXWPTR", "RXRPTR", "MAC"} : SameGen /\ Elsewhere(A(k))
        \/ \E p, w : SameGen /\ Elsewhere(TxWord(p, w))
    BY <1>4, <1>5, <1>6, Lands
  <1>8. CASE box' = box /\ SameGen
    BY <1>8
  <1>9. CASE \E k \in {"TXWPTR", "RXRPTR", "MAC"} : SameGen /\ Elsewhere(A(k))
    <2>1. PICK k \in {"TXWPTR", "RXRPTR", "MAC"} : SameGen /\ Elsewhere(A(k))
      BY <1>9
    <2> QED BY <1>2, <1>3, <2>1
  <1>10. CASE \E p, w : SameGen /\ Elsewhere(TxWord(p, w))
    <2>1. PICK p, w : SameGen /\ Elsewhere(TxWord(p, w))
      BY <1>10
    <2> QED BY <1>2, <1>3, <2>1
  <1> QED BY <1>7, <1>8, <1>9, <1>10

(* The receive frames.                                                     *)
LEMMA RxFacts ==
  ASSUME BoxInv, NEW k \in (gen_base + 1) .. pushed
  PROVE  RxLen[k] \in Nat /\ k \in Nat /\ k > 0
  <1>1. RxLen \in Seq(Nat)
    BY LinkAssumption
  <1>2. k \in 1 .. Len(RxLen)
    BY <1>1 DEF BoxInv
  <1> QED BY <1>1, <1>2

(* A bridge that transmits or receives has published its mailbox.          *)
LEMMA Serves ==
  /\ Phase \in RxState => Live
  /\ Landing("RXRPTR") => Live
  /\ Landing("TXWPTR") => Live
  /\ Phase \in TxState => Live
  <1>1. A("RXRPTR") # A("MAGIC") /\ A("TXWPTR") # A("MAGIC")
    BY Addresses DEF Kind
  <1> QED BY <1>1 DEF Live, Phase, Landing, Writing, Wait_, RxState, TxState

(* The MAC has taken in the whole frame the bridge has just consumed.      *)
LEMMA ReceivedIs ==
  ASSUME Reached, RxInv, MacInv, Received
  PROVE  LET k == gen_base + br.rx_rptr IN
         /\ Live /\ Streamed /\ k \in (gen_base + 1) .. pushed
         /\ mac.brx_pos = RxLen[k] /\ RxLen[k] \in Nat /\ RxLen[k] > 0
         /\ \A p \in 0 .. (RxLen[k] - 1) : InBuffer(p) = RxByte(k, p)
         /\ InBuffer(0) \div 100 = k
  <1> DEFINE k == gen_base + br.rx_rptr
  <1>1. Streaming \/ Streamed
    BY DEF RxInv, Received
  <1>2. ~Streaming
    <2> SUFFICES ASSUME Streaming PROVE FALSE
      OBVIOUS
    <2>1. Phase \in RxState /\ Phase \in {"S_RX_READ", "S_RX_STREAM", "S_RX_RPTR"}
      BY DEF Streaming, RxState
    <2>2. Live /\ RxWork /\ gen_base \in Nat
      BY <2>1, Serves DEF RxInv, Reached, BoxInv
    <2>3. br.pos \in Nat /\ mac.brx_pos \in Nat
      BY DEF Reached, BridgeInv, MacInv
    <2>4. /\ mac.brx_pos <= br.brx_len /\ mac.brx_pos >= br.brx_len
          /\ br.pos = IF br.brx_valid THEN mac.brx_pos + 1 ELSE mac.brx_pos
          /\ br.st = "S_RX_RPTR" => br.brx_valid /\ br.pos = br.brx_len
      BY DEF Streaming, Filling, Received
    <2>5. CASE Phase \in {"S_RX_READ", "S_RX_STREAM"}
      <3>1. br.pos < br.brx_len
        BY <2>2, <2>5 DEF RxWork
      <3>2. br.brx_len = br.cur_len /\ br.cur_len = RxLen[k_rx]
        BY <2>2, <2>5 DEF RxWork
      <3>3. br.brx_len \in Nat
        <4>1. br.rx_rptr < box[A("RXWPTR")] /\ box[A("RXWPTR")] = pushed - gen_base
              /\ br.rx_rptr \in Nat /\ pushed \in Nat
          BY <2>2, <2>5 DEF RxWork, LiveInv, Reached, BridgeInv, BoxInv
        <4>2. k_rx \in (gen_base + 1) .. pushed
          BY <2>2, <4>1 DEF k_rx
        <4> QED BY <3>2, <4>2, RxFacts DEF Reached
      <3> QED BY <2>3, <2>4, <3>1, <3>3
    <2>6. CASE Phase = "S_RX_RPTR"
      <3>1. br.st = "S_RX_RPTR"
        BY <2>6 DEF Phase, Reached, BridgeInv, RetState, InitState
      <3>2. br.brx_valid /\ br.pos = br.brx_len /\ br.pos = mac.brx_pos + 1
        BY <2>4, <3>1
      <3> QED BY <2>3, <2>4, <3>2
    <2> QED BY <2>1, <2>5, <2>6
  <1>3. Streamed
    BY <1>1, <1>2
  <1>4. Live
    BY <1>3, Serves DEF Streamed
  <1>5. k \in (gen_base + 1) .. pushed
    <2>1. /\ br.rx_rptr <= box[A("RXWPTR")] /\ box[A("RXWPTR")] = pushed - gen_base
          /\ br.rx_rptr \in Nat /\ pushed \in Nat /\ gen_base \in Nat
      BY <1>4 DEF LiveInv, Reached, BridgeInv, BoxInv
    <2>2. br.rx_rptr > 0
      BY <1>3 DEF RxInv, Streamed, Landing
    <2> QED BY <2>1, <2>2
  <1>6. RxLen[k] \in Nat /\ k \in Nat
    BY <1>5, RxFacts DEF Reached
  <1>7. /\ mac.brx_pos = RxLen[k] /\ RxLen[k] > 0
        /\ \A p \in 0 .. (RxLen[k] - 1) : InBuffer(p) = RxByte(k, p)
    BY <1>3 DEF Streamed, Filling
  <1> HIDE DEF k
  <1>8. InBuffer(0) \div 100 = k
    <2>1. InBuffer(0) = 100 * k + 0
      BY <1>6, <1>7 DEF RxByte
    <2>2. (100 * k + 0) \div 100 = k
      BY <1>6
    <2> QED BY <2>1, <2>2
  <1> QED BY <1>3, <1>4, <1>5, <1>6, <1>7, <1>8 DEF k

(* An answer of the mailbox leaves its words where they are.               *)
LEMMA BoxAccess ==
  ASSUME Reached, NEW answer \in BOOLEAN, Access(answer)
  PROVE  /\ box' = [w \in MailboxWord |-> box'[w]] /\ box'[A("TXWPTR")] \in Nat
         /\ gen_base' = gen_base \/ gen_base' = pushed
  <1>0. BridgeInv /\ BoxInv /\ InitInv /\ LiveInv
    BY DEF Reached
  <1>1. box' = [w \in MailboxWord |-> box'[w]]
    BY <1>0, AccessIs
  <1>2. box'[A("TXWPTR")] \in Nat
    <2>1. box[A("TXWPTR")] \in Nat /\ br.tx_wptr \in Nat /\ A("TXWPTR") \in MailboxWord /\ "TXWPTR" \in Kind
          /\ A("TXWPTR") # A("MAGIC")
      BY <1>0, Addresses DEF BoxInv, BridgeInv, Kind
    <2>2. CASE Live /\ ~Landing("TXWPTR")
      BY <1>0, <2>1, <2>2, RingStable
    <2>3. CASE Landing("TXWPTR")
      <3>1. br.m_addr = A("TXWPTR") /\ br.ret = "S_IDLE" /\ br.st = "S_WAIT"
        BY <2>3 DEF Landing, Writing, Wait_
      <3>2. br.m_wdata = br.tx_wptr
        <4>1. "MAC" \in Kind /\ "MAGIC" \in Kind /\ "RXRPTR" \in Kind /\ "TXWPTR" \in Kind
          BY DEF Kind
        <4>2. A("TXWPTR") # A("MAC") /\ A("TXWPTR") # A("RXRPTR")
          BY <4>1, Addresses
        <4> QED BY <1>0, <2>1, <3>1, <4>2 DEF BridgeInv, Operation, Write, WriteMac
      <3>3. box'[A("TXWPTR")] = box[A("TXWPTR")] \/ box'[A("TXWPTR")] = br.tx_wptr
        BY <1>0, <2>1, <3>1, <3>2, AccessIs
      <3> QED BY <2>1, <3>3
    <2>4. CASE ~Live /\ ~Landing("TXWPTR")
      <3>1. \/ box' = box \/ Elsewhere(A("MAGIC"))
            \/ box'[A("TXWPTR")] = box[A("TXWPTR")] \/ box'[A("TXWPTR")] = 0
        BY <1>0, <2>4, Lands
      <3> QED BY <2>1, <3>1, KindStays
    <2> QED BY <2>2, <2>3, <2>4
  <1>3. gen_base' = gen_base \/ gen_base' = pushed
    BY <1>0, Lands DEF SameGen, Landed
  <1> QED BY <1>1, <1>2, <1>3

(* BoxInv under a clock.                                                   *)
LEMMA BoxNext ==
  ASSUME Reached, RxInv, MacInv, NEW poll_tick, NEW answer, Ticks(poll_tick, answer), pushed' = pushed,
         last_rx' = IF Received /\ ~dev_reset THEN InBuffer(0) \div 100 ELSE last_rx
  PROVE  BoxInv'
  <1>1. answer \in BOOLEAN /\ Access(answer) /\ BoxInv
    BY DEF Ticks, Reached
  <1>2. /\ box' = [w \in MailboxWord |-> box'[w]] /\ box'[A("TXWPTR")] \in Nat
        /\ gen_base' = gen_base \/ gen_base' = pushed
    BY <1>1, BoxAccess
  <1>3. /\ gen_base \in Nat /\ pushed \in Nat /\ gen_base <= pushed /\ pushed <= Len(RxLen)
        /\ last_rx \in Nat /\ last_rx <= pushed
    BY <1>1 DEF BoxInv
  <1>4. last_rx' \in Nat /\ last_rx' <= pushed
    <2>1. CASE Received /\ ~dev_reset
      BY <1>3, <2>1, ReceivedIs
    <2> QED BY <1>3, <2>1
  <1> QED BY <1>2, <1>3, <1>4 DEF BoxInv

-----------------------------------------------------------------------------
(* RxInv.                                                                  *)

(* The frame being read.                                                   *)
LEMMA RowFits ==
  ASSUME BridgeInv, br.pos < br.cur_len, br.cur_len <= MaxFrame, br.cur_len \in Nat
  PROVE  1 + Row \in 1 .. Words
  <1>1. br.pos \in Nat /\ br.pos < MaxFrame
    BY Sizes DEF BridgeInv
  <1> QED BY <1>1, WordIn DEF Row

(* The frame at rx_rptr is one the ARM has pushed in this generation.      *)
LEMMA FrameAt ==
  ASSUME Reached, Live, br.rx_rptr < box[A("RXWPTR")]
  PROVE  k_rx \in (gen_base + 1) .. pushed /\ RxLen[k_rx] \in Nat
  <1>1. box[A("RXWPTR")] = pushed - gen_base /\ br.rx_rptr \in Nat /\ pushed \in Nat /\ gen_base \in Nat
    BY DEF Reached, LiveInv, BridgeInv, BoxInv
  <1>2. k_rx \in (gen_base + 1) .. pushed
    BY <1>1 DEF k_rx
  <1> QED BY <1>2, RxFacts DEF Reached

(* No receive state is entered elsewhere.                                  *)
LEMMA NoRxWork ==
  ASSUME Phase' \notin RxState, br'.st # "S_WAIT" => br'.st \notin RxState
  PROVE  RxWork'
  BY DEF RxWork, Phase, RxState

(* RxWork under the states of a reception.                                 *)
LEMMA RxReads ==
  ASSUME Reached, RxWork, Live, Live', NEW poll_tick, NEW answer, Ticks(poll_tick, answer),
         br.st \in RxState
  PROVE  RxWork'
  <1>0. /\ answer \in BOOLEAN /\ Moves(Step(poll_tick)) /\ Access(answer) /\ br.st # "S_WAIT"
        /\ BridgeInv /\ BoxInv /\ LiveInv
    BY DEF Ticks, Reached, RxState
  <1>1. /\ box' = box /\ gen_base' = gen_base /\ answer = FALSE
    BY <1>0, Still
  <1>2. Phase = br.st
    BY <1>0 DEF Phase
  <1>3. CASE br.st = "S_RX_POLL"
    <2>0. EffPoll
      BY <1>0, <1>3, RxEffects
    <2>1. CASE Only({"st"}) /\ br'.st = "S_IDLE"
      <3>1. Phase' = "S_IDLE"
        BY <2>1 DEF Phase
      <3> QED BY <2>1, <3>1, NoRxWork DEF RxState
    <2>2. CASE /\ br.op_rdata # br.rx_rptr
               /\ Starts(FALSE, RxWord(br.rx_rptr, 0), 0, "S_RX_HDR") /\ Only(OpReg)
      <3>1. Phase' = "S_RX_HDR" /\ br'.st = "S_WAIT"
        BY <2>2 DEF Starts, Phase
      <3>2. br'.rx_rptr = br.rx_rptr
        BY <2>2, OpKeeps
      <3>3. br.rx_rptr < box[A("RXWPTR")]
        <4>1. br.op_rdata \in br.rx_rptr .. box[A("RXWPTR")] /\ br.rx_rptr \in Nat
          BY <1>0, <1>3 DEF RxWork, BridgeInv
        <4>2. box[A("RXWPTR")] \in Int
          BY <1>0 DEF LiveInv, BoxInv
        <4> QED BY <2>2, <4>1, <4>2
      <3> QED BY <1>1, <3>1, <3>2, <3>3 DEF RxWork
    <2> QED BY <2>0, <2>1, <2>2 DEF EffPoll
  <1>4. CASE br.st = "S_RX_HDR"
    <2>0. EffRxHdr
      BY <1>0, <1>4, RxEffects
    <2>1. br.rx_rptr < box[A("RXWPTR")] /\ br.op_rdata = RxLen[k_rx] /\ RxLen[k_rx] \in Nat
      BY <1>2, <1>4, FrameAt DEF RxWork
    <2>2. CASE Only({"st", "cur_len", "pos"}) /\ br'.st = "S_RX_RPTR"
      <3>1. Phase' = "S_RX_RPTR" /\ br'.st = "S_RX_RPTR"
        BY <2>2 DEF Phase
      <3>2. br'.rx_rptr = br.rx_rptr
        BY <2>2, PtrKept
      <3> QED BY <1>1, <2>1, <3>1, <3>2 DEF RxWork
    <2>3. CASE /\ br.op_rdata # 0 /\ ~(br.op_rdata > MaxFrame)
               /\ Starts(FALSE, RxWord(br.rx_rptr, 1), 0, "S_RX_READ") /\ br'.brx_len = br.op_rdata
               /\ Only({"cur_len", "pos", "brx_len"} \cup OpReg)
      <3>1. Phase' = "S_RX_READ" /\ br'.st = "S_WAIT"
        BY <2>3 DEF Starts, Phase
      <3>2. br'.rx_rptr = br.rx_rptr
        <4>1. {"tx_wptr", "rx_rptr"} \cap ({"cur_len", "pos", "brx_len"} \cup OpReg) = {}
          BY DEF OpReg
        <4> QED BY <2>3, <4>1, PtrKept
      <3>3. k_rx' = k_rx
        BY <1>1, <3>2 DEF k_rx
      <3>4. br'.cur_len = RxLen[k_rx] /\ br'.brx_len = RxLen[k_rx] /\ br'.pos = 0
            /\ RxLen[k_rx] <= MaxFrame /\ 0 < RxLen[k_rx]
        BY <2>0, <2>1, <2>3, Sizes DEF EffRxHdr
      <3> QED BY <1>1, <2>1, <3>1, <3>2, <3>3, <3>4 DEF RxWork
    <2> QED BY <2>0, <2>2, <2>3 DEF EffRxHdr
  <1>5. CASE br.st \in {"S_RX_READ", "S_RX_STREAM"}
    <2>1. /\ br.rx_rptr < box[A("RXWPTR")]
          /\ br.cur_len = RxLen[k_rx] /\ br.brx_len = br.cur_len /\ br.cur_len <= MaxFrame
          /\ br.pos < br.cur_len /\ RxLen[k_rx] \in Nat
      BY <1>2, <1>5, FrameAt DEF RxWork
    <2>2. br.pos \in Nat
      BY <1>0 DEF BridgeInv
    <2>3. CASE br.st = "S_RX_READ"
      <3>1. EffRead
        BY <1>0, <2>3, RxEffects
      <3>2. /\ br'.st = "S_RX_STREAM" /\ br'.pack = br.op_rdata /\ Phase' = "S_RX_STREAM"
            /\ br'.rx_rptr = br.rx_rptr /\ br'.cur_len = br.cur_len /\ br'.brx_len = br.brx_len
            /\ br'.pos = br.pos
        <4>1. PICK X : Only(X) /\ X = {"st", "pack", "lane"}
          BY <3>1 DEF EffRead
        <4>2. {"rx_rptr", "cur_len", "brx_len", "pos"} \cap X = {}
          BY <4>1
        <4> QED BY <3>1, <4>1, <4>2, OnlyIs DEF EffRead, Phase
      <3>3. k_rx' = k_rx /\ Row' = Row
        BY <1>1, <3>2 DEF k_rx, Row
      <3>4. br.op_rdata = RxFrameWord(k_rx, 1 + Row)
        BY <2>3 DEF RxWork
      <3> QED BY <1>1, <2>1, <3>2, <3>3, <3>4 DEF RxWork
    <2>4. CASE br.st = "S_RX_STREAM"
      <3>1. EffStream
        BY <1>0, <2>4, RxEffects
      <3>2. PICK X : Only(X) /\ X \subseteq {"st", "pos", "brx_data", "lane"} \cup OpReg
                     /\ (br'.st = "S_WAIT" \/ br'.st = "S_RX_RPTR" \/ ("st" \notin X /\ "pack" \notin X))
        <4>1. "st" \notin {"pos", "brx_data", "lane"} /\ "pack" \notin {"pos", "brx_data", "lane"}
          OBVIOUS
        <4>2. Starts(FALSE, RxWord(br.rx_rptr, 2 + Row), 0, "S_RX_READ") => br'.st = "S_WAIT"
          BY DEF Starts
        <4>3. CASE Only({"st", "pos", "brx_data"}) /\ br'.st = "S_RX_RPTR"
          BY <4>3
        <4>4. CASE Only({"pos", "brx_data"} \cup OpReg) /\ br'.st = "S_WAIT"
          BY <4>4
        <4>5. CASE Only({"pos", "brx_data", "lane"})
          BY <4>1, <4>5
        <4> QED BY <3>1, <4>2, <4>3, <4>4, <4>5 DEF EffStream
      <3>3. /\ br'.rx_rptr = br.rx_rptr /\ br'.cur_len = br.cur_len /\ br'.brx_len = br.brx_len
            /\ br'.pos = br.pos + 1
        <4>1. {"rx_rptr", "cur_len", "brx_len"} \cap X = {}
          BY <3>2 DEF OpReg
        <4> QED BY <3>1, <3>2, <4>1, OnlyIs DEF EffStream
      <3>4. k_rx' = k_rx
        BY <1>1, <3>3 DEF k_rx
      <3>5. CASE br.pos + 1 >= br.cur_len /\ br'.st = "S_RX_RPTR"
        <4>1. Phase' = "S_RX_RPTR"
          BY <3>5 DEF Phase
        <4> QED BY <1>1, <2>1, <3>3, <3>5, <4>1 DEF RxWork
      <3>6. CASE ~(br.pos + 1 >= br.cur_len) /\ Starts(FALSE, RxWord(br.rx_rptr, 2 + Row), 0, "S_RX_READ")
        <4>1. Phase' = "S_RX_READ" /\ br'.st = "S_WAIT"
          BY <3>6 DEF Phase, Starts
        <4>2. br'.pos < br'.cur_len
          BY <2>1, <2>2, <3>3, <3>6
        <4> QED BY <1>1, <2>1, <3>3, <3>4, <4>1, <4>2 DEF RxWork
      <3>7. CASE ~(br.pos + 1 >= br.cur_len) /\ br.lane # Lanes - 1 /\ Only({"pos", "brx_data", "lane"})
        <4>1. br'.st = "S_RX_STREAM" /\ br'.pack = br.pack /\ Phase' = "S_RX_STREAM"
          <5>1. "st" \notin {"pos", "brx_data", "lane"} /\ "pack" \notin {"pos", "brx_data", "lane"}
            OBVIOUS
          <5> QED BY <2>4, <3>7, <5>1, OnlyIs DEF Phase
        <4>2. br'.pos < br'.cur_len
          BY <2>1, <2>2, <3>3, <3>7
        <4>3. Row' = Row
          <5>1. br.pos % Lanes # Lanes - 1
            BY <1>0, <2>4, <3>7 DEF BridgeInv
          <5>2. (br.pos + 1) \div Lanes = br.pos \div Lanes
            BY <2>2, <5>1, Sizes, DivNext
          <5> QED BY <3>3, <5>2 DEF Row
        <4>4. br.pack = RxFrameWord(k_rx, 1 + Row)
          BY <2>4 DEF RxWork
        <4> QED BY <1>1, <2>1, <3>3, <3>4, <4>1, <4>2, <4>3, <4>4 DEF RxWork
      <3> QED BY <3>1, <3>5, <3>6, <3>7 DEF EffStream
    <2> QED BY <1>5, <2>3, <2>4
  <1>6. CASE br.st = "S_RX_RPTR"
    <2>1. EffRptr
      BY <1>0, <1>6, RxEffects
    <2>2. Phase' = "S_IDLE" /\ br'.st = "S_WAIT"
      BY <2>1 DEF EffRptr, Starts, Phase
    <2> QED BY <2>2, NoRxWork DEF RxState
  <1> QED BY <1>3, <1>4, <1>5, <1>6 DEF RxState

(* RxWork under S_WAIT.                                                    *)
LEMMA RxWaits ==
  ASSUME Reached, RxWork, Live, Live', NEW poll_tick, NEW answer, Ticks(poll_tick, answer),
         br.st = "S_WAIT"
  PROVE  RxWork'
  <1>0. /\ answer \in BOOLEAN /\ Moves(Step(poll_tick)) /\ Access(answer) /\ box_ack \in BOOLEAN
        /\ BridgeInv /\ BoxInv /\ LiveInv /\ br.ret \in RetState /\ Operation /\ Phase = br.ret
        /\ box_ack' = answer
    BY DEF Ticks, Reached, Phase, BridgeInv
  <1>1. box'[A("RXWPTR")] = box[A("RXWPTR")] /\ gen_base' = gen_base
    BY <1>0, LiveStays DEF SameGen
  <1>2. CASE ~box_ack /\ Only({})
    <2>1. /\ br'.st = br.st /\ br'.ret = br.ret /\ br'.rx_rptr = br.rx_rptr /\ br'.pos = br.pos
          /\ br'.cur_len = br.cur_len /\ br'.brx_len = br.brx_len
      BY <1>2, WaitKeeps
    <2>2. Phase' = Phase /\ k_rx' = k_rx
      BY <1>1, <2>1 DEF Phase, k_rx
    <2> QED BY <1>1, <2>1, <2>2 DEF RxWork
  <1>3. CASE /\ box_ack /\ Only({"st", "m_req", "op_rdata"}) /\ box' = box
             /\ br'.st = br.ret /\ (~br.op_we => br'.op_rdata = Rdata)
    <2>1. /\ br'.rx_rptr = br.rx_rptr /\ br'.pos = br.pos /\ br'.cur_len = br.cur_len
          /\ br'.brx_len = br.brx_len
      BY <1>3, AckKeeps
    <2>2. Phase' = Phase /\ k_rx' = k_rx /\ Row' = Row /\ br'.st # "S_WAIT" /\ Phase' = br'.st
      BY <1>0, <1>1, <1>3, <2>1 DEF Phase, k_rx, Row, RetState, InitState
    <2>3. /\ box[A("RXRPTR")] = br.rx_rptr /\ br.rx_rptr <= box[A("RXWPTR")]
          /\ box[A("RXWPTR")] = pushed - gen_base /\ br.rx_rptr \in Nat /\ pushed \in Nat /\ gen_base \in Nat
          /\ \A p \in box[A("RXRPTR")] .. (box[A("RXWPTR")] - 1) : HoldsRx(p, gen_base + 1 + p)
      BY <1>0, <1>3 DEF LiveInv, Landing, BridgeInv, BoxInv
    <2>4. CASE br.ret = "S_RX_POLL"
      <3>1. br'.op_rdata = box[A("RXWPTR")]
        BY <1>0, <1>3, <2>4 DEF Operation, Read, Rdata
      <3>2. br'.op_rdata \in br.rx_rptr .. box[A("RXWPTR")]
        BY <2>3, <3>1
      <3> QED BY <1>3, <2>1, <2>2, <2>4, <3>2 DEF RxWork
    <2>5. CASE br.ret \in {"S_RX_HDR", "S_RX_READ"}
      <3>1. br.rx_rptr < box[A("RXWPTR")]
        BY <1>0, <2>5 DEF RxWork
      <3>2. br.rx_rptr \in box[A("RXRPTR")] .. (box[A("RXWPTR")] - 1)
        BY <2>3, <3>1
      <3>3. HoldsRx(br.rx_rptr, k_rx)
        <4>1. HoldsRx(br.rx_rptr, gen_base + 1 + br.rx_rptr)
          BY <2>3, <3>2
        <4> QED BY <4>1 DEF k_rx
      <3>4. CASE br.ret = "S_RX_HDR"
        <4>1. br'.op_rdata = box[RxWord(br.rx_rptr, 0)]
          BY <1>0, <1>3, <3>4 DEF Operation, Read, Rdata
        <4>2. br'.op_rdata = RxLen[k_rx]
          BY <3>3, <4>1 DEF HoldsRx
        <4> QED BY <1>3, <2>1, <2>2, <3>1, <3>4, <4>2 DEF RxWork
      <3>5. CASE br.ret = "S_RX_READ"
        <4>1. br'.op_rdata = box[RxWord(br.rx_rptr, 1 + Row)]
          BY <1>0, <1>3, <3>5 DEF Operation, Read, Rdata
        <4>2. br.cur_len = RxLen[k_rx] /\ br.brx_len = br.cur_len /\ br.cur_len <= MaxFrame /\ br.pos < br.cur_len
          BY <1>0, <3>5 DEF RxWork
        <4>3. 1 + Row \in 1 .. Words
          BY <1>0, <3>1, <4>2, FrameAt, RowFits
        <4>4. br'.op_rdata = RxFrameWord(k_rx, 1 + Row)
          BY <3>3, <4>1, <4>3 DEF HoldsRx
        <4> QED BY <1>3, <2>1, <2>2, <3>1, <3>5, <4>2, <4>4 DEF RxWork
      <3> QED BY <2>5, <3>4, <3>5
    <2>6. CASE br.ret \notin {"S_RX_POLL", "S_RX_HDR", "S_RX_READ"}
      <3>1. br.ret \notin RxState
        BY <1>0, <2>6 DEF RetState, RxState, InitState
      <3> QED BY <1>3, <2>2, <3>1, NoRxWork
    <2> QED BY <2>4, <2>5, <2>6
  <1> QED BY <1>0, <1>2, <1>3, WaitIs

(* RxWork under a clock.                                                   *)
LEMMA RxWorkNext ==
  ASSUME Reached, Live => RxWork, NEW poll_tick, NEW answer, Ticks(poll_tick, answer), Live'
  PROVE  RxWork'
  <1>0. answer \in BOOLEAN /\ Moves(Step(poll_tick)) /\ Access(answer) /\ BridgeInv /\ BoxInv
        /\ box_ack' = answer /\ br.st \in BState
    BY DEF Ticks, Reached, BridgeInv
  <1>1. CASE ~Live
    <2>1. Landing("MAGIC") /\ answer = TRUE
      BY <1>0, <1>1, LiveFrom
    <2>2. br.st = "S_WAIT" /\ br.ret = "S_IDLE" /\ ~box_ack
      BY <2>1 DEF Landing, Writing, Wait_
    <2>3. br'.st = "S_WAIT" /\ br'.ret = "S_IDLE"
      BY <1>0, <2>2, WaitIs, WaitKeeps
    <2>4. Phase' = "S_IDLE"
      BY <2>3 DEF Phase
    <2> QED BY <2>3, <2>4, NoRxWork DEF RxState
  <1>2. CASE Live /\ br.st \in RxState
    BY <1>2, RxReads
  <1>3. CASE Live /\ br.st = "S_WAIT"
    BY <1>3, RxWaits
  <1>4. CASE Live /\ br.st \notin RxState /\ br.st # "S_WAIT"
    <2>1. br.st \in {"S_IDLE", "S_MAC"} \cup TxState
      BY <1>4 DEF Live, Phase
    <2>2. \/ br'.st # "S_WAIT" /\ br'.st \notin RxState
          \/ br'.st = "S_WAIT" /\ br'.ret \notin RxState
          \/ br'.st = "S_WAIT" /\ br'.ret = "S_RX_POLL"
      <3>1. CASE br.st = "S_IDLE"
        <4>1. EffIdle
          BY <1>0, <3>1, IdleEffects
        <4> QED BY <4>1 DEF EffIdle, Starts, RxState
      <3>2. CASE br.st = "S_MAC"
        <4>1. EffMac
          BY <1>0, <3>2, TxEffects
        <4> QED BY <4>1 DEF EffMac, Starts, RxState
      <3>3. CASE br.st = "S_TX_FETCH"
        <4>1. EffFetch
          BY <1>0, <3>3, FetchEffects
        <4>2. br'.st = br.st \/ br'.st = "S_TX_WRITE"
          <5>1. CASE Only({})
            BY <5>1, WaitKeeps
          <5>2. CASE Only({"pos", "lane", "pack", "btx_addr"})
            <6>1. "st" \notin {"pos", "lane", "pack", "btx_addr"}
              OBVIOUS
            <6> QED BY <5>2, <6>1, StKept
          <5> QED BY <4>1, <5>1, <5>2 DEF EffFetch
        <4> QED BY <3>3, <4>2 DEF RxState
      <3>4. CASE br.st \in {"S_TX_WRITE", "S_TX_PACK", "S_TX_HDR", "S_TX_WPTR"}
        BY <1>0, <3>4, TxEffects DEF EffWrite, EffPack, EffHdr, EffWptr, Starts, RxState
      <3> QED BY <2>1, <3>1, <3>2, <3>3, <3>4 DEF TxState
    <2>3. CASE br'.st = "S_WAIT" /\ br'.ret = "S_RX_POLL"
      BY <2>3 DEF RxWork, Phase
    <2>4. CASE \/ br'.st # "S_WAIT" /\ br'.st \notin RxState
               \/ br'.st = "S_WAIT" /\ br'.ret \notin RxState
      <3>1. Phase' \notin RxState
        BY <2>4 DEF Phase
      <3> QED BY <2>4, <3>1, NoRxWork
    <2> QED BY <2>2, <2>3, <2>4
  <1> QED BY <1>1, <1>2, <1>3, <1>4

(* How the MAC comes to take in a frame, and goes on with it.              *)
LEMMA TakesIn ==
  ASSUME MacInv, MacMoved, mac'.est = "E_BRX"
  PROVE  \/ mac.est = "E_IDLE" /\ br.brx_start /\ mac'.brx_pos = 0
         \/ /\ mac.est = "E_BRX" /\ ~(mac.brx_pos >= br.brx_len)
            /\ \/ br.brx_valid /\ mac.brx_pos < BufLen /\ mac'.brx_pos = mac.brx_pos + 1
                  /\ mac'.pw = <<mac.brx_pos, br.brx_data>>
               \/ ~(br.brx_valid /\ mac.brx_pos < BufLen) /\ mac'.brx_pos = mac.brx_pos /\ mac'.pw = None
  <1>1. CASE MacOff
    BY <1>1 DEF MacOff
  <1>2. CASE mac.est = "E_IDLE" /\ MacIdle
    BY <1>2 DEF MacIdle
  <1>3. CASE mac.est = "E_TX_RD" /\ MacRd
    BY <1>3 DEF MacRd
  <1>4. CASE mac.est = "E_TX_ACK" /\ MacAck
    BY <1>4 DEF MacAck
  <1>5. CASE mac.est = "E_TX_END" /\ MacEnd
    BY <1>5 DEF MacEnd
  <1>6. CASE mac.est = "E_BTX" /\ MacBtx
    <2>1. mac'.est = "E_IDLE" \/ mac'.est = mac.est
      <3>1. CASE MacOnly({"btx_q", "btx_ack", "btx_pending"})
        <4>1. "est" \notin {"btx_q", "btx_ack", "btx_pending"}
          OBVIOUS
        <4> QED BY <3>1, <4>1, MacOnlyIs
      <3>2. CASE MacOnly({"btx_ack", "btx_pending"})
        <4>1. "est" \notin {"btx_ack", "btx_pending"}
          OBVIOUS
        <4> QED BY <3>2, <4>1, MacOnlyIs
      <3> QED BY <1>6, <3>1, <3>2 DEF MacBtx
    <2> QED BY <1>6, <2>1
  <1>7. CASE mac.est = "E_BRX" /\ MacBrx
    BY <1>7 DEF MacBrx
  <1> QED BY <1>1, <1>2, <1>3, <1>4, <1>5, <1>6, <1>7 DEF MacMoved

(* The bytes taken in so far, when the MAC takes in another.               *)
LEMMA FillingNext ==
  ASSUME MacInv, MacMoved, mac.est = "E_BRX", mac'.est = "E_BRX", NEW k, RxLen[k] \in Nat, Filling(k)
  PROVE  /\ mac.brx_pos < br.brx_len /\ mac'.brx_pos <= br.brx_len /\ mac'.brx_pos \in Nat
         /\ mac'.brx_pos = IF br.brx_valid THEN mac.brx_pos + 1 ELSE mac.brx_pos
         /\ \A i \in 0 .. (mac'.brx_pos - 1) : InBuffer(i)' = RxByte(k, i)
  <1>1. /\ br.brx_len = RxLen[k] /\ br.brx_len \in Nat /\ br.brx_len <= BufLen /\ mac.brx_pos \in Nat
        /\ mac.brx_pos <= br.brx_len
        /\ \A i \in 0 .. (mac.brx_pos - 1) : InBuffer(i) = RxByte(k, i)
        /\ br.brx_valid => br.brx_data = RxByte(k, mac.brx_pos)
    BY Sizes DEF Filling, MacInv
  <1>2. mac.brx_pos < br.brx_len /\ mac.brx_pos < BufLen
    BY <1>1, TakesIn, Sizes
  <1>3. 0 .. BufLen \subseteq Buf
    BY ByteFits
  <1>4. Stores
    BY DEF MacMoved
  <1>5. CASE br.brx_valid /\ mac'.brx_pos = mac.brx_pos + 1 /\ mac'.pw = <<mac.brx_pos, br.brx_data>>
    <2>1. \A p \in Buf : InBuffer(p)' = IF p = mac.brx_pos THEN br.brx_data ELSE InBuffer(p)
      BY <1>4, <1>5, BufferNext
    <2>2. ASSUME NEW i \in 0 .. (mac'.brx_pos - 1)
          PROVE  InBuffer(i)' = RxByte(k, i)
      <3>1. i \in Buf /\ i \in Nat /\ i <= mac.brx_pos
        BY <1>1, <1>2, <1>3, <1>5, Sizes
      <3>2. InBuffer(i)' = IF i = mac.brx_pos THEN br.brx_data ELSE InBuffer(i)
        BY <2>1, <3>1
      <3>3. CASE i = mac.brx_pos
        BY <1>1, <1>5, <3>2, <3>3
      <3>4. CASE i # mac.brx_pos
        <4>1. i \in 0 .. (mac.brx_pos - 1)
          BY <1>1, <3>1, <3>4
        <4>2. InBuffer(i) = RxByte(k, i)
          BY <1>1, <4>1
        <4> QED BY <3>2, <3>4, <4>2
      <3> QED BY <3>3, <3>4
    <2> QED BY <1>1, <1>2, <1>5, <2>2
  <1>6. CASE ~br.brx_valid /\ mac'.brx_pos = mac.brx_pos /\ mac'.pw = None
    <2>1. \A p \in Buf : InBuffer(p)' = InBuffer(p)
      BY <1>4, <1>6, BufferNext
    <2>2. ASSUME NEW i \in 0 .. (mac'.brx_pos - 1)
          PROVE  InBuffer(i)' = RxByte(k, i)
      <3>1. i \in Buf /\ i \in 0 .. (mac.brx_pos - 1)
        BY <1>1, <1>2, <1>3, <1>6, Sizes
      <3>2. InBuffer(i)' = InBuffer(i)
        BY <2>1, <3>1
      <3>3. InBuffer(i) = RxByte(k, i)
        BY <1>1, <3>1
      <3> QED BY <3>2, <3>3
    <2> QED BY <1>1, <1>2, <1>6, <2>2
  <1> QED BY <1>2, <1>5, <1>6, TakesIn

(* The pointers, whose operations are the only ones at their addresses.    *)
LEMMA PtrPositive ==
  ASSUME BridgeInv, BoxInv, NEW poll_tick, NEW answer, Ticks(poll_tick, answer),
         Writing("RXRPTR") => br.rx_rptr > 0, Writing("TXWPTR") => br.tx_wptr > 0
  PROVE  (Writing("RXRPTR")' => br'.rx_rptr > 0) /\ (Writing("TXWPTR")' => br'.tx_wptr > 0)
  <1>0. /\ answer \in BOOLEAN /\ Moves(Step(poll_tick)) /\ Access(answer) /\ box_ack' = answer
        /\ br.st \in BState /\ br.rx_rptr \in Nat /\ br.tx_wptr \in Nat
        /\ br.st = "S_WAIT" => br.ret \in RetState
    BY DEF Ticks, BridgeInv
  <1>1. CASE br.st = "S_WAIT"
    <2>1. CASE Only({})
      BY <1>1, <2>1, WaitKeeps DEF Writing, Wait_
    <2>2. CASE br'.st = br.ret
      BY <1>0, <1>1, <2>2 DEF Writing, Wait_, RetState, InitState
    <2> QED BY <1>0, <1>1, <2>1, <2>2, WaitIs
  <1>2. CASE br.st # "S_WAIT"
    <2>1. box_ack' = FALSE
      BY <1>0, <1>2, Still
    <2>2. CASE br.st \in Serving
      <3>1. /\ \/ ~Landing("TXWPTR")'
               \/ br'.tx_wptr = br.tx_wptr + 1
            /\ \/ ~Landing("RXRPTR")'
               \/ br'.rx_rptr = br.rx_rptr + 1
        BY <1>0, <2>1, <2>2, PtrMoves
      <3>2. (Writing("TXWPTR")' => Landing("TXWPTR")') /\ (Writing("RXRPTR")' => Landing("RXRPTR")')
        BY <2>1 DEF Landing
      <3> QED BY <1>0, <3>1, <3>2
    <2>3. CASE br.st \in InitState \cup {"S_OFF", "S_INIT_CLEAR"}
      <3>1. br'.st # "S_WAIT" \/ br'.ret # "S_IDLE" \/ br'.m_addr = A("MAGIC")
        <4>1. CASE br.st = "S_OFF"
          <5>1. CASE Only({"m_req"})
            <6>1. "st" \notin {"m_req"}
              OBVIOUS
            <6> QED BY <4>1, <5>1, <6>1, StKept
          <5> QED BY <1>0, <4>1, <5>1, InitEffects DEF EffOff
        <4>2. CASE br.st \in InitState \cup {"S_INIT_CLEAR"}
          BY <1>0, <4>2, InitEffects DEF EffClear, EffInit, EffInitMac, EffMagic, Starts, InitState
        <4> QED BY <2>3, <4>1, <4>2
      <3>2. A("MAGIC") # A("TXWPTR") /\ A("MAGIC") # A("RXRPTR")
        BY Addresses DEF Kind
      <3> QED BY <3>1, <3>2 DEF Writing, Wait_
    <2>4. br.st \in Serving \cup InitState \cup {"S_OFF", "S_INIT_CLEAR"}
      BY <1>0, <1>2, States DEF Serving
    <2> QED BY <2>2, <2>3, <2>4
  <1> QED BY <1>1, <1>2

(* The receive pointer only moves on.                                      *)
LEMMA RptrGrows ==
  ASSUME Reached, Live, NEW poll_tick, NEW answer, Ticks(poll_tick, answer)
  PROVE  br'.rx_rptr \in Nat /\ br.rx_rptr \in Nat /\ br.rx_rptr <= br'.rx_rptr
  <1>0. /\ answer \in BOOLEAN /\ Moves(Step(poll_tick)) /\ Access(answer) /\ box_ack' = answer
        /\ br.st \in BState /\ br.rx_rptr \in Nat /\ BridgeInv /\ BoxInv
    BY DEF Ticks, Reached, BridgeInv
  <1>1. CASE br.st = "S_WAIT"
    BY <1>0, <1>1, WaitIs, WaitKeeps, AckKeeps
  <1>2. CASE br.st # "S_WAIT"
    <2>1. box_ack' = FALSE
      BY <1>0, <1>2, Still
    <2>2. br.st \in Serving
      BY <1>2 DEF Live, Phase, Serving
    <2>3. br'.rx_rptr = br.rx_rptr \/ br'.rx_rptr = br.rx_rptr + 1
      BY <1>0, <2>1, <2>2, PtrMoves
    <2> QED BY <1>0, <2>3
  <1> QED BY <1>1, <1>2

(* No frame is taken in twice.                                             *)
LEMMA RxBehind ==
  ASSUME Reached, RxInv, MacInv, NEW poll_tick, NEW answer, Ticks(poll_tick, answer), pushed' = pushed,
         last_rx' = IF Received /\ ~dev_reset THEN InBuffer(0) \div 100 ELSE last_rx, Live'
  PROVE  last_rx' <= gen_base' + br'.rx_rptr
  <1>0. /\ answer \in BOOLEAN /\ Moves(Step(poll_tick)) /\ Access(answer) /\ box_ack' = answer
        /\ BridgeInv /\ BoxInv /\ InitInv /\ last_rx \in Nat /\ pushed \in Nat /\ gen_base \in Nat
        /\ last_rx <= pushed
    BY DEF Ticks, Reached, BoxInv
  <1>1. CASE ~Live
    <2>1. Landing("MAGIC") /\ answer = TRUE
      BY <1>0, <1>1, LiveFrom
    <2>2. gen_base' = pushed /\ br'.rx_rptr = 0
      BY <1>0, <2>1, LivePublish
    <2>3. last_rx' = last_rx
      BY <1>1, ReceivedIs
    <2> QED BY <1>0, <2>2, <2>3
  <1>2. CASE Live
    <2>1. gen_base' = gen_base
      BY <1>0, <1>2, LiveStays DEF SameGen
    <2>2. br'.rx_rptr \in Nat /\ br.rx_rptr \in Nat /\ br.rx_rptr <= br'.rx_rptr
      BY <1>2, RptrGrows
    <2>3. last_rx' <= gen_base + br.rx_rptr
      <3>1. CASE Received /\ ~dev_reset
        <4>1. last_rx' = gen_base + br.rx_rptr
          BY <3>1, ReceivedIs
        <4> QED BY <1>0, <2>2, <4>1
      <3>2. CASE ~(Received /\ ~dev_reset)
        BY <1>2, <3>2 DEF RxInv
      <3> QED BY <3>1, <3>2
    <2>4. last_rx' \in Int
      <3>1. CASE Received /\ ~dev_reset
        <4>1. last_rx' = gen_base + br.rx_rptr
          BY <3>1, ReceivedIs
        <4> QED BY <1>0, <2>2, <4>1
      <3>2. CASE ~(Received /\ ~dev_reset)
        BY <1>0, <3>2
      <3> QED BY <3>1, <3>2
    <2> QED BY <1>0, <2>1, <2>2, <2>3, <2>4
  <1> QED BY <1>1, <1>2

(* The byte of a frame a receive word holds in a lane.                     *)
LEMMA WordByte ==
  ASSUME NEW k, NEW n \in Nat
  PROVE  RxFrameWord(k, 1 + (n \div Lanes))[n % Lanes] = RxByte(k, n)
  <1> DEFINE q == n \div Lanes
             r == n % Lanes
  <1>1. q \in Nat /\ r \in 0 .. (Lanes - 1) /\ n = Lanes * q + r /\ Lanes \in Nat
    BY Sizes, DivIs
  <1>2. RxFrameWord(k, 1 + q)[r] = RxByte(k, ((1 + q) - 1) * Lanes + r)
    BY <1>1 DEF RxFrameWord
  <1>3. ((1 + q) - 1) * Lanes + r = n
    <2> HIDE DEF q, r
    <2>1. (1 + q) - 1 = q /\ q * Lanes = Lanes * q
      BY <1>1
    <2> QED BY <1>1, <2>1
  <1> QED BY <1>2, <1>3

(* The bridge begins a frame, and the MAC with it.                         *)
LEMMA StreamBegins ==
  ASSUME Reached, RxInv, MacInv, NEW poll_tick, NEW answer, Ticks(poll_tick, answer),
         br.brx_start, mac'.est = "E_BRX", mac'.brx_pos = 0
  PROVE  Streaming'
  <1>0. /\ answer \in BOOLEAN /\ Moves(Step(poll_tick)) /\ Access(answer) /\ box_ack' = answer
        /\ BridgeInv /\ BoxInv /\ LiveInv
    BY DEF Ticks, Reached
  <1>1. Wait_("S_RX_READ") /\ br.pos = 0 /\ ~box_ack /\ ~br.brx_valid
    BY <1>0 DEF BridgeInv
  <1>2. Phase = "S_RX_READ" /\ Live
    BY <1>1, Serves DEF Phase, Wait_, RxState
  <1>3. Only({}) /\ Pulses({})
    BY <1>0, <1>1, WaitIs DEF Wait_
  <1>4. /\ br'.st = br.st /\ br'.ret = br.ret /\ br'.pos = br.pos /\ br'.rx_rptr = br.rx_rptr
        /\ br'.brx_len = br.brx_len
    BY <1>3, WaitKeeps
  <1>5. br'.brx_valid = FALSE
    BY <1>3 DEF Pulses, Pulse
  <1>6. gen_base' = gen_base
    BY <1>0, <1>2, LiveStays DEF SameGen, Reached
  <1>7. k_rx' = k_rx /\ Phase' = "S_RX_READ"
    BY <1>2, <1>4, <1>6 DEF k_rx, Phase
  <1>8. /\ br.rx_rptr < box[A("RXWPTR")] /\ br.cur_len = RxLen[k_rx] /\ br.brx_len = br.cur_len
        /\ br.cur_len <= MaxFrame /\ br.pos < br.cur_len
    BY <1>2 DEF RxInv, RxWork
  <1>9. Filling(k_rx)'
    <2>1. RxLen[k_rx] \in Nat
      BY <1>2, <1>8, FrameAt
    <2>2. br'.brx_len = RxLen[k_rx'] /\ br'.brx_len > 0 /\ br'.brx_len <= MaxFrame /\ br'.brx_len \in Nat
      BY <1>1, <1>4, <1>7, <1>8, <2>1, Sizes
    <2>3. 0 .. (mac'.brx_pos - 1) = {}
      OBVIOUS
    <2> QED BY <1>5, <2>2, <2>3 DEF Filling
  <1>10. br'.st # "S_RX_RPTR"
    BY <1>1, <1>4 DEF Wait_
  <1> QED BY <1>1, <1>4, <1>5, <1>7, <1>9, <1>10 DEF Streaming

(* A frame that is being streamed, as the bridge goes through its states.  *)
LEMMA StreamQuiet ==
  ASSUME Reached, RxInv, MacInv, MacMoved, NEW poll_tick, NEW answer, Ticks(poll_tick, answer),
         Streaming, mac.est = "E_BRX", mac'.est = "E_BRX", br.st \in {"S_WAIT", "S_RX_READ"}
  PROVE  Streaming'
  <1>0. /\ answer \in BOOLEAN /\ Moves(Step(poll_tick)) /\ Access(answer) /\ box_ack' = answer
        /\ BridgeInv /\ BoxInv /\ LiveInv
    BY DEF Ticks, Reached
  <1>1. Phase = "S_RX_READ" /\ Live
    BY <1>0, Serves DEF Streaming, Phase, RxState, BridgeInv, RetState, InitState
  <1>2. br.rx_rptr < box[A("RXWPTR")] /\ RxLen[k_rx] \in Nat
    BY <1>1, FrameAt DEF RxInv, RxWork
  <1>3. Filling(k_rx)
    BY DEF Streaming
  <1>4. /\ mac.brx_pos < br.brx_len /\ mac'.brx_pos <= br.brx_len /\ mac'.brx_pos \in Nat
        /\ mac'.brx_pos = IF br.brx_valid THEN mac.brx_pos + 1 ELSE mac.brx_pos
        /\ \A i \in 0 .. (mac'.brx_pos - 1) : InBuffer(i)' = RxByte(k_rx, i)
    BY <1>2, <1>3, FillingNext
  <1>5. /\ br'.pos = br.pos /\ br'.rx_rptr = br.rx_rptr /\ br'.brx_len = br.brx_len /\ Pulses({})
        /\ Phase' \in {"S_RX_READ", "S_RX_STREAM"} /\ br'.st # "S_RX_RPTR"
    <2>1. CASE br.st = "S_WAIT" /\ Only({}) /\ Pulses({})
      BY <1>1, <2>1, WaitKeeps DEF Phase
    <2>2. CASE br.st = "S_WAIT" /\ br'.st = br.ret /\ Only({"st", "m_req", "op_rdata"}) /\ Pulses({})
      BY <1>1, <2>2, AckKeeps DEF Phase
    <2>3. CASE br.st = "S_RX_READ"
      <3>1. Only({"st", "pack", "lane"}) /\ Pulses({}) /\ br'.st = "S_RX_STREAM"
        BY <1>0, <2>3, RxEffects DEF EffRead
      <3>2. {"pos", "rx_rptr", "brx_len"} \cap {"st", "pack", "lane"} = {}
        OBVIOUS
      <3>3. br'.pos = br.pos /\ br'.rx_rptr = br.rx_rptr /\ br'.brx_len = br.brx_len
        BY <3>1, <3>2, OnlyIs
      <3> QED BY <3>1, <3>3 DEF Phase
    <2> QED BY <1>0, <2>1, <2>2, <2>3, WaitIs
  <1>6. br'.brx_valid = FALSE
    BY <1>5 DEF Pulses, Pulse
  <1>7. gen_base' = gen_base
    BY <1>0, <1>1, LiveStays DEF SameGen
  <1>8. k_rx' = k_rx
    BY <1>5, <1>7 DEF k_rx
  <1>9. Filling(k_rx)'
    BY <1>3, <1>4, <1>5, <1>6, <1>8 DEF Filling
  <1>10. br'.pos = mac'.brx_pos
    BY <1>4, <1>5 DEF Streaming
  <1> QED BY <1>5, <1>6, <1>9, <1>10 DEF Streaming

(* The next byte.                                                          *)
LEMMA StreamByte ==
  ASSUME Reached, RxInv, MacInv, MacMoved, NEW poll_tick, NEW answer, Ticks(poll_tick, answer),
         Streaming, mac.est = "E_BRX", mac'.est = "E_BRX", br.st = "S_RX_STREAM"
  PROVE  Streaming'
  <1>0. /\ answer \in BOOLEAN /\ Moves(Step(poll_tick)) /\ Access(answer) /\ box_ack' = answer
        /\ BridgeInv /\ BoxInv /\ LiveInv /\ br.pos \in Nat
    BY DEF Ticks, Reached, BridgeInv
  <1>1. Phase = "S_RX_STREAM" /\ Live
    BY Serves DEF Phase, RxState
  <1>2. /\ br.rx_rptr < box[A("RXWPTR")] /\ RxLen[k_rx] \in Nat /\ br.pack = RxFrameWord(k_rx, 1 + Row)
        /\ br.cur_len = RxLen[k_rx] /\ br.brx_len = br.cur_len /\ br.pos < br.cur_len
    BY <1>1, FrameAt DEF RxInv, RxWork
  <1>3. Filling(k_rx)
    BY DEF Streaming
  <1>4. /\ mac.brx_pos < br.brx_len /\ mac'.brx_pos <= br.brx_len /\ mac'.brx_pos \in Nat
        /\ mac'.brx_pos = IF br.brx_valid THEN mac.brx_pos + 1 ELSE mac.brx_pos
        /\ \A i \in 0 .. (mac'.brx_pos - 1) : InBuffer(i)' = RxByte(k_rx, i)
    BY <1>2, <1>3, FillingNext
  <1>5. EffStream
    BY <1>0, RxEffects
  <1>6. PICK X : Only(X) /\ X \subseteq {"st", "pos", "brx_data", "lane"} \cup OpReg
    BY <1>5 DEF EffStream
  <1>7. br'.rx_rptr = br.rx_rptr /\ br'.brx_len = br.brx_len
    <2>1. {"rx_rptr", "brx_len"} \cap X = {}
      BY <1>6 DEF OpReg
    <2> QED BY <1>6, <2>1, OnlyIs
  <1>8. br'.brx_valid = TRUE /\ br'.pos = br.pos + 1 /\ br'.brx_data = br.pack[br.lane]
    BY <1>5 DEF EffStream, Pulses, Pulse
  <1>9. Phase' \in {"S_RX_READ", "S_RX_STREAM", "S_RX_RPTR"} /\ (br'.st = "S_RX_RPTR" => br.pos + 1 >= br.cur_len)
    <2>1. CASE br.pos + 1 >= br.cur_len /\ br'.st = "S_RX_RPTR"
      BY <2>1 DEF Phase
    <2>2. CASE Starts(FALSE, RxWord(br.rx_rptr, 2 + Row), 0, "S_RX_READ")
      BY <2>2 DEF Phase, Starts
    <2>3. CASE Only({"pos", "brx_data", "lane"})
      <3>1. "st" \notin {"pos", "brx_data", "lane"}
        OBVIOUS
      <3>2. br'.st = br.st
        BY <2>3, <3>1, StKept
      <3> QED BY <3>2 DEF Phase
    <2> QED BY <1>5, <2>1, <2>2, <2>3 DEF EffStream
  <1>10. br.pos = mac'.brx_pos
    BY <1>4 DEF Streaming
  <1>11. br'.brx_data = RxByte(k_rx, br.pos)
    <2>1. br.lane = br.pos % Lanes
      BY <1>0 DEF BridgeInv
    <2> QED BY <1>0, <1>2, <1>8, <2>1, WordByte DEF Row
  <1>12. gen_base' = gen_base
    BY <1>0, <1>1, LiveStays DEF SameGen
  <1>13. k_rx' = k_rx
    BY <1>7, <1>12 DEF k_rx
  <1>14. Filling(k_rx)'
    BY <1>3, <1>4, <1>7, <1>10, <1>11, <1>13 DEF Filling
  <1>15. br'.st = "S_RX_RPTR" => br'.pos = br'.brx_len
    BY <1>0, <1>2, <1>7, <1>8, <1>9
  <1> QED BY <1>8, <1>9, <1>10, <1>14, <1>15 DEF Streaming

(* The bridge consumes the frame as the MAC takes in its last byte.        *)
LEMMA StreamEnds ==
  ASSUME Reached, RxInv, MacInv, MacMoved, NEW poll_tick, NEW answer, Ticks(poll_tick, answer),
         Streaming, mac.est = "E_BRX", mac'.est = "E_BRX", br.st = "S_RX_RPTR",
         last_rx' = IF Received /\ ~dev_reset THEN InBuffer(0) \div 100 ELSE last_rx
  PROVE  Streamed'
  <1>0. /\ answer \in BOOLEAN /\ Moves(Step(poll_tick)) /\ Access(answer) /\ box_ack' = answer
        /\ BridgeInv /\ BoxInv /\ LiveInv /\ br.rx_rptr \in Nat /\ gen_base \in Nat
    BY DEF Ticks, Reached, BridgeInv, BoxInv
  <1>1. Phase = "S_RX_RPTR" /\ Live
    BY Serves DEF Phase, RxState
  <1>2. br.rx_rptr < box[A("RXWPTR")] /\ RxLen[k_rx] \in Nat
    BY <1>1, FrameAt DEF RxInv, RxWork
  <1>3. Filling(k_rx) /\ br.brx_valid /\ br.pos = br.brx_len /\ br.pos = mac.brx_pos + 1
    BY DEF Streaming
  <1>4. /\ mac.brx_pos < br.brx_len /\ mac'.brx_pos <= br.brx_len /\ mac'.brx_pos \in Nat
        /\ mac'.brx_pos = mac.brx_pos + 1
        /\ \A i \in 0 .. (mac'.brx_pos - 1) : InBuffer(i)' = RxByte(k_rx, i)
    BY <1>2, <1>3, FillingNext
  <1>5. EffRptr /\ answer = FALSE
    BY <1>0, RxEffects, Still
  <1>6. br'.brx_len = br.brx_len /\ br'.rx_rptr = br.rx_rptr + 1 /\ Landing("RXRPTR")'
        /\ br'.brx_valid = FALSE
    <2>1. "brx_len" \notin {"rx_rptr"} \cup OpReg
      BY DEF OpReg
    <2>2. br'.brx_len = br.brx_len
      BY <1>5, <2>1, OnlyIs DEF EffRptr
    <2> QED BY <1>0, <1>5, <2>2 DEF EffRptr, Starts, Pulses, Pulse, Landing, Writing, Wait_
  <1>7. gen_base' = gen_base
    BY <1>0, <1>1, LiveStays DEF SameGen
  <1>8. gen_base' + br'.rx_rptr = k_rx
    BY <1>0, <1>6, <1>7 DEF k_rx
  <1>9. Filling(gen_base + br.rx_rptr)'
    BY <1>3, <1>4, <1>6, <1>8 DEF Filling
  <1>10. last_rx' = last_rx
    <2>1. ~Received
      BY <1>2, <1>3, <1>4 DEF Received, Filling, MacInv
    <2> QED BY <2>1
  <1>11. last_rx' < gen_base' + br'.rx_rptr
    <2>1. last_rx <= gen_base + br.rx_rptr /\ last_rx \in Nat
      BY <1>0, <1>1 DEF RxInv, BoxInv
    <2> QED BY <1>0, <1>8, <1>10, <2>1 DEF k_rx
  <1>12. mac'.brx_pos = br'.brx_len
    BY <1>3, <1>4, <1>6
  <1> QED BY <1>6, <1>9, <1>11, <1>12 DEF Streamed

(* RxInv under a clock.                                                    *)
LEMMA RxInvNext ==
  ASSUME Reached, RxInv, MacInv, MacMoved, NEW poll_tick, NEW answer, Ticks(poll_tick, answer),
         pushed' = pushed, br.tx_wptr \in Nat, Writing("TXWPTR") => br.tx_wptr > 0,
         last_rx' = IF Received /\ ~dev_reset THEN InBuffer(0) \div 100 ELSE last_rx
  PROVE  RxInv'
  <1>1. ASSUME Live'
        PROVE  RxWork' /\ last_rx' <= gen_base' + br'.rx_rptr
    <2>1. Live => RxWork
      BY DEF RxInv
    <2> QED BY <1>1, <2>1, RxWorkNext, RxBehind
  <1>2. ASSUME mac'.est = "E_BRX"
        PROVE  Streaming' \/ Streamed'
    <2>1. CASE br.brx_start /\ mac'.brx_pos = 0
      BY <1>2, <2>1, StreamBegins
    <2>2. CASE mac.est = "E_BRX" /\ ~(mac.brx_pos >= br.brx_len)
      <3>1. Streaming
        <4>1. mac.brx_pos \in Nat
          BY DEF MacInv
        <4> QED BY <2>2, <4>1 DEF RxInv, Streamed
      <3>2. br.st \in {"S_WAIT", "S_RX_READ", "S_RX_STREAM", "S_RX_RPTR"}
        BY <3>1 DEF Streaming, Phase
      <3> QED BY <1>2, <2>2, <3>1, <3>2, StreamQuiet, StreamByte, StreamEnds
    <2> QED BY <1>2, <2>1, <2>2, TakesIn
  <1>3. Writing("RXRPTR")' => br'.rx_rptr > 0
    <2>1. BridgeInv /\ BoxInv /\ (Writing("RXRPTR") => br.rx_rptr > 0)
      BY DEF Reached, RxInv
    <2> QED BY <2>1, PtrPositive
  <1> QED BY <1>1, <1>2, <1>3 DEF RxInv

-----------------------------------------------------------------------------
(* TxInv.                                                                  *)

(* A clock of the link, as far as the transmit ring is concerned.          *)
LinkTick(poll_tick, answer) ==
    /\ Reached /\ RingInv /\ TxInv /\ MacInv /\ MacMoved /\ MacTurn /\ Handshake
    /\ Ticks(poll_tick, answer) /\ cable' = cable /\ dev_reset' = dev_reset

(* A bridge at work on a transmission has not published it.                *)
LEMMA BusyIs ==
  ASSUME Reached, Busy
  PROVE  Live /\ ~Landing("TXWPTR") /\ ~br.btx_done
  <1>1. Phase \in TxState
    BY DEF Busy, Phase, TxState
  <1>2. ~Wait_("S_IDLE") /\ br.st \notin {"S_OFF", "S_INIT_CLEAR"}
    BY <1>1 DEF Wait_, Phase, TxState
  <1> QED BY <1>1, <1>2, Serves DEF Reached, BridgeInv, Landing, Writing

(* The frame being written stays what it is to the MAC and the ring.       *)
LEMMA HoldNext ==
  ASSUME NEW poll_tick, NEW answer, LinkTick(poll_tick, answer), Busy,
         NEW k \in 1 .. sent, Ring(k - 1), Hold(k)
  PROVE  k \in 1 .. sent' /\ Ring(k - 1)' /\ Hold(k)' /\ SameGen
  <1>0. /\ Reached /\ MacTurn /\ answer \in BOOLEAN /\ Access(answer) /\ sent \in Nat /\ cable' = cable
        /\ dev_reset' = dev_reset
    BY DEF LinkTick, Ticks, MacInv
  <1>1. k \in 1 .. sent' /\ k \in Nat /\ sent' \in Nat
    BY <1>0 DEF MacTurn
  <1>2. Live /\ ~Landing("TXWPTR") /\ ~br.btx_done
    BY <1>0, BusyIs
  <1>3. Ring(k - 1)' /\ SameGen
    <2>1. sent \in 1 .. TxFrames
      BY <1>0, <1>1, SentIs DEF LinkTick
    <2>2. k - 1 \in Nat /\ k - 1 <= TxFrames
      BY <1>0, <1>1, <2>1, FramesInt
    <2>3. BridgeInv /\ BoxInv /\ InitInv /\ LiveInv
      BY <1>0 DEF Reached
    <2>4. SameGen /\ \A n \in Nat : n <= TxFrames /\ Ring(n) => Ring(n)'
      BY <1>0, <1>2, <2>3, RingStable
    <2> QED BY <2>2, <2>4
  <1>4. ASSUME mac'.est = "E_BTX"
        PROVE  k = sent'
    BY <1>0, <1>4 DEF MacTurn, Hold
  <1>5. ASSUME mac'.tx_en
        PROVE  k < sent'
    BY <1>0, <1>1, <1>5 DEF MacTurn, Hold
  <1>6. ASSUME mac'.est # "E_BTX"
        PROVE  ~cable' \/ dev_reset'
    BY <1>0, <1>2, <1>6 DEF MacTurn, Hold
  <1> QED BY <1>1, <1>3, <1>4, <1>5, <1>6 DEF Hold

(* The transmit slot while nothing lands.                                  *)
LEMMA SlotStill ==
  ASSUME NEW q, br.tx_wptr = q, br'.tx_wptr = q, box' = box
  PROVE  \A i : TxSlotByte(br.tx_wptr, i)' = TxSlotByte(br.tx_wptr, i)
  BY DEF TxSlotByte

(* What the bridge asks the MAC for, and gets.                             *)
LEMMA ShakeNext ==
  ASSUME NEW poll_tick, NEW answer, LinkTick(poll_tick, answer)
  PROVE  /\ mac'.btx_pending \/ mac'.btx_ack =>
              /\ br'.st = "S_TX_FETCH" /\ mac'.est = "E_BTX" /\ ~br'.btx_rd
              /\ Only({}) /\ br.st = "S_TX_FETCH" /\ Asked
         /\ ~(mac'.btx_pending /\ mac'.btx_ack)
         /\ mac'.btx_pending => mac'.pkt_q = TxEnd[sent'] + br'.pos
         /\ mac'.btx_ack => mac'.btx_q = TxEnd[sent'] + br'.pos
  <1>0. /\ BridgeInv /\ TxInv /\ MacInv /\ MacTurn /\ Handshake /\ Moves(Step(poll_tick))
    BY DEF LinkTick, Ticks, Reached
  <1>1. ASSUME mac'.btx_pending \/ mac'.btx_ack
        PROVE  /\ br.st = "S_TX_FETCH" /\ Asked /\ mac.est = "E_BTX" /\ mac'.est = "E_BTX"
               /\ Only({}) /\ Pulses({})
    <2>1. br.st = "S_TX_FETCH" /\ Asked /\ ~mac.btx_ack /\ mac.est = "E_BTX" /\ mac'.est = "E_BTX"
      BY <1>0, <1>1 DEF Handshake, BridgeInv, TxInv, Asked
    <2>2. EffFetch
      BY <1>0, <2>1, FetchEffects
    <2> QED BY <2>1, <2>2 DEF EffFetch
  <1>2. ASSUME mac'.btx_pending \/ mac'.btx_ack
        PROVE  /\ br'.st = "S_TX_FETCH" /\ br'.pos = br.pos /\ br'.btx_rd = FALSE /\ sent' = sent
    BY <1>0, <1>1, <1>2, WaitKeeps DEF Pulses, Pulse, MacTurn
  <1>3. ASSUME mac'.btx_pending
        PROVE  mac'.pkt_q = TxEnd[sent'] + br'.pos
    <2>1. Busy /\ br.btx_rd /\ mac.est = "E_BTX"
      BY <1>0, <1>1, <1>3 DEF Busy, Handshake
    <2>2. PICK k \in 1 .. sent : Bytes(k) /\ Hold(k)
      BY <1>0, <2>1 DEF TxInv
    <2>3. k = sent /\ sent \in Nat /\ sent > 0
      BY <1>0, <2>1, <2>2 DEF Hold, MacInv
    <2>4. sent \in 1 .. TxFrames
      BY <1>0, <2>3, SentIs
    <2>5. br.pos \in Nat /\ br.pos < TxLen(sent) /\ TxLen(sent) \in Nat
      <3>1. br.pos < WireLen(sent) /\ br.pos \in Nat
        BY <1>0, <2>2, <2>3 DEF Bytes, BridgeInv
      <3> QED BY <2>4, <3>1, FrameFacts
    <2>6. br.pos \in 0 .. (TxLen(sent) - 1)
      BY <2>5
    <2>7. mac.pkt[br.pos] = TxEnd[sent] + br.pos
      BY <1>0, <2>1, <2>6 DEF MacInv
    <2>8. mac'.pkt_q = mac.pkt[br.pos]
      BY <1>0, <2>1 DEF Handshake, BridgeInv
    <2> QED BY <1>2, <1>3, <2>7, <2>8
  <1>4. ASSUME mac'.btx_ack
        PROVE  mac'.btx_q = TxEnd[sent'] + br'.pos
    BY <1>0, <1>2, <1>4 DEF Handshake, TxInv
  <1> QED BY <1>0, <1>1, <1>2, <1>3, <1>4 DEF Handshake

(* The byte the MAC hands over joins the word being packed.                *)
LEMMA PackNext ==
  ASSUME BridgeInv, NEW k \in Nat, InRow(k, br.pos), InPack(k, br.pos), br.lane = br.pos % Lanes,
         br.pack = [l \in 0 .. (Lanes - 1) |-> br.pack[l]], mac.btx_q = TxEnd[k] + br.pos
  PROVE  /\ Packed = [l \in 0 .. (Lanes - 1) |-> Packed[l]]
         /\ InRow(k, br.pos + 1)
         /\ \A i \in 0 .. br.pos : i \div Lanes = Row => Packed[i % Lanes] = TxEnd[k] + i
  <1>0. br.pos \in Nat /\ br.lane \in 0 .. (Lanes - 1) /\ Lanes \in Nat \ {0}
    BY Sizes DEF BridgeInv
  <1>1. Packed = [l \in 0 .. (Lanes - 1) |-> IF l = br.lane THEN mac.btx_q ELSE br.pack[l]]
    BY <1>0 DEF Packed
  <1>2. ASSUME NEW i \in 0 .. ((br.pos + 1) - 1), i \div Lanes < Row
        PROVE  TxSlotByte(br.tx_wptr, i) = TxEnd[k] + i
    <2>1. i # br.pos
      <3>1. br.pos \div Lanes \in Nat
        BY <1>0, DivIs
      <3> QED BY <1>2, <3>1 DEF Row
    <2>2. i \in 0 .. (br.pos - 1)
      BY <1>0, <2>1
    <2> QED BY <1>2, <2>2 DEF InRow
  <1>3. ASSUME NEW i \in 0 .. br.pos, i \div Lanes = Row
        PROVE  Packed[i % Lanes] = TxEnd[k] + i
    <2>0. i \in Nat /\ i % Lanes \in 0 .. (Lanes - 1)
      <3>1. i \in Nat
        BY <1>0
      <3> QED BY <1>0, <3>1, DivIs
    <2>1. CASE i = br.pos
      BY <1>0, <1>1, <2>0, <2>1
    <2>2. CASE i # br.pos
      <3>1. i \in 0 .. (br.pos - 1)
        BY <1>0, <2>2
      <3>2. i % Lanes # br.lane
        BY <1>0, <1>3, <2>0, <2>2, DivSame DEF Row
      <3>3. br.pack[i % Lanes] = TxEnd[k] + i
        BY <1>3, <3>1 DEF InPack
      <3> QED BY <1>1, <2>0, <3>2, <3>3
    <2> QED BY <2>1, <2>2
  <1> QED BY <1>1, <1>2, <1>3 DEF InRow

(* The bytes of the frame, through the states of the bridge.               *)
LEMMA BytesSame ==
  ASSUME Only({}), box' = box, box_ack' = box_ack, NEW k, Bytes(k)
  PROVE  Bytes(k)'
  <1>1. /\ br'.st = br.st /\ br'.ret = br.ret /\ br'.pack = br.pack /\ br'.cur_len = br.cur_len
        /\ br'.pos = br.pos /\ br'.lane = br.lane /\ br'.tx_wptr = br.tx_wptr
    BY WaitKeeps
  <1>2. Row' = Row
    BY <1>1 DEF Row
  <1>3. /\ (InRow(k, br.pos) => InRow(k, br.pos)') /\ (InRow(k, br.pos + 1) => InRow(k, br.pos + 1)')
    BY <1>1, <1>2 DEF InRow, TxSlotByte
  <1>4. /\ (InPack(k, br.pos) => InPack(k, br.pos)') /\ (InPack(k, br.pos + 1) => InPack(k, br.pos + 1)')
    BY <1>1, <1>2 DEF InPack
  <1>5. /\ (InBox(k, br.pos + 1) => InBox(k, br.pos + 1)') /\ (InBox(k, br.cur_len) => InBox(k, br.cur_len)')
    BY <1>1 DEF InBox, TxSlotByte
  <1>6. /\ WritingWord' <=> WritingWord
        /\ Wait_("S_TX_WPTR")' <=> Wait_("S_TX_WPTR")
        /\ LastOfWord' <=> LastOfWord
    BY <1>1 DEF WritingWord, Wait_, LastOfWord
  <1>7. Phase' = Phase /\ box'[TxWord(br'.tx_wptr, 0)] = box[TxWord(br.tx_wptr, 0)]
    BY <1>1 DEF Phase
  <1> QED BY <1>1, <1>3, <1>4, <1>5, <1>6, <1>7 DEF Bytes

(* A byte from the MAC goes into the word being packed.                    *)
LEMMA BytesFetched ==
  ASSUME BridgeInv, EffFetch, mac.btx_ack, br.st = "S_TX_FETCH", box' = box,
         NEW k \in Nat, Bytes(k), mac.btx_q = TxEnd[k] + br.pos, br.cur_len \in Nat
  PROVE  Bytes(k)'
  <1>0. br.pos \in Nat /\ br.lane \in 0 .. (Lanes - 1) /\ Lanes \in Nat \ {0}
    BY Sizes DEF BridgeInv
  <1>1. /\ Packed = [l \in 0 .. (Lanes - 1) |-> Packed[l]]
        /\ InRow(k, br.pos + 1)
        /\ \A i \in 0 .. br.pos : i \div Lanes = Row => Packed[i % Lanes] = TxEnd[k] + i
    BY PackNext DEF Bytes
  <1>2. \A i \in 0 .. ((br.pos + 1) - 1) : i \div Lanes = Row => Packed[i % Lanes] = TxEnd[k] + i
    <2>1. (br.pos + 1) - 1 = br.pos
      BY <1>0
    <2> QED BY <1>1, <2>1
  <1>3. \A i \in 0 .. ((br.pos + 1) - 1) : i \div Lanes < Row => TxSlotByte(br.tx_wptr, i) = TxEnd[k] + i
    BY <1>1 DEF InRow
  <1>4. CASE LastOfWord /\ Only({"st", "pack"}) /\ br'.st = "S_TX_WRITE" /\ br'.pack = Packed
    <2>1. /\ br'.cur_len = br.cur_len /\ br'.pos = br.pos /\ br'.lane = br.lane
          /\ br'.tx_wptr = br.tx_wptr
      <3>1. {"cur_len", "pos", "lane", "tx_wptr"} \cap {"st", "pack"} = {}
        OBVIOUS
      <3> QED BY <1>4, <3>1, OnlyIs
    <2>2. Row' = Row /\ ~WritingWord' /\ ~Wait_("S_TX_WPTR")' /\ Phase' = "S_TX_WRITE" /\ LastOfWord'
      BY <1>4, <2>1 DEF Row, WritingWord, Wait_, Phase, LastOfWord
    <2>3. InRow(k, br.pos + 1)'
      BY <1>3, <2>1, <2>2 DEF InRow, TxSlotByte
    <2>4. InPack(k, br.pos + 1)'
      BY <1>2, <1>4, <2>1, <2>2 DEF InPack
    <2>5. br'.pack = [l \in 0 .. (Lanes - 1) |-> br'.pack[l]]
      BY <1>1, <1>4
    <2> QED BY <1>4, <2>1, <2>2, <2>3, <2>4, <2>5 DEF Bytes
  <1>5. CASE /\ ~LastOfWord /\ Only({"pos", "lane", "pack", "btx_addr"})
             /\ br'.pos = br.pos + 1 /\ br'.lane = br.lane + 1 /\ br'.pack = Packed
    <2>1. br'.cur_len = br.cur_len /\ br'.st = br.st /\ br'.tx_wptr = br.tx_wptr
      <3>1. {"cur_len", "st", "tx_wptr"} \cap {"pos", "lane", "pack", "btx_addr"} = {}
        OBVIOUS
      <3> QED BY <1>5, <3>1, OnlyIs
    <2>2. /\ br.pos % Lanes # Lanes - 1 /\ ~(br.pos + 1 >= br.cur_len)
          /\ br.lane = br.pos % Lanes
      BY <1>5 DEF LastOfWord, Bytes
    <2>3. (br.pos + 1) \div Lanes = br.pos \div Lanes /\ (br.pos + 1) % Lanes = (br.pos % Lanes) + 1
      BY <1>0, <2>2, DivNext
    <2>4. Row' = Row /\ br'.lane = br'.pos % Lanes /\ br'.pos < br'.cur_len
      BY <1>0, <1>5, <2>1, <2>2, <2>3 DEF Row
    <2>5. InRow(k, br.pos)'
      BY <1>3, <1>5, <2>1, <2>4 DEF InRow, TxSlotByte
    <2>6. InPack(k, br.pos)'
      BY <1>2, <1>5, <2>4 DEF InPack
    <2>7. br'.pack = [l \in 0 .. (Lanes - 1) |-> br'.pack[l]]
      BY <1>1, <1>5
    <2>8. ~WritingWord' /\ ~Wait_("S_TX_WPTR")' /\ Phase' = "S_TX_FETCH" /\ br'.st = "S_TX_FETCH"
      BY <2>1 DEF WritingWord, Wait_, Phase
    <2> QED BY <2>1, <2>4, <2>5, <2>6, <2>7, <2>8 DEF Bytes
  <1> QED BY <1>4, <1>5 DEF EffFetch

(* The write of a word begins.                                             *)
LEMMA BytesWrite ==
  ASSUME BridgeInv, EffWrite, br.st = "S_TX_WRITE", box' = box, box_ack' = FALSE, NEW k, Bytes(k),
         br.cur_len \in Nat
  PROVE  Bytes(k)'
  <1>1. /\ br'.pack = br.pack /\ br'.cur_len = br.cur_len /\ br'.pos = br.pos /\ br'.lane = br.lane
        /\ br'.tx_wptr = br.tx_wptr
    BY OpKeeps DEF EffWrite
  <1>2. Row' = Row /\ (LastOfWord' <=> LastOfWord)
    BY <1>1 DEF Row, LastOfWord
  <1>3. InRow(k, br.pos + 1) => InRow(k, br.pos + 1)'
    BY <1>1, <1>2 DEF InRow, TxSlotByte
  <1>4. InPack(k, br.pos + 1) => InPack(k, br.pos + 1)'
    BY <1>1, <1>2 DEF InPack
  <1>5. /\ br'.st = "S_WAIT" /\ WritingWord' /\ ~Wait_("S_TX_WPTR")'
        /\ Phase' = IF br.pos + 1 >= br.cur_len THEN "S_TX_HDR" ELSE "S_TX_PACK"
    BY DEF EffWrite, Starts, WritingWord, Wait_, Phase
  <1>6. br.pos \in Nat
    BY DEF BridgeInv
  <1> QED BY <1>1, <1>2, <1>3, <1>4, <1>5, <1>6 DEF Bytes

(* The next word begins.                                                   *)
LEMMA BytesPack ==
  ASSUME BridgeInv, EffPack, br.st = "S_TX_PACK", box' = box, NEW k, Bytes(k), br.cur_len \in Nat
  PROVE  Bytes(k)'
  <1>0. br.pos \in Nat /\ Lanes \in Nat \ {0}
    BY Sizes DEF BridgeInv
  <1>1. /\ br'.cur_len = br.cur_len /\ br'.tx_wptr = br.tx_wptr
        /\ br'.st = "S_TX_FETCH" /\ br'.pos = br.pos + 1 /\ br'.lane = 0 /\ br'.pack = EmptyPack
    <2>1. {"cur_len", "tx_wptr"} \cap {"st", "pos", "lane", "pack", "btx_addr"} = {}
      OBVIOUS
    <2> QED BY <2>1, OnlyIs DEF EffPack
  <1>2. /\ br.pos + 1 < br.cur_len /\ InBox(k, br.pos + 1) /\ br.pos % Lanes = Lanes - 1
        /\ br.cur_len = WireLen(k)
    BY <1>0 DEF Bytes, Phase, LastOfWord
  <1>3. (br.pos + 1) \div Lanes = br.pos \div Lanes + 1 /\ (br.pos + 1) % Lanes = 0
    BY <1>0, <1>2, DivNext
  <1>4. br.pos \div Lanes \in Nat
    BY <1>0, DivIs
  <1>5. InRow(k, br.pos)'
    BY <1>1, <1>2 DEF InBox, InRow, TxSlotByte
  <1>6. InPack(k, br.pos)'
    <2>1. ASSUME NEW i \in 0 .. (br'.pos - 1)
          PROVE  i \div Lanes # Row'
      <3>1. i \in Nat /\ i <= br.pos
        BY <1>0, <1>1
      <3>2. i \div Lanes <= br.pos \div Lanes /\ i \div Lanes \in Nat
        BY <1>0, <3>1, DivMono, DivIs
      <3> QED BY <1>1, <1>3, <1>4, <3>2 DEF Row
    <2> QED BY <2>1 DEF InPack
  <1>7. ~WritingWord' /\ ~Wait_("S_TX_WPTR")' /\ Phase' = "S_TX_FETCH"
    BY <1>1 DEF WritingWord, Wait_, Phase
  <1>8. br'.pack = [l \in 0 .. (Lanes - 1) |-> br'.pack[l]]
    BY <1>1 DEF EmptyPack
  <1> QED BY <1>1, <1>2, <1>3, <1>5, <1>6, <1>7, <1>8 DEF Bytes

(* The header's write begins.                                              *)
LEMMA BytesHdr ==
  ASSUME BridgeInv, EffHdr, br.st = "S_TX_HDR", box' = box, box_ack' = FALSE, NEW k, Bytes(k)
  PROVE  Bytes(k)'
  <1>1. /\ br'.pack = br.pack /\ br'.cur_len = br.cur_len /\ br'.pos = br.pos /\ br'.lane = br.lane
        /\ br'.tx_wptr = br.tx_wptr
    BY OpKeeps DEF EffHdr
  <1>2. br'.st = "S_WAIT" /\ ~WritingWord' /\ Phase' = "S_TX_WPTR"
    BY DEF EffHdr, Starts, WritingWord, Phase
  <1>3. InBox(k, br.cur_len) => InBox(k, br.cur_len)'
    BY <1>1 DEF InBox, TxSlotByte
  <1> QED BY <1>1, <1>2, <1>3 DEF Bytes

(* A word lands in the slot.                                               *)
LEMMA BytesLand ==
  ASSUME BridgeInv, WritingWord, ~box_ack, Only({}), box_ack' = TRUE, NEW k \in 1 .. TxFrames, Bytes(k),
         Elsewhere(TxWord(br.tx_wptr, 1 + Row)), box'[TxWord(br.tx_wptr, 1 + Row)] = br.pack
  PROVE  Bytes(k)'
  <1>0. br.pos \in Nat /\ Lanes \in Nat \ {0} /\ Row \in Nat /\ br.tx_wptr \in Nat
    BY Sizes, DivIs DEF BridgeInv, Row
  <1>1. /\ br'.st = br.st /\ br'.ret = br.ret /\ br'.pack = br.pack /\ br'.cur_len = br.cur_len
        /\ br'.pos = br.pos /\ br'.lane = br.lane /\ br'.tx_wptr = br.tx_wptr
    BY WaitKeeps
  <1>2. /\ br.pos < WireLen(k) /\ WireLen(k) \in Nat /\ WireLen(k) <= MaxFrame /\ MaxFrame \in Nat
        /\ br.cur_len = WireLen(k)
    BY FrameFacts, Sizes DEF Bytes
  <1>3. InRow(k, br.pos + 1) /\ InPack(k, br.pos + 1) /\ LastOfWord
    BY DEF Bytes
  <1>4. Row' = Row /\ (LastOfWord' <=> LastOfWord)
    BY <1>1 DEF Row, LastOfWord
  <1>5. ASSUME NEW i \in 0 .. ((br.pos + 1) - 1)
        PROVE  /\ i \div Lanes <= Row /\ i \div Lanes \in Nat
               /\ i \div Lanes < Row =>
                    box'[TxWord(br.tx_wptr, 1 + i \div Lanes)] = box[TxWord(br.tx_wptr, 1 + i \div Lanes)]
               /\ box'[TxWord(br.tx_wptr, 1 + i \div Lanes)][i % Lanes] = TxEnd[k] + i
    <2>1. i \in Nat /\ i <= br.pos /\ i < MaxFrame
      BY <1>0, <1>2
    <2>2. i \div Lanes <= Row /\ i \div Lanes \in Nat
      BY <1>0, <2>1, DivMono, DivIs DEF Row
    <2>3. 1 + i \div Lanes \in 0 .. Words
      <3>1. 1 + i \div Lanes \in 1 .. Words
        BY <2>1, WordIn
      <3> QED BY <3>1
    <2>4. ASSUME i \div Lanes < Row
          PROVE  box'[TxWord(br.tx_wptr, 1 + i \div Lanes)] = box[TxWord(br.tx_wptr, 1 + i \div Lanes)]
      <3>1. 1 + i \div Lanes # 1 + Row
        BY <1>0, <2>2, <2>4
      <3>2. TxWord(br.tx_wptr, 1 + i \div Lanes) # TxWord(br.tx_wptr, 1 + Row)
        BY <3>1, Addresses
      <3>3. TxWord(br.tx_wptr, 1 + i \div Lanes) \in MailboxWord
        BY <1>0, <2>3, Addresses
      <3> QED BY <3>2, <3>3 DEF Elsewhere
    <2>5. CASE i \div Lanes < Row
      <3>1. TxSlotByte(br.tx_wptr, i) = TxEnd[k] + i
        BY <1>3, <2>5 DEF InRow
      <3> QED BY <2>2, <2>4, <2>5, <3>1 DEF TxSlotByte
    <2>6. CASE i \div Lanes = Row
      <3>1. br.pack[i % Lanes] = TxEnd[k] + i
        BY <1>3, <2>6 DEF InPack
      <3> QED BY <2>2, <2>6, <3>1
    <2> QED BY <1>0, <2>2, <2>4, <2>5, <2>6
  <1>6. InBox(k, br.pos + 1)'
    BY <1>1, <1>5 DEF InBox, TxSlotByte
  <1>7. InRow(k, br.pos + 1)'
    BY <1>1, <1>5 DEF InRow, TxSlotByte
  <1>8. InPack(k, br.pos + 1)'
    BY <1>1, <1>3, <1>4 DEF InPack
  <1>9. br'.st = "S_WAIT" /\ br'.ret \in {"S_TX_PACK", "S_TX_HDR"} /\ Phase' = Phase /\ ~Wait_("S_TX_WPTR")'
    BY <1>1 DEF WritingWord, Phase, Wait_
  <1> QED BY <1>1, <1>4, <1>3, <1>6, <1>7, <1>8, <1>9 DEF Bytes

(* The header lands.                                                       *)
LEMMA HeaderLands ==
  ASSUME BridgeInv, Wait_("S_TX_WPTR"), ~box_ack, Only({}), box_ack' = TRUE, NEW k \in 1 .. TxFrames,
         Bytes(k), Elsewhere(TxWord(br.tx_wptr, 0)), box'[TxWord(br.tx_wptr, 0)] = br.cur_len
  PROVE  Bytes(k)'
  <1>0. br.pos \in Nat /\ Lanes \in Nat \ {0} /\ br.tx_wptr \in Nat
    BY Sizes DEF BridgeInv
  <1>1. /\ br'.st = br.st /\ br'.ret = br.ret /\ br'.pack = br.pack /\ br'.cur_len = br.cur_len
        /\ br'.pos = br.pos /\ br'.lane = br.lane /\ br'.tx_wptr = br.tx_wptr
    BY WaitKeeps
  <1>2. WireLen(k) \in Nat /\ WireLen(k) <= MaxFrame /\ MaxFrame \in Nat /\ br.cur_len = WireLen(k)
    BY FrameFacts, Sizes DEF Bytes
  <1>3. InBox(k, br.cur_len)
    BY DEF Bytes
  <1>4. ASSUME NEW i \in 0 .. (br.cur_len - 1)
        PROVE  box'[TxWord(br.tx_wptr, 1 + i \div Lanes)][i % Lanes] = TxEnd[k] + i
    <2>1. i \in Nat /\ i < MaxFrame
      BY <1>2
    <2>2. 1 + i \div Lanes \in 0 .. Words /\ 1 + i \div Lanes # 0
      <3>1. 1 + i \div Lanes \in 1 .. Words
        BY <2>1, WordIn
      <3> QED BY <3>1
    <2>3. TxWord(br.tx_wptr, 1 + i \div Lanes) # TxWord(br.tx_wptr, 0)
      BY <2>2, Addresses
    <2>4. TxWord(br.tx_wptr, 1 + i \div Lanes) \in MailboxWord
      BY <1>0, <2>2, Addresses
    <2>5. TxSlotByte(br.tx_wptr, i) = TxEnd[k] + i
      BY <1>3 DEF InBox
    <2> QED BY <2>3, <2>4, <2>5 DEF Elsewhere, TxSlotByte
  <1>5. InBox(k, br.cur_len)'
    BY <1>1, <1>4 DEF InBox, TxSlotByte
  <1>6. br'.st = "S_WAIT" /\ br'.ret = "S_TX_WPTR" /\ Phase' = "S_TX_WPTR" /\ ~WritingWord'
    BY <1>1 DEF WritingWord, Phase, Wait_
  <1> QED BY <1>1, <1>5, <1>6 DEF Bytes

(* The bridge goes on.                                                     *)
LEMMA BytesAcked ==
  ASSUME BridgeInv, WritingWord \/ Wait_("S_TX_WPTR"), box_ack, box' = box,
         Only({"st", "m_req", "op_rdata"}), br'.st = br.ret, NEW k \in 1 .. TxFrames, Bytes(k)
  PROVE  Bytes(k)'
  <1>0. br.pos \in Nat
    BY DEF BridgeInv
  <1>1. /\ br'.pack = br.pack /\ br'.cur_len = br.cur_len
        /\ br'.pos = br.pos /\ br'.lane = br.lane /\ br'.tx_wptr = br.tx_wptr
    BY AckKeeps
  <1>2. WireLen(k) \in Nat /\ br.cur_len = WireLen(k) /\ br.pos < br.cur_len
    BY FrameFacts DEF Bytes
  <1>3. \A n : InBox(k, n) => \A i \in 0 .. (n - 1) : TxSlotByte(br.tx_wptr, i)' = TxEnd[k] + i
    BY <1>1 DEF InBox, TxSlotByte
  <1>4. LastOfWord' <=> LastOfWord
    BY <1>1 DEF LastOfWord
  <1>5. CASE WritingWord
    <2>1. InBox(k, br.pos + 1) /\ LastOfWord /\ br'.st \in {"S_TX_PACK", "S_TX_HDR"} /\ br.st = "S_WAIT"
      BY <1>5 DEF Bytes, WritingWord
    <2>2. InBox(k, br.pos + 1)'
      BY <1>1, <1>3, <2>1 DEF InBox
    <2>3. Phase' = Phase /\ Phase = br.ret /\ ~WritingWord' /\ ~Wait_("S_TX_WPTR")' /\ Phase' = br'.st
      BY <2>1 DEF Phase, WritingWord, Wait_
    <2>4. br'.st = "S_TX_HDR" => br.cur_len = br.pos + 1
      BY <1>0, <1>2, <2>3 DEF Bytes
    <2>5. br'.st = "S_TX_HDR" => InBox(k, br.cur_len)'
      BY <1>1, <1>3, <2>1, <2>4 DEF InBox
    <2>6. br'.st = "S_TX_PACK" => br.pos + 1 < br.cur_len
      BY <2>3 DEF Bytes
    <2>7. br'.st = "S_TX_HDR" => br.pos + 1 >= br.cur_len
      BY <2>3 DEF Bytes
    <2> QED BY <1>1, <1>4, <2>1, <2>2, <2>3, <2>5, <2>6, <2>7 DEF Bytes
  <1>6. CASE Wait_("S_TX_WPTR")
    <2>1. /\ InBox(k, br.cur_len) /\ box[TxWord(br.tx_wptr, 0)] = br.cur_len
          /\ br'.st = "S_TX_WPTR"
      BY <1>6 DEF Bytes, Wait_
    <2>2. InBox(k, br.cur_len)'
      BY <1>1, <1>3, <2>1 DEF InBox
    <2>3. ~WritingWord' /\ Phase' = "S_TX_WPTR"
      BY <2>1 DEF WritingWord, Phase
    <2> QED BY <1>1, <2>1, <2>2, <2>3 DEF Bytes
  <1> QED BY <1>5, <1>6

(* The frame while an operation is under way.                              *)
LEMMA TxWaits ==
  ASSUME NEW poll_tick, NEW answer, LinkTick(poll_tick, answer), br.st = "S_WAIT", Busy'
  PROVE  \E k \in 1 .. sent' : Ring(k - 1)' /\ Bytes(k)' /\ Hold(k)'
  <1>0. /\ BridgeInv /\ BoxInv /\ answer \in BOOLEAN /\ Moves(Step(poll_tick)) /\ Access(answer)
        /\ box_ack' = answer /\ br.ret \in RetState /\ Operation /\ TxInv /\ MacInv /\ Reached
    BY DEF LinkTick, Ticks, Reached, BridgeInv
  <1>1. br.ret \in {"S_TX_PACK", "S_TX_HDR", "S_TX_WPTR"}
    <2>1. CASE Only({})
      BY <1>0, <2>1, WaitKeeps DEF Busy, Phase, TxState, RetState, InitState
    <2>2. CASE br'.st = br.ret
      BY <1>0, <2>2 DEF Busy, Phase, TxState, RetState, InitState
    <2> QED BY <1>0, <2>1, <2>2, WaitIs
  <1>2. Busy
    BY <1>1 DEF Busy, Phase, TxState
  <1>3. PICK k \in 1 .. sent : Ring(k - 1) /\ Bytes(k) /\ Hold(k)
    BY <1>0, <1>2 DEF TxInv
  <1>4. k \in 1 .. sent' /\ Ring(k - 1)' /\ Hold(k)'
    BY <1>2, <1>3, HoldNext
  <1>5. k \in 1 .. TxFrames
    <2>1. sent \in Nat /\ sent > 0
      BY <1>0, <1>3 DEF MacInv
    <2>2. sent \in 1 .. TxFrames
      BY <1>0, <2>1, SentIs
    <2> QED BY <1>3, <2>1, <2>2, FramesInt
  <1>6. WritingWord \/ Wait_("S_TX_WPTR")
    BY <1>1 DEF WritingWord, Wait_
  <1>7. CASE ~box_ack /\ ~answer /\ Only({}) /\ box' = box
    <2>1. box_ack' = box_ack
      <3>1. answer = FALSE /\ box_ack = FALSE
        BY <1>0, <1>7 DEF BridgeInv
      <3> QED BY <1>0, <3>1
    <2> QED BY <1>3, <1>4, <1>7, <2>1, BytesSame
  <1>8. CASE /\ ~box_ack /\ answer /\ Only({})
             /\ br.m_we => /\ \A w \in MailboxWord : w # br.m_addr => box'[w] = box[w]
                           /\ br.m_addr \in MailboxWord => box'[br.m_addr] = br.m_wdata
    <2>1. box_ack' = TRUE /\ br.tx_wptr \in Nat /\ br.pos \in Nat
      BY <1>0, <1>8 DEF BridgeInv
    <2>2. CASE WritingWord
      <3>1. br.m_we /\ br.m_addr = TxWord(br.tx_wptr, 1 + Row) /\ br.m_wdata = br.pack
        BY <1>0, <2>2 DEF Operation, WritingWord, Write
      <3>2. 1 + Row \in 0 .. Words
        <4>1. br.pos < WireLen(k) /\ WireLen(k) \in Nat /\ WireLen(k) <= MaxFrame /\ MaxFrame \in Nat
          BY <1>3, <1>5, FrameFacts, Sizes DEF Bytes
        <4>2. 1 + Row \in 1 .. Words
          BY <2>1, <4>1, WordIn DEF Row
        <4> QED BY <4>2
      <3>3. br.m_addr \in MailboxWord
        BY <2>1, <3>1, <3>2, Addresses
      <3>4. Elsewhere(TxWord(br.tx_wptr, 1 + Row)) /\ box'[TxWord(br.tx_wptr, 1 + Row)] = br.pack
        BY <1>8, <3>1, <3>3 DEF Elsewhere
      <3>5. Bytes(k)'
        BY <1>0, <1>3, <1>5, <1>8, <2>1, <2>2, <3>4, BytesLand
      <3> QED BY <1>4, <3>5
    <2>3. CASE Wait_("S_TX_WPTR")
      <3>1. br.m_we /\ br.m_addr = TxWord(br.tx_wptr, 0) /\ br.m_wdata = br.cur_len
        BY <1>0, <2>3 DEF Operation, Wait_, Write
      <3>2. 0 \in 0 .. Words
        <4>1. Lanes \in Nat \ {0} /\ MaxFrame + Lanes - 1 \in Nat
          BY Sizes
        <4>2. Words \in Nat
          BY <4>1, DivIs DEF Words
        <4> QED BY <4>2
      <3>3. br.m_addr \in MailboxWord
        BY <2>1, <3>1, <3>2, Addresses
      <3>4. Elsewhere(TxWord(br.tx_wptr, 0)) /\ box'[TxWord(br.tx_wptr, 0)] = br.cur_len
        BY <1>8, <3>1, <3>3 DEF Elsewhere
      <3>5. Bytes(k)'
        BY <1>0, <1>3, <1>5, <1>8, <2>1, <2>3, <3>4, HeaderLands
      <3> QED BY <1>4, <3>5
    <2> QED BY <1>6, <2>2, <2>3
  <1>9. CASE box_ack /\ Only({"st", "m_req", "op_rdata"}) /\ box' = box /\ br'.st = br.ret
    <2>1. Bytes(k)'
      BY <1>0, <1>3, <1>5, <1>6, <1>9, BytesAcked
    <2> QED BY <1>4, <2>1
  <1> QED BY <1>0, <1>7, <1>8, <1>9, WaitIs

(* The bridge begins with the frame sent last.                             *)
LEMMA TxBegins ==
  ASSUME NEW poll_tick, NEW answer, LinkTick(poll_tick, answer), br.st = "S_IDLE", Busy'
  PROVE  \E k \in 1 .. sent' : Ring(k - 1)' /\ Bytes(k)' /\ Hold(k)'
  <1>0. /\ BridgeInv /\ BoxInv /\ answer \in BOOLEAN /\ Moves(Step(poll_tick)) /\ Access(answer)
        /\ MacInv /\ Reached /\ MacTurn /\ InitInv /\ LiveInv /\ RingInv
        /\ cable' = cable /\ dev_reset' = dev_reset
    BY DEF LinkTick, Ticks, Reached
  <1>1. Live /\ ~Landing("TXWPTR") /\ ~br.btx_done
    BY <1>0 DEF Live, Phase, Landing, Writing, Wait_, BridgeInv
  <1>2. box' = box
    BY <1>0, Still
  <1>3. /\ cable /\ mac.btx_req
        /\ Only({"st", "pos", "lane", "pack", "cur_len", "btx_addr"})
        /\ br'.st = "S_TX_FETCH" /\ br'.pos = 0 /\ br'.lane = 0 /\ br'.pack = EmptyPack
        /\ br'.cur_len = mac.btx_len
    <2>1. EffIdle
      BY <1>0, IdleEffects
    <2> QED BY <2>1 DEF EffIdle, Busy, Phase, TxState, Starts
  <1>4. mac.est = "E_BTX" /\ ~mac.tx_en /\ sent > 0 /\ sent \in Nat /\ mac.btx_len = WireLen(sent)
    BY <1>0, <1>3 DEF MacInv
  <1>5. sent \in 1 .. TxFrames
    BY <1>0, <1>4, SentIs
  <1>6. sent' = sent
    BY <1>0, <1>4 DEF MacTurn
  <1>7. PICK k \in 1 .. sent : k = sent
    BY <1>4
  <1>8. Ring(k - 1)'
    <2>1. Bound = k - 1
      BY <1>1, <1>4, <1>7 DEF Bound, Pending
    <2>2. Ring(k - 1)
      BY <1>0, <1>1, <2>1 DEF RingInv, LiveInv
    <2>3. k - 1 \in Nat /\ k - 1 <= TxFrames
      BY <1>5, <1>7, FramesInt
    <2> QED BY <1>0, <1>1, <2>2, <2>3, RingStable
  <1>9. Hold(k)'
    <2>1. mac'.est = "E_BTX" => k = sent'
      BY <1>6, <1>7
    <2>2. ~mac'.tx_en
      BY <1>0, <1>4 DEF MacTurn
    <2>3. mac'.est # "E_BTX" => ~cable' \/ dev_reset'
      BY <1>0, <1>1, <1>4 DEF MacTurn
    <2> QED BY <2>1, <2>2, <2>3 DEF Hold
  <1>10. Bytes(k)'
    <2>1. WireLen(k) \in Nat /\ 0 < WireLen(k)
      BY <1>5, <1>7, FrameFacts
    <2>2. br'.lane = br'.pos % Lanes
      BY <1>3, DivZero, Sizes
    <2>3. 0 .. (br'.pos - 1) = {}
      BY <1>3
    <2>4. InRow(k, br.pos)' /\ InPack(k, br.pos)'
      BY <2>3 DEF InRow, InPack
    <2>5. ~WritingWord' /\ ~Wait_("S_TX_WPTR")' /\ Phase' = "S_TX_FETCH"
      BY <1>3 DEF WritingWord, Wait_, Phase
    <2>6. br'.pack = [l \in 0 .. (Lanes - 1) |-> br'.pack[l]]
      BY <1>3 DEF EmptyPack
    <2> QED BY <1>3, <1>4, <1>7, <2>1, <2>2, <2>4, <2>5, <2>6 DEF Bytes
  <1> QED BY <1>6, <1>7, <1>8, <1>9, <1>10

(* It gathers the bytes of a word.                                         *)
LEMMA TxFetches ==
  ASSUME NEW poll_tick, NEW answer, LinkTick(poll_tick, answer), br.st = "S_TX_FETCH", Busy'
  PROVE  \E k \in 1 .. sent' : Ring(k - 1)' /\ Bytes(k)' /\ Hold(k)'
  <1>0. /\ BridgeInv /\ BoxInv /\ answer \in BOOLEAN /\ Moves(Step(poll_tick)) /\ Access(answer)
        /\ MacInv /\ Reached /\ TxInv /\ Handshake /\ box_ack' = answer /\ box_ack \in BOOLEAN
    BY DEF LinkTick, Ticks, Reached, BridgeInv
  <1>1. EffFetch
    BY <1>0, FetchEffects
  <1>2. box' = box /\ box_ack' = FALSE /\ box_ack = FALSE
    <2>1. box_ack = FALSE
      BY <1>0 DEF BridgeInv
    <2> QED BY <1>0, <2>1, Still
  <1>3. Asked
    <2>1. CASE mac.btx_ack
      BY <2>1 DEF Asked
    <2>2. CASE ~mac.btx_ack /\ Only({}) /\ Pulses({})
      <3>1. br'.st = br.st /\ br'.btx_rd = FALSE
        BY <2>2, WaitKeeps DEF Pulses, Pulse
      <3>2. mac'.btx_pending \/ mac'.btx_ack
        BY <3>1 DEF Busy, Phase, TxState, Asked
      <3> QED BY <1>0, <3>2 DEF Handshake, Asked
    <2> QED BY <1>1, <2>1, <2>2 DEF EffFetch
  <1>4. Busy
    BY <1>3 DEF Busy
  <1>5. PICK k \in 1 .. sent : Ring(k - 1) /\ Bytes(k) /\ Hold(k)
    BY <1>0, <1>4 DEF TxInv
  <1>6. k \in 1 .. sent' /\ Ring(k - 1)' /\ Hold(k)'
    BY <1>4, <1>5, HoldNext
  <1>7. CASE ~mac.btx_ack /\ Only({})
    <2>1. box_ack' = box_ack
      BY <1>2
    <2>2. Bytes(k)'
      BY <1>2, <1>5, <1>7, <2>1, BytesSame
    <2> QED BY <1>6, <2>2
  <1>8. CASE mac.btx_ack
    <2>1. mac.est = "E_BTX" /\ mac.btx_q = TxEnd[sent] + br.pos
      BY <1>0, <1>8 DEF TxInv
    <2>2. k = sent /\ sent \in Nat /\ sent > 0
      BY <1>0, <1>5, <2>1 DEF Hold, MacInv
    <2>3. sent \in 1 .. TxFrames
      BY <1>0, <2>2, SentIs
    <2>4. mac.btx_q = TxEnd[k] + br.pos /\ br.cur_len \in Nat /\ k \in Nat
      BY <1>5, <2>1, <2>2, <2>3, FrameFacts DEF Bytes
    <2>5. Bytes(k)'
      BY <1>0, <1>1, <1>2, <1>5, <1>8, <2>4, BytesFetched
    <2> QED BY <1>6, <2>5
  <1> QED BY <1>1, <1>7, <1>8 DEF EffFetch

(* It goes from word to word, then to the header.                          *)
LEMMA TxGoesOn ==
  ASSUME NEW poll_tick, NEW answer, LinkTick(poll_tick, answer),
         br.st \in {"S_TX_WRITE", "S_TX_PACK", "S_TX_HDR"}
  PROVE  \E k \in 1 .. sent' : Ring(k - 1)' /\ Bytes(k)' /\ Hold(k)'
  <1>0. /\ BridgeInv /\ BoxInv /\ answer \in BOOLEAN /\ Moves(Step(poll_tick)) /\ Access(answer)
        /\ MacInv /\ Reached /\ TxInv /\ box_ack' = answer
    BY DEF LinkTick, Ticks, Reached
  <1>1. box' = box /\ box_ack' = FALSE
    BY <1>0, Still
  <1>2. Busy
    BY DEF Busy, Phase, TxState
  <1>3. PICK k \in 1 .. sent : Ring(k - 1) /\ Bytes(k) /\ Hold(k)
    BY <1>0, <1>2 DEF TxInv
  <1>4. k \in 1 .. sent' /\ Ring(k - 1)' /\ Hold(k)'
    BY <1>2, <1>3, HoldNext
  <1>5. br.cur_len \in Nat
    <2>1. sent \in Nat /\ sent > 0
      BY <1>0, <1>3 DEF MacInv
    <2>2. sent \in 1 .. TxFrames
      BY <1>0, <2>1, SentIs
    <2>3. k \in 1 .. TxFrames
      BY <1>3, <2>1, <2>2, FramesInt
    <2> QED BY <1>3, <2>3, FrameFacts DEF Bytes
  <1>6. CASE br.st = "S_TX_WRITE"
    <2>1. EffWrite
      BY <1>0, <1>6, TxEffects
    <2>2. Bytes(k)'
      BY <1>0, <1>1, <1>3, <1>5, <1>6, <2>1, BytesWrite
    <2> QED BY <1>4, <2>2
  <1>7. CASE br.st = "S_TX_PACK"
    <2>1. EffPack
      BY <1>0, <1>7, TxEffects
    <2>2. Bytes(k)'
      BY <1>0, <1>1, <1>3, <1>5, <1>7, <2>1, BytesPack
    <2> QED BY <1>4, <2>2
  <1>8. CASE br.st = "S_TX_HDR"
    <2>1. EffHdr
      BY <1>0, <1>8, TxEffects
    <2>2. Bytes(k)'
      BY <1>0, <1>1, <1>3, <1>8, <2>1, BytesHdr
    <2> QED BY <1>4, <2>2
  <1> QED BY <1>6, <1>7, <1>8

(* TxInv's first part under a clock.                                       *)
LEMMA BusyNext ==
  ASSUME NEW poll_tick, NEW answer, LinkTick(poll_tick, answer), Busy'
  PROVE  \E k \in 1 .. sent' : Ring(k - 1)' /\ Bytes(k)' /\ Hold(k)'
  <1>0. /\ BridgeInv /\ Moves(Step(poll_tick)) /\ br.st \in BState
    BY DEF LinkTick, Ticks, Reached, BridgeInv
  <1>1. Phase' \in TxState
    BY DEF Busy, Phase, TxState
  <1>2. CASE br.st \in {"S_WAIT", "S_IDLE", "S_TX_FETCH", "S_TX_WRITE", "S_TX_PACK", "S_TX_HDR"}
    BY <1>2, TxWaits, TxBegins, TxFetches, TxGoesOn
  <1>3. CASE br.st \in InitState \cup {"S_OFF", "S_INIT_CLEAR"}
    <2>1. Phase' \notin TxState
      <3>1. CASE br.st = "S_OFF"
        <4>1. CASE Only({"m_req"})
          <5>1. "st" \notin {"m_req"}
            OBVIOUS
          <5> QED BY <3>1, <4>1, <5>1, StKept DEF Phase, TxState
        <4> QED BY <1>0, <3>1, <4>1, InitEffects DEF EffOff, Phase, TxState
      <3>2. CASE br.st \in InitState \cup {"S_INIT_CLEAR"}
        BY <1>0, <3>2, InitEffects DEF EffClear, EffInit, EffInitMac, EffMagic, Starts, InitState, Phase, TxState
      <3> QED BY <1>3, <3>1, <3>2
    <2> QED BY <1>1, <2>1
  <1>4. CASE br.st \in {"S_TX_WPTR", "S_MAC"}
    BY <1>0, <1>1, <1>4, TxEffects DEF EffWptr, EffMac, Starts, Phase, TxState
  <1>5. CASE br.st \in RxState
    <2>1. Phase' \notin TxState
      <3>1. CASE br.st = "S_RX_STREAM"
        <4>1. CASE Only({"pos", "brx_data", "lane"})
          <5>1. "st" \notin {"pos", "brx_data", "lane"}
            OBVIOUS
          <5> QED BY <3>1, <4>1, <5>1, StKept DEF Phase, TxState
        <4> QED BY <1>0, <3>1, <4>1, RxEffects DEF EffStream, Starts, Phase, TxState
      <3>2. CASE br.st # "S_RX_STREAM"
        BY <1>0, <1>5, <3>2, RxEffects DEF EffPoll, EffRxHdr, EffRead, EffRptr, Starts, Phase, TxState, RxState
      <3> QED BY <3>1, <3>2
    <2> QED BY <1>1, <2>1
  <1> QED BY <1>0, <1>2, <1>3, <1>4, <1>5, States DEF TxState

(* Every frame up to the one sent last is a frame of the driver.           *)
LEMMA SentSmall ==
  ASSUME MacInv, NEW k \in 1 .. sent
  PROVE  k \in 1 .. TxFrames /\ k \in Nat /\ k - 1 \in Nat /\ k - 1 <= TxFrames /\ sent \in Nat
  <1>1. sent \in Nat /\ sent > 0
    BY DEF MacInv
  <1>2. sent \in 1 .. TxFrames
    BY <1>1, SentIs
  <1> QED BY <1>1, <1>2, FramesInt

(* The transmit ring when nothing lands.                                   *)
LEMMA RingStill ==
  ASSUME box' = box, NEW n \in Nat, n <= TxFrames, Ring(n)
  PROVE  Ring(n)'
  <1>1. \A p \in Pub(box[A("TXWPTR")]) : TxKept(p)
    BY DEF TxKept
  <1>2. box'[A("TXWPTR")] = box[A("TXWPTR")]
    OBVIOUS
  <1> QED BY <1>1, <1>2, FramesInt, RingKept

(* The frame is complete, and its slot's number on its way.                *)
LEMMA TxCompletes ==
  ASSUME NEW poll_tick, NEW answer, LinkTick(poll_tick, answer), br.st = "S_TX_WPTR"
  PROVE  \E k \in 1 .. sent' : Ring(k - 1)' /\ HoldsFrame(br.tx_wptr - 1, k)' /\ k <= Bound'
  <1>0. /\ BridgeInv /\ BoxInv /\ answer \in BOOLEAN /\ Moves(Step(poll_tick)) /\ Access(answer)
        /\ MacInv /\ Reached /\ TxInv /\ br.tx_wptr \in Nat
    BY DEF LinkTick, Ticks, Reached, BridgeInv
  <1>1. box' = box
    BY <1>0, Still
  <1>2. Busy
    BY DEF Busy, Phase, TxState
  <1>3. PICK k \in 1 .. sent : Ring(k - 1) /\ Bytes(k) /\ Hold(k)
    BY <1>0, <1>2 DEF TxInv
  <1>4. k \in 1 .. sent' /\ Ring(k - 1)' /\ Hold(k)'
    BY <1>2, <1>3, HoldNext
  <1>5. EffWptr
    BY <1>0, TxEffects
  <1>6. br'.tx_wptr = br.tx_wptr + 1 /\ br'.btx_done = TRUE
    BY <1>5 DEF EffWptr, Pulses, Pulse
  <1>7. PICK q \in Nat : q = br.tx_wptr
    BY <1>0
  <1>8. br'.tx_wptr - 1 = q
    BY <1>6, <1>7
  <1>9. HoldsFrame(br.tx_wptr - 1, k)'
    <2>1. box[TxWord(q, 0)] = WireLen(k)
      BY <1>3, <1>7 DEF Bytes
    <2>2. \A i \in 0 .. (WireLen(k) - 1) : TxSlotByte(q, i) = TxEnd[k] + i
      BY <1>3, <1>7 DEF Bytes, InBox
    <2> QED BY <1>1, <1>8, <2>1, <2>2 DEF HoldsFrame, TxSlotByte
  <1>10. k <= Bound'
    <2>1. sent' \in Nat
      BY <1>0 DEF LinkTick, MacTurn
    <2>2. k \in Nat /\ k <= sent'
      BY <1>4, <2>1
    <2>3. ~Pending' \/ mac'.tx_en
      BY <1>6 DEF Pending
    <2>4. CASE Pending'
      <3>1. Bound' = sent' - 1
        BY <2>4 DEF Bound
      <3>2. mac'.tx_en
        BY <2>3, <2>4
      <3>3. k < sent'
        BY <1>4, <3>2 DEF Hold
      <3>4. k <= sent' - 1
        <4>1. \A n, m \in Nat : n < m => n <= m - 1
          OBVIOUS
        <4>2. k \in Nat /\ sent' \in Nat /\ k < sent'
          BY <2>1, <2>2, <3>3
        <4> QED BY <4>1, <4>2
      <3> QED BY <3>1, <3>4
    <2>5. CASE ~Pending'
      <3>1. Bound' = sent'
        BY <2>5 DEF Bound
      <3> QED BY <2>2, <3>1
    <2> QED BY <2>4, <2>5
  <1> QED BY <1>4, <1>9, <1>10

(* TxInv's second part under a clock.                                      *)
LEMMA LandingNext ==
  ASSUME NEW poll_tick, NEW answer, LinkTick(poll_tick, answer), Landing("TXWPTR")'
  PROVE  \E k \in 1 .. sent' : Ring(k - 1)' /\ HoldsFrame(br.tx_wptr - 1, k)' /\ k <= Bound'
  <1>0. /\ BridgeInv /\ BoxInv /\ answer \in BOOLEAN /\ Moves(Step(poll_tick)) /\ Access(answer)
        /\ MacInv /\ MacMoved /\ MacTurn /\ Reached /\ TxInv /\ br.tx_wptr \in Nat /\ box_ack' = answer
        /\ br.st \in BState /\ (br.st = "S_WAIT" => br.ret \in RetState)
    BY DEF LinkTick, Ticks, Reached, BridgeInv
  <1>1. br'.st = "S_WAIT" /\ br'.ret = "S_IDLE" /\ br'.m_addr = A("TXWPTR") /\ ~answer
    BY <1>0 DEF Landing, Writing, Wait_
  <1>2. CASE br.st = "S_WAIT"
    <2>1. ~box_ack /\ Only({}) /\ box' = box
      <3>1. br.ret # "S_WAIT"
        BY <1>0, <1>2 DEF RetState, InitState
      <3> QED BY <1>0, <1>1, <1>2, <3>1, WaitIs
    <2>2. br'.st = br.st /\ br'.ret = br.ret /\ br'.m_addr = br.m_addr /\ br'.tx_wptr = br.tx_wptr
      BY <2>1, WaitKeeps
    <2>3. Landing("TXWPTR")
      BY <1>1, <2>1, <2>2 DEF Landing, Writing, Wait_
    <2>4. PICK k \in 1 .. sent : Ring(k - 1) /\ HoldsFrame(br.tx_wptr - 1, k) /\ k <= Bound
      BY <1>0, <2>3 DEF TxInv
    <2>5. k \in Nat /\ k - 1 \in Nat /\ k - 1 <= TxFrames /\ sent \in Nat
      BY <1>0, SentSmall
    <2>6. Ring(k - 1)'
      BY <2>1, <2>4, <2>5, RingStill
    <2>7. HoldsFrame(br.tx_wptr - 1, k)'
      BY <2>1, <2>2, <2>4 DEF HoldsFrame, TxSlotByte
    <2>8. Bound \in Nat /\ Bound' \in Nat /\ Bound <= Bound' /\ Bound' <= sent' /\ sent' \in Nat
      BY <1>0, BoundGrows
    <2>9. k <= Bound'
      BY <2>4, <2>5, <2>8
    <2>10. k \in 1 .. sent'
      BY <2>5, <2>8, <2>9
    <2> QED BY <2>6, <2>7, <2>9, <2>10
  <1>3. CASE br.st # "S_WAIT"
    <2>1. box_ack' = FALSE
      BY <1>0, <1>3, Still
    <2>2. CASE br.st = "S_TX_WPTR"
      BY <2>2, TxCompletes
    <2>3. CASE br.st \in Serving /\ br.st # "S_TX_WPTR"
      BY <1>0, <2>1, <2>3, PtrMoves
    <2>4. CASE br.st \in InitState \cup {"S_OFF", "S_INIT_CLEAR"}
      <3>1. ~Live'
        BY <1>0, <2>1, <2>4, NotServing
      <3>2. A("MAGIC") # A("TXWPTR")
        BY Addresses DEF Kind
      <3> QED BY <1>1, <3>1, <3>2 DEF Live, Phase, Landing, Writing
    <2>5. br.st \in Serving \cup InitState \cup {"S_OFF", "S_INIT_CLEAR"}
      BY <1>0, <1>3, States DEF Serving
    <2> QED BY <2>2, <2>3, <2>4, <2>5
  <1> QED BY <1>2, <1>3

(* TxInv under a clock.                                                    *)
LEMMA TxInvNext ==
  ASSUME NEW poll_tick, NEW answer, LinkTick(poll_tick, answer), RxInv
  PROVE  TxInv'
  <1>0. BridgeInv /\ BoxInv /\ Ticks(poll_tick, answer) /\ TxInv
    BY DEF LinkTick, Reached
  <1>1. Busy' => \E k \in 1 .. sent' : Ring(k - 1)' /\ Bytes(k)' /\ Hold(k)'
    BY BusyNext
  <1>2. Landing("TXWPTR")' =>
          \E k \in 1 .. sent' : Ring(k - 1)' /\ HoldsFrame(br.tx_wptr - 1, k)' /\ k <= Bound'
    BY LandingNext
  <1>3. Writing("TXWPTR")' => br'.tx_wptr > 0
    BY <1>0, PtrPositive DEF TxInv, RxInv
  <1>4. /\ mac'.btx_pending \/ mac'.btx_ack =>
              br'.st = "S_TX_FETCH" /\ mac'.est = "E_BTX" /\ ~br'.btx_rd
        /\ ~(mac'.btx_pending /\ mac'.btx_ack)
        /\ mac'.btx_pending => mac'.pkt_q = TxEnd[sent'] + br'.pos
        /\ mac'.btx_ack => mac'.btx_q = TxEnd[sent'] + br'.pos
    BY ShakeNext
  <1> QED BY <1>1, <1>2, <1>3, <1>4 DEF TxInv

-----------------------------------------------------------------------------
(* A clock, and the reset of the core.                                     *)

(* The number of frames.                                                   *)
LEMMA FramesNat == TxFrames \in Nat
  <1>1. Len(TxEnd) \in Nat /\ Len(TxEnd) > 0
    BY LinkAssumption
  <1> QED BY <1>1 DEF TxFrames

(* A clock outside core reset.                                             *)
LEMMA ClockNext ==
  ASSUME IInv, NEW w \in DriverWrites, NEW tick \in BOOLEAN, NEW poll_tick \in BOOLEAN,
         NEW answer \in BOOLEAN, Clock(w, tick, poll_tick, answer)
  PROVE  IInv'
  <1>0. /\ BridgeInv /\ InitInv /\ LiveInv /\ BoxInv /\ RingInv /\ TxInv /\ MacInv /\ RxInv /\ Reached
    BY DEF IInv, Reached
  <1>1. /\ dev_reset => w = None
        /\ Access(answer) /\ box_ack' = answer /\ MacStep(w, tick)
        /\ BridgeClock(cable, poll_tick, mac, brx_ready(cable), box_ack, Rdata)
        /\ sent' = IF w # None /\ w.reg = "tx_csr" THEN sent + 1 ELSE sent
        /\ last_rx' = IF Received /\ ~dev_reset THEN InBuffer(0) \div 100 ELSE last_rx
        /\ dev_reset' = dev_reset /\ cable' = cable /\ pushed' = pushed
    BY DEF Clock, linkVars
  <1>2. Moves(Step(poll_tick))
    BY <1>0, <1>1, BridgeMoves DEF BridgeInv
  <1>3. Ticks(poll_tick, answer)
    BY <1>1, <1>2 DEF Ticks
  <1>4. MacMoved
    BY <1>0, <1>1, ClockMac
  <1>5. MacInv' /\ MacTurn
    BY <1>0, <1>4, MacNext, Turns
  <1>6. Handshake
    <2>1. mac.btx_pending => ~br.btx_done
      BY <1>0 DEF TxInv, BridgeInv, Landing, Writing, Wait_
    <2>2. /\ ~(br.btx_rd /\ mac.btx_pending)
          /\ mac.btx_pending \/ mac.btx_ack => mac.est = "E_BTX"
      BY <1>0 DEF TxInv
    <2> QED BY <1>0, <1>4, <2>1, <2>2, Shakes
  <1>7. BridgeInv'
    BY <1>0, <1>1, <1>2, BridgeNext
  <1>8. InitInv'
    BY <1>0, <1>1, <1>2, InitNext
  <1>9. LiveInv'
    BY <1>0, <1>1, <1>2, LiveNext
  <1>10. BoxInv'
    BY <1>0, <1>1, <1>3, BoxNext
  <1>11. RingInv'
    <2>1. Bound \in Nat /\ Bound' \in Nat /\ Bound <= Bound' /\ Bound' <= sent' /\ sent' \in Nat
      BY <1>0, <1>4, <1>5, BoundGrows
    <2>2. sent' <= TxFrames
      <3>1. sent' > 0 => sent' <= TxFrames
        BY <1>5 DEF MacInv
      <3> QED BY <2>1, <3>1, FramesNat
    <2>3. Bound' <= TxFrames
      BY <2>1, <2>2, FramesNat
    <2> QED BY <1>0, <1>1, <2>1, <2>3, RingNext
  <1>12. TxInv'
    <2>1. LinkTick(poll_tick, answer)
      BY <1>0, <1>1, <1>3, <1>4, <1>5, <1>6 DEF LinkTick
    <2> QED BY <1>0, <2>1, TxInvNext
  <1>13. RxInv'
    <2>1. br.tx_wptr \in Nat /\ (Writing("TXWPTR") => br.tx_wptr > 0)
      BY <1>0 DEF BridgeInv, TxInv
    <2> QED BY <1>0, <1>1, <1>3, <1>4, <2>1, RxInvNext
  <1> QED BY <1>5, <1>7, <1>8, <1>9, <1>10, <1>11, <1>12, <1>13 DEF IInv

(* The registers of the bridge after a reset.                              *)
LEMMA ResetIs ==
  ASSUME BridgeInv, br' = BridgeReset ++ br
  PROVE  /\ BrReg \subseteq DOMAIN br'
         /\ br'.st = "S_INIT_CLEAR" /\ br'.m_req = FALSE /\ br'.tx_wptr = 0 /\ br'.rx_rptr = 0
         /\ br'.btx_rd = FALSE /\ br'.btx_done = FALSE /\ br'.brx_start = FALSE /\ br'.brx_valid = FALSE
         /\ br'.pos = br.pos /\ br'.lane = br.lane
  <1>1. Over(br', BridgeReset, br)
    BY IsOver
  <1>2. BrReg \subseteq DOMAIN br
    BY DEF BridgeInv
  <1>3. {"pos", "lane"} \cap DOMAIN BridgeReset = {} /\ {"pos", "lane"} \subseteq BrReg
    BY DEF BridgeReset, BrReg
  <1>4. /\ {"st", "m_req", "tx_wptr", "rx_rptr", "btx_rd", "btx_done", "brx_start", "brx_valid"}
             \subseteq DOMAIN BridgeReset
        /\ BridgeReset["st"] = "S_INIT_CLEAR" /\ BridgeReset["m_req"] = FALSE
        /\ BridgeReset["tx_wptr"] = 0 /\ BridgeReset["rx_rptr"] = 0
        /\ BridgeReset["btx_rd"] = FALSE /\ BridgeReset["btx_done"] = FALSE
        /\ BridgeReset["brx_start"] = FALSE /\ BridgeReset["brx_valid"] = FALSE
    BY DEF BridgeReset
  <1>5. br'.pos = br.pos /\ br'.lane = br.lane
    BY <1>1, <1>2, <1>3 DEF Over
  <1> QED BY <1>1, <1>2, <1>4, <1>5 DEF Over

(* A reset of the core keeps IInv.                                         *)
LEMMA ResetNext ==
  ASSUME IInv, Reset
  PROVE  IInv'
  <1>0. /\ BridgeInv /\ InitInv /\ LiveInv /\ BoxInv /\ RingInv /\ TxInv /\ MacInv /\ RxInv /\ Reached
    BY DEF IInv, Reached
  <1>1. PICK answer \in BOOLEAN : Access(answer)
    BY DEF Reset
  <1>2. /\ MacReset(br) /\ br' = BridgeReset ++ br /\ box_ack' = FALSE
        /\ sent' = sent /\ pushed' = pushed /\ last_rx' = last_rx
    BY DEF Reset
  <1>3. MacOff /\ Stores /\ MacInv'
    BY <1>0, <1>2, MacOffIs, MacOffNext
  <1>4. /\ BrReg \subseteq DOMAIN br'
        /\ br'.st = "S_INIT_CLEAR" /\ br'.m_req = FALSE /\ br'.tx_wptr = 0 /\ br'.rx_rptr = 0
        /\ br'.btx_rd = FALSE /\ br'.btx_done = FALSE /\ br'.brx_start = FALSE /\ br'.brx_valid = FALSE
        /\ br'.pos = br.pos /\ br'.lane = br.lane
    BY <1>0, <1>2, ResetIs
  <1>5. BridgeInv'
    <2>1. br.pos \in Nat /\ br.lane \in 0 .. (Lanes - 1)
      BY <1>0 DEF BridgeInv
    <2>2. Phase' = "S_INIT_CLEAR" /\ br'.st \in BState
      BY <1>4 DEF Phase, BState
    <2>3. BrTypes'
      <3>1. br'.tx_wptr \in Nat /\ br'.rx_rptr \in Nat
        BY <1>4
      <3> QED BY <1>4, <2>1, <3>1 DEF BrTypes
    <2>4. Pulses({})
      BY <1>4 DEF Pulses, Pulse
    <2>5. br'.st \in BState \ {"S_WAIT"} /\ br'.st # "S_RX_READ" /\ br'.st # "S_RX_STREAM"
      BY <1>4, <2>2
    <2>6. \E X : X = {}
      OBVIOUS
    <2> QED BY <1>2, <1>4, <2>3, <2>4, <2>5, <2>6, GoesNext
  <1>6. /\ \A kind : ~Writing(kind)' /\ ~Landing(kind)'
        /\ ~Live' /\ ~Busy' /\ br'.st \notin InitState /\ br'.st # "S_WAIT" /\ br'.st # "S_OFF"
    BY <1>4 DEF Writing, Landing, Wait_, Live, Busy, Phase, TxState, RxState, InitState
  <1>7. InitInv'
    BY <1>4, <1>6 DEF InitInv, Cleared, TxZero, WZero, RZero, PtrZero
  <1>8. LiveInv'
    BY <1>6 DEF LiveInv
  <1>9. BoxInv'
    <2>1. /\ box' = [w \in MailboxWord |-> box'[w]] /\ box'[A("TXWPTR")] \in Nat
          /\ gen_base' = gen_base \/ gen_base' = pushed
      BY <1>0, <1>1, BoxAccess
    <2> QED BY <1>0, <1>2, <2>1 DEF BoxInv
  <1>10. mac'.est = "E_IDLE" /\ mac'.tx_en = FALSE /\ mac'.btx_pending = FALSE /\ mac'.btx_ack = FALSE
    BY <1>3 DEF MacOff
  <1>11. RingInv'
    <2>1. sent \in Nat /\ sent <= TxFrames
      BY <1>0, FramesNat DEF MacInv
    <2>2. Bound \in Nat /\ Bound <= sent
      <3>1. CASE Pending
        <4>1. sent > 0
          BY <1>0, <3>1 DEF Pending, MacInv
        <4> QED BY <2>1, <3>1, <4>1 DEF Bound
      <3>2. CASE ~Pending
        BY <2>1, <3>2 DEF Bound
      <3> QED BY <3>1, <3>2
    <2>3. ~Pending'
      BY <1>10 DEF Pending
    <2>4. Bound' = sent
      BY <1>2, <2>3 DEF Bound
    <2>5. Bound' \in Nat /\ Bound <= Bound' /\ Bound' <= TxFrames
      BY <2>1, <2>2, <2>4
    <2> QED BY <1>0, <1>1, <2>2, <2>5, RingNext
  <1>12. TxInv'
    BY <1>4, <1>6, <1>10 DEF TxInv
  <1>13. RxInv'
    BY <1>6, <1>10 DEF RxInv
  <1> QED BY <1>3, <1>5, <1>7, <1>8, <1>9, <1>11, <1>12, <1>13 DEF IInv

-----------------------------------------------------------------------------
(* Steps that leave the bridge and the MAC alone: DevReset, Flap, ArmPush. *)

(* What neither the bridge nor the controller nor the mailbox's words see. *)
Quiet == mac' = mac /\ br' = br /\ box_ack' = box_ack /\ sent' = sent
         /\ (ours' <=> ours) /\ gen_base' = gen_base /\ last_rx' = last_rx

(* A step that leaves bridge and MAC alone leaves their place alone.       *)
LEMMA PlaceStays ==
  ASSUME Quiet
  PROVE  /\ Phase' = Phase /\ Row' = Row /\ k_rx' = k_rx
         /\ \A s : Wait_(s)' <=> Wait_(s)
         /\ \A kind : (Writing(kind)' <=> Writing(kind)) /\ (Landing(kind)' <=> Landing(kind))
         /\ Live' <=> Live
         /\ Busy' <=> Busy
         /\ WritingWord' <=> WritingWord
         /\ LastOfWord' <=> LastOfWord
         /\ Pending' <=> Pending
         /\ Gathering' <=> Gathering
         /\ Bound' = Bound
         /\ Operation' <=> Operation
         /\ \A i : InBuffer(i)' = InBuffer(i)
  <1>1. Phase' = Phase /\ Row' = Row /\ k_rx' = k_rx
    BY DEF Quiet, Phase, Row, k_rx
  <1>2. /\ \A s : Wait_(s)' <=> Wait_(s)
        /\ \A kind : (Writing(kind)' <=> Writing(kind)) /\ (Landing(kind)' <=> Landing(kind))
    BY DEF Quiet, Wait_, Writing, Landing
  <1>3. Live' <=> Live
    BY <1>1, <1>2 DEF Live
  <1>4. Busy' <=> Busy
    BY <1>1 DEF Quiet, Busy, Asked
  <1>5. (WritingWord' <=> WritingWord) /\ (LastOfWord' <=> LastOfWord)
    BY DEF Quiet, WritingWord, LastOfWord
  <1>6. (Pending' <=> Pending) /\ (Gathering' <=> Gathering)
    BY DEF Quiet, Pending, Gathering
  <1>7. Bound' = Bound
    BY <1>6 DEF Quiet, Bound
  <1>8. Operation' <=> Operation
    BY <1>1 DEF Quiet, Operation, Write, Read, WriteMac
  <1>9. \A i : InBuffer(i)' = InBuffer(i)
    BY DEF Quiet, InBuffer
  <1> QED BY <1>1, <1>2, <1>3, <1>4, <1>5, <1>6, <1>7, <1>8, <1>9

(* BridgeInv and MacInv under such a step.                                 *)
LEMMA QuietNext ==
  ASSUME Quiet, BridgeInv, MacInv
  PROVE  BridgeInv' /\ MacInv'
  <1>1. BridgeInv'
    BY PlaceStays DEF Quiet, BridgeInv
  <1>2. MacInv'
    BY PlaceStays DEF Quiet, MacInv
  <1> QED BY <1>1, <1>2

(* The frame the MAC is taking in, as the mailbox's words change.          *)
LEMMA StreamStays ==
  ASSUME Quiet, Streaming \/ Streamed
  PROVE  Streaming' \/ Streamed'
  <1>1. \A k : Filling(k) => Filling(k)'
    BY PlaceStays DEF Quiet, Filling
  <1>2. CASE Streaming
    <2>1. Filling(k_rx)'
      BY <1>2, PlaceStays DEF Quiet, Filling, Streaming
    <2> QED BY <1>2, <2>1, PlaceStays DEF Quiet, Streaming
  <1>3. CASE Streamed
    <2>1. Filling(gen_base + br.rx_rptr)'
      BY <1>3, PlaceStays DEF Quiet, Filling, Streamed
    <2> QED BY <1>3, <2>1, PlaceStays DEF Quiet, Streamed
  <1> QED BY <1>2, <1>3

(* The frame being written, as words elsewhere in the mailbox change.      *)
LEMMA BytesStay ==
  ASSUME Quiet, BridgeInv, \A p \in Nat : TxKept(p), NEW k \in 1 .. TxFrames, Bytes(k)
  PROVE  Bytes(k)'
  <1>1. br.tx_wptr \in Nat /\ br.pos \in Nat /\ Words \in Nat
    <2>1. Lanes \in Nat \ {0} /\ MaxFrame + Lanes - 1 \in Nat
      BY Sizes
    <2> QED BY <2>1, DivIs DEF BridgeInv, Words
  <1>2. /\ br.pos < br.cur_len /\ br.cur_len = WireLen(k) /\ WireLen(k) \in Nat /\ WireLen(k) <= MaxFrame
        /\ MaxFrame \in Nat
    BY FrameFacts, Sizes DEF Bytes
  <1>3. PICK q \in Nat : q = br.tx_wptr
    BY <1>1
  <1>4. TxKept(q)
    BY <1>3
  <1>5. \A i \in Nat : i < MaxFrame => TxSlotByte(q, i)' = TxSlotByte(q, i)
    BY <1>4, ByteKept
  <1>6. \A i \in Nat : i < MaxFrame => TxSlotByte(br.tx_wptr, i)' = TxSlotByte(br.tx_wptr, i)
    BY <1>3, <1>5 DEF Quiet, TxSlotByte
  <1>7. (InRow(k, br.pos) => InRow(k, br.pos)') /\ (InRow(k, br.pos + 1) => InRow(k, br.pos + 1)')
    <2>1. \A i \in 0 .. ((br.pos + 1) - 1) : i \in Nat /\ i < MaxFrame
      BY <1>1, <1>2
    <2>2. \A i \in 0 .. (br.pos - 1) : i \in Nat /\ i < MaxFrame
      BY <1>1, <1>2
    <2> QED BY <1>6, <2>1, <2>2, PlaceStays DEF Quiet, InRow
  <1>8. (InPack(k, br.pos) => InPack(k, br.pos)') /\ (InPack(k, br.pos + 1) => InPack(k, br.pos + 1)')
    BY PlaceStays DEF Quiet, InPack
  <1>9. (InBox(k, br.pos + 1) => InBox(k, br.pos + 1)') /\ (InBox(k, br.cur_len) => InBox(k, br.cur_len)')
    <2>1. \A i \in 0 .. ((br.pos + 1) - 1) : i \in Nat /\ i < MaxFrame
      BY <1>1, <1>2
    <2>2. \A i \in 0 .. (br.cur_len - 1) : i \in Nat /\ i < MaxFrame
      BY <1>2
    <2> QED BY <1>6, <2>1, <2>2 DEF Quiet, InBox
  <1>10. box'[TxWord(br'.tx_wptr, 0)] = box[TxWord(br.tx_wptr, 0)]
    BY <1>1, <1>3, <1>4 DEF Quiet, TxKept
  <1> QED BY <1>7, <1>8, <1>9, <1>10, PlaceStays DEF Quiet, Bytes

(* TxInv under such a step.                                                *)
LEMMA TxStays ==
  ASSUME Quiet, BridgeInv, MacInv, TxInv, \A p \in Nat : TxKept(p),
         box'[A("TXWPTR")] = box[A("TXWPTR")], box[A("TXWPTR")] \in Nat,
         Busy => \A k : Hold(k) => Hold(k)'
  PROVE  TxInv'
  <1>1. ASSUME NEW n \in Nat, n <= TxFrames, Ring(n)
        PROVE  Ring(n)'
    <2>1. \A p \in Pub(box[A("TXWPTR")]) : TxKept(p)
      BY DEF Pub
    <2> QED BY <1>1, <2>1, FramesInt, RingKept
  <1>2. ASSUME Busy'
        PROVE  \E k \in 1 .. sent' : Ring(k - 1)' /\ Bytes(k)' /\ Hold(k)'
    <2>1. Busy
      BY <1>2, PlaceStays
    <2>2. PICK k \in 1 .. sent : Ring(k - 1) /\ Bytes(k) /\ Hold(k)
      BY <2>1 DEF TxInv
    <2>3. k \in 1 .. TxFrames /\ k - 1 \in Nat /\ k - 1 <= TxFrames
      BY SentSmall
    <2>4. Ring(k - 1)' /\ Bytes(k)' /\ Hold(k)'
      BY <1>1, <2>1, <2>2, <2>3, BytesStay
    <2> QED BY <2>4 DEF Quiet
  <1>3. ASSUME Landing("TXWPTR")'
        PROVE  \E k \in 1 .. sent' : Ring(k - 1)' /\ HoldsFrame(br.tx_wptr - 1, k)' /\ k <= Bound'
    <2>1. Landing("TXWPTR")
      BY <1>3, PlaceStays
    <2>2. PICK k \in 1 .. sent : Ring(k - 1) /\ HoldsFrame(br.tx_wptr - 1, k) /\ k <= Bound
      BY <2>1 DEF TxInv
    <2>3. k \in 1 .. TxFrames /\ k - 1 \in Nat /\ k - 1 <= TxFrames
      BY SentSmall
    <2>4. br.tx_wptr \in Nat /\ br.tx_wptr > 0
      BY <2>1 DEF BridgeInv, TxInv, Landing
    <2>5. PICK q \in Nat : q = br.tx_wptr - 1
      BY <2>4
    <2>6. HoldsFrame(q, k)'
      BY <2>2, <2>3, <2>5, FrameKept
    <2>7. HoldsFrame(br.tx_wptr - 1, k)'
      BY <2>5, <2>6 DEF Quiet, HoldsFrame, TxSlotByte
    <2>8. Ring(k - 1)' /\ k <= Bound'
      BY <1>1, <2>2, <2>3, PlaceStays
    <2> QED BY <2>7, <2>8 DEF Quiet
  <1>4. (Writing("TXWPTR")' => br'.tx_wptr > 0)
    BY PlaceStays DEF Quiet, TxInv
  <1> QED BY <1>2, <1>3, <1>4 DEF Quiet, TxInv

(* The link switch and the reset of the controller.                        *)
LEMMA SwitchNext ==
  ASSUME IInv, UNCHANGED <<mac, br, boxVars, sent, pushed, hist>>,
         \/ ~Busy \/ ~cable' \/ dev_reset'
         \/ cable' = cable /\ dev_reset' = dev_reset
  PROVE  IInv'
  <1>0. /\ BridgeInv /\ InitInv /\ LiveInv /\ BoxInv /\ RingInv /\ TxInv /\ MacInv /\ RxInv
    BY DEF IInv
  <1>1. Quiet /\ box' = box /\ pushed' = pushed
    BY DEF Quiet, boxVars, hist
  <1>2. BridgeInv' /\ MacInv'
    BY <1>0, <1>1, QuietNext
  <1>3. InitInv'
    BY <1>0, <1>1, PlaceStays DEF Quiet, InitInv, Cleared, TxZero, WZero, RZero, PtrZero
  <1>4. LiveInv'
    <2>1. \A p, k : HoldsRx(p, k)' <=> HoldsRx(p, k)
      BY <1>1 DEF HoldsRx
    <2> QED BY <1>0, <1>1, <2>1, PlaceStays DEF Quiet, LiveInv
  <1>5. BoxInv'
    BY <1>0, <1>1 DEF Quiet, BoxInv
  <1>6. \A p \in Nat : TxKept(p)
    BY <1>1 DEF TxKept
  <1>7. RingInv'
    <2>1. Bound' = Bound
      BY <1>1, PlaceStays
    <2>2. ASSUME NEW n, Ring(n)
          PROVE  Ring(n)'
      BY <1>1, <2>2 DEF Ring, HoldsFrame, TxSlotByte
    <2>3. SUFFICES ASSUME box[A("MAGIC")], ours
                   PROVE  Ring(Bound)'
      BY <1>1 DEF Quiet, RingInv
    <2>4. PICK n : n = Bound
      OBVIOUS
    <2>5. Ring(n)
      BY <1>0, <2>3, <2>4 DEF RingInv
    <2>6. Ring(n)'
      BY <2>2, <2>5
    <2> QED BY <2>1, <2>4, <2>6 DEF Ring
  <1>8. TxInv'
    <2>1. ASSUME Busy, NEW k, Hold(k)
          PROVE  Hold(k)'
      BY <1>1, <2>1 DEF Quiet, Hold
    <2>2. box[A("TXWPTR")] \in Nat /\ box'[A("TXWPTR")] = box[A("TXWPTR")]
      BY <1>0, <1>1 DEF BoxInv
    <2> QED BY <1>0, <1>1, <1>6, <2>1, <2>2, TxStays
  <1>9. RxInv'
    <2>1. RxWork' <=> RxWork
      BY <1>1, PlaceStays DEF Quiet, RxWork
    <2> QED BY <1>0, <1>1, <2>1, PlaceStays, StreamStays DEF Quiet, RxInv
  <1> QED BY <1>2, <1>3, <1>4, <1>5, <1>7, <1>8, <1>9 DEF IInv

(* A bridge at rest is not at work on a transmission.                      *)
LEMMA AtRestIs ==
  ASSUME AtRest
  PROVE  ~Busy
  BY DEF AtRest, Busy, Phase, TxState, Asked

(* The ARM puts a frame in the next slot.                                  *)
LEMMA PushIs ==
  ASSUME IInv, ArmPush
  PROVE  /\ Quiet /\ pushed' = pushed + 1 /\ cable' = cable /\ dev_reset' = dev_reset
         /\ box[A("MAGIC")] /\ pushed < Len(RxLen) /\ box[A("RXWPTR")] - box[A("RXRPTR")] < Slots
         /\ box' = [w \in MailboxWord |-> box'[w]]
         /\ \A k \in Kind \ {"RXWPTR"} : box'[A(k)] = box[A(k)]
         /\ box'[A("RXWPTR")] = box[A("RXWPTR")] + 1
         /\ \A p \in Nat : TxKept(p)
         /\ \A p \in Nat : \A w \in 0 .. Words :
              box'[RxWord(p, w)] =
                IF p % Slots = box[A("RXWPTR")] % Slots
                THEN IF w = 0 THEN RxLen[pushed + 1] ELSE RxFrameWord(pushed + 1, w)
                ELSE box[RxWord(p, w)]
  <1>1. /\ Quiet /\ pushed' = pushed + 1 /\ cable' = cable /\ dev_reset' = dev_reset
        /\ box[A("MAGIC")] /\ pushed < Len(RxLen) /\ box[A("RXWPTR")] - box[A("RXRPTR")] < Slots
    BY DEF ArmPush, Quiet, linkVars, hist
  <1> DEFINE s == box[A("RXWPTR")] % Slots
             Pushed(w) == IF w = A("RXWPTR") THEN box[w] + 1
                          ELSE IF w[1] = "RX" /\ w[2] = s
                          THEN IF w[3] = 0 THEN RxLen[pushed + 1] ELSE RxFrameWord(pushed + 1, w[3])
                          ELSE box[w]
  <1>2. box' = [w \in MailboxWord |-> Pushed(w)]
    BY DEF ArmPush
  <1>3. \A w \in MailboxWord : box'[w] = Pushed(w)
    BY <1>2
  <1>4. ASSUME NEW k \in Kind \ {"RXWPTR"}
        PROVE  box'[A(k)] = box[A(k)]
    <2>1. A(k) \in MailboxWord /\ A(k) # A("RXWPTR") /\ A(k)[1] = k /\ k # "RX"
      BY Addresses DEF Kind
    <2> QED BY <1>3, <2>1
  <1>5. box'[A("RXWPTR")] = box[A("RXWPTR")] + 1
    <2>1. A("RXWPTR") \in MailboxWord
      BY Addresses DEF Kind
    <2> QED BY <1>3, <2>1
  <1>6. ASSUME NEW p \in Nat
        PROVE  TxKept(p)
    <2>1. ASSUME NEW w \in 0 .. Words
          PROVE  box'[TxWord(p, w)] = box[TxWord(p, w)]
      <3>1. TxWord(p, w) \in MailboxWord /\ TxWord(p, w) # A("RXWPTR") /\ TxWord(p, w)[1] = "TX"
        BY Addresses DEF Kind, TxWord
      <3> QED BY <1>3, <3>1
    <2> QED BY <2>1 DEF TxKept
  <1>7. ASSUME NEW p \in Nat, NEW w \in 0 .. Words
        PROVE  box'[RxWord(p, w)] =
                 IF p % Slots = s
                 THEN IF w = 0 THEN RxLen[pushed + 1] ELSE RxFrameWord(pushed + 1, w)
                 ELSE box[RxWord(p, w)]
    <2>1. RxWord(p, w) \in MailboxWord /\ RxWord(p, w) # A("RXWPTR")
      BY Addresses DEF Kind
    <2>2. RxWord(p, w)[1] = "RX" /\ RxWord(p, w)[2] = p % Slots /\ RxWord(p, w)[3] = w
      BY DEF RxWord
    <2> QED BY <1>3, <2>1, <2>2
  <1>8. box' = [w \in MailboxWord |-> box'[w]]
    BY <1>2, <1>3
  <1> QED BY <1>1, <1>4, <1>5, <1>6, <1>7, <1>8

(* A frame from the ARM keeps IInv.                                        *)
LEMMA PushNext ==
  ASSUME IInv, ArmPush
  PROVE  IInv'
  <1>0. /\ BridgeInv /\ InitInv /\ LiveInv /\ BoxInv /\ RingInv /\ TxInv /\ MacInv /\ RxInv
    BY DEF IInv
  <1>1. /\ Quiet /\ pushed' = pushed + 1 /\ cable' = cable /\ dev_reset' = dev_reset
        /\ box[A("MAGIC")] /\ pushed < Len(RxLen) /\ box[A("RXWPTR")] - box[A("RXRPTR")] < Slots
        /\ box' = [w \in MailboxWord |-> box'[w]]
        /\ \A k \in Kind \ {"RXWPTR"} : box'[A(k)] = box[A(k)]
        /\ box'[A("RXWPTR")] = box[A("RXWPTR")] + 1
        /\ \A p \in Nat : TxKept(p)
    BY PushIs
  <1>2. /\ box'[A("MAGIC")] = box[A("MAGIC")] /\ box'[A("TXWPTR")] = box[A("TXWPTR")]
        /\ box'[A("RXRPTR")] = box[A("RXRPTR")]
    <2>1. {"MAGIC", "TXWPTR", "RXRPTR"} \subseteq Kind \ {"RXWPTR"}
      BY DEF Kind
    <2> QED BY <1>1, <2>1
  <1>3. BridgeInv' /\ MacInv'
    BY <1>0, <1>1, QuietNext
  <1>4. InitInv'
    <2>1. ~Cleared
      BY <1>0, <1>1 DEF InitInv
    <2>2. ~WZero
      BY <2>1 DEF WZero, Cleared, InitState
    <2>3. /\ Cleared' <=> Cleared
          /\ TxZero' <=> TxZero
          /\ WZero' <=> WZero
          /\ RZero' <=> RZero
          /\ PtrZero' <=> PtrZero
      BY <1>1, PlaceStays DEF Quiet, Cleared, TxZero, WZero, RZero, PtrZero
    <2> QED BY <1>0, <1>1, <1>2, <2>1, <2>2, <2>3 DEF Quiet, InitInv
  <1>5. ASSUME Live
        PROVE  /\ box[A("RXWPTR")] = pushed - gen_base /\ box[A("RXRPTR")] \in Nat
               /\ box[A("RXWPTR")] \in Nat /\ br.rx_rptr <= box[A("RXWPTR")] /\ br.rx_rptr \in Nat
               /\ box[A("RXRPTR")] <= box[A("RXWPTR")] /\ Slots \in Nat \ {0}
               /\ pushed \in Nat /\ gen_base \in Nat
    <2>1. /\ box[A("RXWPTR")] = pushed - gen_base /\ box[A("RXRPTR")] \in Nat
          /\ br.rx_rptr <= box[A("RXWPTR")] /\ br.rx_rptr \in Nat
          /\ (box[A("RXRPTR")] = br.rx_rptr \/ box[A("RXRPTR")] = br.rx_rptr - 1)
      BY <1>0, <1>5 DEF LiveInv, BridgeInv
    <2>2. pushed \in Nat /\ gen_base \in Nat /\ gen_base <= pushed /\ Slots \in Nat \ {0}
      BY <1>0, Sizes DEF BoxInv
    <2> QED BY <2>1, <2>2
  <1>6. LiveInv'
    <2>1. Live' <=> Live
      BY <1>1, PlaceStays
    <2>2. SUFFICES ASSUME Live
                   PROVE  LiveInv'
      BY <2>1 DEF LiveInv
    <2>3. /\ box'[A("MAGIC")] /\ ours' /\ box'[A("RXRPTR")] \in Nat
          /\ box'[A("TXWPTR")] = IF Landing("TXWPTR")' THEN br'.tx_wptr - 1 ELSE br'.tx_wptr
          /\ box'[A("RXRPTR")] = IF Landing("RXRPTR")' THEN br'.rx_rptr - 1 ELSE br'.rx_rptr
      BY <1>0, <1>1, <1>2, <2>2, PlaceStays DEF LiveInv, Quiet
    <2>4. /\ box'[A("RXWPTR")] = pushed' - gen_base' /\ br'.rx_rptr <= box'[A("RXWPTR")]
          /\ box'[A("RXWPTR")] - box'[A("RXRPTR")] <= Slots
      BY <1>1, <1>2, <1>5, <2>2 DEF Quiet
    <2>5. ASSUME NEW p \in box'[A("RXRPTR")] .. (box'[A("RXWPTR")] - 1)
          PROVE  HoldsRx(p, gen_base + 1 + p)'
      <3>1. p \in Nat /\ p >= box[A("RXRPTR")] /\ p <= box[A("RXWPTR")]
        BY <1>1, <1>2, <1>5, <2>2
      <3>2. PICK k \in Nat : k = gen_base + 1 + p
        BY <1>5, <2>2, <3>1
      <3>3. \A w \in 0 .. Words :
              box'[RxWord(p, w)] =
                IF p % Slots = box[A("RXWPTR")] % Slots
                THEN IF w = 0 THEN RxLen[pushed + 1] ELSE RxFrameWord(pushed + 1, w)
                ELSE box[RxWord(p, w)]
        BY <3>1, PushIs
      <3>4. Words \in Nat
        <4>1. Lanes \in Nat \ {0} /\ MaxFrame + Lanes - 1 \in Nat
          BY Sizes
        <4> QED BY <4>1, DivIs DEF Words
      <3>5. 0 \in 0 .. Words /\ \A w \in 1 .. Words : w \in 0 .. Words /\ w # 0
        BY <3>4
      <3>6. CASE p = box[A("RXWPTR")]
        <4>1. k = pushed + 1
          BY <1>5, <2>2, <3>2, <3>6
        <4>2. /\ box'[RxWord(p, 0)] = RxLen[k]
              /\ \A w \in 1 .. Words : box'[RxWord(p, w)] = RxFrameWord(k, w)
          BY <3>3, <3>5, <3>6, <4>1
        <4> QED BY <1>1, <3>2, <4>2 DEF Quiet, HoldsRx
      <3>7. CASE p # box[A("RXWPTR")]
        <4>1. p < box[A("RXWPTR")] /\ box[A("RXWPTR")] < p + Slots
          <5>1. /\ box[A("RXWPTR")] \in Nat /\ box[A("RXRPTR")] \in Nat /\ Slots \in Nat
                /\ box[A("RXWPTR")] - box[A("RXRPTR")] < Slots
            BY <1>1, <1>5, <2>2
          <5>2. \A b, r, s, n \in Nat : n >= r /\ n <= b /\ n # b /\ b - r < s => n < b /\ b < n + s
            OBVIOUS
          <5> QED BY <3>1, <3>7, <5>1, <5>2
        <4>2. p % Slots # box[A("RXWPTR")] % Slots
          BY <1>5, <2>2, <3>1, <4>1, ModApart
        <4>3. p \in box[A("RXRPTR")] .. (box[A("RXWPTR")] - 1)
          BY <1>5, <2>2, <3>1, <4>1
        <4>4. HoldsRx(p, k)
          <5>1. HoldsRx(p, gen_base + 1 + p)
            BY <1>0, <2>2, <4>3 DEF LiveInv
          <5> QED BY <3>2, <5>1
        <4>5. /\ box'[RxWord(p, 0)] = RxLen[k]
              /\ \A w \in 1 .. Words : box'[RxWord(p, w)] = RxFrameWord(k, w)
          BY <3>3, <3>5, <4>2, <4>4 DEF HoldsRx
        <4> QED BY <1>1, <3>2, <4>5 DEF Quiet, HoldsRx
      <3> QED BY <3>6, <3>7
    <2> QED BY <2>3, <2>4, <2>5 DEF LiveInv
  <1>7. BoxInv'
    BY <1>0, <1>1, <1>2 DEF Quiet, BoxInv
  <1>8. RingInv'
    <2>1. Bound' = Bound
      BY <1>1, PlaceStays
    <2>2. SUFFICES ASSUME box[A("MAGIC")], ours
                   PROVE  Ring(Bound)'
      BY <1>1, <1>2 DEF Quiet, RingInv
    <2>3. Ring(Bound)
      BY <1>0, <2>2 DEF RingInv
    <2>4. Bound \in Nat /\ Bound <= TxFrames
      <3>1. sent \in Nat /\ (sent > 0 => sent <= TxFrames) /\ (Pending => sent > 0)
        BY <1>0 DEF MacInv, Pending
      <3>2. CASE Pending
        BY <3>1, <3>2, FramesNat DEF Bound
      <3>3. CASE ~Pending
        BY <3>1, <3>3, FramesNat DEF Bound
      <3> QED BY <3>2, <3>3
    <2>5. PICK n \in Nat : n = Bound
      BY <2>4
    <2>6. Ring(n)'
      <3>1. \A p \in Pub(box[A("TXWPTR")]) : TxKept(p)
        <4>1. box[A("TXWPTR")] \in Nat
          BY <1>0 DEF BoxInv
        <4> QED BY <1>1, <4>1 DEF Pub
      <3> QED BY <1>2, <2>3, <2>4, <2>5, <3>1, FramesInt, RingKept
    <2> QED BY <2>1, <2>5, <2>6 DEF Ring
  <1>9. TxInv'
    <2>1. ASSUME NEW k, Hold(k)
          PROVE  Hold(k)'
      BY <1>1, <2>1 DEF Quiet, Hold
    <2>2. box[A("TXWPTR")] \in Nat
      BY <1>0 DEF BoxInv
    <2> QED BY <1>0, <1>1, <1>2, <2>1, <2>2, TxStays
  <1>10. RxInv'
    <2>1. ASSUME Live, RxWork
          PROVE  RxWork'
      <3>1. br.rx_rptr <= box[A("RXWPTR")] /\ box[A("RXWPTR")] \in Nat /\ br.rx_rptr \in Nat
        BY <1>5, <2>1
      <3>2. /\ br.rx_rptr < box[A("RXWPTR")] => br'.rx_rptr < box'[A("RXWPTR")]
            /\ br.op_rdata \in br.rx_rptr .. box[A("RXWPTR")] => br'.op_rdata \in br'.rx_rptr .. box'[A("RXWPTR")]
        BY <1>1, <3>1 DEF Quiet
      <3> QED BY <1>1, <2>1, <3>2, PlaceStays DEF Quiet, RxWork
    <2> QED BY <1>0, <1>1, <2>1, PlaceStays, StreamStays DEF Quiet, RxInv
  <1> QED BY <1>3, <1>4, <1>6, <1>7, <1>8, <1>9, <1>10 DEF IInv

-----------------------------------------------------------------------------
(* The theorems.                                                           *)

(* Every step keeps IInv.                                                  *)
LEMMA NextInv ==
  ASSUME IInv, [Next]_vars
  PROVE  IInv'
  <1>0. BridgeInv /\ MacInv
    BY DEF IInv
  <1>1. CASE Run
    <2>1. PICK w \in DriverWrites, tick, poll_tick, answer \in BOOLEAN :
              Clock(w, tick, poll_tick, answer)
      BY <1>1 DEF Run
    <2> QED BY <2>1, ClockNext
  <1>2. CASE DevReset
    <2>1. ~Busy \/ dev_reset'
      BY <1>2, AtRestIs DEF DevReset
    <2>2. UNCHANGED <<mac, br, boxVars, sent, pushed, hist>>
      BY <1>2 DEF DevReset
    <2> QED BY <2>1, <2>2, SwitchNext
  <1>3. CASE Reset
    BY <1>3, ResetNext
  <1>4. CASE Flap
    <2>1. ~Busy \/ ~cable'
      BY <1>4, AtRestIs DEF Flap
    <2>2. UNCHANGED <<mac, br, boxVars, sent, pushed, hist>>
      BY <1>4 DEF Flap
    <2> QED BY <2>1, <2>2, SwitchNext
  <1>5. CASE ArmPush
    BY <1>5, PushNext
  <1>6. CASE UNCHANGED vars
    <2>1. UNCHANGED <<mac, br, boxVars, sent, pushed, hist>> /\ UNCHANGED linkVars /\ dev_reset' = dev_reset
      BY <1>6 DEF vars
    <2>2. cable' = cable
      BY <2>1 DEF linkVars
    <2> QED BY <2>1, <2>2, SwitchNext
  <1> QED BY <1>1, <1>2, <1>3, <1>4, <1>5, <1>6 DEF Next

(* The registers as they power up.                                         *)
LEMMA BridgeStarts ==
  ASSUME br = BridgePowerUp
  PROVE  /\ BrReg \subseteq DOMAIN br
         /\ br.st = "S_INIT_CLEAR" /\ br.m_req = FALSE /\ br.tx_wptr = 0 /\ br.rx_rptr = 0
         /\ br.btx_rd = FALSE /\ br.btx_done = FALSE /\ br.brx_start = FALSE /\ br.brx_valid = FALSE
         /\ br.pos = 0 /\ br.lane = 0
  <1> DEFINE g == [ret |-> "S_IDLE", m_we |-> FALSE, m_addr |-> A("MAGIC"), m_wdata |-> 0,
                   pos |-> 0, lane |-> 0, pack |-> EmptyPack, cur_len |-> 0,
                   brx_len |-> 0, brx_data |-> 0]
  <1>1. Over(br, BridgeReset, g)
    BY IsOver DEF BridgePowerUp
  <1>2. BrReg \subseteq DOMAIN BridgeReset \cup DOMAIN g
    BY DEF BrReg, BridgeReset
  <1>3. {"pos", "lane"} \cap DOMAIN BridgeReset = {} /\ {"pos", "lane"} \subseteq DOMAIN g
        /\ g["pos"] = 0 /\ g["lane"] = 0
    BY DEF BridgeReset
  <1>4. /\ {"st", "m_req", "tx_wptr", "rx_rptr", "btx_rd", "btx_done", "brx_start", "brx_valid"}
             \subseteq DOMAIN BridgeReset
        /\ BridgeReset["st"] = "S_INIT_CLEAR" /\ BridgeReset["m_req"] = FALSE
        /\ BridgeReset["tx_wptr"] = 0 /\ BridgeReset["rx_rptr"] = 0
        /\ BridgeReset["btx_rd"] = FALSE /\ BridgeReset["btx_done"] = FALSE
        /\ BridgeReset["brx_start"] = FALSE /\ BridgeReset["brx_valid"] = FALSE
    BY DEF BridgeReset
  <1> HIDE DEF g
  <1>5. br.pos = 0 /\ br.lane = 0
    BY <1>1, <1>3 DEF Over
  <1> QED BY <1>1, <1>2, <1>4, <1>5 DEF Over

(* The registers of the MAC as they power up.                              *)
LEMMA MacStarts ==
  ASSUME mac = PowerUp
  PROVE  /\ MacReg \subseteq DOMAIN mac
         /\ mac.est = "E_IDLE" /\ mac.tx_en = FALSE /\ mac.rx_en = FALSE /\ mac.tx_sup = FALSE
         /\ mac.tx_len = 0 /\ mac.brx_pos = 0 /\ mac.pw = None /\ mac.btx_req = FALSE
         /\ mac.btx_ack = FALSE /\ mac.btx_pending = FALSE
         /\ mac.pkt = [i \in Buf |-> NoByte]
  <1> DEFINE g == [pkt |-> [i \in Buf |-> NoByte], pkt_q |-> NoByte,
                   m_we |-> FALSE, m_addr |-> 0, m_din |-> NoByte]
  <1>1. Over(mac, ResetRegs, g)
    BY IsOver DEF PowerUp
  <1>2. MacReg \subseteq DOMAIN ResetRegs \cup DOMAIN g
    BY DEF MacReg, ResetRegs
  <1>3. "pkt" \notin DOMAIN ResetRegs /\ "pkt" \in DOMAIN g /\ g["pkt"] = [i \in Buf |-> NoByte]
    BY DEF ResetRegs
  <1>4. /\ {"est", "tx_en", "rx_en", "tx_sup", "tx_len", "brx_pos", "pw", "btx_req", "btx_ack",
            "btx_pending"} \subseteq DOMAIN ResetRegs
        /\ ResetRegs["est"] = "E_IDLE" /\ ResetRegs["tx_en"] = FALSE /\ ResetRegs["rx_en"] = FALSE
        /\ ResetRegs["tx_sup"] = FALSE /\ ResetRegs["tx_len"] = 0 /\ ResetRegs["brx_pos"] = 0
        /\ ResetRegs["pw"] = None /\ ResetRegs["btx_req"] = FALSE
        /\ ResetRegs["btx_ack"] = FALSE /\ ResetRegs["btx_pending"] = FALSE
    BY DEF ResetRegs
  <1> HIDE DEF g
  <1>5. mac.pkt = [i \in Buf |-> NoByte]
    BY <1>1, <1>3 DEF Over
  <1> QED BY <1>1, <1>2, <1>4, <1>5 DEF Over

(* IInv holds at first.                                                    *)
LEMMA StartInv ==
  ASSUME Init
  PROVE  IInv
  <1>1. /\ BrReg \subseteq DOMAIN br
        /\ br.st = "S_INIT_CLEAR" /\ br.m_req = FALSE /\ br.tx_wptr = 0 /\ br.rx_rptr = 0
        /\ br.btx_rd = FALSE /\ br.btx_done = FALSE /\ br.brx_start = FALSE /\ br.brx_valid = FALSE
        /\ br.pos = 0 /\ br.lane = 0
    BY BridgeStarts DEF Init
  <1>2. /\ MacReg \subseteq DOMAIN mac
        /\ mac.est = "E_IDLE" /\ mac.tx_en = FALSE /\ mac.rx_en = FALSE /\ mac.tx_sup = FALSE
        /\ mac.tx_len = 0 /\ mac.brx_pos = 0 /\ mac.pw = None /\ mac.btx_req = FALSE
        /\ mac.btx_ack = FALSE /\ mac.btx_pending = FALSE
        /\ mac.pkt = [i \in Buf |-> NoByte]
    BY MacStarts DEF Init
  <1>3. /\ box_ack = FALSE /\ sent = 0 /\ pushed = 0
        /\ ours = FALSE /\ gen_base = 0 /\ last_rx = 0
    BY DEF Init
  <1>4. Phase = "S_INIT_CLEAR" /\ ~(\E ret : Wait_(ret))
    BY <1>1 DEF Phase, Wait_
  <1>5. \A k : ~Writing(k) /\ ~Landing(k)
    BY <1>4 DEF Writing, Landing
  <1>6. BridgeInv
    <2>1. 0 \in 0 .. (Lanes - 1)
      BY Sizes
    <2>2. br.st \in BState /\ br.st # "S_WAIT" /\ Phase # "S_RX_READ" /\ br.st # "S_RX_STREAM"
      BY <1>1, <1>4 DEF BState
    <2>3. ~br.m_req /\ ~br.btx_rd /\ ~br.btx_done /\ ~br.brx_start /\ ~br.brx_valid /\ ~box_ack
      BY <1>1, <1>3
    <2>4. /\ br.btx_rd \in BOOLEAN /\ br.btx_done \in BOOLEAN /\ br.brx_start \in BOOLEAN
          /\ br.brx_valid \in BOOLEAN /\ box_ack \in BOOLEAN /\ br.m_req \in BOOLEAN
      BY <1>1, <1>3
    <2>5. br.tx_wptr \in Nat /\ br.rx_rptr \in Nat /\ br.pos \in Nat /\ br.lane \in 0 .. (Lanes - 1)
      BY <1>1, <2>1
    <2> QED BY <1>1, <2>2, <2>3, <2>4, <2>5 DEF BridgeInv
  <1>7. InitInv
    <2>1. ~Cleared /\ ~TxZero /\ ~WZero /\ ~RZero
      BY <1>1, <1>5 DEF Cleared, TxZero, WZero, RZero, InitState
    <2> QED BY <1>1, <2>1 DEF InitInv
  <1>8. ~Live /\ ~Busy
    BY <1>1, <1>4 DEF Live, Busy, TxState, RxState
  <1>9. LiveInv
    BY <1>8 DEF LiveInv
  <1>10. BoxInv
    <2> DEFINE Left(w) == CASE w = A("MAGIC") -> TRUE
                            [] w[1] \in {"TXWPTR", "RXWPTR"} -> 1
                            [] w[1] \in {"RXRPTR", "MAC"} -> 0
                            [] w[1] \in {"TX", "RX"} ->
                                 IF w[3] = 0 THEN 1 ELSE RxFrameWord(StaleFrame, w[3])
    <2>1. box = [w \in MailboxWord |-> Left(w)]
      BY DEF Init
    <2>2. A("TXWPTR") \in MailboxWord /\ A("TXWPTR") # A("MAGIC") /\ A("TXWPTR")[1] = "TXWPTR"
      BY Addresses DEF Kind
    <2>3. Left(A("TXWPTR")) = 1
      BY <2>2
    <2> HIDE DEF Left
    <2>4. box = [w \in MailboxWord |-> box[w]] /\ box[A("TXWPTR")] = Left(A("TXWPTR"))
      BY <2>1, <2>2
    <2>5. 0 <= Len(RxLen)
      <3>1. Len(RxLen) \in Nat
        BY LinkAssumption
      <3> QED BY <3>1
    <2>6. box[A("TXWPTR")] \in Nat
      BY <2>3, <2>4
    <2>7. /\ gen_base \in Nat /\ pushed \in Nat /\ gen_base <= pushed /\ pushed <= Len(RxLen)
          /\ last_rx \in Nat /\ last_rx <= pushed
      BY <1>3, <2>5
    <2> QED BY <2>4, <2>6, <2>7 DEF BoxInv
  <1>11. RingInv
    BY <1>3 DEF RingInv
  <1>12. TxInv
    BY <1>1, <1>2, <1>5, <1>8 DEF TxInv
  <1>13. MacInv
    <2>1. mac.pkt = [i \in Buf |-> mac.pkt[i]]
      BY <1>2
    <2>2. /\ ~mac.tx_en /\ ~mac.rx_en /\ ~mac.tx_sup /\ ~mac.btx_req /\ ~mac.btx_ack /\ ~mac.btx_pending
          /\ mac.btx_pending \in BOOLEAN /\ mac.btx_ack \in BOOLEAN /\ mac.tx_en \in BOOLEAN
      BY <1>2
    <2>3. mac.est = "E_IDLE" /\ mac.pw = None /\ ~Gathering
      BY <1>2 DEF Gathering
    <2>4. mac.brx_pos \in Nat /\ sent \in Nat /\ ~(sent > 0) /\ mac.tx_len = 0
      BY <1>2, <1>3
    <2> QED BY <1>2, <2>1, <2>2, <2>3, <2>4 DEF MacInv
  <1>14. RxInv
    BY <1>2, <1>5, <1>8 DEF RxInv
  <1> QED BY <1>6, <1>7, <1>9, <1>10, <1>11, <1>12, <1>13, <1>14 DEF IInv

(* IInv implies TxRingIntact.                                              *)
LEMMA InvTx ==
  ASSUME IInv
  PROVE  TxRingIntact
  <1>1. RingInv /\ MacInv /\ BoxInv
    BY DEF IInv
  <1>2. Published = Pub(box[A("TXWPTR")])
    BY DEF Published, Pub
  <1>3. SUFFICES ASSUME box[A("MAGIC")], ours
                 PROVE  \A p \in Published : \E k \in 1 .. sent :
                            /\ HoldsFrame(p, k)
                            /\ p + 1 \in Published => \E j \in (k + 1) .. sent : HoldsFrame(p + 1, j)
    BY DEF TxRingIntact
  <1>4. PICK n : n = Bound
    OBVIOUS
  <1>5. sent \in Nat /\ (Pending => sent > 0)
    BY <1>1 DEF MacInv, Pending
  <1>6. n \in Nat /\ n <= sent
    BY <1>4, <1>5 DEF Bound
  <1>7. Ring(n)
    BY <1>1, <1>3, <1>4 DEF RingInv
  <1>8. Ring(sent)
    BY <1>5, <1>6, <1>7, RingGrows
  <1> QED BY <1>2, <1>8 DEF Ring

(* IInv implies RxIntact.                                                  *)
LEMMA InvRx ==
  ASSUME IInv
  PROVE  RxIntact
  <1>1. Reached /\ RxInv /\ MacInv
    BY DEF IInv, Reached
  <1>2. SUFFICES ASSUME Received
                 PROVE  \E k \in (gen_base + 1) .. pushed :
                            /\ k > last_rx /\ mac.brx_pos = RxLen[k]
                            /\ \A p \in 0 .. (RxLen[k] - 1) : InBuffer(p) = RxByte(k, p)
    BY DEF RxIntact
  <1>3. PICK k : k = gen_base + br.rx_rptr
    OBVIOUS
  <1>4. /\ Streamed /\ k \in (gen_base + 1) .. pushed /\ mac.brx_pos = RxLen[k]
        /\ \A p \in 0 .. (RxLen[k] - 1) : InBuffer(p) = RxByte(k, p)
    BY <1>1, <1>2, <1>3, ReceivedIs
  <1>5. last_rx < k
    BY <1>3, <1>4 DEF Streamed
  <1>6. last_rx \in Nat /\ gen_base \in Nat /\ pushed \in Nat
    BY <1>1 DEF Reached, BoxInv
  <1>7. k > last_rx
    BY <1>4, <1>5, <1>6
  <1> QED BY <1>4, <1>7

(* In every reachable state, whatever the link switch, the two resets, the *)
(* daemon and the timing of the mailbox do, next_enet_bridge.sv is in step *)
(* with its mailbox and with the MAC (IInv).                               *)
THEOREM LinkInvariant == Spec => []IInv
  <1>1. Init => IInv
    BY StartInv
  <1>2. IInv /\ [Next]_vars => IInv'
    BY NextInv
  <1> QED BY <1>1, <1>2, PTL DEF Spec

(* The transmit ring next_enet_bridge.sv publishes holds whole frames of   *)
(* the guest, in the order they were sent, for every list of frames, size  *)
(* of the ring and of a word, and timing.                                  *)
THEOREM TxRingHolds == Spec => []TxRingIntact
  <1>1. IInv => TxRingIntact
    BY InvTx
  <1> QED BY <1>1, LinkInvariant, PTL

(* What next_enet_dma.sv has taken in at the end of E_BRX is a whole frame *)
(* of this generation of the mailbox, later than the one before.           *)
THEOREM RxHolds == Spec => []RxIntact
  <1>1. IInv => RxIntact
    BY InvRx
  <1> QED BY <1>1, LinkInvariant, PTL
=============================================================================
