---------------------------- MODULE EnetDmaProofs ---------------------------
(***************************************************************************)
(* Proofs about the MB8795 and its DMA channels in loopback, for every     *)
(* packet size, RAM, setting of the registers, register write of the CPU   *)
(* at any clock, and timing of the tick and of the bus.                    *)
(*                                                                         *)
(* The argument follows the RTL's clock.  Each state of the engine is      *)
(* first summarised by what it assigns (the Patch definitions); a clock    *)
(* lets those assignments win over the CPU's write and the packet buffer   *)
(* (Clocked, LeftIs); what a clock then does to a packet is one of a few   *)
(* Effects, and the invariant is preserved by each of them.                *)
(***************************************************************************)
EXTENDS EnetDma, TLAPS, SequenceTheorems

(* The value of register x after the assignments p, if it was v.           *)
Val(p, x, v) == IF x \in DOMAIN p THEN p[x] ELSE v
(* The assignments p are to registers of T, of the values T allows them.   *)
Typed(p, T) == \A x \in DOMAIN p : x \in DOMAIN T /\ p[x] \in T[x]

(* Assignments one after the other.                                        *)
LEMMA OverIs ==
  ASSUME NEW f, NEW g
  PROVE  f ++ g = [x \in DOMAIN f \cup DOMAIN g |-> IF x \in DOMAIN f THEN f[x] ELSE g[x]]
  BY DEF ++

(* The last assignment of a register decides its value.                    *)
LEMMA ValOver ==
  ASSUME NEW f, NEW g
  PROVE  /\ DOMAIN (f ++ g) = DOMAIN f \cup DOMAIN g
         /\ \A x, v : Val(f ++ g, x, v) = Val(f, x, Val(g, x, v))
  BY OverIs DEF Val

(* No assignment changes nothing.                                          *)
LEMMA NoAssignment ==
  /\ DOMAIN <<>> = {}
  /\ \A x, v : Val(<<>>, x, v) = v
  BY DEF Val

(* Typed assignments stay typed one after the other.                       *)
LEMMA TypedOver ==
  ASSUME NEW f, NEW g, NEW T, Typed(f, T), Typed(g, T)
  PROVE  Typed(f ++ g, T)
  BY OverIs DEF Typed

LEMMA TypedNone ==
  ASSUME NEW T
  PROVE  Typed(<<>>, T)
  BY DEF Typed

(* The registers and the values of each, the write port's included.        *)
PwType == {None} \cup (Buf \X Byte)
RegType == [x \in DOMAIN MacType \cup {"pw"} |-> IF x = "pw" THEN PwType ELSE MacType[x]]

Reg == {"est", "stopped", "dis_loop", "rx_mode", "tx_status", "rx_status",
       "tx_en", "tx_sup", "tx_cmp", "tx_exc", "rx_en", "rx_sup", "rx_cmp", "rx_exc",
       "tx_next", "tx_limit", "tx_start", "tx_stop", "rx_next", "rx_limit", "rx_start",
       "rx_stop", "rx_slimit", "tx_len", "rx_len", "rx_pos", "brx_pos", "dst", "m_req",
       "enet_mac", "btx_req", "btx_len", "btx_q", "btx_ack", "btx_pending", "pkt", "pkt_q",
       "m_we", "m_addr", "m_din", "pw"}

(* The values of each register.                                            *)
LEMMA RegTypeIs ==
  /\ DOMAIN RegType = Reg
  /\ RegType.est = EState /\ RegType.stopped = BOOLEAN /\ RegType.dis_loop = BOOLEAN
  /\ RegType.rx_mode = {"none", "normal", "promiscuous"}
  /\ RegType.tx_status = SUBSET {"READY", "NET_BUSY", "TX_RECVD", "16COLLS"}
  /\ RegType.rx_status = SUBSET {"PKT_OK", "OVERFLOW"}
  /\ RegType.tx_en = BOOLEAN /\ RegType.tx_sup = BOOLEAN
  /\ RegType.tx_cmp = BOOLEAN /\ RegType.tx_exc = BOOLEAN
  /\ RegType.rx_en = BOOLEAN /\ RegType.rx_sup = BOOLEAN
  /\ RegType.rx_cmp = BOOLEAN /\ RegType.rx_exc = BOOLEAN
  /\ RegType.tx_next = Addr /\ RegType.tx_limit = Limit
  /\ RegType.tx_start = Addr /\ RegType.tx_stop = Limit
  /\ RegType.rx_next = Addr /\ RegType.rx_limit = Addr
  /\ RegType.rx_start = Addr /\ RegType.rx_stop = Addr /\ RegType.rx_slimit = Addr
  /\ RegType.tx_len = 0 .. BufLen /\ RegType.rx_len = Buf /\ RegType.rx_pos = Buf
  /\ RegType.brx_pos = 0 .. BufLen /\ RegType.dst = Byte /\ RegType.m_req = BOOLEAN
  /\ RegType.enet_mac = Nat /\ RegType.btx_req = BOOLEAN /\ RegType.btx_len = 0 .. BufLen
  /\ RegType.btx_q = Byte /\ RegType.btx_ack = BOOLEAN /\ RegType.btx_pending = BOOLEAN
  /\ RegType.pkt = [Buf -> Byte] /\ RegType.pkt_q = Byte /\ RegType.m_we = BOOLEAN
  /\ RegType.m_addr = Addr /\ RegType.m_din = Byte /\ RegType.pw = PwType
  <1>1. DOMAIN MacType = Reg \ {"pw"}
    BY DEF MacType, Reg
  <1>2. \A x \in Reg \ {"pw"} : RegType[x] = MacType[x]
    BY <1>1 DEF RegType
  <1>3. DOMAIN RegType = Reg /\ RegType.pw = PwType
    BY <1>1 DEF RegType, Reg
  <1>4.
        /\ MacType.est = EState /\ MacType.stopped = BOOLEAN /\ MacType.dis_loop = BOOLEAN
        /\ MacType.rx_mode = {"none", "normal", "promiscuous"}
        /\ MacType.tx_status = SUBSET {"READY", "NET_BUSY", "TX_RECVD", "16COLLS"}
        /\ MacType.rx_status = SUBSET {"PKT_OK", "OVERFLOW"}
        /\ MacType.tx_en = BOOLEAN /\ MacType.tx_sup = BOOLEAN
        /\ MacType.tx_cmp = BOOLEAN /\ MacType.tx_exc = BOOLEAN
        /\ MacType.rx_en = BOOLEAN /\ MacType.rx_sup = BOOLEAN
        /\ MacType.rx_cmp = BOOLEAN /\ MacType.rx_exc = BOOLEAN
        /\ MacType.tx_next = Addr /\ MacType.tx_limit = Limit
        /\ MacType.tx_start = Addr /\ MacType.tx_stop = Limit
        /\ MacType.rx_next = Addr /\ MacType.rx_limit = Addr
        /\ MacType.rx_start = Addr /\ MacType.rx_stop = Addr /\ MacType.rx_slimit = Addr
        /\ MacType.tx_len = 0 .. BufLen /\ MacType.rx_len = Buf /\ MacType.rx_pos = Buf
        /\ MacType.brx_pos = 0 .. BufLen /\ MacType.dst = Byte /\ MacType.m_req = BOOLEAN
        /\ MacType.enet_mac = Nat /\ MacType.btx_req = BOOLEAN /\ MacType.btx_len = 0 .. BufLen
        /\ MacType.btx_q = Byte /\ MacType.btx_ack = BOOLEAN /\ MacType.btx_pending = BOOLEAN
        /\ MacType.pkt = [Buf -> Byte] /\ MacType.pkt_q = Byte /\ MacType.m_we = BOOLEAN
        /\ MacType.m_addr = Addr /\ MacType.m_din = Byte
    BY DEF MacType
  <1> QED BY <1>2, <1>3, <1>4 DEF Reg

(* The registers' types, with what the pointers satisfy while a request    *)
(* waits.                                                                  *)
TypeInv ==
    /\ DOMAIN mac = DOMAIN RegType /\ Typed(mac, RegType)
    /\ mac.est = "E_TX_ACK" => mac.tx_next < AddrTop
    /\ mac.est = "E_RX_ACK" => mac.rx_next < AddrTop /\ mac.rx_pos < BufLen + CrcLen
    /\ ram \in [0 .. (RamTop - 1) -> Byte]

(* The registers the engine looks at, with their values.                   *)
LEMMA MacTypes ==
  ASSUME TypeInv
  PROVE  /\ mac.est \in EState /\ mac.stopped \in BOOLEAN /\ mac.dis_loop \in BOOLEAN
         /\ mac.rx_mode \in {"none", "normal", "promiscuous"}
         /\ mac.tx_status \subseteq {"READY", "NET_BUSY", "TX_RECVD", "16COLLS"}
         /\ mac.rx_status \subseteq {"PKT_OK", "OVERFLOW"}
         /\ mac.tx_sup \in BOOLEAN /\ mac.rx_sup \in BOOLEAN
         /\ mac.tx_next \in Addr /\ mac.tx_limit \in Limit
         /\ mac.tx_start \in Addr /\ mac.tx_stop \in Limit
         /\ mac.rx_next \in Addr /\ mac.rx_limit \in Addr
         /\ mac.rx_start \in Addr /\ mac.rx_stop \in Addr
         /\ mac.tx_len \in 0 .. BufLen /\ mac.rx_len \in Buf /\ mac.rx_pos \in Buf
         /\ mac.m_req \in BOOLEAN /\ mac.pkt \in [Buf -> Byte] /\ mac.pkt_q \in Byte
         /\ mac.m_we \in BOOLEAN /\ mac.m_addr \in Addr /\ mac.m_din \in Byte
         /\ mac.pw \in PwType
  <1>1. \A x \in Reg : mac[x] \in RegType[x]
    BY RegTypeIs DEF TypeInv, Typed
  <1>2. {"est", "stopped", "dis_loop", "rx_mode", "tx_status", "rx_status", "tx_sup", "rx_sup",
         "tx_next", "tx_limit", "tx_start", "tx_stop", "rx_next", "rx_limit", "rx_start",
         "rx_stop", "tx_len", "rx_len", "rx_pos", "m_req", "pkt", "pkt_q", "m_we", "m_addr",
         "m_din", "pw"} \subseteq Reg
    BY DEF Reg
  <1>3. mac.tx_status \in SUBSET {"READY", "NET_BUSY", "TX_RECVD", "16COLLS"}
        /\ mac.rx_status \in SUBSET {"PKT_OK", "OVERFLOW"}
    BY <1>1, <1>2, RegTypeIs
  <1> QED BY <1>1, <1>2, <1>3, RegTypeIs

(* What the engine assigns in E_IDLE has the registers' types.             *)
LEMMA TypedEIdle ==
  ASSUME TypeInv, NEW tick, NEW bridge
  PROVE  Typed(EIdle(tick, Unplugged, FALSE), RegType)
  <1>1. EIdle(tick, Unplugged, FALSE) \in {<<>>,
          [rx_status |-> mac.rx_status \ {"PKT_OK"}, est |-> "E_RX_PRE"],
          [rx_status |-> (mac.rx_status \cup {"OVERFLOW"}) \ {"PKT_OK"},
               rx_len |-> 0, tx_status |-> mac.tx_status \ {"NET_BUSY"}],
          [est |-> "E_TX_RD"]}
    BY DEF EIdle, Unplugged
  <1>2. Typed([rx_status |-> mac.rx_status \ {"PKT_OK"}, est |-> "E_RX_PRE"], RegType)
    BY RegTypeIs, MacTypes DEF Typed, EState, Reg
  <1>3. Typed([rx_status |-> (mac.rx_status \cup {"OVERFLOW"}) \ {"PKT_OK"},
               rx_len |-> 0, tx_status |-> mac.tx_status \ {"NET_BUSY"}], RegType)
    BY RegTypeIs, MacTypes, SizeAssumption DEF Typed, Buf, Reg
  <1>4. Typed([est |-> "E_TX_RD"], RegType)
    BY RegTypeIs DEF Typed, EState, Reg
  <1> QED BY <1>1, <1>2, <1>3, <1>4, TypedNone

(* And in the transmit states: the address of the next byte stays in       *)
(* range.                                                                  *)
LEMMA TypedETx ==
  ASSUME TypeInv, NEW m_ack \in BOOLEAN, NEW b \in Byte
  PROVE  /\ mac.est = "E_TX_RD" => Typed(ETxRd, RegType)
         /\ mac.est = "E_TX_ACK" => Typed(ETxAck(m_ack, b), RegType)
         /\ Typed(ETxEnd(FALSE), RegType)
  <1>1. Typed(ETxRd, RegType)
    <2>1. Typed([est |-> "E_TX_END"], RegType)
      BY RegTypeIs DEF Typed, EState, Reg
    <2>2. Typed([m_req |-> TRUE, m_we |-> FALSE, m_addr |-> mac.tx_next, est |-> "E_TX_ACK"], RegType)
      <3> DEFINE p == [m_req |-> TRUE, m_we |-> FALSE, m_addr |-> mac.tx_next, est |-> "E_TX_ACK"]
      <3>t. /\ RegType.m_req = BOOLEAN /\ RegType.m_we = BOOLEAN
            /\ RegType.m_addr = Addr /\ RegType.est = EState
            /\ {"m_req", "m_we", "m_addr", "est"} \subseteq DOMAIN RegType
        BY RegTypeIs DEF Reg
      <3>u. /\ p.m_req \in RegType.m_req /\ p.m_we \in RegType.m_we
            /\ p.m_addr \in RegType.m_addr /\ p.est \in RegType.est
        BY MacTypes, <3>t DEF EState
      <3>v. DOMAIN p = {"m_req", "m_we", "m_addr", "est"}
        OBVIOUS
      <3> HIDE DEF p
      <3>w. Typed(p, RegType)
        BY <3>t, <3>u, <3>v DEF Typed
      <3> QED BY <3>w DEF p
    <2> QED BY <2>1, <2>2 DEF ETxRd
  <1>2. ASSUME mac.est = "E_TX_ACK"
        PROVE  Typed(ETxAck(m_ack, b), RegType)
    <2> DEFINE p1 == [pw |-> <<mac.tx_len, b>>, tx_len |-> mac.tx_len + 1]
               p2 == [dst |-> b]
               p3 == [m_req |-> FALSE, tx_next |-> mac.tx_next + 1, est |-> "E_TX_RD"]
               q1 == IF mac.tx_len < BufLen THEN p1 ELSE <<>>
               q2 == IF mac.tx_len = 0 THEN p2 ELSE <<>>
    <2>1. Typed(dma_bus_exception_tx, RegType)
      <3> DEFINE p == [tx_en |-> FALSE, tx_cmp |-> TRUE, tx_exc |-> TRUE, tx_len |-> 0,
                       btx_req |-> FALSE, btx_pending |-> FALSE, est |-> "E_IDLE",
                       m_req |-> FALSE]
      <3>t. /\ RegType.tx_en = BOOLEAN /\ RegType.tx_cmp = BOOLEAN
            /\ RegType.tx_exc = BOOLEAN /\ RegType.tx_len = 0 .. BufLen
            /\ RegType.btx_req = BOOLEAN /\ RegType.btx_pending = BOOLEAN
            /\ RegType.est = EState /\ RegType.m_req = BOOLEAN
            /\ {"tx_en", "tx_cmp", "tx_exc", "tx_len", "btx_req", "btx_pending", "est", "m_req"} \subseteq DOMAIN RegType
        BY RegTypeIs DEF Reg
      <3>u. /\ p.tx_en \in RegType.tx_en /\ p.tx_cmp \in RegType.tx_cmp
            /\ p.tx_exc \in RegType.tx_exc /\ p.tx_len \in RegType.tx_len
            /\ p.btx_req \in RegType.btx_req
            /\ p.btx_pending \in RegType.btx_pending /\ p.est \in RegType.est
            /\ p.m_req \in RegType.m_req
        BY SizeAssumption, <3>t DEF EState
      <3>v. DOMAIN p = {"tx_en", "tx_cmp", "tx_exc", "tx_len", "btx_req", "btx_pending", "est", "m_req"}
        OBVIOUS
      <3> HIDE DEF p
      <3>w. Typed(p, RegType)
        BY <3>t, <3>u, <3>v DEF Typed
      <3> QED BY <3>w DEF p, dma_bus_exception_tx
    <2>2. ASSUME mac.tx_len < BufLen PROVE Typed(p1, RegType)
      <3>1. mac.tx_len + 1 \in 0 .. BufLen /\ <<mac.tx_len, b>> \in PwType
        BY <2>2, MacTypes, SizeAssumption DEF Buf, PwType
      <3>t. /\ RegType.pw = PwType /\ RegType.tx_len = 0 .. BufLen
            /\ {"pw", "tx_len"} \subseteq DOMAIN RegType
        BY RegTypeIs DEF Reg
      <3>u. /\ p1.pw \in RegType.pw /\ p1.tx_len \in RegType.tx_len
        BY <3>1, <3>t DEF EState
      <3>v. DOMAIN p1 = {"pw", "tx_len"}
        OBVIOUS
      <3> HIDE DEF p1
      <3>w. Typed(p1, RegType)
        BY <3>t, <3>u, <3>v DEF Typed
      <3> QED BY <3>w DEF p1
    <2>3. Typed(p2, RegType)
      BY RegTypeIs DEF Typed, Reg
    <2>4. Typed(p3, RegType)
      <3>1. mac.tx_next + 1 \in Addr
        BY <1>2, MacTypes, SizeAssumption DEF TypeInv, Addr
      <3>t. /\ RegType.m_req = BOOLEAN /\ RegType.tx_next = Addr /\ RegType.est = EState
            /\ {"m_req", "tx_next", "est"} \subseteq DOMAIN RegType
        BY RegTypeIs DEF Reg
      <3>u. /\ p3.m_req \in RegType.m_req /\ p3.tx_next \in RegType.tx_next
            /\ p3.est \in RegType.est
        BY <3>1, <3>t DEF EState
      <3>v. DOMAIN p3 = {"m_req", "tx_next", "est"}
        OBVIOUS
      <3> HIDE DEF p3
      <3>w. Typed(p3, RegType)
        BY <3>t, <3>u, <3>v DEF Typed
      <3> QED BY <3>w DEF p3
    <2> HIDE DEF p1, p2, p3
    <2>5. Typed(q1, RegType) /\ Typed(q2, RegType)
      BY <2>2, <2>3, TypedNone
    <2>6. ETxAck(m_ack, b) \in {dma_bus_exception_tx, <<>>, q1 ++ q2 ++ p3}
      BY DEF ETxAck, p1, p2, p3
    <2> HIDE DEF q1, q2
    <2>7. Typed(q1 ++ q2 ++ p3, RegType)
      BY <2>4, <2>5, TypedOver
    <2> QED BY <2>1, <2>6, <2>7, TypedNone
  <1>3. Typed(ETxEnd(FALSE), RegType)
    <2> DEFINE i == [est |-> "E_IDLE"]
               t == [tx_len |-> 0, est |-> "E_IDLE"]
               c == [tx_status |-> Collided, tx_len |-> 0, est |-> "E_IDLE"]
               mine == [tx_status |-> (mac.tx_status \cup {"NET_BUSY"}) \ {"TX_RECVD"},
                        rx_len |-> Padded(EffLen), rx_pos |-> 0]
               other == [tx_status |-> mac.tx_status \ {"TX_RECVD"}]
    <2>1. Typed(dma_done_tx, RegType)
      <3> DEFINE d == [tx_cmp |-> TRUE]
                 n == [tx_next |-> mac.tx_start, tx_limit |-> mac.tx_stop, tx_sup |-> FALSE]
                 o == [tx_en |-> FALSE]
      <3>1. dma_done_tx = d ++ n \/ dma_done_tx = d ++ o
        BY DEF dma_done_tx
      <3>2. Typed(d, RegType) /\ Typed(o, RegType)
        <4>1. /\ RegType.tx_cmp = BOOLEAN /\ RegType.tx_en = BOOLEAN
              /\ {"tx_cmp", "tx_en"} \subseteq DOMAIN RegType
          BY RegTypeIs DEF Reg
        <4>2. d.tx_cmp \in RegType.tx_cmp /\ o.tx_en \in RegType.tx_en
          BY <4>1
        <4>3. DOMAIN d = {"tx_cmp"} /\ DOMAIN o = {"tx_en"}
          OBVIOUS
        <4> HIDE DEF d, o
        <4> QED BY <4>1, <4>2, <4>3 DEF Typed
      <3>3. Typed(n, RegType)
        <4>t. /\ RegType.tx_next = Addr /\ RegType.tx_limit = Limit
              /\ RegType.tx_sup = BOOLEAN
              /\ {"tx_next", "tx_limit", "tx_sup"} \subseteq DOMAIN RegType
          BY RegTypeIs DEF Reg
        <4>u. /\ n.tx_next \in RegType.tx_next /\ n.tx_limit \in RegType.tx_limit
              /\ n.tx_sup \in RegType.tx_sup
          BY MacTypes, <4>t DEF EState
        <4>v. DOMAIN n = {"tx_next", "tx_limit", "tx_sup"}
          OBVIOUS
        <4> HIDE DEF n
        <4>w. Typed(n, RegType)
          BY <4>t, <4>u, <4>v DEF Typed
        <4> QED BY <4>w DEF n
      <3> HIDE DEF d, n, o
      <3> QED BY <3>1, <3>2, <3>3, TypedOver
    <2>2. Typed(i, RegType)
      BY RegTypeIs DEF Typed, Reg, EState
    <2>3. Typed(t, RegType)
      BY RegTypeIs, SizeAssumption DEF Typed, Reg, EState
    <2>4. Typed(c, RegType)
      <3>1. Collided \in SUBSET {"READY", "NET_BUSY", "TX_RECVD", "16COLLS"}
        BY MacTypes DEF Collided
      <3>2. 0 \in 0 .. BufLen
        BY SizeAssumption
      <3>t. /\ RegType.tx_status = SUBSET {"READY", "NET_BUSY", "TX_RECVD", "16COLLS"}
            /\ RegType.tx_len = 0 .. BufLen /\ RegType.est = EState
            /\ {"tx_status", "tx_len", "est"} \subseteq DOMAIN RegType
        BY RegTypeIs DEF Reg
      <3>u. /\ c.tx_status \in RegType.tx_status /\ c.tx_len \in RegType.tx_len
            /\ c.est \in RegType.est
        BY <3>1, <3>2, <3>t DEF EState
      <3>v. DOMAIN c = {"tx_status", "tx_len", "est"}
        OBVIOUS
      <3> HIDE DEF c
      <3>w. Typed(c, RegType)
        BY <3>t, <3>u, <3>v DEF Typed
      <3> QED BY <3>w DEF c
    <2>5. Typed(mine, RegType)
      <3>1. Padded(EffLen) \in Buf /\ 0 \in Buf
        BY MacTypes, SizeAssumption DEF Padded, EffLen, Buf
      <3>2. (mac.tx_status \cup {"NET_BUSY"}) \ {"TX_RECVD"}
               \in SUBSET {"READY", "NET_BUSY", "TX_RECVD", "16COLLS"}
        BY MacTypes
      <3> QED BY <3>1, <3>2, RegTypeIs DEF Typed, Reg
    <2>6. Typed(other, RegType)
      <3>1. mac.tx_status \ {"TX_RECVD"} \in SUBSET {"READY", "NET_BUSY", "TX_RECVD", "16COLLS"}
        BY MacTypes
      <3> QED BY <3>1, RegTypeIs DEF Typed, Reg
    <2>7. ETxEnd(FALSE) \in {dma_done_tx ++ i, dma_done_tx ++ (mine ++ t),
                             dma_done_tx ++ (other ++ t), dma_done_tx ++ c}
      BY DEF ETxEnd
    <2> HIDE DEF i, t, c, mine, other
    <2>8. Typed(mine ++ t, RegType) /\ Typed(other ++ t, RegType)
      BY <2>3, <2>5, <2>6, TypedOver
    <2> QED BY <2>1, <2>2, <2>4, <2>7, <2>8, TypedOver
  <1> QED BY <1>1, <1>2, <1>3

(* And in the receive states: rx_pos stays inside the buffer.              *)
LEMMA TypedERx ==
  ASSUME TypeInv, NEW m_ack \in BOOLEAN
  PROVE  /\ Typed(ERxWr, RegType)
         /\ mac.est = "E_RX_ACK" => Typed(ERxAck(m_ack), RegType)
         /\ Typed([est |-> "E_RX_WR"], RegType)
         /\ Typed(ERxEnd, RegType)
  <1>1. Typed(dma_done_rx, RegType)
    <2> DEFINE d == [rx_cmp |-> TRUE]
               n == [rx_next |-> mac.rx_start, rx_limit |-> mac.rx_stop, rx_sup |-> FALSE]
               o == [rx_en |-> FALSE]
    <2>1. dma_done_rx = d ++ n \/ dma_done_rx = d ++ o
      BY DEF dma_done_rx
    <2>2. Typed(d, RegType) /\ Typed(o, RegType)
      <3>1. /\ RegType.rx_cmp = BOOLEAN /\ RegType.rx_en = BOOLEAN
            /\ {"rx_cmp", "rx_en"} \subseteq DOMAIN RegType
        BY RegTypeIs DEF Reg
      <3>2. d.rx_cmp \in RegType.rx_cmp /\ o.rx_en \in RegType.rx_en
        BY <3>1
      <3>3. DOMAIN d = {"rx_cmp"} /\ DOMAIN o = {"rx_en"}
        OBVIOUS
      <3> HIDE DEF d, o
      <3> QED BY <3>1, <3>2, <3>3 DEF Typed
    <2>3. Typed(n, RegType)
      <3>t. /\ RegType.rx_next = Addr /\ RegType.rx_limit = Addr
            /\ RegType.rx_sup = BOOLEAN
            /\ {"rx_next", "rx_limit", "rx_sup"} \subseteq DOMAIN RegType
        BY RegTypeIs DEF Reg
      <3>u. /\ n.rx_next \in RegType.rx_next /\ n.rx_limit \in RegType.rx_limit
            /\ n.rx_sup \in RegType.rx_sup
        BY MacTypes, <3>t DEF EState
      <3>v. DOMAIN n = {"rx_next", "rx_limit", "rx_sup"}
        OBVIOUS
      <3> HIDE DEF n
      <3>w. Typed(n, RegType)
        BY <3>t, <3>u, <3>v DEF Typed
      <3> QED BY <3>w DEF n
    <2> HIDE DEF d, n, o
    <2> QED BY <2>1, <2>2, <2>3, TypedOver
  <1>2. Typed(ERxWr, RegType)
    <2>1. Typed([est |-> "E_RX_END"], RegType) /\ Typed([est |-> "E_IDLE"], RegType)
      BY RegTypeIs DEF Typed, EState, Reg
    <2>2. Typed([m_req |-> TRUE, m_we |-> TRUE, m_addr |-> mac.rx_next,
                 m_din |-> mac.pkt_q, est |-> "E_RX_ACK"], RegType)
      <3> DEFINE p == [m_req |-> TRUE, m_we |-> TRUE, m_addr |-> mac.rx_next,
                       m_din |-> mac.pkt_q, est |-> "E_RX_ACK"]
      <3>t. /\ RegType.m_req = BOOLEAN /\ RegType.m_we = BOOLEAN
            /\ RegType.m_addr = Addr /\ RegType.m_din = Byte /\ RegType.est = EState
            /\ {"m_req", "m_we", "m_addr", "m_din", "est"} \subseteq DOMAIN RegType
        BY RegTypeIs DEF Reg
      <3>u. /\ p.m_req \in RegType.m_req /\ p.m_we \in RegType.m_we
            /\ p.m_addr \in RegType.m_addr /\ p.m_din \in RegType.m_din
            /\ p.est \in RegType.est
        BY MacTypes, <3>t DEF EState
      <3>v. DOMAIN p = {"m_req", "m_we", "m_addr", "m_din", "est"}
        OBVIOUS
      <3> HIDE DEF p
      <3>w. Typed(p, RegType)
        BY <3>t, <3>u, <3>v DEF Typed
      <3> QED BY <3>w DEF p
    <2> QED BY <1>1, <2>1, <2>2, TypedOver DEF ERxWr
  <1>3. ASSUME mac.est = "E_RX_ACK"
        PROVE  Typed(ERxAck(m_ack), RegType)
    <2>1. Typed(dma_bus_exception_rx, RegType)
      <3>1. mac.tx_status \ {"NET_BUSY"} \in SUBSET {"READY", "NET_BUSY", "TX_RECVD", "16COLLS"}
        BY MacTypes
      <3>2. 0 \in Buf
        BY SizeAssumption DEF Buf
      <3> DEFINE p == [rx_en |-> FALSE, rx_cmp |-> TRUE, rx_exc |-> TRUE, rx_len |-> 0,
                       rx_pos |-> 0, tx_status |-> mac.tx_status \ {"NET_BUSY"},
                       est |-> "E_IDLE", m_req |-> FALSE]
      <3>t. /\ RegType.rx_en = BOOLEAN /\ RegType.rx_cmp = BOOLEAN
            /\ RegType.rx_exc = BOOLEAN /\ RegType.rx_len = Buf /\ RegType.rx_pos = Buf
            /\ RegType.tx_status = SUBSET {"READY", "NET_BUSY", "TX_RECVD", "16COLLS"}
            /\ RegType.est = EState /\ RegType.m_req = BOOLEAN
            /\ {"rx_en", "rx_cmp", "rx_exc", "rx_len", "rx_pos", "tx_status", "est", "m_req"} \subseteq DOMAIN RegType
        BY RegTypeIs DEF Reg
      <3>u. /\ p.rx_en \in RegType.rx_en /\ p.rx_cmp \in RegType.rx_cmp
            /\ p.rx_exc \in RegType.rx_exc /\ p.rx_len \in RegType.rx_len
            /\ p.rx_pos \in RegType.rx_pos /\ p.tx_status \in RegType.tx_status
            /\ p.est \in RegType.est /\ p.m_req \in RegType.m_req
        BY <3>1, <3>2, <3>t DEF EState
      <3>v. DOMAIN p = {"rx_en", "rx_cmp", "rx_exc", "rx_len", "rx_pos", "tx_status", "est", "m_req"}
        OBVIOUS
      <3> HIDE DEF p
      <3>w. Typed(p, RegType)
        BY <3>t, <3>u, <3>v DEF Typed
      <3> QED BY <3>w DEF p, dma_bus_exception_rx
    <2>2. Typed([m_req |-> FALSE, rx_next |-> mac.rx_next + 1,
                 rx_pos |-> mac.rx_pos + 1, est |-> "E_RX_PRE"], RegType)
      <3>1. mac.rx_next + 1 \in Addr /\ mac.rx_pos + 1 \in Buf
        <4>1. mac.rx_next < AddrTop /\ mac.rx_pos < BufLen + CrcLen
          BY <1>3 DEF TypeInv
        <4>2. mac.rx_next \in Addr /\ mac.rx_pos \in Buf
          BY MacTypes
        <4> QED BY <4>1, <4>2, SizeAssumption DEF Addr, Buf
      <3> DEFINE p == [m_req |-> FALSE, rx_next |-> mac.rx_next + 1,
                       rx_pos |-> mac.rx_pos + 1, est |-> "E_RX_PRE"]
      <3>t. /\ RegType.m_req = BOOLEAN /\ RegType.rx_next = Addr /\ RegType.rx_pos = Buf
            /\ RegType.est = EState
            /\ {"m_req", "rx_next", "rx_pos", "est"} \subseteq DOMAIN RegType
        BY RegTypeIs DEF Reg
      <3>u. /\ p.m_req \in RegType.m_req /\ p.rx_next \in RegType.rx_next
            /\ p.rx_pos \in RegType.rx_pos /\ p.est \in RegType.est
        BY <3>1, <3>t DEF EState
      <3>v. DOMAIN p = {"m_req", "rx_next", "rx_pos", "est"}
        OBVIOUS
      <3> HIDE DEF p
      <3>w. Typed(p, RegType)
        BY <3>t, <3>u, <3>v DEF Typed
      <3> QED BY <3>w DEF p
    <2> QED BY <2>1, <2>2, TypedNone DEF ERxAck
  <1>4. Typed([est |-> "E_RX_WR"], RegType)
    BY RegTypeIs DEF Typed, EState, Reg
  <1>5. Typed(ERxEnd, RegType)
    <2> DEFINE x == [rx_slimit |-> mac.rx_next, rx_status |-> mac.rx_status \cup {"PKT_OK"},
                     tx_status |-> (mac.tx_status \cup {"TX_RECVD"}) \ {"NET_BUSY"},
                     rx_len |-> 0, rx_pos |-> 0, est |-> "E_IDLE"]
    <2>1. /\ (mac.tx_status \cup {"TX_RECVD"}) \ {"NET_BUSY"}
               \in SUBSET {"READY", "NET_BUSY", "TX_RECVD", "16COLLS"}
          /\ mac.rx_status \cup {"PKT_OK"} \in SUBSET {"PKT_OK", "OVERFLOW"}
          /\ 0 \in Buf
      BY MacTypes, SizeAssumption DEF Buf
    <2>2. Typed(x, RegType)
      <3>1. mac.rx_next \in Addr
        BY MacTypes
      <3>t. /\ RegType.rx_slimit = Addr
            /\ RegType.rx_status = SUBSET {"PKT_OK", "OVERFLOW"}
            /\ RegType.tx_status = SUBSET {"READY", "NET_BUSY", "TX_RECVD", "16COLLS"}
            /\ RegType.rx_len = Buf /\ RegType.rx_pos = Buf /\ RegType.est = EState
            /\ {"rx_slimit", "rx_status", "tx_status", "rx_len", "rx_pos", "est"} \subseteq DOMAIN RegType
        BY RegTypeIs DEF Reg
      <3>u. /\ x.rx_slimit \in RegType.rx_slimit
            /\ x.rx_status \in RegType.rx_status
            /\ x.tx_status \in RegType.tx_status /\ x.rx_len \in RegType.rx_len
            /\ x.rx_pos \in RegType.rx_pos /\ x.est \in RegType.est
        BY <2>1, <3>1, <3>t DEF EState
      <3>v. DOMAIN x = {"rx_slimit", "rx_status", "tx_status", "rx_len", "rx_pos", "est"}
        OBVIOUS
      <3> HIDE DEF x
      <3>w. Typed(x, RegType)
        BY <3>t, <3>u, <3>v DEF Typed
      <3> QED BY <3>w DEF x
    <2>3. ERxEnd = dma_done_rx ++ x
      BY DEF ERxEnd
    <2> HIDE DEF x
    <2> QED BY <1>1, <2>2, <2>3, TypedOver
  <1> QED BY <1>2, <1>3, <1>4, <1>5

(* The same value for each register of a set.                              *)
LEMMA TypedOne ==
  ASSUME NEW D \in SUBSET DOMAIN RegType, NEW v, \A x \in D : v \in RegType[x]
  PROVE  Typed([x \in D |-> v], RegType) /\ DOMAIN [x \in D |-> v] = D
  BY DEF Typed

(* A DMA command writes flags of its own channel only.                     *)
LEMMA TypedCsr ==
  ASSUME NEW en, NEW sup, NEW cmp, NEW cmd,
         {en, sup, cmp} \subseteq {"tx_en", "tx_sup", "tx_cmp", "rx_en", "rx_sup", "rx_cmp"}
  PROVE  /\ Typed(CsrCmd(en, sup, cmp, cmd), RegType)
         /\ DOMAIN CsrCmd(en, sup, cmp, cmd) \subseteq {en, sup, cmp}
  <1> DEFINE D == {"tx_en", "tx_sup", "tx_cmp", "rx_en", "rx_sup", "rx_cmp"}
             a == [x \in {cmp} |-> FALSE]
             b == [x \in {en} |-> TRUE]
             c == [x \in {sup} |-> TRUE]
             d == [x \in {en, sup, cmp} |-> FALSE]
             a1 == IF "CLRCOMPLETE" \in cmd THEN a ELSE <<>>
             b1 == IF "SETENABLE" \in cmd THEN b ELSE <<>>
             c1 == IF "SETSUPDATE" \in cmd THEN c ELSE <<>>
             d1 == IF "RESET" \in cmd THEN d ELSE <<>>
  <1>1. D \subseteq DOMAIN RegType /\ \A x \in D : RegType[x] = BOOLEAN
    BY RegTypeIs DEF Reg
  <1>2. {en, sup, cmp} \subseteq D
    OBVIOUS
  <1> HIDE DEF D
  <1>3. Typed(a, RegType) /\ Typed(d, RegType)
    <2>1. \A x \in {en, sup, cmp} : FALSE \in RegType[x]
      BY <1>1, <1>2
    <2>2. {cmp} \in SUBSET DOMAIN RegType /\ {en, sup, cmp} \in SUBSET DOMAIN RegType
      BY <1>1, <1>2
    <2> QED BY <2>1, <2>2, TypedOne
  <1>4. Typed(b, RegType) /\ Typed(c, RegType)
    <2>1. \A x \in {en, sup, cmp} : TRUE \in RegType[x]
      BY <1>1, <1>2
    <2>2. {en} \in SUBSET DOMAIN RegType /\ {sup} \in SUBSET DOMAIN RegType
      BY <1>1, <1>2
    <2> QED BY <2>1, <2>2, TypedOne
  <1>5. DOMAIN a = {cmp} /\ DOMAIN b = {en} /\ DOMAIN c = {sup} /\ DOMAIN d = {en, sup, cmp}
    OBVIOUS
  <1> HIDE DEF a, b, c, d
  <1>6. /\ Typed(a1, RegType) /\ Typed(b1, RegType) /\ Typed(c1, RegType) /\ Typed(d1, RegType)
        /\ DOMAIN a1 \subseteq {cmp} /\ DOMAIN b1 \subseteq {en}
        /\ DOMAIN c1 \subseteq {sup} /\ DOMAIN d1 \subseteq {en, sup, cmp}
    BY <1>3, <1>4, <1>5, TypedNone, NoAssignment
  <1>7. CsrCmd(en, sup, cmp, cmd) = a1 ++ b1 ++ c1 ++ d1
    BY DEF CsrCmd, a, b, c, d
  <1> HIDE DEF a1, b1, c1, d1
  <1>8. Typed(a1 ++ b1 ++ c1 ++ d1, RegType)
    BY <1>6, TypedOver
  <1>9. DOMAIN (a1 ++ b1 ++ c1 ++ d1) \subseteq {en, sup, cmp}
    <2>1. DOMAIN (a1 ++ b1) = DOMAIN a1 \cup DOMAIN b1
      BY ValOver
    <2>2. DOMAIN (a1 ++ b1 ++ c1) = DOMAIN (a1 ++ b1) \cup DOMAIN c1
      BY ValOver
    <2>3. DOMAIN (a1 ++ b1 ++ c1 ++ d1) = DOMAIN (a1 ++ b1 ++ c1) \cup DOMAIN d1
      BY ValOver
    <2> QED BY <1>6, <2>1, <2>2, <2>3
  <1> QED BY <1>7, <1>8, <1>9

(* What a register write of the CPU may do.                                *)
EngineReg == {"est", "rx_pos", "pw", "pkt", "pkt_q", "m_req", "m_we", "m_addr", "m_din"}
ResetWrite(w) == w # None /\ w.reg = "reset" /\ w.v
WriteEff(c, w) ==
    /\ Typed(c, RegType) /\ DOMAIN c \cap EngineReg = {}
    /\ {"tx_len", "rx_len"} \cap DOMAIN c # {} =>
           /\ ResetWrite(w) /\ {"tx_len", "rx_len", "tx_status"} \subseteq DOMAIN c
           /\ c.tx_len = 0 /\ c.rx_len = 0 /\ c.tx_status = {"READY"}
    /\ "tx_status" \in DOMAIN c /\ "rx_len" \notin DOMAIN c =>
           ("NET_BUSY" \in c.tx_status <=> "NET_BUSY" \in mac.tx_status)
    /\ "tx_next" \in DOMAIN c => c.tx_next < AddrTop
    /\ "rx_next" \in DOMAIN c => c.rx_next < AddrTop

(* A CPU write clears the packet only by resetting the controller.         *)
LEMMA Write ==
  ASSUME TypeInv, NEW w \in Writes \cup {None}
  PROVE  WriteEff(CpuWrite(w), w)
  <1>1. CASE w = None
    <2>1. CpuWrite(w) = <<>>
      BY <1>1 DEF CpuWrite
    <2> QED BY <2>1, TypedNone, NoAssignment DEF WriteEff
  <1>2. CASE w # None
    <2>1. DOMAIN w = {"reg", "v"} /\ w.reg \in DOMAIN Writable /\ w.v \in Writable[w.reg]
      BY <1>2, DmaAssumption
    <2>2. CASE w.reg = "tx_csr" \/ w.reg = "rx_csr"
      <3>1. CpuWrite(w) = CsrCmd("tx_en", "tx_sup", "tx_cmp", w.v)
            \/ CpuWrite(w) = CsrCmd("rx_en", "rx_sup", "rx_cmp", w.v)
        BY <1>2, <2>2 DEF CpuWrite
      <3>2. /\ Typed(CpuWrite(w), RegType)
            /\ DOMAIN CpuWrite(w) \subseteq {"tx_en", "tx_sup", "tx_cmp", "rx_en", "rx_sup", "rx_cmp"}
        BY <3>1, TypedCsr
      <3> QED BY <3>2 DEF WriteEff, EngineReg
    <2>3. CASE w.reg = "reset" /\ w.v
      <3> DEFINE r == [stopped |-> TRUE, tx_status |-> {"READY"}, tx_len |-> 0, rx_len |-> 0]
      <3>1. CpuWrite(w) = r
        BY <1>2, <2>3 DEF CpuWrite, MbReset
      <3>2. r.tx_status = {"READY"} /\ r.tx_len = 0 /\ r.rx_len = 0 /\ r.stopped = TRUE
            /\ DOMAIN r = {"stopped", "tx_status", "tx_len", "rx_len"}
        OBVIOUS
      <3>3. /\ RegType.stopped = BOOLEAN /\ {"READY"} \in RegType.tx_status
            /\ 0 \in RegType.tx_len /\ 0 \in RegType.rx_len
            /\ {"stopped", "tx_status", "tx_len", "rx_len"} \subseteq DOMAIN RegType
        BY RegTypeIs, SizeAssumption DEF Reg, Buf
      <3>4. r.stopped \in RegType.stopped
        BY <3>3
      <3> HIDE DEF r
      <3>5. Typed(r, RegType)
        BY <3>2, <3>3, <3>4 DEF Typed
      <3> QED BY <1>2, <2>3, <3>1, <3>2, <3>5 DEF WriteEff, EngineReg, ResetWrite
    <2>4. CASE w.reg = "reset" /\ ~w.v
      <3> DEFINE r == [stopped |-> FALSE]
      <3>1. CpuWrite(w) = r
        BY <1>2, <2>4 DEF CpuWrite, MbReset
      <3>2. "stopped" \in DOMAIN RegType /\ RegType.stopped = BOOLEAN
        BY RegTypeIs DEF Reg
      <3>3. r.stopped \in RegType.stopped
        BY <3>2
      <3>4. DOMAIN r = {"stopped"}
        OBVIOUS
      <3> HIDE DEF r
      <3>5. Typed(r, RegType)
        BY <3>2, <3>3, <3>4 DEF Typed
      <3> QED BY <3>1, <3>4, <3>5 DEF WriteEff, EngineReg
    <2>5. CASE w.reg = "tx_status"
      <3>1. CpuWrite(w) = [x \in {"tx_status"} |-> mac.tx_status \ w.v]
        BY <1>2, <2>5 DEF CpuWrite
      <3>2. w.v \subseteq {"TX_RECVD", "16COLLS"}
        BY <2>1, <2>5 DEF Writable
      <3>3. "tx_status" \in DOMAIN RegType /\ mac.tx_status \ w.v \in RegType.tx_status
        BY MacTypes, RegTypeIs DEF Reg
      <3>4. Typed(CpuWrite(w), RegType) /\ DOMAIN CpuWrite(w) = {"tx_status"}
        <4>1. {"tx_status"} \in SUBSET DOMAIN RegType
          BY <3>3
        <4> QED BY <3>1, <3>3, <4>1, TypedOne
      <3>5. CpuWrite(w)["tx_status"] = mac.tx_status \ w.v
        BY <3>1
      <3> QED BY <3>2, <3>4, <3>5 DEF WriteEff, EngineReg
    <2>6. CASE w.reg = "rx_status"
      <3>1. CpuWrite(w) = [x \in {"rx_status"} |-> mac.rx_status \ w.v]
        BY <1>2, <2>6 DEF CpuWrite
      <3>2. "rx_status" \in DOMAIN RegType /\ mac.rx_status \ w.v \in RegType.rx_status
        BY MacTypes, RegTypeIs DEF Reg
      <3>3. Typed(CpuWrite(w), RegType) /\ DOMAIN CpuWrite(w) = {"rx_status"}
        <4>1. {"rx_status"} \in SUBSET DOMAIN RegType
          BY <3>2
        <4> QED BY <3>1, <3>2, <4>1, TypedOne
      <3> QED BY <3>3 DEF WriteEff, EngineReg
    <2>7. CASE w.reg \in {"enet_mac", "dis_loop", "rx_mode", "tx_next", "tx_limit", "tx_start",
                          "tx_stop", "rx_next", "rx_limit", "rx_start", "rx_stop"}
      <3>1. CpuWrite(w) = [x \in {w.reg} |-> w.v]
        BY <1>2, <2>7 DEF CpuWrite
      <3>2. w.reg \in DOMAIN RegType /\ w.v \in RegType[w.reg]
        <4>1. Pointer \subseteq Addr
          BY SizeAssumption DEF Pointer, Addr
        <4>2. Writable[w.reg] \subseteq RegType[w.reg]
          BY <2>7, <4>1, RegTypeIs DEF Writable
        <4> QED BY <2>1, <2>7, <4>2, RegTypeIs DEF Reg
      <3>3. Typed(CpuWrite(w), RegType) /\ DOMAIN CpuWrite(w) = {w.reg}
        <4>1. {w.reg} \in SUBSET DOMAIN RegType
          BY <3>2
        <4> QED BY <3>1, <3>2, <4>1, TypedOne
      <3>4. w.reg \in {"tx_next", "rx_next"} => w.v < AddrTop
        <4>1. w.reg \in {"tx_next", "rx_next"} => w.v \in Pointer
          BY <2>1 DEF Writable
        <4> QED BY <4>1, SizeAssumption DEF Pointer
      <3>5. CpuWrite(w)[w.reg] = w.v
        BY <3>1
      <3> QED BY <2>7, <3>3, <3>4, <3>5 DEF WriteEff, EngineReg
    <2>8. DOMAIN Writable = {"tx_csr", "rx_csr", "reset", "tx_status", "rx_status", "enet_mac",
             "dis_loop", "rx_mode", "tx_next", "tx_limit", "tx_start", "tx_stop",
             "rx_next", "rx_limit", "rx_start", "rx_stop"}
      BY DEF Writable
    <2> QED BY <2>1, <2>2, <2>3, <2>4, <2>5, <2>6, <2>7, <2>8
  <1> QED BY <1>1, <1>2

-----------------------------------------------------------------------------
(* A clock, as assignments of the engine to what the CPU's write and the   *)
(* packet buffer leave.                                                    *)
Watched == {"est", "tx_status", "tx_len", "rx_len", "rx_pos", "pw", "pkt", "pkt_q",
            "m_req", "m_we", "m_din", "tx_next", "rx_next"}
Within(p, G) == DOMAIN p \cap Watched \subseteq G
Sets(p, x, v) == \A u : Val(p, x, u) = v
Same(r, s, G) == \A x \in Watched \ G : r[x] = s[x]
TxState == {"E_TX_RD", "E_TX_ACK", "E_TX_END"}
Busy(s) == "NET_BUSY" \in s.tx_status

(* What the engine may do to the registers the others look at: p are its   *)
(* assignments.                                                            *)
ToState(p, G, est) == Within(p, G \cup {"est"}) /\ Sets(p, "est", est)
IdlePatch(p) ==
    \/ Within(p, {})
    \/ mac.rx_len # 0 /\ ToState(p, {}, "E_RX_PRE")
    \/ Within(p, {"rx_len", "tx_status"}) /\ Sets(p, "rx_len", 0)
       /\ Sets(p, "tx_status", mac.tx_status \ {"NET_BUSY"})
    \/ mac.rx_len = 0 /\ ToState(p, {}, "E_TX_RD")
TxRdPatch(p) ==
    \/ ToState(p, {}, "E_TX_END")
    \/ /\ mac.tx_next < AddrTop /\ ToState(p, {"m_req", "m_we"}, "E_TX_ACK")
       /\ Sets(p, "m_we", FALSE)
TxAckPatch(p, m_ack, b) ==
    \/ ~m_ack /\ Within(p, {})
    \/ /\ ~m_ack /\ ToState(p, {"tx_len", "m_req"}, "E_IDLE")
       /\ Sets(p, "tx_len", 0) /\ Sets(p, "m_req", FALSE)
    \/ /\ m_ack /\ mac.tx_len < BufLen
       /\ ToState(p, {"m_req", "tx_next", "pw", "tx_len"}, "E_TX_RD") /\ Sets(p, "m_req", FALSE)
       /\ Sets(p, "pw", <<mac.tx_len, b>>) /\ Sets(p, "tx_len", mac.tx_len + 1)
    \/ m_ack /\ ToState(p, {"m_req", "tx_next"}, "E_TX_RD") /\ Sets(p, "m_req", FALSE)
TxEndPatch(p) ==
    \/ ToState(p, {"tx_next"}, "E_IDLE")
    \/ /\ ToState(p, {"tx_next", "tx_status", "rx_len", "rx_pos", "tx_len"}, "E_IDLE")
       /\ Sets(p, "tx_len", 0) /\ Sets(p, "rx_len", Padded(EffLen)) /\ Sets(p, "rx_pos", 0)
       /\ Sets(p, "tx_status", (mac.tx_status \cup {"NET_BUSY"}) \ {"TX_RECVD"})
    \/ /\ ToState(p, {"tx_next", "tx_status", "tx_len"}, "E_IDLE") /\ Sets(p, "tx_len", 0)
       /\ \E st : Sets(p, "tx_status", st) /\ ("NET_BUSY" \in st => Busy(mac))
RxWrPatch(p) ==
    \/ mac.rx_pos >= mac.rx_len /\ ToState(p, {}, "E_RX_END")
    \/ ToState(p, {"rx_next"}, "E_IDLE")
    \/ /\ mac.rx_pos < mac.rx_len /\ mac.rx_next < AddrTop
       /\ ToState(p, {"m_req", "m_we", "m_din"}, "E_RX_ACK")
       /\ Sets(p, "m_we", TRUE) /\ Sets(p, "m_din", mac.pkt_q)
RxAckPatch(p, m_ack) ==
    \/ ~m_ack /\ Within(p, {})
    \/ /\ ~m_ack /\ ToState(p, {"rx_len", "rx_pos", "tx_status", "m_req"}, "E_IDLE")
       /\ Sets(p, "rx_len", 0) /\ Sets(p, "m_req", FALSE)
       /\ Sets(p, "tx_status", mac.tx_status \ {"NET_BUSY"})
    \/ /\ m_ack /\ ToState(p, {"m_req", "rx_pos", "rx_next"}, "E_RX_PRE")
       /\ Sets(p, "m_req", FALSE) /\ Sets(p, "rx_pos", mac.rx_pos + 1)
RxEndPatch(p) ==
    /\ ToState(p, {"rx_next", "tx_status", "rx_len", "rx_pos"}, "E_IDLE")
    /\ Sets(p, "rx_len", 0) /\ Sets(p, "rx_pos", 0)
    /\ Sets(p, "tx_status", (mac.tx_status \cup {"TX_RECVD"}) \ {"NET_BUSY"})

(* Assignments one after the other: what they touch and what they set.     *)
LEMMA WithinOver ==
  ASSUME NEW f, NEW g, NEW F, NEW G, Within(f, F), Within(g, G)
  PROVE  /\ Within(f ++ g, F \cup G)
         /\ \A x, v : Sets(f, x, v) => Sets(f ++ g, x, v)
         /\ \A x, v : x \in Watched \ F /\ Sets(g, x, v) => Sets(f ++ g, x, v)
  <1>0. DOMAIN (f ++ g) = DOMAIN f \cup DOMAIN g
    BY ValOver
  <1>1. \A x, v : Val(f ++ g, x, v) = Val(f, x, Val(g, x, v))
    BY OverIs DEF Val
  <1>2. Within(f ++ g, F \cup G)
    BY <1>0 DEF Within
  <1>3. \A x, v : Sets(f, x, v) => Sets(f ++ g, x, v)
    BY <1>1 DEF Sets
  <1>4. \A x \in Watched \ F : x \notin DOMAIN f
    BY DEF Within
  <1>5. ASSUME NEW x \in Watched \ F, NEW v, Sets(g, x, v)
        PROVE  Sets(f ++ g, x, v)
    BY <1>1, <1>4, <1>5 DEF Sets, Val
  <1> QED BY <1>2, <1>3, <1>5

(* No assignment.                                                          *)
LEMMA WithinNone == Within(<<>>, {})
  BY NoAssignment DEF Within

(* E_IDLE starts a transfer, drops a packet the channel cannot take, or    *)
(* waits.                                                                  *)
LEMMA IdlePatches ==
  ASSUME NEW tick
  PROVE  IdlePatch(EIdle(tick, Unplugged, FALSE))
  <1> DEFINE a == [rx_status |-> mac.rx_status \ {"PKT_OK"}, est |-> "E_RX_PRE"]
             b == [rx_status |-> (mac.rx_status \cup {"OVERFLOW"}) \ {"PKT_OK"},
                   rx_len |-> 0, tx_status |-> mac.tx_status \ {"NET_BUSY"}]
             c == [est |-> "E_TX_RD"]
  <1>1. \/ EIdle(tick, Unplugged, FALSE) = <<>>
        \/ mac.rx_len # 0 /\ EIdle(tick, Unplugged, FALSE) = a
        \/ EIdle(tick, Unplugged, FALSE) = b
        \/ mac.rx_len = 0 /\ EIdle(tick, Unplugged, FALSE) = c
    BY DEF EIdle, Unplugged
  <1>2. ToState(a, {}, "E_RX_PRE") /\ ToState(c, {}, "E_TX_RD")
    BY DEF ToState, Within, Sets, Val, Watched
  <1>3. /\ Within(b, {"rx_len", "tx_status"}) /\ Sets(b, "rx_len", 0)
        /\ Sets(b, "tx_status", mac.tx_status \ {"NET_BUSY"})
    BY DEF Within, Sets, Val, Watched
  <1> HIDE DEF a, b, c
  <1> QED BY <1>1, <1>2, <1>3, WithinNone DEF IdlePatch

(* E_TX_RD requests the next byte of the window or ends it.                *)
LEMMA TxRdPatches ==
  ASSUME TypeInv
  PROVE  TxRdPatch(ETxRd)
  <1> DEFINE a == [est |-> "E_TX_END"]
             b == [m_req |-> TRUE, m_we |-> FALSE, m_addr |-> mac.tx_next, est |-> "E_TX_ACK"]
  <1>1. ToState(a, {}, "E_TX_END")
    BY DEF ToState, Within, Sets, Val, Watched
  <1>2. ToState(b, {"m_req", "m_we"}, "E_TX_ACK") /\ Sets(b, "m_we", FALSE)
    <2>1. DOMAIN b = {"m_req", "m_we", "m_addr", "est"} /\ b.m_we = FALSE /\ b.est = "E_TX_ACK"
      OBVIOUS
    <2> HIDE DEF b
    <2>2. ToState(b, {"m_req", "m_we"}, "E_TX_ACK")
      BY <2>1 DEF ToState, Within, Sets, Val, Watched
    <2>3. Sets(b, "m_we", FALSE)
      BY <2>1 DEF Sets, Val
    <2> QED BY <2>2, <2>3
  <1>3. ~(mac.tx_next >= mac.tx_limit.a) => mac.tx_next < AddrTop
    <2>1. mac.tx_next \in Addr /\ mac.tx_limit.a \in Addr
      BY MacTypes DEF Limit
    <2> QED BY <2>1, SizeAssumption DEF Addr
  <1>4. ETxRd = IF mac.tx_next >= mac.tx_limit.a THEN a ELSE b
    BY DEF ETxRd
  <1> HIDE DEF a, b
  <1> QED BY <1>1, <1>2, <1>3, <1>4 DEF TxRdPatch

(* E_TX_ACK waits, takes the byte answered, or gives up on a bus error.    *)
LEMMA TxAckPatches ==
  ASSUME NEW m_ack \in BOOLEAN, NEW b, m_ack => ~m_err
  PROVE  TxAckPatch(ETxAck(m_ack, b), m_ack, b)
  <1> DEFINE x == dma_bus_exception_tx
             p1 == [pw |-> <<mac.tx_len, b>>, tx_len |-> mac.tx_len + 1]
             q2 == IF mac.tx_len = 0 THEN [dst |-> b] ELSE <<>>
             p3 == [m_req |-> FALSE, tx_next |-> mac.tx_next + 1, est |-> "E_TX_RD"]
  <1>1. ToState(x, {"tx_len", "m_req"}, "E_IDLE") /\ Sets(x, "tx_len", 0) /\ Sets(x, "m_req", FALSE)
    <2>1. DOMAIN x = {"tx_en", "tx_cmp", "tx_exc", "tx_len", "btx_req", "btx_pending", "est", "m_req"}
          /\ x.tx_len = 0 /\ x.est = "E_IDLE" /\ x.m_req = FALSE
      BY DEF dma_bus_exception_tx
    <2> HIDE DEF x
    <2>2. ToState(x, {"tx_len", "m_req"}, "E_IDLE") /\ Sets(x, "tx_len", 0)
      BY <2>1 DEF ToState, Within, Sets, Val, Watched
    <2>3. Sets(x, "m_req", FALSE)
      BY <2>1 DEF Sets, Val
    <2> QED BY <2>2, <2>3
  <1>2. /\ Within(p1, {"pw", "tx_len"}) /\ Sets(p1, "pw", <<mac.tx_len, b>>)
        /\ Sets(p1, "tx_len", mac.tx_len + 1)
    BY DEF Within, Sets, Val
  <1>3. Within(q2, {})
    <2>1. Within([dst |-> b], {})
      BY DEF Within, Watched
    <2> QED BY <2>1, WithinNone
  <1>4. ToState(p3, {"m_req", "tx_next"}, "E_TX_RD") /\ Sets(p3, "m_req", FALSE)
    <2>1. DOMAIN p3 = {"m_req", "tx_next", "est"} /\ p3.est = "E_TX_RD" /\ p3.m_req = FALSE
      OBVIOUS
    <2> HIDE DEF p3
    <2>2. ToState(p3, {"m_req", "tx_next"}, "E_TX_RD")
      BY <2>1 DEF ToState, Within, Sets, Val, Watched
    <2>3. Sets(p3, "m_req", FALSE)
      BY <2>1 DEF Sets, Val
    <2> QED BY <2>2, <2>3
  <1>5. \/ ~m_ack /\ ETxAck(m_ack, b) = x
        \/ ~m_ack /\ ETxAck(m_ack, b) = <<>>
        \/ m_ack /\ mac.tx_len < BufLen /\ ETxAck(m_ack, b) = p1 ++ q2 ++ p3
        \/ m_ack /\ ETxAck(m_ack, b) = <<>> ++ q2 ++ p3
    BY DEF ETxAck
  <1> HIDE DEF x, p1, q2, p3
  <1>6. Within(p3, {"m_req", "tx_next", "est"})
    BY <1>4 DEF ToState, Within
  <1>7. /\ ToState(p1 ++ q2 ++ p3, {"m_req", "tx_next", "pw", "tx_len"}, "E_TX_RD")
        /\ Sets(p1 ++ q2 ++ p3, "m_req", FALSE)
        /\ Sets(p1 ++ q2 ++ p3, "pw", <<mac.tx_len, b>>)
        /\ Sets(p1 ++ q2 ++ p3, "tx_len", mac.tx_len + 1)
    <2> DEFINE y == p1 ++ q2
    <2>1. /\ Within(y, {"pw", "tx_len"} \cup {}) /\ Sets(y, "pw", <<mac.tx_len, b>>)
          /\ Sets(y, "tx_len", mac.tx_len + 1)
      BY <1>2, <1>3, WithinOver
    <2>2. {"est", "m_req"} \subseteq Watched \ ({"pw", "tx_len"} \cup {})
      BY DEF Watched
    <2> HIDE DEF y
    <2>3. Within(y ++ p3, ({"pw", "tx_len"} \cup {}) \cup {"m_req", "tx_next", "est"})
      BY <2>1, <1>6, WithinOver
    <2>4. /\ Sets(y ++ p3, "pw", <<mac.tx_len, b>>) /\ Sets(y ++ p3, "tx_len", mac.tx_len + 1)
      BY <2>1, <1>6, WithinOver
    <2>5. Sets(y ++ p3, "est", "E_TX_RD") /\ Sets(y ++ p3, "m_req", FALSE)
      BY <2>1, <2>2, <1>4, <1>6, WithinOver DEF ToState
    <2> QED BY <2>3, <2>4, <2>5 DEF ToState, Within, y
  <1>8. ToState(<<>> ++ q2 ++ p3, {"m_req", "tx_next"}, "E_TX_RD")
        /\ Sets(<<>> ++ q2 ++ p3, "m_req", FALSE)
    <2> DEFINE y == <<>> ++ q2
    <2>1. Within(y, {} \cup {})
      BY <1>3, WithinNone, WithinOver
    <2>2. {"est", "m_req"} \subseteq Watched \ ({} \cup {})
      BY DEF Watched
    <2> HIDE DEF y
    <2>3. Within(y ++ p3, ({} \cup {}) \cup {"m_req", "tx_next", "est"})
      BY <2>1, <1>6, WithinOver
    <2>5. Sets(y ++ p3, "est", "E_TX_RD") /\ Sets(y ++ p3, "m_req", FALSE)
      BY <2>1, <2>2, <1>4, <1>6, WithinOver DEF ToState
    <2> QED BY <2>3, <2>5 DEF ToState, Within, y
  <1> QED BY <1>1, <1>5, <1>7, <1>8, WithinNone DEF TxAckPatch

(* The end of a window moves only its own channel's pointer.               *)
LEMMA DonePatches == Within(dma_done_tx, {"tx_next"}) /\ Within(dma_done_rx, {"rx_next"})
  <1> DEFINE d == [tx_cmp |-> TRUE]
             n == [tx_next |-> mac.tx_start, tx_limit |-> mac.tx_stop, tx_sup |-> FALSE]
             o == [tx_en |-> FALSE]
             D == [rx_cmp |-> TRUE]
             N == [rx_next |-> mac.rx_start, rx_limit |-> mac.rx_stop, rx_sup |-> FALSE]
             O == [rx_en |-> FALSE]
  <1>1. /\ Within(d, {}) /\ Within(o, {}) /\ Within(D, {}) /\ Within(O, {})
        /\ Within(n, {"tx_next"}) /\ Within(N, {"rx_next"})
    BY DEF Within, Watched
  <1>2. /\ dma_done_tx = d ++ n \/ dma_done_tx = d ++ o
        /\ dma_done_rx = D ++ N \/ dma_done_rx = D ++ O
    BY DEF dma_done_tx, dma_done_rx
  <1> HIDE DEF d, n, o, D, N, O
  <1>3. /\ Within(d ++ n, {} \cup {"tx_next"}) /\ Within(d ++ o, {} \cup {})
        /\ Within(D ++ N, {} \cup {"rx_next"}) /\ Within(D ++ O, {} \cup {})
    BY <1>1, WithinOver
  <1> QED BY <1>2, <1>3 DEF Within

(* E_TX_END goes on with the next window, queues the packet or throws it   *)
(* away.                                                                   *)
LEMMA TxEndPatches == TxEndPatch(ETxEnd(FALSE))
  <1> DEFINE i == [est |-> "E_IDLE"]
             t == [tx_len |-> 0, est |-> "E_IDLE"]
             c == [tx_status |-> Collided, tx_len |-> 0, est |-> "E_IDLE"]
             mine == [tx_status |-> (mac.tx_status \cup {"NET_BUSY"}) \ {"TX_RECVD"},
                      rx_len |-> Padded(EffLen), rx_pos |-> 0]
             other == [tx_status |-> mac.tx_status \ {"TX_RECVD"}]
             d == dma_done_tx
  <1>1. ETxEnd(FALSE) \in {d ++ i, d ++ (mine ++ t), d ++ (other ++ t), d ++ c}
    BY DEF ETxEnd
  <1>2. /\ ToState(i, {}, "E_IDLE")
        /\ ToState(t, {"tx_len"}, "E_IDLE") /\ Sets(t, "tx_len", 0)
        /\ ToState(c, {"tx_status", "tx_len"}, "E_IDLE") /\ Sets(c, "tx_len", 0)
        /\ Sets(c, "tx_status", Collided)
    BY DEF ToState, Within, Sets, Val
  <1>3. /\ Within(mine, {"tx_status", "rx_len", "rx_pos"})
        /\ Sets(mine, "rx_len", Padded(EffLen)) /\ Sets(mine, "rx_pos", 0)
        /\ Sets(mine, "tx_status", (mac.tx_status \cup {"NET_BUSY"}) \ {"TX_RECVD"})
        /\ Within(other, {"tx_status"}) /\ Sets(other, "tx_status", mac.tx_status \ {"TX_RECVD"})
    BY DEF Within, Sets, Val
  <1>4. /\ "NET_BUSY" \notin Collided
        /\ "NET_BUSY" \in mac.tx_status \ {"TX_RECVD"} => Busy(mac)
    BY DEF Collided, Busy
  <1>5. Within(d, {"tx_next"})
    BY DonePatches
  <1>6. {"est", "tx_status", "tx_len", "rx_len", "rx_pos"} \subseteq Watched \ {"tx_next"}
        /\ {"est", "tx_len"} \subseteq Watched \ {"tx_status", "rx_len", "rx_pos"}
    BY DEF Watched
  <1> HIDE DEF i, t, c, mine, other, d
  <1>7. ToState(d ++ i, {"tx_next"}, "E_IDLE")
    <2>1. Within(i, {"est"}) /\ Sets(i, "est", "E_IDLE")
      BY <1>2 DEF ToState, Within
    <2>2. Within(d ++ i, {"tx_next"} \cup {"est"}) /\ Sets(d ++ i, "est", "E_IDLE")
      BY <1>5, <1>6, <2>1, WithinOver
    <2> QED BY <2>2 DEF ToState
  <1>8. /\ ToState(d ++ c, {"tx_next", "tx_status", "tx_len"}, "E_IDLE") /\ Sets(d ++ c, "tx_len", 0)
        /\ Sets(d ++ c, "tx_status", Collided)
    <2>1. Within(c, {"tx_status", "tx_len", "est"}) /\ Sets(c, "est", "E_IDLE")
      BY <1>2 DEF ToState, Within
    <2>2. Within(d ++ c, {"tx_next"} \cup {"tx_status", "tx_len", "est"})
          /\ Sets(d ++ c, "est", "E_IDLE") /\ Sets(d ++ c, "tx_len", 0)
          /\ Sets(d ++ c, "tx_status", Collided)
      BY <1>2, <1>5, <1>6, <2>1, WithinOver
    <2> QED BY <2>2 DEF ToState, Within
  <1>9. Within(t, {"tx_len", "est"}) /\ Sets(t, "est", "E_IDLE")
    BY <1>2 DEF ToState, Within
  <1>10. /\ ToState(d ++ (mine ++ t), {"tx_next", "tx_status", "rx_len", "rx_pos", "tx_len"}, "E_IDLE")
         /\ Sets(d ++ (mine ++ t), "tx_len", 0) /\ Sets(d ++ (mine ++ t), "rx_len", Padded(EffLen))
         /\ Sets(d ++ (mine ++ t), "rx_pos", 0)
         /\ Sets(d ++ (mine ++ t), "tx_status", (mac.tx_status \cup {"NET_BUSY"}) \ {"TX_RECVD"})
    <2> DEFINE y == mine ++ t
    <2>1. /\ Within(y, {"tx_status", "rx_len", "rx_pos"} \cup {"tx_len", "est"})
          /\ Sets(y, "rx_len", Padded(EffLen)) /\ Sets(y, "rx_pos", 0)
          /\ Sets(y, "tx_status", (mac.tx_status \cup {"NET_BUSY"}) \ {"TX_RECVD"})
          /\ Sets(y, "tx_len", 0) /\ Sets(y, "est", "E_IDLE")
      BY <1>2, <1>3, <1>6, <1>9, WithinOver
    <2> HIDE DEF y
    <2>2. /\ Within(d ++ y, {"tx_next"} \cup ({"tx_status", "rx_len", "rx_pos"} \cup {"tx_len", "est"}))
          /\ Sets(d ++ y, "rx_len", Padded(EffLen)) /\ Sets(d ++ y, "rx_pos", 0)
          /\ Sets(d ++ y, "tx_status", (mac.tx_status \cup {"NET_BUSY"}) \ {"TX_RECVD"})
          /\ Sets(d ++ y, "tx_len", 0) /\ Sets(d ++ y, "est", "E_IDLE")
      BY <1>5, <1>6, <2>1, WithinOver
    <2> QED BY <2>2 DEF ToState, Within, y
  <1>11. /\ ToState(d ++ (other ++ t), {"tx_next", "tx_status", "tx_len"}, "E_IDLE")
         /\ Sets(d ++ (other ++ t), "tx_len", 0)
         /\ Sets(d ++ (other ++ t), "tx_status", mac.tx_status \ {"TX_RECVD"})
    <2> DEFINE y == other ++ t
    <2>1. /\ Within(y, {"tx_status"} \cup {"tx_len", "est"})
          /\ Sets(y, "tx_status", mac.tx_status \ {"TX_RECVD"})
          /\ Sets(y, "tx_len", 0) /\ Sets(y, "est", "E_IDLE")
      <3>1. {"est", "tx_len"} \subseteq Watched \ {"tx_status"}
        BY DEF Watched
      <3> QED BY <1>2, <1>3, <1>9, <3>1, WithinOver
    <2> HIDE DEF y
    <2>2. /\ Within(d ++ y, {"tx_next"} \cup ({"tx_status"} \cup {"tx_len", "est"}))
          /\ Sets(d ++ y, "tx_status", mac.tx_status \ {"TX_RECVD"})
          /\ Sets(d ++ y, "tx_len", 0) /\ Sets(d ++ y, "est", "E_IDLE")
      BY <1>5, <1>6, <2>1, WithinOver
    <2> QED BY <2>2 DEF ToState, Within, y
  <1>12. TxEndPatch(d ++ i)
    BY <1>7 DEF TxEndPatch
  <1>13. TxEndPatch(d ++ c)
    <2>1. \E st : Sets(d ++ c, "tx_status", st) /\ ("NET_BUSY" \in st => Busy(mac))
      <3> WITNESS Collided
      <3> QED BY <1>4, <1>8
    <2> QED BY <1>8, <2>1 DEF TxEndPatch
  <1>14. TxEndPatch(d ++ (mine ++ t))
    BY <1>10 DEF TxEndPatch
  <1>15. TxEndPatch(d ++ (other ++ t))
    <2>1. \E st : Sets(d ++ (other ++ t), "tx_status", st) /\ ("NET_BUSY" \in st => Busy(mac))
      <3> WITNESS mac.tx_status \ {"TX_RECVD"}
      <3> QED BY <1>4, <1>11
    <2> QED BY <1>11, <2>1 DEF TxEndPatch
  <1> QED BY <1>1, <1>12, <1>13, <1>14, <1>15

(* E_RX_WR writes the next byte, or finds the packet or the window at its  *)
(* end.                                                                    *)
LEMMA RxWrPatches ==
  ASSUME TypeInv
  PROVE  RxWrPatch(ERxWr)
  <1> DEFINE e == [est |-> "E_RX_END"]
             i == [est |-> "E_IDLE"]
             q == [m_req |-> TRUE, m_we |-> TRUE, m_addr |-> mac.rx_next,
                   m_din |-> mac.pkt_q, est |-> "E_RX_ACK"]
  <1>1. ToState(e, {}, "E_RX_END") /\ ToState(i, {}, "E_IDLE")
    BY DEF ToState, Within, Sets, Val
  <1>2. mac.rx_next \in 0 .. AddrTop /\ mac.rx_limit \in 0 .. AddrTop
        /\ mac.rx_pos \in Int /\ mac.rx_len \in Int
    BY MacTypes, SizeAssumption DEF Addr, Buf
  <1>3. CASE mac.rx_pos >= mac.rx_len
    <2>1. ERxWr = e
      BY <1>3 DEF ERxWr
    <2> QED BY <1>1, <1>3, <2>1 DEF RxWrPatch
  <1>4. CASE ~(mac.rx_pos >= mac.rx_len) /\ mac.rx_next >= mac.rx_limit
    <2>1. ERxWr = dma_done_rx ++ i
      BY <1>4 DEF ERxWr
    <2> HIDE DEF i
    <2>2. Within(i, {"est"}) /\ Sets(i, "est", "E_IDLE") /\ "est" \in Watched \ {"rx_next"}
      BY <1>1 DEF ToState, Within, Watched
    <2>3. Within(dma_done_rx ++ i, {"rx_next"} \cup {"est"}) /\ Sets(dma_done_rx ++ i, "est", "E_IDLE")
      BY <2>2, DonePatches, WithinOver
    <2> QED BY <2>1, <2>3 DEF RxWrPatch, ToState
  <1>5. CASE ~(mac.rx_pos >= mac.rx_len) /\ ~(mac.rx_next >= mac.rx_limit)
    <2>1. ERxWr = q
      BY <1>5 DEF ERxWr
    <2>2. mac.rx_pos < mac.rx_len /\ mac.rx_next < AddrTop
      BY <1>2, <1>5, SizeAssumption
    <2>3. DOMAIN q = {"m_req", "m_we", "m_addr", "m_din", "est"} /\ q.m_we = TRUE
          /\ q.m_din = mac.pkt_q /\ q.est = "E_RX_ACK"
      OBVIOUS
    <2> HIDE DEF q
    <2>4. ToState(q, {"m_req", "m_we", "m_din"}, "E_RX_ACK")
      BY <2>3 DEF ToState, Within, Sets, Val, Watched
    <2>5. Sets(q, "m_we", TRUE)
      BY <2>3 DEF Sets, Val
    <2>6. Sets(q, "m_din", mac.pkt_q)
      BY <2>3 DEF Sets, Val
    <2> QED BY <2>1, <2>2, <2>4, <2>5, <2>6 DEF RxWrPatch
  <1> QED BY <1>3, <1>4, <1>5

(* E_RX_ACK waits, goes on after the answer, or gives up on a bus error.   *)
LEMMA RxAckPatches ==
  ASSUME NEW m_ack \in BOOLEAN, m_ack => ~m_err
  PROVE  RxAckPatch(ERxAck(m_ack), m_ack)
  <1>1. CASE m_err
    <2> DEFINE p == dma_bus_exception_rx
    <2>1. ERxAck(m_ack) = p /\ ~m_ack
      BY <1>1 DEF ERxAck
    <2>2. /\ DOMAIN p = {"rx_en", "rx_cmp", "rx_exc", "rx_len", "rx_pos", "tx_status", "est", "m_req"}
          /\ p.rx_len = 0 /\ p.m_req = FALSE /\ p.est = "E_IDLE"
          /\ p.tx_status = mac.tx_status \ {"NET_BUSY"}
      BY DEF dma_bus_exception_rx
    <2> HIDE DEF p
    <2>3. ToState(p, {"rx_len", "rx_pos", "tx_status", "m_req"}, "E_IDLE")
      BY <2>2 DEF ToState, Within, Sets, Val, Watched
    <2>4. Sets(p, "rx_len", 0)
      BY <2>2 DEF Sets, Val
    <2>5. Sets(p, "m_req", FALSE)
      BY <2>2 DEF Sets, Val
    <2>6. Sets(p, "tx_status", mac.tx_status \ {"NET_BUSY"})
      BY <2>2 DEF Sets, Val
    <2> QED BY <2>1, <2>3, <2>4, <2>5, <2>6 DEF RxAckPatch
  <1>2. CASE ~m_err /\ ~m_ack
    <2>1. ERxAck(m_ack) = <<>>
      BY <1>2 DEF ERxAck
    <2> QED BY <1>2, <2>1, WithinNone DEF RxAckPatch
  <1>3. CASE ~m_err /\ m_ack
    <2> DEFINE p == [m_req |-> FALSE, rx_next |-> mac.rx_next + 1,
                     rx_pos |-> mac.rx_pos + 1, est |-> "E_RX_PRE"]
    <2>1. ERxAck(m_ack) = p
      BY <1>3 DEF ERxAck
    <2>2. /\ DOMAIN p = {"m_req", "rx_next", "rx_pos", "est"}
          /\ p.m_req = FALSE /\ p.rx_pos = mac.rx_pos + 1 /\ p.est = "E_RX_PRE"
      OBVIOUS
    <2> HIDE DEF p
    <2>3. ToState(p, {"m_req", "rx_pos", "rx_next"}, "E_RX_PRE")
      BY <2>2 DEF ToState, Within, Sets, Val, Watched
    <2>4. Sets(p, "m_req", FALSE)
      BY <2>2 DEF Sets, Val
    <2>5. Sets(p, "rx_pos", mac.rx_pos + 1)
      BY <2>2 DEF Sets, Val
    <2> QED BY <1>3, <2>1, <2>3, <2>4, <2>5 DEF RxAckPatch
  <1> QED BY <1>1, <1>2, <1>3

(* E_RX_END reports the packet received and frees the buffer.              *)
LEMMA RxEndPatches == RxEndPatch(ERxEnd)
  <1> DEFINE r == [rx_slimit |-> mac.rx_next, rx_status |-> mac.rx_status \cup {"PKT_OK"},
                   tx_status |-> (mac.tx_status \cup {"TX_RECVD"}) \ {"NET_BUSY"},
                   rx_len |-> 0, rx_pos |-> 0, est |-> "E_IDLE"]
             st == (mac.tx_status \cup {"TX_RECVD"}) \ {"NET_BUSY"}
             d == dma_done_rx
  <1>1. ERxEnd = d ++ r
    BY DEF ERxEnd
  <1>2. /\ DOMAIN r = {"rx_slimit", "rx_status", "tx_status", "rx_len", "rx_pos", "est"}
        /\ r.tx_status = st /\ r.rx_len = 0 /\ r.rx_pos = 0 /\ r.est = "E_IDLE"
    OBVIOUS
  <1>3. Within(d, {"rx_next"})
    BY DonePatches
  <1>4. {"est", "tx_status", "rx_len", "rx_pos"} \subseteq Watched \ {"rx_next"}
    BY DEF Watched
  <1> HIDE DEF r, d, st
  <1>5. Within(r, {"tx_status", "rx_len", "rx_pos", "est"})
    BY <1>2 DEF Within, Watched
  <1>6. Sets(r, "est", "E_IDLE")
    BY <1>2 DEF Sets, Val
  <1>7. Sets(r, "rx_len", 0)
    BY <1>2 DEF Sets, Val
  <1>8. Sets(r, "rx_pos", 0)
    BY <1>2 DEF Sets, Val
  <1>9. Sets(r, "tx_status", st)
    BY <1>2 DEF Sets, Val
  <1>10. Within(d ++ r, {"rx_next"} \cup {"tx_status", "rx_len", "rx_pos", "est"})
    BY <1>3, <1>5, WithinOver
  <1>11. /\ Sets(d ++ r, "est", "E_IDLE") /\ Sets(d ++ r, "rx_len", 0)
         /\ Sets(d ++ r, "rx_pos", 0) /\ Sets(d ++ r, "tx_status", st)
    BY <1>3, <1>4, <1>5, <1>6, <1>7, <1>8, <1>9, WithinOver
  <1>12. ToState(d ++ r, {"rx_next", "tx_status", "rx_len", "rx_pos"}, "E_IDLE")
    BY <1>10, <1>11 DEF ToState, Within
  <1> QED BY <1>1, <1>11, <1>12 DEF RxEndPatch, st

-----------------------------------------------------------------------------
(* The registers after the CPU's write and the packet buffer, before the   *)
(* engine's assignments.                                                   *)
NewPkt == IF mac.pw = None THEN mac.pkt ELSE [mac.pkt EXCEPT ![mac.pw[1]] = mac.pw[2]]
Left(w) == [x \in Reg |-> Val(CpuWrite(w), x, Val(Buffer(Unplugged), x, mac[x]))]
Follows(p, s) == \A x \in Reg : mac'[x] = Val(p, x, s[x])

LeftInv(s, w) ==
    /\ s.est = mac.est /\ s.rx_pos = mac.rx_pos
    /\ s.m_req = mac.m_req /\ s.m_we = mac.m_we /\ s.m_din = mac.m_din
    /\ s.pw = None /\ s.pkt = NewPkt /\ s.pkt_q = mac.pkt[mac.rx_pos]
    /\ mac.tx_next < AddrTop => s.tx_next < AddrTop
    /\ mac.rx_next < AddrTop => s.rx_next < AddrTop
    /\ \/ s.tx_len = mac.tx_len /\ s.rx_len = mac.rx_len /\ (Busy(s) <=> Busy(mac))
       \/ ResetWrite(w) /\ s.tx_len = 0 /\ s.rx_len = 0 /\ ~Busy(s)

(* The buffer's bytes after the write under way.                           *)
LEMMA NewPktType ==
  ASSUME TypeInv
  PROVE  NewPkt \in [Buf -> Byte]
  <1>1. mac.pkt \in [Buf -> Byte] /\ mac.pw \in {None} \cup (Buf \X Byte)
    BY MacTypes DEF PwType
  <1>2. CASE mac.pw = None
    BY <1>1, <1>2 DEF NewPkt
  <1>3. CASE mac.pw # None
    <2>1. mac.pw \in Buf \X Byte
      BY <1>1, <1>3
    <2>2. mac.pw[1] \in Buf /\ mac.pw[2] \in Byte
      BY <2>1
    <2> QED BY <1>1, <1>3, <2>2 DEF NewPkt
  <1> QED BY <1>2, <1>3

(* What the packet buffer does in a clock.                                 *)
LEMMA BufferIs ==
  ASSUME TypeInv, mac.est # "E_BTX"
  PROVE  LET f == Buffer(Unplugged)
         IN  /\ DOMAIN f = {"pkt_q", "pkt", "pw"} /\ Typed(f, RegType)
             /\ f.pkt_q = mac.pkt[mac.rx_pos] /\ f.pkt = NewPkt /\ f.pw = None
  <1> DEFINE f == [pkt_q |-> mac.pkt[mac.rx_pos], pkt |-> NewPkt, pw |-> None]
  <1>1. Buffer(Unplugged) = f
    BY DEF Buffer, NewPkt
  <1>2. /\ DOMAIN f = {"pkt_q", "pkt", "pw"}
        /\ f.pkt_q = mac.pkt[mac.rx_pos] /\ f.pkt = NewPkt /\ f.pw = None
    OBVIOUS
  <1>3. mac.pkt \in [Buf -> Byte] /\ mac.rx_pos \in Buf
    BY MacTypes
  <1>4. NewPkt \in [Buf -> Byte]
    BY NewPktType
  <1>5. mac.pkt[mac.rx_pos] \in Byte
    BY <1>3
  <1>6. /\ RegType.pkt_q = Byte /\ RegType.pkt = [Buf -> Byte] /\ RegType.pw = PwType
        /\ {"pkt_q", "pkt", "pw"} \subseteq DOMAIN RegType
    BY RegTypeIs DEF Reg
  <1>7. None \in PwType
    BY DEF PwType
  <1> HIDE DEF f
  <1>8. Typed(f, RegType)
    BY <1>2, <1>4, <1>5, <1>6, <1>7 DEF Typed
  <1> QED BY <1>1, <1>2, <1>8

(* A clock: the engine's assignments win over all others.                  *)
LEMMA Clocked ==
  ASSUME TypeInv, mac.est # "E_BTX", NEW w \in Writes \cup {None}, NEW e, Typed(e, RegType),
         mac' = e ++ CpuWrite(w) ++ Buffer(Unplugged) ++ mac
  PROVE  DOMAIN mac' = DOMAIN RegType /\ Typed(mac', RegType) /\ Follows(e, Left(w))
  <1> DEFINE c == CpuWrite(w)
             f == Buffer(Unplugged)
  <1>1. Typed(c, RegType) /\ Typed(f, RegType) /\ Typed(mac, RegType)
        /\ DOMAIN mac = DOMAIN RegType
    BY Write, BufferIs DEF WriteEff, TypeInv
  <1> HIDE DEF c, f
  <1>2. mac' = ((e ++ c) ++ f) ++ mac
    BY DEF c, f
  <1>3. Typed(e ++ c, RegType)
    BY <1>1, TypedOver
  <1>4. Typed((e ++ c) ++ f, RegType)
    BY <1>1, <1>3, TypedOver
  <1>5. Typed(mac', RegType)
    BY <1>1, <1>2, <1>4, TypedOver
  <1>6. DOMAIN ((e ++ c) ++ f) \subseteq DOMAIN RegType
    BY <1>4 DEF Typed
  <1>7. DOMAIN mac' = DOMAIN RegType
    BY <1>1, <1>2, <1>6, OverIs
  <1>8. ASSUME NEW x \in Reg
        PROVE  mac'[x] = Val(e, x, Left(w)[x])
    <2>1. x \in DOMAIN mac' /\ x \in DOMAIN mac
      BY <1>1, <1>7, RegTypeIs
    <2>2. mac'[x] = Val(mac', x, 0) /\ Val(mac, x, 0) = mac[x]
      BY <2>1 DEF Val
    <2>3. Val(mac', x, 0) = Val((e ++ c) ++ f, x, mac[x])
      <3> DEFINE g == (e ++ c) ++ f
      <3> HIDE DEF g
      <3>1. mac' = [y \in DOMAIN g \cup DOMAIN mac |-> IF y \in DOMAIN g THEN g[y] ELSE mac[y]]
        BY <1>2, OverIs DEF g
      <3>2. x \in DOMAIN g \cup DOMAIN mac
        BY <2>1
      <3>3. mac'[x] = IF x \in DOMAIN g THEN g[x] ELSE mac[x]
        BY <3>1, <3>2
      <3>4. Val(g, x, mac[x]) = mac'[x]
        BY <3>3 DEF Val
      <3> QED BY <2>2, <3>4 DEF g
    <2>4. Val((e ++ c) ++ f, x, mac[x]) = Val(e ++ c, x, Val(f, x, mac[x]))
      BY OverIs DEF Val
    <2>5. Val(e ++ c, x, Val(f, x, mac[x])) = Val(e, x, Val(c, x, Val(f, x, mac[x])))
      BY OverIs DEF Val
    <2>6. Left(w)[x] = Val(c, x, Val(f, x, mac[x]))
      BY DEF Left, c, f
    <2> QED BY <2>2, <2>3, <2>4, <2>5, <2>6
  <1> QED BY <1>5, <1>7, <1>8 DEF Follows

(* What the CPU's write and the packet buffer leave for the engine.        *)
LEMMA LeftIs ==
  ASSUME TypeInv, mac.est # "E_BTX", NEW w \in Writes \cup {None}
  PROVE  LeftInv(Left(w), w)
  <1> DEFINE c == CpuWrite(w)
             f == Buffer(Unplugged)
             s == Left(w)
  <1>1. WriteEff(c, w)
    BY Write
  <1>2. /\ DOMAIN f = {"pkt_q", "pkt", "pw"}
        /\ f.pkt_q = mac.pkt[mac.rx_pos] /\ f.pkt = NewPkt /\ f.pw = None
    BY BufferIs
  <1>3. \A x \in Reg : s[x] = Val(c, x, Val(f, x, mac[x]))
    BY DEF Left
  <1> HIDE DEF c, f, s
  <1>4. DOMAIN c \cap EngineReg = {}
    BY <1>1 DEF WriteEff
  <1>5. \A x \in EngineReg : s[x] = Val(f, x, mac[x])
    BY <1>3, <1>4 DEF Val, EngineReg, Reg
  <1>6. /\ s.est = mac.est /\ s.rx_pos = mac.rx_pos
        /\ s.m_req = mac.m_req /\ s.m_we = mac.m_we /\ s.m_din = mac.m_din
    BY <1>2, <1>5 DEF Val, EngineReg
  <1>7. s.pw = None /\ s.pkt = NewPkt /\ s.pkt_q = mac.pkt[mac.rx_pos]
    BY <1>2, <1>5 DEF Val, EngineReg
  <1>8. /\ s.tx_next = Val(c, "tx_next", mac.tx_next) /\ s.rx_next = Val(c, "rx_next", mac.rx_next)
        /\ s.tx_len = Val(c, "tx_len", mac.tx_len) /\ s.rx_len = Val(c, "rx_len", mac.rx_len)
        /\ s.tx_status = Val(c, "tx_status", mac.tx_status)
    BY <1>2, <1>3 DEF Val, Reg
  <1>9. /\ mac.tx_next < AddrTop => s.tx_next < AddrTop
        /\ mac.rx_next < AddrTop => s.rx_next < AddrTop
    BY <1>1, <1>8 DEF WriteEff, Val
  <1>10. \/ s.tx_len = mac.tx_len /\ s.rx_len = mac.rx_len /\ (Busy(s) <=> Busy(mac))
         \/ ResetWrite(w) /\ s.tx_len = 0 /\ s.rx_len = 0 /\ ~Busy(s)
    <2>1. CASE {"tx_len", "rx_len"} \cap DOMAIN c # {}
      <3>1. ResetWrite(w) /\ {"tx_len", "rx_len", "tx_status"} \subseteq DOMAIN c
            /\ c.tx_len = 0 /\ c.rx_len = 0 /\ c.tx_status = {"READY"}
        BY <1>1, <2>1 DEF WriteEff
      <3> QED BY <1>8, <3>1 DEF Val, Busy
    <2>2. CASE {"tx_len", "rx_len"} \cap DOMAIN c = {}
      <3>1. s.tx_len = mac.tx_len /\ s.rx_len = mac.rx_len
        BY <1>8, <2>2 DEF Val
      <3>2. Busy(s) <=> Busy(mac)
        BY <1>1, <1>8, <2>2 DEF Val, Busy, WriteEff
      <3> QED BY <3>1, <3>2
    <2> QED BY <2>1, <2>2
  <1> QED BY <1>6, <1>7, <1>9, <1>10 DEF LeftInv, s

-----------------------------------------------------------------------------
(* The invariant of the engine.  A packet is pending exactly if NET_BUSY   *)
(* says so, none is while one is transmitted, and the write port of the    *)
(* buffer is busy only right after a byte was gathered.                    *)
RxState == {"E_RX_PRE", "E_RX_WR", "E_RX_ACK", "E_RX_END"}
EngOf(m) ==
    /\ m.est \notin {"E_BTX", "E_BRX"}
    /\ m.est \in TxState => m.rx_len = 0
    /\ m.pw # None => m.est = "E_TX_RD"
    /\ m.m_req => m.est \in {"E_TX_ACK", "E_RX_ACK"}
    /\ Busy(m) <=> (m.rx_len # 0)
(* What is read ahead of the buffer is its byte at rx_pos.                 *)
PortOf(m) ==
    /\ m.est = "E_TX_ACK" => ~m.m_we
    /\ m.est = "E_RX_WR" => m.pkt_q = m.pkt[m.rx_pos]
    /\ m.est = "E_RX_ACK" => m.m_we /\ m.m_din = m.pkt[m.rx_pos]
(* While a request waits, the pointers leave room for the next byte.       *)
NextOf(m) ==
    /\ m.est = "E_TX_ACK" => m.tx_next < AddrTop
    /\ m.est = "E_RX_ACK" => m.rx_next < AddrTop /\ m.rx_pos < BufLen + CrcLen

(* What a clock may do to the packet being gathered: forget it, keep it,   *)
(* or take one more byte b.                                                *)
GatherEff(b) ==
    \/ mac'.tx_len = 0
    \/ mac'.tx_len = mac.tx_len /\ mac'.pw = None /\ mac'.pkt = NewPkt
    \/ /\ mac.tx_len < BufLen /\ mac'.tx_len = mac.tx_len + 1
       /\ mac'.pw = <<mac.tx_len, b>> /\ mac'.pkt = NewPkt
(* And to the packet being delivered: drop it, queue a new one, deliver    *)
(* one more byte, or keep it.                                              *)
DueEff(s, m_ack) ==
    \/ mac'.rx_len = 0 /\ mac'.est \notin RxState
    \/ /\ mac.est = "E_TX_END" /\ mac'.rx_len = Padded(EffLen) /\ mac'.rx_pos = 0
       /\ mac'.est = "E_IDLE" /\ mac'.pkt = NewPkt
    \/ /\ mac.est = "E_RX_ACK" /\ m_ack /\ mac'.rx_len = s.rx_len
       /\ mac'.rx_pos = mac.rx_pos + 1 /\ mac'.est = "E_RX_PRE" /\ mac'.pkt = NewPkt
    \/ /\ ~m_ack \/ mac.est = "E_TX_ACK"
       /\ mac'.rx_len = s.rx_len /\ mac'.rx_pos = mac.rx_pos /\ mac'.pkt = NewPkt
       /\ mac'.est \in RxState => mac.est \in RxState \/ mac.rx_len # 0
       /\ mac'.est = "E_RX_ACK" => mac.est = "E_RX_ACK" \/ mac.rx_pos < mac.rx_len
       /\ mac'.est = "E_RX_END" => mac.rx_pos >= mac.rx_len
Effects(s, m_ack, b) ==
    /\ EngOf(mac') /\ PortOf(mac') /\ NextOf(mac')
    /\ GatherEff(b) /\ DueEff(s, m_ack)

(* From the engine's assignments to the next values of the registers.      *)
LEMMA Moved ==
  ASSUME NEW p, NEW s, Follows(p, s)
  PROVE  /\ \A G : Within(p, G) => \A x \in Watched \ G : mac'[x] = s[x]
         /\ \A x \in Watched : \A v : Sets(p, x, v) => mac'[x] = v
  <1>1. Watched \subseteq Reg
    BY DEF Watched, Reg
  <1>2. ASSUME NEW G, Within(p, G), NEW x \in Watched \ G
        PROVE  mac'[x] = s[x]
    BY <1>1, <1>2 DEF Within, Follows, Val
  <1>3. ASSUME NEW x \in Watched, NEW v, Sets(p, x, v)
        PROVE  mac'[x] = v
    BY <1>1, <1>3 DEF Sets, Follows
  <1> QED BY <1>2, <1>3

(* The effects of a clock in E_IDLE.                                       *)
LEMMA IdleStep ==
  ASSUME TypeInv, EngOf(mac), mac.est = "E_IDLE",
         NEW w, NEW s, LeftInv(s, w), NEW p, Follows(p, s), IdlePatch(p),
         NEW m_ack \in BOOLEAN, m_ack => mac.m_req, NEW b
  PROVE  Effects(s, m_ack, b)
  <1>1. ~m_ack /\ ~mac.m_req /\ mac.pw = None /\ (Busy(mac) <=> (mac.rx_len # 0))
    BY MacTypes DEF EngOf
  <1>2. /\ s.est = "E_IDLE" /\ s.rx_pos = mac.rx_pos /\ s.m_req = mac.m_req /\ s.pw = None
        /\ s.pkt = NewPkt
        /\ \/ s.tx_len = mac.tx_len /\ s.rx_len = mac.rx_len /\ (Busy(s) <=> Busy(mac))
           \/ s.tx_len = 0 /\ s.rx_len = 0 /\ ~Busy(s)
    BY DEF LeftInv
  <1>3. CASE Within(p, {})
    <2>1. \A x \in Watched : mac'[x] = s[x]
      BY <1>3, Moved
    <2>2. /\ mac'.est = s.est /\ mac'.tx_len = s.tx_len /\ mac'.rx_len = s.rx_len
          /\ mac'.rx_pos = s.rx_pos /\ mac'.pw = s.pw /\ mac'.pkt = s.pkt
          /\ mac'.m_req = s.m_req /\ mac'.tx_status = s.tx_status
      BY <2>1 DEF Watched
    <2>3. EngOf(mac') /\ PortOf(mac') /\ NextOf(mac')
      BY <1>1, <1>2, <2>2 DEF EngOf, PortOf, NextOf, Busy, TxState
    <2>4. GatherEff(b)
      BY <1>1, <1>2, <2>2 DEF GatherEff
    <2>5. DueEff(s, m_ack)
      BY <1>1, <1>2, <2>2 DEF DueEff, RxState
    <2> QED BY <2>3, <2>4, <2>5 DEF Effects
  <1>4. CASE mac.rx_len # 0 /\ ToState(p, {}, "E_RX_PRE")
    <2>1. /\ \A x \in Watched \ ({} \cup {"est"}) : mac'[x] = s[x]
          /\ "est" \in Watched => mac'.est = "E_RX_PRE"
      BY <1>4, Moved DEF ToState
    <2>2. /\ mac'.est = "E_RX_PRE" /\ mac'.tx_len = s.tx_len /\ mac'.rx_len = s.rx_len
          /\ mac'.rx_pos = s.rx_pos /\ mac'.pw = s.pw /\ mac'.pkt = s.pkt
          /\ mac'.m_req = s.m_req /\ mac'.tx_status = s.tx_status
      BY <2>1 DEF Watched
    <2>3. EngOf(mac') /\ PortOf(mac') /\ NextOf(mac')
      BY <1>1, <1>2, <2>2 DEF EngOf, PortOf, NextOf, Busy, TxState
    <2>4. GatherEff(b)
      BY <1>1, <1>2, <2>2 DEF GatherEff
    <2>5. DueEff(s, m_ack)
      BY <1>1, <1>2, <1>4, <2>2 DEF DueEff, RxState
    <2> QED BY <2>3, <2>4, <2>5 DEF Effects
  <1>5. CASE Within(p, {"rx_len", "tx_status"}) /\ Sets(p, "rx_len", 0)
             /\ Sets(p, "tx_status", mac.tx_status \ {"NET_BUSY"})
    <2>1. /\ \A x \in Watched \ {"rx_len", "tx_status"} : mac'[x] = s[x]
          /\ "rx_len" \in Watched => mac'.rx_len = 0
          /\ "tx_status" \in Watched => mac'.tx_status = mac.tx_status \ {"NET_BUSY"}
      BY <1>5, Moved
    <2>2. /\ mac'.est = s.est /\ mac'.tx_len = s.tx_len /\ mac'.rx_len = 0
          /\ mac'.rx_pos = s.rx_pos /\ mac'.pw = s.pw /\ mac'.pkt = s.pkt
          /\ mac'.m_req = s.m_req /\ mac'.tx_status = mac.tx_status \ {"NET_BUSY"}
      BY <2>1 DEF Watched
    <2>3. EngOf(mac') /\ PortOf(mac') /\ NextOf(mac')
      BY <1>1, <1>2, <2>2 DEF EngOf, PortOf, NextOf, Busy, TxState
    <2>4. GatherEff(b)
      BY <1>1, <1>2, <2>2 DEF GatherEff
    <2>5. DueEff(s, m_ack)
      BY <1>1, <1>2, <2>2 DEF DueEff, RxState
    <2> QED BY <2>3, <2>4, <2>5 DEF Effects
  <1>6. CASE mac.rx_len = 0 /\ ToState(p, {}, "E_TX_RD")
    <2>1. /\ \A x \in Watched \ ({} \cup {"est"}) : mac'[x] = s[x]
          /\ "est" \in Watched => mac'.est = "E_TX_RD"
      BY <1>6, Moved DEF ToState
    <2>2. /\ mac'.est = "E_TX_RD" /\ mac'.tx_len = s.tx_len /\ mac'.rx_len = s.rx_len
          /\ mac'.rx_pos = s.rx_pos /\ mac'.pw = s.pw /\ mac'.pkt = s.pkt
          /\ mac'.m_req = s.m_req /\ mac'.tx_status = s.tx_status
      BY <2>1 DEF Watched
    <2>3. EngOf(mac') /\ PortOf(mac') /\ NextOf(mac')
      BY <1>1, <1>2, <1>6, <2>2 DEF EngOf, PortOf, NextOf, Busy, TxState
    <2>4. GatherEff(b)
      BY <1>1, <1>2, <2>2 DEF GatherEff
    <2>5. DueEff(s, m_ack)
      BY <1>1, <1>2, <2>2 DEF DueEff, RxState
    <2> QED BY <2>3, <2>4, <2>5 DEF Effects
  <1> QED BY <1>3, <1>4, <1>5, <1>6 DEF IdlePatch

(* A padded packet is not empty and fits the buffer.                       *)
LEMMA PaddedIs ==
  /\ \A n \in 0 .. BufLen : Padded(n) \in Buf /\ Padded(n) # 0 /\ n <= Padded(n)
  /\ TypeInv => EffLen \in 0 .. mac.tx_len /\ EffLen \in 0 .. BufLen
  <1>1. \A n \in 0 .. BufLen : Padded(n) \in Buf /\ Padded(n) # 0 /\ n <= Padded(n)
    BY SizeAssumption DEF Padded, Buf
  <1>2. ASSUME TypeInv
        PROVE  EffLen \in 0 .. mac.tx_len /\ EffLen \in 0 .. BufLen
    <2>1. mac.tx_len \in 0 .. BufLen
      BY <1>2, MacTypes
    <2> QED BY <2>1, SizeAssumption DEF EffLen
  <1> QED BY <1>1, <1>2

(* The effects of a clock in E_TX_RD.                                      *)
LEMMA TxRdStep ==
  ASSUME TypeInv, EngOf(mac), PortOf(mac), mac.est = "E_TX_RD",
         NEW w, NEW s, LeftInv(s, w), NEW m_ack \in BOOLEAN, m_ack => mac.m_req,
         NEW b, NEW p, Follows(p, s), TxRdPatch(p)
  PROVE  Effects(s, m_ack, b)
  <1>1. ~m_ack /\ ~mac.m_req /\ mac.rx_len = 0 /\ (Busy(mac) <=> (mac.rx_len # 0))
    BY MacTypes DEF EngOf, PortOf, TxState, TypeInv
  <1>2. /\ s.est = mac.est /\ s.rx_pos = mac.rx_pos /\ s.m_req = mac.m_req /\ s.m_we = mac.m_we
        /\ s.m_din = mac.m_din /\ s.pw = None /\ s.pkt = NewPkt /\ s.pkt_q = mac.pkt[mac.rx_pos]
        /\ mac.tx_next < AddrTop => s.tx_next < AddrTop
        /\ mac.rx_next < AddrTop => s.rx_next < AddrTop
        /\ \/ s.tx_len = mac.tx_len /\ s.rx_len = mac.rx_len /\ (Busy(s) <=> Busy(mac))
           \/ s.tx_len = 0 /\ s.rx_len = 0 /\ ~Busy(s)
    BY DEF LeftInv
  <1>3. CASE ToState(p, {}, "E_TX_END")
    <2>1. /\ \A x \in Watched \ ({} \cup {"est"}) : mac'[x] = s[x]
          /\ "est" \in Watched => mac'.est = "E_TX_END"
      BY <1>3, Moved DEF ToState
    <2>2. /\ mac'.est = "E_TX_END" /\ mac'.tx_len = s.tx_len /\ mac'.rx_len = s.rx_len
          /\ mac'.rx_pos = s.rx_pos /\ mac'.pw = s.pw /\ mac'.pkt = s.pkt
          /\ mac'.pkt_q = s.pkt_q /\ mac'.m_req = s.m_req /\ mac'.m_we = s.m_we
          /\ mac'.m_din = s.m_din /\ mac'.tx_status = s.tx_status
          /\ mac'.tx_next = s.tx_next /\ mac'.rx_next = s.rx_next
      BY <2>1 DEF Watched
    <2>3. EngOf(mac')
      BY <1>1, <1>2, <1>3, <2>2 DEF EngOf, Busy, TxState
    <2>4. PortOf(mac') /\ NextOf(mac')
      BY <1>1, <1>2, <1>3, <2>2 DEF PortOf, NextOf, NewPkt
    <2>5. GatherEff(b)
      BY <1>1, <1>2, <1>3, <2>2 DEF GatherEff
    <2>6. DueEff(s, m_ack)
      BY <1>1, <1>2, <1>3, <2>2 DEF DueEff, RxState
    <2> QED BY <2>3, <2>4, <2>5, <2>6 DEF Effects
  <1>4. CASE /\ mac.tx_next < AddrTop /\ ToState(p, {"m_req", "m_we"}, "E_TX_ACK")
             /\ Sets(p, "m_we", FALSE)
    <2>1. /\ \A x \in Watched \ ({"m_req", "m_we"} \cup {"est"}) : mac'[x] = s[x]
          /\ "est" \in Watched => mac'.est = "E_TX_ACK"
          /\ "m_we" \in Watched => mac'.m_we = FALSE
      BY <1>4, Moved DEF ToState
    <2>2. /\ mac'.est = "E_TX_ACK" /\ mac'.tx_len = s.tx_len /\ mac'.rx_len = s.rx_len
          /\ mac'.rx_pos = s.rx_pos /\ mac'.pw = s.pw /\ mac'.pkt = s.pkt
          /\ mac'.pkt_q = s.pkt_q /\ mac'.m_we = FALSE /\ mac'.m_din = s.m_din
          /\ mac'.tx_status = s.tx_status /\ mac'.tx_next = s.tx_next
          /\ mac'.rx_next = s.rx_next
      BY <2>1 DEF Watched
    <2>3. EngOf(mac')
      BY <1>1, <1>2, <1>4, <2>2 DEF EngOf, Busy, TxState
    <2>4. PortOf(mac') /\ NextOf(mac')
      BY <1>1, <1>2, <1>4, <2>2 DEF PortOf, NextOf, NewPkt
    <2>5. GatherEff(b)
      BY <1>1, <1>2, <1>4, <2>2 DEF GatherEff
    <2>6. DueEff(s, m_ack)
      BY <1>1, <1>2, <1>4, <2>2 DEF DueEff, RxState
    <2> QED BY <2>3, <2>4, <2>5, <2>6 DEF Effects
  <1> QED BY <1>3, <1>4 DEF TxRdPatch

(* The effects of a clock in E_TX_ACK.                                     *)
LEMMA TxAckStep ==
  ASSUME TypeInv, EngOf(mac), PortOf(mac), mac.est = "E_TX_ACK",
         NEW w, NEW s, LeftInv(s, w), NEW m_ack \in BOOLEAN, m_ack => mac.m_req,
         NEW b, NEW p, Follows(p, s), TxAckPatch(p, m_ack, b)
  PROVE  Effects(s, m_ack, b)
  <1>1. /\ mac.rx_len = 0 /\ mac.pw = None /\ ~mac.m_we /\ (Busy(mac) <=> (mac.rx_len # 0))
        /\ mac.tx_next < AddrTop
    BY MacTypes DEF EngOf, PortOf, TxState, TypeInv
  <1>2. /\ s.est = mac.est /\ s.rx_pos = mac.rx_pos /\ s.m_req = mac.m_req /\ s.m_we = mac.m_we
        /\ s.m_din = mac.m_din /\ s.pw = None /\ s.pkt = NewPkt /\ s.pkt_q = mac.pkt[mac.rx_pos]
        /\ mac.tx_next < AddrTop => s.tx_next < AddrTop
        /\ mac.rx_next < AddrTop => s.rx_next < AddrTop
        /\ \/ s.tx_len = mac.tx_len /\ s.rx_len = mac.rx_len /\ (Busy(s) <=> Busy(mac))
           \/ s.tx_len = 0 /\ s.rx_len = 0 /\ ~Busy(s)
    BY DEF LeftInv
  <1>3. CASE ~m_ack /\ Within(p, {})
    <2>1. /\ \A x \in Watched \ {} : mac'[x] = s[x]
      BY <1>3, Moved DEF ToState
    <2>2. /\ mac'.est = s.est /\ mac'.tx_len = s.tx_len /\ mac'.rx_len = s.rx_len
          /\ mac'.rx_pos = s.rx_pos /\ mac'.pw = s.pw /\ mac'.pkt = s.pkt
          /\ mac'.pkt_q = s.pkt_q /\ mac'.m_req = s.m_req /\ mac'.m_we = s.m_we
          /\ mac'.m_din = s.m_din /\ mac'.tx_status = s.tx_status
          /\ mac'.tx_next = s.tx_next /\ mac'.rx_next = s.rx_next
      BY <2>1 DEF Watched
    <2>3. EngOf(mac')
      BY <1>1, <1>2, <1>3, <2>2 DEF EngOf, Busy, TxState
    <2>4. PortOf(mac') /\ NextOf(mac')
      BY <1>1, <1>2, <1>3, <2>2 DEF PortOf, NextOf, NewPkt
    <2>5. GatherEff(b)
      BY <1>1, <1>2, <1>3, <2>2 DEF GatherEff
    <2>6. DueEff(s, m_ack)
      BY <1>1, <1>2, <1>3, <2>2 DEF DueEff, RxState
    <2> QED BY <2>3, <2>4, <2>5, <2>6 DEF Effects
  <1>4. CASE /\ ~m_ack /\ ToState(p, {"tx_len", "m_req"}, "E_IDLE")
             /\ Sets(p, "tx_len", 0) /\ Sets(p, "m_req", FALSE)
    <2>1. /\ \A x \in Watched \ ({"tx_len", "m_req"} \cup {"est"}) : mac'[x] = s[x]
          /\ "est" \in Watched => mac'.est = "E_IDLE"
          /\ "tx_len" \in Watched => mac'.tx_len = 0
          /\ "m_req" \in Watched => mac'.m_req = FALSE
      BY <1>4, Moved DEF ToState
    <2>2. /\ mac'.est = "E_IDLE" /\ mac'.tx_len = 0 /\ mac'.rx_len = s.rx_len
          /\ mac'.rx_pos = s.rx_pos /\ mac'.pw = s.pw /\ mac'.pkt = s.pkt
          /\ mac'.pkt_q = s.pkt_q /\ mac'.m_req = FALSE /\ mac'.m_we = s.m_we
          /\ mac'.m_din = s.m_din /\ mac'.tx_status = s.tx_status
          /\ mac'.tx_next = s.tx_next /\ mac'.rx_next = s.rx_next
      BY <2>1 DEF Watched
    <2>3. EngOf(mac')
      BY <1>1, <1>2, <1>4, <2>2 DEF EngOf, Busy, TxState
    <2>4. PortOf(mac') /\ NextOf(mac')
      BY <1>1, <1>2, <1>4, <2>2 DEF PortOf, NextOf, NewPkt
    <2>5. GatherEff(b)
      BY <1>1, <1>2, <1>4, <2>2 DEF GatherEff
    <2>6. DueEff(s, m_ack)
      BY <1>1, <1>2, <1>4, <2>2 DEF DueEff, RxState
    <2> QED BY <2>3, <2>4, <2>5, <2>6 DEF Effects
  <1>5. CASE /\ m_ack /\ mac.tx_len < BufLen
             /\ ToState(p, {"m_req", "tx_next", "pw", "tx_len"}, "E_TX_RD") /\ Sets(p, "m_req", FALSE)
             /\ Sets(p, "pw", <<mac.tx_len, b>>) /\ Sets(p, "tx_len", mac.tx_len + 1)
    <2>1. /\ \A x \in Watched \ ({"m_req", "tx_next", "pw", "tx_len"} \cup {"est"}) : mac'[x] = s[x]
          /\ "est" \in Watched => mac'.est = "E_TX_RD"
          /\ "m_req" \in Watched => mac'.m_req = FALSE
          /\ "pw" \in Watched => mac'.pw = <<mac.tx_len, b>>
          /\ "tx_len" \in Watched => mac'.tx_len = mac.tx_len + 1
      <3>1. \A x \in Watched \ ({"m_req", "tx_next", "pw", "tx_len"} \cup {"est"}) : mac'[x] = s[x]
        BY <1>5, Moved DEF ToState
      <3>2. "est" \in Watched => mac'.est = "E_TX_RD"
        BY <1>5, Moved DEF ToState
      <3>3. "m_req" \in Watched => mac'.m_req = FALSE
        BY <1>5, Moved
      <3>4. "pw" \in Watched => mac'.pw = <<mac.tx_len, b>>
        BY <1>5, Moved
      <3>5. "tx_len" \in Watched => mac'.tx_len = mac.tx_len + 1
        BY <1>5, Moved
      <3> QED BY <3>1, <3>2, <3>3, <3>4, <3>5
    <2>2. /\ mac'.est = "E_TX_RD" /\ mac'.tx_len = mac.tx_len + 1
          /\ mac'.rx_len = s.rx_len /\ mac'.rx_pos = s.rx_pos
          /\ mac'.pw = <<mac.tx_len, b>> /\ mac'.pkt = s.pkt /\ mac'.pkt_q = s.pkt_q
          /\ mac'.m_req = FALSE /\ mac'.m_we = s.m_we /\ mac'.m_din = s.m_din
          /\ mac'.tx_status = s.tx_status /\ mac'.rx_next = s.rx_next
      BY <2>1 DEF Watched
    <2>3. EngOf(mac')
      BY <1>1, <1>2, <1>5, <2>2 DEF EngOf, Busy, TxState
    <2>4. PortOf(mac') /\ NextOf(mac')
      BY <1>1, <1>2, <1>5, <2>2 DEF PortOf, NextOf, NewPkt
    <2>5. GatherEff(b)
      BY <1>1, <1>2, <1>5, <2>2 DEF GatherEff
    <2>6. DueEff(s, m_ack)
      BY <1>1, <1>2, <1>5, <2>2 DEF DueEff, RxState
    <2> QED BY <2>3, <2>4, <2>5, <2>6 DEF Effects
  <1>6. CASE m_ack /\ ToState(p, {"m_req", "tx_next"}, "E_TX_RD") /\ Sets(p, "m_req", FALSE)
    <2>1. /\ \A x \in Watched \ ({"m_req", "tx_next"} \cup {"est"}) : mac'[x] = s[x]
          /\ "est" \in Watched => mac'.est = "E_TX_RD"
          /\ "m_req" \in Watched => mac'.m_req = FALSE
      BY <1>6, Moved DEF ToState
    <2>2. /\ mac'.est = "E_TX_RD" /\ mac'.tx_len = s.tx_len /\ mac'.rx_len = s.rx_len
          /\ mac'.rx_pos = s.rx_pos /\ mac'.pw = s.pw /\ mac'.pkt = s.pkt
          /\ mac'.pkt_q = s.pkt_q /\ mac'.m_req = FALSE /\ mac'.m_we = s.m_we
          /\ mac'.m_din = s.m_din /\ mac'.tx_status = s.tx_status
          /\ mac'.rx_next = s.rx_next
      BY <2>1 DEF Watched
    <2>3. EngOf(mac')
      BY <1>1, <1>2, <1>6, <2>2 DEF EngOf, Busy, TxState
    <2>4. PortOf(mac') /\ NextOf(mac')
      BY <1>1, <1>2, <1>6, <2>2 DEF PortOf, NextOf, NewPkt
    <2>5. GatherEff(b)
      BY <1>1, <1>2, <1>6, <2>2 DEF GatherEff
    <2>6. DueEff(s, m_ack)
      BY <1>1, <1>2, <1>6, <2>2 DEF DueEff, RxState
    <2> QED BY <2>3, <2>4, <2>5, <2>6 DEF Effects
  <1> QED BY <1>3, <1>4, <1>5, <1>6 DEF TxAckPatch

(* The effects of a clock in E_TX_END.                                     *)
LEMMA TxEndStep ==
  ASSUME TypeInv, EngOf(mac), PortOf(mac), mac.est = "E_TX_END",
         NEW w, NEW s, LeftInv(s, w), NEW m_ack \in BOOLEAN, m_ack => mac.m_req,
         NEW b, NEW p, Follows(p, s), TxEndPatch(p)
  PROVE  Effects(s, m_ack, b)
  <1>1. ~m_ack /\ ~mac.m_req /\ mac.rx_len = 0 /\ mac.pw = None /\ (Busy(mac) <=> (mac.rx_len # 0))
    BY MacTypes DEF EngOf, PortOf, TxState, TypeInv
  <1>2. /\ s.est = mac.est /\ s.rx_pos = mac.rx_pos /\ s.m_req = mac.m_req /\ s.m_we = mac.m_we
        /\ s.m_din = mac.m_din /\ s.pw = None /\ s.pkt = NewPkt /\ s.pkt_q = mac.pkt[mac.rx_pos]
        /\ mac.tx_next < AddrTop => s.tx_next < AddrTop
        /\ mac.rx_next < AddrTop => s.rx_next < AddrTop
        /\ \/ s.tx_len = mac.tx_len /\ s.rx_len = mac.rx_len /\ (Busy(s) <=> Busy(mac))
           \/ s.tx_len = 0 /\ s.rx_len = 0 /\ ~Busy(s)
    BY DEF LeftInv
  <1>3. CASE ToState(p, {"tx_next"}, "E_IDLE")
    <2>1. /\ \A x \in Watched \ ({"tx_next"} \cup {"est"}) : mac'[x] = s[x]
          /\ "est" \in Watched => mac'.est = "E_IDLE"
      BY <1>3, Moved DEF ToState
    <2>2. /\ mac'.est = "E_IDLE" /\ mac'.tx_len = s.tx_len /\ mac'.rx_len = s.rx_len
          /\ mac'.rx_pos = s.rx_pos /\ mac'.pw = s.pw /\ mac'.pkt = s.pkt
          /\ mac'.pkt_q = s.pkt_q /\ mac'.m_req = s.m_req /\ mac'.m_we = s.m_we
          /\ mac'.m_din = s.m_din /\ mac'.tx_status = s.tx_status
          /\ mac'.rx_next = s.rx_next
      BY <2>1 DEF Watched
    <2>3. EngOf(mac')
      BY <1>1, <1>2, <1>3, <2>2 DEF EngOf, Busy, TxState
    <2>4. PortOf(mac') /\ NextOf(mac')
      BY <1>1, <1>2, <1>3, <2>2 DEF PortOf, NextOf, NewPkt
    <2>5. GatherEff(b)
      BY <1>1, <1>2, <1>3, <2>2 DEF GatherEff
    <2>6. DueEff(s, m_ack)
      BY <1>1, <1>2, <1>3, <2>2 DEF DueEff, RxState
    <2> QED BY <2>3, <2>4, <2>5, <2>6 DEF Effects
  <1>4. CASE /\ ToState(p, {"tx_next", "tx_status", "rx_len", "rx_pos", "tx_len"}, "E_IDLE")
             /\ Sets(p, "tx_len", 0) /\ Sets(p, "rx_len", Padded(EffLen)) /\ Sets(p, "rx_pos", 0)
             /\ Sets(p, "tx_status", (mac.tx_status \cup {"NET_BUSY"}) \ {"TX_RECVD"})
    <2>1. /\ \A x \in Watched \ ({"tx_next", "tx_status", "rx_len", "rx_pos", "tx_len"} \cup {"est"}) : mac'[x] = s[x]
          /\ "est" \in Watched => mac'.est = "E_IDLE"
          /\ "tx_len" \in Watched => mac'.tx_len = 0
          /\ "rx_len" \in Watched => mac'.rx_len = Padded(EffLen)
          /\ "rx_pos" \in Watched => mac'.rx_pos = 0
          /\ "tx_status" \in Watched => mac'.tx_status = (mac.tx_status \cup {"NET_BUSY"}) \ {"TX_RECVD"}
      <3>1. \A x \in Watched \ ({"tx_next", "tx_status", "rx_len", "rx_pos", "tx_len"} \cup {"est"}) : mac'[x] = s[x]
        BY <1>4, Moved DEF ToState
      <3>2. "est" \in Watched => mac'.est = "E_IDLE"
        BY <1>4, Moved DEF ToState
      <3>3. "tx_len" \in Watched => mac'.tx_len = 0
        BY <1>4, Moved
      <3>4. "rx_len" \in Watched => mac'.rx_len = Padded(EffLen)
        BY <1>4, Moved
      <3>5. "rx_pos" \in Watched => mac'.rx_pos = 0
        BY <1>4, Moved
      <3>6. "tx_status" \in Watched => mac'.tx_status = (mac.tx_status \cup {"NET_BUSY"}) \ {"TX_RECVD"}
        BY <1>4, Moved
      <3> QED BY <3>1, <3>2, <3>3, <3>4, <3>5, <3>6
    <2>2. /\ mac'.est = "E_IDLE" /\ mac'.tx_len = 0 /\ mac'.rx_len = Padded(EffLen)
          /\ mac'.rx_pos = 0 /\ mac'.pw = s.pw /\ mac'.pkt = s.pkt
          /\ mac'.pkt_q = s.pkt_q /\ mac'.m_req = s.m_req /\ mac'.m_we = s.m_we
          /\ mac'.m_din = s.m_din
          /\ mac'.tx_status = (mac.tx_status \cup {"NET_BUSY"}) \ {"TX_RECVD"}
          /\ mac'.rx_next = s.rx_next
      BY <2>1 DEF Watched
    <2>7. Padded(EffLen) # 0
      BY PaddedIs
    <2>3. EngOf(mac')
      BY <1>1, <1>2, <1>4, <2>2, <2>7 DEF EngOf, Busy, TxState
    <2>4. PortOf(mac') /\ NextOf(mac')
      BY <1>1, <1>2, <1>4, <2>2, <2>7 DEF PortOf, NextOf, NewPkt
    <2>5. GatherEff(b)
      BY <1>1, <1>2, <1>4, <2>2, <2>7 DEF GatherEff
    <2>6. DueEff(s, m_ack)
      BY <1>1, <1>2, <1>4, <2>2, <2>7 DEF DueEff, RxState
    <2> QED BY <2>3, <2>4, <2>5, <2>6 DEF Effects
  <1>5. CASE /\ ToState(p, {"tx_next", "tx_status", "tx_len"}, "E_IDLE") /\ Sets(p, "tx_len", 0)
             /\ \E st : Sets(p, "tx_status", st) /\ ("NET_BUSY" \in st => Busy(mac))
    <2>0. PICK st : Sets(p, "tx_status", st) /\ ("NET_BUSY" \in st => Busy(mac))
      BY <1>5
    <2>1. /\ \A x \in Watched \ ({"tx_next", "tx_status", "tx_len"} \cup {"est"}) : mac'[x] = s[x]
          /\ "est" \in Watched => mac'.est = "E_IDLE"
          /\ "tx_len" \in Watched => mac'.tx_len = 0
          /\ "tx_status" \in Watched => mac'.tx_status = st
      BY <1>5, <2>0, Moved DEF ToState
    <2>2. /\ mac'.est = "E_IDLE" /\ mac'.tx_len = 0 /\ mac'.rx_len = s.rx_len
          /\ mac'.rx_pos = s.rx_pos /\ mac'.pw = s.pw /\ mac'.pkt = s.pkt
          /\ mac'.pkt_q = s.pkt_q /\ mac'.m_req = s.m_req /\ mac'.m_we = s.m_we
          /\ mac'.m_din = s.m_din /\ mac'.tx_status = st /\ mac'.rx_next = s.rx_next
      BY <2>1 DEF Watched
    <2>3. EngOf(mac')
      BY <1>1, <1>2, <1>5, <2>2, <2>0 DEF EngOf, Busy, TxState
    <2>4. PortOf(mac') /\ NextOf(mac')
      BY <1>1, <1>2, <1>5, <2>2, <2>0 DEF PortOf, NextOf, NewPkt
    <2>5. GatherEff(b)
      BY <1>1, <1>2, <1>5, <2>2, <2>0 DEF GatherEff
    <2>6. DueEff(s, m_ack)
      BY <1>1, <1>2, <1>5, <2>2, <2>0 DEF DueEff, RxState
    <2> QED BY <2>3, <2>4, <2>5, <2>6 DEF Effects
  <1> QED BY <1>3, <1>4, <1>5 DEF TxEndPatch

(* The effects of a clock in E_RX_PRE, when the buffer is read.            *)
LEMMA RxPreStep ==
  ASSUME TypeInv, EngOf(mac), PortOf(mac), mac.est = "E_RX_PRE",
         NEW w, NEW s, LeftInv(s, w), NEW m_ack \in BOOLEAN, m_ack => mac.m_req,
         NEW b, NEW p, Follows(p, s), Within(p, {"est"}) /\ Sets(p, "est", "E_RX_WR")
  PROVE  Effects(s, m_ack, b)
  <1>1. ~m_ack /\ ~mac.m_req /\ mac.pw = None /\ (Busy(mac) <=> (mac.rx_len # 0))
    BY MacTypes DEF EngOf, PortOf, TxState, TypeInv
  <1>2. /\ s.est = mac.est /\ s.rx_pos = mac.rx_pos /\ s.m_req = mac.m_req /\ s.m_we = mac.m_we
        /\ s.m_din = mac.m_din /\ s.pw = None /\ s.pkt = NewPkt /\ s.pkt_q = mac.pkt[mac.rx_pos]
        /\ mac.tx_next < AddrTop => s.tx_next < AddrTop
        /\ mac.rx_next < AddrTop => s.rx_next < AddrTop
        /\ \/ s.tx_len = mac.tx_len /\ s.rx_len = mac.rx_len /\ (Busy(s) <=> Busy(mac))
           \/ s.tx_len = 0 /\ s.rx_len = 0 /\ ~Busy(s)
    BY DEF LeftInv
  <1>3. CASE TRUE
    <2>1. /\ \A x \in Watched \ {"est"} : mac'[x] = s[x]
          /\ "est" \in Watched => mac'.est = "E_RX_WR"
      BY <1>3, Moved DEF ToState
    <2>2. /\ mac'.est = "E_RX_WR" /\ mac'.tx_len = s.tx_len /\ mac'.rx_len = s.rx_len
          /\ mac'.rx_pos = s.rx_pos /\ mac'.pw = s.pw /\ mac'.pkt = s.pkt
          /\ mac'.pkt_q = s.pkt_q /\ mac'.m_req = s.m_req /\ mac'.m_we = s.m_we
          /\ mac'.m_din = s.m_din /\ mac'.tx_status = s.tx_status
          /\ mac'.tx_next = s.tx_next /\ mac'.rx_next = s.rx_next
      BY <2>1 DEF Watched
    <2>3. EngOf(mac')
      BY <1>1, <1>2, <1>3, <2>2 DEF EngOf, Busy, TxState
    <2>4. PortOf(mac') /\ NextOf(mac')
      BY <1>1, <1>2, <1>3, <2>2 DEF PortOf, NextOf, NewPkt
    <2>5. GatherEff(b)
      BY <1>1, <1>2, <1>3, <2>2 DEF GatherEff
    <2>6. DueEff(s, m_ack)
      BY <1>1, <1>2, <1>3, <2>2 DEF DueEff, RxState
    <2> QED BY <2>3, <2>4, <2>5, <2>6 DEF Effects
  <1> QED BY <1>3

(* The effects of a clock in E_RX_WR.                                      *)
LEMMA RxWrStep ==
  ASSUME TypeInv, EngOf(mac), PortOf(mac), mac.est = "E_RX_WR",
         NEW w, NEW s, LeftInv(s, w), NEW m_ack \in BOOLEAN, m_ack => mac.m_req,
         NEW b, NEW p, Follows(p, s), RxWrPatch(p)
  PROVE  Effects(s, m_ack, b)
  <1>1. /\ ~m_ack /\ ~mac.m_req /\ mac.pw = None /\ (Busy(mac) <=> (mac.rx_len # 0))
        /\ mac.pkt_q = mac.pkt[mac.rx_pos] /\ mac.rx_len \in Buf
    BY MacTypes DEF EngOf, PortOf, TxState, TypeInv
  <1>2. /\ s.est = mac.est /\ s.rx_pos = mac.rx_pos /\ s.m_req = mac.m_req /\ s.m_we = mac.m_we
        /\ s.m_din = mac.m_din /\ s.pw = None /\ s.pkt = NewPkt /\ s.pkt_q = mac.pkt[mac.rx_pos]
        /\ mac.tx_next < AddrTop => s.tx_next < AddrTop
        /\ mac.rx_next < AddrTop => s.rx_next < AddrTop
        /\ \/ s.tx_len = mac.tx_len /\ s.rx_len = mac.rx_len /\ (Busy(s) <=> Busy(mac))
           \/ s.tx_len = 0 /\ s.rx_len = 0 /\ ~Busy(s)
    BY DEF LeftInv
  <1>3. CASE mac.rx_pos >= mac.rx_len /\ ToState(p, {}, "E_RX_END")
    <2>1. /\ \A x \in Watched \ ({} \cup {"est"}) : mac'[x] = s[x]
          /\ "est" \in Watched => mac'.est = "E_RX_END"
      BY <1>3, Moved DEF ToState
    <2>2. /\ mac'.est = "E_RX_END" /\ mac'.tx_len = s.tx_len /\ mac'.rx_len = s.rx_len
          /\ mac'.rx_pos = s.rx_pos /\ mac'.pw = s.pw /\ mac'.pkt = s.pkt
          /\ mac'.pkt_q = s.pkt_q /\ mac'.m_req = s.m_req /\ mac'.m_we = s.m_we
          /\ mac'.m_din = s.m_din /\ mac'.tx_status = s.tx_status
          /\ mac'.tx_next = s.tx_next /\ mac'.rx_next = s.rx_next
      BY <2>1 DEF Watched
    <2>3. EngOf(mac')
      BY <1>1, <1>2, <1>3, <2>2 DEF EngOf, Busy, TxState
    <2>4. PortOf(mac') /\ NextOf(mac')
      BY <1>1, <1>2, <1>3, <2>2 DEF PortOf, NextOf, NewPkt
    <2>5. GatherEff(b)
      BY <1>1, <1>2, <1>3, <2>2 DEF GatherEff
    <2>6. DueEff(s, m_ack)
      BY <1>1, <1>2, <1>3, <2>2 DEF DueEff, RxState
    <2> QED BY <2>3, <2>4, <2>5, <2>6 DEF Effects
  <1>4. CASE ToState(p, {"rx_next"}, "E_IDLE")
    <2>1. /\ \A x \in Watched \ ({"rx_next"} \cup {"est"}) : mac'[x] = s[x]
          /\ "est" \in Watched => mac'.est = "E_IDLE"
      BY <1>4, Moved DEF ToState
    <2>2. /\ mac'.est = "E_IDLE" /\ mac'.tx_len = s.tx_len /\ mac'.rx_len = s.rx_len
          /\ mac'.rx_pos = s.rx_pos /\ mac'.pw = s.pw /\ mac'.pkt = s.pkt
          /\ mac'.pkt_q = s.pkt_q /\ mac'.m_req = s.m_req /\ mac'.m_we = s.m_we
          /\ mac'.m_din = s.m_din /\ mac'.tx_status = s.tx_status
          /\ mac'.tx_next = s.tx_next
      BY <2>1 DEF Watched
    <2>3. EngOf(mac')
      BY <1>1, <1>2, <1>4, <2>2 DEF EngOf, Busy, TxState
    <2>4. PortOf(mac') /\ NextOf(mac')
      BY <1>1, <1>2, <1>4, <2>2 DEF PortOf, NextOf, NewPkt
    <2>5. GatherEff(b)
      BY <1>1, <1>2, <1>4, <2>2 DEF GatherEff
    <2>6. DueEff(s, m_ack)
      BY <1>1, <1>2, <1>4, <2>2 DEF DueEff, RxState
    <2> QED BY <2>3, <2>4, <2>5, <2>6 DEF Effects
  <1>5. CASE /\ mac.rx_pos < mac.rx_len /\ mac.rx_next < AddrTop
             /\ ToState(p, {"m_req", "m_we", "m_din"}, "E_RX_ACK")
             /\ Sets(p, "m_we", TRUE) /\ Sets(p, "m_din", mac.pkt_q)
    <2>1. /\ \A x \in Watched \ ({"m_req", "m_we", "m_din"} \cup {"est"}) : mac'[x] = s[x]
          /\ "est" \in Watched => mac'.est = "E_RX_ACK"
          /\ "m_we" \in Watched => mac'.m_we = TRUE
          /\ "m_din" \in Watched => mac'.m_din = mac.pkt_q
      <3>1. \A x \in Watched \ ({"m_req", "m_we", "m_din"} \cup {"est"}) : mac'[x] = s[x]
        BY <1>5, Moved DEF ToState
      <3>2. "est" \in Watched => mac'.est = "E_RX_ACK"
        BY <1>5, Moved DEF ToState
      <3>3. "m_we" \in Watched => mac'.m_we = TRUE
        BY <1>5, Moved
      <3>4. "m_din" \in Watched => mac'.m_din = mac.pkt_q
        BY <1>5, Moved
      <3> QED BY <3>1, <3>2, <3>3, <3>4
    <2>2. /\ mac'.est = "E_RX_ACK" /\ mac'.tx_len = s.tx_len /\ mac'.rx_len = s.rx_len
          /\ mac'.rx_pos = s.rx_pos /\ mac'.pw = s.pw /\ mac'.pkt = s.pkt
          /\ mac'.pkt_q = s.pkt_q /\ mac'.m_we = TRUE /\ mac'.m_din = mac.pkt_q
          /\ mac'.tx_status = s.tx_status /\ mac'.tx_next = s.tx_next
          /\ mac'.rx_next = s.rx_next
      BY <2>1 DEF Watched
    <2>7. mac.rx_pos < BufLen + CrcLen
      <3>1. mac.rx_pos \in Int /\ mac.rx_len \in 0 .. (BufLen + CrcLen)
        BY MacTypes, SizeAssumption DEF Buf
      <3> QED BY <1>5, <3>1, SizeAssumption
    <2>3. EngOf(mac')
      BY <1>1, <1>2, <1>5, <2>2, <2>7 DEF EngOf, Busy, TxState
    <2>4. PortOf(mac') /\ NextOf(mac')
      BY <1>1, <1>2, <1>5, <2>2, <2>7 DEF PortOf, NextOf, NewPkt
    <2>5. GatherEff(b)
      BY <1>1, <1>2, <1>5, <2>2, <2>7 DEF GatherEff
    <2>6. DueEff(s, m_ack)
      BY <1>1, <1>2, <1>5, <2>2, <2>7 DEF DueEff, RxState
    <2> QED BY <2>3, <2>4, <2>5, <2>6 DEF Effects
  <1> QED BY <1>3, <1>4, <1>5 DEF RxWrPatch

(* The effects of a clock in E_RX_ACK.                                     *)
LEMMA RxAckStep ==
  ASSUME TypeInv, EngOf(mac), PortOf(mac), mac.est = "E_RX_ACK",
         NEW w, NEW s, LeftInv(s, w), NEW m_ack \in BOOLEAN, m_ack => mac.m_req,
         NEW b, NEW p, Follows(p, s), RxAckPatch(p, m_ack)
  PROVE  Effects(s, m_ack, b)
  <1>1. /\ mac.pw = None /\ (Busy(mac) <=> (mac.rx_len # 0)) /\ mac.m_we /\ mac.m_din = mac.pkt[mac.rx_pos]
        /\ mac.rx_next < AddrTop /\ mac.rx_pos < BufLen + CrcLen
    BY MacTypes DEF EngOf, PortOf, TxState, TypeInv
  <1>2. /\ s.est = mac.est /\ s.rx_pos = mac.rx_pos /\ s.m_req = mac.m_req /\ s.m_we = mac.m_we
        /\ s.m_din = mac.m_din /\ s.pw = None /\ s.pkt = NewPkt /\ s.pkt_q = mac.pkt[mac.rx_pos]
        /\ mac.tx_next < AddrTop => s.tx_next < AddrTop
        /\ mac.rx_next < AddrTop => s.rx_next < AddrTop
        /\ \/ s.tx_len = mac.tx_len /\ s.rx_len = mac.rx_len /\ (Busy(s) <=> Busy(mac))
           \/ s.tx_len = 0 /\ s.rx_len = 0 /\ ~Busy(s)
    BY DEF LeftInv
  <1>3. CASE ~m_ack /\ Within(p, {})
    <2>1. /\ \A x \in Watched \ {} : mac'[x] = s[x]
      BY <1>3, Moved DEF ToState
    <2>2. /\ mac'.est = s.est /\ mac'.tx_len = s.tx_len /\ mac'.rx_len = s.rx_len
          /\ mac'.rx_pos = s.rx_pos /\ mac'.pw = s.pw /\ mac'.pkt = s.pkt
          /\ mac'.pkt_q = s.pkt_q /\ mac'.m_req = s.m_req /\ mac'.m_we = s.m_we
          /\ mac'.m_din = s.m_din /\ mac'.tx_status = s.tx_status
          /\ mac'.tx_next = s.tx_next /\ mac'.rx_next = s.rx_next
      BY <2>1 DEF Watched
    <2>3. EngOf(mac')
      BY <1>1, <1>2, <1>3, <2>2 DEF EngOf, Busy, TxState
    <2>4. PortOf(mac') /\ NextOf(mac')
      BY <1>1, <1>2, <1>3, <2>2 DEF PortOf, NextOf, NewPkt
    <2>5. GatherEff(b)
      BY <1>1, <1>2, <1>3, <2>2 DEF GatherEff
    <2>6. DueEff(s, m_ack)
      BY <1>1, <1>2, <1>3, <2>2 DEF DueEff, RxState
    <2> QED BY <2>3, <2>4, <2>5, <2>6 DEF Effects
  <1>4. CASE /\ ~m_ack /\ ToState(p, {"rx_len", "rx_pos", "tx_status", "m_req"}, "E_IDLE")
             /\ Sets(p, "rx_len", 0) /\ Sets(p, "m_req", FALSE)
             /\ Sets(p, "tx_status", mac.tx_status \ {"NET_BUSY"})
    <2>1. /\ \A x \in Watched \ ({"rx_len", "rx_pos", "tx_status", "m_req"} \cup {"est"}) : mac'[x] = s[x]
          /\ "est" \in Watched => mac'.est = "E_IDLE"
          /\ "rx_len" \in Watched => mac'.rx_len = 0
          /\ "m_req" \in Watched => mac'.m_req = FALSE
          /\ "tx_status" \in Watched => mac'.tx_status = mac.tx_status \ {"NET_BUSY"}
      <3>1. \A x \in Watched \ ({"rx_len", "rx_pos", "tx_status", "m_req"} \cup {"est"}) : mac'[x] = s[x]
        BY <1>4, Moved DEF ToState
      <3>2. "est" \in Watched => mac'.est = "E_IDLE"
        BY <1>4, Moved DEF ToState
      <3>3. "rx_len" \in Watched => mac'.rx_len = 0
        BY <1>4, Moved
      <3>4. "m_req" \in Watched => mac'.m_req = FALSE
        BY <1>4, Moved
      <3>5. "tx_status" \in Watched => mac'.tx_status = mac.tx_status \ {"NET_BUSY"}
        BY <1>4, Moved
      <3> QED BY <3>1, <3>2, <3>3, <3>4, <3>5
    <2>2. /\ mac'.est = "E_IDLE" /\ mac'.tx_len = s.tx_len /\ mac'.rx_len = 0
          /\ mac'.pw = s.pw /\ mac'.pkt = s.pkt /\ mac'.pkt_q = s.pkt_q
          /\ mac'.m_req = FALSE /\ mac'.m_we = s.m_we /\ mac'.m_din = s.m_din
          /\ mac'.tx_status = mac.tx_status \ {"NET_BUSY"} /\ mac'.tx_next = s.tx_next
          /\ mac'.rx_next = s.rx_next
      BY <2>1 DEF Watched
    <2>3. EngOf(mac')
      BY <1>1, <1>2, <1>4, <2>2 DEF EngOf, Busy, TxState
    <2>4. PortOf(mac') /\ NextOf(mac')
      BY <1>1, <1>2, <1>4, <2>2 DEF PortOf, NextOf, NewPkt
    <2>5. GatherEff(b)
      BY <1>1, <1>2, <1>4, <2>2 DEF GatherEff
    <2>6. DueEff(s, m_ack)
      BY <1>1, <1>2, <1>4, <2>2 DEF DueEff, RxState
    <2> QED BY <2>3, <2>4, <2>5, <2>6 DEF Effects
  <1>5. CASE /\ m_ack /\ ToState(p, {"m_req", "rx_pos", "rx_next"}, "E_RX_PRE")
             /\ Sets(p, "m_req", FALSE) /\ Sets(p, "rx_pos", mac.rx_pos + 1)
    <2>1. /\ \A x \in Watched \ ({"m_req", "rx_pos", "rx_next"} \cup {"est"}) : mac'[x] = s[x]
          /\ "est" \in Watched => mac'.est = "E_RX_PRE"
          /\ "m_req" \in Watched => mac'.m_req = FALSE
          /\ "rx_pos" \in Watched => mac'.rx_pos = mac.rx_pos + 1
      BY <1>5, Moved DEF ToState
    <2>2. /\ mac'.est = "E_RX_PRE" /\ mac'.tx_len = s.tx_len /\ mac'.rx_len = s.rx_len
          /\ mac'.rx_pos = mac.rx_pos + 1 /\ mac'.pw = s.pw /\ mac'.pkt = s.pkt
          /\ mac'.pkt_q = s.pkt_q /\ mac'.m_req = FALSE /\ mac'.m_we = s.m_we
          /\ mac'.m_din = s.m_din /\ mac'.tx_status = s.tx_status
          /\ mac'.tx_next = s.tx_next
      BY <2>1 DEF Watched
    <2>3. EngOf(mac')
      BY <1>1, <1>2, <1>5, <2>2 DEF EngOf, Busy, TxState
    <2>4. PortOf(mac') /\ NextOf(mac')
      BY <1>1, <1>2, <1>5, <2>2 DEF PortOf, NextOf, NewPkt
    <2>5. GatherEff(b)
      BY <1>1, <1>2, <1>5, <2>2 DEF GatherEff
    <2>6. DueEff(s, m_ack)
      BY <1>1, <1>2, <1>5, <2>2 DEF DueEff, RxState
    <2> QED BY <2>3, <2>4, <2>5, <2>6 DEF Effects
  <1> QED BY <1>3, <1>4, <1>5 DEF RxAckPatch

(* The effects of a clock in E_RX_END.                                     *)
LEMMA RxEndStep ==
  ASSUME TypeInv, EngOf(mac), PortOf(mac), mac.est = "E_RX_END",
         NEW w, NEW s, LeftInv(s, w), NEW m_ack \in BOOLEAN, m_ack => mac.m_req,
         NEW b, NEW p, Follows(p, s), RxEndPatch(p)
  PROVE  Effects(s, m_ack, b)
  <1>1. ~m_ack /\ ~mac.m_req /\ mac.pw = None /\ (Busy(mac) <=> (mac.rx_len # 0))
    BY MacTypes DEF EngOf, PortOf, TxState, TypeInv
  <1>2. /\ s.est = mac.est /\ s.rx_pos = mac.rx_pos /\ s.m_req = mac.m_req /\ s.m_we = mac.m_we
        /\ s.m_din = mac.m_din /\ s.pw = None /\ s.pkt = NewPkt /\ s.pkt_q = mac.pkt[mac.rx_pos]
        /\ mac.tx_next < AddrTop => s.tx_next < AddrTop
        /\ mac.rx_next < AddrTop => s.rx_next < AddrTop
        /\ \/ s.tx_len = mac.tx_len /\ s.rx_len = mac.rx_len /\ (Busy(s) <=> Busy(mac))
           \/ s.tx_len = 0 /\ s.rx_len = 0 /\ ~Busy(s)
    BY DEF LeftInv
  <1>3. CASE /\ ToState(p, {"rx_next", "tx_status", "rx_len", "rx_pos"}, "E_IDLE")
             /\ Sets(p, "rx_len", 0) /\ Sets(p, "rx_pos", 0)
             /\ Sets(p, "tx_status", (mac.tx_status \cup {"TX_RECVD"}) \ {"NET_BUSY"})
    <2>1. /\ \A x \in Watched \ ({"rx_next", "tx_status", "rx_len", "rx_pos"} \cup {"est"}) : mac'[x] = s[x]
          /\ "est" \in Watched => mac'.est = "E_IDLE"
          /\ "rx_len" \in Watched => mac'.rx_len = 0
          /\ "rx_pos" \in Watched => mac'.rx_pos = 0
          /\ "tx_status" \in Watched => mac'.tx_status = (mac.tx_status \cup {"TX_RECVD"}) \ {"NET_BUSY"}
      <3>1. \A x \in Watched \ ({"rx_next", "tx_status", "rx_len", "rx_pos"} \cup {"est"}) : mac'[x] = s[x]
        BY <1>3, Moved DEF ToState
      <3>2. "est" \in Watched => mac'.est = "E_IDLE"
        BY <1>3, Moved DEF ToState
      <3>3. "rx_len" \in Watched => mac'.rx_len = 0
        BY <1>3, Moved
      <3>4. "rx_pos" \in Watched => mac'.rx_pos = 0
        BY <1>3, Moved
      <3>5. "tx_status" \in Watched => mac'.tx_status = (mac.tx_status \cup {"TX_RECVD"}) \ {"NET_BUSY"}
        BY <1>3, Moved
      <3> QED BY <3>1, <3>2, <3>3, <3>4, <3>5
    <2>2. /\ mac'.est = "E_IDLE" /\ mac'.tx_len = s.tx_len /\ mac'.rx_len = 0
          /\ mac'.rx_pos = 0 /\ mac'.pw = s.pw /\ mac'.pkt = s.pkt
          /\ mac'.pkt_q = s.pkt_q /\ mac'.m_req = s.m_req /\ mac'.m_we = s.m_we
          /\ mac'.m_din = s.m_din
          /\ mac'.tx_status = (mac.tx_status \cup {"TX_RECVD"}) \ {"NET_BUSY"}
          /\ mac'.tx_next = s.tx_next
      BY <2>1 DEF Watched
    <2>3. EngOf(mac')
      BY <1>1, <1>2, <1>3, <2>2 DEF EngOf, Busy, TxState
    <2>4. PortOf(mac') /\ NextOf(mac')
      BY <1>1, <1>2, <1>3, <2>2 DEF PortOf, NextOf, NewPkt
    <2>5. GatherEff(b)
      BY <1>1, <1>2, <1>3, <2>2 DEF GatherEff
    <2>6. DueEff(s, m_ack)
      BY <1>1, <1>2, <1>3, <2>2 DEF DueEff, RxState
    <2> QED BY <2>3, <2>4, <2>5, <2>6 DEF Effects
  <1> QED BY <1>3 DEF RxEndPatch

-----------------------------------------------------------------------------
(* What is known after a clock in which the CPU writes w and the bus gives *)
(* b.                                                                      *)
EngineTyped(w, m_ack, b) ==
    /\ b \in Byte /\ ram' \in [0 .. (RamTop - 1) -> Byte]
    /\ DOMAIN mac' = DOMAIN RegType /\ Typed(mac', RegType)
    /\ LeftInv(Left(w), w) /\ Effects(Left(w), m_ack, b)

(* Every clock has one of the effects, whatever the CPU writes in it.      *)
LEMMA ClockEffects ==
  ASSUME TypeInv, EngOf(mac), PortOf(mac), NEW w \in Writes \cup {None},
         NEW tick \in BOOLEAN, NEW m_ack \in BOOLEAN, Clock(w, tick, m_ack)
  PROVE  EngineTyped(w, m_ack, IF m_ack THEN ram[mac.m_addr] ELSE NoByte)
  <1> DEFINE b == IF m_ack THEN ram[mac.m_addr] ELSE NoByte
             e == Engine(tick, m_ack, b, Unplugged, FALSE)
             s == Left(w)
  <1>1. /\ m_ack => mac.m_req /\ mac.m_addr < RamTop
        /\ mac' = e ++ CpuWrite(w) ++ Buffer(Unplugged) ++ mac
        /\ RamStep(m_ack)
    BY DEF Clock, Ack, MacClock
  <1>2. /\ mac.est \in EState \ {"E_BTX", "E_BRX"} /\ mac.m_addr \in Addr /\ mac.m_din \in Byte
        /\ ram \in [0 .. (RamTop - 1) -> Byte] /\ mac.m_req \in BOOLEAN
    BY MacTypes DEF EngOf, TypeInv
  <1>3. NoByte \in Byte
    BY SizeAssumption DEF NoByte
  <1>4. m_ack => mac.m_addr \in 0 .. (RamTop - 1)
    BY <1>1, <1>2, SizeAssumption DEF Addr
  <1>5. b \in Byte
    BY <1>2, <1>3, <1>4
  <1>6. m_ack => ~m_err
    BY <1>1, <1>2, SizeAssumption DEF m_err, Addr
  <1>7. ram' \in [0 .. (RamTop - 1) -> Byte]
    BY <1>1, <1>2, <1>4 DEF RamStep
  <1> SUFFICES EngineTyped(w, m_ack, b)
    OBVIOUS
  <1> HIDE DEF b, s
  <1>8. LeftInv(s, w)
    BY <1>2, LeftIs DEF s
  <1>9. ASSUME Typed(e, RegType), Follows(e, s) => Effects(s, m_ack, b)
        PROVE  EngineTyped(w, m_ack, b)
    <2> HIDE DEF e
    <2>1. DOMAIN mac' = DOMAIN RegType /\ Typed(mac', RegType) /\ Follows(e, s)
      BY <1>1, <1>2, <1>9, Clocked DEF s
    <2> QED BY <1>5, <1>7, <1>8, <1>9, <2>1 DEF EngineTyped, s
  <1>10. CASE mac.est = "E_IDLE"
    <2>1. e = EIdle(tick, Unplugged, FALSE)
      BY <1>10 DEF Engine
    <2> HIDE DEF e
    <2>2. Typed(e, RegType) /\ IdlePatch(e)
      BY <2>1, TypedEIdle, IdlePatches
    <2>3. Follows(e, s) => Effects(s, m_ack, b)
      BY <1>1, <1>8, <1>10, <2>2, IdleStep
    <2> QED BY <1>9, <2>2, <2>3
  <1>11. CASE mac.est = "E_TX_RD"
    <2>1. e = ETxRd
      BY <1>11 DEF Engine
    <2> HIDE DEF e
    <2>2. Typed(e, RegType) /\ TxRdPatch(e)
      BY <1>5, <1>11, <2>1, TypedETx, TxRdPatches
    <2>3. Follows(e, s) => Effects(s, m_ack, b)
      BY <1>1, <1>8, <1>11, <2>2, TxRdStep
    <2> QED BY <1>9, <2>2, <2>3
  <1>12. CASE mac.est = "E_TX_ACK"
    <2>1. e = ETxAck(m_ack, b)
      BY <1>12 DEF Engine
    <2> HIDE DEF e
    <2>2. Typed(e, RegType) /\ TxAckPatch(e, m_ack, b)
      BY <1>5, <1>6, <1>12, <2>1, TypedETx, TxAckPatches
    <2>3. Follows(e, s) => Effects(s, m_ack, b)
      BY <1>1, <1>8, <1>12, <2>2, TxAckStep
    <2> QED BY <1>9, <2>2, <2>3
  <1>13. CASE mac.est = "E_TX_END"
    <2>1. e = ETxEnd(FALSE)
      BY <1>13 DEF Engine
    <2> HIDE DEF e
    <2>2. Typed(e, RegType) /\ TxEndPatch(e)
      BY <1>5, <2>1, TypedETx, TxEndPatches
    <2>3. Follows(e, s) => Effects(s, m_ack, b)
      BY <1>1, <1>8, <1>13, <2>2, TxEndStep
    <2> QED BY <1>9, <2>2, <2>3
  <1>14. CASE mac.est = "E_RX_PRE"
    <2>1. e = [est |-> "E_RX_WR"]
      BY <1>14 DEF Engine
    <2> HIDE DEF e
    <2>2. Within(e, {"est"}) /\ Sets(e, "est", "E_RX_WR")
      BY <2>1 DEF Within, Sets, Val
    <2>3. Typed(e, RegType)
      BY <2>1, TypedERx
    <2>4. Follows(e, s) => Effects(s, m_ack, b)
      BY <1>1, <1>8, <1>14, <2>2, RxPreStep
    <2> QED BY <1>9, <2>3, <2>4
  <1>15. CASE mac.est = "E_RX_WR"
    <2>1. e = ERxWr
      BY <1>15 DEF Engine
    <2> HIDE DEF e
    <2>2. Typed(e, RegType) /\ RxWrPatch(e)
      BY <2>1, TypedERx, RxWrPatches
    <2>3. Follows(e, s) => Effects(s, m_ack, b)
      BY <1>1, <1>8, <1>15, <2>2, RxWrStep
    <2> QED BY <1>9, <2>2, <2>3
  <1>16. CASE mac.est = "E_RX_ACK"
    <2>1. e = ERxAck(m_ack)
      BY <1>16 DEF Engine
    <2> HIDE DEF e
    <2>2. Typed(e, RegType) /\ RxAckPatch(e, m_ack)
      BY <1>6, <1>16, <2>1, TypedERx, RxAckPatches
    <2>3. Follows(e, s) => Effects(s, m_ack, b)
      BY <1>1, <1>8, <1>16, <2>2, RxAckStep
    <2> QED BY <1>9, <2>2, <2>3
  <1>17. CASE mac.est = "E_RX_END"
    <2>1. e = ERxEnd
      BY <1>17 DEF Engine
    <2> HIDE DEF e
    <2>2. Typed(e, RegType) /\ RxEndPatch(e)
      BY <2>1, TypedERx, RxEndPatches
    <2>3. Follows(e, s) => Effects(s, m_ack, b)
      BY <1>1, <1>8, <1>17, <2>2, RxEndStep
    <2> QED BY <1>9, <2>2, <2>3
  <1> QED BY <1>2, <1>10, <1>11, <1>12, <1>13, <1>14, <1>15, <1>16, <1>17 DEF EState

-----------------------------------------------------------------------------
(* The packet gathered so far is in the buffer, the write still under way  *)
(* included; and unless the controller was reset since, so is the packet   *)
(* due for delivery, of which rx_pos bytes have been delivered.            *)
GatherInv ==
    /\ gathered \in Seq(Byte) /\ Len(gathered) = mac.tx_len
    /\ \A i \in 1 .. mac.tx_len : gathered[i] = NewPkt[i - 1]
Copied ==
    /\ due \in Seq(Byte) /\ Len(due) <= BufLen /\ mac.rx_len = Padded(Len(due))
    /\ delivered \in Seq(Byte) /\ Len(delivered) = mac.rx_pos /\ mac.rx_pos <= mac.rx_len
    /\ \A i \in 1 .. Len(due) : due[i] = mac.pkt[i - 1]
    /\ \A i \in 1 .. Len(due) : i <= mac.rx_pos => delivered[i] = due[i]
DueInv ==
    ~cut =>
    /\ mac.rx_len # 0 => Copied
    /\ mac.est \in RxState => mac.rx_len # 0
    /\ mac.est = "E_RX_ACK" => mac.rx_pos < mac.rx_len
    /\ mac.est = "E_RX_END" => mac.rx_pos >= mac.rx_len

(* A pending write is not mistaken for none.                               *)
LEMMA PairNotNone ==
  ASSUME NEW x, NEW y
  PROVE  <<x, y>> # None
  <1>1. DOMAIN <<x, y>> = 1 .. 2
    OBVIOUS
  <1>2. DOMAIN None = {"none"}
    BY DEF None
  <1>3. 1 \in 1 .. 2 /\ 2 \in 1 .. 2 /\ 1 # 2
    OBVIOUS
  <1>4. ASSUME <<x, y>> = None
        PROVE  FALSE
    <2>1. 1 \in {"none"} /\ 2 \in {"none"}
      BY <1>1, <1>2, <1>3, <1>4
    <2> QED BY <1>3, <2>1
  <1> QED BY <1>4

(* A clock keeps the gathered bytes and the buffer in step.                *)
LEMMA GatherStep ==
  ASSUME TypeInv, GatherInv, NEW w, NEW m_ack, NEW b \in Byte, GatherEff(b),
         History(w, m_ack, b)
  PROVE  GatherInv'
  <1>1. gathered' = IF mac'.tx_len = 0 THEN <<>>
                    ELSE IF mac'.tx_len > mac.tx_len THEN Append(gathered, b)
                    ELSE gathered
    BY DEF History
  <1>2. mac.tx_len \in 0 .. BufLen
    BY MacTypes
  <1>3. /\ gathered \in Seq(Byte) /\ Len(gathered) = mac.tx_len
        /\ \A i \in 1 .. mac.tx_len : gathered[i] = NewPkt[i - 1]
    BY DEF GatherInv
  <1>4. NewPkt' = IF mac'.pw = None THEN mac'.pkt ELSE [mac'.pkt EXCEPT ![mac'.pw[1]] = mac'.pw[2]]
    BY DEF NewPkt
  <1>5. CASE mac'.tx_len = 0
    <2>1. gathered' = <<>>
      BY <1>1, <1>5
    <2>2. gathered' \in Seq(Byte) /\ Len(gathered') = 0
      BY <2>1
    <2>3. \A i \in 1 .. 0 : gathered'[i] = NewPkt'[i - 1]
      OBVIOUS
    <2> QED BY <1>5, <2>2, <2>3 DEF GatherInv
  <1>6. CASE mac'.tx_len # 0 /\ mac'.tx_len = mac.tx_len /\ mac'.pw = None /\ mac'.pkt = NewPkt
    <2>1. gathered' = gathered /\ NewPkt' = NewPkt
      BY <1>1, <1>2, <1>4, <1>6
    <2> QED BY <1>3, <1>6, <2>1 DEF GatherInv
  <1>7. CASE /\ mac.tx_len < BufLen /\ mac'.tx_len = mac.tx_len + 1
             /\ mac'.pw = <<mac.tx_len, b>> /\ mac'.pkt = NewPkt
    <2>1. gathered' = Append(gathered, b)
      BY <1>1, <1>2, <1>7
    <2>2. mac'.pw # None /\ mac'.pw[1] = mac.tx_len /\ mac'.pw[2] = b
      BY <1>7, PairNotNone
    <2>3. NewPkt' = [NewPkt EXCEPT ![mac.tx_len] = b]
      BY <1>4, <1>7, <2>2
    <2>4. NewPkt \in [Buf -> Byte] /\ mac.tx_len \in 0 .. (BufLen + CrcLen)
      BY <1>2, <1>7, NewPktType, SizeAssumption
    <2>5. NewPkt'[mac.tx_len] = b /\ \A j \in Buf : j # mac.tx_len => NewPkt'[j] = NewPkt[j]
      BY <2>3, <2>4 DEF Buf
    <2>6. gathered' \in Seq(Byte) /\ Len(gathered') = mac.tx_len + 1
          /\ gathered'[mac.tx_len + 1] = b
          /\ \A i \in 1 .. mac.tx_len : gathered'[i] = gathered[i]
      BY <1>3, <2>1, AppendProperties
    <2>7. ASSUME NEW i \in 1 .. (mac.tx_len + 1)
          PROVE  gathered'[i] = NewPkt'[i - 1]
      <3>1. CASE i = mac.tx_len + 1
        <4>1. i - 1 = mac.tx_len
          BY <1>2, <3>1
        <4> QED BY <2>5, <2>6, <3>1, <4>1
      <3>2. CASE i # mac.tx_len + 1
        <4>1. i \in 1 .. mac.tx_len /\ i - 1 # mac.tx_len /\ i - 1 \in 0 .. (BufLen + CrcLen)
          BY <1>2, <1>7, <3>2, SizeAssumption
        <4> QED BY <1>3, <2>5, <2>6, <4>1 DEF Buf
      <3> QED BY <3>1, <3>2
    <2> QED BY <1>7, <2>6, <2>7 DEF GatherInv
  <1> QED BY <1>5, <1>6, <1>7 DEF GatherEff

(* A clock keeps the packet due, the buffer and what is delivered in step. *)
LEMMA DueStep ==
  ASSUME TypeInv, EngOf(mac), PortOf(mac), GatherInv, DueInv,
         NEW w, NEW m_ack \in BOOLEAN, m_ack => mac.m_req, NEW b,
         NEW s, LeftInv(s, w), DueEff(s, m_ack), History(w, m_ack, b)
  PROVE  DueInv'
  <1> DEFINE queued == mac.est = "E_TX_END" /\ mac'.rx_len # 0
  <1>1. /\ due' = IF queued THEN SubSeq(gathered, 1, EffLen) ELSE due
        /\ delivered' = IF queued THEN <<>>
                        ELSE IF m_ack /\ mac.m_we THEN Append(delivered, mac.m_din)
                        ELSE delivered
        /\ cut' = (~queued /\ (cut \/ ResetWrite(w)))
    BY DEF History, ResetWrite
  <1>2. /\ mac.rx_pos \in 0 .. (BufLen + CrcLen) /\ mac.rx_len \in 0 .. (BufLen + CrcLen)
        /\ mac.tx_len \in 0 .. BufLen /\ mac.m_din \in Byte
    BY MacTypes DEF Buf
  <1>3. s.rx_len = mac.rx_len \/ ResetWrite(w)
    BY DEF LeftInv
  <1>4. /\ mac.est \in TxState => mac.rx_len = 0
        /\ mac.est # "E_TX_RD" => mac.pw = None
    BY DEF EngOf
  <1>5. mac.est # "E_TX_RD" => NewPkt = mac.pkt
    BY <1>4 DEF NewPkt
  <1> HIDE DEF queued
  <1>6. CASE ResetWrite(w) /\ ~queued
    <2>1. cut'
      BY <1>1, <1>6
    <2> QED BY <2>1 DEF DueInv
  <1>7. CASE mac'.rx_len = 0 /\ mac'.est \notin RxState
    BY <1>7 DEF DueInv, RxState
  <1>8. CASE /\ mac.est = "E_TX_END" /\ mac'.rx_len = Padded(EffLen) /\ mac'.rx_pos = 0
             /\ mac'.est = "E_IDLE" /\ mac'.pkt = NewPkt
    <2>1. /\ EffLen \in 0 .. mac.tx_len /\ EffLen \in 0 .. BufLen
          /\ Padded(EffLen) # 0
      BY PaddedIs
    <2>2. queued
      BY <1>8, <2>1 DEF queued
    <2>3. due' = SubSeq(gathered, 1, EffLen) /\ delivered' = <<>>
      BY <1>1, <2>2
    <2>4. gathered \in Seq(Byte) /\ Len(gathered) = mac.tx_len
          /\ \A i \in 1 .. mac.tx_len : gathered[i] = NewPkt[i - 1]
      BY DEF GatherInv
    <2>5. /\ due' \in Seq(Byte) /\ Len(due') = EffLen
          /\ \A i \in 1 .. EffLen : due'[i] = gathered[i]
      BY <1>2, <2>1, <2>3, <2>4
    <2>6. \A i \in 1 .. EffLen : due'[i] = NewPkt[i - 1]
      BY <1>2, <2>1, <2>4, <2>5
    <2>7. delivered' \in Seq(Byte) /\ Len(delivered') = 0
      BY <2>3
    <2>8. \A i \in 1 .. EffLen : ~(i <= 0)
      OBVIOUS
    <2>9. Padded(EffLen) \in Nat
      BY <2>1, PaddedIs, SizeAssumption DEF Buf
    <2>10. Copied'
      BY <1>8, <2>1, <2>5, <2>6, <2>7, <2>8, <2>9 DEF Copied
    <2> QED BY <1>8, <2>10 DEF DueInv, RxState
  <1>9. CASE /\ ~(ResetWrite(w) /\ ~queued)
             /\ mac.est = "E_RX_ACK" /\ m_ack /\ mac'.rx_len = s.rx_len
             /\ mac'.rx_pos = mac.rx_pos + 1 /\ mac'.est = "E_RX_PRE" /\ mac'.pkt = NewPkt
    <2>1. ~queued /\ mac'.rx_len = mac.rx_len /\ mac'.pkt = mac.pkt
      BY <1>3, <1>5, <1>9 DEF queued
    <2>2. mac.m_we /\ mac.m_din = mac.pkt[mac.rx_pos]
      BY <1>9 DEF PortOf
    <2>3. due' = due /\ delivered' = Append(delivered, mac.m_din) /\ (cut' <=> cut)
      BY <1>1, <1>9, <2>1, <2>2
    <2>4. ASSUME ~cut
          PROVE  Copied' /\ mac'.rx_len # 0
      <3>1. Copied /\ mac.rx_pos < mac.rx_len /\ mac.rx_len # 0
        BY <1>9, <2>4 DEF DueInv, RxState
      <3>2. /\ due \in Seq(Byte) /\ Len(due) <= BufLen /\ mac.rx_len = Padded(Len(due))
            /\ delivered \in Seq(Byte) /\ Len(delivered) = mac.rx_pos
            /\ \A i \in 1 .. Len(due) : due[i] = mac.pkt[i - 1]
            /\ \A i \in 1 .. Len(due) : i <= mac.rx_pos => delivered[i] = due[i]
        BY <3>1 DEF Copied
      <3>3. /\ delivered' \in Seq(Byte) /\ Len(delivered') = mac.rx_pos + 1
            /\ delivered'[mac.rx_pos + 1] = mac.pkt[mac.rx_pos]
            /\ \A i \in 1 .. mac.rx_pos : delivered'[i] = delivered[i]
        BY <1>2, <2>2, <2>3, <3>2, AppendProperties
      <3>4. ASSUME NEW i \in 1 .. Len(due), i <= mac.rx_pos + 1
            PROVE  delivered'[i] = due[i]
        <4>1. Len(due) \in Nat
          BY <3>2
        <4>2. CASE i = mac.rx_pos + 1
          <5>1. i - 1 = mac.rx_pos
            BY <1>2, <4>2
          <5> QED BY <3>2, <3>3, <4>2, <5>1
        <4>3. CASE i # mac.rx_pos + 1
          <5>1. i <= mac.rx_pos /\ i \in 1 .. mac.rx_pos
            BY <1>2, <3>4, <4>1, <4>3
          <5> QED BY <3>2, <3>3, <5>1
        <4> QED BY <4>2, <4>3
      <3>5. mac.rx_pos + 1 <= mac.rx_len
        BY <1>2, <3>1
      <3>6. Copied'
        BY <1>9, <2>1, <2>3, <3>2, <3>3, <3>4, <3>5 DEF Copied
      <3> QED BY <2>1, <3>1, <3>6
    <2> QED BY <1>9, <2>3, <2>4 DEF DueInv, RxState
  <1>10. CASE /\ ~(ResetWrite(w) /\ ~queued)
              /\ ~m_ack \/ mac.est = "E_TX_ACK"
              /\ mac'.rx_len = s.rx_len /\ mac'.rx_pos = mac.rx_pos /\ mac'.pkt = NewPkt
              /\ mac'.est \in RxState => mac.est \in RxState \/ mac.rx_len # 0
              /\ mac'.est = "E_RX_ACK" => mac.est = "E_RX_ACK" \/ mac.rx_pos < mac.rx_len
              /\ mac'.est = "E_RX_END" => mac.rx_pos >= mac.rx_len
    <2>1. ~queued
      BY <1>3, <1>4, <1>10 DEF queued, LeftInv, TxState
    <2>2. mac'.rx_len = mac.rx_len
      BY <1>3, <1>10, <2>1
    <2>3. ~(m_ack /\ mac.m_we)
      BY <1>10 DEF PortOf
    <2>4. due' = due /\ delivered' = delivered /\ (cut' <=> cut)
      BY <1>1, <1>10, <2>1, <2>3
    <2>5. mac.rx_len # 0 => mac'.pkt = mac.pkt
      BY <1>4, <1>5, <1>10 DEF TxState
    <2>6. mac.rx_len # 0 /\ Copied => Copied'
      BY <1>10, <2>2, <2>4, <2>5 DEF Copied
    <2>7. ASSUME ~cut
          PROVE  /\ mac.rx_len # 0 => Copied
                 /\ mac.est \in RxState => mac.rx_len # 0
                 /\ mac.est = "E_RX_ACK" => mac.rx_pos < mac.rx_len
      BY <2>7 DEF DueInv
    <2> QED BY <1>10, <2>2, <2>4, <2>6, <2>7 DEF DueInv
  <1> QED BY <1>6, <1>7, <1>8, <1>9, <1>10 DEF DueEff

-----------------------------------------------------------------------------
(* The reset values of the registers.                                      *)
LEMMA ResetTyped ==
  /\ Typed(ResetRegs, RegType)
  /\ DOMAIN ResetRegs = Reg \ {"pkt", "pkt_q", "m_we", "m_addr", "m_din"}
  /\ ResetRegs.est = "E_IDLE" /\ ResetRegs.tx_status = {"READY"} /\ ResetRegs.tx_len = 0
  /\ ResetRegs.rx_len = 0 /\ ResetRegs.m_req = FALSE /\ ResetRegs.pw = None
  <1> DEFINE F == {"est", "stopped", "dis_loop", "rx_mode", "tx_status", "rx_status",
                   "tx_en", "tx_sup", "tx_cmp", "tx_exc", "rx_en", "rx_sup", "rx_cmp", "rx_exc",
                   "tx_next", "tx_limit", "tx_start", "tx_stop", "rx_next", "rx_limit", "rx_start",
                   "rx_stop", "rx_slimit", "tx_len", "rx_len", "rx_pos", "brx_pos", "dst", "m_req",
                   "pw", "enet_mac", "btx_req", "btx_len", "btx_q", "btx_ack", "btx_pending"}
  <1>1. DOMAIN ResetRegs = F
    BY DEF ResetRegs
  <1>2. /\ ResetRegs.est = "E_IDLE" /\ ResetRegs.tx_status = {"READY"} /\ ResetRegs.tx_len = 0
        /\ ResetRegs.rx_len = 0 /\ ResetRegs.pw = None
    BY DEF ResetRegs
  <1>3. ResetRegs.m_req = FALSE
    BY DEF ResetRegs
  <1>4. F = Reg \ {"pkt", "pkt_q", "m_we", "m_addr", "m_din"}
    BY DEF Reg
  <1>5. NoByte \in Byte /\ 0 \in Addr /\ 0 \in Buf /\ 0 \in 0 .. BufLen /\ 0 \in Nat
    BY SizeAssumption DEF NoByte, Addr, Buf
  <1>6. [a |-> 0, f |-> FALSE] \in Limit
    BY <1>5 DEF Limit
  <1>7. None \in PwType
    BY DEF PwType
  <1>8. /\ ResetRegs.est \in RegType.est /\ ResetRegs.rx_mode \in RegType.rx_mode
        /\ ResetRegs.tx_status \in RegType.tx_status /\ ResetRegs.rx_status \in RegType.rx_status
    <2>1. /\ ResetRegs.est = "E_IDLE" /\ ResetRegs.rx_mode = "none"
          /\ ResetRegs.tx_status = {"READY"} /\ ResetRegs.rx_status = {}
      BY DEF ResetRegs
    <2> QED BY <2>1, RegTypeIs DEF EState
  <1>9. /\ ResetRegs.tx_next \in RegType.tx_next /\ ResetRegs.tx_start \in RegType.tx_start
        /\ ResetRegs.rx_next \in RegType.rx_next /\ ResetRegs.rx_limit \in RegType.rx_limit
        /\ ResetRegs.rx_start \in RegType.rx_start /\ ResetRegs.rx_stop \in RegType.rx_stop
        /\ ResetRegs.rx_slimit \in RegType.rx_slimit
    <2>1. /\ ResetRegs.tx_next = 0 /\ ResetRegs.tx_start = 0 /\ ResetRegs.rx_next = 0
          /\ ResetRegs.rx_limit = 0 /\ ResetRegs.rx_start = 0 /\ ResetRegs.rx_stop = 0
          /\ ResetRegs.rx_slimit = 0
      BY DEF ResetRegs
    <2> QED BY <1>5, <2>1, RegTypeIs
  <1>10. ResetRegs.tx_limit \in RegType.tx_limit /\ ResetRegs.tx_stop \in RegType.tx_stop
    <2>1. ResetRegs.tx_limit = [a |-> 0, f |-> FALSE] /\ ResetRegs.tx_stop = [a |-> 0, f |-> FALSE]
      BY DEF ResetRegs
    <2> QED BY <1>6, <2>1, RegTypeIs
  <1>11. /\ ResetRegs.tx_len \in RegType.tx_len /\ ResetRegs.rx_len \in RegType.rx_len
         /\ ResetRegs.rx_pos \in RegType.rx_pos /\ ResetRegs.brx_pos \in RegType.brx_pos
         /\ ResetRegs.btx_len \in RegType.btx_len /\ ResetRegs.enet_mac \in RegType.enet_mac
    <2>1. /\ ResetRegs.tx_len = 0 /\ ResetRegs.rx_len = 0 /\ ResetRegs.rx_pos = 0
          /\ ResetRegs.brx_pos = 0 /\ ResetRegs.btx_len = 0 /\ ResetRegs.enet_mac = 0
      BY DEF ResetRegs
    <2> QED BY <1>5, <2>1, RegTypeIs
  <1>12. /\ ResetRegs.dst \in RegType.dst /\ ResetRegs.btx_q \in RegType.btx_q
         /\ ResetRegs.pw \in RegType.pw
    <2>1. ResetRegs.dst = NoByte /\ ResetRegs.btx_q = NoByte /\ ResetRegs.pw = None
      BY DEF ResetRegs
    <2> QED BY <1>5, <1>7, <2>1, RegTypeIs
  <1>13. ResetRegs.stopped \in RegType.stopped
    <2>1. ResetRegs.stopped = TRUE /\ RegType.stopped = BOOLEAN
      BY RegTypeIs DEF ResetRegs
    <2> QED BY <2>1
  <1>14. ResetRegs.dis_loop \in RegType.dis_loop
    <2>1. ResetRegs.dis_loop = FALSE /\ RegType.dis_loop = BOOLEAN
      BY RegTypeIs DEF ResetRegs
    <2> QED BY <2>1
  <1>15. ResetRegs.tx_en \in RegType.tx_en
    <2>1. ResetRegs.tx_en = FALSE /\ RegType.tx_en = BOOLEAN
      BY RegTypeIs DEF ResetRegs
    <2> QED BY <2>1
  <1>16. ResetRegs.tx_sup \in RegType.tx_sup
    <2>1. ResetRegs.tx_sup = FALSE /\ RegType.tx_sup = BOOLEAN
      BY RegTypeIs DEF ResetRegs
    <2> QED BY <2>1
  <1>17. ResetRegs.tx_cmp \in RegType.tx_cmp
    <2>1. ResetRegs.tx_cmp = FALSE /\ RegType.tx_cmp = BOOLEAN
      BY RegTypeIs DEF ResetRegs
    <2> QED BY <2>1
  <1>18. ResetRegs.tx_exc \in RegType.tx_exc
    <2>1. ResetRegs.tx_exc = FALSE /\ RegType.tx_exc = BOOLEAN
      BY RegTypeIs DEF ResetRegs
    <2> QED BY <2>1
  <1>19. ResetRegs.rx_en \in RegType.rx_en
    <2>1. ResetRegs.rx_en = FALSE /\ RegType.rx_en = BOOLEAN
      BY RegTypeIs DEF ResetRegs
    <2> QED BY <2>1
  <1>20. ResetRegs.rx_sup \in RegType.rx_sup
    <2>1. ResetRegs.rx_sup = FALSE /\ RegType.rx_sup = BOOLEAN
      BY RegTypeIs DEF ResetRegs
    <2> QED BY <2>1
  <1>21. ResetRegs.rx_cmp \in RegType.rx_cmp
    <2>1. ResetRegs.rx_cmp = FALSE /\ RegType.rx_cmp = BOOLEAN
      BY RegTypeIs DEF ResetRegs
    <2> QED BY <2>1
  <1>22. ResetRegs.rx_exc \in RegType.rx_exc
    <2>1. ResetRegs.rx_exc = FALSE /\ RegType.rx_exc = BOOLEAN
      BY RegTypeIs DEF ResetRegs
    <2> QED BY <2>1
  <1>23. ResetRegs.m_req \in RegType.m_req
    <2>1. ResetRegs.m_req = FALSE /\ RegType.m_req = BOOLEAN
      BY RegTypeIs DEF ResetRegs
    <2> QED BY <2>1
  <1>24. ResetRegs.btx_req \in RegType.btx_req
    <2>1. ResetRegs.btx_req = FALSE /\ RegType.btx_req = BOOLEAN
      BY RegTypeIs DEF ResetRegs
    <2> QED BY <2>1
  <1>25. ResetRegs.btx_ack \in RegType.btx_ack
    <2>1. ResetRegs.btx_ack = FALSE /\ RegType.btx_ack = BOOLEAN
      BY RegTypeIs DEF ResetRegs
    <2> QED BY <2>1
  <1>26. ResetRegs.btx_pending \in RegType.btx_pending
    <2>1. ResetRegs.btx_pending = FALSE /\ RegType.btx_pending = BOOLEAN
      BY RegTypeIs DEF ResetRegs
    <2> QED BY <2>1
  <1>27. \A x \in F : x \in DOMAIN RegType
    BY RegTypeIs DEF Reg
  <1> HIDE DEF F
  <1>28. \A x \in F : ResetRegs[x] \in RegType[x]
    BY <1>8, <1>9, <1>10, <1>11, <1>12, <1>13, <1>14, <1>15, <1>16, <1>17, <1>18, <1>19, <1>20, <1>21, <1>22, <1>23, <1>24, <1>25, <1>26 DEF F
  <1> QED BY <1>1, <1>2, <1>3, <1>4, <1>27, <1>28 DEF Typed

(* The values of the registers before the driver sets them.                *)
LEMMA PowerUpTyped ==
  /\ Typed(PowerUp, RegType) /\ DOMAIN PowerUp = DOMAIN RegType
  /\ PowerUp.est = "E_IDLE" /\ PowerUp.tx_status = {"READY"} /\ PowerUp.tx_len = 0
  /\ PowerUp.rx_len = 0 /\ PowerUp.m_req = FALSE /\ PowerUp.pw = None
  <1> DEFINE q == [pkt |-> [i \in Buf |-> NoByte], pkt_q |-> NoByte,
                   m_we |-> FALSE, m_addr |-> 0, m_din |-> NoByte]
  <1>1. DOMAIN q = {"pkt", "pkt_q", "m_we", "m_addr", "m_din"}
    OBVIOUS
  <1>2. q.pkt = [i \in Buf |-> NoByte] /\ q.pkt_q = NoByte /\ q.m_addr = 0 /\ q.m_din = NoByte
    OBVIOUS
  <1>3. q.m_we = FALSE
    OBVIOUS
  <1>4. NoByte \in Byte /\ 0 \in Addr
    BY SizeAssumption DEF NoByte, Addr
  <1>5. [i \in Buf |-> NoByte] \in [Buf -> Byte]
    BY <1>4
  <1> HIDE DEF q
  <1>6. /\ q.pkt \in RegType.pkt /\ q.pkt_q \in RegType.pkt_q
        /\ q.m_addr \in RegType.m_addr /\ q.m_din \in RegType.m_din
    BY <1>2, <1>4, <1>5, RegTypeIs
  <1>7. q.m_we \in RegType.m_we
    <2>1. RegType.m_we = BOOLEAN
      BY RegTypeIs
    <2> QED BY <1>3, <2>1
  <1>8. DOMAIN q \subseteq DOMAIN RegType
    BY <1>1, RegTypeIs DEF Reg
  <1>9. Typed(q, RegType)
    BY <1>1, <1>6, <1>7, <1>8 DEF Typed
  <1>10. PowerUp = ResetRegs ++ q
    BY DEF PowerUp, q
  <1>11. Typed(PowerUp, RegType)
    BY <1>9, <1>10, ResetTyped, TypedOver
  <1>12. DOMAIN PowerUp = DOMAIN RegType
    BY <1>1, <1>10, OverIs, ResetTyped, RegTypeIs DEF Reg
  <1>13. \A x \in DOMAIN ResetRegs : PowerUp[x] = ResetRegs[x]
    BY <1>10, OverIs
  <1>14. {"est", "tx_status", "tx_len", "rx_len", "m_req", "pw"} \subseteq DOMAIN ResetRegs
    BY ResetTyped DEF Reg
  <1> QED BY <1>11, <1>12, <1>13, <1>14, ResetTyped

-----------------------------------------------------------------------------
(* The inductive invariant.                                                *)
Inv == TypeInv /\ EngOf(mac) /\ PortOf(mac) /\ GatherInv /\ DueInv

(* The driver's settings establish the invariant.                          *)
LEMMA InvInit == Init => Inv
  <1> SUFFICES ASSUME Init PROVE Inv
    OBVIOUS
  <1>1. PICK p \in Programs : mac = p ++ PowerUp
    BY DEF Init
  <1>2. DOMAIN p \subseteq Programmable /\ \A x \in DOMAIN p : p[x] \in MacType[x]
    BY DmaAssumption
  <1>3. \A x \in Programmable : x \in DOMAIN MacType /\ x # "pw"
    BY DEF Programmable, MacType
  <1>4. \A x \in DOMAIN MacType : x \in DOMAIN RegType /\ (x # "pw" => RegType[x] = MacType[x])
    BY DEF RegType
  <1>5. Typed(p, RegType)
    BY <1>2, <1>3, <1>4 DEF Typed
  <1>6. Typed(mac, RegType)
    BY <1>1, <1>5, PowerUpTyped, TypedOver
  <1>7. DOMAIN mac = DOMAIN RegType
    <2>1. DOMAIN p \subseteq DOMAIN RegType
      BY <1>5 DEF Typed
    <2> QED BY <1>1, <2>1, PowerUpTyped, OverIs
  <1>8. /\ mac.est = "E_IDLE" /\ mac.tx_status = {"READY"} /\ mac.tx_len = 0
        /\ mac.rx_len = 0 /\ mac.m_req = FALSE /\ mac.pw = None
    <2>1. \A x \in DOMAIN RegType : x \notin DOMAIN p => mac[x] = PowerUp[x]
      BY <1>1, PowerUpTyped, OverIs
    <2>2. \A x \in {"est", "tx_status", "tx_len", "rx_len", "m_req", "pw"} :
              x \notin DOMAIN p /\ x \in DOMAIN RegType
      BY <1>2, RegTypeIs DEF Programmable, Reg
    <2> QED BY <2>1, <2>2, PowerUpTyped
  <1>9. ram \in [0 .. (RamTop - 1) -> Byte]
    BY DmaAssumption DEF Init
  <1>10. TypeInv
    BY <1>6, <1>7, <1>8, <1>9 DEF TypeInv
  <1>11. EngOf(mac) /\ PortOf(mac)
    BY <1>8 DEF EngOf, PortOf, Busy, TxState
  <1>12. GatherInv
    <2>1. gathered = <<>>
      BY DEF Init
    <2>2. gathered \in Seq(Byte) /\ Len(gathered) = 0
      BY <2>1
    <2>3. \A i \in 1 .. 0 : gathered[i] = NewPkt[i - 1]
      OBVIOUS
    <2> QED BY <1>8, <2>2, <2>3 DEF GatherInv
  <1>13. DueInv
    BY <1>8 DEF DueInv, RxState
  <1> QED BY <1>10, <1>11, <1>12, <1>13 DEF Inv

(* Every clock preserves it.                                               *)
LEMMA InvNext == Inv /\ [Next]_vars => Inv'
  <1> SUFFICES ASSUME Inv, [Next]_vars PROVE Inv'
    OBVIOUS
  <1>1. CASE Next
    <2>1. PICK w \in Writes \cup {None}, tick \in BOOLEAN, m_ack \in BOOLEAN :
              Clock(w, tick, m_ack)
      BY <1>1 DEF Next
    <2> DEFINE b == IF m_ack THEN ram[mac.m_addr] ELSE NoByte
               s == Left(w)
    <2>2. (m_ack => mac.m_req) /\ History(w, m_ack, b)
      BY <2>1 DEF Clock, Ack
    <2>3. EngineTyped(w, m_ack, b)
      BY <2>1, ClockEffects DEF Inv
    <2> HIDE DEF b, s
    <2>4. /\ b \in Byte /\ ram' \in [0 .. (RamTop - 1) -> Byte]
          /\ DOMAIN mac' = DOMAIN RegType /\ Typed(mac', RegType)
          /\ LeftInv(s, w) /\ Effects(s, m_ack, b)
      BY <2>3 DEF EngineTyped, s
    <2>5. EngOf(mac') /\ PortOf(mac') /\ NextOf(mac') /\ GatherEff(b) /\ DueEff(s, m_ack)
      BY <2>4 DEF Effects
    <2>6. (DOMAIN RegType)' = DOMAIN RegType /\ RegType' = RegType
      BY DEF RegType, MacType, PwType
    <2>7. TypeInv'
      BY <2>4, <2>5, <2>6 DEF TypeInv, NextOf, Typed
    <2>8. EngOf(mac)' /\ PortOf(mac)'
      BY <2>5 DEF EngOf, PortOf, Busy
    <2>9. GatherInv'
      BY <2>2, <2>4, <2>5, GatherStep DEF Inv
    <2>10. DueInv'
      BY <2>2, <2>4, <2>5, DueStep DEF Inv
    <2> QED BY <2>7, <2>8, <2>9, <2>10 DEF Inv
  <1>2. CASE UNCHANGED vars
    <2>1. mac' = mac /\ ram' = ram /\ gathered' = gathered /\ due' = due
          /\ delivered' = delivered /\ cut' = cut
      BY <1>2 DEF vars, hist
    <2>2. TypeInv'
      BY <2>1 DEF Inv, TypeInv, Typed, RegType, MacType, PwType
    <2>3. EngOf(mac)' /\ PortOf(mac)'
      BY <2>1 DEF Inv, EngOf, PortOf, Busy
    <2>4. GatherInv'
      BY <2>1 DEF Inv, GatherInv, NewPkt
    <2>5. DueInv'
      BY <2>1 DEF Inv, DueInv, Copied
    <2> QED BY <2>2, <2>3, <2>4, <2>5 DEF Inv
  <1> QED BY <1>1, <1>2

(* The invariant holds throughout.                                         *)
THEOREM InvAlways == Spec => []Inv
  <1> QED BY InvInit, InvNext, PTL DEF Spec

(* Every register keeps its range: the DMA pointers stay within the        *)
(* address space, the packet's length and position within the buffer,      *)
(* whatever the CPU writes (next_enet_dma.sv's register assignments).      *)
THEOREM TypeCorrect == Spec => []MacTypeOK
  <1>1. Inv => MacTypeOK
    <2> SUFFICES ASSUME TypeInv, NEW x \in DOMAIN MacType PROVE mac[x] \in MacType[x]
      BY DEF Inv, MacTypeOK
    <2>1. x \in DOMAIN RegType /\ (x # "pw" => RegType[x] = MacType[x])
      BY DEF RegType
    <2>2. x # "pw"
      BY DEF MacType
    <2> QED BY <2>1, <2>2 DEF TypeInv, Typed
  <1> QED BY <1>1, InvAlways, PTL

(* NET_BUSY of the transmit status is set exactly while a packet waits to  *)
(* be delivered, however its delivery ends and whatever register write of  *)
(* the CPU meets it in the same clock (rx_len and tx_status are assigned   *)
(* together in next_enet_dma.sv).                                          *)
THEOREM BusyMeansPending == Spec => []NetBusyMeansPending
  <1>1. Inv => NetBusyMeansPending
    BY DEF Inv, EngOf, Busy, NetBusyMeansPending
  <1> QED BY <1>1, InvAlways, PTL

(* At E_RX_END the bytes written to RAM are those gathered from RAM,       *)
(* padded and with room for the CRC, for any division of either side into  *)
(* DMA windows, unless the controller was reset since the packet was       *)
(* queued.                                                                 *)
THEOREM DeliveredIntact == Spec => []PacketIntact
  <1>1. Inv => PacketIntact
    <2> SUFFICES ASSUME Inv, mac.est = "E_RX_END", ~cut
                 PROVE  /\ Len(delivered) = Padded(Len(due))
                        /\ SubSeq(delivered, 1, Len(due)) = due
      BY DEF PacketIntact, Intact
    <2>1. Copied /\ mac.rx_pos >= mac.rx_len
      BY DEF Inv, DueInv, RxState
    <2>2. /\ due \in Seq(Byte) /\ Len(due) <= BufLen /\ mac.rx_len = Padded(Len(due))
          /\ delivered \in Seq(Byte) /\ Len(delivered) = mac.rx_pos /\ mac.rx_pos <= mac.rx_len
          /\ \A i \in 1 .. Len(due) : i <= mac.rx_pos => delivered[i] = due[i]
      BY <2>1 DEF Copied
    <2>3. mac.rx_pos \in Int /\ mac.rx_len \in Int
      BY MacTypes, SizeAssumption DEF Inv, Buf
    <2>4. Len(delivered) = Padded(Len(due))
      BY <2>1, <2>2, <2>3
    <2>5. Len(due) \in 0 .. BufLen /\ Len(due) <= Len(delivered)
      BY <2>2, <2>4, PaddedIs, SizeAssumption
    <2>6. SubSeq(delivered, 1, Len(due)) = [i \in 1 .. Len(due) |-> delivered[i]]
      BY <2>2, <2>5
    <2>7. due = [i \in 1 .. Len(due) |-> due[i]]
      BY <2>2
    <2>8. \A i \in 1 .. Len(due) : delivered[i] = due[i]
      BY <2>2, <2>5
    <2> QED BY <2>4, <2>6, <2>7, <2>8
  <1> QED BY <1>1, InvAlways, PTL
=============================================================================
