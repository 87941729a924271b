------------------------------ MODULE EnetMac ------------------------------
(***************************************************************************)
(* next_enet_dma.sv: the MB8795 with its two DMA channels, clock by clock. *)
(*                                                                         *)
(* mac is the record of the module's registers.  As in the RTL, the        *)
(* assignments of one clock are computed from the old registers and a      *)
(* later one wins: the next value is Engine ++ CpuWrite ++ old.            *)
(*                                                                         *)
(* A DMA limit register is [a |-> address, f |-> its EN_EOP flag].  Bytes  *)
(* are addressed directly; the byte lane selection within a word is left   *)
(* out, as are the saved pointers and the masks, which the engine never    *)
(* reads.  dst stands for the six captured destination bytes: the address  *)
(* filter depends on the packet's first byte.                              *)
(***************************************************************************)
EXTENDS Integers, FiniteSets, Sequences, Assign

CONSTANTS Byte,         \* byte values
          Me,           \* destination bytes that match the station address
          MinLen,       \* 60: short packets are padded to this
          CrcLen,       \* 4: place-holder CRC
          Trail,        \* 15: bytes the channel gathers past the packet end
          BufLen,       \* 2047: capacity of the packet buffer
          RamTop,       \* addresses below RamTop are main RAM
          AddrTop       \* largest DMA address considered

Addr == 0 .. AddrTop
Limit == [a : Addr, f : BOOLEAN]
Buf == 0 .. (BufLen + CrcLen)

ASSUME SizeAssumption ==
    /\ {CrcLen, Trail, RamTop, AddrTop} \subseteq Nat
    /\ {MinLen, BufLen} \subseteq Nat \ {0} /\ MinLen <= BufLen
    /\ RamTop <= AddrTop /\ Me \subseteq Byte /\ Byte # {}

VARIABLE mac

EState == {"E_IDLE", "E_TX_RD", "E_TX_ACK", "E_TX_END", "E_RX_WR", "E_RX_ACK",
           "E_RX_END", "E_BTX", "E_BRX", "E_RX_PRE"}
NoByte == CHOOSE b \in Byte : TRUE
None == [none |-> TRUE]

(* Reset values; pkt, pkt_q and the addresses of the ports keep theirs.    *)
ResetRegs == [
    est |-> "E_IDLE", stopped |-> TRUE, dis_loop |-> FALSE, rx_mode |-> "none",
    tx_status |-> {"READY"}, rx_status |-> {},
    tx_en |-> FALSE, tx_sup |-> FALSE, tx_cmp |-> FALSE, tx_exc |-> FALSE,
    rx_en |-> FALSE, rx_sup |-> FALSE, rx_cmp |-> FALSE, rx_exc |-> FALSE,
    tx_next |-> 0, tx_limit |-> [a |-> 0, f |-> FALSE],
    tx_start |-> 0, tx_stop |-> [a |-> 0, f |-> FALSE],
    rx_next |-> 0, rx_limit |-> 0, rx_start |-> 0, rx_stop |-> 0, rx_slimit |-> 0,
    tx_len |-> 0, rx_len |-> 0, rx_pos |-> 0, brx_pos |-> 0, dst |-> NoByte,
    m_req |-> FALSE, pw |-> None, enet_mac |-> 0,
    btx_req |-> FALSE, btx_len |-> 0, btx_q |-> NoByte,
    btx_ack |-> FALSE, btx_pending |-> FALSE]

PowerUp == ResetRegs ++ [pkt |-> [i \in Buf |-> NoByte], pkt_q |-> NoByte,
                         m_we |-> FALSE, m_addr |-> 0, m_din |-> NoByte]
-----------------------------------------------------------------------------
(* Wires. *)

(* tpe_select low: the thin wire, where tx_mode alone decides.             *)
loopback == ~mac.dis_loop
pkt_for_me == \/ mac.rx_mode = "promiscuous"
              \/ mac.rx_mode = "normal" /\ mac.dst \in Me
brx_ready(cable) == cable /\ mac.est = "E_IDLE" /\ mac.rx_len = 0 /\ ~mac.stopped
m_err == mac.m_req /\ mac.m_addr >= RamTop

Padded(n) == (IF n < MinLen THEN MinLen ELSE n) + CrcLen
EffLen == IF mac.tx_len > Trail THEN mac.tx_len - Trail ELSE mac.tx_len
-----------------------------------------------------------------------------
(* CPU register writes: register w.reg, value w.v (for the status          *)
(* registers, of the clearable bits the ones written as one).              *)

CsrCmd(en, sup, cmp, cmd) ==
    (IF "CLRCOMPLETE" \in cmd THEN [x \in {cmp} |-> FALSE] ELSE <<>>) ++
    (IF "SETENABLE" \in cmd THEN [x \in {en} |-> TRUE] ELSE <<>>) ++
    (IF "SETSUPDATE" \in cmd THEN [x \in {sup} |-> TRUE] ELSE <<>>) ++
    (IF "RESET" \in cmd THEN [x \in {en, sup, cmp} |-> FALSE] ELSE <<>>)

(* Mutant: a reset leaves the transmit status alone.                       *)
MbResetKeepsStatus(v) ==
    IF v THEN [stopped |-> TRUE, tx_len |-> 0, rx_len |-> 0] ELSE [stopped |-> FALSE]

MbReset(v) ==
    IF v THEN [stopped |-> TRUE, tx_status |-> {"READY"}, tx_len |-> 0, rx_len |-> 0]
    ELSE [stopped |-> FALSE]

CpuWrite(w) ==
    IF w = None THEN <<>> ELSE
    CASE w.reg = "tx_csr" -> CsrCmd("tx_en", "tx_sup", "tx_cmp", w.v)
      [] w.reg = "rx_csr" -> CsrCmd("rx_en", "rx_sup", "rx_cmp", w.v)
      [] w.reg = "reset" -> MbReset(w.v)
      [] w.reg = "tx_status" -> [tx_status |-> mac.tx_status \ w.v]
      [] w.reg = "rx_status" -> [rx_status |-> mac.rx_status \ w.v]
      [] w.reg \in {"enet_mac", "dis_loop", "rx_mode", "tx_next", "tx_limit", "tx_start", "tx_stop",
                    "rx_next", "rx_limit", "rx_start", "rx_stop"} -> [x \in {w.reg} |-> w.v]
-----------------------------------------------------------------------------
(* The transfer engine. *)

dma_done_tx ==
    [tx_cmp |-> TRUE] ++
    IF mac.tx_sup
    THEN [tx_next |-> mac.tx_start, tx_limit |-> mac.tx_stop, tx_sup |-> FALSE]
    ELSE [tx_en |-> FALSE]

dma_done_rx ==
    [rx_cmp |-> TRUE] ++
    IF mac.rx_sup
    THEN [rx_next |-> mac.rx_start, rx_limit |-> mac.rx_stop, rx_sup |-> FALSE]
    ELSE [rx_en |-> FALSE]

dma_bus_exception_tx ==
    [tx_en |-> FALSE, tx_cmp |-> TRUE, tx_exc |-> TRUE, tx_len |-> 0,
     btx_req |-> FALSE, btx_pending |-> FALSE, est |-> "E_IDLE", m_req |-> FALSE]

dma_bus_exception_rx ==
    [rx_en |-> FALSE, rx_cmp |-> TRUE, rx_exc |-> TRUE, rx_len |-> 0, rx_pos |-> 0,
     tx_status |-> mac.tx_status \ {"NET_BUSY"}, est |-> "E_IDLE", m_req |-> FALSE]

Collided == (mac.tx_status \cup {"16COLLS"}) \ {"TX_RECVD", "NET_BUSY"}

(* Mutant: a packet waits until the receive channel is enabled.            *)
EIdleNoOverflow(tick, bridge, cable) ==
    IF bridge.brx_start /\ brx_ready(cable) THEN [brx_pos |-> 0, est |-> "E_BRX"]
    ELSE IF ~tick \/ mac.stopped THEN <<>>
    ELSE IF mac.rx_len # 0
    THEN IF mac.rx_en
         THEN [rx_status |-> mac.rx_status \ {"PKT_OK"}, est |-> "E_RX_PRE"] ELSE <<>>
    ELSE IF "READY" \in mac.tx_status /\ mac.tx_en THEN [est |-> "E_TX_RD"]
    ELSE <<>>

EIdle(tick, bridge, cable) ==
    IF bridge.brx_start /\ brx_ready(cable) THEN [brx_pos |-> 0, est |-> "E_BRX"]
    ELSE IF ~tick \/ mac.stopped THEN <<>>
    ELSE IF mac.rx_len # 0
    THEN IF mac.rx_en
         THEN [rx_status |-> mac.rx_status \ {"PKT_OK"}, est |-> "E_RX_PRE"]
         ELSE [rx_status |-> (mac.rx_status \cup {"OVERFLOW"}) \ {"PKT_OK"},
               rx_len |-> 0, tx_status |-> mac.tx_status \ {"NET_BUSY"}]
    ELSE IF "READY" \in mac.tx_status /\ mac.tx_en THEN [est |-> "E_TX_RD"]
    ELSE <<>>

ETxRd ==
    IF mac.tx_next >= mac.tx_limit.a THEN [est |-> "E_TX_END"]
    ELSE [m_req |-> TRUE, m_we |-> FALSE, m_addr |-> mac.tx_next, est |-> "E_TX_ACK"]

(* Mutant: the buffer's capacity is not looked at.                         *)
ETxAckUnbounded(m_ack, b) ==
    IF m_err THEN dma_bus_exception_tx
    ELSE IF ~m_ack THEN <<>>
    ELSE [pw |-> <<mac.tx_len, b>>, tx_len |-> mac.tx_len + 1, m_req |-> FALSE,
          tx_next |-> mac.tx_next + 1, est |-> "E_TX_RD"]

ETxAck(m_ack, b) ==
    IF m_err THEN dma_bus_exception_tx
    ELSE IF ~m_ack THEN <<>>
    ELSE (IF mac.tx_len < BufLen
          THEN [pw |-> <<mac.tx_len, b>>, tx_len |-> mac.tx_len + 1] ELSE <<>>) ++
         (IF mac.tx_len = 0 THEN [dst |-> b] ELSE <<>>) ++
         [m_req |-> FALSE, tx_next |-> mac.tx_next + 1, est |-> "E_TX_RD"]

ETxEnd(cable) ==
    dma_done_tx ++
    (IF ~mac.tx_limit.f THEN [est |-> "E_IDLE"]
     ELSE IF loopback
     THEN (IF pkt_for_me
           THEN [tx_status |-> (mac.tx_status \cup {"NET_BUSY"}) \ {"TX_RECVD"},
                 rx_len |-> Padded(EffLen), rx_pos |-> 0]
           ELSE [tx_status |-> mac.tx_status \ {"TX_RECVD"}]) ++
          [tx_len |-> 0, est |-> "E_IDLE"]
     ELSE IF ~cable
     THEN [tx_status |-> Collided, tx_len |-> 0, est |-> "E_IDLE"]
     ELSE [tx_status |-> mac.tx_status \ {"TX_RECVD"},
           btx_req |-> TRUE, btx_len |-> EffLen, est |-> "E_BTX"])

EBtx(bridge, cable) ==
    (IF bridge.btx_done
     THEN [btx_req |-> FALSE, btx_pending |-> FALSE, tx_len |-> 0, est |-> "E_IDLE"]
     ELSE <<>>) ++
    (IF ~cable
     THEN [btx_req |-> FALSE, btx_pending |-> FALSE, tx_status |-> Collided,
           tx_len |-> 0, est |-> "E_IDLE"]
     ELSE IF mac.btx_pending
     THEN [btx_q |-> mac.pkt_q, btx_ack |-> TRUE, btx_pending |-> FALSE]
     ELSE IF bridge.btx_rd THEN [btx_pending |-> TRUE] ELSE <<>>) ++
    [btx_ack |-> FALSE]

EBrx(bridge, cable) ==
    (IF mac.brx_pos >= bridge.brx_len
     THEN (IF pkt_for_me /\ ~loopback /\ cable
           THEN [tx_status |-> mac.tx_status \cup {"NET_BUSY"},
                 rx_len |-> Padded(mac.brx_pos), rx_pos |-> 0] ELSE <<>>) ++
          [est |-> "E_IDLE"]
     ELSE <<>>) ++
    (IF bridge.brx_valid /\ mac.brx_pos < BufLen
     THEN [pw |-> <<mac.brx_pos, bridge.brx_data>>, brx_pos |-> mac.brx_pos + 1] ++
          (IF mac.brx_pos = 0 THEN [dst |-> bridge.brx_data] ELSE <<>>)
     ELSE <<>>)

ERxWr ==
    IF mac.rx_pos >= mac.rx_len THEN [est |-> "E_RX_END"]
    ELSE IF mac.rx_next >= mac.rx_limit THEN dma_done_rx ++ [est |-> "E_IDLE"]
    ELSE [m_req |-> TRUE, m_we |-> TRUE, m_addr |-> mac.rx_next,
          m_din |-> mac.pkt_q, est |-> "E_RX_ACK"]

(* Mutant: the next byte is taken before the buffer has read it.           *)
ERxAckNoPre(m_ack) ==
    IF m_err THEN dma_bus_exception_rx
    ELSE IF ~m_ack THEN <<>>
    ELSE [m_req |-> FALSE, rx_next |-> mac.rx_next + 1,
          rx_pos |-> mac.rx_pos + 1, est |-> "E_RX_WR"]

ERxAck(m_ack) ==
    IF m_err THEN dma_bus_exception_rx
    ELSE IF ~m_ack THEN <<>>
    ELSE [m_req |-> FALSE, rx_next |-> mac.rx_next + 1,
          rx_pos |-> mac.rx_pos + 1, est |-> "E_RX_PRE"]

ERxEnd ==
    dma_done_rx ++
    [rx_slimit |-> mac.rx_next, rx_status |-> mac.rx_status \cup {"PKT_OK"},
     tx_status |-> (mac.tx_status \cup {"TX_RECVD"}) \ {"NET_BUSY"},
     rx_len |-> 0, rx_pos |-> 0, est |-> "E_IDLE"]

Engine(tick, m_ack, m_dout, bridge, cable) ==
    CASE mac.est = "E_IDLE" -> EIdle(tick, bridge, cable)
      [] mac.est = "E_TX_RD" -> ETxRd
      [] mac.est = "E_TX_ACK" -> ETxAck(m_ack, m_dout)
      [] mac.est = "E_TX_END" -> ETxEnd(cable)
      [] mac.est = "E_BTX" -> EBtx(bridge, cable)
      [] mac.est = "E_BRX" -> EBrx(bridge, cable)
      [] mac.est = "E_RX_WR" -> ERxWr
      [] mac.est = "E_RX_ACK" -> ERxAck(m_ack)
      [] mac.est = "E_RX_PRE" -> [est |-> "E_RX_WR"]
      [] mac.est = "E_RX_END" -> ERxEnd

(* The packet buffer: one write port and one registered read port.         *)
Buffer(bridge) ==
    LET raddr == IF mac.est = "E_BTX" THEN bridge.btx_addr ELSE mac.rx_pos
    IN  [pkt_q |-> mac.pkt[raddr],
         pkt |-> IF mac.pw = None THEN mac.pkt
                 ELSE [mac.pkt EXCEPT ![mac.pw[1]] = mac.pw[2]],
         pw |-> None]

(* A clock: w is the CPU's register write or None, bridge the outputs of   *)
(* next_enet_bridge, cable the link state.                                 *)
MacClock(w, tick, m_ack, m_dout, bridge, cable) ==
    mac' = Engine(tick, m_ack, m_dout, bridge, cable) ++ CpuWrite(w)
           ++ Buffer(bridge) ++ mac

(* A clock in which dev_reset is asserted.                                 *)
MacReset(bridge) == mac' = ResetRegs ++ Buffer(bridge) ++ mac
-----------------------------------------------------------------------------
MacType == [
    est |-> EState, stopped |-> BOOLEAN, dis_loop |-> BOOLEAN,
    rx_mode |-> {"none", "normal", "promiscuous"},
    tx_status |-> SUBSET {"READY", "NET_BUSY", "TX_RECVD", "16COLLS"},
    rx_status |-> SUBSET {"PKT_OK", "OVERFLOW"},
    tx_en |-> BOOLEAN, tx_sup |-> BOOLEAN, tx_cmp |-> BOOLEAN, tx_exc |-> BOOLEAN,
    rx_en |-> BOOLEAN, rx_sup |-> BOOLEAN, rx_cmp |-> BOOLEAN, rx_exc |-> BOOLEAN,
    tx_next |-> Addr, tx_limit |-> Limit, tx_start |-> Addr, tx_stop |-> Limit,
    rx_next |-> Addr, rx_limit |-> Addr, rx_start |-> Addr, rx_stop |-> Addr,
    rx_slimit |-> Addr, tx_len |-> 0 .. BufLen, rx_len |-> Buf, rx_pos |-> Buf,
    brx_pos |-> 0 .. BufLen, dst |-> Byte, m_req |-> BOOLEAN, enet_mac |-> Nat,
    btx_req |-> BOOLEAN, btx_len |-> 0 .. BufLen, btx_q |-> Byte,
    btx_ack |-> BOOLEAN, btx_pending |-> BOOLEAN,
    pkt |-> [Buf -> Byte], pkt_q |-> Byte, m_we |-> BOOLEAN, m_addr |-> Addr, m_din |-> Byte]
MacTypeOK == \A x \in DOMAIN MacType : mac[x] \in MacType[x]
=============================================================================
