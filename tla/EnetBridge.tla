---------------------------- MODULE EnetBridge -----------------------------
(***************************************************************************)
(* next_enet_bridge.sv: frames between the MB8795 and the ARM daemon,      *)
(* through a mailbox in DDR3 shared memory.                                *)
(*                                                                         *)
(* br is the record of the module's registers; as in EnetMac the next      *)
(* value is the state's assignments ++ the unconditional ones ++ old.      *)
(* The poll counter is reduced to its tick.                                *)
(*                                                                         *)
(* A mailbox word is named <<kind, slot, word>>; word 0 of a slot is its   *)
(* header, the frame's length.                                             *)
(***************************************************************************)
EXTENDS Integers, Assign

CONSTANTS Lanes,        \* 8: bytes of a DDR3 word
          Slots,        \* 4: slots of each ring
          MaxFrame      \* 1600: longest frame accepted from the ARM

VARIABLE br

ASSUME BridgeAssumption == {Lanes, Slots, MaxFrame} \subseteq Nat \ {0}

BState == {"S_OFF", "S_INIT_CLEAR", "S_INIT_TXPTR", "S_INIT_RXWPTR", "S_INIT_RXRPTR",
           "S_INIT_MAC", "S_INIT_MAGIC", "S_IDLE", "S_TX_FETCH", "S_TX_PACK",
           "S_TX_WRITE", "S_TX_HDR", "S_TX_WPTR", "S_RX_POLL", "S_RX_HDR",
           "S_RX_READ", "S_RX_STREAM", "S_RX_RPTR", "S_MAC", "S_WAIT"}

A(kind) == <<kind, 0, 0>>
TxWord(p, w) == <<"TX", p % Slots, w>>
RxWord(p, w) == <<"RX", p % Slots, w>>
Words == (MaxFrame + Lanes - 1) \div Lanes
MailboxWord ==
    {A(k) : k \in {"MAGIC", "TXWPTR", "RXWPTR", "RXRPTR", "MAC"}}
    \cup ({"TX", "RX"} \X (0 .. (Slots - 1)) \X (0 .. Words))

EmptyPack == [l \in 0 .. (Lanes - 1) |-> 0]

BridgeReset == [
    st |-> "S_INIT_CLEAR", m_req |-> FALSE, tx_wptr |-> 0, rx_wptr |-> 0, rx_rptr |-> 0,
    mac_last |-> 0, mac_dirty |-> FALSE, btx_addr |-> 0, op_we |-> FALSE, op_rdata |-> 0,
    drop_seen |-> FALSE, disable_pending |-> FALSE,
    btx_rd |-> FALSE, btx_done |-> FALSE, brx_start |-> FALSE, brx_valid |-> FALSE]
BridgePowerUp == BridgeReset ++ [
    ret |-> "S_IDLE", m_we |-> FALSE, m_addr |-> A("MAGIC"), m_wdata |-> 0,
    pos |-> 0, lane |-> 0, pack |-> EmptyPack, cur_len |-> 0,
    brx_len |-> 0, brx_data |-> 0]
-----------------------------------------------------------------------------
(* One DDR3 operation, returning to state nxt.                             *)
ddr_op(we, a, d, nxt) ==
    [m_req |-> TRUE, m_we |-> we, m_addr |-> a, m_wdata |-> d, op_we |-> we,
     ret |-> nxt, st |-> "S_WAIT"]

Off(enable, m) ==
    (IF enable
     THEN [tx_wptr |-> 0, rx_wptr |-> 0, rx_rptr |-> 0, mac_dirty |-> FALSE,
           disable_pending |-> FALSE, st |-> "S_INIT_CLEAR"] ELSE <<>>) ++
    (IF m.btx_req /\ ~br.drop_seen
     THEN [btx_done |-> TRUE, drop_seen |-> TRUE] ELSE <<>>) ++
    [m_req |-> FALSE]

(* Mutant: MAGIC is not cleared first.                                     *)
InitNoClear ==
    [tx_wptr |-> 0, rx_wptr |-> 0, rx_rptr |-> 0, st |-> "S_INIT_TXPTR"]

InitClear ==
    [tx_wptr |-> 0, rx_wptr |-> 0, rx_rptr |-> 0] ++
    ddr_op(TRUE, A("MAGIC"), FALSE, "S_INIT_TXPTR")

InitMac(enable, m) ==
    [mac_last |-> m.enet_mac, mac_dirty |-> FALSE] ++
    (IF enable /\ ~br.disable_pending
     THEN ddr_op(TRUE, A("MAC"), m.enet_mac, "S_INIT_MAGIC")
     ELSE [disable_pending |-> FALSE] ++ ddr_op(TRUE, A("MAC"), m.enet_mac, "S_OFF"))

Idle(enable, poll_tick, m) ==
    IF br.disable_pending \/ ~enable
    THEN [disable_pending |-> FALSE, st |-> "S_INIT_CLEAR"]
    ELSE IF m.btx_req
    THEN [pos |-> 0, lane |-> 0, pack |-> EmptyPack, cur_len |-> m.btx_len,
          btx_addr |-> 0, btx_rd |-> TRUE, st |-> "S_TX_FETCH"]
    ELSE IF poll_tick THEN ddr_op(FALSE, A("RXWPTR"), 0, "S_RX_POLL")
    ELSE IF br.mac_dirty THEN [st |-> "S_MAC"]
    ELSE <<>>

(* Mutant: a word takes one byte too many.                                 *)
TxFetchLong(m) ==
    IF ~m.btx_ack THEN <<>>
    ELSE [pack |-> [br.pack EXCEPT ![br.lane] = m.btx_q]] ++
         IF br.pos + 1 >= br.cur_len \/ br.lane = Lanes
         THEN [st |-> "S_TX_WRITE"]
         ELSE [pos |-> br.pos + 1, lane |-> br.lane + 1,
               btx_addr |-> br.pos + 1, btx_rd |-> TRUE]

TxFetch(m) ==
    IF ~m.btx_ack THEN <<>>
    ELSE [pack |-> [br.pack EXCEPT ![br.lane] = m.btx_q]] ++
         IF br.pos + 1 >= br.cur_len \/ br.lane = Lanes - 1
         THEN [st |-> "S_TX_WRITE"]
         ELSE [pos |-> br.pos + 1, lane |-> br.lane + 1,
               btx_addr |-> br.pos + 1, btx_rd |-> TRUE]

(* Mutant: the header is not written.                                      *)
TxWriteNoHeader ==
    ddr_op(TRUE, TxWord(br.tx_wptr, 1 + br.pos \div Lanes), br.pack,
           IF br.pos + 1 >= br.cur_len THEN "S_TX_WPTR" ELSE "S_TX_PACK")

TxWrite ==
    ddr_op(TRUE, TxWord(br.tx_wptr, 1 + br.pos \div Lanes), br.pack,
           IF br.pos + 1 >= br.cur_len THEN "S_TX_HDR" ELSE "S_TX_PACK")

(* Mutant: the next byte is not asked for.                                 *)
TxPackNoRead == [pos |-> br.pos + 1, lane |-> 0, pack |-> EmptyPack,
                 btx_addr |-> br.pos + 1, st |-> "S_TX_FETCH"]

TxPack == [pos |-> br.pos + 1, lane |-> 0, pack |-> EmptyPack,
           btx_addr |-> br.pos + 1, btx_rd |-> TRUE, st |-> "S_TX_FETCH"]

TxWptr ==
    [tx_wptr |-> br.tx_wptr + 1, btx_done |-> TRUE, drop_seen |-> TRUE] ++
    ddr_op(TRUE, A("TXWPTR"), br.tx_wptr + 1, "S_IDLE")

(* Mutant: only a pointer that has moved since the last poll counts.       *)
RxPollEdge(ready) ==
    [rx_wptr |-> br.op_rdata] ++
    IF br.op_rdata # br.rx_wptr /\ ready
    THEN ddr_op(FALSE, RxWord(br.rx_rptr, 0), 0, "S_RX_HDR")
    ELSE [st |-> "S_IDLE"]

RxPoll(ready) ==
    [rx_wptr |-> br.op_rdata] ++
    IF br.op_rdata # br.rx_rptr /\ ready
    THEN ddr_op(FALSE, RxWord(br.rx_rptr, 0), 0, "S_RX_HDR")
    ELSE [st |-> "S_IDLE"]

RxHdr ==
    [cur_len |-> br.op_rdata, pos |-> 0] ++
    IF br.op_rdata = 0 \/ br.op_rdata > MaxFrame THEN [st |-> "S_RX_RPTR"]
    ELSE [brx_start |-> TRUE, brx_len |-> br.op_rdata] ++
         ddr_op(FALSE, RxWord(br.rx_rptr, 1), 0, "S_RX_READ")

RxStream ==
    [brx_valid |-> TRUE, brx_data |-> br.pack[br.lane], pos |-> br.pos + 1] ++
    IF br.pos + 1 >= br.cur_len THEN [st |-> "S_RX_RPTR"]
    ELSE IF br.lane = Lanes - 1
    THEN ddr_op(FALSE, RxWord(br.rx_rptr, 2 + br.pos \div Lanes), 0, "S_RX_READ")
    ELSE [lane |-> br.lane + 1]

RxRptr ==
    [rx_rptr |-> br.rx_rptr + 1] ++
    ddr_op(TRUE, A("RXRPTR"), br.rx_rptr + 1, "S_IDLE")

PublishMac(m) ==
    [mac_last |-> m.enet_mac, mac_dirty |-> FALSE] ++
    ddr_op(TRUE, A("MAC"), m.enet_mac, "S_IDLE")

(* Mutant: only writes are waited for.                                     *)
WaitWrites(m_ack, m_rdata) ==
    IF m_ack /\ br.op_we THEN [m_req |-> FALSE, st |-> br.ret] ELSE <<>>

Wait(m_ack, m_rdata) ==
    IF ~m_ack THEN <<>>
    ELSE (IF br.op_we THEN <<>> ELSE [op_rdata |-> m_rdata]) ++
         [m_req |-> FALSE, st |-> br.ret]

State(enable, poll_tick, m, ready, m_ack, m_rdata) ==
    CASE br.st = "S_OFF" -> Off(enable, m)
      [] br.st = "S_INIT_CLEAR" -> InitClear
      [] br.st = "S_INIT_TXPTR" -> ddr_op(TRUE, A("TXWPTR"), 0, "S_INIT_RXWPTR")
      [] br.st = "S_INIT_RXWPTR" -> ddr_op(TRUE, A("RXWPTR"), 0, "S_INIT_RXRPTR")
      [] br.st = "S_INIT_RXRPTR" -> ddr_op(TRUE, A("RXRPTR"), 0, "S_INIT_MAC")
      [] br.st = "S_INIT_MAC" -> InitMac(enable, m)
      [] br.st = "S_INIT_MAGIC" -> ddr_op(TRUE, A("MAGIC"), TRUE, "S_IDLE")
      [] br.st = "S_IDLE" -> Idle(enable, poll_tick, m)
      [] br.st = "S_TX_FETCH" -> TxFetch(m)
      [] br.st = "S_TX_WRITE" -> TxWrite
      [] br.st = "S_TX_PACK" -> TxPack
      [] br.st = "S_TX_HDR" ->
           ddr_op(TRUE, TxWord(br.tx_wptr, 0), br.cur_len, "S_TX_WPTR")
      [] br.st = "S_TX_WPTR" -> TxWptr
      [] br.st = "S_RX_POLL" -> RxPoll(ready)
      [] br.st = "S_RX_HDR" -> RxHdr
      [] br.st = "S_RX_READ" -> [pack |-> br.op_rdata, lane |-> 0, st |-> "S_RX_STREAM"]
      [] br.st = "S_RX_STREAM" -> RxStream
      [] br.st = "S_RX_RPTR" -> RxRptr
      [] br.st = "S_MAC" -> PublishMac(m)
      [] br.st = "S_WAIT" -> Wait(m_ack, m_rdata)

(* Mutant: a new station address is not noticed.                           *)
AlwaysNoMac(enable, m) ==
    (IF ~m.btx_req THEN [drop_seen |-> FALSE] ELSE <<>>) ++
    (IF ~enable /\ br.st # "S_OFF" THEN [disable_pending |-> TRUE] ELSE <<>>) ++
    [btx_rd |-> FALSE, btx_done |-> FALSE, brx_start |-> FALSE, brx_valid |-> FALSE]

(* What happens in every clock, before the state's own assignments.        *)
Always(enable, m) ==
    (IF m.enet_mac # br.mac_last THEN [mac_dirty |-> TRUE] ELSE <<>>) ++
    (IF ~m.btx_req THEN [drop_seen |-> FALSE] ELSE <<>>) ++
    (IF ~enable /\ br.st # "S_OFF" THEN [disable_pending |-> TRUE] ELSE <<>>) ++
    [btx_rd |-> FALSE, btx_done |-> FALSE, brx_start |-> FALSE, brx_valid |-> FALSE]

(* A clock: m are the outputs of the MAC, ready its brx_ready.             *)
BridgeClock(enable, poll_tick, m, ready, m_ack, m_rdata) ==
    br' = State(enable, poll_tick, m, ready, m_ack, m_rdata) ++ Always(enable, m) ++ br
=============================================================================
