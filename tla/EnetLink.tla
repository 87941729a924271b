------------------------------ MODULE EnetLink -----------------------------
(***************************************************************************)
(* The guest's way to the network: the MB8795 (EnetMac) and the bridge     *)
(* (EnetBridge) in lock step, the mailbox in DDR3 between the bridge and   *)
(* the ARM daemon, the OSD's link switch and the two resets.               *)
(*                                                                         *)
(* External: the daemon, modelled from the bridge's description of the     *)
(* mailbox (it looks at MAGIC, fills a free receive slot, then increments  *)
(* RX_WPTR, in one pass); the guest's driver (it programs a stopped        *)
(* channel, then enables it); the mailbox port, an AtomicRam as DdramPort  *)
(* proves it.                                                              *)
(*                                                                         *)
(* Transmit frame k is the bytes TxEnd[k] .. TxEnd[k+1]-1 of guest RAM,    *)
(* where a byte's value is its address; the last Trail of them the channel *)
(* fetches but the wire does not see.  Byte p of receive frame k is        *)
(* RxByte(k, p).  A byte thus tells its frame and its place.               *)
(***************************************************************************)
EXTENDS EnetMac, EnetBridge

CONSTANTS TxEnd,        \* boundaries of the transmit frames in guest RAM
          RxLen,        \* RxLen[k]: length of the ARM's k-th frame
          Upsets,       \* disturbances considered: "flap", "reset", "dev_reset"
          MaxUpset,     \* bound on their number
          MaxMac        \* bound on station address changes

VARIABLES
    cable,              \* enet_connected: bridge enable and MAC cable_connected
    dev_reset,          \* the line a RESET instruction of the guest pulls
    box, box_ack,       \* the mailbox and the acknowledge of its port
    sent,               \* transmit frames the driver has enabled
    pushed,             \* receive frames the ARM has put in the ring
    upsets,             \* disturbances so far
    (* history: whether a MAGIC of this core has landed, the frames pushed  *)
    (* before the last one did, the last receive frame the MAC has taken in *)
    ours, gen_base, last_rx

linkVars == <<cable, upsets>>
boxVars == <<box, box_ack>>
hist == <<ours, gen_base, last_rx>>
vars == <<mac, br, dev_reset, linkVars, boxVars, sent, pushed, hist>>

TxFrames == Len(TxEnd) - 1
TxLen(k) == TxEnd[k + 1] - TxEnd[k]
WireLen(k) == IF TxLen(k) > Trail THEN TxLen(k) - Trail ELSE TxLen(k)
RxByte(k, p) == 100 * k + p
RxFrameWord(k, w) == [l \in 0 .. (Lanes - 1) |-> RxByte(k, (w - 1) * Lanes + l)]
StaleFrame == 9         \* number of a frame left by the preceding core

(* The driver sends frames that fit the packet buffer and a slot.          *)
ASSUME LinkAssumption ==
    /\ TxEnd \in Seq(0 .. RamTop) /\ Len(TxEnd) > 0 /\ RxLen \in Seq(Nat)
    /\ \A k \in 1 .. TxFrames : TxLen(k) \in 1 .. BufLen /\ WireLen(k) <= MaxFrame
    /\ MaxFrame <= BufLen
    /\ Upsets \subseteq {"flap", "reset", "dev_reset"} /\ {MaxUpset, MaxMac} \subseteq Nat

(* The core starts on a mailbox the preceding core left valid and full.    *)
Init ==
    /\ mac = PowerUp /\ br = BridgePowerUp
    /\ cable = TRUE /\ dev_reset = FALSE /\ upsets = 0
    /\ box = [w \in MailboxWord |->
                CASE w = A("MAGIC") -> TRUE
                  [] w[1] \in {"TXWPTR", "RXWPTR"} -> 1
                  [] w[1] \in {"RXRPTR", "MAC"} -> 0
                  [] w[1] \in {"TX", "RX"} ->
                       IF w[3] = 0 THEN 1 ELSE RxFrameWord(StaleFrame, w[3])]
    /\ box_ack = FALSE /\ sent = 0 /\ pushed = 0
    /\ ours = FALSE /\ gen_base = 0 /\ last_rx = 0
-----------------------------------------------------------------------------
(* The driver: bring the controller up, then send frame after frame, each  *)
(* with the pointer, the limit and the enable written in this order.       *)
Setup ==
    IF ~mac.dis_loop THEN [reg |-> "dis_loop", v |-> TRUE]
    ELSE IF mac.rx_mode = "none" THEN [reg |-> "rx_mode", v |-> "promiscuous"]
    ELSE [reg |-> "reset", v |-> FALSE]

Ready == ~mac.stopped /\ mac.dis_loop
Send ==
    LET k == sent + 1
        limit == [a |-> TxEnd[k + 1], f |-> TRUE]
    IN  IF mac.tx_next # TxEnd[k] THEN [reg |-> "tx_next", v |-> TxEnd[k]]
        ELSE IF mac.tx_limit # limit THEN [reg |-> "tx_limit", v |-> limit]
        ELSE [reg |-> "tx_csr", v |-> {"SETENABLE", "CLRCOMPLETE"}]

DriverWrites ==
    {None}
    \cup (IF Ready THEN {} ELSE {Setup})
    \cup (IF Ready /\ ~mac.tx_en /\ mac.est = "E_IDLE" /\ sent < TxFrames THEN {Send} ELSE {})
    \cup (IF mac.enet_mac < MaxMac THEN {[reg |-> "enet_mac", v |-> mac.enet_mac + 1]} ELSE {})

(* The mailbox port: the operation takes effect as the acknowledge rises.  *)
Access(answer) ==
    /\ answer => br.m_req /\ ~box_ack
    /\ box' = IF answer /\ br.m_we THEN [box EXCEPT ![br.m_addr] = br.m_wdata] ELSE box
    /\ LET publish == answer /\ br.m_we /\ br.m_addr = A("MAGIC") /\ br.m_wdata
       IN  ours' = (ours \/ publish) /\ gen_base' = IF publish THEN pushed ELSE gen_base
Rdata == box[br.m_addr]

(* The frame in the MAC's buffer when the bridge has streamed it in.       *)
Received == mac.est = "E_BRX" /\ mac.brx_pos >= br.brx_len
InBuffer(p) == IF mac.pw # None /\ mac.pw[1] = p THEN mac.pw[2] ELSE mac.pkt[p]

(* A clock outside core reset.  Guest RAM answers at once: its waits are   *)
(* EnetDma's subject.  dev_reset reaches the MAC, not the bridge.  A tick  *)
(* counts in the idle state only: elsewhere nothing looks at it.           *)
MacStep(w, tick) ==
    IF dev_reset THEN MacReset(br)
    ELSE MacClock(w, tick, mac.m_req, mac.m_addr, br, cable)
Clock(w, tick, poll_tick, answer) ==
    /\ dev_reset => w = None
    /\ tick => mac.est = "E_IDLE"
    /\ poll_tick => br.st = "S_IDLE"
    /\ Access(answer) /\ box_ack' = answer
    /\ MacStep(w, tick)
    /\ BridgeClock(cable, poll_tick, mac, brx_ready(cable), box_ack, Rdata)
    /\ sent' = IF w # None /\ w.reg = "tx_csr" THEN sent + 1 ELSE sent
    /\ last_rx' = IF Received /\ ~dev_reset THEN InBuffer(0) \div 100 ELSE last_rx
    /\ UNCHANGED <<dev_reset, linkVars, pushed>>

Run == \E w \in DriverWrites, tick, poll_tick, answer \in BOOLEAN :
           Clock(w, tick, poll_tick, answer)

Upset(kind) == kind \in Upsets /\ upsets < MaxUpset /\ upsets' = upsets + 1

(* Switches and resets last far longer than the bridge needs to come to    *)
(* rest: idle, off, or waiting for a byte the MAC will never send.         *)
AtRest == \/ br.st \in {"S_IDLE", "S_OFF"}
          \/ br.st = "S_TX_FETCH" /\ ~br.btx_rd /\ ~mac.btx_pending /\ ~mac.btx_ack

(* The guest executes a RESET instruction.                                 *)
DevReset ==
    /\ \/ ~dev_reset /\ Upset("dev_reset")
       \/ dev_reset /\ AtRest /\ UNCHANGED upsets
    /\ dev_reset' = ~dev_reset
    /\ UNCHANGED <<mac, br, cable, boxVars, sent, pushed, hist>>

(* The core is reset; a mailbox write under way lands or does not.         *)
Reset ==
    /\ Upset("reset")
    /\ MacReset(br) /\ br' = BridgeReset ++ br
    /\ \E answer \in BOOLEAN : Access(answer)
    /\ box_ack' = FALSE /\ dev_reset' = FALSE
    /\ UNCHANGED <<cable, sent, pushed, last_rx>>

(* The user works the link switch of the OSD.                              *)
Flap ==
    /\ Upset("flap")
    /\ cable' = ~cable /\ (cable \/ AtRest)
    /\ UNCHANGED <<mac, br, dev_reset, boxVars, sent, pushed, hist>>

(* The ARM daemon hands the guest a frame.                                 *)
ArmPush ==
    /\ box[A("MAGIC")] /\ pushed < Len(RxLen)
    /\ box[A("RXWPTR")] - box[A("RXRPTR")] < Slots
    /\ LET k == pushed + 1
           s == box[A("RXWPTR")] % Slots
       IN  box' = [w \in MailboxWord |->
                     IF w = A("RXWPTR") THEN box[w] + 1
                     ELSE IF w[1] = "RX" /\ w[2] = s
                     THEN IF w[3] = 0 THEN RxLen[k] ELSE RxFrameWord(k, w[3])
                     ELSE box[w]]
    /\ pushed' = pushed + 1
    /\ UNCHANGED <<mac, br, dev_reset, linkVars, box_ack, sent, hist>>

Next == Run \/ DevReset \/ Reset \/ Flap \/ ArmPush

Spec == Init /\ [][Next]_vars

(* The clock runs, the DDR3 answers, the two tick counters come round, and *)
(* come round at other clocks than the ones the bridge's idle state needs, *)
(* none of which needs the driver; a driver that has begun goes on.        *)
ClockRuns == \E tick, poll_tick, answer \in BOOLEAN : Clock(None, tick, poll_tick, answer)
Answers == \E tick, poll_tick \in BOOLEAN : Clock(None, tick, poll_tick, TRUE)
PollIdle(poll_tick) ==
    br.st = "S_IDLE" /\ \E tick, answer \in BOOLEAN : Clock(None, tick, poll_tick, answer)
TickIdle ==
    mac.est = "E_IDLE" /\ \E poll_tick, answer \in BOOLEAN : Clock(None, TRUE, poll_tick, answer)
DriverGoesOn ==
    \E w \in DriverWrites \ {None}, tick, poll_tick, answer \in BOOLEAN :
        Clock(w, tick, poll_tick, answer)
Fairness == /\ WF_vars(ClockRuns) /\ WF_vars(Answers) /\ WF_vars(DriverGoesOn)
            /\ SF_vars(PollIdle(TRUE)) /\ SF_vars(PollIdle(FALSE)) /\ SF_vars(TickIdle)
FairSpec == Spec /\ Fairness
-----------------------------------------------------------------------------
TypeOK ==
    /\ MacTypeOK /\ br.st \in BState /\ br.ret \in BState
    /\ br.m_addr \in MailboxWord /\ br.lane \in 0 .. (Lanes - 1)
    /\ {cable, dev_reset, ours} \subseteq BOOLEAN /\ box_ack \in BOOLEAN /\ box[A("MAGIC")] \in BOOLEAN
    /\ sent \in 0 .. TxFrames /\ pushed \in 0 .. Len(RxLen)

(* What the ARM finds in the transmit ring while MAGIC is valid: each of   *)
(* the last Slots - 1 published slots holds one whole frame of the guest,  *)
(* bytes and length, and the frames are in the order they were sent.  (The *)
(* slot after them may be being overwritten.)  The MAGIC and the ring the  *)
(* preceding core left do not count.                                       *)
TxSlotByte(p, i) == box[TxWord(p, 1 + i \div Lanes)][i % Lanes]
HoldsFrame(p, k) ==
    /\ box[TxWord(p, 0)] = WireLen(k)
    /\ \A i \in 0 .. (WireLen(k) - 1) : TxSlotByte(p, i) = TxEnd[k] + i
Published == {p \in 0 .. (box[A("TXWPTR")] - 1) : p > box[A("TXWPTR")] - Slots}
TxRingIntact ==
    box[A("MAGIC")] /\ ours =>
        \A p \in Published : \E k \in 1 .. sent :
            /\ HoldsFrame(p, k)
            /\ p + 1 \in Published => \E j \in (k + 1) .. sent : HoldsFrame(p + 1, j)

(* What the MAC takes in is a frame the ARM sent since MAGIC was last      *)
(* published, whole, and later than the one before: "neither side can      *)
(* consume stale DDR contents after a reset".                              *)
RxIntact ==
    Received => \E k \in (gen_base + 1) .. pushed :
        /\ k > last_rx /\ mac.brx_pos = RxLen[k]
        /\ \A p \in 0 .. (RxLen[k] - 1) : InBuffer(p) = RxByte(k, p)

(* "A disabled bridge is a disconnected wire.  Complete one pending guest  *)
(* transmit so the MAC does not wedge in E_BTX."                           *)
MacLeavesBtx == mac.est = "E_BTX" ~> mac.est # "E_BTX"

(* The bridge comes back to serve the next event.                          *)
BridgeReturns == []<>(br.st \in {"S_IDLE", "S_OFF"})

(* A frame the ARM has queued is fetched although polls that fall into     *)
(* other work are lost.                                                    *)
RxServed == (box[A("MAGIC")] /\ box[A("RXWPTR")] # box[A("RXRPTR")])
                ~> (box[A("RXWPTR")] = box[A("RXRPTR")] \/ ~cable)

(* The ARM learns the station address the guest has programmed.            *)
MacPublished == []<>(box[A("MAC")] = mac.enet_mac)
=============================================================================
