------------------------------ MODULE EnetDma ------------------------------
(***************************************************************************)
(* The MB8795 and its DMA channels at work on main RAM, with the wire      *)
(* unplugged: packets the guest transmits in loopback mode are gathered    *)
(* from RAM through EN_TX, filtered, padded and delivered back to RAM      *)
(* through EN_RX, while the CPU writes any register at any clock.          *)
(***************************************************************************)
EXTENDS EnetMac

CONSTANTS Programs,     \* register settings the driver has made beforehand
          Writes,       \* register writes the CPU may make while running
          TxByte        \* TxByte[a]: the byte the guest put at address a

(* The registers the driver may set, with their values; a pointer leaves   *)
(* room for the byte under way.  The status registers: what can be cleared.*)
Pointer == 0 .. (AddrTop - 1)
Writable == [
    tx_csr |-> SUBSET {"CLRCOMPLETE", "SETENABLE", "SETSUPDATE", "RESET"},
    rx_csr |-> SUBSET {"CLRCOMPLETE", "SETENABLE", "SETSUPDATE", "RESET"},
    reset |-> BOOLEAN, tx_status |-> SUBSET {"TX_RECVD", "16COLLS"},
    rx_status |-> SUBSET {"PKT_OK", "OVERFLOW"}, enet_mac |-> Nat, dis_loop |-> BOOLEAN,
    rx_mode |-> {"none", "normal", "promiscuous"},
    tx_next |-> Pointer, tx_limit |-> Limit, tx_start |-> Addr, tx_stop |-> Limit,
    rx_next |-> Pointer, rx_limit |-> Addr, rx_start |-> Addr, rx_stop |-> Addr]
Programmable == {"stopped", "dis_loop", "rx_mode", "tx_en", "tx_sup", "rx_en", "rx_sup",
                 "tx_next", "tx_limit", "tx_start", "tx_stop",
                 "rx_next", "rx_limit", "rx_start", "rx_stop"}
ASSUME DmaAssumption ==
    /\ RamTop \in 1 .. AddrTop /\ \A a \in 0 .. (RamTop - 1) : TxByte[a] \in Byte
    /\ \A p \in Programs :
        DOMAIN p \subseteq Programmable /\ \A x \in DOMAIN p : p[x] \in MacType[x]
    /\ \A w \in Writes :
        DOMAIN w = {"reg", "v"} /\ w.reg \in DOMAIN Writable /\ w.v \in Writable[w.reg]

VARIABLES
    ram,                \* main RAM
    (* history: what has been gathered since tx_len was 0, the packet that *)
    (* is due for delivery, what has been delivered of it, and whether the  *)
    (* MB8795 was reset since it became due                                 *)
    gathered, due, delivered, cut

hist == <<gathered, due, delivered, cut>>
vars == <<mac, ram, hist>>

Unplugged == [btx_addr |-> 0, btx_rd |-> FALSE, btx_done |-> FALSE,
              brx_start |-> FALSE, brx_len |-> 0, brx_valid |-> FALSE,
              brx_data |-> NoByte]

Init ==
    /\ mac \in {p ++ PowerUp : p \in Programs}
    /\ ram = [a \in 0 .. (RamTop - 1) |-> TxByte[a]]
    /\ gathered = <<>> /\ due = <<>> /\ delivered = <<>> /\ cut = FALSE

(* The bus answers the engine's request in this clock.                     *)
Ack(m_ack) == m_ack => mac.m_req /\ mac.m_addr < RamTop
RamStep(m_ack) ==
    ram' = IF m_ack /\ mac.m_we THEN [ram EXCEPT ![mac.m_addr] = mac.m_din] ELSE ram

History(w, m_ack, b) ==
    LET queued == mac.est = "E_TX_END" /\ mac'.rx_len # 0
    IN  /\ gathered' = IF mac'.tx_len = 0 THEN <<>>
                       ELSE IF mac'.tx_len > mac.tx_len THEN Append(gathered, b)
                       ELSE gathered
        /\ due' = IF queued THEN SubSeq(gathered, 1, EffLen) ELSE due
        /\ delivered' = IF queued THEN <<>>
                        ELSE IF m_ack /\ mac.m_we THEN Append(delivered, mac.m_din)
                        ELSE delivered
        /\ cut' = (~queued /\ (cut \/ (w # None /\ w.reg = "reset" /\ w.v)))

(* A tick outside E_IDLE is not looked at.                                 *)
Clock(w, tick, m_ack) ==
    LET b == IF m_ack THEN ram[mac.m_addr] ELSE NoByte
    IN  /\ Ack(m_ack)
        /\ tick => mac.est = "E_IDLE"
        /\ MacClock(w, tick, m_ack, b, Unplugged, FALSE)
        /\ RamStep(m_ack)
        /\ History(w, m_ack, b)

Next == \E w \in Writes \cup {None}, tick, m_ack \in BOOLEAN : Clock(w, tick, m_ack)

Spec == Init /\ [][Next]_vars

(* The clock runs, the 500 us tick recurs and the bus answers requests,    *)
(* none of which needs the CPU to write a register in the same clock.      *)
ClockRuns == \E tick, m_ack \in BOOLEAN : Clock(None, tick, m_ack)
Tick == \E m_ack \in BOOLEAN : Clock(None, TRUE, m_ack)
Answer == \E tick \in BOOLEAN : Clock(None, tick, TRUE)
FairSpec == Spec /\ WF_vars(ClockRuns) /\ SF_vars(mac.est = "E_IDLE" /\ Tick) /\ WF_vars(Answer)
-----------------------------------------------------------------------------
(* NET_BUSY says a packet is waiting to be delivered, whatever the CPU     *)
(* writes and however the delivery ends (all delivered, no receive buffer, *)
(* bus error, controller reset), same-clock collisions included.           *)
NetBusyMeansPending == ("NET_BUSY" \in mac.tx_status) <=> (mac.rx_len # 0)

(* A packet reported as received is the packet that was sent: its bytes in *)
(* order, padded to the minimum and with a CRC, however the transmit and   *)
(* the receive side are split into DMA buffers, unless the controller was  *)
(* reset meanwhile.                                                        *)
Intact == Len(delivered) = Padded(Len(due)) /\ SubSeq(delivered, 1, Len(due)) = due
PacketIntact == mac.est = "E_RX_END" /\ ~cut => Intact

(* The engine's comment on E_RX_END, "packet delivered completely", without *)
(* the exception.                                                           *)
DeliveredCompletely == mac.est = "E_RX_END" => Intact

(* A packet does not hold the buffer for ever: it is delivered, or dropped *)
(* because the channel is off, as long as the controller runs and the      *)
(* driver does not enable a used up window again and again.                *)
RxDrains ==
    []<>(mac.rx_len = 0 \/ mac.stopped \/ (mac.rx_en /\ mac.rx_next >= mac.rx_limit))
=============================================================================
