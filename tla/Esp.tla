-------------------------------- MODULE Esp --------------------------------
(***************************************************************************)
(* next_scsi.sv: the ESP SCSI controller, its disk target and the SCSI DMA *)
(* channel, clock by clock.                                                *)
(*                                                                         *)
(* e is the record of the module's registers.  The assignments of a clock  *)
(* are computed from the old registers and a later one wins: the engine's  *)
(* come first, those of a register access after them.                      *)
(*                                                                         *)
(* A token of the FIFO is a message, a data byte, or a whole CDB of an     *)
(* operation, a block address and a count. intstatus is the set of its     *)
(* causes; int, ge and tc are bits of status, mode_on is MODE_DMA of       *)
(* dma_control, d_en, d_sup, d_cmp and d_exc are bits of d_csr. dma_buf is *)
(* the sequence of the dma_buf_size bytes that end at dma_buf_limit. The   *)
(* microsecond counters gap_us and dly_us are only nought or not. db_q     *)
(* follows eng_addr: while the host has the buffer's address port, nobody  *)
(* looks at it.                                                            *)
(*                                                                         *)
(* Left out: transfers without the DMA bit, TRANSFER PAD, selection        *)
(* without ATN or with stop, TI in the command, message and status phases, *)
(* message rejection, the commands answered from a table, sense data,      *)
(* images of different sizes, ESPCTRL_RESET (the same hard_reset as the    *)
(* RESET command), dma_status, and the floppy's use of the channel.        *)
(***************************************************************************)
EXTENDS Integers, Sequences, Assign

CONSTANTS WordBytes,    \* 4: bytes of a DMA word
          BufBytes,     \* 16: bytes of the DMA channel's buffer
          SectBytes,    \* 512: bytes of a sector
          FifoDepth,    \* 16: entries of the controller's FIFO
          MaxFlush,     \* 15: largest count of queued flushes
          CounterTop,   \* 65536: a transfer count of nought
          Target,       \* the bus ids with a disk
          ReadOnly,     \* those whose image is write protected
          Blocks,       \* sectors of a disk image
          RamTop,       \* addresses below RamTop are main RAM
          AddrTop       \* largest pointer considered

ASSUME EspAssumption ==
    /\ {WordBytes, SectBytes, FifoDepth, MaxFlush, CounterTop, Blocks} \subseteq Nat \ {0}
    /\ BufBytes \in Nat /\ BufBytes % WordBytes = 0 /\ BufBytes > WordBytes
    /\ ReadOnly \subseteq Target
    /\ RamTop \in Nat /\ AddrTop \in Nat

VARIABLE e

NoAccess == [op |-> "none"]
Zero == 0               \* the byte FLUSH pads with
Data(b) == <<"DATA", b>>        \* a data byte as a token of the FIFO

EspReset == [
    xst |-> "X_IDLE", phase |-> "DO",
    fifo |-> <<>>, wr_tc |-> 0, counter |-> 0,
    command0 |-> "none", command1 |-> "none",
    cmd_inprogress |-> FALSE, cmd_waiting |-> FALSE, transfer_reported |-> FALSE,
    int |-> FALSE, ge |-> FALSE, tc |-> FALSE, intstatus |-> {},
    mode_dma |-> FALSE, mode_on |-> FALSE, dly |-> FALSE, gap |-> FALSE,
    resrept |-> FALSE, selectbusid |-> 0, t_unit |-> 0, cmd_busy |-> FALSE, mi_held |-> FALSE,
    cdb |-> <<"none", 0, 0>>,
    lba |-> 0, blockcounter |-> 0, t_status |-> "GOOD", rd_ret |-> "dispatch",
    buf_pos |-> 0, buf_limit |-> 0,
    dbuf |-> [i \in 0 .. (SectBytes - 1) |-> Zero], db_q |-> Zero,
    eng_we |-> FALSE, eng_addr |-> 0, eng_wd |-> Zero,
    sd_rd |-> FALSE, sd_wr |-> FALSE, sd_lba |-> 0, sd_read_owned |-> FALSE,
    d_en |-> FALSE, d_sup |-> FALSE, d_cmp |-> FALSE, d_exc |-> FALSE,
    d_dev2m |-> FALSE, d_next |-> 0, d_limit |-> 0, d_start |-> 0, d_stop |-> 0,
    dma_buf |-> <<>>, dma_buf_limit |-> 0,
    dma_flush_count |-> 0, dma_flush_return |-> "X_IDLE", dma_flush_active |-> FALSE,
    dma_irq_resume |-> 0,
    m_req |-> FALSE, m_we |-> FALSE, m_addr |-> 0, m_din |-> <<>>]
-----------------------------------------------------------------------------
(* Tasks shared by the states of the engine. *)

dma_buf_size == Len(e.dma_buf)
m_err == e.m_req /\ e.m_addr >= RamTop

fifo_pop == IF e.fifo = <<>> THEN <<>> ELSE [fifo |-> Tail(e.fifo)]
fifo_push(v) ==
    IF Len(e.fifo) = FifoDepth
    THEN [fifo |-> Append(SubSeq(e.fifo, 1, FifoDepth - 1), v), ge |-> TRUE]
    ELSE [fifo |-> Append(e.fifo, v)]

dma_hit_limit ==
    [d_cmp |-> TRUE, gap |-> TRUE] ++
    (IF e.d_sup THEN [d_next |-> e.d_start, d_limit |-> e.d_stop, d_sup |-> FALSE]
     ELSE [d_en |-> FALSE])
HitLimitIf(c) == IF c THEN dma_hit_limit ELSE <<>>

dma_bus_exception == [d_en |-> FALSE, d_cmp |-> TRUE, d_exc |-> TRUE, gap |-> TRUE]

esp_irq(cause) == [intstatus |-> cause, dly |-> TRUE, xst |-> "X_INT_WAIT"]

(* esp_transfer_done(): bus service, and terminal count if that is why.    *)
transfer_done ==
    esp_irq({"BS"}) ++ (IF e.counter = 0 THEN [tc |-> TRUE] ELSE <<>>)

(* A byte enters the channel's buffer.                                     *)
buf_put(b) ==
    [dma_buf |-> Append(e.dma_buf, b), dma_buf_limit |-> e.dma_buf_limit + 1]

read_sector(ret) == [rd_ret |-> ret, xst |-> "X_RD_SECT"]
read_return ==
    CASE e.rd_ret = "dispatch" -> "X_POSTCMD"
      [] e.rd_ret = "dma" -> IF e.mode_on THEN "X_DI_CHK" ELSE "X_FDI_CHK"
check_condition == [t_status |-> "CHECK", phase |-> "ST"]

(* Mutant: a request to RAM is not withdrawn.                              *)
no_bus_kept == [sd_rd |-> FALSE, sd_wr |-> FALSE, sd_read_owned |-> FALSE]

no_bus == [m_req |-> FALSE, sd_rd |-> FALSE, sd_wr |-> FALSE, sd_read_owned |-> FALSE]
no_flush == [dma_flush_count |-> 0, dma_flush_active |-> FALSE, dma_irq_resume |-> 0]

(* RESET clears the configuration, CFG1_RESREPT (resrept) with it.         *)
hard_reset ==
    no_bus ++ no_flush ++
    [resrept |-> FALSE, cmd_busy |-> FALSE, mi_held |-> FALSE, fifo |-> <<>>,
     int |-> FALSE, ge |-> FALSE, tc |-> FALSE, intstatus |-> {}, mode_dma |-> FALSE,
     dma_flush_return |-> "X_IDLE", counter |-> 0,
     command0 |-> "none", command1 |-> "none",
     cmd_inprogress |-> FALSE, cmd_waiting |-> FALSE, transfer_reported |-> FALSE,
     xst |-> "X_IDLE"]
esp_disconnect_reset ==
    no_bus ++ no_flush ++ esp_irq({"DC"}) ++
    [cmd_busy |-> FALSE, mi_held |-> FALSE, phase |-> "DO",
     dma_flush_return |-> "X_IDLE"]
-----------------------------------------------------------------------------
(* The engine, state by state.  busy: the CPU accesses the FIFO in this    *)
(* clock, and an engine state that needs the FIFO tries again.             *)

sel_msg(busy) ==
    [phase |-> "MO"] ++
    (IF busy THEN <<>>
     ELSE fifo_pop ++ (IF e.fifo = <<>> THEN esp_irq({"BS", "FC"})
                       ELSE [xst |-> "X_SEL_CDB"]))
sel_cdb(busy) ==
    IF busy THEN [phase |-> "CD"]
    ELSE IF e.fifo = <<>> THEN [phase |-> "CD"] ++ esp_irq({"BS", "FC"})
    ELSE [phase |-> "CD", cdb |-> Head(e.fifo), xst |-> "X_DISPATCH"] ++ fifo_pop

disk_ro == e.t_unit \in ReadOnly
(* SCSI_Emulate_Command(): a command is READ, WRITE or one without data.   *)
dispatch ==
    LET op == e.cdb[1]
        extent == [lba |-> e.cdb[2], blockcounter |-> e.cdb[3]]
        then == [xst |-> "X_POSTCMD"]
    IN  [command0 |-> "none", command1 |-> "none", cmd_waiting |-> FALSE] ++
        CASE op = "READ" ->
                extent ++ [t_status |-> "GOOD", phase |-> "DI", buf_pos |-> 0, buf_limit |-> 0]
                     ++ read_sector("dispatch")
          [] op = "WRITE" /\ disk_ro ->
                check_condition ++ extent ++ then
          [] op = "WRITE" /\ ~disk_ro ->
                extent ++ [t_status |-> "GOOD", buf_pos |-> 0] ++ then ++
                (IF e.cdb[3] = 0 THEN [phase |-> "ST", buf_limit |-> 0]
                 ELSE [phase |-> "DO", buf_limit |-> SectBytes])
          [] op = "TEST UNIT READY" -> [t_status |-> "GOOD", phase |-> "ST"] ++ then
          [] OTHER -> check_condition ++ then

(* Mutant: the interrupt is not recorded as the transfer's completion.     *)
int_wait_forgets(gone) ==
    IF e.dly THEN (IF gone THEN [dly |-> FALSE] ELSE <<>>)
    ELSE [int |-> TRUE,
          xst |-> CASE e.dma_irq_resume = 1 -> "X_DI_CHK"
                    [] e.dma_irq_resume = 2 -> "X_DO_CHK"
                    [] e.dma_irq_resume = 0 -> "X_IDLE"]

int_wait(gone) ==
    IF e.dly THEN (IF gone THEN [dly |-> FALSE] ELSE <<>>)
    ELSE [int |-> TRUE,
          transfer_reported |-> e.transfer_reported \/ e.command0 = "TI",
          xst |-> CASE e.dma_irq_resume = 1 -> "X_DI_CHK"
                    [] e.dma_irq_resume = 2 -> "X_DO_CHK"
                    [] e.dma_irq_resume = 0 -> "X_IDLE"]

(* scsi_read_sector(), scsi_write_sector() and the host's block device.    *)
rd_sect ==
    IF e.blockcounter = 0 THEN [phase |-> "ST", xst |-> read_return]
    ELSE IF e.lba < Blocks THEN [sd_lba |-> e.lba, xst |-> "X_SD_RD_GO"]
    ELSE check_condition ++ [xst |-> read_return]
sd_rd_go(sd_ack) ==
    IF sd_ack THEN [sd_rd |-> FALSE, sd_read_owned |-> TRUE, xst |-> "X_SD_RD_ACK"]
    ELSE [sd_rd |-> TRUE]
next_block == [lba |-> e.lba + 1, blockcounter |-> e.blockcounter - 1]
sd_rd_ack(sd_ack) ==
    IF sd_ack THEN <<>>
    ELSE next_block ++ [sd_read_owned |-> FALSE, buf_pos |-> 0, buf_limit |-> SectBytes,
                        t_status |-> "GOOD", xst |-> read_return]

fifo_route == ~e.mode_dma \/ ~e.mode_on \/ e.fifo # <<>>
wr_sect ==
    IF e.lba < Blocks THEN [sd_lba |-> e.lba, xst |-> "X_SD_WR_GO"]
    ELSE check_condition ++ [xst |-> IF fifo_route THEN "X_FDO" ELSE "X_DO_CHK"]
sd_wr_go(sd_ack) ==
    IF sd_ack THEN [sd_wr |-> FALSE, xst |-> "X_SD_WR_ACK"] ELSE [sd_wr |-> TRUE]
sd_wr_ack(sd_ack) ==
    IF sd_ack THEN <<>>
    ELSE next_block ++ [buf_pos |-> 0, t_status |-> "GOOD",
                        xst |-> IF fifo_route THEN "X_FDO" ELSE "X_DO_PUT"]
         ++ (IF e.blockcounter = 1 THEN [phase |-> "ST"] ELSE <<>>)
-----------------------------------------------------------------------------
(* Data in: disk to memory. *)

drained == [dma_irq_resume |-> 0, xst |-> "X_IDLE"]
di_chk(busy) ==
    LET full == e.dma_buf_limit = BufBytes
        ready == e.d_en /\ ~e.gap
    IN  IF e.transfer_reported
        THEN IF e.mode_on /\ full /\ ready THEN [xst |-> "X_DI_WR"]
             ELSE IF e.dma_buf = <<>> THEN drained ELSE <<>>
        ELSE IF ~e.mode_on THEN [xst |-> "X_FDI_CHK"]
        ELSE IF full THEN (IF ready THEN [xst |-> "X_DI_WR"] ELSE <<>>)
        ELSE IF e.dma_irq_resume = 1 THEN (IF e.dma_buf = <<>> THEN drained ELSE <<>>)
        ELSE IF ~ready THEN <<>>
        ELSE IF e.fifo # <<>>
        THEN (IF busy THEN <<>> ELSE buf_put(Head(e.fifo)[2]) ++ fifo_pop)
        ELSE IF e.counter = 0 \/ e.phase # "DI"
        THEN HitLimitIf(e.d_next = e.d_limit) ++ transfer_done ++
             [dma_irq_resume |-> IF e.dma_buf # <<>> THEN 1 ELSE 0]
        ELSE IF e.buf_pos >= e.buf_limit THEN read_sector("dma")
        ELSE [eng_addr |-> e.buf_pos, xst |-> "X_DI_RD"]

(* A byte has been taken from the sector: after the last one the target    *)
(* changes phase if there is nothing more to send.                         *)
byte_taken ==
    [buf_pos |-> e.buf_pos + 1, counter |-> e.counter - 1] ++
    (IF e.buf_pos + 1 < e.buf_limit THEN <<>>
     ELSE IF e.blockcounter = 0 THEN [phase |-> "ST"]
     ELSE IF e.lba >= Blocks THEN check_condition ELSE <<>>)
di_get == byte_taken ++ buf_put(e.db_q) ++ [xst |-> "X_DI_CHK"]

(* One word from the head of the buffer, padded with zeros.                *)
head_word ==
    [i \in 1 .. WordBytes |-> IF i <= dma_buf_size THEN e.dma_buf[i] ELSE Zero]
write_word(flush) ==
    [m_req |-> TRUE, m_we |-> TRUE, m_addr |-> e.d_next, m_din |-> head_word,
     dma_flush_active |-> flush]
di_wr_request ==
    LET ready == e.d_en /\ ~e.gap
    IN  IF e.dma_flush_count # 0 THEN write_word(TRUE)
        ELSE IF ready /\ e.d_next < e.d_limit /\ dma_buf_size >= WordBytes
        THEN write_word(FALSE)
        ELSE IF ready /\ e.d_next >= e.d_limit
        THEN dma_hit_limit ++
             (IF ~e.transfer_reported /\ (e.counter = 0 \/ e.phase # "DI")
              THEN transfer_done ++ [dma_irq_resume |-> IF e.dma_buf # <<>> THEN 1 ELSE 0]
              ELSE [xst |-> "X_DI_CHK"])
        ELSE <<>>

(* The pointer and the buffer move on by a word.                           *)
at_limit == e.d_next + WordBytes >= e.d_limit
advance == [d_next |-> IF at_limit THEN e.d_limit ELSE e.d_next + WordBytes]
take_word ==
    IF dma_buf_size <= WordBytes THEN [dma_buf |-> <<>>, dma_buf_limit |-> 0]
    ELSE [dma_buf |-> SubSeq(e.dma_buf, WordBytes + 1, dma_buf_size)]
last_word == dma_buf_size <= WordBytes
resumed == e.dma_irq_resume = 1
irq_pending == e.dma_flush_return = "X_INT_WAIT"

flush_home ==
    IF e.dma_flush_count > 1 THEN "X_DI_WR"
    ELSE IF resumed /\ ~irq_pending THEN "X_IDLE" ELSE e.dma_flush_return

(* Mutants: a flush that ends at the limit of the window forgets the       *)
(* interrupt that is still being delayed; the flushes that are queued      *)
(* behind it go on.                                                        *)
limit_home_lost ==
    [dma_flush_count |-> 0, xst |-> IF resumed THEN "X_IDLE" ELSE e.dma_flush_return]
limit_home_queued ==
    [xst |-> IF e.dma_flush_count > 1 THEN "X_DI_WR"
             ELSE IF resumed /\ ~irq_pending THEN "X_IDLE" ELSE e.dma_flush_return]

limit_home ==
    [dma_flush_count |-> 0,
     xst |-> IF resumed /\ ~irq_pending THEN "X_IDLE" ELSE e.dma_flush_return]
flush_written ==
    (IF resumed /\ last_word THEN [dma_irq_resume |-> 0] ELSE <<>>) ++
    (IF at_limit THEN limit_home ++ dma_hit_limit ELSE [xst |-> flush_home])
word_written ==
    IF resumed /\ last_word THEN drained ++ HitLimitIf(at_limit)
    ELSE [xst |-> IF last_word THEN "X_DI_CHK" ELSE "X_DI_WR"]
di_wr(m_ack) ==
    IF ~e.m_req THEN di_wr_request
    ELSE IF m_err
    THEN no_flush ++ dma_bus_exception ++ [m_req |-> FALSE, xst |-> "X_IDLE"]
    ELSE IF m_ack
    THEN (IF e.dma_flush_active THEN flush_written ELSE word_written) ++
         [m_req |-> FALSE, dma_flush_active |-> FALSE] ++ advance ++ take_word
    ELSE <<>>

(* Data in through the FIFO, while MODE_DMA is clear. *)
fdi_chk ==
    IF e.transfer_reported \/ e.mode_on THEN [xst |-> "X_DI_CHK"]
    ELSE IF e.gap THEN <<>>
    ELSE IF e.counter = 0 \/ e.phase # "DI" THEN transfer_done
    ELSE IF Len(e.fifo) = FifoDepth THEN <<>>
    ELSE IF e.buf_pos >= e.buf_limit THEN read_sector("dma")
    ELSE [eng_addr |-> e.buf_pos, xst |-> "X_FDI_WAIT"]
fdi_get(busy) ==
    IF busy THEN <<>>
    ELSE IF Len(e.fifo) = FifoDepth THEN [xst |-> "X_FDI_CHK"]
    ELSE byte_taken ++ fifo_push(Data(e.db_q)) ++ [xst |-> "X_FDI_CHK"]
-----------------------------------------------------------------------------
(* Data out: memory to disk. *)

retain(n) == [dma_irq_resume |-> n]
do_chk ==
    LET ready == e.d_en /\ ~e.gap
    IN  IF e.transfer_reported THEN [xst |-> "X_IDLE"]
        ELSE IF e.fifo # <<>> \/ ~e.mode_on THEN [xst |-> "X_FDO"]
        ELSE IF e.dma_irq_resume = 2 THEN <<>>
        ELSE IF e.dma_buf_limit = BufBytes
        THEN (IF ready THEN [xst |-> "X_DO_PUT"] ELSE <<>>)
        ELSE IF e.counter = 0 \/ e.phase # "DO"
        THEN HitLimitIf(e.d_en /\ e.d_next = e.d_limit) ++ transfer_done ++
             retain(IF e.dma_buf # <<>> THEN 2 ELSE 0)
        ELSE IF ~ready THEN <<>>
        ELSE IF e.d_next < e.d_limit THEN [xst |-> "X_DO_RD"]
        ELSE dma_hit_limit
do_rd(m_ack, m_dout) ==
    IF ~e.m_req
    THEN IF e.d_en /\ ~e.gap /\ e.d_next < e.d_limit
         THEN [m_req |-> TRUE, m_we |-> FALSE, m_addr |-> e.d_next] ELSE <<>>
    ELSE IF m_err
    THEN dma_bus_exception ++ [m_req |-> FALSE, dma_irq_resume |-> 0, xst |-> "X_IDLE"]
    ELSE IF m_ack
    THEN advance ++ [m_req |-> FALSE, dma_buf |-> e.dma_buf \o m_dout,
                     dma_buf_limit |-> e.dma_buf_limit + WordBytes, xst |-> "X_DO_CHK"]
    ELSE <<>>

(* Mutant: the sector is written one byte late.                            *)
sector_put_late(b) ==
    [eng_we |-> TRUE, eng_addr |-> e.buf_pos, eng_wd |-> b, buf_pos |-> e.buf_pos + 1] ++
    (IF e.buf_pos = e.buf_limit THEN [xst |-> "X_WR_SECT"] ELSE <<>>)

(* A byte goes to the sector buffer; the last one starts the write.        *)
sector_put(b) ==
    [eng_we |-> TRUE, eng_addr |-> e.buf_pos, eng_wd |-> b, buf_pos |-> e.buf_pos + 1] ++
    (IF e.buf_pos + 1 = e.buf_limit THEN [xst |-> "X_WR_SECT"] ELSE <<>>)
do_put ==
    IF e.dma_buf = <<>> THEN [dma_buf_limit |-> 0, xst |-> "X_DO_CHK"]
    ELSE IF e.counter = 0 \/ e.phase # "DO"
    THEN HitLimitIf(e.d_en /\ e.d_next = e.d_limit) ++ transfer_done ++ retain(2)
    ELSE sector_put(Head(e.dma_buf)) ++
         [counter |-> e.counter - 1, dma_buf |-> Tail(e.dma_buf),
          dma_buf_limit |-> IF dma_buf_size = 1 THEN 0 ELSE e.dma_buf_limit]
fdo(busy) ==
    IF busy THEN <<>>
    ELSE IF e.transfer_reported THEN [xst |-> "X_IDLE"]
    ELSE IF e.mode_dma /\ e.gap THEN <<>>
    ELSE IF e.mode_dma /\ e.counter = 0 THEN transfer_done
    ELSE IF e.phase # "DO" THEN esp_irq({"BS"})
    ELSE IF e.fifo # <<>>
    THEN sector_put(Head(e.fifo)[2]) ++ fifo_pop ++
         (IF e.mode_dma THEN [counter |-> e.counter - 1] ELSE <<>>)
    ELSE IF ~e.mode_dma THEN esp_irq({"BS"})
    ELSE IF e.mode_on THEN [xst |-> "X_DO_CHK"] ELSE <<>>

(* Initiator command complete: the status byte, then the message byte.     *)
iccs1(busy) ==
    IF busy THEN <<>> ELSE fifo_push(<<e.t_status>>) ++ [phase |-> "MI", xst |-> "X_ICCS2"]
iccs2(busy) ==
    IF busy THEN <<>>
    ELSE fifo_push(<<"COMPLETE">>) ++ [mi_held |-> TRUE] ++ esp_irq({"FC"})
-----------------------------------------------------------------------------
fifo_access(a) == a.op \in {"fifo", "pop"}
Engine(a, gone, sd_ack, m_ack, m_dout) ==
    LET busy == fifo_access(a)
    IN  CASE e.xst = "X_IDLE" -> <<>>
          [] e.xst = "X_SEL_MSG" -> sel_msg(busy)
          [] e.xst = "X_SEL_CDB" -> sel_cdb(busy)
          [] e.xst = "X_DISPATCH" -> dispatch
          [] e.xst = "X_POSTCMD" -> esp_irq({"BS", "FC"})
          [] e.xst = "X_INT_WAIT" -> int_wait(gone)
          [] e.xst = "X_RD_SECT" -> rd_sect
          [] e.xst = "X_SD_RD_GO" -> sd_rd_go(sd_ack)
          [] e.xst = "X_SD_RD_ACK" -> sd_rd_ack(sd_ack)
          [] e.xst = "X_WR_SECT" -> wr_sect
          [] e.xst = "X_SD_WR_GO" -> sd_wr_go(sd_ack)
          [] e.xst = "X_SD_WR_ACK" -> sd_wr_ack(sd_ack)
          [] e.xst = "X_DI_CHK" -> di_chk(busy)
          [] e.xst = "X_DI_RD" -> [xst |-> "X_DI_GET"]
          [] e.xst = "X_DI_GET" -> di_get
          [] e.xst = "X_DI_WR" -> di_wr(m_ack)
          [] e.xst = "X_FDI_CHK" -> fdi_chk
          [] e.xst = "X_FDI_WAIT" -> [xst |-> "X_FDI_GET"]
          [] e.xst = "X_FDI_GET" -> fdi_get(busy)
          [] e.xst = "X_DO_CHK" -> do_chk
          [] e.xst = "X_DO_RD" -> do_rd(m_ack, m_dout)
          [] e.xst = "X_DO_PUT" -> do_put
          [] e.xst = "X_FDO" -> fdo(busy)
          [] e.xst = "X_ICCS1" -> iccs1(busy)
          [] e.xst = "X_ICCS2" -> iccs2(busy)

(* The sector buffer: one write port, one registered read.  While the      *)
(* host's stream is ours, strobe (its byte's address, and the byte) writes *)
(* it, the last time perhaps when sd_ack has fallen.                       *)
in_sd_rd(sd_ack) ==
    e.xst \in {"X_SD_RD_GO", "X_SD_RD_ACK"} /\ (sd_ack \/ e.sd_read_owned)
DataBuffer(sd_ack, strobe) ==
    [eng_we |-> FALSE, db_q |-> e.dbuf[e.eng_addr]] ++
    (IF in_sd_rd(sd_ack)
     THEN IF strobe = <<>> THEN <<>> ELSE [dbuf |-> [e.dbuf EXCEPT ![strobe[1]] = strobe[2]]]
     ELSE IF e.eng_we THEN [dbuf |-> [e.dbuf EXCEPT ![e.eng_addr] = e.eng_wd]] ELSE <<>>)
-----------------------------------------------------------------------------
(* Register accesses. *)

start_ti ==
    [transfer_reported |-> FALSE, gap |-> TRUE] ++
    (IF ~e.cmd_busy THEN esp_irq({"ILL"})
     ELSE CASE e.phase = "DI" -> [xst |-> IF e.mode_on THEN "X_DI_CHK" ELSE "X_FDI_CHK"]
            [] e.phase = "DO" -> [xst |-> IF e.mode_on THEN "X_DO_CHK" ELSE "X_FDO"])
start_bus_reset ==
    no_bus ++ no_flush ++
    [cmd_busy |-> FALSE, mi_held |-> FALSE, mode_dma |-> FALSE, counter |-> 0,
     command0 |-> "none", command1 |-> "none", cmd_waiting |-> FALSE] ++
    (IF e.resrept THEN [cmd_inprogress |-> FALSE, xst |-> "X_IDLE"]
     ELSE [phase |-> "DO"] ++ esp_irq({"RST"}))

(* A select aborts whatever was left behind.                               *)
start_select ==
    no_bus ++ no_flush ++ [mi_held |-> FALSE] ++
    (IF e.selectbusid \in Target
     THEN [cmd_busy |-> TRUE, t_unit |-> e.selectbusid, xst |-> "X_SEL_MSG"]
     ELSE esp_irq({"DC"}) ++
          [command0 |-> "none", command1 |-> "none", cmd_waiting |-> FALSE,
           cmd_busy |-> FALSE, phase |-> "ST"])

(* Execute a command; TI carries the DMA bit, the others do not.           *)
start_command(c) ==
    (CASE c = "NOP" -> [cmd_inprogress |-> FALSE]
       [] c = "FLUSH FIFO" -> [cmd_inprogress |-> FALSE, fifo |-> <<>>]
       [] c = "RESET" -> hard_reset
       [] c = "BUS RESET" -> start_bus_reset
       [] c = "TI" -> start_ti
       [] c = "ICCS" -> [xst |-> "X_ICCS1"]
       [] c = "MSGACC" -> esp_disconnect_reset
       [] c = "SELECT ATN" -> start_select
       [] OTHER -> [command0 |-> "none", command1 |-> "none", cmd_waiting |-> FALSE] ++
                   esp_irq(e.intstatus \cup {"ILL"})) ++
    [command0 |-> c, cmd_inprogress |-> TRUE, dma_irq_resume |-> 0,
     mode_dma |-> c = "TI"] ++
    (IF c = "TI"
     THEN [counter |-> IF e.wr_tc = 0 THEN CounterTop ELSE e.wr_tc, tc |-> FALSE] ELSE <<>>)

(* The command register: two ranks, except for the resets.                 *)
write_command(c) ==
    IF c \in {"RESET", "BUS RESET"} THEN start_command(c)
    ELSE IF e.cmd_inprogress
    THEN [command1 |-> c, cmd_waiting |-> TRUE] ++
         (IF e.cmd_waiting THEN [ge |-> TRUE] ELSE <<>>)
    ELSE start_command(c) ++ [command1 |-> "none", cmd_waiting |-> FALSE]

(* dma_control: FLUSH makes an enabled channel with room in its window     *)
(* write one padded word and come back.                                    *)
flush_write(a) ==
    a.op = "ctl" /\ a.flush /\ e.d_en /\ e.d_dev2m /\ e.d_next < e.d_limit
(* Mutant: a flush at the edge at which the interrupt is raised comes back *)
(* to wait for it.                                                         *)
flush_from_anywhere == e.xst

(* An interrupt that expires on this edge has been raised by X_INT_WAIT.   *)
flush_from == IF e.xst = "X_INT_WAIT" /\ ~e.dly THEN "X_IDLE" ELSE e.xst
write_control(a) ==
    [mode_on |-> a.mode] ++
    (IF ~flush_write(a) THEN <<>>
     ELSE [xst |-> "X_DI_WR"] ++
          (IF e.dma_flush_count # 0 THEN <<>>
           ELSE [dma_flush_return |-> flush_from]))
flush_counter(a, m_ack) ==
    LET done == e.xst = "X_DI_WR" /\ e.m_req /\ m_ack /\ e.dma_flush_active
    IN  IF flush_write(a) /\ ~done /\ e.dma_flush_count < MaxFlush
        THEN [dma_flush_count |-> e.dma_flush_count + 1]
        ELSE IF done /\ ~flush_write(a) THEN [dma_flush_count |-> e.dma_flush_count - 1]
        ELSE <<>>

(* Reading INTSTATUS lowers the interrupt, which finishes the command and  *)
(* starts the one that waits.  status is written whole.                    *)
read_intstatus ==
    IF ~e.int THEN <<>>
    ELSE (IF e.cmd_waiting
          THEN start_command(e.command1) ++ [command1 |-> "none", cmd_waiting |-> FALSE]
          ELSE [cmd_inprogress |-> FALSE]) ++
         [intstatus |-> {}, int |-> FALSE, ge |-> FALSE, tc |-> e.tc]

(* Mutant: the bytes of an aborted transfer stay in the channel's buffer.  *)
init_buffer_kept == no_flush ++ [dma_flush_return |-> "X_IDLE"]

init_buffer ==
    no_flush ++ [dma_buf |-> <<>>, dma_buf_limit |-> 0, dma_flush_return |-> "X_IDLE"]

acknowledges(cmd) == "CLRCOMPLETE" \in cmd /\ (e.d_en \/ "SETENABLE" \in cmd)
write_csr(cmd, event) ==
    LET refused == /\ "SETENABLE" \in cmd
                   /\ e.d_next % WordBytes # 0 \/ e.d_limit % BufBytes # 0
    IN  (IF acknowledges(cmd) /\ ~event /\ ~refused THEN [d_cmp |-> FALSE] ELSE <<>>) ++
        (IF refused THEN dma_bus_exception
         ELSE IF "SETENABLE" \in cmd THEN [d_en |-> TRUE] ELSE <<>>) ++
        (IF "SETSUPDATE" \in cmd THEN [d_sup |-> TRUE] ELSE <<>>) ++
        (IF "INITBUF" \in cmd THEN init_buffer ELSE <<>>) ++
        (IF "RESET" \in cmd
         THEN [d_en |-> FALSE, d_sup |-> FALSE, d_cmp |-> FALSE, d_exc |-> e.d_exc]
         ELSE <<>>) ++
        [d_dev2m |-> "DEV2M" \in cmd]

Access(a, event) ==
    CASE a.op = "none" -> <<>>
      [] a.op = "fifo" -> fifo_push(a.token)
      [] a.op = "pop" -> fifo_pop
      [] a.op \in {"wr_tc", "selectbusid", "resrept", "d_next", "d_limit", "d_start", "d_stop"} ->
            [f \in {a.op} |-> a.v]
      [] a.op = "cmd" -> write_command(a.c)
      [] a.op = "ctl" -> write_control(a)
      [] a.op = "intstatus" -> read_intstatus
      [] a.op = "csr" -> write_csr(a.cmd, event)
      [] a.op = "init" -> [d_next |-> a.v, dma_buf_limit |-> a.v % BufBytes] ++ init_buffer

(* A clock.  a: the CPU's access; expired: the delays that run out; sd_ack *)
(* and strobe: the host's block device; m_ack, m_dout: the answer of RAM.  *)
EspClock(a, expired, sd_ack, strobe, m_ack, m_dout) ==
    LET eng == Engine(a, "dly" \in expired, sd_ack, m_ack, m_dout)
    IN  e' = Access(a, "d_cmp" \in DOMAIN eng) ++ eng ++ DataBuffer(sd_ack, strobe)
             ++ flush_counter(a, m_ack)
             ++ (IF "gap" \in expired THEN [gap |-> FALSE] ELSE <<>>) ++ e
-----------------------------------------------------------------------------
(* Types, and with them the edges of the counters: the transfer counter    *)
(* and the count of flushes never pass below nought, and the positions     *)
(* never leave their buffers.                                              *)
EspTypeOK ==
    /\ \A f \in {"cmd_inprogress", "cmd_waiting", "transfer_reported", "int", "ge", "tc",
                 "mode_dma", "mode_on", "dly", "gap", "cmd_busy", "mi_held", "eng_we",
                 "sd_rd", "sd_wr", "sd_read_owned", "resrept", "d_en", "d_sup", "d_cmp", "d_exc",
                 "d_dev2m", "dma_flush_active", "m_req", "m_we"} : e[f] \in BOOLEAN
    /\ e.intstatus \subseteq {"BS", "FC", "DC", "ILL", "RST"}
    /\ e.phase \in {"DI", "DO", "ST", "CD", "MO", "MI"}
    /\ Len(e.fifo) <= FifoDepth /\ e.counter \in 0 .. CounterTop
    /\ e.buf_pos \in 0 .. e.buf_limit /\ e.buf_limit \in {0, SectBytes}
    /\ e.eng_addr \in 0 .. (SectBytes - 1)
    /\ e.dma_buf_limit \in 0 .. BufBytes /\ dma_buf_size <= e.dma_buf_limit
    /\ e.dma_flush_count \in 0 .. MaxFlush /\ e.dma_irq_resume \in 0 .. 2
    /\ \A f \in {"d_next", "d_limit", "d_start", "d_stop", "m_addr"} : e[f] \in 0 .. AddrTop
    /\ e.sd_rd \/ e.sd_wr => e.sd_lba < Blocks
=============================================================================
