-------------------------------- MODULE Scsi -------------------------------
(***************************************************************************)
(* Disk transfers: the controller and its DMA channel (Esp), main RAM, the *)
(* block device behind hps_io, and the guest's driver.                     *)
(*                                                                         *)
(* External: the driver, modelled from docs/SCSI_DMA.md (the handler of    *)
(* the DMA interrupt), docs/SCSI_TI.md and the test benches (selection, TI,*)
(* flush pumps, ICCS, MESSAGE ACCEPTED); the ARM's block device, which     *)
(* streams a sector while sd_ack is high and may deliver the last strobe   *)
(* in the clock in which sd_ack is low again.                              *)
(*                                                                         *)
(* The bus is that of SystemBus: in S_IDLE the CPU comes before the DMA    *)
(* engines, its register access takes one clock (S_INT), and in the clock  *)
(* of mem_ready (here "ready") the engines come first.  The engines before *)
(* this channel in the chain may take a slot ("other").                    *)
(***************************************************************************)
EXTENDS Esp

CONSTANTS Request,      \* the transfers the guest may ask for
          Following,    \* those that may follow another, finished or given up
          MaxAttempt,   \* bound on the attempts of a run
          MaxPass,      \* bound on the slots lost to other DMA engines
          Pumps,        \* 8: FLUSH writes after a transfer to memory
          Resrept,      \* CFG1_RESREPT as the driver writes the configuration:
                        \* a bus reset is not reported
          Abort         \* the reset commands the driver gives up with

(* op, lba, n: the CDB.  unit: the bus id.  win: the boundaries of the DMA *)
(* windows.  late: MODE_DMA is set after the transfer has started.         *)
ASSUME ScsiAssumption ==
    /\ \A r \in Request :
        /\ r.op \in {"READ", "WRITE", "TEST UNIT READY", "OTHER"}
        /\ r.lba \in Nat /\ r.n \in Nat /\ r.late \in BOOLEAN
        /\ \A k \in DOMAIN r.win : r.win[k] <= AddrTop
    /\ Following \subseteq Request
    /\ {MaxAttempt, MaxPass, Pumps} \subseteq Nat /\ Resrept \in BOOLEAN
    /\ Abort \subseteq {"RESET", "BUS RESET"}

VARIABLES
    ram, disk,
    sd_ack, strobe, host,       \* the block device: outputs and progress
    bus,                        \* the system's bus state machine
    passed,                     \* slots lost to other DMA engines since the
                                \* channel last had no word to move
    (* the driver: accesses it is about to make, the ESP command it has     *)
    (* given, whether it is in the second half of the DMA handler, the      *)
    (* windows handed over, the request, the status byte, and the attempts  *)
    todo, step, pc, queued, req, result, attempts

driverVars == <<todo, step, pc, queued, req, result, attempts>>
hostVars == <<sd_ack, strobe, host>>
vars == <<e, ram, disk, hostVars, bus, passed, driverVars>>

NWin(r) == Len(r.win) - 1
Write(o, v) == [op |-> o, v |-> v]
Command(c) == [op |-> "cmd", c |-> c]
Control(mode, flush) == [op |-> "ctl", mode |-> mode, flush |-> flush]
Csr(cmd) == [op |-> "csr", cmd |-> cmd]
Push(t) == [op |-> "fifo", token |-> t]
ReadInt == [op |-> "intstatus"]
Pop == [op |-> "pop"]

Direction(r) == IF r.op = "READ" THEN {"DEV2M"} ELSE {}
Handed(r, k) == IF k < NWin(r) THEN k + 1 ELSE k
(* Program window k and, where there is one, chain the next.  first: the   *)
(* channel's buffer is emptied and its fill position set by DMA_Init.      *)
Program(r, k, first) ==
    (IF first THEN <<Csr({"RESET", "INITBUF"}), Write("init", r.win[k])>>
     ELSE <<Csr({"RESET"}), Write("d_next", r.win[k])>>) \o
    <<Write("d_limit", r.win[k + 1])>> \o
    (IF k < NWin(r)
     THEN <<Write("d_start", r.win[k + 1]), Write("d_stop", r.win[k + 2]),
            Csr({"SETENABLE", "SETSUPDATE"} \cup Direction(r))>>
     ELSE <<Csr({"SETENABLE"} \cup Direction(r))>>)
(* The configuration is written at power-up and after each RESET.          *)
Configure == Write("resrept", Resrept)
Reset == <<Command("RESET"), Configure>>
Select(r) ==
    <<Write("selectbusid", r.unit), Push(<<"IDENTIFY">>), Push(<<r.op, r.lba, r.n>>),
      Command("SELECT ATN")>>
Reselect(r) == <<ReadInt, Command("FLUSH FIFO")>> \o Select(r)
Transfer(r) ==
    <<Write("wr_tc", r.n * SectBytes)>> \o
    (IF r.late THEN <<Command("TI"), Control(TRUE, FALSE)>>
     ELSE <<Control(TRUE, FALSE), Command("TI")>>)
Flushes(r) ==
    [i \in 1 .. (IF r.op = "READ" THEN Pumps ELSE 0) |-> Control(TRUE, TRUE)]
(* The next command may be queued before the interrupt is read.            *)
ReadThen(c) == {<<ReadInt, Command(c)>>, <<Command(c), ReadInt>>}

RamInit == [a \in 0 .. (RamTop - 1) |-> 100 + a]
DiskInit == [l \in 0 .. (Blocks - 1) |-> [i \in 0 .. (SectBytes - 1) |-> 1 + l * SectBytes + i]]
HostIdle == [st |-> "idle"]

Init ==
    /\ e = EspReset /\ ram = RamInit /\ disk = DiskInit
    /\ sd_ack = FALSE /\ strobe = <<>> /\ host = HostIdle /\ bus = "S_IDLE" /\ passed = 0
    /\ req \in Request /\ todo = <<Configure>> \o Select(req) /\ step = "select" /\ pc = "wait"
    /\ queued = 0 /\ result = "none" /\ attempts = 1
-----------------------------------------------------------------------------
(* The driver. *)

Go(s, p, accesses) == step' = s /\ pc' = p /\ todo' = accesses
Finish(res, accesses) ==
    Go("done", "wait", accesses) /\ result' = res /\ UNCHANGED queued
Give(s, accesses) == Go(s, "wait", accesses) /\ UNCHANGED <<queued, result>>

(* The channel stopped after the first k windows: program the next one.    *)
RestartAfter(k) ==
    /\ queued' = IF k < NWin(req) THEN Handed(req, k + 1) ELSE k
    /\ Go("transfer", "wait", IF k < NWin(req) THEN Program(req, k + 1, FALSE)
                              ELSE <<Csr({"RESET"})>>)
    /\ UNCHANGED result
(* The DMA handler reads the CSR, hands over the next window ...           *)
ReadCsr ==
    IF e.d_exc THEN Finish("failed", Reset)
    ELSE IF ~e.d_en THEN RestartAfter(queued)
    ELSE /\ queued' = Handed(req, queued) /\ UNCHANGED result
         /\ Go("transfer", "check",
               IF queued < NWin(req)
               THEN <<Write("d_start", req.win[queued + 1]),
                      Write("d_stop", req.win[queued + 2]),
                      Csr({"SETSUPDATE", "CLRCOMPLETE"} \cup Direction(req))>>
               ELSE <<Csr({"CLRCOMPLETE"} \cup Direction(req))>>)
(* ... and looks whether the channel stopped meanwhile.                    *)
CheckCsr ==
    IF e.d_exc THEN Finish("failed", Reset)
    ELSE IF e.d_cmp /\ ~e.d_en THEN RestartAfter(IF e.d_sup THEN queued - 1 ELSE queued)
    ELSE Go("transfer", "wait", <<>>) /\ UNCHANGED <<queued, result>>

(* The handler of the controller's interrupt.                              *)
Selected ==
    IF "DC" \in e.intstatus THEN Finish("absent", <<ReadInt, Command("FLUSH FIFO")>>)
    ELSE IF e.phase \in {"DI", "DO"}
    THEN /\ Go("transfer", "wait", <<ReadInt>> \o Program(req, 1, TRUE) \o Transfer(req))
         /\ queued' = Handed(req, 1) /\ UNCHANGED result
    ELSE \E c \in ReadThen("ICCS") : Give("status", c)
(* After a transfer: pump the channel, switch it off, ask for the status.  *)
(* A driver that polls STAT_TC pumps before the interrupt comes.           *)
Transferred(pumped) ==
    \E c \in ReadThen("ICCS") :
        Give("status", (IF pumped THEN <<>> ELSE Flushes(req))
                       \o <<Control(FALSE, FALSE)>> \o c)
Polled == step = "transfer" /\ e.tc /\ ~e.int /\ req.op = "READ" /\ Give("pumped", Flushes(req))
Completed == \E c \in ReadThen("MSGACC") : Give("accept", <<Pop, Pop>> \o c)
EspInterrupt ==
    \/ step = "select" /\ Selected
    \/ step = "transfer" /\ Transferred(FALSE)
    \/ step = "pumped" /\ Transferred(TRUE)
    \/ step = "status" /\ Completed
    \/ step = "accept" /\ Finish(IF e.d_exc THEN "failed" ELSE result, <<ReadInt>>)
    \/ step = "reset" /\ Give("select", Reselect(req))

(* The DMA interrupt, of the higher level, is served first.                *)
DmaPending == step = "transfer" /\ e.d_cmp
Handle ==
    \/ pc = "check" /\ CheckCsr
    \/ pc = "wait" /\ DmaPending /\ ReadCsr
    \/ pc = "wait" /\ ~DmaPending /\ e.int /\ EspInterrupt
    \/ pc = "wait" /\ ~DmaPending /\ Polled
    \/ step = "pumped" /\ e.d_exc /\ Finish("failed", Reset)

Perform(a) ==
    /\ bus = "S_INT" /\ todo # <<>> /\ a = Head(todo) /\ todo' = Tail(todo)
    /\ result' = IF a = Pop /\ result = "none" /\ e.fifo # <<>> THEN Head(e.fifo)[1] ELSE result
    /\ UNCHANGED <<step, pc, queued>>
Works(a) ==
    /\ Perform(a) \/ (todo = <<>> /\ a = NoAccess /\ Handle)
    /\ UNCHANGED <<req, attempts>>
NextRequest(a) ==
    /\ step = "done" /\ todo = <<>> /\ result # "failed" /\ attempts < MaxAttempt
    /\ a = NoAccess /\ attempts' = attempts + 1
    /\ \E r \in Following : req' = r /\ Go("select", "wait", Select(r))
    /\ result' = "none" /\ queued' = 0
Pause(a) == a = NoAccess /\ (bus = "S_INT" => todo = <<>>) /\ UNCHANGED driverVars

(* The driver gives up waiting and resets, then tries again or goes on     *)
(* with another request.  While the block device is at work it does not,   *)
(* nor between a RESET and the write of the configuration, where it does   *)
(* not wait.                                                               *)
Recover(c) == IF c = "RESET" THEN <<Configure>> ELSE <<>>
SdBusy == e.xst \in {"X_SD_RD_GO", "X_SD_RD_ACK", "X_SD_WR_GO", "X_SD_WR_ACK"}
GiveUp(a) ==
    /\ bus = "S_INT" /\ step # "done" /\ attempts < MaxAttempt /\ ~SdBusy
    /\ \A i \in DOMAIN todo : todo[i].op # "resrept"
    /\ \E c \in Abort, r \in Following :
        /\ a = Command(c) /\ req' = r
        /\ IF c = "BUS RESET" /\ ~Resrept THEN Go("reset", "wait", <<>>)
           ELSE Go("select", "wait", Recover(c) \o Reselect(r))
    /\ result' = "none" /\ queued' = 0 /\ attempts' = attempts + 1

Driver(a) == Works(a) \/ NextRequest(a) \/ Pause(a) \/ GiveUp(a)
Accesses == {NoAccess} \cup {todo[i] : i \in 1 .. (IF todo = <<>> THEN 0 ELSE 1)}
            \cup {Command(c) : c \in Abort}
-----------------------------------------------------------------------------
(* The block device: outputs in the next clock.                            *)
HostTakes ==
    /\ host = HostIdle /\ (e.sd_rd \/ e.sd_wr)
    /\ host' = [st |-> IF e.sd_rd THEN "rd" ELSE "wr", lba |-> e.sd_lba, n |-> 0]
    /\ sd_ack' = TRUE /\ strobe' = <<>> /\ UNCHANGED disk
HostWaits ==
    /\ host = HostIdle /\ strobe' = <<>> /\ UNCHANGED <<host, sd_ack, disk>>
HostReads ==
    /\ host.st = "rd" /\ UNCHANGED disk
    /\ IF host.n = SectBytes
       THEN strobe' = <<>> /\ sd_ack' = FALSE /\ host' = HostIdle
       ELSE /\ strobe' = <<host.n, disk[host.lba][host.n]>>
            /\ \/ sd_ack' = TRUE /\ host' = [host EXCEPT !.n = @ + 1]
               \/ host.n = SectBytes - 1 /\ sd_ack' = FALSE /\ host' = HostIdle
HostWrites ==
    /\ host.st = "wr"
    /\ disk' = [disk EXCEPT ![host.lba] = e.dbuf]
    /\ sd_ack' = FALSE /\ strobe' = <<>> /\ host' = HostIdle
Host == HostTakes \/ HostWaits \/ HostReads \/ HostWrites

m_dout == [i \in 1 .. WordBytes |-> ram[e.m_addr + i - 1]]
Ram(m_ack) ==
    ram' = IF m_ack /\ e.m_we
           THEN [a \in DOMAIN ram |-> IF a \in e.m_addr .. (e.m_addr + WordBytes - 1)
                                      THEN e.m_din[a - e.m_addr + 1] ELSE ram[a]]
           ELSE ram

Delays == (IF e.gap THEN {"gap"} ELSE {}) \cup
          (IF e.xst = "X_INT_WAIT" /\ e.dly THEN {"dly"} ELSE {})
(* mem_ready is up in the idle clock after an access.                      *)
CpuWants == todo # <<>> \/ (step # "done" /\ attempts < MaxAttempt)
Grant == IF e.m_req /\ e.m_addr < RamTop THEN "S_RAM_E" ELSE "S_IDLE"
Bus(m_ack) ==
    /\ m_ack => bus = "S_RAM_E"
    /\ \/ bus = "S_IDLE" /\ CpuWants /\ bus' = "S_INT"
       \/ bus \in {"S_IDLE", "ready"} /\ bus' = Grant
       \/ bus \in {"S_IDLE", "ready"} /\ e.m_req /\ passed < MaxPass /\ bus' = "other"
       \/ bus = "other" /\ bus' = "S_IDLE"
       \/ bus = "S_INT" /\ bus' = "ready"
       \/ bus = "S_RAM_E" /\ bus' = IF m_ack THEN "S_IDLE" ELSE "S_RAM_E"
    /\ passed' = IF bus' = "other" THEN passed + 1
                 ELSE IF e.m_req \/ e.dma_flush_count # 0 THEN passed ELSE 0

Clock(a, expired, m_ack) ==
    /\ Bus(m_ack)
    /\ EspClock(a, expired, sd_ack, strobe, m_ack, IF m_ack THEN m_dout ELSE <<>>)
    /\ Ram(m_ack)

Step(a, expired, m_ack) == Driver(a) /\ Clock(a, expired, m_ack) /\ Host
Next == \E a \in Accesses, expired \in SUBSET Delays, m_ack \in BOOLEAN :
    Step(a, expired, m_ack)
Spec == Init /\ [][Next]_vars

(* The clock runs; neither RAM nor a delay nor the block device hangs for  *)
(* ever; the driver gets on with its work, and its access is not kept from *)
(* the bus by engines that are served in one idle clock after another: in  *)
(* an idle clock the CPU comes first.                                      *)
Answered == bus = "S_RAM_E" /\ bus' = "S_IDLE" /\ Next
Expired ==
    /\ Delays # {}
    /\ \E a \in Accesses, expired \in (SUBSET Delays) \ {{}}, m_ack \in BOOLEAN :
        Step(a, expired, m_ack)
Streamed == (e.sd_rd \/ e.sd_wr \/ host # HostIdle) /\ sd_ack' = ~sd_ack /\ Next
Asked == bus = "S_IDLE" /\ bus' = "S_INT" /\ Next
Worked ==
    /\ bus = "S_INT" \/ todo = <<>>
    /\ \E a \in Accesses, expired \in SUBSET Delays, m_ack \in BOOLEAN :
        (Works(a) \/ NextRequest(a)) /\ Clock(a, expired, m_ack) /\ Host
Fairness == /\ WF_vars(Next) /\ WF_vars(Answered) /\ WF_vars(Expired) /\ WF_vars(Streamed)
            /\ WF_vars(Worked) /\ SF_vars(Asked)
FairSpec == Spec /\ Fairness
-----------------------------------------------------------------------------
(* Types of the controller (EspTypeOK, with the edges of its counters), of *)
(* the bus and of the driver.                                              *)
TypeOK ==
    /\ EspTypeOK
    /\ sd_ack \in BOOLEAN /\ bus \in {"S_IDLE", "S_INT", "ready", "S_RAM_E", "other"}
    /\ passed \in 0 .. MaxPass
    /\ queued \in 0 .. NWin(req)
    /\ step \in {"select", "transfer", "pumped", "status", "accept", "reset", "done"}

(* Every asserted interrupt has a cause.                                   *)
CauseNonzero == e.int => e.intstatus # {}

(* A command is answered by one interrupt: none is raised after the one    *)
(* that finished it has been read, whatever the channel still holds.       *)
OneInterrupt == [][~e.int /\ e'.int => e.cmd_inprogress]_vars

(* A RAM request is not left behind by a state change of the engine, a     *)
(* reset, a select or a command after the flush pumps, unless the channel  *)
(* has lost two slots to other DMA engines while it had words to move.     *)
NoOrphan == passed < 2 => (e.m_req => e.xst \in {"X_DI_WR", "X_DO_RD"})

(* What a finished request has done: the sectors that exist hold, or are   *)
(* held by, the memory of the request, byte for byte.                      *)
Exists(r) == {l \in 0 .. (Blocks - 1) : l >= r.lba /\ l < r.lba + r.n}
Home(r, l, i) == r.win[1] + (l - r.lba) * SectBytes + i
Copied(r) == \A l \in Exists(r), i \in 0 .. (SectBytes - 1) : ram[Home(r, l, i)] = disk[l][i]
Allowed(r) == /\ r.op \in {"READ", "WRITE", "TEST UNIT READY"}
              /\ r.op = "WRITE" => r.unit \notin ReadOnly
              /\ r.op # "TEST UNIT READY" => r.lba + r.n <= Blocks
DataIntact ==
    step = "done" /\ result \notin {"absent", "failed"} =>
        /\ result = (IF Allowed(req) THEN "GOOD" ELSE "CHECK")
        /\ req.op = "READ" \/ (req.op = "WRITE" /\ req.unit \notin ReadOnly) => Copied(req)

(* Memory is written inside the windows of a read only, the disk in the    *)
(* sectors of a write only.                                                *)
Confined ==
    [][/\ \A a \in DOMAIN ram : ram'[a] # ram[a] =>
              req.op = "READ" /\ req.win[1] <= a /\ a < req.win[Len(req.win)]
       /\ \A l \in DOMAIN disk : disk'[l] # disk[l] =>
              req.op = "WRITE" /\ req.unit \notin ReadOnly /\ l \in Exists(req)]_vars

(* Every request comes to an end.                                          *)
Ends == step # "done" ~> step = "done"
=============================================================================
