----------------------------- MODULE SystemBus -----------------------------
(***************************************************************************)
(* The bus of next_system.sv: one main RAM port and the internal device    *)
(* space, shared by the CPU, the MMU table walker and the DMA engines.     *)
(* One step is one clock; the RAM behind the port is AtomicRam, which      *)
(* DdramPort implements.                                                   *)
(*                                                                         *)
(* Engines are numbered by priority: 1 ethernet, 2 magneto-optical,        *)
(* 3 sound out, 4 SCSI, 5 printer, 6 sound in.                             *)
(*                                                                         *)
(* The CPU core (AP68040, a submodule) is external: it is modelled from    *)
(* how next_system.sv connects it.  It runs a bus cycle until mem_ready or *)
(* berr, never runs a walk and a bus cycle at once, drives the RESET line  *)
(* (dev_reset) from an instruction, and keeps a write-through cache that   *)
(* snoops dma_snoop_addr.                                                  *)
(***************************************************************************)
EXTENDS Integers

CONSTANTS NEngine,      \* number of DMA engines
          Cell,         \* words of main RAM
          Byte,         \* byte values
          CpuOps, WalkOps,           \* the operations the core may request
          DmaOps,       \* DmaOps[e]: the operations engine e may request
          None          \* "nothing"

Engine == 1 .. NEngine
Lane == 0 .. 3
Half == {0, 1}
CpuPort == 0
WalkPort == 0 - 1
BusPort == Engine \cup {CpuPort, WalkPort}
Word == [Lane -> Byte]
Word16 == [Half -> Byte]

(* at: where cpu_addr decodes to; lo: cpu_addr[1]; lanes: {~nuds, ~nlds}.  *)
CpuOp == [at : {"ram", "int", "none"}, we : BOOLEAN, cell : Cell,
          lo : BOOLEAN, lanes : SUBSET Half, din : Word16]
(* ram: the address is in main RAM.                                        *)
LongOp == [ram : BOOLEAN, we : BOOLEAN, cell : Cell,
           be : SUBSET Lane, din : Word]

(* An access and the lanes its master looks at.                            *)
ViewedOp == [we : BOOLEAN, cell : Cell, be : SUBSET Lane, din : Word,
             view : SUBSET Lane]
Viewed(o, v) ==
    [we |-> o.we, cell |-> o.cell, be |-> o.be, din |-> o.din, view |-> v]

ASSUME EngineAssumption == NEngine \in Nat \ {0}
ASSUME OpsAssumption ==
    /\ CpuOps \subseteq CpuOp /\ WalkOps \subseteq LongOp
    /\ DmaOps \in [Engine -> SUBSET LongOp] /\ DmaOps[1] # {}
ASSUME DataAssumption == Byte # {} /\ None \notin Word16 \cup CpuOp \cup LongOp \cup ViewedOp \cup BusPort

VARIABLES
    (* the CPU core *)
    (* the operation a master asks for, None when its request is low *)
    dev_reset, cpu_op, walk_op, cached,
    (* the DMA engines' master ports, likewise *)
    m_op,
    (* the bus state machine and its registered outputs *)
    state, dma_grant, sel, cyc_rdata, mem_ready, berr_hold,
    walker_armed, walker_busy, walker_ack, walker_berr, walker_data,
    dma_snoop_stb, dma_snoop_addr,
    (* the RAM port *)
    ram_req, ram_op, ram_ack, ram_dout, mem

cpuVars == <<dev_reset, cpu_op, walk_op, cached>>
busVars == <<state, dma_grant, sel, cyc_rdata, mem_ready, berr_hold,
             walker_armed, walker_busy, walker_ack, walker_berr, walker_data,
             dma_snoop_stb, dma_snoop_addr, ram_req, ram_op>>
ramVars == <<ram_ack, ram_dout, mem>>
vars == <<cpuVars, m_op, busVars, ramVars>>

Ram == INSTANCE AtomicRam WITH
    req <- ram_req, op <- ram_op, ack <- ram_ack, dout <- ram_dout

Zero16 == [h \in Half |-> CHOOSE b \in Byte : TRUE]
-----------------------------------------------------------------------------
(* Wires. *)

cpu_bus == cpu_op # None            \* busstate is not idle
walker_req == walk_op # None
m_req(e) == m_op[e] # None

(* Mutant: the cycle that is being answered still counts as a request.     *)
cpu_req_again == cpu_bus /\ ~berr_hold

cpu_req == cpu_bus /\ ~mem_ready /\ ~berr_hold
m_err(e) == m_req(e) /\ ~m_op[e].ram
m_ack(e) == state = "S_RAM_E" /\ dma_grant = e /\ ram_ack

Base(lo) == IF lo THEN 0 ELSE 2

(* Mutants: the whole word is returned; the other half is.                 *)
HalfWordAll(w, lo) == w
HalfWordOther(w, lo) == [h \in Half |-> w[h + Base(~lo)]]

HalfWord(w, lo) == [h \in Half |-> w[h + Base(lo)]]

LongAccess(o) == [we |-> o.we, cell |-> o.cell, be |-> o.be, din |-> o.din]
WalkAccess(o) == [we |-> o.we, cell |-> o.cell, be |-> Lane, din |-> o.din]
CpuAccess(o) == [we |-> o.we, cell |-> o.cell,
                 be |-> {h + Base(o.lo) : h \in o.lanes},
                 din |-> [l \in Lane |-> o.din[l % 2]]]

(* The engine the chain of else-ifs in S_IDLE picks.                       *)
Wants == {e \in Engine : m_req(e)}
First(S) == CHOOSE e \in S : \A f \in S : e <= f
-----------------------------------------------------------------------------
(* The bus state machine. *)

Pulses(ready, wack, wberr, snoop) ==
    /\ mem_ready' = ready /\ walker_ack' = wack
    /\ walker_berr' = wberr /\ dma_snoop_stb' = snoop

ReleaseBerr == berr_hold' = (berr_hold /\ cpu_bus)

(* Mutant: the walker is armed only once.                                  *)
ReArmNever == UNCHANGED walker_armed

ReArm == walker_armed' = (walker_armed \/ ~walker_req)
NoRead == UNCHANGED <<cyc_rdata, walker_data, dma_snoop_addr>>

StartRam(o, next) == ram_req' = TRUE /\ ram_op' = o /\ state' = next

WalkGranted == walker_req /\ walker_armed

(* Mutant: an engine waits for the CPU to leave the bus.                   *)
DmaGrantedIdleBus == ~WalkGranted /\ Wants # {} /\ ~cpu_bus /\ ~berr_hold

DmaGranted == ~WalkGranted /\ Wants # {} /\ ~cpu_req /\ ~berr_hold
CpuGranted == ~WalkGranted /\ ~DmaGranted /\ cpu_req

StartWalk ==
    /\ state = "S_IDLE" /\ WalkGranted
    /\ walker_armed' = FALSE
    /\ \/ ~walk_op.ram /\ Pulses(FALSE, FALSE, TRUE, FALSE)
          /\ UNCHANGED <<state, walker_busy, ram_req, ram_op>>
       \/ walk_op.ram /\ Pulses(FALSE, FALSE, FALSE, FALSE)
          /\ walker_busy' = TRUE /\ StartRam(WalkAccess(walk_op), "S_RAM")
    /\ sel' = FALSE /\ ReleaseBerr /\ NoRead /\ UNCHANGED dma_grant

StartDma ==
    /\ state = "S_IDLE" /\ DmaGranted
    /\ LET e == First(Wants)
       IN  IF m_op[e].ram
           THEN StartRam(LongAccess(m_op[e]), "S_RAM_E") /\ dma_grant' = e
           ELSE UNCHANGED <<state, ram_req, ram_op, dma_grant>>
    /\ Pulses(FALSE, FALSE, FALSE, FALSE)
    /\ sel' = FALSE /\ ReleaseBerr /\ ReArm /\ NoRead /\ UNCHANGED walker_busy

StartCpu ==
    /\ state = "S_IDLE" /\ CpuGranted
    /\ \/ /\ cpu_op.at = "none"
          /\ berr_hold' = TRUE /\ sel' = FALSE
          /\ UNCHANGED <<state, ram_req, ram_op>>
       \/ /\ cpu_op.at = "ram"
          /\ StartRam(CpuAccess(cpu_op), "S_RAM")
          /\ ReleaseBerr /\ sel' = FALSE
       \/ /\ cpu_op.at = "int"
          /\ state' = "S_INT" /\ sel' = TRUE
          /\ ReleaseBerr /\ UNCHANGED <<ram_req, ram_op>>
    /\ Pulses(FALSE, FALSE, FALSE, FALSE)
    /\ ReArm /\ NoRead /\ UNCHANGED <<walker_busy, dma_grant>>

Rest ==
    /\ state = "S_IDLE" /\ ~WalkGranted /\ ~DmaGranted /\ ~CpuGranted
    /\ Pulses(FALSE, FALSE, FALSE, FALSE)
    /\ sel' = FALSE /\ ReleaseBerr /\ ReArm /\ NoRead
    /\ UNCHANGED <<state, walker_busy, dma_grant, ram_req, ram_op>>

(* The word a device answers with is not tracked.                          *)
IntCycle ==
    /\ state = "S_INT"
    /\ cyc_rdata' = Zero16
    /\ state' = "S_IDLE" /\ sel' = FALSE
    /\ Pulses(TRUE, FALSE, FALSE, FALSE)
    /\ ReleaseBerr /\ ReArm
    /\ UNCHANGED <<walker_busy, walker_data, dma_snoop_addr, dma_grant, ram_req, ram_op>>

RamDone ==
    /\ state = "S_RAM" /\ ram_ack
    /\ ram_req' = FALSE /\ state' = "S_IDLE"
    /\ \/ /\ walker_busy
          /\ walker_busy' = FALSE /\ walker_data' = ram_dout
          /\ Pulses(FALSE, TRUE, FALSE, FALSE)
          /\ UNCHANGED cyc_rdata
       \/ /\ ~walker_busy
          /\ cyc_rdata' = HalfWord(ram_dout, cpu_op.lo)
          /\ Pulses(TRUE, FALSE, FALSE, FALSE)
          /\ UNCHANGED <<walker_busy, walker_data>>
    /\ ReleaseBerr /\ ReArm /\ UNCHANGED <<sel, dma_snoop_addr, dma_grant, ram_op>>

(* Mutant: a DMA write is not announced to the cache.                      *)
DmaDoneSilent ==
    /\ state = "S_RAM_E" /\ ram_ack
    /\ ram_req' = FALSE /\ state' = "S_IDLE"
    /\ Pulses(FALSE, FALSE, FALSE, FALSE) /\ ReleaseBerr /\ ReArm
    /\ UNCHANGED <<sel, cyc_rdata, walker_data, walker_busy, dma_grant, ram_op,
                   dma_snoop_addr>>

DmaDone ==
    /\ state = "S_RAM_E" /\ ram_ack
    /\ ram_req' = FALSE /\ state' = "S_IDLE"
    /\ Pulses(FALSE, FALSE, FALSE, ram_op.we)
    /\ dma_snoop_addr' = IF ram_op.we THEN ram_op.cell ELSE dma_snoop_addr
    /\ ReleaseBerr /\ ReArm
    /\ UNCHANGED <<sel, cyc_rdata, walker_data, walker_busy, dma_grant, ram_op>>

RamWait ==
    /\ state \in {"S_RAM", "S_RAM_E"} /\ ~ram_ack
    /\ Pulses(FALSE, FALSE, FALSE, FALSE)
    /\ ReleaseBerr /\ ReArm /\ NoRead
    /\ UNCHANGED <<state, sel, walker_busy, dma_grant, ram_req, ram_op>>

BusClock ==
    \/ StartWalk \/ StartDma \/ StartCpu \/ Rest
    \/ IntCycle \/ RamDone \/ DmaDone \/ RamWait
-----------------------------------------------------------------------------
(* The masters. *)

CpuIssue == cpu_op' \in CpuOps \cup {None}

CpuClock ==
    \/ /\ ~cpu_bus /\ ~walker_req /\ ~dev_reset
       /\ \/ CpuIssue /\ UNCHANGED <<walk_op, dev_reset>>
          \/ walk_op' \in WalkOps /\ UNCHANGED <<cpu_op, dev_reset>>
          \/ dev_reset' = TRUE /\ UNCHANGED <<cpu_op, walk_op>>
    \/ /\ cpu_bus
       /\ \/ ~mem_ready /\ ~berr_hold /\ UNCHANGED cpu_op
          \/ mem_ready /\ CpuIssue
          \/ berr_hold /\ cpu_op' = None
       /\ UNCHANGED <<walk_op, dev_reset>>
    \/ /\ walker_req
       /\ walk_op' = IF walker_ack \/ walker_berr THEN None ELSE walk_op
       /\ UNCHANGED <<cpu_op, dev_reset>>
    \* RESET lasts far longer than a RAM access
    \/ /\ dev_reset
       /\ dev_reset' \in IF state = "S_RAM_E" \/ Wants # {} THEN {TRUE} ELSE BOOLEAN
       /\ UNCHANGED <<cpu_op, walk_op>>

(* The cache: a completed read may be kept, a completed store by the core  *)
(* and a snooped DMA write drop what is held of that word.                 *)
Dropped(c) ==
    \/ mem_ready /\ cpu_op.at = "ram" /\ cpu_op.we /\ cpu_op.cell = c[1]
    \/ walker_ack /\ walk_op.we /\ walk_op.cell = c[1]
    \/ dma_snoop_stb /\ dma_snoop_addr = c[1]
Filled(c) ==
    mem_ready /\ cpu_op.at = "ram" /\ ~cpu_op.we /\ c = <<cpu_op.cell, cpu_op.lo>>
CacheClock ==
    \E keep \in BOOLEAN :
        cached' = [c \in Cell \X BOOLEAN |->
                     IF Dropped(c) THEN None
                     ELSE IF Filled(c) /\ keep THEN cyc_rdata ELSE cached[c]]

LongOps == UNION {DmaOps[e] : e \in Engine}

(* Any set of idle engines may ask in the same clock.                      *)
DmaClock ==
    \/ dev_reset /\ m_op' = [e \in Engine |-> None]
    \/ /\ ~dev_reset
       /\ \E ask \in SUBSET (Engine \ Wants) :
          \E ops \in {f \in [ask -> LongOps] : \A e \in ask : f[e] \in DmaOps[e]} :
            m_op' = [e \in Engine |->
                       IF e \in ask THEN ops[e]
                       ELSE IF m_ack(e) \/ m_err(e) THEN None ELSE m_op[e]]

RamClock ==
    \/ Ram!Issue \/ Ram!Complete \/ Ram!Release \/ Ram!Quiet
    \/ ram_req /\ ~ram_ack /\ UNCHANGED <<ram_req, ram_op, ramVars>>
-----------------------------------------------------------------------------
Init ==
    /\ dev_reset = FALSE /\ cpu_op = None /\ walk_op = None
    /\ cached = [c \in Cell \X BOOLEAN |-> None]
    /\ m_op = [e \in Engine |-> None]
    /\ state = "S_IDLE" /\ dma_grant = 1 /\ sel = FALSE
    /\ cyc_rdata = Zero16 /\ mem_ready = FALSE /\ berr_hold = FALSE
    /\ walker_armed = TRUE /\ walker_busy = FALSE /\ walker_ack = FALSE
    /\ walker_berr = FALSE /\ walker_data = [l \in Lane |-> Zero16[0]]
    /\ dma_snoop_stb = FALSE /\ dma_snoop_addr = (CHOOSE c \in Cell : TRUE)
    /\ ram_req = FALSE /\ ram_op = LongAccess(CHOOSE o \in DmaOps[1] : TRUE)
    /\ ram_ack = FALSE
    /\ ram_dout = [l \in Lane |-> Zero16[0]]
    /\ mem = [c \in Cell |-> [l \in Lane |-> Zero16[0]]]

Next == BusClock /\ CpuClock /\ CacheClock /\ DmaClock /\ RamClock

Spec == Init /\ [][Next]_vars

(* The clock runs, the RAM answers.  No master is obliged to ask.          *)
Quiet ==
    /\ cpu_op' \in {cpu_op, None} /\ walk_op' \in {walk_op, None} /\ (dev_reset' => dev_reset)
    /\ \A e \in Engine : m_op'[e] \in {m_op[e], None}
ClockRuns == Next /\ Quiet
RamAnswers == Ram!Complete /\ Next
FairSpec == Spec /\ WF_vars(ClockRuns) /\ WF_vars(RamAnswers)
-----------------------------------------------------------------------------
TypeOK ==
    /\ {dev_reset, sel, mem_ready, berr_hold, walker_armed,
        walker_busy, walker_ack, walker_berr, dma_snoop_stb, ram_req, ram_ack}
       \subseteq BOOLEAN
    /\ cpu_op \in CpuOp \cup {None} /\ walk_op \in LongOp \cup {None}
    /\ cached \in [Cell \X BOOLEAN -> Word16 \cup {None}]
    /\ m_op \in [Engine -> LongOp \cup {None}]
    /\ state \in {"S_IDLE", "S_INT", "S_RAM", "S_RAM_E"}
    /\ dma_grant \in Engine /\ cyc_rdata \in Word16 /\ walker_data \in Word
    /\ dma_snoop_addr \in Cell
    /\ ram_op \in Ram!Op /\ ram_dout \in Word /\ mem \in [Cell -> Word]

(* The bus never works for nobody: an access under way is the very         *)
(* operation of a master that is still waiting for it, so no register of a *)
(* device is touched twice for one CPU cycle and no write is repeated.     *)
(* Only an engine taken down by the RESET instruction leaves its last      *)
(* access behind.                                                          *)
ServesWaitingMaster ==
    /\ state = "S_INT" => cpu_bus /\ ~mem_ready /\ cpu_op.at = "int" /\ sel
    /\ state = "S_RAM" /\ walker_busy =>
         walker_req /\ ram_op = WalkAccess(walk_op) /\ walk_op.ram
    /\ state = "S_RAM" /\ ~walker_busy =>
         cpu_bus /\ cpu_op.at = "ram" /\ ram_op = CpuAccess(cpu_op)
    /\ state = "S_RAM_E" /\ ~dev_reset =>
         m_req(dma_grant) /\ m_op[dma_grant].ram
         /\ ram_op = LongAccess(m_op[dma_grant])

(* "DMA writes to main RAM are snooped so the data cache never holds stale *)
(* lines": a cached halfword differs from RAM only between the clock in    *)
(* which an access lands and the clock in which the core learns of it.     *)
LandedOn(c) ==
    \/ ram_ack /\ ram_req /\ ram_op.we /\ ram_op.cell = c
    \/ dma_snoop_stb /\ dma_snoop_addr = c
    \/ mem_ready /\ cpu_op.at = "ram" /\ cpu_op.we /\ cpu_op.cell = c
    \/ walker_ack /\ walk_op.we /\ walk_op.cell = c
CacheCoherent ==
    \A c \in Cell \X BOOLEAN :
        cached[c] \in {None, HalfWord(mem[c[1]], c[2])} \/ LandedOn(c[1])

(* The inductive invariant behind both.  The core runs one cycle or walk   *)
(* at a time and none during RESET; an answer is given in S_IDLE only, to  *)
(* a master that waits, and a walk that is being answered is not granted   *)
(* again.                                                                  *)
Handshake ==
    /\ ram_req <=> state \in {"S_RAM", "S_RAM_E"}
    /\ ~(cpu_bus /\ walker_req) /\ (dev_reset => ~cpu_bus /\ ~walker_req)
    /\ state # "S_IDLE" => ~mem_ready /\ ~walker_ack /\ ~walker_berr
    /\ state = "S_INT" \/ (state = "S_RAM" /\ ~walker_busy) => ~berr_hold
    /\ mem_ready => cpu_bus
    /\ walker_busy => state = "S_RAM"
    /\ walker_busy \/ walker_ack \/ walker_berr => walker_req /\ ~walker_armed
(* RESET takes an engine's request away, it does not change it.            *)
EngineGranted ==
    state = "S_RAM_E" /\ m_req(dma_grant) =>
        m_op[dma_grant].ram /\ ram_op = LongAccess(m_op[dma_grant])
(* Data on its way to its reader is what RAM holds.                        *)
FreshData ==
    /\ ram_req /\ ram_ack /\ ~ram_op.we => ram_dout = mem[ram_op.cell]
    /\ mem_ready /\ cpu_op.at = "ram" /\ ~cpu_op.we =>
         cyc_rdata = HalfWord(mem[cpu_op.cell], cpu_op.lo)
Inv == /\ TypeOK /\ Handshake /\ ServesWaitingMaster /\ EngineGranted
       /\ FreshData /\ CacheCoherent

(* Every master sees one atomic memory: walker, CPU and engines are each   *)
(* answered once per request, with the word as it was at one moment of     *)
(* their wait, and no master's bytes are lost to another's.                *)
CpuAnswered == (state = "S_RAM" /\ ~walker_busy /\ ram_ack) \/ mem_ready
CpuSees == IF mem_ready THEN cyc_rdata ELSE HalfWord(ram_dout, cpu_op.lo)
WalkAnswered == (state = "S_RAM" /\ walker_busy /\ ram_ack) \/ walker_ack
PortReq(p) ==
    IF p = CpuPort THEN cpu_bus /\ cpu_op.at = "ram"
    ELSE IF p = WalkPort THEN walker_req /\ walk_op.ram
    ELSE m_req(p) /\ m_op[p].ram
View(p) == IF p = CpuPort THEN {h + Base(cpu_op.lo) : h \in Half} ELSE Lane
PortOp(p) ==
    Viewed(IF p = CpuPort THEN CpuAccess(cpu_op)
           ELSE IF p = WalkPort THEN WalkAccess(walk_op)
           ELSE LongAccess(m_op[p]), View(p))
PortAck(p) ==
    IF p = CpuPort THEN CpuAnswered
    ELSE IF p = WalkPort THEN WalkAnswered ELSE m_ack(p)
PortDout(p) ==
    IF p = CpuPort THEN [l \in View(p) |-> CpuSees[l % 2]]
    ELSE IF p = WalkPort /\ walker_ack THEN walker_data ELSE ram_dout
Shared == INSTANCE SharedRam WITH
    Port <- BusPort,
    req <- [p \in BusPort |-> PortReq(p)],
    op <- [p \in BusPort |-> IF PortReq(p) THEN PortOp(p) ELSE None],
    ack <- [p \in BusPort |-> PortReq(p) /\ PortAck(p)],
    dout <- [p \in BusPort |-> IF PortReq(p) THEN PortDout(p) ELSE None],
    orphan <- IF state = "S_RAM_E" /\ ~m_req(dma_grant) /\ ~ram_ack
              THEN Viewed(ram_op, Lane) ELSE None
ImplementsSharedRam == Shared!Spec

(* The CPU and the walker always get an answer, although every engine may  *)
(* ask again and again.                                                    *)
CoreServed ==
    /\ cpu_bus ~> (mem_ready \/ berr_hold)
    /\ walker_req ~> (walker_ack \/ walker_berr)

(* An engine is served although the CPU never leaves the bus, provided the *)
(* engines before it in the chain fall silent and the CPU does not run     *)
(* from one bus error into the next (berr_hold also keeps DMA out).        *)
DmaServed ==
    \A e \in Engine :
        (<>[](~berr_hold /\ \A f \in 1 .. (e - 1) : ~m_req(f)))
            => (m_req(e) ~> ~m_req(e))
=============================================================================
