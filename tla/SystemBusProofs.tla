-------------------------- MODULE SystemBusProofs --------------------------
(***************************************************************************)
(* The bus serves only masters that wait, keeps the core's cache coherent  *)
(* and is one atomic memory for all of them: for every number of engines,  *)
(* every size of RAM and every set of operations.                          *)
(***************************************************************************)
EXTENDS SystemBus, TLAPS, WellFoundedInduction

(* The engine the chain of else-ifs picks is one that asks.                *)
LEMMA FirstWants == ASSUME NEW S, S \subseteq Engine, S # {} PROVE First(S) \in S
<1> DEFINE R == {p \in Nat \X Nat : p[1] < p[2]}
<1>1. IsWellFoundedOn(R, Nat)
  BY NatLessThanWellFounded DEF OpToRel
<1>2. S \subseteq Nat
  BY EngineAssumption DEF Engine
<1>3. PICK x \in S : \A y \in S : ~(<<y, x>> \in R)
  BY <1>1, <1>2, WFMin
<1>4. \A y \in S : x <= y
  <2> SUFFICES ASSUME NEW y \in S PROVE x <= y
    OBVIOUS
  <2>1. <<y, x>> \in Nat \X Nat /\ ~(<<y, x>>[1] < <<y, x>>[2])
    BY <1>2, <1>3
  <2> QED BY <2>1, <1>2
<1> QED BY <1>4 DEF First

(* Halfwords and words built from bytes.                                   *)
LEMMA ZeroType == Zero16 \in Word16 /\ [l \in Lane |-> Zero16[0]] \in Word
BY DataAssumption DEF Zero16, Word16, Word, Half

LEMMA HalfWordType ==
    ASSUME NEW w \in Word, NEW lo \in BOOLEAN PROVE HalfWord(w, lo) \in Word16
BY DEF HalfWord, Base, Word, Word16, Lane, Half

(* A master's operation becomes an operation of the RAM port.              *)
LEMMA AccessType ==
    /\ \A o \in LongOp : LongAccess(o) \in Ram!Op /\ WalkAccess(o) \in Ram!Op
    /\ \A o \in CpuOp : CpuAccess(o) \in Ram!Op
<1>1. ASSUME NEW o \in LongOp
      PROVE  LongAccess(o) \in Ram!Op /\ WalkAccess(o) \in Ram!Op
  BY DEF LongOp, LongAccess, WalkAccess, Ram!Op, Ram!Data, Word
<1>2. ASSUME NEW o \in CpuOp PROVE CpuAccess(o) \in Ram!Op
  <2>1. /\ o.we \in BOOLEAN /\ o.cell \in Cell /\ o.lo \in BOOLEAN
        /\ o.lanes \subseteq Half /\ o.din \in Word16
    BY DEF CpuOp
  <2>2. {h + Base(o.lo) : h \in o.lanes} \subseteq Lane
    BY <2>1 DEF Base, Half, Lane
  <2>3. [l \in Lane |-> o.din[l % 2]] \in [Lane -> Byte]
    <3>1. \A l \in Lane : l % 2 \in Half
      BY DEF Lane, Half
    <3> QED BY <3>1, <2>1 DEF Word16
  <2> QED BY <2>1, <2>2, <2>3 DEF CpuAccess, Ram!Op, Ram!Data
<1> QED BY <1>1, <1>2

(* What the invariant says of each single register.                        *)
LEMMA Types ==
    ASSUME TypeOK
    PROVE  /\ dev_reset \in BOOLEAN /\ sel \in BOOLEAN /\ mem_ready \in BOOLEAN
           /\ berr_hold \in BOOLEAN /\ walker_armed \in BOOLEAN
           /\ walker_busy \in BOOLEAN /\ walker_ack \in BOOLEAN
           /\ walker_berr \in BOOLEAN /\ dma_snoop_stb \in BOOLEAN
           /\ ram_req \in BOOLEAN /\ ram_ack \in BOOLEAN
BY DEF TypeOK

LEMMA InitInv == Init => Inv
<1> SUFFICES ASSUME Init PROVE Inv
  OBVIOUS
<1>1. PICK o \in DmaOps[1] : o = (CHOOSE x \in DmaOps[1] : TRUE)
  BY OpsAssumption
<1>2. 1 \in Engine
  BY EngineAssumption DEF Engine
<1>3. o \in LongOp
  BY <1>1, <1>2, OpsAssumption
<1>4. LongAccess(o) \in Ram!Op
  BY <1>3, AccessType
<1>5. ram_op \in Ram!Op
  BY <1>1, <1>4 DEF Init
<1>6. (CHOOSE c \in Cell : TRUE) \in Cell
  BY <1>3 DEF LongOp
<1>7. TypeOK
  BY <1>2, <1>5, <1>6, ZeroType DEF Init, TypeOK
<1>8. Handshake
  BY DEF Init, Handshake, cpu_bus, walker_req
<1>9. ServesWaitingMaster
  BY DEF Init, ServesWaitingMaster
<1>10. FreshData /\ EngineGranted
  BY DEF Init, FreshData, EngineGranted
<1>11. CacheCoherent
  BY DEF Init, CacheCoherent
<1> QED BY <1>7, <1>8, <1>9, <1>10, <1>11 DEF Inv
-----------------------------------------------------------------------------
(* What a clock may make of the core's requests: an unanswered one stays,  *)
(* and RESET outlasts the engines' accesses.                               *)
LEMMA CpuStep ==
    ASSUME Inv, CpuClock
    PROVE  /\ cpu_op' \in CpuOp \cup {None} /\ walk_op' \in LongOp \cup {None}
           /\ dev_reset' \in BOOLEAN
           /\ cpu_op' = None \/ walk_op' = None
           /\ dev_reset' => cpu_op' = None /\ walk_op' = None
           /\ cpu_bus /\ ~mem_ready /\ ~berr_hold => cpu_op' = cpu_op
           /\ cpu_bus /\ ~mem_ready => cpu_op' \in {cpu_op, None}
           /\ walker_req /\ ~walker_ack /\ ~walker_berr => walk_op' = walk_op
           /\ walker_req => walk_op' \in {walk_op, None}
           /\ dev_reset /\ (state = "S_RAM_E" \/ Wants # {}) => dev_reset'
<1>1. TypeOK /\ dev_reset \in BOOLEAN /\ ~(cpu_bus /\ walker_req)
      /\ (dev_reset => ~cpu_bus /\ ~walker_req)
  BY Types DEF Inv, Handshake
<1>2. CASE ~cpu_bus /\ ~walker_req /\ ~dev_reset
  <2>1. \/ CpuIssue /\ UNCHANGED <<walk_op, dev_reset>>
        \/ walk_op' \in WalkOps /\ UNCHANGED <<cpu_op, dev_reset>>
        \/ dev_reset' = TRUE /\ UNCHANGED <<cpu_op, walk_op>>
    BY <1>2 DEF CpuClock
  <2>2. cpu_op = None /\ walk_op = None
    BY <1>2 DEF cpu_bus, walker_req
  <2>3. CASE CpuIssue /\ UNCHANGED <<walk_op, dev_reset>>
    BY <1>1, <1>2, <2>2, <2>3, OpsAssumption DEF CpuIssue
  <2>4. CASE walk_op' \in WalkOps /\ UNCHANGED <<cpu_op, dev_reset>>
    BY <1>1, <1>2, <2>2, <2>4, OpsAssumption
  <2>5. CASE dev_reset' = TRUE /\ UNCHANGED <<cpu_op, walk_op>>
    BY <1>1, <1>2, <2>2, <2>5
  <2> QED BY <2>1, <2>3, <2>4, <2>5
<1>3. CASE cpu_bus
  <2>1. /\ UNCHANGED <<walk_op, dev_reset>> /\ walk_op = None /\ ~dev_reset
        /\ \/ ~mem_ready /\ ~berr_hold /\ UNCHANGED cpu_op
           \/ mem_ready /\ CpuIssue
           \/ berr_hold /\ cpu_op' = None
    BY <1>1, <1>3 DEF CpuClock, walker_req
  <2>2. cpu_op' \in CpuOp \cup {None}
    BY <1>1, <2>1, OpsAssumption DEF CpuIssue, TypeOK
  <2> QED BY <1>1, <2>1, <2>2 DEF walker_req
<1>4. CASE walker_req
  <2>1. /\ walk_op' = IF walker_ack \/ walker_berr THEN None ELSE walk_op
        /\ UNCHANGED <<cpu_op, dev_reset>> /\ cpu_op = None /\ ~dev_reset
    BY <1>1, <1>4 DEF CpuClock, cpu_bus
  <2> QED BY <1>1, <2>1 DEF TypeOK, cpu_bus
<1>5. CASE dev_reset
  <2>1. /\ dev_reset' \in IF state = "S_RAM_E" \/ Wants # {} THEN {TRUE} ELSE BOOLEAN
        /\ UNCHANGED <<cpu_op, walk_op>> /\ cpu_op = None /\ walk_op = None
    BY <1>1, <1>5 DEF CpuClock, cpu_bus, walker_req
  <2> QED BY <1>1, <2>1 DEF cpu_bus, walker_req
<1> QED BY <1>2, <1>3, <1>4, <1>5

(* An engine that is neither answered nor reset keeps its request.         *)
LEMMA DmaStep ==
    ASSUME Inv, DmaClock
    PROVE  /\ m_op' \in [Engine -> LongOp \cup {None}]
           /\ \A e \in Engine : ~dev_reset /\ m_req(e) /\ ~m_ack(e) /\ ~m_err(e)
                                => m_op'[e] = m_op[e]
           /\ dev_reset => \A e \in Engine : m_op'[e] = None
<1>1. m_op \in [Engine -> LongOp \cup {None}]
  BY DEF Inv, TypeOK
<1>2. CASE dev_reset /\ m_op' = [e \in Engine |-> None]
  BY <1>2
<1>3. CASE ~dev_reset
  <2>0. PICK ask \in SUBSET (Engine \ Wants) :
          \E f \in {g \in [ask -> LongOps] : \A e \in ask : g[e] \in DmaOps[e]} :
            m_op' = [e \in Engine |->
                       IF e \in ask THEN f[e]
                       ELSE IF m_ack(e) \/ m_err(e) THEN None ELSE m_op[e]]
    BY <1>3 DEF DmaClock
  <2>1. PICK ops \in {g \in [ask -> LongOps] : \A e \in ask : g[e] \in DmaOps[e]} :
            m_op' = [e \in Engine |->
                       IF e \in ask THEN ops[e]
                       ELSE IF m_ack(e) \/ m_err(e) THEN None ELSE m_op[e]]
    BY <2>0
  <2>2. \A e \in ask : ops[e] \in LongOp
    BY OpsAssumption
  <2>3. m_op' \in [Engine -> LongOp \cup {None}]
    BY <1>1, <2>1, <2>2
  <2>4. \A e \in ask : ~m_req(e)
    BY DEF Wants
  <2> QED BY <1>3, <2>1, <2>3, <2>4
<1> QED BY <1>2, <1>3 DEF DmaClock

(* The RAM port: data and memory change only in the clock that raises the  *)
(* acknowledge, which answers the operation presented.                     *)
LEMMA RamStep ==
    ASSUME Inv, RamClock
    PROVE  /\ ram_ack' \in BOOLEAN /\ ram_dout' \in Word /\ mem' \in [Cell -> Word]
           /\ \/ mem' = mem /\ ram_dout' = ram_dout /\ ~(ram_req' /\ ram_ack')
              \/ Ram!Complete
<1>1. /\ ram_op \in Ram!Op /\ ram_dout \in Word /\ mem \in [Cell -> Word]
      /\ ram_ack \in BOOLEAN /\ ram_req \in BOOLEAN
  BY Types DEF Inv, TypeOK
<1>2. CASE Ram!Complete
  <2>1. ram_op.cell \in Cell /\ ram_op.din \in Word
    BY <1>1 DEF Ram!Op, Ram!Data, Word
  <2>2. CASE ram_op.we
    BY <1>1, <1>2, <2>1, <2>2 DEF Ram!Complete, Ram!Written, Word
  <2>3. CASE ~ram_op.we
    BY <1>1, <1>2, <2>1, <2>3 DEF Ram!Complete
  <2> QED BY <1>2, <2>2, <2>3 DEF Ram!Complete
<1>3. CASE Ram!Issue \/ Ram!Release \/ Ram!Quiet
  BY <1>1, <1>3 DEF Ram!Issue, Ram!Release, Ram!Quiet
<1>4. CASE ram_req /\ ~ram_ack /\ UNCHANGED <<ram_req, ram_op, ramVars>>
  BY <1>1, <1>4 DEF ramVars
<1> QED BY <1>2, <1>3, <1>4 DEF RamClock

(* The operations of masters that ask.                                     *)
LEMMA Asked ==
    ASSUME TypeOK
    PROVE  /\ cpu_bus => cpu_op \in CpuOp /\ CpuAccess(cpu_op) \in Ram!Op
           /\ walker_req => walk_op \in LongOp /\ WalkAccess(walk_op) \in Ram!Op
           /\ \A e \in Engine : m_req(e) =>
                m_op[e] \in LongOp /\ LongAccess(m_op[e]) \in Ram!Op
BY AccessType DEF TypeOK, cpu_bus, walker_req, m_req

LEMMA BusTypes ==
    ASSUME Inv, BusClock
    PROVE  /\ state' \in {"S_IDLE", "S_INT", "S_RAM", "S_RAM_E"}
           /\ dma_grant' \in Engine /\ sel' \in BOOLEAN /\ cyc_rdata' \in Word16
           /\ mem_ready' \in BOOLEAN /\ berr_hold' \in BOOLEAN
           /\ walker_armed' \in BOOLEAN /\ walker_busy' \in BOOLEAN
           /\ walker_ack' \in BOOLEAN /\ walker_berr' \in BOOLEAN
           /\ walker_data' \in Word /\ dma_snoop_stb' \in BOOLEAN
           /\ dma_snoop_addr' \in Cell /\ ram_req' \in BOOLEAN /\ ram_op' \in Ram!Op
<1> USE DEF Pulses, ReleaseBerr, ReArm, NoRead, StartRam
<1>1. TypeOK
  BY DEF Inv
<1>2. /\ state \in {"S_IDLE", "S_INT", "S_RAM", "S_RAM_E"}
      /\ dma_grant \in Engine /\ sel \in BOOLEAN /\ cyc_rdata \in Word16
      /\ mem_ready \in BOOLEAN /\ berr_hold \in BOOLEAN
      /\ walker_armed \in BOOLEAN /\ walker_busy \in BOOLEAN
      /\ walker_ack \in BOOLEAN /\ walker_berr \in BOOLEAN
      /\ walker_data \in Word /\ dma_snoop_stb \in BOOLEAN
      /\ dma_snoop_addr \in Cell /\ ram_req \in BOOLEAN /\ ram_op \in Ram!Op
      /\ ram_dout \in Word
  BY <1>1, Types DEF TypeOK
<1>3. CASE StartWalk
  BY <1>1, <1>2, <1>3, Asked DEF StartWalk, WalkGranted
<1>4. CASE StartDma
  <2>1. First(Wants) \in Engine /\ m_req(First(Wants))
    BY <1>4, FirstWants DEF StartDma, DmaGranted, Wants
  <2> QED BY <1>1, <1>2, <1>4, <2>1, Asked DEF StartDma
<1>5. CASE StartCpu
  BY <1>1, <1>2, <1>5, Asked DEF StartCpu, CpuGranted, cpu_req
<1>6. CASE Rest
  BY <1>2, <1>6 DEF Rest
<1>7. CASE IntCycle
  BY <1>2, <1>7, ZeroType DEF IntCycle
<1>8. CASE RamDone
  <2>1. ~walker_busy => cpu_op.lo \in BOOLEAN
    BY <1>1, <1>8, Asked DEF RamDone, Inv, ServesWaitingMaster, CpuOp
  <2>2. ~walker_busy => HalfWord(ram_dout, cpu_op.lo) \in Word16
    BY <1>2, <2>1, HalfWordType
  <2> QED BY <1>2, <1>8, <2>2 DEF RamDone
<1>9. CASE DmaDone
  BY <1>2, <1>9 DEF DmaDone, Ram!Op
<1>10. CASE RamWait
  BY <1>2, <1>10 DEF RamWait
<1> QED BY <1>3, <1>4, <1>5, <1>6, <1>7, <1>8, <1>9, <1>10 DEF BusClock

(* The cache holds halfwords.                                              *)
LEMMA CacheType ==
    ASSUME Inv, CacheClock PROVE cached' \in [Cell \X BOOLEAN -> Word16 \cup {None}]
<1>1. cached \in [Cell \X BOOLEAN -> Word16 \cup {None}] /\ cyc_rdata \in Word16
  BY DEF Inv, TypeOK
<1>2. PICK keep \in BOOLEAN :
        cached' = [c \in Cell \X BOOLEAN |->
                     IF Dropped(c) THEN None
                     ELSE IF Filled(c) /\ keep THEN cyc_rdata ELSE cached[c]]
  BY DEF CacheClock
<1> QED BY <1>1, <1>2

LEMMA NextTypeOK == ASSUME Inv, Next PROVE TypeOK'
<1>1. BusClock /\ CpuClock /\ CacheClock /\ DmaClock /\ RamClock
  BY DEF Next
<1>2. /\ cpu_op' \in CpuOp \cup {None} /\ walk_op' \in LongOp \cup {None}
      /\ dev_reset' \in BOOLEAN
  BY <1>1, CpuStep
<1>3. m_op' \in [Engine -> LongOp \cup {None}]
  BY <1>1, DmaStep
<1>4. ram_ack' \in BOOLEAN /\ ram_dout' \in Word /\ mem' \in [Cell -> Word]
  BY <1>1, RamStep
<1> QED BY <1>1, <1>2, <1>3, <1>4, CacheType, BusTypes DEF TypeOK
-----------------------------------------------------------------------------
(* Every action of the bus keeps the handshakes and serves a master that   *)
(* waits.                                                                  *)
LEMMA ServeStep == ASSUME Inv, Next PROVE Handshake' /\ ServesWaitingMaster'
<1> USE DEF Pulses, ReleaseBerr, ReArm, StartRam
<1>1. /\ BusClock /\ CpuClock /\ DmaClock
      /\ TypeOK /\ Handshake /\ ServesWaitingMaster
  BY DEF Next, Inv
<1>2. /\ cpu_op' = None \/ walk_op' = None
      /\ dev_reset' => cpu_op' = None /\ walk_op' = None
      /\ cpu_bus /\ ~mem_ready /\ ~berr_hold => cpu_op' = cpu_op
      /\ walker_req /\ ~walker_ack /\ ~walker_berr => walk_op' = walk_op
      /\ dev_reset /\ (state = "S_RAM_E" \/ Wants # {}) => dev_reset'
  BY <1>1, CpuStep
<1>3. \A e \in Engine : ~dev_reset /\ m_req(e) /\ ~m_ack(e) /\ ~m_err(e)
                        => m_op'[e] = m_op[e]
  BY <1>1, DmaStep
<1>4. /\ dev_reset \in BOOLEAN /\ mem_ready \in BOOLEAN /\ berr_hold \in BOOLEAN
      /\ walker_armed \in BOOLEAN /\ walker_busy \in BOOLEAN /\ walker_ack \in BOOLEAN
      /\ walker_berr \in BOOLEAN /\ ram_req \in BOOLEAN /\ ram_ack \in BOOLEAN
  BY <1>1, Types
<1>5. CASE StartWalk
  <2>1. walker_req /\ walker_armed /\ state = "S_IDLE" /\ walk_op' = walk_op /\ ~walker_busy
    BY <1>1, <1>2, <1>5 DEF StartWalk, WalkGranted, Handshake
  <2>2. Handshake'
    BY <1>1, <1>2, <1>4, <1>5, <2>1 DEF StartWalk, Handshake, cpu_bus, walker_req
  <2>3. ServesWaitingMaster'
    BY <1>4, <1>5, <2>1 DEF StartWalk, ServesWaitingMaster, WalkAccess, walker_req
  <2> QED BY <2>2, <2>3
<1>6. CASE StartDma
  <2> DEFINE e == First(Wants)
  <2>1. e \in Engine /\ m_req(e) /\ Wants # {}
    BY <1>6, FirstWants DEF StartDma, DmaGranted, Wants
  <2>2. state = "S_IDLE" /\ ~walker_busy /\ ~(\E f \in Engine : m_ack(f))
    BY <1>1, <1>6 DEF StartDma, Handshake, m_ack
  <2>3. Handshake'
    BY <1>1, <1>2, <1>4, <1>6, <2>2 DEF StartDma, Handshake, cpu_bus, walker_req
  <2>4. CASE m_op[e].ram /\ ~dev_reset
    <3>1. m_op'[e] = m_op[e]
      BY <1>3, <2>1, <2>2, <2>4 DEF m_err
    <3>2. state' = "S_RAM_E" /\ dma_grant' = e /\ ram_op' = LongAccess(m_op[e])
      BY <1>6, <2>4 DEF StartDma
    <3> QED BY <2>1, <2>3, <2>4, <3>1, <3>2 DEF ServesWaitingMaster, m_req, LongAccess
  <2>5. CASE ~m_op[e].ram
    BY <1>6, <2>2, <2>3, <2>5 DEF StartDma, ServesWaitingMaster
  <2>6. CASE m_op[e].ram /\ dev_reset
    BY <1>2, <1>6, <2>1, <2>3, <2>6 DEF StartDma, ServesWaitingMaster
  <2> QED BY <2>4, <2>5, <2>6
<1>7. CASE StartCpu
  <2>1. cpu_bus /\ ~mem_ready /\ ~berr_hold /\ state = "S_IDLE" /\ cpu_op' = cpu_op
        /\ ~walker_busy /\ ~walker_req
    BY <1>1, <1>2, <1>7 DEF StartCpu, CpuGranted, cpu_req, Handshake
  <2>2. Handshake'
    BY <1>1, <1>2, <1>4, <1>7, <2>1 DEF StartCpu, Handshake, cpu_bus, walker_req
  <2>3. ServesWaitingMaster'
    BY <1>4, <1>7, <2>1 DEF StartCpu, ServesWaitingMaster, CpuAccess, cpu_bus
  <2> QED BY <2>2, <2>3
<1>8. CASE Rest
  BY <1>1, <1>2, <1>4, <1>8 DEF Rest, Handshake, ServesWaitingMaster, cpu_bus, walker_req
<1>9. CASE IntCycle
  <2>1. cpu_bus /\ cpu_op' = cpu_op
    BY <1>1, <1>2, <1>9 DEF IntCycle, Handshake, ServesWaitingMaster
  <2> QED BY <1>1, <1>2, <1>4, <1>9, <2>1
          DEF IntCycle, Handshake, ServesWaitingMaster, cpu_bus, walker_req
<1>10. CASE RamDone
  <2>1. CASE walker_busy
    <3>1. walker_req /\ walk_op' = walk_op
      BY <1>1, <1>2, <1>10, <2>1 DEF RamDone, Handshake
    <3> QED BY <1>1, <1>2, <1>4, <1>10, <2>1, <3>1
            DEF RamDone, Handshake, ServesWaitingMaster, cpu_bus, walker_req
  <2>2. CASE ~walker_busy
    <3>1. cpu_bus /\ cpu_op' = cpu_op
      BY <1>1, <1>2, <1>10, <2>2 DEF RamDone, Handshake, ServesWaitingMaster
    <3> QED BY <1>1, <1>2, <1>4, <1>10, <2>2, <3>1
            DEF RamDone, Handshake, ServesWaitingMaster, cpu_bus, walker_req
  <2> QED BY <2>1, <2>2
<1>11. CASE DmaDone
  BY <1>1, <1>2, <1>4, <1>11 DEF DmaDone, Handshake, ServesWaitingMaster, cpu_bus, walker_req
<1>12. CASE RamWait
  <2>1. CASE state = "S_RAM"
    <3>1. walker_busy => walk_op' = walk_op
      BY <1>1, <1>2, <2>1 DEF Handshake
    <3>2. ~walker_busy => cpu_op' = cpu_op
      BY <1>1, <1>2, <2>1 DEF Handshake, ServesWaitingMaster
    <3>3. Handshake'
      BY <1>1, <1>2, <1>4, <1>12, <2>1, <3>1, <3>2
         DEF RamWait, Handshake, ServesWaitingMaster, cpu_bus, walker_req
    <3>4. ServesWaitingMaster'
      BY <1>1, <1>4, <1>12, <2>1, <3>1, <3>2
         DEF RamWait, ServesWaitingMaster, cpu_bus, walker_req, CpuAccess, WalkAccess
    <3> QED BY <3>3, <3>4
  <2>2. CASE state = "S_RAM_E"
    <3>1. Handshake'
      BY <1>1, <1>2, <1>4, <1>12, <2>2 DEF RamWait, Handshake, cpu_bus, walker_req
    <3>2. CASE ~dev_reset
      <4>1. m_op'[dma_grant] = m_op[dma_grant]
        BY <1>1, <1>3, <1>12, <2>2, <3>2 DEF ServesWaitingMaster, TypeOK, m_ack, m_err, RamWait
      <4> QED BY <1>1, <1>12, <2>2, <3>1, <3>2, <4>1
              DEF RamWait, ServesWaitingMaster, m_req, LongAccess
    <3>3. CASE dev_reset
      BY <1>2, <1>12, <2>2, <3>1, <3>3 DEF RamWait, ServesWaitingMaster
    <3> QED BY <3>2, <3>3
  <2> QED BY <1>12, <2>1, <2>2 DEF RamWait
<1> QED BY <1>1, <1>5, <1>6, <1>7, <1>8, <1>9, <1>10, <1>11, <1>12 DEF BusClock

LEMMA EngineStep == ASSUME Inv, Next PROVE EngineGranted'
<1> SUFFICES ASSUME state' = "S_RAM_E", m_op'[dma_grant'] # None
             PROVE  m_op'[dma_grant'].ram /\ ram_op' = LongAccess(m_op'[dma_grant'])
  BY DEF EngineGranted, m_req, LongAccess
<1>1. BusClock /\ DmaClock /\ ServesWaitingMaster /\ TypeOK
  BY DEF Next, Inv
<1>2. ~dev_reset
  BY <1>1, DmaStep, BusTypes
<1>3. CASE StartDma
  <2> DEFINE e == First(Wants)
  <2>1. e \in Engine /\ m_req(e)
    BY <1>3, FirstWants DEF StartDma, DmaGranted, Wants
  <2>2. m_op[e].ram /\ dma_grant' = e /\ ram_op' = LongAccess(m_op[e]) /\ ~m_ack(e)
    BY <1>3 DEF StartDma, StartRam, m_ack
  <2>3. m_op'[e] = m_op[e]
    BY <1>1, <1>2, <2>1, <2>2, DmaStep DEF m_err
  <2> QED BY <2>2, <2>3
<1>4. CASE RamWait
  <2>1. /\ state = "S_RAM_E" /\ dma_grant' = dma_grant /\ ram_op' = ram_op
        /\ m_req(dma_grant) /\ m_op[dma_grant].ram
        /\ ram_op = LongAccess(m_op[dma_grant]) /\ ~m_ack(dma_grant)
    BY <1>1, <1>2, <1>4 DEF RamWait, ServesWaitingMaster, m_ack
  <2>2. m_op'[dma_grant] = m_op[dma_grant]
    BY <1>1, <1>2, <2>1, DmaStep DEF m_err, TypeOK
  <2> QED BY <2>1, <2>2
<1> QED BY <1>1, <1>3, <1>4 DEF BusClock, StartWalk, StartCpu, Rest, IntCycle, RamDone,
           DmaDone, StartRam

(* What the core has just been answered, and whether the answer was for    *)
(* the cycle it still drives.                                              *)
LEMMA CpuAnswer ==
    ASSUME Inv, Next, mem_ready'
    PROVE  /\ cpu_op' = cpu_op
           /\ cpu_op.at = "ram" => RamDone /\ ~walker_busy /\ ram_op = CpuAccess(cpu_op)
                                   /\ cyc_rdata' = HalfWord(ram_dout, cpu_op.lo)
<1>1. BusClock /\ CpuClock /\ Handshake /\ ServesWaitingMaster
  BY DEF Next, Inv
<1>2. IntCycle \/ (RamDone /\ ~walker_busy)
  BY <1>1 DEF BusClock, Pulses, StartWalk, StartDma, StartCpu, Rest, RamDone, DmaDone, RamWait
<1>3. cpu_op' = cpu_op
  BY <1>1, <1>2, CpuStep DEF IntCycle, RamDone, Handshake, ServesWaitingMaster
<1>4. CASE IntCycle
  BY <1>1, <1>3, <1>4 DEF IntCycle, ServesWaitingMaster
<1>5. CASE RamDone /\ ~walker_busy
  BY <1>1, <1>3, <1>5 DEF RamDone, ServesWaitingMaster
<1> QED BY <1>2, <1>4, <1>5

LEMMA FreshStep == ASSUME Inv, Next PROVE FreshData'
<1>1. ASSUME ram_req', ram_ack', ~ram_op'.we PROVE ram_dout' = mem'[ram_op'.cell]
  <2>1. Ram!Complete
    BY <1>1, RamStep DEF Next
  <2> QED BY <1>1, <2>1 DEF Ram!Complete
<1>2. ASSUME mem_ready', cpu_op'.at = "ram", ~cpu_op'.we
      PROVE  cyc_rdata' = HalfWord(mem'[cpu_op'.cell], cpu_op'.lo)
  <2>1. /\ cpu_op' = cpu_op /\ RamDone /\ ram_op = CpuAccess(cpu_op)
        /\ cyc_rdata' = HalfWord(ram_dout, cpu_op.lo)
    BY <1>2, CpuAnswer
  <2>2. ram_req /\ ram_ack /\ ~ram_op.we /\ ram_op.cell = cpu_op.cell
    BY <1>2, <2>1 DEF RamDone, Inv, Handshake, CpuAccess
  <2>3. ram_dout = mem[cpu_op.cell]
    BY <2>2 DEF Inv, FreshData
  <2>4. mem' = mem
    BY <2>2, RamStep DEF Next, Ram!Complete
  <2> QED BY <2>1, <2>3, <2>4
<1> QED BY <1>1, <1>2 DEF FreshData

(* An access that has landed and that the core has not yet been told of is *)
(* announced in the next clock.                                            *)
LEMMA Announced ==
    ASSUME Inv, Next, NEW c, ram_ack, ram_req, ram_op.we, ram_op.cell = c
    PROVE  LandedOn(c)'
<1>1. BusClock /\ CpuClock /\ Handshake /\ ServesWaitingMaster
  BY DEF Next, Inv
<1>2. RamDone \/ DmaDone
  BY <1>1 DEF Handshake, BusClock, StartWalk, StartDma, StartCpu, Rest, IntCycle, RamWait
<1>3. CASE DmaDone
  BY <1>3 DEF DmaDone, Pulses, LandedOn
<1>4. CASE RamDone /\ walker_busy
  <2>1. walk_op' = walk_op /\ ram_op = WalkAccess(walk_op)
    BY <1>1, <1>4, CpuStep DEF RamDone, Handshake, ServesWaitingMaster
  <2>2. walk_op.we /\ walk_op.cell = c
    BY <2>1 DEF WalkAccess
  <2> QED BY <1>4, <2>1, <2>2 DEF RamDone, Pulses, LandedOn
<1>5. CASE RamDone /\ ~walker_busy
  <2>1. mem_ready'
    BY <1>5 DEF RamDone, Pulses
  <2>2. cpu_op' = cpu_op /\ cpu_op.at = "ram" /\ ram_op = CpuAccess(cpu_op)
    BY <1>1, <1>5, <2>1, CpuAnswer DEF RamDone, ServesWaitingMaster
  <2>3. cpu_op.we /\ cpu_op.cell = c
    BY <2>2 DEF CpuAccess
  <2> QED BY <2>1, <2>2, <2>3 DEF LandedOn
<1> QED BY <1>2, <1>3, <1>4, <1>5

LEMMA CacheStep == ASSUME Inv, Next PROVE CacheCoherent'
<1> SUFFICES ASSUME NEW c \in Cell \X BOOLEAN,
                    ~(cached'[c] \in {None, HalfWord(mem'[c[1]], c[2])})
             PROVE  LandedOn(c[1])'
  BY DEF CacheCoherent, HalfWord
<1>1. PICK keep \in BOOLEAN :
        cached' = [d \in Cell \X BOOLEAN |->
                     IF Dropped(d) THEN None
                     ELSE IF Filled(d) /\ keep THEN cyc_rdata ELSE cached[d]]
  BY DEF Next, CacheClock
<1>2. ~Dropped(c)
  BY <1>1
<1>3. CASE Ram!Complete
  <2>1. CASE ram_op.we /\ ram_op.cell = c[1]
    BY <1>3, <2>1 DEF Ram!Complete, LandedOn
  <2>2. CASE ~(ram_op.we /\ ram_op.cell = c[1])
    <3>1. mem'[c[1]] = mem[c[1]]
      BY <1>3, <2>2 DEF Ram!Complete, Ram!Written, Inv, TypeOK
    <3>2. ~mem_ready
      BY <1>3 DEF Ram!Complete, Inv, Handshake
    <3>3. cached'[c] = cached[c]
      BY <1>1, <1>2, <3>2 DEF Filled
    <3>4. LandedOn(c[1])
      BY <3>1, <3>3 DEF Inv, CacheCoherent
    <3> QED BY <1>2, <1>3, <3>4 DEF LandedOn, Dropped, Ram!Complete
  <2> QED BY <2>1, <2>2
<1>4. CASE mem' = mem
  <2>1. CASE Filled(c) /\ keep
    <3>1. cached'[c] = cyc_rdata
      BY <1>1, <1>2, <2>1
    <3>2. cpu_op.cell = c[1] /\ cpu_op.lo = c[2]
      BY <2>1 DEF Filled
    <3> QED BY <1>4, <2>1, <3>1, <3>2 DEF Filled, Inv, FreshData
  <2>2. CASE ~(Filled(c) /\ keep)
    <3>1. cached'[c] = cached[c]
      BY <1>1, <1>2, <2>2
    <3>2. LandedOn(c[1])
      BY <1>4, <3>1 DEF Inv, CacheCoherent
    <3>3. ram_ack /\ ram_req /\ ram_op.we /\ ram_op.cell = c[1]
      BY <1>2, <3>2 DEF LandedOn, Dropped
    <3> QED BY <3>3, Announced
  <2> QED BY <2>1, <2>2
<1> QED BY <1>3, <1>4, RamStep DEF Next

(* Every step preserves the invariant.                                     *)
LEMMA NextInv == Inv /\ [Next]_vars => Inv'
<1> SUFFICES ASSUME Inv, [Next]_vars PROVE Inv'
  OBVIOUS
<1>1. CASE Next
  BY <1>1, NextTypeOK, ServeStep, EngineStep, FreshStep, CacheStep DEF Inv
<1>2. CASE UNCHANGED vars
  <2>1. TypeOK'
    BY <1>2 DEF vars, cpuVars, busVars, ramVars, Inv, TypeOK
  <2>2. Handshake' /\ FreshData'
    BY <1>2 DEF vars, cpuVars, busVars, ramVars, Inv, Handshake, FreshData, cpu_bus,
                walker_req
  <2>3. ServesWaitingMaster'
    BY <1>2 DEF vars, cpuVars, busVars, ramVars, Inv, ServesWaitingMaster, cpu_bus,
                walker_req, m_req
  <2>4. EngineGranted'
    BY <1>2 DEF vars, busVars, Inv, EngineGranted, m_req
  <2>5. CacheCoherent'
    BY <1>2 DEF vars, cpuVars, busVars, ramVars, Inv, CacheCoherent, LandedOn
  <2> QED BY <2>1, <2>2, <2>3, <2>4, <2>5 DEF Inv
<1> QED BY <1>1, <1>2

(* The invariant holds in every run of the bus.                            *)
THEOREM BusInvariant == Spec => []Inv
BY InitInv, NextInv, PTL DEF Spec

(* The bus's registers, the RAM port and the masters are type correct, for *)
(* every number of engines and set of operations.                          *)
THEOREM BusTypeOK == Spec => []TypeOK
<1>1. Inv => TypeOK
  BY DEF Inv
<1> QED BY <1>1, BusInvariant, PTL

(* next_system.sv never runs an access for nobody or for a master that has *)
(* been answered, whoever asks and whenever RESET strikes.                 *)
THEOREM BusServesWaitingMaster == Spec => []ServesWaitingMaster
<1>1. Inv => ServesWaitingMaster
  BY DEF Inv
<1> QED BY <1>1, BusInvariant, PTL

(* The snoop of next_system.sv keeps the cache coherent: a cached halfword *)
(* differs from RAM only while the access that changed it is announced.    *)
THEOREM BusCacheCoherent == Spec => []CacheCoherent
<1>1. Inv => CacheCoherent
  BY DEF Inv
<1> QED BY <1>1, BusInvariant, PTL
-----------------------------------------------------------------------------
(* The refinement.  What a port does in a clock, in the words of the       *)
(* abstract memory.                                                        *)
LEMMA PortIdle ==
    ASSUME NEW p \in BusPort, ~PortReq(p), ~(PortReq(p)' /\ PortAck(p)')
    PROVE  Shared!Idle(p)
BY DEF Shared!Idle

LEMMA PortWait ==
    ASSUME NEW p \in BusPort, PortReq(p), ~PortAck(p), PortReq(p)', ~PortAck(p)',
           PortOp(p)' = PortOp(p)
    PROVE  Shared!Wait(p)
BY DEF Shared!Wait

LEMMA PortHold ==
    ASSUME NEW p \in BusPort, PortReq(p), PortAck(p), PortReq(p)', PortAck(p)',
           PortOp(p)' = PortOp(p), PortDout(p)' = PortDout(p)
    PROVE  Shared!Hold(p)
BY DEF Shared!Hold

LEMMA PortRelease ==
    ASSUME NEW p \in BusPort, PortReq(p), PortAck(p), ~(PortReq(p)' /\ PortAck(p)')
    PROVE  Shared!Release(p)
BY DEF Shared!Release

LEMMA PortWithdraw ==
    ASSUME NEW p \in BusPort, PortReq(p), ~PortReq(p)'
    PROVE  Shared!Withdraw(p) /\ (~PortAck(p) => Shared!Gives(p))
BY DEF Shared!Withdraw, Shared!Gives

LEMMA PortDone ==
    ASSUME NEW p \in BusPort, PortReq(p), ~PortAck(p), PortReq(p)', PortAck(p)',
           PortOp(p)' = PortOp(p),
           ~PortOp(p).we => PortDout(p)' = Shared!Answer(PortOp(p))
    PROVE  Shared!Done(p)
BY DEF Shared!Done

(* The port whose access is under way in RAM.                              *)
Owner(p) ==
    \/ p = CpuPort /\ state = "S_RAM" /\ ~walker_busy
    \/ p = WalkPort /\ state = "S_RAM" /\ walker_busy
    \/ p \in Engine /\ state = "S_RAM_E" /\ dma_grant = p
(* Its access takes effect in this clock and its master still waits.       *)
Completes(p) == Ram!Complete /\ Owner(p) /\ PortReq(p)'

LEMMA PortNumbers ==
    /\ CpuPort \notin Engine /\ WalkPort \notin Engine /\ CpuPort # WalkPort
    /\ None \notin BusPort
    /\ \A p \in BusPort : p = CpuPort \/ p = WalkPort \/ p \in Engine
BY EngineAssumption, DataAssumption DEF CpuPort, WalkPort, Engine, BusPort

(* A request that is not yet answered is kept or withdrawn.                *)
LEMMA PortKept ==
    ASSUME Inv, Next, NEW p \in BusPort, PortReq(p), ~PortAck(p), PortReq(p)'
    PROVE  PortOp(p)' = PortOp(p)
<1>1. CpuClock /\ DmaClock /\ Handshake
  BY DEF Next, Inv
<1>2. CASE p = CpuPort
  <2>1. cpu_bus /\ ~mem_ready /\ cpu_op' # None
    BY <1>2 DEF PortReq, PortAck, CpuAnswered, cpu_bus
  <2>2. cpu_op' = cpu_op
    BY <1>1, <2>1, CpuStep
  <2> QED BY <1>2, <2>2 DEF PortOp, View, CpuAccess, Viewed
<1>3. CASE p = WalkPort
  <2>1. walker_req /\ walk_op' # None
    BY <1>3, PortNumbers DEF PortReq, walker_req
  <2>2. walk_op' = walk_op
    BY <1>1, <2>1, CpuStep
  <2> QED BY <1>3, <2>2, PortNumbers DEF PortOp, View, WalkAccess, Viewed
<1>4. CASE p \in Engine
  <2>1. m_req(p) /\ m_op[p].ram /\ ~m_ack(p) /\ m_op'[p] # None
    BY <1>4, PortNumbers DEF PortReq, PortAck, m_req
  <2>2. m_op'[p] = m_op[p]
    BY <1>1, <1>4, <2>1, DmaStep DEF m_err
  <2> QED BY <1>4, <2>2, PortNumbers DEF PortOp, View, LongAccess, Viewed
<1> QED BY <1>2, <1>3, <1>4, PortNumbers

(* The clock in which an access lands: the bus waits, and its owner's      *)
(* request is the operation at the RAM port.                               *)
LEMMA Landing ==
    ASSUME Inv, Next, Ram!Complete
    PROVE  /\ RamWait /\ ~ram_ack /\ ram_ack' /\ ~mem_ready /\ ~walker_ack
           /\ ~mem_ready' /\ ~walker_ack'
           /\ state' = state /\ walker_busy' = walker_busy /\ dma_grant' = dma_grant
           /\ ram_op' = ram_op
           /\ state = "S_RAM" /\ walker_busy => walk_op' = walk_op
           /\ state = "S_RAM" /\ ~walker_busy => cpu_op' = cpu_op
<1>1. BusClock /\ CpuClock /\ Handshake /\ ServesWaitingMaster
  BY DEF Next, Inv
<1>2. ram_req /\ ~ram_ack /\ ram_ack' /\ state \in {"S_RAM", "S_RAM_E"}
  BY <1>1 DEF Ram!Complete, Handshake
<1>3. RamWait
  BY <1>1, <1>2 DEF BusClock, StartWalk, StartDma, StartCpu, Rest, IntCycle, RamDone, DmaDone
<1>4. ~mem_ready /\ ~walker_ack /\ ~walker_berr
  BY <1>1, <1>2 DEF Handshake
<1>5. state = "S_RAM" /\ walker_busy => walk_op' = walk_op
  BY <1>1, <1>4, CpuStep DEF ServesWaitingMaster
<1>6. state = "S_RAM" /\ ~walker_busy => cpu_op' = cpu_op
  BY <1>1, <1>4, CpuStep DEF ServesWaitingMaster, Handshake
<1> QED BY <1>2, <1>3, <1>4, <1>5, <1>6 DEF RamWait, Pulses

LEMMA OwnersRequest ==
    ASSUME Inv, NEW p \in BusPort, Owner(p), p \in Engine => m_req(p)
    PROVE  PortReq(p) /\ PortOp(p) = Viewed(ram_op, View(p))
<1>1. CASE p = CpuPort
  BY <1>1, PortNumbers DEF Owner, Inv, ServesWaitingMaster, PortReq, PortOp
<1>2. CASE p = WalkPort
  BY <1>2, PortNumbers DEF Owner, Inv, ServesWaitingMaster, PortReq, PortOp
<1>3. CASE p \in Engine
  BY <1>3, PortNumbers DEF Owner, Inv, EngineGranted, PortReq, PortOp
<1> QED BY <1>1, <1>2, <1>3, PortNumbers

(* A port is answered because its access lands now, or because it has      *)
(* landed in the clock before.                                             *)
LEMMA PortAnswered ==
    ASSUME Inv, Inv', Next, NEW p \in BusPort, PortReq(p)', PortAck(p)'
    PROVE  /\ PortReq(p) /\ PortOp(p)' = PortOp(p)
           /\ \/ Completes(p) /\ ~PortAck(p)
              \/ PortAck(p) /\ ~Ram!Complete /\ PortDout(p)' = PortDout(p)
<1>1. BusClock /\ CpuClock /\ DmaClock /\ RamClock /\ Handshake /\ ServesWaitingMaster
  BY DEF Next, Inv
<1>2. CASE p = CpuPort
  <2>1. CASE mem_ready'
    <3>1. cpu_op'.at = "ram"
      BY <1>2 DEF PortReq
    <3>2. /\ cpu_op' = cpu_op /\ cpu_op.at = "ram" /\ RamDone /\ ~walker_busy
          /\ cyc_rdata' = HalfWord(ram_dout, cpu_op.lo)
      BY <2>1, <3>1, CpuAnswer
    <3>3. state = "S_RAM" /\ ram_ack /\ cpu_bus /\ ~mem_ready
      BY <1>1, <3>2 DEF RamDone, ServesWaitingMaster, Handshake
    <3>4. PortReq(p) /\ PortAck(p) /\ PortOp(p)' = PortOp(p)
      BY <1>2, <3>2, <3>3 DEF PortReq, PortAck, CpuAnswered, PortOp, View, CpuAccess, Viewed
    <3>5. CpuSees' = CpuSees /\ View(p)' = View(p)
      BY <2>1, <3>2, <3>3 DEF CpuSees, View
    <3>6. PortDout(p)' = PortDout(p)
      BY <1>2, <3>5 DEF PortDout
    <3> QED BY <3>3, <3>4, <3>6 DEF Ram!Complete
  <2>2. CASE state' = "S_RAM" /\ ~walker_busy' /\ ram_ack'
    <3>1. Ram!Complete
      BY <1>1, <2>2, RamStep DEF Inv, Handshake
    <3>2. Owner(p) /\ ~PortAck(p)
      BY <1>2, <2>2, <3>1, Landing DEF Owner, PortAck, CpuAnswered
    <3>3. PortReq(p)
      BY <1>2, <3>2, OwnersRequest, PortNumbers
    <3> QED BY <3>1, <3>2, <3>3, PortKept DEF Completes
  <2> QED BY <1>2, <2>1, <2>2 DEF PortAck, CpuAnswered
<1>3. CASE p = WalkPort
  <2>1. CASE walker_ack'
    <3>1. RamDone /\ walker_busy
      BY <1>1, <2>1 DEF BusClock, Pulses, StartWalk, StartDma, StartCpu, Rest, IntCycle,
                        RamDone, DmaDone, RamWait
    <3>2. walker_req /\ walk_op.ram /\ walk_op' = walk_op /\ ~walker_ack
      BY <1>1, <3>1, CpuStep DEF RamDone, Handshake, ServesWaitingMaster
    <3>3. state = "S_RAM" /\ ram_ack /\ walker_data' = ram_dout
      BY <3>1 DEF RamDone
    <3>4. PortReq(p) /\ PortAck(p) /\ PortOp(p)' = PortOp(p)
      BY <1>3, <3>1, <3>2, <3>3, PortNumbers
         DEF PortReq, PortAck, WalkAnswered, PortOp, View, WalkAccess, Viewed
    <3>5. PortDout(p)' = PortDout(p)
      BY <1>3, <2>1, <3>2, <3>3, PortNumbers DEF PortDout
    <3> QED BY <3>3, <3>4, <3>5 DEF Ram!Complete
  <2>2. CASE state' = "S_RAM" /\ walker_busy' /\ ram_ack'
    <3>1. Ram!Complete
      BY <1>1, <2>2, RamStep DEF Inv, Handshake
    <3>2. Owner(p) /\ ~PortAck(p)
      BY <1>3, <2>2, <3>1, Landing, PortNumbers DEF Owner, PortAck, WalkAnswered
    <3>3. PortReq(p)
      BY <1>3, <3>2, OwnersRequest, PortNumbers
    <3> QED BY <3>1, <3>2, <3>3, PortKept DEF Completes
  <2> QED BY <1>3, <2>1, <2>2, PortNumbers DEF PortAck, WalkAnswered
<1>4. CASE p \in Engine
  <2>1. state' = "S_RAM_E" /\ dma_grant' = p /\ ram_ack' /\ m_op'[p] # None
    BY <1>4, PortNumbers DEF PortReq, PortAck, m_ack, m_req
  <2>2. Ram!Complete
    BY <1>1, <2>1, RamStep DEF Inv, Handshake
  <2>3. Owner(p) /\ ~PortAck(p)
    BY <1>4, <2>1, <2>2, Landing, PortNumbers DEF Owner, PortAck, m_ack
  <2>4. ~dev_reset
    BY <1>1, <1>4, <2>1, DmaStep
  <2>5. m_req(p)
    BY <1>1, <1>4, <2>3, <2>4, PortNumbers DEF Owner, ServesWaitingMaster
  <2>6. PortReq(p)
    BY <2>3, <2>5, OwnersRequest
  <2> QED BY <2>2, <2>3, <2>6, PortKept DEF Completes
<1> QED BY <1>2, <1>3, <1>4, PortNumbers

(* What a port reads when its access lands is the addressed word as it was *)
(* before the clock: the CPU's halfword of it, the others' whole word.     *)
LEMMA LandingData ==
    ASSUME Inv, Next, NEW p \in BusPort, Completes(p), p \in Engine => m_req(p),
           ~ram_op.we, PortReq(p)'
    PROVE  PortDout(p)' = Shared!Answer(PortOp(p))
<1>1. /\ ram_dout' = mem[ram_op.cell] /\ mem[ram_op.cell] \in Word
  BY DEF Completes, Ram!Complete, Inv, TypeOK, Ram!Op
<1>2. PortOp(p) = Viewed(ram_op, View(p))
  BY OwnersRequest DEF Completes
<1>3. Shared!Answer(PortOp(p)) = [l \in View(p) |-> mem[ram_op.cell][l]]
  BY <1>2 DEF Shared!Answer, Viewed
<1>4. CASE p = CpuPort
  <2>1. state = "S_RAM" /\ ~walker_busy
    BY <1>4, PortNumbers DEF Completes, Owner
  <2>2. cpu_op' = cpu_op /\ ~mem_ready'
    BY <2>1, Landing DEF Completes
  <2>3. cpu_op.lo \in BOOLEAN
    BY <2>1, Asked DEF Inv, ServesWaitingMaster, CpuOp
  <2>4. PortDout(p)' = [l \in View(p) |-> HalfWord(ram_dout', cpu_op.lo)[l % 2]]
    BY <1>4, <2>2 DEF PortDout, View, CpuSees, HalfWord
  <2>5. View(p) = {h + Base(cpu_op.lo) : h \in Half}
    BY <1>4 DEF View
  <2>6. ASSUME NEW l \in View(p)
        PROVE  HalfWord(ram_dout', cpu_op.lo)[l % 2] = ram_dout'[l]
    <3>1. l % 2 \in Half /\ (l % 2) + Base(cpu_op.lo) = l
      BY <2>3, <2>5 DEF Base, Half
    <3> QED BY <3>1 DEF HalfWord
  <2> QED BY <1>1, <1>3, <2>4, <2>6
<1>5. CASE p # CpuPort
  <2>1. View(p) = Lane
    BY <1>5 DEF View
  <2>2. PortDout(p)' = ram_dout'
    BY <1>5, Landing DEF PortDout, Completes
  <2> QED BY <1>1, <1>3, <2>1, <2>2 DEF Word
<1> QED BY <1>4, <1>5

(* Every port moves as the abstract memory allows.                         *)
LEMMA PortStep ==
    ASSUME Inv, Inv', Next, NEW p \in BusPort
    PROVE  IF Completes(p) THEN Shared!Done(p)
           ELSE \/ Shared!Idle(p) \/ Shared!Wait(p) \/ Shared!Hold(p)
                \/ Shared!Release(p) \/ Shared!Withdraw(p)
<1>1. CASE Completes(p)
  <2>1. PortReq(p)' /\ PortAck(p)'
    <3>1. PortReq(p)' /\ Owner(p) /\ Ram!Complete
      BY <1>1 DEF Completes
    <3>2. /\ ram_ack' /\ state' = state /\ walker_busy' = walker_busy
          /\ dma_grant' = dma_grant
      BY <3>1, Landing
    <3> QED BY <3>1, <3>2, PortNumbers
            DEF Owner, PortAck, CpuAnswered, WalkAnswered, m_ack
  <2>2. PortReq(p) /\ ~PortAck(p) /\ PortOp(p)' = PortOp(p)
    BY <1>1, <2>1, PortAnswered DEF Completes
  <2>3. p \in Engine => m_req(p)
    BY <2>2, PortNumbers DEF PortReq
  <2>4. PortOp(p).we = ram_op.we
    BY <1>1, <2>3, OwnersRequest DEF Completes, Viewed
  <2>5. ~PortOp(p).we => PortDout(p)' = Shared!Answer(PortOp(p))
    BY <1>1, <2>1, <2>3, <2>4, LandingData
  <2> QED BY <1>1, <2>1, <2>2, <2>5, PortDone
<1>2. CASE ~Completes(p)
  <2>1. CASE ~PortReq(p)
    BY <1>2, <2>1, PortAnswered, PortIdle
  <2>2. CASE PortReq(p) /\ PortAck(p)
    BY <1>2, <2>2, PortAnswered, PortHold, PortRelease
  <2>3. CASE PortReq(p) /\ ~PortAck(p)
    BY <1>2, <2>3, PortAnswered, PortKept, PortWait, PortWithdraw
  <2> QED BY <1>2, <2>1, <2>2, <2>3
<1> QED BY <1>1, <1>2

(* What a landing access makes of the memory.                              *)
LEMMA LandingMem ==
    ASSUME Inv, Ram!Complete, NEW v
    PROVE  mem' = Shared!After(Viewed(ram_op, v))
BY DEF Ram!Complete, Ram!Written, Shared!After, Viewed

(* A withdrawn access still under way.                                     *)
Orphan == IF state = "S_RAM_E" /\ ~m_req(dma_grant) /\ ~ram_ack
          THEN Viewed(ram_op, Lane) ELSE None

(* The clock in which an access lands and its master still waits.          *)
LEMMA AnswerStep ==
    ASSUME Inv, Inv', Next, NEW p \in BusPort, Completes(p)
    PROVE  Shared!MemStep(p)
<1>1. Owner(p) /\ Ram!Complete /\ ram_ack'
  BY Landing DEF Completes
<1>2. PortReq(p)' /\ PortAck(p)'
  BY <1>1, Landing, PortNumbers
     DEF Completes, Owner, PortAck, CpuAnswered, WalkAnswered, m_ack
<1>3. PortReq(p)
  BY <1>2, PortAnswered
<1>4. p \in Engine => m_req(p)
  BY <1>3, PortNumbers DEF PortReq
<1>5. PortOp(p) = Viewed(ram_op, View(p))
  BY <1>1, <1>4, OwnersRequest
<1>6. mem' = Shared!After(PortOp(p))
  BY <1>1, <1>5, LandingMem
<1>7. Orphan = None /\ Orphan' = None
  BY <1>1, <1>4 DEF Orphan, Owner
<1>8. p # None
  BY PortNumbers
<1> QED BY <1>3, <1>6, <1>7, <1>8 DEF Shared!MemStep, Orphan

(* The clock in which an access lands whose engine RESET has taken down,   *)
(* before or in this very clock.                                           *)
LEMMA OrphanLands ==
    ASSUME Inv, Inv', Next, Ram!Complete, \A p \in BusPort : ~Completes(p)
    PROVE  Shared!MemStep(None)
<1>1. state \in {"S_RAM", "S_RAM_E"} /\ dma_grant \in Engine /\ ram_op \in Ram!Op
  BY Landing DEF RamWait, Inv, TypeOK
<1>2. state = "S_RAM_E"
  <2>1. CASE state = "S_RAM" /\ walker_busy
    <3>1. Owner(WalkPort) /\ WalkPort \in BusPort /\ walk_op' = walk_op
      BY <2>1, Landing DEF Owner, BusPort
    <3>2. PortReq(WalkPort) /\ PortReq(WalkPort)'
      BY <3>1, OwnersRequest, PortNumbers DEF PortReq, walker_req
    <3> QED BY <3>1, <3>2 DEF Completes
  <2>2. CASE state = "S_RAM" /\ ~walker_busy
    <3>1. Owner(CpuPort) /\ CpuPort \in BusPort /\ cpu_op' = cpu_op
      BY <2>2, Landing DEF Owner, BusPort
    <3>2. PortReq(CpuPort) /\ PortReq(CpuPort)'
      BY <3>1, OwnersRequest, PortNumbers DEF PortReq, cpu_bus
    <3> QED BY <3>1, <3>2 DEF Completes
  <2> QED BY <1>1, <2>1, <2>2
<1>3. Orphan' = None /\ ~ram_ack
  BY Landing DEF Orphan
<1>4. CASE m_req(dma_grant)
  <2>1. PICK p \in Engine : p = dma_grant
    BY <1>1
  <2>2. p \in BusPort /\ Owner(p) /\ m_req(p)
    BY <1>2, <1>4, <2>1 DEF BusPort, Owner
  <2>3. PortReq(p) /\ PortOp(p) = Viewed(ram_op, View(p))
    BY <2>2, OwnersRequest
  <2>4. ~PortReq(p)' /\ ~PortAck(p)
    BY <1>3, <2>2, PortNumbers DEF Completes, PortAck, m_ack
  <2>5. Shared!Gives(p)
    BY <2>2, <2>3, <2>4, PortWithdraw
  <2>6. mem' = Shared!After(PortOp(p))
    BY <2>3, LandingMem
  <2> QED BY <1>3, <2>2, <2>3, <2>5, <2>6 DEF Shared!MemStep, Orphan
<1>5. CASE ~m_req(dma_grant)
  <2>1. Orphan = Viewed(ram_op, Lane)
    BY <1>2, <1>3, <1>5 DEF Orphan
  <2>2. Viewed(ram_op, Lane) # None
    BY <1>1, DataAssumption DEF Viewed, ViewedOp, Ram!Op, Ram!Data, Word
  <2>3. mem' = Shared!After(Orphan)
    BY <2>1, LandingMem
  <2> QED BY <1>3, <2>1, <2>2, <2>3 DEF Shared!MemStep, Orphan
<1> QED BY <1>4, <1>5

(* A clock in which no access lands: at most, RESET takes down the engine  *)
(* whose access is under way or just being started.                        *)
LEMMA NothingLands ==
    ASSUME Inv, Inv', Next, ~Ram!Complete
    PROVE  Shared!MemStep(None)
<1>1. mem' = mem /\ BusClock /\ DmaClock
  BY RamStep DEF Next
<1>2. CASE Orphan' = None
  BY <1>1, <1>2 DEF Shared!MemStep, Orphan
<1>3. CASE Orphan' # None
  <2>1. state' = "S_RAM_E" /\ m_op'[dma_grant'] = None /\ Orphan' = Viewed(ram_op', Lane)
    BY <1>3 DEF Orphan, m_req, Viewed
  <2>2. CASE RamWait
    <3>1. /\ state = "S_RAM_E" /\ dma_grant' = dma_grant /\ ram_op' = ram_op /\ ~ram_ack
          /\ dma_grant \in Engine
      BY <2>1, <2>2 DEF RamWait, Inv, TypeOK
    <3>2. CASE ~m_req(dma_grant)
      <4>1. Orphan = Orphan'
        BY <2>1, <3>1, <3>2 DEF Orphan
      <4> QED BY <1>1, <4>1 DEF Shared!MemStep, Orphan
    <3>3. CASE m_req(dma_grant)
      <4>1. PICK p \in Engine : p = dma_grant
        BY <3>1
      <4>2. p \in BusPort /\ Owner(p) /\ m_req(p) /\ m_op'[p] = None
        BY <2>1, <3>1, <3>3, <4>1 DEF BusPort, Owner
      <4>3. PortReq(p) /\ PortOp(p) = Viewed(ram_op, View(p)) /\ View(p) = Lane
        BY <4>1, <4>2, OwnersRequest, PortNumbers DEF View
      <4>4. ~PortReq(p)' /\ ~PortAck(p)
        BY <3>1, <4>1, <4>2, PortNumbers DEF PortReq, m_req, PortAck, m_ack
      <4>5. Shared!Gives(p)
        BY <4>2, <4>3, <4>4, PortWithdraw
      <4>6. Orphan' = PortOp(p)
        BY <2>1, <3>1, <4>3
      <4> QED BY <1>1, <4>2, <4>3, <4>5, <4>6 DEF Shared!MemStep, Orphan
    <3> QED BY <3>2, <3>3
  <2>3. CASE StartDma
    <3>1. First(Wants) \in Engine /\ m_req(First(Wants)) /\ state = "S_IDLE"
      BY <2>3, FirstWants DEF StartDma, DmaGranted, Wants
    <3>2. PICK p \in Engine : p = First(Wants)
      BY <3>1
    <3>3. m_op[p].ram /\ dma_grant' = p /\ ram_op' = LongAccess(m_op[p])
      BY <2>1, <2>3, <3>1, <3>2 DEF StartDma, StartRam
    <3>4. p \in BusPort /\ PortReq(p) /\ PortOp(p) = Viewed(ram_op', Lane)
      BY <3>1, <3>2, <3>3, PortNumbers DEF BusPort, PortReq, PortOp, View
    <3>5. ~PortReq(p)' /\ ~PortAck(p)
      BY <2>1, <3>1, <3>2, <3>3, PortNumbers DEF PortReq, m_req, PortAck, m_ack
    <3>6. Shared!Gives(p)
      BY <3>4, <3>5, PortWithdraw
    <3>7. Orphan' = PortOp(p)
      BY <2>1, <3>4
    <3> QED BY <1>1, <3>4, <3>6, <3>7 DEF Shared!MemStep, Orphan
  <2> QED BY <1>1, <2>1, <2>2, <2>3 DEF BusClock, StartWalk, StartCpu, Rest, IntCycle,
             RamDone, DmaDone, StartRam
<1> QED BY <1>2, <1>3

(* A clock of the bus is a step of the abstract memory.                    *)
LEMMA SharedStep == ASSUME Inv, Inv', Next PROVE Shared!Next
<1>1. CASE \E q \in BusPort : Completes(q)
  <2>1. PICK q \in BusPort : Completes(q)
    BY <1>1
  <2>2. \A p \in BusPort : Completes(p) => p = q
    BY <2>1, PortNumbers DEF Completes, Owner
  <2>3. \A p \in BusPort :
          IF p = q THEN Shared!Done(p)
          ELSE \/ Shared!Idle(p) \/ Shared!Wait(p) \/ Shared!Hold(p)
               \/ Shared!Release(p) \/ Shared!Withdraw(p)
    BY <2>1, <2>2, PortStep
  <2>4. Shared!MemStep(q)
    BY <2>1, AnswerStep
  <2> QED BY <2>1, <2>3, <2>4 DEF Shared!Next
<1>2. CASE \A q \in BusPort : ~Completes(q)
  <2>1. \A p \in BusPort :
          IF p = None THEN Shared!Done(p)
          ELSE \/ Shared!Idle(p) \/ Shared!Wait(p) \/ Shared!Hold(p)
               \/ Shared!Release(p) \/ Shared!Withdraw(p)
    BY <1>2, PortNumbers, PortStep
  <2>2. Shared!MemStep(None)
    BY <1>2, OrphanLands, NothingLands
  <2> QED BY <2>1, <2>2 DEF Shared!Next
<1> QED BY <1>1, <1>2

(* For CPU, walker and engines together the bus is one atomic memory:      *)
(* every request takes effect in one step while its master waits, is       *)
(* answered with the word of that moment, and an access that RESET has     *)
(* orphaned takes effect at most once.                                     *)
THEOREM BusIsSharedRam == Spec => ImplementsSharedRam
<1>1. Init => Shared!Init
  BY DEF Init, Shared!Init, PortReq, cpu_bus, walker_req, m_req, BusPort, Engine, CpuPort,
         WalkPort
<1>2. Inv /\ Inv' /\ [Next]_vars => [Shared!Next]_(Shared!vars)
  <2> SUFFICES ASSUME Inv, Inv', [Next]_vars PROVE [Shared!Next]_(Shared!vars)
    OBVIOUS
  <2>1. CASE Next
    BY <2>1, SharedStep
  <2>2. CASE UNCHANGED vars
    BY <2>2 DEF vars, cpuVars, busVars, ramVars, Shared!vars, PortReq, PortOp, PortAck,
                PortDout, View, CpuAnswered, WalkAnswered, CpuSees, m_ack, m_req, cpu_bus,
                walker_req, CpuAccess, WalkAccess, LongAccess, Viewed, HalfWord
  <2> QED BY <2>1, <2>2
<1> QED BY <1>1, <1>2, BusInvariant, PTL DEF Spec, Shared!Spec, ImplementsSharedRam
=============================================================================
