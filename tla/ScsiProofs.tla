----------------------------- MODULE ScsiProofs ----------------------------
(***************************************************************************)
(* Theorems about the SCSI controller and its driver, which has reported   *)
(* bus resets switched off (Resrept: with them CauseNonzero does not       *)
(* hold): every interrupt has a cause, and none is raised when no command  *)
(* is in progress.                                                         *)
(*                                                                         *)
(* The invariant has three parts.  EngineInv relates the state of the      *)
(* engine to the command: an engine at work belongs to a command in        *)
(* progress, a transfer that is not reported has no interrupt yet, a flush *)
(* comes back to where it came from.  DriverInv says which commands the    *)
(* driver has still to give, and what the controller has done with those   *)
(* it gave.  ConfigInv says that the controller does not report a bus      *)
(* reset unless the driver is at the RESET that cleared its configuration, *)
(* or at the write that follows it.                                        *)
(***************************************************************************)
EXTENDS Scsi, TLAPS

(* The value of register x after the assignments p, if it was v.           *)
Val(p, x, v) == IF x \in DOMAIN p THEN p[x] ELSE v

(* Assignments one after the other.                                        *)
LEMMA OverIs ==
  ASSUME NEW f, NEW g
  PROVE  f ++ g = [x \in DOMAIN f \cup DOMAIN g |-> IF x \in DOMAIN f THEN f[x] ELSE g[x]]
  BY DEF ++

(* The last assignment of a register decides its value.                    *)
LEMMA ValOver ==
  ASSUME NEW f, NEW g
  PROVE  /\ DOMAIN (f ++ g) = DOMAIN f \cup DOMAIN g
         /\ \A x, v : Val(f ++ g, x, v) = Val(f, x, Val(g, x, v))
  BY OverIs DEF Val

(* No assignment changes nothing.                                          *)
LEMMA NoAssignment ==
  /\ DOMAIN <<>> = {}
  /\ \A x, v : Val(<<>>, x, v) = v
  BY DEF Val

(* The registers of the controller the invariant is about.                 *)
CoreField == {"int", "intstatus", "xst", "cmd_inprogress", "cmd_waiting", "command0",
              "command1", "transfer_reported", "tc", "counter", "phase", "m_req",
              "dma_flush_count", "dma_flush_return", "dma_flush_active",
              "dma_irq_resume", "rd_ret", "resrept"}
XState == {"X_IDLE", "X_SEL_MSG", "X_SEL_CDB", "X_DISPATCH", "X_POSTCMD", "X_INT_WAIT",
           "X_RD_SECT", "X_SD_RD_GO", "X_SD_RD_ACK", "X_WR_SECT", "X_SD_WR_GO",
           "X_SD_WR_ACK", "X_DI_CHK", "X_DI_RD", "X_DI_GET", "X_DI_WR", "X_FDI_CHK",
           "X_FDI_WAIT", "X_FDI_GET", "X_DO_CHK", "X_DO_RD", "X_DO_PUT", "X_FDO",
           "X_ICCS1", "X_ICCS2"}
XferState == {"X_DI_CHK", "X_DI_RD", "X_DI_GET", "X_DI_WR", "X_FDI_CHK", "X_FDI_WAIT",
              "X_FDI_GET", "X_DO_CHK", "X_DO_RD", "X_DO_PUT", "X_FDO",
              "X_WR_SECT", "X_SD_WR_GO", "X_SD_WR_ACK"}
SelState == {"X_SEL_MSG", "X_SEL_CDB", "X_DISPATCH"}
SectState == {"X_RD_SECT", "X_SD_RD_GO", "X_SD_RD_ACK"}
(* Where the engine may be once a transfer is reported, and where it may   *)
(* be between the terminal count and the report.                           *)
RestState == {"X_IDLE", "X_DI_CHK", "X_DI_WR", "X_FDI_CHK", "X_DO_CHK"}
TcState == {"X_IDLE", "X_INT_WAIT", "X_DI_WR", "X_DI_CHK", "X_FDI_CHK"}

Quiet(s) == s.xst = "X_IDLE" \/ (s.transfer_reported /\ s.xst \in RestState)
Flushing(s) == s.dma_flush_count > 0
InTransfer(s) == s.command0 = "TI" /\ ~s.transfer_reported
Silent(s) == s.command0 \notin {"TI", "ICCS"}

CoreType(s) ==
    /\ s.int \in BOOLEAN /\ s.cmd_inprogress \in BOOLEAN /\ s.cmd_waiting \in BOOLEAN
    /\ s.transfer_reported \in BOOLEAN /\ s.tc \in BOOLEAN /\ s.m_req \in BOOLEAN
    /\ s.dma_flush_active \in BOOLEAN
    /\ s.xst \in XState /\ s.dma_flush_count \in Nat /\ s.dma_irq_resume \in 0 .. 2
    /\ s.rd_ret \in {"dispatch", "dma"}

Caused(s) == s.int \/ s.xst = "X_INT_WAIT" \/ (InTransfer(s) /\ s.tc) => s.intstatus # {}
Owned(s) ==
    /\ ~Quiet(s) => s.cmd_inprogress /\ ~s.int
    /\ s.xst \in SelState => Silent(s)
    /\ s.xst \in SectState => s.rd_ret = "dispatch" \/ InTransfer(s)
    /\ s.xst \in XferState => Quiet(s) \/ InTransfer(s)
    /\ s.dma_irq_resume # 0 => s.command0 = "TI"
Flushed(s) ==
    /\ s.dma_flush_active => Flushing(s)
    /\ Flushing(s) => IF InTransfer(s) THEN s.tc /\ s.dma_flush_return \in TcState
                      ELSE s.transfer_reported /\ s.dma_flush_return \in RestState
    /\ Flushing(s) /\ s.dma_flush_return = "X_INT_WAIT" =>
           s.xst = "X_DI_WR" /\ (s.m_req => s.dma_flush_active)
Transferring(s) ==
    /\ InTransfer(s) => /\ s.cmd_inprogress /\ ~s.int
                        /\ s.m_req => s.xst \in {"X_DI_WR", "X_DO_RD"}
                        /\ s.tc => s.counter = 0 /\ s.xst \in TcState
    /\ s.command0 = "TI" /\ s.transfer_reported => Quiet(s)
    /\ Silent(s) => ~s.m_req /\ ~Flushing(s) /\ s.xst \notin XferState
EngineInv(s) == Caused(s) /\ Owned(s) /\ Flushed(s) /\ Transferring(s)

(* What a step from e to r leaves to the driver; an idle engine stays idle. *)
Kept(r) ==
    /\ r.int => e.int \/ e.xst = "X_INT_WAIT"
    /\ e.int => r.int /\ r.intstatus = e.intstatus /\ r.cmd_waiting = e.cmd_waiting
                /\ r.command1 = e.command1
    /\ r.cmd_inprogress = e.cmd_inprogress
    /\ r.cmd_waiting => e.cmd_waiting
    /\ ~Silent(e) => r.command0 = e.command0
    /\ Silent(e) => Silent(r)
    /\ e.transfer_reported => r.transfer_reported
    /\ e.tc => r.tc
    /\ e.resrept => r.resrept
Eff(r) == Kept(r) /\ (e.xst = "X_IDLE" => r.xst = "X_IDLE" /\ r.phase = e.phase)
Good(r) == CoreType(r) /\ EngineInv(r) /\ Eff(r)
Hyp == CoreType(e) /\ EngineInv(e)
-----------------------------------------------------------------------------
(* Assignments of the engine: those that touch only registers of G, those  *)
(* that move the engine to w, and those that raise an interrupt.           *)
Touch(p, G) == DOMAIN p \cap CoreField \subseteq G
Moves(p, w, G) == Touch(p, G \cup {"xst"}) /\ "xst" \in DOMAIN p /\ p.xst = w
Retains(p) ==
    /\ Touch(p, {"phase", "dma_irq_resume"})
    /\ "dma_irq_resume" \in DOMAIN p => p.dma_irq_resume \in 0 .. 2
Irqs(p) ==
    /\ Touch(p, {"phase", "dma_irq_resume", "xst", "intstatus", "tc"})
    /\ "xst" \in DOMAIN p /\ p.xst = "X_INT_WAIT"
    /\ "intstatus" \in DOMAIN p /\ p.intstatus # {}
    /\ "tc" \in DOMAIN p => p.tc = TRUE /\ e.counter = 0
    /\ "dma_irq_resume" \in DOMAIN p => p.dma_irq_resume \in 0 .. 2
PlainIrq(p) == Irqs(p) /\ DOMAIN p \cap {"dma_irq_resume", "tc"} = {}
(* The registers after the assignments p to s.                             *)
After(r, p, s) == \A x \in CoreField : r[x] = Val(p, x, s[x])
Light == {"phase", "counter"}

(* Assignments one after the other.                                        *)
LEMMA TouchOver ==
  ASSUME NEW f, NEW g, NEW F, NEW G, Touch(f, F), Touch(g, G)
  PROVE  Touch(f ++ g, F \cup G)
  <1>1. DOMAIN (f ++ g) = DOMAIN f \cup DOMAIN g
    BY ValOver
  <1> QED BY <1>1 DEF Touch

(* A move and assignments to the light registers.                          *)
LEMMA MovesOver ==
  ASSUME NEW f, NEW g, NEW w, NEW G \in SUBSET Light, Touch(f, G), Moves(g, w, G)
  PROVE  Moves(f ++ g, w, G) /\ Moves(g ++ f, w, G)
  <1>1. /\ f ++ g = [x \in DOMAIN f \cup DOMAIN g |-> IF x \in DOMAIN f THEN f[x] ELSE g[x]]
        /\ g ++ f = [x \in DOMAIN g \cup DOMAIN f |-> IF x \in DOMAIN g THEN g[x] ELSE f[x]]
    BY OverIs
  <1>2. "xst" \notin DOMAIN f
    BY DEF Touch, Light, CoreField
  <1> QED BY <1>1, <1>2 DEF Moves, Touch

(* An interrupt and assignments that retain it.                            *)
LEMMA IrqsOver ==
  ASSUME NEW f, NEW g, Retains(f), Irqs(g)
  PROVE  Irqs(f ++ g) /\ Irqs(g ++ f)
  <1>1. /\ f ++ g = [x \in DOMAIN f \cup DOMAIN g |-> IF x \in DOMAIN f THEN f[x] ELSE g[x]]
        /\ g ++ f = [x \in DOMAIN g \cup DOMAIN f |-> IF x \in DOMAIN g THEN g[x] ELSE f[x]]
    BY OverIs
  <1>2. {"xst", "intstatus", "tc"} \cap DOMAIN f = {}
    BY DEF Retains, Touch, CoreField
  <1>3. Irqs(f ++ g)
    BY <1>1, <1>2 DEF Irqs, Retains, Touch
  <1>4. Irqs(g ++ f)
    BY <1>1, <1>2 DEF Irqs, Retains, Touch
  <1> QED BY <1>3, <1>4

(* An interrupt and a new phase.                                           *)
LEMMA PlainIrqOver ==
  ASSUME NEW f, NEW g, Touch(f, {"phase"}), PlainIrq(g)
  PROVE  PlainIrq(f ++ g) /\ PlainIrq(g ++ f)
  <1>1. "dma_irq_resume" \notin DOMAIN f /\ "tc" \notin DOMAIN f
    BY DEF Touch, CoreField
  <1>2. Retains(f)
    BY <1>1 DEF Retains, Touch
  <1>3. Irqs(f ++ g) /\ Irqs(g ++ f)
    BY <1>2, IrqsOver DEF PlainIrq
  <1>4. DOMAIN (f ++ g) = DOMAIN f \cup DOMAIN g /\ DOMAIN (g ++ f) = DOMAIN g \cup DOMAIN f
    BY ValOver
  <1> QED BY <1>1, <1>3, <1>4 DEF PlainIrq

(* Assignments within a set are within a larger one.                       *)
LEMMA TouchMore ==
  ASSUME NEW p, NEW F, NEW G, Touch(p, F), F \subseteq G
  PROVE  Touch(p, G)
  BY DEF Touch

(* Assignments to other registers retain an interrupt.                     *)
LEMMA RetainsTouch ==
  ASSUME NEW p, Touch(p, {})
  PROVE  Retains(p)
  BY DEF Touch, Retains, CoreField

(* No assignments at all.                                                  *)
LEMMA TouchNone == \A G : Touch(<<>>, G)
  BY NoAssignment DEF Touch

(* Assignments to other registers may be left out.                         *)
LEMMA AfterSkip ==
  ASSUME NEW r, NEW f, NEW g, NEW s, Touch(f, {})
  PROVE  (After(r, f ++ g, s) \/ After(r, g ++ f, s)) => After(r, g, s)
  <1>1. \A x \in CoreField : x \notin DOMAIN f
    BY DEF Touch
  <1>2. \A x, v : /\ Val(f ++ g, x, v) = Val(f, x, Val(g, x, v))
                 /\ Val(g ++ f, x, v) = Val(g, x, Val(f, x, v))
    <2>1. \A x, v : Val(f ++ g, x, v) = Val(f, x, Val(g, x, v))
      BY OverIs DEF Val
    <2>2. \A x, v : Val(g ++ f, x, v) = Val(g, x, Val(f, x, v))
      BY OverIs DEF Val
    <2> QED BY <2>1, <2>2
  <1>3. \A x \in CoreField : \A v : Val(f, x, v) = v
    BY <1>1 DEF Val
  <1>4. \A x \in CoreField : \A v : Val(f ++ g, x, v) = Val(g, x, v)
                                  /\ Val(g ++ f, x, v) = Val(g, x, v)
    BY <1>2, <1>3
  <1> QED BY <1>4 DEF After
-----------------------------------------------------------------------------
(* What the kinds of assignments do to the invariant. *)

(* The registers, one by one.                                              *)
LEMMA Untouched ==
  ASSUME NEW r, NEW p, NEW s, NEW G, After(r, p, s), Touch(p, G)
  PROVE  /\ "int" \notin G => r.int = s.int
         /\ "intstatus" \notin G => r.intstatus = s.intstatus
         /\ "xst" \notin G => r.xst = s.xst
         /\ "cmd_inprogress" \notin G => r.cmd_inprogress = s.cmd_inprogress
         /\ "cmd_waiting" \notin G => r.cmd_waiting = s.cmd_waiting
         /\ "command0" \notin G => r.command0 = s.command0
         /\ "command1" \notin G => r.command1 = s.command1
         /\ "transfer_reported" \notin G => r.transfer_reported = s.transfer_reported
         /\ "tc" \notin G => r.tc = s.tc
         /\ "counter" \notin G => r.counter = s.counter
         /\ "phase" \notin G => r.phase = s.phase
         /\ "m_req" \notin G => r.m_req = s.m_req
         /\ "dma_flush_count" \notin G => r.dma_flush_count = s.dma_flush_count
         /\ "dma_flush_return" \notin G => r.dma_flush_return = s.dma_flush_return
         /\ "dma_flush_active" \notin G => r.dma_flush_active = s.dma_flush_active
         /\ "dma_irq_resume" \notin G => r.dma_irq_resume = s.dma_irq_resume
         /\ "rd_ret" \notin G => r.rd_ret = s.rd_ret
         /\ "resrept" \notin G => r.resrept = s.resrept
  <1>1. \A x \in CoreField : x \notin G => r[x] = s[x]
    BY DEF After, Touch, Val
  <1> QED BY <1>1 DEF CoreField

(* A step that touches only the phase, or the counter before the terminal  *)
(* count.                                                                  *)
LEMMA GoodStay ==
  ASSUME NEW r, NEW p, Hyp, After(r, p, e), Touch(p, Light), e.xst # "X_IDLE",
         Touch(p, {"phase"}) \/ e.xst \notin TcState
  PROVE  Good(r)
  <1>1. /\ r.int = e.int /\ r.intstatus = e.intstatus /\ r.xst = e.xst
        /\ r.cmd_inprogress = e.cmd_inprogress /\ r.cmd_waiting = e.cmd_waiting
        /\ r.command0 = e.command0 /\ r.command1 = e.command1
        /\ r.transfer_reported = e.transfer_reported /\ r.tc = e.tc
        /\ r.m_req = e.m_req /\ r.dma_flush_count = e.dma_flush_count
        /\ r.dma_flush_return = e.dma_flush_return /\ r.dma_flush_active = e.dma_flush_active
        /\ r.dma_irq_resume = e.dma_irq_resume /\ r.rd_ret = e.rd_ret
        /\ r.resrept = e.resrept
    BY Untouched DEF Light
  <1>2. r.counter = e.counter \/ e.xst \notin TcState
    BY Untouched
  <1>3. CoreType(r) /\ Eff(r)
    BY <1>1 DEF Hyp, CoreType, Eff, Kept, Silent
  <1>4. Caused(r) /\ Owned(r)
    BY <1>1 DEF Hyp, EngineInv, Caused, Owned, Quiet, InTransfer, Silent
  <1>5. Flushed(r)
    BY <1>1 DEF Hyp, EngineInv, Flushed, Flushing, InTransfer
  <1>6. Transferring(r)
    BY <1>1, <1>2 DEF Hyp, EngineInv, Transferring, Flushing, Quiet, InTransfer, Silent
  <1> QED BY <1>3, <1>4, <1>5, <1>6 DEF Good, EngineInv

(* An interrupt is raised by an engine at work that has no request to RAM. *)
LEMMA GoodIrq ==
  ASSUME NEW r, NEW p, Hyp, After(r, p, e), Irqs(p), ~Quiet(e),
         ~(Flushing(e) /\ e.dma_flush_return = "X_INT_WAIT"),
         InTransfer(e) => ~e.m_req,
         "dma_irq_resume" \in DOMAIN p => InTransfer(e),
         "tc" \in DOMAIN p => InTransfer(e)
  PROVE  Good(r)
  <1>1. /\ r.int = e.int
        /\ r.cmd_inprogress = e.cmd_inprogress /\ r.cmd_waiting = e.cmd_waiting
        /\ r.command0 = e.command0 /\ r.command1 = e.command1
        /\ r.transfer_reported = e.transfer_reported /\ r.counter = e.counter
        /\ r.m_req = e.m_req /\ r.dma_flush_count = e.dma_flush_count
        /\ r.dma_flush_return = e.dma_flush_return /\ r.dma_flush_active = e.dma_flush_active
        /\ r.rd_ret = e.rd_ret
        /\ r.resrept = e.resrept
    <2>1. Touch(p, {"phase", "dma_irq_resume", "xst", "intstatus", "tc"})
      BY DEF Irqs
    <2> QED BY <2>1, Untouched
  <1>2. /\ r.xst = "X_INT_WAIT" /\ r.intstatus # {}
        /\ (r.tc = e.tc \/ (r.tc = TRUE /\ e.counter = 0 /\ InTransfer(e)))
        /\ (r.dma_irq_resume = e.dma_irq_resume
            \/ (r.dma_irq_resume \in 0 .. 2 /\ InTransfer(e)))
    BY DEF After, Irqs, Val, CoreField
  <1>3. CoreType(r) /\ Eff(r)
    BY <1>1, <1>2 DEF Hyp, CoreType, Eff, Kept, Silent, EngineInv, Owned, Quiet, XState
  <1>4. Caused(r) /\ Owned(r)
    BY <1>1, <1>2 DEF Hyp, EngineInv, Owned, Caused, Quiet, InTransfer, Silent, RestState,
                      XferState, SelState, SectState
  <1>5. Flushed(r)
    BY <1>1, <1>2 DEF Hyp, EngineInv, Flushed, Flushing, InTransfer
  <1>6. Transferring(r)
    BY <1>1, <1>2 DEF Hyp, CoreType, EngineInv, Transferring, Flushing, Quiet, InTransfer,
                      Silent, XferState, TcState
  <1> QED BY <1>3, <1>4, <1>5, <1>6 DEF Good, EngineInv

(* The engine goes on to w, perhaps to read a sector for ret.              *)
MayMove(w) ==
    /\ w \in XState \ {"X_INT_WAIT"} /\ (w \in SelState => Silent(e))
    /\ w \in SectState => e.rd_ret = "dispatch" \/ InTransfer(e)
    /\ w \in XferState => InTransfer(e)
    /\ InTransfer(e) => (e.m_req => w \in {"X_DI_WR", "X_DO_RD"}) /\ (e.tc => w \in TcState)

(* A move to such a w keeps the invariant.                                 *)
LEMMA GoodMove ==
  ASSUME NEW r, NEW p, NEW w, NEW G \in SUBSET Light, Hyp, After(r, p, e), Moves(p, w, G), ~Quiet(e),
         G \subseteq {"phase"} \/ e.xst \notin TcState,
         ~(Flushing(e) /\ e.dma_flush_return = "X_INT_WAIT"), MayMove(w)
  PROVE  Good(r)
  <1>1. /\ r.int = e.int /\ r.intstatus = e.intstatus
        /\ r.cmd_inprogress = e.cmd_inprogress /\ r.cmd_waiting = e.cmd_waiting
        /\ r.command0 = e.command0 /\ r.command1 = e.command1
        /\ r.transfer_reported = e.transfer_reported /\ r.tc = e.tc
        /\ r.m_req = e.m_req /\ r.dma_flush_count = e.dma_flush_count
        /\ r.dma_flush_return = e.dma_flush_return /\ r.dma_flush_active = e.dma_flush_active
        /\ r.dma_irq_resume = e.dma_irq_resume /\ r.rd_ret = e.rd_ret
        /\ r.resrept = e.resrept
    <2>1. Touch(p, G \cup {"xst"}) /\ G \subseteq {"phase", "counter"}
      BY DEF Moves, Light
    <2> QED BY <2>1, Untouched
  <1>2. r.counter = e.counter \/ e.xst \notin TcState
    <2>1. Touch(p, G \cup {"xst"})
      BY DEF Moves
    <2> QED BY <2>1, Untouched
  <1>3. r.xst = w
    BY DEF After, Moves, Val, CoreField
  <1>4. CoreType(r) /\ Eff(r)
    BY <1>1, <1>3 DEF Hyp, CoreType, Eff, Kept, Silent, Quiet, MayMove
  <1>5. Caused(r) /\ Owned(r)
    BY <1>1, <1>3 DEF Hyp, EngineInv, Caused, Owned, Quiet, InTransfer, Silent, MayMove
  <1>6. Flushed(r)
    BY <1>1, <1>3 DEF Hyp, EngineInv, Flushed, Flushing, InTransfer
  <1>7. Transferring(r)
    BY <1>1, <1>2, <1>3 DEF Hyp, EngineInv, Transferring, Owned, Flushing, Quiet, InTransfer,
                            Silent, MayMove
  <1> QED BY <1>4, <1>5, <1>6, <1>7 DEF Good, EngineInv

(* The engine goes on to read a sector of the transfer.                    *)
LEMMA GoodRead ==
  ASSUME NEW r, Hyp, After(r, read_sector("dma"), e), InTransfer(e), ~e.m_req, ~e.tc,
         ~Quiet(e)
  PROVE  Good(r)
  <1> DEFINE p == read_sector("dma")
  <1>0. DOMAIN p = {"rd_ret", "xst"} /\ p.rd_ret = "dma" /\ p.xst = "X_RD_SECT"
    BY DEF read_sector
  <1> HIDE DEF p
  <1>1. After(r, p, e) /\ Touch(p, {"rd_ret", "xst"})
    BY <1>0 DEF Touch, p
  <1>2. /\ r.int = e.int /\ r.intstatus = e.intstatus
        /\ r.cmd_inprogress = e.cmd_inprogress /\ r.cmd_waiting = e.cmd_waiting
        /\ r.command0 = e.command0 /\ r.command1 = e.command1
        /\ r.transfer_reported = e.transfer_reported /\ r.tc = e.tc
        /\ r.counter = e.counter /\ r.m_req = e.m_req
        /\ r.dma_flush_count = e.dma_flush_count
        /\ r.dma_flush_return = e.dma_flush_return /\ r.dma_flush_active = e.dma_flush_active
        /\ r.dma_irq_resume = e.dma_irq_resume /\ r.resrept = e.resrept
    BY <1>1, Untouched
  <1>3. r.xst = "X_RD_SECT" /\ r.rd_ret = "dma"
    BY <1>0, <1>1 DEF After, Val, CoreField
  <1>4. CoreType(r) /\ Eff(r)
    BY <1>2, <1>3 DEF Hyp, CoreType, Eff, Kept, Silent, Quiet, XState
  <1>5. Caused(r) /\ Owned(r)
    BY <1>2, <1>3 DEF Hyp, EngineInv, Caused, Owned, Quiet, InTransfer, Silent, SelState,
                      SectState, XferState
  <1>6. ~Flushing(e)
    BY DEF Hyp, EngineInv, Flushed
  <1>7. Flushed(r) /\ Transferring(r)
    BY <1>2, <1>3, <1>6 DEF Hyp, EngineInv, Flushed, Flushing, Transferring, Owned, Quiet,
                            InTransfer, Silent
  <1> QED BY <1>4, <1>5, <1>7 DEF Good, EngineInv

(* What an engine at rest leaves untouched.                                *)
LEMMA RestFrame ==
  ASSUME NEW r, NEW p, After(r, p, e), Touch(p, {"xst", "dma_irq_resume"})
  PROVE  /\ r.int = e.int /\ r.intstatus = e.intstatus
         /\ r.cmd_inprogress = e.cmd_inprogress /\ r.cmd_waiting = e.cmd_waiting
         /\ r.command0 = e.command0 /\ r.command1 = e.command1
         /\ r.transfer_reported = e.transfer_reported /\ r.tc = e.tc
         /\ r.counter = e.counter /\ r.phase = e.phase /\ r.m_req = e.m_req
         /\ r.dma_flush_count = e.dma_flush_count
         /\ r.dma_flush_return = e.dma_flush_return /\ r.dma_flush_active = e.dma_flush_active
         /\ r.rd_ret = e.rd_ret
         /\ r.resrept = e.resrept
  BY Untouched

(* A transfer that is reported: the engine drains the channel's buffer.    *)
LEMMA GoodRest ==
  ASSUME NEW r, NEW p, Hyp, After(r, p, e), Touch(p, {"xst", "dma_irq_resume"}),
         e.transfer_reported, e.xst \in RestState \ {"X_IDLE"},
         "xst" \in DOMAIN p => p.xst \in RestState,
         "dma_irq_resume" \in DOMAIN p => p.dma_irq_resume = 0
  PROVE  Good(r)
  <1>1. /\ r.int = e.int /\ r.intstatus = e.intstatus
        /\ r.cmd_inprogress = e.cmd_inprogress /\ r.cmd_waiting = e.cmd_waiting
        /\ r.command0 = e.command0 /\ r.command1 = e.command1
        /\ r.transfer_reported = e.transfer_reported /\ r.tc = e.tc
        /\ r.counter = e.counter /\ r.m_req = e.m_req
        /\ r.dma_flush_count = e.dma_flush_count
        /\ r.dma_flush_return = e.dma_flush_return /\ r.dma_flush_active = e.dma_flush_active
        /\ r.rd_ret = e.rd_ret
        /\ r.resrept = e.resrept
    BY RestFrame
  <1>2. r.xst \in RestState /\ r.dma_irq_resume \in {0, e.dma_irq_resume}
    BY DEF After, Val, CoreField
  <1>3. /\ RestState \subseteq XState /\ RestState \cap (SelState \cup SectState) = {}
        /\ RestState \ {"X_IDLE"} \subseteq XferState /\ "X_INT_WAIT" \notin RestState
    BY DEF RestState, XState, SelState, SectState, XferState
  <1>4. CoreType(r) /\ Eff(r)
    BY <1>1, <1>2, <1>3 DEF Hyp, CoreType, Eff, Kept, Silent
  <1>5. Caused(r) /\ Owned(r)
    BY <1>1, <1>2, <1>3 DEF Hyp, EngineInv, Caused, Owned, Quiet, InTransfer
  <1>6. ~Silent(e)
    BY <1>3 DEF Hyp, EngineInv, Transferring
  <1>7. Flushed(r) /\ Transferring(r)
    BY <1>1, <1>2, <1>3, <1>6 DEF Hyp, EngineInv, Flushed, Flushing, Transferring, Quiet,
                                  InTransfer, Silent
  <1> QED BY <1>4, <1>5, <1>7 DEF Good, EngineInv

(* An engine at work waits, raises an interrupt or goes on.                *)
WorkPatch(p) ==
    \/ Touch(p, Light) /\ (Touch(p, {"phase"}) \/ e.xst \notin TcState)
    \/ PlainIrq(p)
    \/ Irqs(p) /\ (DOMAIN p \cap {"dma_irq_resume", "tc"} # {} => InTransfer(e))
    \/ \E w : Moves(p, w, {"phase"}) /\ MayMove(w)
    \/ \E w : Moves(p, w, Light) /\ e.xst \notin TcState /\ MayMove(w)

(* The assignments of a state at work keep the invariant.                  *)
LEMMA GoodWork ==
  ASSUME NEW r, NEW p, Hyp, After(r, p, e), WorkPatch(p), ~Quiet(e), e.xst # "X_DI_WR",
         InTransfer(e) => ~e.m_req
  PROVE  Good(r)
  <1>1. ~(Flushing(e) /\ e.dma_flush_return = "X_INT_WAIT") /\ e.xst # "X_IDLE"
    BY DEF Hyp, EngineInv, Flushed, Quiet
  <1>2. CASE Touch(p, Light) /\ (Touch(p, {"phase"}) \/ e.xst \notin TcState)
    BY <1>1, <1>2, GoodStay
  <1>3. CASE Irqs(p) /\ (DOMAIN p \cap {"dma_irq_resume", "tc"} # {} => InTransfer(e))
    <2>1. /\ "dma_irq_resume" \in DOMAIN p => InTransfer(e)
          /\ "tc" \in DOMAIN p => InTransfer(e)
      BY <1>3
    <2> QED BY <1>1, <1>3, <2>1, GoodIrq
  <1>4. CASE \E w : Moves(p, w, {"phase"}) /\ MayMove(w)
    <2>1. {"phase"} \in SUBSET Light /\ {"phase"} \subseteq {"phase"}
      BY DEF Light
    <2> QED BY <1>1, <1>4, <2>1, GoodMove
  <1>5. CASE \E w : Moves(p, w, Light) /\ e.xst \notin TcState /\ MayMove(w)
    <2>1. Light \in SUBSET Light
      OBVIOUS
    <2> QED BY <1>1, <1>5, <2>1, GoodMove
  <1>6. CASE PlainIrq(p)
    <2>1. Irqs(p) /\ "dma_irq_resume" \notin DOMAIN p /\ "tc" \notin DOMAIN p
      BY <1>6 DEF PlainIrq
    <2> QED BY <1>1, <2>1, GoodIrq
  <1> QED BY <1>2, <1>3, <1>4, <1>5, <1>6 DEF WorkPatch
-----------------------------------------------------------------------------
(* The tasks the states share. *)

(* The FIFO is not one of the registers of the proof.                      *)
LEMMA FifoTouch ==
  /\ Touch(fifo_pop, {}) /\ \A v : Touch(fifo_push(v), {}) /\ \A b : Touch(buf_put(b), {})
  <1>1. Touch(fifo_pop, {})
    BY TouchNone DEF Touch, CoreField, fifo_pop
  <1>2. \A v : Touch(fifo_push(v), {})
    <2> TAKE v
    <2> DEFINE f == [fifo |-> Append(SubSeq(e.fifo, 1, FifoDepth - 1), v), ge |-> TRUE]
               g == [fifo |-> Append(e.fifo, v)]
    <2>1. Touch(f, {}) /\ Touch(g, {})
      BY DEF Touch, CoreField
    <2>2. fifo_push(v) = f \/ fifo_push(v) = g
      BY DEF fifo_push
    <2> HIDE DEF f, g
    <2> QED BY <2>1, <2>2
  <1>3. \A b : Touch(buf_put(b), {})
    BY DEF Touch, CoreField, buf_put
  <1> QED BY <1>1, <1>2, <1>3

(* Nor are the interrupts of the channel.                                  *)
LEMMA HitTouch ==
  /\ Touch(dma_hit_limit, {}) /\ \A c \in BOOLEAN : Touch(HitLimitIf(c), {})
  <1> DEFINE f == [d_cmp |-> TRUE, gap |-> TRUE]
             g == [d_next |-> e.d_start, d_limit |-> e.d_stop, d_sup |-> FALSE]
             h == [d_en |-> FALSE]
  <1>1. Touch(f, {}) /\ Touch(g, {}) /\ Touch(h, {})
    BY DEF Touch, CoreField
  <1>2. dma_hit_limit = f ++ g \/ dma_hit_limit = f ++ h
    BY DEF dma_hit_limit
  <1>3. \A c \in BOOLEAN : HitLimitIf(c) = dma_hit_limit \/ HitLimitIf(c) = <<>>
    BY DEF HitLimitIf
  <1> HIDE DEF f, g, h
  <1>4. Touch(f ++ g, {} \cup {}) /\ Touch(f ++ h, {} \cup {})
    BY <1>1, TouchOver
  <1>5. Touch(dma_hit_limit, {})
    BY <1>2, <1>4
  <1> QED BY <1>3, <1>5, TouchNone

(* The assignments that raise an interrupt.                                *)
LEMMA IrqIs ==
  ASSUME NEW c, c # {}
  PROVE  Irqs(esp_irq(c)) /\ DOMAIN esp_irq(c) = {"intstatus", "dly", "xst"} /\ PlainIrq(esp_irq(c))
  <1> DEFINE p == esp_irq(c)
  <1>1. DOMAIN p = {"intstatus", "dly", "xst"} /\ p.intstatus = c /\ p.xst = "X_INT_WAIT"
    BY DEF esp_irq
  <1> HIDE DEF p
  <1>2. Irqs(p)
    BY <1>1 DEF Irqs, Touch, CoreField
  <1> QED BY <1>1, <1>2 DEF p, PlainIrq

(* The interrupt at the end of a transfer, with the terminal count.        *)
LEMMA TransferDone == Irqs(transfer_done) /\ "dma_irq_resume" \notin DOMAIN transfer_done
  <1> DEFINE t == [tc |-> TRUE]
             i == esp_irq({"BS"})
  <1>1. /\ e.counter = 0 => transfer_done = i ++ t
        /\ e.counter # 0 => transfer_done = i ++ <<>>
    BY DEF transfer_done
  <1>2. Irqs(i) /\ DOMAIN i = {"intstatus", "dly", "xst"}
    BY IrqIs
  <1>3. DOMAIN t = {"tc"} /\ t.tc = TRUE
    OBVIOUS
  <1> HIDE DEF t, i
  <1>4. i ++ t = [x \in DOMAIN i \cup DOMAIN t |-> IF x \in DOMAIN i THEN i[x] ELSE t[x]]
    BY OverIs
  <1>5. e.counter = 0 => Irqs(i ++ t) /\ "dma_irq_resume" \notin DOMAIN (i ++ t)
    BY <1>2, <1>3, <1>4 DEF Irqs, Touch
  <1>6. Irqs(i ++ <<>>)
    BY <1>2, TouchNone, RetainsTouch, IrqsOver
  <1>7. DOMAIN (i ++ <<>>) = DOMAIN i
    <2>1. DOMAIN (i ++ <<>>) = DOMAIN i \cup DOMAIN <<>> /\ DOMAIN <<>> = {}
      BY ValOver, NoAssignment
    <2> HIDE DEF i
    <2> QED BY <2>1
  <1> QED BY <1>1, <1>2, <1>5, <1>6, <1>7

(* The assignment of a state alone.                                        *)
LEMMA MoveIs ==
  ASSUME NEW w, NEW G
  PROVE  Moves([xst |-> w], w, G)
  BY DEF Moves, Touch

(* CHECK CONDITION sets the phase.                                         *)
LEMMA CheckTouch == Touch(check_condition, {"phase"})
  BY DEF Touch, CoreField, check_condition
-----------------------------------------------------------------------------
(* Selection, the sectors of the disk, and the end of a command. *)

(* A move within the states that are not of a transfer.                    *)
LEMMA MayMoveOn ==
  ASSUME NEW w, Hyp, e.xst \notin TcState, e.xst \notin {"X_DI_WR", "X_DO_RD"},
         w \in XState \ {"X_INT_WAIT"},
         w \in SelState => e.xst \in SelState,
         w \in SectState => e.xst \in SectState,
         w \in XferState => InTransfer(e)
  PROVE  MayMove(w)
  BY DEF Hyp, EngineInv, Owned, Transferring, MayMove

(* Selection: the message byte.                                            *)
LEMMA SelMsg ==
  ASSUME Hyp, e.xst = "X_SEL_MSG", NEW busy \in BOOLEAN
  PROVE  WorkPatch(sel_msg(busy))
  <1> DEFINE m == [phase |-> "MO"]
             i == esp_irq({"BS", "FC"})
             x == [xst |-> "X_SEL_CDB"]
  <1>1. sel_msg(busy) = m ++ <<>> \/ sel_msg(busy) = m ++ (fifo_pop ++ i)
        \/ sel_msg(busy) = m ++ (fifo_pop ++ x)
    BY DEF sel_msg
  <1>2. Touch(m, {"phase"})
    BY DEF Touch
  <1>3. PlainIrq(i) /\ Moves(x, "X_SEL_CDB", {"phase"})
    BY IrqIs, MoveIs
  <1> HIDE DEF m, i, x
  <1>4. Touch(m ++ <<>>, {"phase"} \cup {})
    BY <1>2, TouchNone, TouchOver
  <1>5. Touch(fifo_pop, {"phase"}) /\ {"phase"} \in SUBSET Light
    BY FifoTouch, TouchMore DEF Light
  <1>6. PlainIrq(m ++ (fifo_pop ++ i))
    BY <1>2, <1>3, <1>5, PlainIrqOver
  <1>7. Moves(m ++ (fifo_pop ++ x), "X_SEL_CDB", {"phase"})
    BY <1>2, <1>3, <1>5, MovesOver
  <1>8. MayMove("X_SEL_CDB")
    BY MayMoveOn DEF TcState, XState, SelState, SectState, XferState
  <1>9. \A p : Touch(p, {"phase"}) => Touch(p, Light)
    BY TouchMore DEF Light
  <1> QED BY <1>1, <1>4, <1>6, <1>7, <1>8, <1>9 DEF WorkPatch

(* Selection: the command block.                                           *)
LEMMA SelCdb ==
  ASSUME Hyp, e.xst = "X_SEL_CDB", NEW busy \in BOOLEAN
  PROVE  WorkPatch(sel_cdb(busy))
  <1> DEFINE m == [phase |-> "CD"]
             i == esp_irq({"BS", "FC"})
             x == [phase |-> "CD", cdb |-> Head(e.fifo), xst |-> "X_DISPATCH"]
  <1>1. sel_cdb(busy) = m \/ sel_cdb(busy) = m ++ i \/ sel_cdb(busy) = x ++ fifo_pop
    BY DEF sel_cdb
  <1>2. Touch(m, {"phase"}) /\ Touch(m, Light)
    BY DEF Touch, Light
  <1>3. PlainIrq(i) /\ Moves(x, "X_DISPATCH", {"phase"})
    <2>1. DOMAIN x = {"phase", "cdb", "xst"} /\ x.xst = "X_DISPATCH"
      OBVIOUS
    <2> HIDE DEF x
    <2>2. Moves(x, "X_DISPATCH", {"phase"})
      BY <2>1 DEF Moves, Touch, CoreField
    <2> QED BY <2>2, IrqIs
  <1> HIDE DEF m, i, x
  <1>5. Touch(fifo_pop, {"phase"}) /\ {"phase"} \in SUBSET Light
    BY FifoTouch, TouchMore DEF Light
  <1>6. PlainIrq(m ++ i)
    BY <1>2, <1>3, PlainIrqOver
  <1>7. Moves(x ++ fifo_pop, "X_DISPATCH", {"phase"})
    BY <1>3, <1>5, MovesOver
  <1>8. MayMove("X_DISPATCH")
    BY MayMoveOn DEF TcState, XState, SelState, SectState, XferState
  <1> QED BY <1>1, <1>2, <1>6, <1>7, <1>8 DEF WorkPatch

(* The interrupt after a command block.                                    *)
LEMMA Postcmd == WorkPatch(esp_irq({"BS", "FC"}))
  BY IrqIs DEF WorkPatch

(* The status and the message byte.                                        *)
LEMMA Iccs ==
  ASSUME Hyp, e.xst \in {"X_ICCS1", "X_ICCS2"}, NEW busy \in BOOLEAN
  PROVE  /\ e.xst = "X_ICCS1" => WorkPatch(iccs1(busy))
         /\ e.xst = "X_ICCS2" => WorkPatch(iccs2(busy))
  <1> DEFINE m == [phase |-> "MI", xst |-> "X_ICCS2"]
             h == [mi_held |-> TRUE]
             i == esp_irq({"FC"})
             f == fifo_push(<<e.t_status>>)
             g == fifo_push(<<"COMPLETE">>)
  <1>1. /\ iccs1(busy) = <<>> \/ iccs1(busy) = f ++ m
        /\ iccs2(busy) = <<>> \/ iccs2(busy) = g ++ h ++ i
    BY DEF iccs1, iccs2
  <1>2. Touch(h, {"phase"}) /\ Moves(m, "X_ICCS2", {"phase"}) /\ PlainIrq(i)
    <2>1. Touch(h, {"phase"})
      BY DEF Touch, CoreField
    <2>2. Moves(m, "X_ICCS2", {"phase"})
      BY DEF Moves, Touch
    <2> QED BY <2>1, <2>2, IrqIs
  <1>3. Touch(f, {"phase"}) /\ Touch(g, {"phase"}) /\ {"phase"} \in SUBSET Light
    BY FifoTouch, TouchMore DEF Light
  <1> HIDE DEF m, h, i, f, g
  <1>4. Moves(f ++ m, "X_ICCS2", {"phase"})
    BY <1>2, <1>3, MovesOver
  <1>5. Touch(g ++ h, {"phase"} \cup {"phase"})
    BY <1>2, <1>3, TouchOver
  <1>6. PlainIrq(g ++ h ++ i)
    BY <1>2, <1>5, PlainIrqOver
  <1>7. MayMove("X_ICCS2")
    BY MayMoveOn DEF TcState, XState, SelState, SectState, XferState
  <1> QED BY <1>1, <1>4, <1>6, <1>7, TouchNone DEF WorkPatch

(* Where a sector read comes back to.                                      *)
LEMMA ReadReturn ==
  ASSUME Hyp, e.xst \in SectState
  PROVE  MayMove(read_return)
  <1>1. e.rd_ret \in {"dispatch", "dma"} /\ (e.rd_ret = "dispatch" \/ InTransfer(e))
    BY DEF Hyp, EngineInv, Owned, CoreType
  <1>2. CASE e.rd_ret = "dispatch"
    <2>1. read_return = "X_POSTCMD"
      BY <1>2 DEF read_return
    <2> QED BY <2>1, MayMoveOn DEF TcState, XState, SelState, SectState, XferState
  <1>3. CASE e.rd_ret = "dma" /\ InTransfer(e)
    <2>1. read_return \in {"X_DI_CHK", "X_FDI_CHK"}
      BY <1>3 DEF read_return
    <2> QED BY <1>3, <2>1, MayMoveOn DEF TcState, XState, SelState, SectState, XferState
  <1> QED BY <1>1, <1>2, <1>3

(* A sector is asked for, or lies behind the end of the disk.              *)
LEMMA RdSect ==
  ASSUME Hyp, e.xst = "X_RD_SECT"
  PROVE  WorkPatch(rd_sect)
  <1> DEFINE a == [phase |-> "ST", xst |-> read_return]
             b == [sd_lba |-> e.lba, xst |-> "X_SD_RD_GO"]
             c == [xst |-> read_return]
  <1>1. rd_sect = a \/ rd_sect = b \/ rd_sect = check_condition ++ c
    BY DEF rd_sect
  <1>2. /\ Moves(a, read_return, {"phase"}) /\ Moves(b, "X_SD_RD_GO", {"phase"})
        /\ Moves(c, read_return, {"phase"})
    <2> HIDE DEF read_return
    <2>1. Moves(a, read_return, {"phase"}) /\ Moves(c, read_return, {"phase"})
      BY DEF Moves, Touch
    <2>2. Moves(b, "X_SD_RD_GO", {"phase"})
      BY DEF Moves, Touch, CoreField
    <2> QED BY <2>1, <2>2
  <1> HIDE DEF a, b, c
  <1>3. Moves(check_condition ++ c, read_return, {"phase"})
    <2>1. {"phase"} \in SUBSET Light
      BY DEF Light
    <2> QED BY <1>2, <2>1, CheckTouch, MovesOver
  <1>4. MayMove("X_SD_RD_GO")
    BY MayMoveOn DEF TcState, XState, SelState, SectState, XferState
  <1>5. MayMove(read_return)
    BY ReadReturn DEF SectState
  <1> QED BY <1>1, <1>2, <1>3, <1>4, <1>5 DEF WorkPatch

(* A sector is read.                                                       *)
LEMMA SdRead ==
  ASSUME Hyp, e.xst \in {"X_SD_RD_GO", "X_SD_RD_ACK"}, NEW ack \in BOOLEAN
  PROVE  /\ e.xst = "X_SD_RD_GO" => WorkPatch(sd_rd_go(ack))
         /\ e.xst = "X_SD_RD_ACK" => WorkPatch(sd_rd_ack(ack))
  <1> DEFINE a == [sd_rd |-> FALSE, sd_read_owned |-> TRUE, xst |-> "X_SD_RD_ACK"]
             b == [sd_rd |-> TRUE]
             c == [sd_read_owned |-> FALSE, buf_pos |-> 0, buf_limit |-> SectBytes,
                   t_status |-> "GOOD", xst |-> read_return]
  <1>1. /\ sd_rd_go(ack) = a \/ sd_rd_go(ack) = b
        /\ sd_rd_ack(ack) = <<>> \/ sd_rd_ack(ack) = next_block ++ c
    BY DEF sd_rd_go, sd_rd_ack
  <1>2. /\ Moves(a, "X_SD_RD_ACK", {"phase"}) /\ Touch(b, {"phase"}) /\ Touch(b, Light)
        /\ Moves(c, read_return, {"phase"}) /\ Touch(next_block, {"phase"})
    <2> HIDE DEF read_return
    <2>1. Moves(a, "X_SD_RD_ACK", {"phase"})
      BY DEF Moves, Touch, CoreField
    <2>2. Touch(b, {"phase"}) /\ Touch(b, Light)
      BY DEF Touch, CoreField
    <2>3. Moves(c, read_return, {"phase"})
      <3>1. DOMAIN c = {"sd_read_owned", "buf_pos", "buf_limit", "t_status", "xst"}
            /\ c.xst = read_return
        OBVIOUS
      <3> HIDE DEF c
      <3> QED BY <3>1 DEF Moves, Touch, CoreField
    <2>4. Touch(next_block, {"phase"})
      BY DEF Touch, CoreField, next_block
    <2> QED BY <2>1, <2>2, <2>3, <2>4
  <1> HIDE DEF a, b, c
  <1>3. Moves(next_block ++ c, read_return, {"phase"})
    <2>1. {"phase"} \in SUBSET Light
      BY DEF Light
    <2> QED BY <1>2, <2>1, MovesOver
  <1>4. MayMove("X_SD_RD_ACK")
    BY MayMoveOn DEF TcState, XState, SelState, SectState, XferState
  <1>5. MayMove(read_return)
    BY ReadReturn DEF SectState
  <1> QED BY <1>1, <1>2, <1>3, <1>4, <1>5, TouchNone DEF WorkPatch

(* The states of a transfer.                                               *)
LEMMA InXfer ==
  ASSUME Hyp, e.xst \in XferState \ RestState
  PROVE  InTransfer(e) /\ ~Quiet(e) /\ ~e.int /\ e.cmd_inprogress
         /\ (e.m_req => e.xst = "X_DO_RD") /\ ~e.tc /\ e.xst \notin TcState
  <1>1. ~Quiet(e)
    BY DEF Quiet, RestState
  <1>2. InTransfer(e) /\ ~e.int /\ e.cmd_inprogress
    BY <1>1 DEF Hyp, EngineInv, Owned
  <1>3. e.xst \notin TcState
    BY DEF XferState, RestState, TcState
  <1>4. e.m_req => e.xst = "X_DO_RD"
    BY <1>2 DEF Hyp, EngineInv, Transferring, RestState
  <1>5. ~e.tc
    BY <1>2, <1>3 DEF Hyp, EngineInv, Transferring
  <1> QED BY <1>1, <1>2, <1>3, <1>4, <1>5

(* A move within the states of a transfer.                                 *)
LEMMA MayMoveXfer ==
  ASSUME NEW w, Hyp, InTransfer(e), ~e.tc, ~e.m_req, w \in XferState
  PROVE  MayMove(w)
  BY DEF MayMove, XferState, XState, SelState, SectState, TcState

(* Data out goes on through the FIFO or through the channel.               *)
LEMMA FifoRoute ==
  ASSUME NEW w, w \in XferState
  PROVE  (IF fifo_route THEN "X_FDO" ELSE w) \in XferState
  BY DEF XferState

(* A sector is to be written.                                              *)
LEMMA WrSect ==
  ASSUME Hyp, e.xst = "X_WR_SECT"
  PROVE  WorkPatch(wr_sect)
  <1> DEFINE w == IF fifo_route THEN "X_FDO" ELSE "X_DO_CHK"
             a == [sd_lba |-> e.lba, xst |-> "X_SD_WR_GO"]
             b == [xst |-> w]
  <1>0. InTransfer(e) /\ ~e.tc /\ ~e.m_req /\ {"phase"} \in SUBSET Light
    BY InXfer DEF XferState, RestState, Light
  <1>1. wr_sect = a \/ wr_sect = check_condition ++ b
    BY DEF wr_sect
  <1>2. w \in XferState
    BY DEF XferState
  <1> HIDE DEF w
  <1>3. Moves(a, "X_SD_WR_GO", {"phase"}) /\ Moves(b, w, {"phase"})
    BY DEF Moves, Touch, CoreField
  <1> HIDE DEF a, b
  <1>4. Moves(check_condition ++ b, w, {"phase"})
    BY <1>0, <1>3, CheckTouch, MovesOver
  <1>5. MayMove(w) /\ MayMove("X_SD_WR_GO")
    BY <1>0, <1>2, MayMoveXfer DEF XferState
  <1> QED BY <1>1, <1>3, <1>4, <1>5 DEF WorkPatch

(* A sector is written.                                                    *)
LEMMA SdWrite ==
  ASSUME Hyp, e.xst \in {"X_SD_WR_GO", "X_SD_WR_ACK"}, NEW ack \in BOOLEAN
  PROVE  /\ WorkPatch(sd_wr_go(ack))
         /\ WorkPatch(sd_wr_ack(ack))
  <1> DEFINE w == IF fifo_route THEN "X_FDO" ELSE "X_DO_PUT"
             a == [sd_wr |-> FALSE, xst |-> "X_SD_WR_ACK"]
             b == [sd_wr |-> TRUE]
             c == [buf_pos |-> 0, t_status |-> "GOOD", xst |-> w]
             d == IF e.blockcounter = 1 THEN [phase |-> "ST"] ELSE <<>>
  <1>0. InTransfer(e) /\ ~e.tc /\ ~e.m_req /\ {"phase"} \in SUBSET Light
    BY InXfer DEF XferState, RestState, Light
  <1>1. /\ sd_wr_go(ack) = a \/ sd_wr_go(ack) = b
        /\ sd_wr_ack(ack) = <<>> \/ sd_wr_ack(ack) = next_block ++ c ++ d
    BY DEF sd_wr_go, sd_wr_ack
  <1>2. w \in XferState
    BY DEF XferState
  <1> HIDE DEF w
  <1>3. Moves(a, "X_SD_WR_ACK", {"phase"}) /\ Touch(b, {"phase"}) /\ Touch(b, Light)
    BY DEF Moves, Touch, CoreField
  <1>4. Moves(c, w, {"phase"})
    <2>1. DOMAIN c = {"buf_pos", "t_status", "xst"} /\ c.xst = w
      OBVIOUS
    <2> HIDE DEF c
    <2> QED BY <2>1 DEF Moves, Touch, CoreField
  <1>5. Touch(d, {"phase"}) /\ Touch(next_block, {"phase"})
    <2>1. Touch([phase |-> "ST"], {"phase"})
      BY DEF Touch
    <2>2. Touch(next_block, {"phase"})
      BY DEF Touch, CoreField, next_block
    <2> QED BY <2>1, <2>2, TouchNone
  <1> HIDE DEF a, b, c, d
  <1>6. Moves(next_block ++ c, w, {"phase"})
    BY <1>0, <1>4, <1>5, MovesOver
  <1>7. Moves(next_block ++ c ++ d, w, {"phase"})
    BY <1>0, <1>5, <1>6, MovesOver
  <1>8. MayMove(w) /\ MayMove("X_SD_WR_ACK")
    BY <1>0, <1>2, MayMoveXfer DEF XferState
  <1> QED BY <1>1, <1>3, <1>7, <1>8, TouchNone DEF WorkPatch
-----------------------------------------------------------------------------
(* Bytes from and to the sector buffer. *)

(* A byte is counted.                                                      *)
LEMMA ByteTaken == Touch(byte_taken, Light)
  <1> DEFINE a == [buf_pos |-> e.buf_pos + 1, counter |-> e.counter - 1]
             b == [phase |-> "ST"]
  <1>1. byte_taken = a ++ <<>> \/ byte_taken = a ++ b \/ byte_taken = a ++ check_condition
    BY DEF byte_taken
  <1>2. Touch(a, Light) /\ Touch(b, Light) /\ Touch(check_condition, Light)
    BY CheckTouch DEF Touch, CoreField, Light
  <1> HIDE DEF a, b
  <1>3. Touch(a ++ <<>>, Light \cup Light) /\ Touch(a ++ b, Light \cup Light)
        /\ Touch(a ++ check_condition, Light \cup Light)
    BY <1>2, TouchNone, TouchOver
  <1>4. Light \cup Light = Light
    OBVIOUS
  <1> QED BY <1>1, <1>3, <1>4

(* A byte from the sector buffer to the channel.                           *)
LEMMA DiGet ==
  ASSUME Hyp, e.xst \in {"X_DI_RD", "X_DI_GET"}
  PROVE  WorkPatch([xst |-> "X_DI_GET"]) /\ WorkPatch(di_get)
  <1> DEFINE x == [xst |-> "X_DI_GET"]
             y == [xst |-> "X_DI_CHK"]
             f == buf_put(e.db_q)
  <1>0. InTransfer(e) /\ ~e.tc /\ ~e.m_req /\ e.xst \notin TcState
    BY InXfer DEF XferState, RestState
  <1>1. di_get = byte_taken ++ f ++ y
    BY DEF di_get
  <1>2. Moves(x, "X_DI_GET", {"phase"}) /\ Moves(y, "X_DI_CHK", Light)
    BY MoveIs
  <1>3. Touch(f, Light)
    BY FifoTouch, TouchMore
  <1> HIDE DEF x, y, f
  <1>4. Touch(byte_taken ++ f, Light \cup Light)
    BY <1>3, ByteTaken, TouchOver
  <1>5. Light \in SUBSET Light /\ Light \cup Light = Light
    OBVIOUS
  <1>6. Moves(byte_taken ++ f ++ y, "X_DI_CHK", Light)
    BY <1>2, <1>4, <1>5, MovesOver
  <1>7. MayMove("X_DI_GET") /\ MayMove("X_DI_CHK")
    BY <1>0, MayMoveXfer DEF XferState
  <1> QED BY <1>0, <1>1, <1>2, <1>6, <1>7 DEF WorkPatch, x

(* A byte from the sector buffer to the FIFO.                              *)
LEMMA FdiGet ==
  ASSUME Hyp, e.xst \in {"X_FDI_WAIT", "X_FDI_GET"}, NEW busy \in BOOLEAN
  PROVE  WorkPatch([xst |-> "X_FDI_GET"]) /\ WorkPatch(fdi_get(busy))
  <1> DEFINE x == [xst |-> "X_FDI_GET"]
             y == [xst |-> "X_FDI_CHK"]
             f == fifo_push(Data(e.db_q))
  <1>0. InTransfer(e) /\ ~e.tc /\ ~e.m_req /\ e.xst \notin TcState
    BY InXfer DEF XferState, RestState
  <1>1. fdi_get(busy) = <<>> \/ fdi_get(busy) = y \/ fdi_get(busy) = byte_taken ++ f ++ y
    BY DEF fdi_get
  <1>2. Moves(x, "X_FDI_GET", {"phase"}) /\ Moves(y, "X_FDI_CHK", Light)
    BY MoveIs
  <1>3. Touch(f, Light)
    BY FifoTouch, TouchMore
  <1> HIDE DEF x, y, f
  <1>4. Touch(byte_taken ++ f, Light \cup Light)
    BY <1>3, ByteTaken, TouchOver
  <1>5. Light \in SUBSET Light /\ Light \cup Light = Light
    OBVIOUS
  <1>6. Moves(byte_taken ++ f ++ y, "X_FDI_CHK", Light)
    BY <1>2, <1>4, <1>5, MovesOver
  <1>7. MayMove("X_FDI_GET") /\ MayMove("X_FDI_CHK")
    BY <1>0, MayMoveXfer DEF XferState
  <1> QED BY <1>0, <1>1, <1>2, <1>6, <1>7, TouchNone DEF WorkPatch, x
-----------------------------------------------------------------------------
(* Data out. *)

(* A byte to the sector buffer, which may be full with it.                 *)
LEMMA SectorPut ==
  ASSUME NEW b
  PROVE  Touch(sector_put(b), Light) \/ Moves(sector_put(b), "X_WR_SECT", Light)
  <1> DEFINE p == [eng_we |-> TRUE, eng_addr |-> e.buf_pos, eng_wd |-> b,
                   buf_pos |-> e.buf_pos + 1]
             x == [xst |-> "X_WR_SECT"]
  <1>1. sector_put(b) = p ++ x \/ sector_put(b) = p ++ <<>>
    BY DEF sector_put
  <1>2. Touch(p, Light)
    <2>1. DOMAIN p = {"eng_we", "eng_addr", "eng_wd", "buf_pos"}
      OBVIOUS
    <2> HIDE DEF p
    <2> QED BY <2>1 DEF Touch, CoreField
  <1>3. Moves(x, "X_WR_SECT", Light)
    BY MoveIs
  <1> HIDE DEF p, x
  <1>4. Light \in SUBSET Light /\ Light \cup Light = Light
    OBVIOUS
  <1>5. Moves(p ++ x, "X_WR_SECT", Light)
    BY <1>2, <1>3, <1>4, MovesOver
  <1>6. Touch(p ++ <<>>, Light)
    BY <1>2, <1>4, TouchNone, TouchOver
  <1> QED BY <1>1, <1>5, <1>6

(* A byte put into the sector, and what goes with it.                      *)
LEMMA PutWith ==
  ASSUME Hyp, e.xst \in XferState \ RestState, ~e.m_req, NEW b, NEW q, Touch(q, Light)
  PROVE  WorkPatch(sector_put(b) ++ q)
  <1>1. InTransfer(e) /\ ~e.tc /\ e.xst \notin TcState
    BY InXfer
  <1>2. Light \in SUBSET Light /\ Light \cup Light = Light
    OBVIOUS
  <1>3. CASE Touch(sector_put(b), Light)
    <2>1. Touch(sector_put(b) ++ q, Light)
      BY <1>2, <1>3, TouchOver
    <2> QED BY <1>1, <2>1 DEF WorkPatch
  <1>4. CASE Moves(sector_put(b), "X_WR_SECT", Light)
    <2>1. Moves(sector_put(b) ++ q, "X_WR_SECT", Light)
      BY <1>2, <1>4, MovesOver
    <2>2. MayMove("X_WR_SECT")
      BY <1>1, MayMoveXfer DEF XferState
    <2> QED BY <1>1, <2>1, <2>2 DEF WorkPatch
  <1> QED BY <1>3, <1>4, SectorPut

(* The end of a transfer: perhaps a window ends with it, and what the      *)
(* channel holds back is noted.                                            *)
LEMMA DoneWith ==
  ASSUME NEW h, Touch(h, {}), NEW n \in 0 .. 2
  PROVE  Irqs(h ++ transfer_done ++ [dma_irq_resume |-> n])
  <1> DEFINE q == [dma_irq_resume |-> n]
  <1>1. Retains(h)
    BY RetainsTouch
  <1>2. Retains(q)
    BY DEF Retains, Touch
  <1> HIDE DEF q
  <1>3. Irqs(h ++ transfer_done)
    BY <1>1, TransferDone, IrqsOver
  <1>4. Irqs(h ++ transfer_done ++ q)
    BY <1>2, <1>3, IrqsOver
  <1> QED BY <1>4 DEF q

(* A byte from the channel to the sector buffer.                           *)
LEMMA DoPut ==
  ASSUME Hyp, e.xst = "X_DO_PUT"
  PROVE  WorkPatch(do_put)
  <1> DEFINE a == [dma_buf_limit |-> 0, xst |-> "X_DO_CHK"]
             h == HitLimitIf(e.d_en /\ e.d_next = e.d_limit)
             q == [counter |-> e.counter - 1, dma_buf |-> Tail(e.dma_buf),
                   dma_buf_limit |-> IF dma_buf_size = 1 THEN 0 ELSE e.dma_buf_limit]
  <1>0. InTransfer(e) /\ ~e.tc /\ ~e.m_req /\ e.xst \notin TcState /\ e.xst \in XferState \ RestState
    BY InXfer DEF XferState, RestState
  <1>1. do_put = a \/ do_put = h ++ transfer_done ++ [dma_irq_resume |-> 2]
        \/ do_put = sector_put(Head(e.dma_buf)) ++ q
    BY DEF do_put, retain
  <1>2. Moves(a, "X_DO_CHK", {"phase"})
    BY DEF Moves, Touch, CoreField
  <1>3. Touch(h, {})
    <2>1. h = dma_hit_limit \/ h = <<>>
      BY DEF HitLimitIf
    <2> QED BY <2>1, HitTouch, TouchNone
  <1>4. Touch(q, Light)
    <2>1. DOMAIN q = {"counter", "dma_buf", "dma_buf_limit"}
      OBVIOUS
    <2> HIDE DEF q
    <2> QED BY <2>1 DEF Touch, CoreField, Light
  <1> HIDE DEF a, h, q
  <1>5. Irqs(h ++ transfer_done ++ [dma_irq_resume |-> 2])
    BY <1>3, DoneWith
  <1>6. WorkPatch(sector_put(Head(e.dma_buf)) ++ q)
    BY <1>0, <1>4, PutWith
  <1>7. MayMove("X_DO_CHK")
    BY <1>0, MayMoveXfer DEF XferState
  <1> QED BY <1>0, <1>1, <1>2, <1>5, <1>6, <1>7 DEF WorkPatch

(* A byte from the FIFO to the sector buffer.                              *)
LEMMA Fdo ==
  ASSUME Hyp, e.xst = "X_FDO", NEW busy \in BOOLEAN
  PROVE  WorkPatch(fdo(busy))
  <1> DEFINE i == esp_irq({"BS"})
             s == sector_put(Head(e.fifo)[2])
             c == [counter |-> e.counter - 1]
             x == [xst |-> "X_DO_CHK"]
  <1>0. InTransfer(e) /\ ~e.tc /\ ~e.m_req /\ e.xst \notin TcState /\ e.xst \in XferState \ RestState
        /\ ~e.transfer_reported
    BY InXfer DEF XferState, RestState, InTransfer
  <1>1. \/ fdo(busy) \in {<<>>, transfer_done, i, x}
        \/ fdo(busy) = s ++ fifo_pop ++ c \/ fdo(busy) = s ++ fifo_pop ++ <<>>
    BY <1>0 DEF fdo
  <1>2. PlainIrq(i) /\ Moves(x, "X_DO_CHK", {"phase"})
    BY IrqIs, MoveIs
  <1>3. Touch(c, Light) /\ Touch(<<>>, Light) /\ Touch(fifo_pop, Light)
    BY TouchNone, FifoTouch, TouchMore DEF Touch, Light
  <1> HIDE DEF i, s, c, x
  <1>4. /\ s ++ fifo_pop ++ c = s ++ (fifo_pop ++ c)
        /\ s ++ fifo_pop ++ <<>> = s ++ (fifo_pop ++ <<>>)
    BY OverIs
  <1>5. Touch(fifo_pop ++ c, Light \cup Light) /\ Touch(fifo_pop ++ <<>>, Light \cup Light)
    BY <1>3, TouchOver
  <1>6. Touch(fifo_pop ++ c, Light) /\ Touch(fifo_pop ++ <<>>, Light)
    <2>1. Light \cup Light = Light
      OBVIOUS
    <2> QED BY <1>5, <2>1
  <1>7. WorkPatch(s ++ (fifo_pop ++ c)) /\ WorkPatch(s ++ (fifo_pop ++ <<>>))
    BY <1>0, <1>6, PutWith DEF s
  <1>8. MayMove("X_DO_CHK")
    BY <1>0, MayMoveXfer DEF XferState
  <1>9. WorkPatch(<<>>) /\ WorkPatch(transfer_done) /\ WorkPatch(i) /\ WorkPatch(x)
    BY <1>0, <1>2, <1>8, TouchNone, TransferDone DEF WorkPatch
  <1> QED BY <1>1, <1>4, <1>7, <1>9

(* The states the engine may rest in, before the transfer is reported.     *)
LEMMA InCheck ==
  ASSUME Hyp, e.xst \in RestState \ {"X_IDLE"}, ~e.transfer_reported
  PROVE  /\ InTransfer(e) /\ ~Quiet(e) /\ ~e.int /\ e.cmd_inprogress
         /\ e.m_req => e.xst = "X_DI_WR"
         /\ e.tc => e.counter = 0 /\ e.xst \in TcState
  <1>1. ~Quiet(e) /\ e.xst \in XferState
    BY DEF Quiet, RestState, XferState
  <1>2. InTransfer(e) /\ ~e.int /\ e.cmd_inprogress
    BY <1>1 DEF Hyp, EngineInv, Owned
  <1>3. e.m_req => e.xst \in {"X_DI_WR", "X_DO_RD"}
    BY <1>2 DEF Hyp, EngineInv, Transferring
  <1>4. e.tc => e.counter = 0 /\ e.xst \in TcState
    BY <1>2 DEF Hyp, EngineInv, Transferring
  <1> QED BY <1>1, <1>2, <1>3, <1>4 DEF RestState

(* Data out through the channel: is there something to fetch?              *)
LEMMA DoChk ==
  ASSUME Hyp, e.xst = "X_DO_CHK", NEW r, After(r, do_chk, e)
  PROVE  Good(r)
  <1> DEFINE i == [xst |-> "X_IDLE"]
             f == [xst |-> "X_FDO"]
             u == [xst |-> "X_DO_PUT"]
             d == [xst |-> "X_DO_RD"]
             h == HitLimitIf(e.d_en /\ e.d_next = e.d_limit)
             n == IF e.dma_buf # <<>> THEN 2 ELSE 0
  <1>1. /\ e.transfer_reported => do_chk = i
        /\ ~e.transfer_reported =>
              do_chk \in {f, u, d, <<>>, dma_hit_limit, h ++ transfer_done ++ [dma_irq_resume |-> n]}
    BY DEF do_chk, retain
  <1>2. /\ Moves(f, "X_FDO", {"phase"}) /\ Moves(u, "X_DO_PUT", {"phase"})
        /\ Moves(d, "X_DO_RD", {"phase"})
    BY MoveIs
  <1>3. Touch(h, {})
    <2>1. h = dma_hit_limit \/ h = <<>>
      BY DEF HitLimitIf
    <2> QED BY <2>1, HitTouch, TouchNone
  <1>4. n \in 0 .. 2
    OBVIOUS
  <1>5. DOMAIN i = {"xst"} /\ i.xst = "X_IDLE"
    OBVIOUS
  <1> HIDE DEF i, f, u, d, h, n
  <1>6. CASE e.transfer_reported
    <2>1. Touch(i, {"xst", "dma_irq_resume"})
      BY <1>5 DEF Touch
    <2> QED BY <1>1, <1>5, <1>6, <2>1, GoodRest DEF RestState
  <1>7. CASE ~e.transfer_reported
    <2>1. InTransfer(e) /\ ~Quiet(e) /\ ~e.m_req /\ ~e.tc
      BY <1>7, InCheck DEF RestState, TcState
    <2>2. MayMove("X_FDO") /\ MayMove("X_DO_PUT") /\ MayMove("X_DO_RD")
      BY <2>1, MayMoveXfer DEF XferState
    <2>3. /\ WorkPatch(f) /\ WorkPatch(u) /\ WorkPatch(d)
      BY <1>2, <2>2 DEF WorkPatch
    <2>4. WorkPatch(<<>>) /\ WorkPatch(dma_hit_limit)
      BY TouchNone, HitTouch, TouchMore DEF WorkPatch
    <2>5. WorkPatch(h ++ transfer_done ++ [dma_irq_resume |-> n])
      BY <1>3, <1>4, <2>1, DoneWith DEF WorkPatch
    <2> QED BY <1>1, <1>7, <2>1, <2>3, <2>4, <2>5, GoodWork
  <1> QED BY <1>6, <1>7

(* A word is fetched for the disk, or the channel meets the end of RAM.    *)
LEMMA GoodFetch ==
  ASSUME NEW r, NEW p, Hyp, After(r, p, e), Touch(p, {"m_req", "xst", "dma_irq_resume"}),
         e.xst = "X_DO_RD", r.m_req \in BOOLEAN, r.m_req => r.xst = "X_DO_RD",
         r.xst \in {"X_DO_RD", "X_DO_CHK", "X_IDLE"},
         r.dma_irq_resume \in {0, e.dma_irq_resume}
  PROVE  Good(r)
  <1>1. InTransfer(e) /\ ~Quiet(e) /\ ~e.int /\ e.cmd_inprogress /\ ~e.tc
    BY InXfer DEF XferState, RestState
  <1>2. /\ r.int = e.int /\ r.intstatus = e.intstatus
        /\ r.cmd_inprogress = e.cmd_inprogress /\ r.cmd_waiting = e.cmd_waiting
        /\ r.command0 = e.command0 /\ r.command1 = e.command1
        /\ r.transfer_reported = e.transfer_reported /\ r.tc = e.tc
        /\ r.dma_flush_count = e.dma_flush_count
        /\ r.dma_flush_active = e.dma_flush_active /\ r.rd_ret = e.rd_ret
        /\ r.resrept = e.resrept
    BY Untouched
  <1>3. CoreType(r) /\ Eff(r)
    BY <1>2 DEF Hyp, CoreType, Eff, Kept, Silent, XState
  <1>4. Caused(r) /\ Owned(r)
    BY <1>1, <1>2 DEF Hyp, EngineInv, Caused, Owned, InTransfer, SelState, SectState
  <1>5. ~Flushing(e)
    BY <1>1 DEF Hyp, EngineInv, Flushed
  <1>6. Flushed(r) /\ Transferring(r)
    BY <1>1, <1>2, <1>5 DEF Hyp, EngineInv, Flushed, Transferring, Flushing, InTransfer, Silent
  <1> QED BY <1>3, <1>4, <1>6 DEF Good, EngineInv

(* A word is fetched from RAM.                                             *)
LEMMA DoRd ==
  ASSUME Hyp, e.xst = "X_DO_RD", NEW m_ack \in BOOLEAN, NEW w, NEW r, After(r, do_rd(m_ack, w), e)
  PROVE  Good(r)
  <1> DEFINE a == [m_req |-> TRUE, m_we |-> FALSE, m_addr |-> e.d_next]
             b == [m_req |-> FALSE, dma_irq_resume |-> 0, xst |-> "X_IDLE"]
             c == [m_req |-> FALSE, dma_buf |-> e.dma_buf \o w,
                   dma_buf_limit |-> e.dma_buf_limit + WordBytes, xst |-> "X_DO_CHK"]
             G == {"m_req", "xst", "dma_irq_resume"}
  <1>1. do_rd(m_ack, w) \in {<<>>, a, dma_bus_exception ++ b, advance ++ c}
    BY DEF do_rd
  <1>2. Touch(dma_bus_exception, {}) /\ Touch(advance, {})
    BY DEF Touch, CoreField, dma_bus_exception, advance
  <1>3. DOMAIN a = {"m_req", "m_we", "m_addr"} /\ a.m_req = TRUE
    OBVIOUS
  <1>4. DOMAIN b = G /\ b.m_req = FALSE /\ b.xst = "X_IDLE" /\ b.dma_irq_resume = 0
    OBVIOUS
  <1>5. DOMAIN c = {"m_req", "dma_buf", "dma_buf_limit", "xst"} /\ c.m_req = FALSE
        /\ c.xst = "X_DO_CHK"
    OBVIOUS
  <1> HIDE DEF a, b, c
  <1>6. Touch(a, G) /\ Touch(b, G) /\ Touch(c, G)
    BY <1>3, <1>4, <1>5 DEF Touch, CoreField
  <1>7. e.m_req \in BOOLEAN
    BY DEF Hyp, CoreType
  <1>9. CASE do_rd(m_ack, w) = <<>>
    <2>1. r.m_req = e.m_req /\ r.xst = e.xst /\ r.dma_irq_resume = e.dma_irq_resume
      BY <1>9, NoAssignment DEF After, CoreField
    <2> QED BY <1>7, <1>9, <2>1, GoodFetch, TouchNone
  <1>10. CASE do_rd(m_ack, w) = a
    <2>1. r.m_req = TRUE /\ r.xst = e.xst /\ r.dma_irq_resume = e.dma_irq_resume
      BY <1>3, <1>10 DEF After, Val, CoreField
    <2> QED BY <1>6, <1>10, <2>1, GoodFetch
  <1>11. CASE do_rd(m_ack, w) = dma_bus_exception ++ b
    <2>1. After(r, b, e)
      BY <1>2, <1>11, AfterSkip
    <2>2. r.m_req = FALSE /\ r.xst = "X_IDLE" /\ r.dma_irq_resume = 0
      BY <1>4, <2>1 DEF After, Val, CoreField
    <2> QED BY <1>6, <2>1, <2>2, GoodFetch
  <1>12. CASE do_rd(m_ack, w) = advance ++ c
    <2>1. After(r, c, e)
      BY <1>2, <1>12, AfterSkip
    <2>2. r.m_req = FALSE /\ r.xst = "X_DO_CHK" /\ r.dma_irq_resume = e.dma_irq_resume
      BY <1>5, <2>1 DEF After, Val, CoreField
    <2> QED BY <1>6, <2>1, <2>2, GoodFetch
  <1> QED BY <1>1, <1>9, <1>10, <1>11, <1>12
-----------------------------------------------------------------------------
(* Data in. *)

(* The buffer is drained before the transfer is reported.                  *)
LEMMA GoodDrained ==
  ASSUME NEW r, Hyp, After(r, drained, e), e.xst = "X_DI_CHK"
  PROVE  Good(r)
  <1> DEFINE p == drained
  <1>0. DOMAIN p = {"dma_irq_resume", "xst"} /\ p.xst = "X_IDLE" /\ p.dma_irq_resume = 0
    BY DEF drained
  <1> HIDE DEF p
  <1>1. After(r, p, e) /\ Touch(p, {"xst", "dma_irq_resume"})
    BY <1>0 DEF Touch, p
  <1>2. CASE e.transfer_reported
    BY <1>0, <1>1, <1>2, GoodRest DEF RestState
  <1>3. CASE ~e.transfer_reported
    <2>1. InTransfer(e) /\ ~Quiet(e) /\ ~e.int /\ e.cmd_inprogress /\ ~e.m_req
          /\ (e.tc => e.counter = 0)
      BY <1>3, InCheck DEF RestState
    <2>2. /\ r.int = e.int /\ r.intstatus = e.intstatus
          /\ r.cmd_inprogress = e.cmd_inprogress /\ r.cmd_waiting = e.cmd_waiting
          /\ r.command0 = e.command0 /\ r.command1 = e.command1
          /\ r.transfer_reported = e.transfer_reported /\ r.tc = e.tc
          /\ r.counter = e.counter /\ r.phase = e.phase /\ r.m_req = e.m_req
          /\ r.dma_flush_count = e.dma_flush_count
          /\ r.dma_flush_return = e.dma_flush_return /\ r.dma_flush_active = e.dma_flush_active
          /\ r.rd_ret = e.rd_ret
          /\ r.resrept = e.resrept
      BY <1>1, RestFrame
    <2>3. r.xst = "X_IDLE" /\ r.dma_irq_resume = 0
      BY <1>0, <1>1 DEF After, Val, CoreField
    <2>4. CoreType(r) /\ Eff(r)
      BY <2>1, <2>2, <2>3 DEF Hyp, CoreType, Eff, Kept, Silent, XState
    <2>5. Caused(r) /\ Owned(r)
      BY <2>1, <2>2, <2>3 DEF Hyp, EngineInv, Caused, Owned, Quiet, InTransfer, SelState,
                              SectState, XferState
    <2>6. Flushed(r) /\ Transferring(r)
      BY <2>1, <2>2, <2>3 DEF Hyp, EngineInv, Flushed, Flushing, Transferring, Quiet, InTransfer,
                              Silent, TcState
    <2> QED BY <2>4, <2>5, <2>6 DEF Good, EngineInv
  <1> QED BY <1>2, <1>3

(* Data in through the channel: where does the next byte come from?        *)
LEMMA DiChk ==
  ASSUME Hyp, e.xst = "X_DI_CHK", NEW busy \in BOOLEAN, NEW r, After(r, di_chk(busy), e)
  PROVE  Good(r)
  <1> DEFINE w == [xst |-> "X_DI_WR"]
             f == [xst |-> "X_FDI_CHK"]
             d == [eng_addr |-> e.buf_pos, xst |-> "X_DI_RD"]
             u == buf_put(Head(e.fifo)[2])
             h == HitLimitIf(e.d_next = e.d_limit)
             n == IF e.dma_buf # <<>> THEN 1 ELSE 0
  <1>1. \/ di_chk(busy) \in {<<>>, drained, w}
        \/ ~e.transfer_reported /\ di_chk(busy) \in {f, u ++ fifo_pop, h ++ transfer_done ++ [dma_irq_resume |-> n]}
        \/ ~e.transfer_reported /\ e.counter # 0 /\ di_chk(busy) \in {d, read_sector("dma")}
    BY DEF di_chk
  <1>2. /\ DOMAIN w = {"xst"} /\ w.xst = "X_DI_WR" /\ Moves(w, "X_DI_WR", {"phase"})
        /\ Moves(f, "X_FDI_CHK", {"phase"})
    BY MoveIs
  <1>3. Moves(d, "X_DI_RD", {"phase"})
    BY DEF Moves, Touch, CoreField
  <1>4. Touch(h, {})
    <2>1. h = dma_hit_limit \/ h = <<>>
      BY DEF HitLimitIf
    <2> QED BY <2>1, HitTouch, TouchNone
  <1>5. n \in 0 .. 2
    OBVIOUS
  <1>6. Touch(u ++ fifo_pop, {} \cup {})
    BY FifoTouch, TouchOver
  <1> HIDE DEF w, f, d, u, h, n
  <1>7. CASE di_chk(busy) = drained
    BY <1>7, GoodDrained
  <1>8. CASE e.transfer_reported /\ di_chk(busy) \in {<<>>, w}
    <2>1. /\ Touch(w, {"xst", "dma_irq_resume"}) /\ Touch(<<>>, {"xst", "dma_irq_resume"})
          /\ DOMAIN <<>> = {}
      BY <1>2, TouchNone, NoAssignment DEF Touch
    <2>2. /\ "X_DI_WR" \in RestState /\ e.xst \in RestState \ {"X_IDLE"}
      BY DEF RestState
    <2>3. CASE di_chk(busy) = w
      BY <1>2, <1>8, <2>1, <2>2, <2>3, GoodRest
    <2>4. CASE di_chk(busy) = <<>>
      BY <1>8, <2>1, <2>2, <2>4, GoodRest
    <2> QED BY <1>8, <2>3, <2>4
  <1>9. CASE ~e.transfer_reported /\ di_chk(busy) # drained
    <2>1. InTransfer(e) /\ ~Quiet(e) /\ ~e.m_req /\ (e.tc => e.counter = 0)
      BY <1>9, InCheck DEF RestState
    <2>2. MayMove("X_DI_WR") /\ MayMove("X_FDI_CHK") /\ (~e.tc => MayMove("X_DI_RD"))
      BY <2>1 DEF MayMove, XState, SelState, SectState, XferState, TcState
    <2>3. WorkPatch(w) /\ WorkPatch(f) /\ (~e.tc => WorkPatch(d))
      BY <1>2, <1>3, <2>2 DEF WorkPatch
    <2>4. WorkPatch(<<>>) /\ WorkPatch(u ++ fifo_pop)
      <3>1. \A p : Touch(p, {}) => Touch(p, Light) /\ Touch(p, {"phase"})
        BY TouchMore
      <3>2. Touch(u ++ fifo_pop, {})
        BY <1>6
      <3> QED BY <3>1, <3>2, TouchNone DEF WorkPatch
    <2>5. WorkPatch(h ++ transfer_done ++ [dma_irq_resume |-> n])
      BY <1>4, <1>5, <2>1, DoneWith DEF WorkPatch
    <2>6. CASE ~e.tc /\ di_chk(busy) = read_sector("dma")
      BY <2>1, <2>6, GoodRead
    <2>7. CASE WorkPatch(di_chk(busy))
      BY <2>1, <2>7, GoodWork
    <2> QED BY <1>1, <1>9, <2>1, <2>3, <2>4, <2>5, <2>6, <2>7
  <1> QED BY <1>1, <1>7, <1>8, <1>9

(* Data in through the FIFO.                                               *)
LEMMA FdiChk ==
  ASSUME Hyp, e.xst = "X_FDI_CHK", NEW r, After(r, fdi_chk, e)
  PROVE  Good(r)
  <1> DEFINE x == [xst |-> "X_DI_CHK"]
             d == [eng_addr |-> e.buf_pos, xst |-> "X_FDI_WAIT"]
  <1>1. \/ fdi_chk = x
        \/ ~e.transfer_reported /\ fdi_chk \in {<<>>, transfer_done}
        \/ ~e.transfer_reported /\ e.counter # 0 /\ fdi_chk \in {d, read_sector("dma")}
    BY DEF fdi_chk
  <1>2. /\ DOMAIN x = {"xst"} /\ x.xst = "X_DI_CHK" /\ Moves(x, "X_DI_CHK", {"phase"})
    BY MoveIs
  <1>3. Moves(d, "X_FDI_WAIT", {"phase"})
    BY DEF Moves, Touch, CoreField
  <1> HIDE DEF x, d
  <1>4. CASE e.transfer_reported
    <2>1. fdi_chk = x /\ Touch(x, {"xst", "dma_irq_resume"})
      BY <1>1, <1>2, <1>4 DEF Touch
    <2>2. /\ "X_DI_CHK" \in RestState /\ e.xst \in RestState \ {"X_IDLE"}
      BY DEF RestState
    <2> QED BY <1>2, <1>4, <2>1, <2>2, GoodRest
  <1>5. CASE ~e.transfer_reported
    <2>1. InTransfer(e) /\ ~Quiet(e) /\ ~e.m_req /\ (e.tc => e.counter = 0)
      BY <1>5, InCheck DEF RestState
    <2>2. MayMove("X_DI_CHK") /\ (~e.tc => MayMove("X_FDI_WAIT"))
      BY <2>1 DEF MayMove, XState, SelState, SectState, XferState, TcState
    <2>3. WorkPatch(x) /\ WorkPatch(<<>>) /\ WorkPatch(transfer_done) /\ (~e.tc => WorkPatch(d))
      BY <1>2, <1>3, <2>1, <2>2, TouchNone, TransferDone DEF WorkPatch
    <2>4. CASE ~e.tc /\ fdi_chk = read_sector("dma")
      BY <2>1, <2>4, GoodRead
    <2>5. CASE WorkPatch(fdi_chk)
      BY <2>1, <2>5, GoodWork
    <2> QED BY <1>1, <1>5, <2>1, <2>3, <2>4, <2>5
  <1> QED BY <1>4, <1>5
-----------------------------------------------------------------------------
(* The end of the delay, and the command block. *)

(* The interrupt is raised, and a transfer is reported with it.            *)
LEMMA IntWait ==
  ASSUME Hyp, e.xst = "X_INT_WAIT", NEW gone \in BOOLEAN, NEW r, After(r, int_wait(gone), e)
  PROVE  /\ Good(r)
         /\ ~e.dly /\ e.command0 = "TI" => r.transfer_reported
         /\ Touch(int_wait(gone), {"int", "transfer_reported", "xst"})
         /\ e.dly => Touch(int_wait(gone), {})
  <1> DEFINE w == CASE e.dma_irq_resume = 1 -> "X_DI_CHK"
                    [] e.dma_irq_resume = 2 -> "X_DO_CHK"
                    [] e.dma_irq_resume = 0 -> "X_IDLE"
             d == [dly |-> FALSE]
             p == [int |-> TRUE, transfer_reported |-> e.transfer_reported \/ e.command0 = "TI",
                   xst |-> w]
  <1>0. /\ ~Quiet(e) /\ e.cmd_inprogress /\ ~e.int /\ e.intstatus # {}
        /\ ~(Flushing(e) /\ e.dma_flush_return = "X_INT_WAIT")
    BY DEF Hyp, EngineInv, Caused, Owned, Flushed, Quiet, RestState
  <1>1. /\ e.dly => int_wait(gone) = d \/ int_wait(gone) = <<>>
        /\ ~e.dly => int_wait(gone) = p
    BY DEF int_wait
  <1>2. /\ w \in {"X_DI_CHK", "X_DO_CHK", "X_IDLE"}
        /\ e.dma_irq_resume = 0 => w = "X_IDLE"
    BY DEF Hyp, CoreType
  <1>3. DOMAIN p = {"int", "transfer_reported", "xst"} /\ p.int = TRUE /\ p.xst = w
        /\ p.transfer_reported = (e.transfer_reported \/ e.command0 = "TI")
    <2> HIDE DEF w
    <2> QED OBVIOUS
  <1>4. Touch(d, {})
    BY DEF Touch, CoreField
  <1> HIDE DEF w, p, d
  <1>5. CASE e.dly
    <2>1. Touch(int_wait(gone), {})
      BY <1>1, <1>4, <1>5, TouchNone
    <2>2. Touch(int_wait(gone), Light) /\ Touch(int_wait(gone), {"phase"})
          /\ Touch(int_wait(gone), {"int", "transfer_reported", "xst"})
      BY <2>1, TouchMore
    <2> QED BY <1>5, <2>1, <2>2, GoodStay
  <1>6. CASE ~e.dly
    <2>1. Touch(p, {"int", "transfer_reported", "xst"}) /\ After(r, p, e) /\ int_wait(gone) = p
      BY <1>1, <1>3, <1>6 DEF Touch
    <2>2. /\ r.intstatus = e.intstatus
          /\ r.cmd_inprogress = e.cmd_inprogress /\ r.cmd_waiting = e.cmd_waiting
          /\ r.command0 = e.command0 /\ r.command1 = e.command1
          /\ r.tc = e.tc /\ r.counter = e.counter /\ r.m_req = e.m_req
          /\ r.dma_flush_count = e.dma_flush_count
          /\ r.dma_flush_return = e.dma_flush_return /\ r.dma_flush_active = e.dma_flush_active
          /\ r.dma_irq_resume = e.dma_irq_resume /\ r.rd_ret = e.rd_ret
          /\ r.resrept = e.resrept
      <3>1. \A G : Touch(p, G) /\ G = {"int", "transfer_reported", "xst"} =>
               {"intstatus", "cmd_inprogress", "cmd_waiting", "command0", "command1", "tc",
                "counter", "m_req", "dma_flush_count", "dma_flush_return", "dma_flush_active",
                "dma_irq_resume", "rd_ret", "resrept"} \cap DOMAIN p = {}
        BY <1>3
      <3> QED BY <2>1, <3>1 DEF After, Val, CoreField
    <2>3. r.int = TRUE /\ r.xst = w
          /\ r.transfer_reported = (e.transfer_reported \/ e.command0 = "TI")
      BY <1>3, <2>1 DEF After, Val, CoreField
    <2>4. r.transfer_reported \in BOOLEAN /\ (e.transfer_reported => r.transfer_reported)
          /\ (e.command0 = "TI" => r.transfer_reported)
          /\ (r.transfer_reported => e.transfer_reported \/ e.command0 = "TI")
      BY <2>3 DEF Hyp, CoreType
    <2>5. ~InTransfer(r)
      BY <2>2, <2>4 DEF InTransfer
    <2>6. CoreType(r) /\ Eff(r)
      BY <1>0, <1>2, <2>2, <2>3, <2>4 DEF Hyp, CoreType, Eff, Kept, Silent, XState
    <2>7. Quiet(r)
      BY <1>2, <2>2, <2>3, <2>4 DEF Hyp, EngineInv, Owned, Quiet, RestState
    <2>8. Caused(r) /\ Owned(r)
      BY <1>0, <1>2, <2>2, <2>3, <2>5, <2>7 DEF Hyp, EngineInv, Caused, Owned, SelState, SectState
    <2>9. Flushed(r)
      BY <1>0, <2>2, <2>4, <2>5 DEF Hyp, EngineInv, Flushed, Flushing, InTransfer, TcState,
                                    RestState
    <2>10. Silent(r) => r.xst = "X_IDLE"
      BY <1>2, <2>2, <2>3 DEF Hyp, EngineInv, Owned, Silent
    <2>11. Transferring(r)
      BY <2>2, <2>5, <2>7, <2>10 DEF Hyp, EngineInv, Transferring, Flushing, Silent, XferState
    <2> QED BY <1>6, <2>1, <2>4, <2>6, <2>8, <2>9, <2>11 DEF Good, EngineInv
  <1> QED BY <1>5, <1>6

(* The command block is interpreted: the ESP command is forgotten.         *)
LEMMA Dispatch ==
  ASSUME Hyp, e.xst = "X_DISPATCH", NEW r, After(r, dispatch, e)
  PROVE  Good(r)
  <1> DEFINE m == [command0 |-> "none", command1 |-> "none", cmd_waiting |-> FALSE]
             extent == [lba |-> e.cdb[2], blockcounter |-> e.cdb[3]]
             then == [xst |-> "X_POSTCMD"]
             rs == read_sector("dispatch")
             rd == [t_status |-> "GOOD", phase |-> "DI", buf_pos |-> 0, buf_limit |-> 0]
             wr == [t_status |-> "GOOD", buf_pos |-> 0]
             w0 == [phase |-> "ST", buf_limit |-> 0]
             w1 == [phase |-> "DO", buf_limit |-> SectBytes]
             tur == [t_status |-> "GOOD", phase |-> "ST"]
             G == {"phase"}
             next(p) == Moves(p, "X_POSTCMD", G)
  <1>1. \/ dispatch = m ++ (extent ++ rd ++ rs)
        \/ dispatch = m ++ (check_condition ++ extent ++ then)
        \/ dispatch = m ++ (extent ++ wr ++ then ++ w0)
        \/ dispatch = m ++ (extent ++ wr ++ then ++ w1)
        \/ dispatch = m ++ (tur ++ then)
        \/ dispatch = m ++ (check_condition ++ then)
    BY DEF dispatch
  <1>2. Touch(extent, G) /\ Touch(wr, G)
    BY DEF Touch, CoreField
  <1>3. Touch(w0, G) /\ Touch(w1, G) /\ Touch(tur, G)
    BY DEF Touch, CoreField
  <1>4. Touch(rd, G)
    <2>1. DOMAIN rd = {"t_status", "phase", "buf_pos", "buf_limit"}
      OBVIOUS
    <2> HIDE DEF rd
    <2> QED BY <2>1 DEF Touch, CoreField
  <1>5. Touch(check_condition, G) /\ next(then) /\ G \in SUBSET Light
    BY CheckTouch, MoveIs DEF Light
  <1>6. DOMAIN rs = {"rd_ret", "xst"} /\ rs.rd_ret = "dispatch" /\ rs.xst = "X_RD_SECT"
    BY DEF read_sector
  <1>7. DOMAIN m = {"command0", "command1", "cmd_waiting"} /\ m.command0 = "none"
        /\ m.command1 = "none" /\ m.cmd_waiting = FALSE
    OBVIOUS
  <1> HIDE DEF m, extent, then, rs, rd, wr, w0, w1, tur
  <1>8. PICK q : /\ dispatch = m ++ q
                 /\ \/ next(q)
                    \/ \E f : Touch(f, G) /\ q = f ++ rs
    <2>1. Touch(extent ++ rd, G \cup G) /\ Touch(check_condition ++ extent, G \cup G)
          /\ Touch(extent ++ wr, G \cup G)
      BY <1>2, <1>4, <1>5, TouchOver
    <2>2. Touch(extent ++ rd, G) /\ Touch(check_condition ++ extent, G) /\ Touch(extent ++ wr, G)
      BY <2>1
    <2>3. next(check_condition ++ extent ++ then) /\ next(extent ++ wr ++ then)
          /\ next(tur ++ then) /\ next(check_condition ++ then)
      BY <1>3, <1>5, <2>2, MovesOver
    <2>4. next(extent ++ wr ++ then ++ w0) /\ next(extent ++ wr ++ then ++ w1)
      BY <1>3, <1>5, <2>3, MovesOver
    <2> QED BY <1>1, <2>2, <2>3, <2>4
  <1>9. /\ "xst" \in DOMAIN q /\ Touch(q, {"phase", "xst", "rd_ret"})
        /\ \/ q.xst = "X_POSTCMD" /\ "rd_ret" \notin DOMAIN q
           \/ q.xst = "X_RD_SECT" /\ "rd_ret" \in DOMAIN q /\ q.rd_ret = "dispatch"
    <2>1. CASE next(q)
      BY <2>1 DEF Moves, Touch, CoreField
    <2>2. ASSUME NEW f, Touch(f, G), q = f ++ rs
          PROVE  /\ "xst" \in DOMAIN q /\ Touch(q, {"phase", "xst", "rd_ret"})
                 /\ q.xst = "X_RD_SECT" /\ "rd_ret" \in DOMAIN q /\ q.rd_ret = "dispatch"
      <3>1. q = [x \in DOMAIN f \cup DOMAIN rs |-> IF x \in DOMAIN f THEN f[x] ELSE rs[x]]
        BY <2>2, OverIs
      <3>2. "xst" \notin DOMAIN f /\ "rd_ret" \notin DOMAIN f
        BY <2>2 DEF Touch, CoreField
      <3> QED BY <1>6, <2>2, <3>1, <3>2 DEF Touch
    <2> QED BY <1>8, <2>1, <2>2
  <1>10. \A x \in CoreField : r[x] = Val(m, x, Val(q, x, e[x]))
    BY <1>8, OverIs DEF After, Val
  <1>11. r.command0 = "none" /\ r.command1 = "none" /\ r.cmd_waiting = FALSE
    BY <1>7, <1>10 DEF Val, CoreField
  <1>12. \A x \in CoreField \ DOMAIN m : r[x] = Val(q, x, e[x])
    BY <1>10 DEF Val
  <1>13. /\ r.int = e.int /\ r.intstatus = e.intstatus /\ r.tc = e.tc
         /\ r.cmd_inprogress = e.cmd_inprogress
         /\ r.transfer_reported = e.transfer_reported /\ r.m_req = e.m_req
         /\ r.dma_flush_count = e.dma_flush_count
         /\ r.dma_flush_return = e.dma_flush_return /\ r.dma_flush_active = e.dma_flush_active
         /\ r.dma_irq_resume = e.dma_irq_resume /\ r.resrept = e.resrept
    BY <1>7, <1>9, <1>12 DEF Val, Touch, CoreField
  <1>14. /\ r.rd_ret \in {"dispatch", e.rd_ret}
         /\ r.xst = "X_POSTCMD" \/ (r.xst = "X_RD_SECT" /\ r.rd_ret = "dispatch")
    BY <1>7, <1>9, <1>12 DEF Val, CoreField
  <1>15. ~Quiet(e) /\ e.cmd_inprogress /\ ~e.int /\ Silent(e)
    BY DEF Hyp, EngineInv, Owned, Quiet, SelState, RestState
  <1>16. CoreType(r)
    BY <1>11, <1>13, <1>14 DEF CoreType, Hyp, XState
  <1>17. Silent(r) /\ ~InTransfer(r) /\ ~Flushing(e) /\ ~e.m_req
    BY <1>11, <1>15 DEF Silent, InTransfer, Hyp, EngineInv, Transferring
  <1>18. Eff(r)
    BY <1>11, <1>13, <1>15, <1>17 DEF Eff, Kept, Hyp, CoreType
  <1>19. Caused(r) /\ Owned(r)
    BY <1>13, <1>14, <1>15, <1>17 DEF Hyp, EngineInv, Caused, Owned, Silent, SelState, SectState,
                                      XferState
  <1>20. Flushed(r) /\ Transferring(r)
    BY <1>11, <1>13, <1>14, <1>17 DEF Hyp, EngineInv, Flushed, Transferring, Flushing, Silent,
                                      InTransfer, XferState
  <1> QED BY <1>16, <1>18, <1>19, <1>20 DEF Good, EngineInv
-----------------------------------------------------------------------------
(* Words and flushes. *)

(* The value of a register after two sets of assignments.                  *)
LEMMA ValTwo ==
  ASSUME NEW f, NEW g
  PROVE  \A x, v : Val(f ++ g, x, v) = Val(f, x, Val(g, x, v))
  BY OverIs DEF Val

(* Registers that are not assigned.                                        *)
LEMMA ValNone ==
  ASSUME NEW f, Touch(f, {})
  PROVE  \A x \in CoreField : \A v : Val(f, x, v) = v
  BY DEF Touch, Val

(* What X_DI_WR leaves untouched.  s is the record its assignments are     *)
(* made to: e, but for the count of the flushes.                           *)
WrFrame(r) ==
    /\ r.int = e.int /\ r.cmd_inprogress = e.cmd_inprogress
    /\ r.cmd_waiting = e.cmd_waiting /\ r.command0 = e.command0 /\ r.command1 = e.command1
    /\ r.transfer_reported = e.transfer_reported /\ r.counter = e.counter /\ r.phase = e.phase
    /\ r.dma_flush_return = e.dma_flush_return /\ r.rd_ret = e.rd_ret
    /\ r.resrept = e.resrept
SameCause(r) == r.intstatus = e.intstatus /\ r.tc = e.tc
SameRequest(r) == r.m_req = e.m_req /\ r.dma_flush_active = e.dma_flush_active
(* Its outcomes: a request, an interrupt, nothing left to write, a wait, a *)
(* bus error, a flush or a word written.                                   *)
WrRequest(r, s) ==
    /\ ~e.m_req /\ r.m_req = TRUE
    /\ IF e.dma_flush_count # 0 THEN r.dma_flush_active = TRUE ELSE r.dma_flush_active = FALSE
    /\ r.xst = e.xst /\ r.dma_flush_count = s.dma_flush_count /\ SameCause(r)
    /\ r.dma_irq_resume = e.dma_irq_resume
WrIrq(r, s) ==
    /\ ~e.m_req /\ e.dma_flush_count = 0 /\ ~e.transfer_reported
    /\ r.xst = "X_INT_WAIT" /\ r.intstatus # {}
    /\ r.tc = e.tc \/ (r.tc = TRUE /\ e.counter = 0)
    /\ r.dma_irq_resume \in 0 .. 2 /\ SameRequest(r) /\ r.dma_flush_count = s.dma_flush_count
WrStay(r, s) ==
    /\ e.m_req \/ e.dma_flush_count = 0
    /\ r.xst = e.xst \/ (~e.m_req /\ r.xst = "X_DI_CHK")
    /\ SameCause(r) /\ SameRequest(r)
    /\ r.dma_irq_resume = e.dma_irq_resume /\ r.dma_flush_count = s.dma_flush_count
WrFault(r, s) ==
    /\ r.m_req = FALSE /\ r.dma_flush_active = FALSE /\ r.dma_flush_count = 0
    /\ r.dma_irq_resume = 0 /\ r.xst = "X_IDLE" /\ SameCause(r)
WrAck(r, s) ==
    /\ r.m_req = FALSE /\ r.dma_flush_active = FALSE /\ SameCause(r)
    /\ r.dma_irq_resume = 0 \/ r.dma_irq_resume = e.dma_irq_resume
    /\ IF e.dma_flush_active
       THEN \/ r.dma_flush_count = 0 /\ r.xst \in {"X_IDLE", e.dma_flush_return}
            \/ r.dma_flush_count = s.dma_flush_count /\ r.xst = flush_home
       ELSE r.dma_flush_count = s.dma_flush_count /\ r.xst \in {"X_IDLE", "X_DI_CHK", "X_DI_WR"}
WrOut(r, s, m_ack) ==
    \/ WrRequest(r, s) \/ WrIrq(r, s)
    \/ WrStay(r, s) /\ ~(e.m_req /\ m_ack)
    \/ WrFault(r, s) /\ e.m_req
    \/ WrAck(r, s) /\ e.m_req /\ m_ack
WrField == {"m_req", "dma_flush_active", "dma_flush_count", "dma_irq_resume", "xst",
            "intstatus", "tc"}

(* X_DI_WR assigns no other registers.                                     *)
LEMMA WrUntouched ==
  ASSUME NEW r, NEW p, NEW s, After(r, p, s), Touch(p, WrField),
         \A x \in CoreField \ {"dma_flush_count"} : s[x] = e[x]
  PROVE  WrFrame(r)
  <1>1. /\ s.int = e.int /\ s.cmd_inprogress = e.cmd_inprogress
        /\ s.cmd_waiting = e.cmd_waiting /\ s.command0 = e.command0 /\ s.command1 = e.command1
        /\ s.transfer_reported = e.transfer_reported /\ s.counter = e.counter
        /\ s.phase = e.phase /\ s.dma_flush_return = e.dma_flush_return /\ s.rd_ret = e.rd_ret
        /\ s.resrept = e.resrept
    BY DEF CoreField
  <1>2. {"int", "cmd_inprogress", "cmd_waiting", "command0", "command1", "transfer_reported",
         "counter", "phase", "dma_flush_return", "rd_ret", "resrept"} \cap WrField = {}
    BY DEF WrField
  <1> QED BY <1>1, <1>2, Untouched DEF WrFrame

(* X_DI_WR without a request to RAM.                                       *)
LEMMA DiWrRequest ==
  ASSUME Hyp, e.xst = "X_DI_WR", ~e.m_req, NEW r, NEW s, After(r, di_wr_request, s),
         \A x \in CoreField \ {"dma_flush_count"} : s[x] = e[x]
  PROVE  WrFrame(r) /\ (WrRequest(r, s) \/ WrIrq(r, s) \/ WrStay(r, s))
  <1> DEFINE x == [xst |-> "X_DI_CHK"]
             n == IF e.dma_buf # <<>> THEN 1 ELSE 0
             i == transfer_done ++ [dma_irq_resume |-> n]
  <1>1. \/ di_wr_request = write_word(TRUE) /\ e.dma_flush_count # 0
        \/ di_wr_request = write_word(FALSE) /\ e.dma_flush_count = 0
        \/ di_wr_request = dma_hit_limit ++ i /\ e.dma_flush_count = 0 /\ ~e.transfer_reported
        \/ di_wr_request \in {<<>>, dma_hit_limit ++ x} /\ e.dma_flush_count = 0
    BY DEF di_wr_request
  <1>2. \A b : LET p == write_word(b)
               IN  /\ Touch(p, {"m_req", "dma_flush_active"})
                   /\ {"m_req", "dma_flush_active"} \subseteq DOMAIN p
                   /\ p.m_req = TRUE /\ p.dma_flush_active = b
    BY DEF write_word, Touch, CoreField
  <1>3. Irqs(i)
    <2>1. Touch(<<>>, {}) /\ n \in 0 .. 2
      BY TouchNone
    <2>2. Irqs(<<>> ++ transfer_done ++ [dma_irq_resume |-> n])
      BY <2>1, DoneWith
    <2>3. <<>> ++ transfer_done = transfer_done ++ <<>>
      BY OverIs, NoAssignment
    <2>4. Retains([dma_irq_resume |-> n])
      BY <2>1 DEF Retains, Touch
    <2> QED BY <2>4, TransferDone, IrqsOver
  <1>4. Moves(x, "X_DI_CHK", {}) /\ Touch(dma_hit_limit, {}) /\ Touch(<<>>, {})
    BY MoveIs, HitTouch, TouchNone
  <1> HIDE DEF x, i, n
  <1>5. CASE di_wr_request = write_word(TRUE) /\ e.dma_flush_count # 0
    <2> DEFINE p == write_word(TRUE)
    <2>0. After(r, p, s) /\ Touch(p, {"m_req", "dma_flush_active"})
      BY <1>2, <1>5
    <2>1. After(r, p, s) /\ Touch(p, {"m_req", "dma_flush_active"}) /\ Touch(p, WrField)
      <3> HIDE DEF p
      <3>1. {"m_req", "dma_flush_active"} \subseteq WrField
        BY DEF WrField
      <3> QED BY <2>0, <3>1, TouchMore
    <2>2. WrFrame(r)
      BY <2>1, WrUntouched
    <2>3. r.m_req = TRUE /\ r.dma_flush_active = TRUE
      BY <1>2, <1>5 DEF After, Val, CoreField
    <2> HIDE DEF p
    <2>4. /\ r.xst = s.xst /\ r.intstatus = s.intstatus /\ r.tc = s.tc
          /\ r.dma_irq_resume = s.dma_irq_resume /\ r.dma_flush_count = s.dma_flush_count
      BY <2>1, Untouched
    <2>5. WrRequest(r, s)
      BY <1>5, <2>3, <2>4 DEF WrRequest, SameCause, CoreField
    <2> QED BY <2>2, <2>5
  <1>6. CASE di_wr_request = write_word(FALSE) /\ e.dma_flush_count = 0
    <2> DEFINE p == write_word(FALSE)
    <2>0. After(r, p, s) /\ Touch(p, {"m_req", "dma_flush_active"})
      BY <1>2, <1>6
    <2>1. After(r, p, s) /\ Touch(p, {"m_req", "dma_flush_active"}) /\ Touch(p, WrField)
      <3> HIDE DEF p
      <3>1. {"m_req", "dma_flush_active"} \subseteq WrField
        BY DEF WrField
      <3> QED BY <2>0, <3>1, TouchMore
    <2>2. WrFrame(r)
      BY <2>1, WrUntouched
    <2>3. r.m_req = TRUE /\ r.dma_flush_active = FALSE
      BY <1>2, <1>6 DEF After, Val, CoreField
    <2> HIDE DEF p
    <2>4. /\ r.xst = s.xst /\ r.intstatus = s.intstatus /\ r.tc = s.tc
          /\ r.dma_irq_resume = s.dma_irq_resume /\ r.dma_flush_count = s.dma_flush_count
      BY <2>1, Untouched
    <2>5. WrRequest(r, s)
      BY <1>6, <2>3, <2>4 DEF WrRequest, SameCause, CoreField
    <2> QED BY <2>2, <2>5
  <1>7. CASE di_wr_request = dma_hit_limit ++ i /\ e.dma_flush_count = 0 /\ ~e.transfer_reported
    <2>1. After(r, i, s)
      BY <1>4, <1>7, AfterSkip
    <2>2. Touch(i, {"phase", "dma_irq_resume", "xst", "intstatus", "tc"}) /\ "phase" \notin DOMAIN i
      <3>1. DOMAIN i = DOMAIN transfer_done \cup {"dma_irq_resume"}
        BY ValOver DEF i
      <3>2. "phase" \notin DOMAIN transfer_done
        <4>1. transfer_done \in {esp_irq({"BS"}) ++ [tc |-> TRUE], esp_irq({"BS"}) ++ <<>>}
          BY DEF transfer_done
        <4>2. DOMAIN esp_irq({"BS"}) = {"intstatus", "dly", "xst"}
          BY IrqIs
        <4>3. DOMAIN [tc |-> TRUE] = {"tc"}
          OBVIOUS
        <4> DEFINE q == esp_irq({"BS"})
                   t == [tc |-> TRUE]
        <4>4. DOMAIN (q ++ t) = DOMAIN q \cup DOMAIN t /\ DOMAIN (q ++ <<>>) = DOMAIN q \cup DOMAIN <<>>
          BY ValOver
        <4> HIDE DEF q, t
        <4>5. "phase" \notin DOMAIN q \cup DOMAIN t /\ "phase" \notin DOMAIN q \cup DOMAIN <<>>
          BY <4>2, <4>3, NoAssignment DEF q, t
        <4>6. transfer_done \in {q ++ t, q ++ <<>>}
          BY <4>1 DEF q, t
        <4> QED BY <4>4, <4>5, <4>6
      <3> QED BY <1>3, <3>1, <3>2 DEF Irqs
    <2>3. Touch(i, WrField)
      BY <2>2 DEF Touch, WrField
    <2>4. WrFrame(r)
      BY <2>1, <2>3, WrUntouched
    <2>5. r.xst = "X_INT_WAIT" /\ r.intstatus # {} /\ (r.tc = s.tc \/ (r.tc = TRUE /\ e.counter = 0))
          /\ (r.dma_irq_resume = s.dma_irq_resume \/ r.dma_irq_resume \in 0 .. 2)
      BY <1>3, <2>1 DEF After, Irqs, Val, CoreField
    <2>6. /\ r.m_req = s.m_req /\ r.dma_flush_active = s.dma_flush_active
          /\ r.dma_flush_count = s.dma_flush_count
      BY <2>1, <2>2, Untouched
    <2>7. WrIrq(r, s)
      BY <1>7, <2>5, <2>6 DEF WrIrq, SameRequest, CoreField, Hyp, CoreType
    <2> QED BY <2>4, <2>7
  <1>8. CASE di_wr_request \in {<<>>, dma_hit_limit ++ x} /\ e.dma_flush_count = 0
    <2>1. PICK q \in {<<>>, x} : After(r, q, s)
      BY <1>4, <1>8, AfterSkip
    <2>2. Touch(q, {"xst"})
      BY <1>4, <2>1 DEF Moves, Touch
    <2>3. Touch(q, WrField)
      BY <2>2, TouchMore DEF WrField
    <2>4. WrFrame(r)
      BY <2>1, <2>3, WrUntouched
    <2>5. /\ r.m_req = s.m_req /\ r.dma_flush_active = s.dma_flush_active
          /\ r.intstatus = s.intstatus /\ r.tc = s.tc
          /\ r.dma_irq_resume = s.dma_irq_resume /\ r.dma_flush_count = s.dma_flush_count
      BY <2>1, <2>2, Untouched
    <2>6. r.xst = s.xst \/ r.xst = "X_DI_CHK"
      BY <1>4, <2>1, NoAssignment DEF After, Val, CoreField, Moves
    <2>7. WrStay(r, s)
      BY <1>8, <2>5, <2>6 DEF WrStay, SameCause, SameRequest, CoreField
    <2> QED BY <2>4, <2>7
  <1> QED BY <1>1, <1>5, <1>6, <1>7, <1>8

(* A bus exception ends the writing.                                       *)
LEMMA DiWrFault ==
  ASSUME NEW r, NEW s, \A x \in CoreField \ {"dma_flush_count"} : s[x] = e[x],
         After(r, no_flush ++ dma_bus_exception ++ [m_req |-> FALSE, xst |-> "X_IDLE"], s)
  PROVE  WrFrame(r) /\ WrFault(r, s)
  <1> DEFINE n == no_flush
             b == dma_bus_exception
             d == [m_req |-> FALSE, xst |-> "X_IDLE"]
  <1>1. /\ DOMAIN n = {"dma_flush_count", "dma_flush_active", "dma_irq_resume"}
        /\ n.dma_flush_count = 0 /\ n.dma_flush_active = FALSE /\ n.dma_irq_resume = 0
    BY DEF no_flush
  <1>2. Touch(b, {})
    BY DEF Touch, CoreField, dma_bus_exception
  <1>3. DOMAIN d = {"m_req", "xst"} /\ d.m_req = FALSE /\ d.xst = "X_IDLE"
    OBVIOUS
  <1> HIDE DEF n, b, d
  <1>4. \A x \in CoreField : r[x] = Val(n, x, Val(d, x, s[x]))
    BY <1>2, ValTwo, ValNone DEF After, n, b, d
  <1>5. /\ r.m_req = FALSE /\ r.xst = "X_IDLE" /\ r.dma_flush_count = 0
        /\ r.dma_flush_active = FALSE /\ r.dma_irq_resume = 0
    BY <1>1, <1>3, <1>4 DEF Val, CoreField
  <1>6. \A x \in CoreField : x \notin DOMAIN n \cup DOMAIN d => r[x] = e[x]
    BY <1>1, <1>3, <1>4 DEF Val
  <1>7. WrFrame(r) /\ SameCause(r)
    BY <1>1, <1>3, <1>6 DEF WrFrame, SameCause, CoreField
  <1> QED BY <1>5, <1>7 DEF WrFault

(* The word is written.                                                    *)
LEMMA DiWrAck ==
  ASSUME e.xst = "X_DI_WR", NEW r, NEW s, \A x \in CoreField \ {"dma_flush_count"} : s[x] = e[x],
         After(r, (IF e.dma_flush_active THEN flush_written ELSE word_written) ++
                  [m_req |-> FALSE, dma_flush_active |-> FALSE] ++ advance ++ take_word, s)
  PROVE  WrFrame(r) /\ WrAck(r, s)
  <1> DEFINE d == [m_req |-> FALSE, dma_flush_active |-> FALSE]
             z == [dma_irq_resume |-> 0]
             f == [xst |-> flush_home]
             l == limit_home
             g == drained
             w == [xst |-> IF last_word THEN "X_DI_CHK" ELSE "X_DI_WR"]
             h == HitLimitIf(at_limit)
             k == dma_hit_limit
             u == IF e.dma_flush_active THEN flush_written ELSE word_written
  <1>1. DOMAIN d = {"m_req", "dma_flush_active"} /\ d.m_req = FALSE /\ d.dma_flush_active = FALSE
    OBVIOUS
  <1>2. /\ DOMAIN z = {"dma_irq_resume"} /\ z.dma_irq_resume = 0
        /\ DOMAIN f = {"xst"} /\ f.xst = flush_home
    OBVIOUS
  <1>3. /\ DOMAIN l = {"dma_flush_count", "xst"} /\ l.dma_flush_count = 0
        /\ l.xst \in {"X_IDLE", e.dma_flush_return}
    BY DEF limit_home
  <1>4. /\ DOMAIN g = {"dma_irq_resume", "xst"} /\ g.dma_irq_resume = 0 /\ g.xst = "X_IDLE"
        /\ DOMAIN w = {"xst"} /\ w.xst \in {"X_DI_CHK", "X_DI_WR"}
    BY DEF drained
  <1>5. Touch(h, {}) /\ Touch(k, {})
    <2>1. h = dma_hit_limit \/ h = <<>>
      BY DEF HitLimitIf
    <2> QED BY <2>1, HitTouch, TouchNone
  <1>6. Touch(advance, {})
    BY DEF advance, Touch, CoreField
  <1>7. Touch(take_word, {})
    BY DEF take_word, Touch, CoreField
  <1>8. /\ e.dma_flush_active => u \in {z ++ (l ++ k), <<>> ++ (l ++ k), z ++ f, <<>> ++ f}
        /\ ~e.dma_flush_active => u \in {g ++ h, w}
    BY DEF flush_written, word_written
  <1>9. After(r, u ++ d ++ advance ++ take_word, s)
    OBVIOUS
  <1> HIDE DEF d, z, f, l, g, w, h, k, u
  <1>10. \A x \in CoreField : r[x] = Val(u, x, Val(d, x, s[x]))
    BY <1>6, <1>7, <1>9, ValTwo, ValNone DEF After
  <1>11. PICK q : /\ \A x \in CoreField : \A v : Val(u, x, v) = Val(q, x, v)
                  /\ IF e.dma_flush_active THEN q \in {z ++ l, <<>> ++ l, z ++ f, <<>> ++ f}
                     ELSE q \in {g, w}
    <2>1. \A a : \A x \in CoreField : \A v :
             Val(a ++ (l ++ k), x, v) = Val(a ++ l, x, v)
      BY <1>5, ValTwo, ValNone
    <2>5. \A x \in CoreField : \A v : Val(g ++ h, x, v) = Val(g, x, v)
      BY <1>5, ValTwo, ValNone
    <2>2. CASE u = z ++ (l ++ k) /\ e.dma_flush_active
      BY <2>1, <2>2
    <2>3. CASE u = <<>> ++ (l ++ k) /\ e.dma_flush_active
      BY <2>1, <2>3
    <2>4. CASE u = g ++ h /\ ~e.dma_flush_active
      BY <2>4, <2>5
    <2>6. CASE e.dma_flush_active /\ u \in {z ++ f, <<>> ++ f}
      BY <2>6
    <2>7. CASE ~e.dma_flush_active /\ u = w
      BY <2>7
    <2> QED BY <1>8, <2>2, <2>3, <2>4, <2>6, <2>7
  <1>12. /\ "xst" \in DOMAIN q /\ DOMAIN q \subseteq {"dma_irq_resume", "dma_flush_count", "xst"}
         /\ "dma_irq_resume" \in DOMAIN q => q.dma_irq_resume = 0
         /\ IF e.dma_flush_active
            THEN \/ "dma_flush_count" \in DOMAIN q /\ q.dma_flush_count = 0
                    /\ q.xst \in {"X_IDLE", e.dma_flush_return}
                 \/ "dma_flush_count" \notin DOMAIN q /\ q.xst = flush_home
            ELSE "dma_flush_count" \notin DOMAIN q /\ q.xst \in {"X_IDLE", "X_DI_CHK", "X_DI_WR"}
    <2>1. \A a, b : a ++ b = [x \in DOMAIN a \cup DOMAIN b |-> IF x \in DOMAIN a THEN a[x] ELSE b[x]]
      BY OverIs
    <2>2. CASE q = z ++ l
      <3>1. DOMAIN q = {"dma_irq_resume", "dma_flush_count", "xst"}
            /\ q.dma_irq_resume = 0 /\ q.dma_flush_count = 0 /\ q.xst = l.xst
        <4>1. q = [x \in DOMAIN z \cup DOMAIN l |-> IF x \in DOMAIN z THEN z[x] ELSE l[x]]
          BY <2>1, <2>2
        <4>2. DOMAIN z \cup DOMAIN l = {"dma_irq_resume", "dma_flush_count", "xst"}
          BY <1>2, <1>3
        <4> QED BY <1>2, <1>3, <4>1, <4>2
      <3>2. l.xst \in {"X_IDLE", e.dma_flush_return}
        BY <1>3
      <3>3. CASE e.dma_flush_active
        BY <3>1, <3>2, <3>3
      <3>4. CASE ~e.dma_flush_active
        BY <1>3, <1>4, <1>11, <3>1, <3>4
      <3> QED BY <3>3, <3>4
    <2>3. CASE q = <<>> ++ l
      <3>1. DOMAIN q = {"dma_flush_count", "xst"}
            /\ q.dma_flush_count = 0 /\ q.xst = l.xst
        <4>1. q = [x \in DOMAIN <<>> \cup DOMAIN l |-> IF x \in DOMAIN <<>> THEN <<>>[x] ELSE l[x]]
          BY <2>1, <2>3
        <4>2. DOMAIN <<>> \cup DOMAIN l = {"dma_flush_count", "xst"} /\ DOMAIN <<>> = {}
          BY <1>3, NoAssignment
        <4> QED BY <1>3, <4>1, <4>2
      <3>2. l.xst \in {"X_IDLE", e.dma_flush_return}
        BY <1>3
      <3>3. CASE e.dma_flush_active
        BY <3>1, <3>2, <3>3
      <3>4. CASE ~e.dma_flush_active
        BY <1>3, <1>4, <1>11, <3>1, <3>4
      <3> QED BY <3>3, <3>4
    <2>4. CASE q = z ++ f
      BY <1>2, <1>3, <1>11, <2>1, <2>4, <1>4
    <2>5. CASE q = <<>> ++ f
      BY <1>2, <1>3, <1>11, <2>1, <2>5, NoAssignment, <1>4
    <2>6. CASE ~e.dma_flush_active /\ q \in {g, w}
      BY <1>4, <2>6
    <2> QED BY <1>11, <2>2, <2>3, <2>4, <2>5, <2>6
  <1>13. \A x \in CoreField : r[x] = Val(q, x, Val(d, x, s[x]))
    BY <1>10, <1>11
  <1>14. \A x \in CoreField \ {"m_req", "dma_flush_active"} : r[x] = Val(q, x, s[x])
    BY <1>1, <1>13 DEF Val
  <1>15. r.m_req = FALSE /\ r.dma_flush_active = FALSE
    BY <1>1, <1>12, <1>13 DEF Val, CoreField
  <1>16. WrFrame(r) /\ SameCause(r)
    BY <1>12, <1>14 DEF WrFrame, SameCause, Val, CoreField
  <1>17. /\ r.xst = q.xst /\ r.dma_irq_resume \in {0, e.dma_irq_resume}
         /\ "dma_flush_count" \notin DOMAIN q => r.dma_flush_count = s.dma_flush_count
         /\ "dma_flush_count" \in DOMAIN q => r.dma_flush_count = q.dma_flush_count
    BY <1>12, <1>14 DEF Val, CoreField
  <1> QED BY <1>12, <1>15, <1>16, <1>17 DEF WrAck

(* X_DI_WR: one of the outcomes.                                           *)
LEMMA DiWr ==
  ASSUME Hyp, e.xst = "X_DI_WR", NEW m_ack \in BOOLEAN, NEW r, NEW s, After(r, di_wr(m_ack), s),
         \A x \in CoreField \ {"dma_flush_count"} : s[x] = e[x]
  PROVE  WrFrame(r) /\ WrOut(r, s, m_ack)
  <1> DEFINE u == (IF e.dma_flush_active THEN flush_written ELSE word_written) ++
                  [m_req |-> FALSE, dma_flush_active |-> FALSE] ++ advance ++ take_word
             f == no_flush ++ dma_bus_exception ++ [m_req |-> FALSE, xst |-> "X_IDLE"]
  <1>1. \/ ~e.m_req /\ di_wr(m_ack) = di_wr_request
        \/ e.m_req /\ di_wr(m_ack) = f
        \/ e.m_req /\ m_ack /\ di_wr(m_ack) = u
        \/ e.m_req /\ ~m_ack /\ di_wr(m_ack) = <<>>
    BY DEF di_wr, Hyp, CoreType
  <1> HIDE DEF u, f
  <1>2. CASE ~e.m_req /\ di_wr(m_ack) = di_wr_request
    BY <1>2, DiWrRequest DEF WrOut
  <1>3. CASE e.m_req /\ di_wr(m_ack) = f
    BY <1>3, DiWrFault DEF WrOut, f
  <1>4. CASE e.m_req /\ m_ack /\ di_wr(m_ack) = u
    BY <1>4, DiWrAck DEF WrOut, u
  <1>5. CASE e.m_req /\ ~m_ack /\ di_wr(m_ack) = <<>>
    <2>1. After(r, <<>>, s) /\ Touch(<<>>, {}) /\ Touch(<<>>, WrField)
      BY <1>5, TouchNone
    <2>2. WrFrame(r)
      BY <2>1, WrUntouched
    <2>3. /\ r.xst = s.xst /\ r.m_req = s.m_req /\ r.dma_flush_active = s.dma_flush_active
          /\ r.intstatus = s.intstatus /\ r.tc = s.tc
          /\ r.dma_irq_resume = s.dma_irq_resume /\ r.dma_flush_count = s.dma_flush_count
      BY <2>1, Untouched
    <2>4. WrStay(r, s)
      BY <1>5, <2>3 DEF WrStay, SameCause, SameRequest, CoreField
    <2> QED BY <1>5, <2>2, <2>4 DEF WrOut
  <1> QED BY <1>1, <1>2, <1>3, <1>4, <1>5

(* The engine on its own: a flush that is written counts.                  *)
LEMMA GoodWr ==
  ASSUME Hyp, e.xst = "X_DI_WR", NEW m_ack \in BOOLEAN, NEW r, NEW s,
         WrFrame(r), WrOut(r, s, m_ack),
         s.dma_flush_count = IF e.m_req /\ m_ack /\ e.dma_flush_active
                             THEN e.dma_flush_count - 1 ELSE e.dma_flush_count
  PROVE  Good(r)
  <1>0. /\ "X_DI_WR" \in XferState /\ "X_DI_WR" \in RestState /\ "X_DI_WR" \in TcState
        /\ "X_DI_CHK" \in XferState /\ "X_DI_CHK" \in RestState /\ "X_DI_CHK" \in TcState
        /\ "X_IDLE" \in RestState /\ "X_IDLE" \in TcState
        /\ "X_INT_WAIT" \in TcState /\ "X_INT_WAIT" \notin RestState \cup XferState
        /\ RestState \cup TcState \subseteq XState
        /\ (RestState \cup TcState) \cap (SelState \cup SectState) = {}
    BY DEF XferState, RestState, TcState, XState, SelState, SectState
  <1>1. /\ e.transfer_reported \/ (InTransfer(e) /\ e.cmd_inprogress /\ ~e.int)
        /\ ~Silent(e) /\ (Quiet(e) <=> e.transfer_reported)
    BY <1>0 DEF Hyp, EngineInv, Owned, Transferring, Quiet
  <1>2. /\ e.dma_flush_count \in Nat
        /\ Flushing(e) <=> e.dma_flush_count # 0
    BY DEF Hyp, CoreType, Flushing
  <1>3. e.dma_flush_active => e.dma_flush_count > 0 /\ e.dma_flush_return \in RestState \cup TcState
    BY <1>1 DEF Hyp, EngineInv, Flushed, Flushing
  <1>4. /\ r.xst \in RestState \cup TcState
        /\ r.xst = "X_INT_WAIT" => ~e.transfer_reported
        /\ ~InTransfer(e) => r.xst \in RestState
        /\ InTransfer(e) => r.xst \in TcState
    <2>1. e.dma_flush_active => /\ ~InTransfer(e) => e.dma_flush_return \in RestState
                                /\ InTransfer(e) => e.dma_flush_return \in TcState
      BY DEF Hyp, EngineInv, Flushed
    <2>2. CASE WrAck(r, s)
      <3>1. r.xst \in {"X_IDLE", "X_DI_CHK", "X_DI_WR"}
            \/ (e.dma_flush_active /\ r.xst = e.dma_flush_return)
        BY <2>2 DEF WrAck, flush_home
      <3> QED BY <1>0, <2>1, <3>1 DEF InTransfer
    <2>3. CASE WrRequest(r, s) \/ WrStay(r, s) \/ WrFault(r, s)
      BY <1>0, <2>3 DEF WrRequest, WrStay, WrFault
    <2>4. CASE WrIrq(r, s)
      BY <1>0, <1>1, <2>4 DEF WrIrq
    <2> QED BY <2>2, <2>3, <2>4 DEF WrOut
  <1>5. /\ r.intstatus = e.intstatus \/ (WrIrq(r, s) /\ r.intstatus # {})
        /\ r.tc = e.tc \/ (r.tc = TRUE /\ e.counter = 0 /\ WrIrq(r, s))
        /\ r.dma_irq_resume \in 0 .. 2 /\ r.m_req \in BOOLEAN /\ r.dma_flush_active \in BOOLEAN
        /\ r.m_req => r.xst = "X_DI_WR" \/ WrStay(r, s)
        /\ WrStay(r, s) /\ r.m_req => r.xst = "X_DI_WR"
        /\ WrIrq(r, s) => InTransfer(e)
    <2>1. /\ e.dma_irq_resume \in 0 .. 2 /\ e.m_req \in BOOLEAN /\ e.dma_flush_active \in BOOLEAN
          /\ e.tc \in BOOLEAN
      BY DEF Hyp, CoreType
    <2>7. WrIrq(r, s) => InTransfer(e)
      BY <1>1 DEF WrIrq
    <2>2. CASE WrRequest(r, s)
      BY <2>1, <2>2, <2>7 DEF WrRequest, SameCause
    <2>3. CASE WrIrq(r, s)
      BY <1>1, <2>1, <2>3 DEF WrIrq, WrStay, SameRequest
    <2>4. CASE WrStay(r, s)
      BY <2>1, <2>4, <2>7 DEF WrStay, SameCause, SameRequest
    <2>5. CASE WrFault(r, s)
      <3>1. r.intstatus = e.intstatus /\ r.tc = e.tc
        BY <2>5 DEF WrFault, SameCause
      <3>2. r.dma_irq_resume \in 0 .. 2
        BY <2>1, <2>5 DEF WrFault
      <3>3. r.m_req \in BOOLEAN /\ r.dma_flush_active \in BOOLEAN /\ ~r.m_req
        BY <2>5 DEF WrFault
      <3> QED BY <2>7, <3>1, <3>2, <3>3
    <2>6. CASE WrAck(r, s)
      <3>1. r.intstatus = e.intstatus /\ r.tc = e.tc
        BY <2>6 DEF WrAck, SameCause
      <3>2. r.dma_irq_resume \in 0 .. 2
        BY <2>1, <2>6 DEF WrAck
      <3>3. r.m_req \in BOOLEAN /\ r.dma_flush_active \in BOOLEAN /\ ~r.m_req
        BY <2>6 DEF WrAck
      <3> QED BY <2>7, <3>1, <3>2, <3>3
    <2> QED BY <1>1, <2>2, <2>3, <2>4, <2>5, <2>6 DEF WrOut, WrIrq
  <1>6. r.dma_flush_count \in Nat
    BY <1>2, <1>3 DEF WrOut, WrRequest, WrIrq, WrStay, WrFault, WrAck
  <1>7. CoreType(r) /\ Eff(r)
    <2>1. CoreType(r)
      BY <1>0, <1>4, <1>5, <1>6 DEF CoreType, Hyp, WrFrame
    <2>2. Silent(e) <=> Silent(r)
      BY DEF Silent, WrFrame
    <2>3. e.int => r.intstatus = e.intstatus
      BY <1>1, <1>5 DEF Hyp, EngineInv, Transferring
    <2>4. e.tc => r.tc
      BY <1>5
    <2>5. r.int = e.int /\ r.cmd_inprogress = e.cmd_inprogress /\ r.cmd_waiting = e.cmd_waiting
          /\ r.command0 = e.command0 /\ r.command1 = e.command1
          /\ r.transfer_reported = e.transfer_reported /\ r.resrept = e.resrept
      BY DEF WrFrame
    <2> QED BY <2>1, <2>2, <2>3, <2>4, <2>5 DEF Eff, Kept
  <1>8. InTransfer(r) <=> InTransfer(e)
    BY DEF InTransfer, WrFrame
  <1>9. Caused(r)
    <2>1. CASE r.intstatus # {}
      BY <2>1 DEF Caused
    <2>2. CASE r.intstatus = {}
      <3>1. r.intstatus = e.intstatus /\ r.tc = e.tc /\ ~WrIrq(r, s)
        BY <1>5, <2>2 DEF WrIrq
      <3>2. r.int = e.int
        BY DEF WrFrame
      <3>3. ~e.int /\ ~(InTransfer(e) /\ e.tc)
        BY <2>2, <3>1 DEF Hyp, EngineInv, Caused
      <3>4. r.xst # "X_INT_WAIT"
        <4>1. SUFFICES ASSUME r.xst = "X_INT_WAIT"
                       PROVE  FALSE
          OBVIOUS
        <4>2. ~e.transfer_reported /\ InTransfer(e) /\ ~e.tc
          BY <1>1, <1>4, <3>3, <4>1
        <4>3. ~Flushing(e) /\ ~e.dma_flush_active
          BY <4>2 DEF Hyp, EngineInv, Flushed
        <4> QED BY <3>1, <4>1, <4>3 DEF WrOut, WrRequest, WrStay, WrFault, WrAck
      <3> QED BY <1>8, <3>1, <3>2, <3>3, <3>4 DEF Caused
    <2> QED BY <2>1, <2>2
  <1>10. Owned(r)
    <2>1. Quiet(r) \/ (InTransfer(r) /\ r.cmd_inprogress /\ ~r.int)
      BY <1>1, <1>4, <1>8 DEF Quiet, WrFrame, InTransfer
    <2>2. r.dma_irq_resume # 0 => r.command0 = "TI"
      <3>1. r.dma_irq_resume # 0 => e.dma_irq_resume # 0 \/ WrIrq(r, s)
        BY DEF WrOut, WrRequest, WrStay, WrFault, WrAck
      <3> QED BY <1>5, <3>1 DEF WrFrame, InTransfer, Hyp, EngineInv, Owned
    <2> QED BY <1>0, <1>4, <2>1, <2>2 DEF Owned
  <1>11. Flushed(r)
    <2>1. r.dma_flush_active => r.dma_flush_count > 0
      <3>1. CASE WrRequest(r, s)
        BY <1>2, <3>1 DEF WrRequest
      <3>2. CASE WrIrq(r, s)
        BY <1>2, <1>3, <3>2 DEF WrIrq, SameRequest
      <3>3. CASE WrStay(r, s) /\ ~(e.m_req /\ m_ack)
        BY <1>2, <1>3, <3>3 DEF WrStay, SameRequest
      <3>4. CASE WrFault(r, s) \/ WrAck(r, s)
        BY <3>4 DEF WrFault, WrAck
      <3> QED BY <3>1, <3>2, <3>3, <3>4 DEF WrOut
    <2>2. r.dma_flush_count > 0 => Flushing(e)
      BY <1>2, <1>3 DEF WrOut, WrRequest, WrIrq, WrStay, WrFault, WrAck, Flushing
    <2>3. Flushing(e) => ~WrIrq(r, s) /\ r.tc = e.tc
      BY <1>2, <1>5 DEF WrIrq
    <2>4. r.dma_flush_count > 0 /\ e.dma_flush_return = "X_INT_WAIT" =>
             r.xst = "X_DI_WR" /\ (r.m_req => r.dma_flush_active)
      <3>1. SUFFICES ASSUME r.dma_flush_count > 0, e.dma_flush_return = "X_INT_WAIT"
                     PROVE  r.xst = "X_DI_WR" /\ (r.m_req => r.dma_flush_active)
        OBVIOUS
      <3>2. Flushing(e) /\ (e.m_req => e.dma_flush_active) /\ ~WrIrq(r, s)
        BY <2>2, <2>3, <3>1 DEF Hyp, EngineInv, Flushed
      <3>3. CASE WrRequest(r, s)
        BY <1>2, <3>2, <3>3 DEF WrRequest
      <3>4. CASE WrStay(r, s)
        BY <1>2, <3>2, <3>4 DEF WrStay, SameRequest
      <3>5. CASE WrFault(r, s)
        BY <3>1, <3>5 DEF WrFault
      <3>6. CASE WrAck(r, s) /\ e.m_req /\ m_ack
        <4>1. e.dma_flush_active /\ r.m_req = FALSE
          BY <3>2, <3>6 DEF WrAck
        <4>2. r.dma_flush_count = e.dma_flush_count - 1 /\ r.xst = flush_home
          BY <3>1, <3>6, <4>1 DEF WrAck
        <4>3. e.dma_flush_count > 1
          BY <1>2, <3>1, <4>2
        <4> QED BY <4>1, <4>2, <4>3 DEF flush_home
      <3> QED BY <3>2, <3>3, <3>4, <3>5, <3>6 DEF WrOut
    <2>5. r.dma_flush_return = e.dma_flush_return /\ r.transfer_reported = e.transfer_reported
      BY DEF WrFrame
    <2> QED BY <1>8, <2>1, <2>2, <2>3, <2>4, <2>5 DEF Hyp, EngineInv, Flushed, Flushing
  <1>12. Transferring(r)
    <2>1. InTransfer(r) => r.cmd_inprogress /\ ~r.int /\ (r.m_req => r.xst = "X_DI_WR") /\ (r.tc => r.counter = 0)
          /\ r.xst \in TcState
      BY <1>4, <1>5, <1>8 DEF Hyp, EngineInv, Transferring, WrFrame
    <2>2. ~Silent(r)
      BY <1>1 DEF Silent, WrFrame
    <2>3. r.command0 = "TI" /\ r.transfer_reported => Quiet(r)
      BY <1>4, <1>8 DEF Quiet, InTransfer
    <2> QED BY <2>1, <2>2, <2>3 DEF Transferring
  <1> QED BY <1>7, <1>9, <1>10, <1>11, <1>12 DEF Good, EngineInv
-----------------------------------------------------------------------------
(* A clock of the engine. *)

(* A clock that assigns none of the registers.                             *)
LEMMA GoodSame ==
  ASSUME NEW r, NEW p, Hyp, After(r, p, e), Touch(p, {})
  PROVE  Good(r)
  <1>1. /\ r.int = e.int /\ r.intstatus = e.intstatus /\ r.xst = e.xst
        /\ r.cmd_inprogress = e.cmd_inprogress /\ r.cmd_waiting = e.cmd_waiting
        /\ r.command0 = e.command0 /\ r.command1 = e.command1
        /\ r.transfer_reported = e.transfer_reported /\ r.tc = e.tc
        /\ r.counter = e.counter /\ r.phase = e.phase
        /\ r.m_req = e.m_req /\ r.dma_flush_count = e.dma_flush_count
        /\ r.dma_flush_return = e.dma_flush_return /\ r.dma_flush_active = e.dma_flush_active
        /\ r.dma_irq_resume = e.dma_irq_resume /\ r.rd_ret = e.rd_ret
        /\ r.resrept = e.resrept
    BY Untouched
  <1>2. CoreType(r) /\ Eff(r)
    BY <1>1 DEF Hyp, CoreType, Eff, Kept, Silent
  <1>3. Caused(r) /\ Owned(r)
    BY <1>1 DEF Hyp, EngineInv, Caused, Owned, Quiet, InTransfer, Silent
  <1>4. Flushed(r) /\ Transferring(r)
    BY <1>1 DEF Hyp, EngineInv, Flushed, Flushing, Transferring, InTransfer, Quiet, Silent
  <1> QED BY <1>2, <1>3, <1>4 DEF Good, EngineInv

(* The states of a command, and those of a transfer, with their patches.   *)
LEMMA EngineWork ==
  ASSUME Hyp, NEW a, NEW gone \in BOOLEAN, NEW sack \in BOOLEAN, NEW m_ack \in BOOLEAN, NEW w,
         e.xst \notin RestState \cup {"X_DO_RD", "X_INT_WAIT", "X_DISPATCH"}
  PROVE  WorkPatch(Engine(a, gone, sack, m_ack, w))
  <1> DEFINE b == fifo_access(a)
             g == Engine(a, gone, sack, m_ack, w)
  <1>1. b \in BOOLEAN
    BY DEF fifo_access
  <1>2. CASE e.xst = "X_SEL_MSG"
    <2>1. g = sel_msg(b)
      BY <1>2 DEF Engine
    <2> QED BY <1>1, <1>2, <2>1, SelMsg
  <1>3. CASE e.xst = "X_SEL_CDB"
    <2>1. g = sel_cdb(b)
      BY <1>3 DEF Engine
    <2> QED BY <1>1, <1>3, <2>1, SelCdb
  <1>4. CASE e.xst = "X_POSTCMD"
    <2>1. g = esp_irq({"BS", "FC"})
      BY <1>4 DEF Engine
    <2> QED BY <2>1, Postcmd
  <1>5. CASE e.xst = "X_ICCS1"
    <2>1. g = iccs1(b)
      BY <1>5 DEF Engine
    <2> QED BY <1>1, <1>5, <2>1, Iccs
  <1>6. CASE e.xst = "X_ICCS2"
    <2>1. g = iccs2(b)
      BY <1>6 DEF Engine
    <2> QED BY <1>1, <1>6, <2>1, Iccs
  <1>7. CASE e.xst = "X_RD_SECT"
    <2>1. g = rd_sect
      BY <1>7 DEF Engine
    <2> QED BY <1>7, <2>1, RdSect
  <1>8. CASE e.xst = "X_SD_RD_GO"
    <2>1. g = sd_rd_go(sack)
      BY <1>8 DEF Engine
    <2> QED BY <1>8, <2>1, SdRead
  <1>9. CASE e.xst = "X_SD_RD_ACK"
    <2>1. g = sd_rd_ack(sack)
      BY <1>9 DEF Engine
    <2> QED BY <1>9, <2>1, SdRead
  <1>10. CASE e.xst = "X_WR_SECT"
    <2>1. g = wr_sect
      BY <1>10 DEF Engine
    <2> QED BY <1>10, <2>1, WrSect
  <1>11. CASE e.xst = "X_SD_WR_GO"
    <2>1. g = sd_wr_go(sack)
      BY <1>11 DEF Engine
    <2> QED BY <1>11, <2>1, SdWrite
  <1>12. CASE e.xst = "X_SD_WR_ACK"
    <2>1. g = sd_wr_ack(sack)
      BY <1>12 DEF Engine
    <2> QED BY <1>12, <2>1, SdWrite
  <1>13. CASE e.xst = "X_DI_RD"
    <2>1. g = [xst |-> "X_DI_GET"]
      BY <1>13 DEF Engine
    <2> QED BY <1>13, <2>1, DiGet
  <1>14. CASE e.xst = "X_DI_GET"
    <2>1. g = di_get
      BY <1>14 DEF Engine
    <2> QED BY <1>14, <2>1, DiGet
  <1>15. CASE e.xst = "X_FDI_WAIT"
    <2>1. g = [xst |-> "X_FDI_GET"]
      BY <1>15 DEF Engine
    <2> QED BY <1>1, <1>15, <2>1, FdiGet
  <1>16. CASE e.xst = "X_FDI_GET"
    <2>1. g = fdi_get(b)
      BY <1>16 DEF Engine
    <2> QED BY <1>1, <1>16, <2>1, FdiGet
  <1>17. CASE e.xst = "X_DO_PUT"
    <2>1. g = do_put
      BY <1>17 DEF Engine
    <2> QED BY <1>17, <2>1, DoPut
  <1>18. CASE e.xst = "X_FDO"
    <2>1. g = fdo(b)
      BY <1>18 DEF Engine
    <2> QED BY <1>1, <1>18, <2>1, Fdo
  <1>19. e.xst \in XState
    BY DEF Hyp, CoreType
  <1> QED BY <1>2, <1>3, <1>4, <1>5, <1>6, <1>7, <1>8, <1>9, <1>10, <1>11, <1>12, <1>13,
             <1>14, <1>15, <1>16, <1>17, <1>18, <1>19 DEF XState, RestState

(* A flush is written: the word at the head of the queue is acknowledged.  *)
FlushDone(m_ack) == e.xst = "X_DI_WR" /\ e.m_req /\ m_ack /\ e.dma_flush_active
(* The registers the engine's assignments are made to.                     *)
Counted(s, m_ack) ==
    /\ \A x \in CoreField \ {"dma_flush_count"} : s[x] = e[x]
    /\ s.dma_flush_count = IF FlushDone(m_ack) THEN e.dma_flush_count - 1 ELSE e.dma_flush_count

(* Every clock of the engine keeps the invariant.                          *)
LEMMA EngineGood ==
  ASSUME Hyp, NEW a, NEW gone \in BOOLEAN, NEW sack \in BOOLEAN, NEW m_ack \in BOOLEAN, NEW w,
         NEW r, NEW s, Counted(s, m_ack), After(r, Engine(a, gone, sack, m_ack, w), s)
  PROVE  Good(r)
  <1> DEFINE g == Engine(a, gone, sack, m_ack, w)
  <1>1. CASE e.xst = "X_DI_WR"
    <2>1. g = di_wr(m_ack)
      BY <1>1 DEF Engine
    <2>2. /\ \A x \in CoreField \ {"dma_flush_count"} : s[x] = e[x]
          /\ s.dma_flush_count = IF e.m_req /\ m_ack /\ e.dma_flush_active
                                 THEN e.dma_flush_count - 1 ELSE e.dma_flush_count
      BY <1>1 DEF Counted, FlushDone
    <2>3. WrFrame(r) /\ WrOut(r, s, m_ack)
      BY <1>1, <2>1, <2>2, DiWr
    <2> QED BY <1>1, <2>2, <2>3, GoodWr
  <1>2. CASE e.xst # "X_DI_WR"
    <2>1. After(r, g, e)
      <3>1. \A x \in CoreField : s[x] = e[x]
        BY <1>2 DEF Counted, FlushDone, CoreField
      <3> HIDE DEF g
      <3>2. After(r, g, s)
        BY DEF g
      <3> QED BY <3>1, <3>2 DEF After
    <2>2. CASE e.xst = "X_IDLE"
      <3>1. g = <<>>
        BY <2>2 DEF Engine
      <3> QED BY <2>1, <3>1, TouchNone, GoodSame
    <2>3. CASE e.xst = "X_INT_WAIT"
      <3>1. g = int_wait(gone)
        BY <2>3 DEF Engine
      <3> QED BY <2>1, <2>3, <3>1, IntWait
    <2>4. CASE e.xst = "X_DISPATCH"
      <3>1. g = dispatch
        BY <2>4 DEF Engine
      <3> QED BY <2>1, <2>4, <3>1, Dispatch
    <2>5. CASE e.xst = "X_DI_CHK"
      <3>1. g = di_chk(fifo_access(a)) /\ fifo_access(a) \in BOOLEAN
        BY <2>5 DEF Engine, fifo_access
      <3> QED BY <2>1, <2>5, <3>1, DiChk
    <2>6. CASE e.xst = "X_FDI_CHK"
      <3>1. g = fdi_chk
        BY <2>6 DEF Engine
      <3> QED BY <2>1, <2>6, <3>1, FdiChk
    <2>7. CASE e.xst = "X_DO_CHK"
      <3>1. g = do_chk
        BY <2>7 DEF Engine
      <3> QED BY <2>1, <2>7, <3>1, DoChk
    <2>8. CASE e.xst = "X_DO_RD"
      <3>1. g = do_rd(m_ack, w)
        BY <2>8 DEF Engine
      <3> QED BY <2>1, <2>8, <3>1, DoRd
    <2>9. CASE e.xst \notin RestState \cup {"X_DO_RD", "X_INT_WAIT", "X_DISPATCH"}
      <3>1. WorkPatch(g)
        BY <2>9, EngineWork
      <3>2. ~Quiet(e) /\ (InTransfer(e) => ~e.m_req)
        BY <2>9 DEF Quiet, RestState, Hyp, EngineInv, Transferring
      <3> HIDE DEF g
      <3> QED BY <1>2, <2>1, <3>1, <3>2, GoodWork
    <2> QED BY <1>2, <2>2, <2>3, <2>4, <2>5, <2>6, <2>7, <2>8, <2>9 DEF RestState
  <1> QED BY <1>1, <1>2
-----------------------------------------------------------------------------
(* The clock and the accesses of the CPU that do not concern a command.    *)

CoreInv(s) == CoreType(s) /\ EngineInv(s)
Acc(a, gone, sack, m_ack, w) == Access(a, "d_cmp" \in DOMAIN Engine(a, gone, sack, m_ack, w))

(* The registers after a clock: r, what the engine makes of them, and the  *)
(* access on top.                                                          *)
LEMMA ClockParts ==
  ASSUME CoreField \subseteq DOMAIN e, NEW a, NEW expired, NEW sack, NEW stb, NEW m_ack, NEW w,
         EspClock(a, expired, sack, stb, m_ack, w)
  PROVE  /\ CoreField \subseteq DOMAIN e'
         /\ \E s, r : /\ \A x \in CoreField : s[x] = Val(flush_counter(a, m_ack), x, e[x])
                      /\ After(r, Engine(a, "dly" \in expired, sack, m_ack, w), s)
                      /\ After(e', Acc(a, "dly" \in expired, sack, m_ack, w), r)
  <1> DEFINE g == Engine(a, "dly" \in expired, sack, m_ack, w)
             c == Acc(a, "dly" \in expired, sack, m_ack, w)
             d == DataBuffer(sack, stb)
             f == flush_counter(a, m_ack)
             p == IF "gap" \in expired THEN [gap |-> FALSE] ELSE <<>>
             s == [x \in CoreField |-> Val(f, x, e[x])]
             r == [x \in CoreField |-> Val(g, x, s[x])]
  <1>1. e' = c ++ g ++ d ++ f ++ p ++ e
    BY DEF EspClock, Acc
  <1>2. Touch(p, {})
    <2>1. Touch([gap |-> FALSE], {})
      BY DEF Touch, CoreField
    <2> QED BY <2>1, TouchNone
  <1>3. Touch(d, {})
    <2> DEFINE d1 == [eng_we |-> FALSE, db_q |-> e.dbuf[e.eng_addr]]
               d2 == [dbuf |-> [e.dbuf EXCEPT ![stb[1]] = stb[2]]]
               d3 == [dbuf |-> [e.dbuf EXCEPT ![e.eng_addr] = e.eng_wd]]
    <2>1. d \in {d1 ++ <<>>, d1 ++ d2, d1 ++ d3}
      BY DEF DataBuffer
    <2>2. Touch(d1, {}) /\ Touch(d2, {}) /\ Touch(d3, {}) /\ Touch(<<>>, {})
      BY TouchNone DEF Touch, CoreField
    <2> HIDE DEF d, d1, d2, d3
    <2>3. \A q \in {<<>>, d2, d3} : Touch(d1 ++ q, {} \cup {})
      BY <2>2, TouchOver
    <2> QED BY <2>1, <2>3
  <1> HIDE DEF g, c, d, f, p
  <1>4. DOMAIN e' = DOMAIN (c ++ g ++ d ++ f ++ p) \cup DOMAIN e
    BY <1>1, ValOver
  <1>5. \A x, v : Val(c ++ g ++ d ++ f ++ p ++ e, x, v) =
                  Val(c, x, Val(g, x, Val(d, x, Val(f, x, Val(p, x, Val(e, x, v))))))
    BY ValTwo
  <1>6. \A x \in CoreField : e'[x] = Val(c, x, Val(g, x, Val(f, x, e[x])))
    <2>1. \A x \in CoreField : e'[x] = Val(e', x, 0) /\ Val(e, x, 0) = e[x]
      BY <1>4 DEF Val
    <2>2. \A x \in CoreField : \A v : Val(d, x, v) = v /\ Val(p, x, v) = v
      BY <1>2, <1>3, ValNone
    <2>3. \A x \in CoreField : Val(e', x, 0) =
               Val(c, x, Val(g, x, Val(d, x, Val(f, x, Val(p, x, Val(e, x, 0))))))
      BY <1>1, <1>5
    <2> QED BY <2>1, <2>2, <2>3
  <1>7. After(r, g, s) /\ After(e', c, r)
    BY <1>6 DEF After
  <1>8. \A x \in CoreField : s[x] = Val(f, x, e[x])
    OBVIOUS
  <1> HIDE DEF s, r
  <1> QED BY <1>4, <1>7, <1>8 DEF g, c, f

(* Without a flush written in the clock.                                   *)
LEMMA CountedNow ==
  ASSUME NEW a, NEW m_ack \in BOOLEAN, ~flush_write(a), NEW s,
         \A x \in CoreField : s[x] = Val(flush_counter(a, m_ack), x, e[x])
  PROVE  Counted(s, m_ack)
  <1> DEFINE c == [dma_flush_count |-> e.dma_flush_count - 1]
  <1>1. flush_counter(a, m_ack) = IF FlushDone(m_ack) THEN c ELSE <<>>
    BY DEF flush_counter, FlushDone
  <1>2. DOMAIN c = {"dma_flush_count"} /\ c.dma_flush_count = e.dma_flush_count - 1
    OBVIOUS
  <1> HIDE DEF c
  <1>3. CASE FlushDone(m_ack)
    BY <1>1, <1>2, <1>3 DEF Counted, Val, CoreField
  <1>4. CASE ~FlushDone(m_ack)
    BY <1>1, <1>4, NoAssignment DEF Counted, CoreField
  <1> QED BY <1>3, <1>4

(* Two records with the same core registers; resrept may have been set.    *)
LEMMA GoodLike ==
  ASSUME NEW r, NEW y, Good(r), \A x \in CoreField \ {"resrept"} : y[x] = r[x],
         r.resrept => y.resrept
  PROVE  Good(y)
  <1>1. /\ y.int = r.int /\ y.intstatus = r.intstatus /\ y.xst = r.xst
        /\ y.cmd_inprogress = r.cmd_inprogress /\ y.cmd_waiting = r.cmd_waiting
        /\ y.command0 = r.command0 /\ y.command1 = r.command1
        /\ y.transfer_reported = r.transfer_reported /\ y.tc = r.tc
        /\ y.counter = r.counter /\ y.phase = r.phase
        /\ y.m_req = r.m_req /\ y.dma_flush_count = r.dma_flush_count
        /\ y.dma_flush_return = r.dma_flush_return /\ y.dma_flush_active = r.dma_flush_active
        /\ y.dma_irq_resume = r.dma_irq_resume /\ y.rd_ret = r.rd_ret
    BY DEF CoreField
  <1>2. CoreType(y) /\ Eff(y)
    BY <1>1 DEF Good, CoreType, Eff, Kept, Silent
  <1>3. Caused(y) /\ Owned(y)
    BY <1>1 DEF Good, EngineInv, Caused, Owned, Quiet, InTransfer, Silent
  <1>4. Flushed(y) /\ Transferring(y)
    BY <1>1 DEF Good, EngineInv, Flushed, Flushing, Transferring, InTransfer, Quiet, Silent
  <1> QED BY <1>2, <1>3, <1>4 DEF Good, EngineInv

(* Nothing assigned.                                                       *)
LEMMA GoodNone ==
  ASSUME NEW r, NEW y, Good(r), After(y, <<>>, r)
  PROVE  Good(y)
  <1>1. \A x \in CoreField : y[x] = r[x]
    BY NoAssignment DEF After
  <1>2. y.resrept = r.resrept
    BY <1>1 DEF CoreField
  <1> QED BY <1>1, <1>2, GoodLike

(* INITBUF and DMA_Init forget the flushes.                                *)
LEMMA GoodInit ==
  ASSUME NEW r, NEW y, Good(r), NEW p,
         DOMAIN p \cap CoreField = {"dma_flush_count", "dma_flush_active", "dma_irq_resume",
                                    "dma_flush_return"},
         p.dma_flush_count = 0, p.dma_flush_active = FALSE, p.dma_irq_resume = 0,
         After(y, p, r)
  PROVE  Good(y)
  <1>1. /\ y.int = r.int /\ y.intstatus = r.intstatus /\ y.xst = r.xst
        /\ y.cmd_inprogress = r.cmd_inprogress /\ y.cmd_waiting = r.cmd_waiting
        /\ y.command0 = r.command0 /\ y.command1 = r.command1
        /\ y.transfer_reported = r.transfer_reported /\ y.tc = r.tc
        /\ y.counter = r.counter /\ y.phase = r.phase
        /\ y.m_req = r.m_req /\ y.rd_ret = r.rd_ret
        /\ y.resrept = r.resrept
    <2>1. Touch(p, {"dma_flush_count", "dma_flush_active", "dma_irq_resume", "dma_flush_return"})
      BY DEF Touch
    <2> QED BY <2>1, Untouched
  <1>2. y.dma_flush_count = 0 /\ y.dma_flush_active = FALSE /\ y.dma_irq_resume = 0
    BY DEF After, Val, CoreField
  <1>3. CoreType(y) /\ Eff(y)
    <2>1. CoreType(y)
      <3>1. 0 \in Nat /\ 0 \in 0 .. 2
        OBVIOUS
      <3> QED BY <1>1, <1>2, <3>1 DEF Good, CoreType
    <2>2. Eff(y)
      BY <1>1 DEF Good, Eff, Kept, Silent
    <2> QED BY <2>1, <2>2
  <1>4. Caused(y) /\ Owned(y)
    BY <1>1, <1>2 DEF Good, EngineInv, Caused, Owned, Quiet, InTransfer, Silent
  <1>5. Flushed(y) /\ Transferring(y)
    BY <1>1, <1>2 DEF Good, EngineInv, Flushed, Flushing, Transferring, InTransfer, Quiet, Silent
  <1> QED BY <1>3, <1>4, <1>5 DEF Good, EngineInv

(* The assignments of INITBUF and DMA_Init.                                *)
LEMMA InitBuffer ==
  ASSUME NEW q, Touch(q, {}), NEW p \in {init_buffer, q ++ init_buffer}
  PROVE  /\ DOMAIN p \cap CoreField = {"dma_flush_count", "dma_flush_active", "dma_irq_resume",
                                       "dma_flush_return"}
         /\ p.dma_flush_count = 0 /\ p.dma_flush_active = FALSE /\ p.dma_irq_resume = 0
  <1> DEFINE n == no_flush
             d == [dma_buf |-> <<>>, dma_buf_limit |-> 0, dma_flush_return |-> "X_IDLE"]
  <1>1. DOMAIN d = {"dma_buf", "dma_buf_limit", "dma_flush_return"}
    OBVIOUS
  <1>2. /\ DOMAIN n = {"dma_flush_count", "dma_flush_active", "dma_irq_resume"}
        /\ n.dma_flush_count = 0 /\ n.dma_flush_active = FALSE /\ n.dma_irq_resume = 0
    BY DEF no_flush
  <1>3. init_buffer = n ++ d
    BY DEF init_buffer
  <1> HIDE DEF n, d
  <1>4. n ++ d = [x \in DOMAIN n \cup DOMAIN d |-> IF x \in DOMAIN n THEN n[x] ELSE d[x]]
    BY OverIs
  <1>5. /\ DOMAIN init_buffer = {"dma_flush_count", "dma_flush_active", "dma_irq_resume",
                                 "dma_buf", "dma_buf_limit", "dma_flush_return"}
        /\ init_buffer.dma_flush_count = 0 /\ init_buffer.dma_flush_active = FALSE
        /\ init_buffer.dma_irq_resume = 0
    BY <1>1, <1>2, <1>3, <1>4
  <1>6. q ++ init_buffer = [x \in DOMAIN q \cup DOMAIN init_buffer |->
                               IF x \in DOMAIN q THEN q[x] ELSE init_buffer[x]]
    BY OverIs
  <1>7. {"dma_flush_count", "dma_flush_active", "dma_irq_resume"} \cap DOMAIN q = {}
        /\ DOMAIN q \cap CoreField = {}
    BY DEF Touch, CoreField
  <1>8. DOMAIN init_buffer \cap CoreField = {"dma_flush_count", "dma_flush_active",
                                             "dma_irq_resume", "dma_flush_return"}
    BY <1>5 DEF CoreField
  <1>9. CASE p = init_buffer
    BY <1>5, <1>8, <1>9
  <1>10. CASE p = q ++ init_buffer
    <2>1. DOMAIN p = DOMAIN q \cup DOMAIN init_buffer
      BY <1>6, <1>10
    <2>2. DOMAIN p \cap CoreField = DOMAIN init_buffer \cap CoreField
      BY <1>7, <2>1
    <2>3. p.dma_flush_count = 0 /\ p.dma_flush_active = FALSE /\ p.dma_irq_resume = 0
      BY <1>5, <1>6, <1>7, <1>10
    <2> QED BY <1>8, <2>2, <2>3
  <1> QED BY <1>9, <1>10

(* A write to the CSR of the channel.                                      *)
LEMMA CsrGood ==
  ASSUME NEW r, NEW y, Good(r), NEW cmd, NEW ev, After(y, write_csr(cmd, ev), r)
  PROVE  Good(y)
  <1> DEFINE cmp == [d_cmp |-> FALSE]
             en == [d_en |-> TRUE]
             sup == [d_sup |-> TRUE]
             rst == [d_en |-> FALSE, d_sup |-> FALSE, d_cmp |-> FALSE, d_exc |-> e.d_exc]
             dev == [d_dev2m |-> "DEV2M" \in cmd]
             calm == {<<>>, cmp, en, sup, rst, dev, dma_bus_exception}
  <1>1. PICK a1 \in calm, a2 \in calm, a3 \in calm, a4 \in {init_buffer, <<>>}, a5 \in calm, a6 \in calm :
           write_csr(cmd, ev) = a1 ++ a2 ++ a3 ++ a4 ++ a5 ++ a6
    <2> DEFINE refused == /\ "SETENABLE" \in cmd
                          /\ e.d_next % WordBytes # 0 \/ e.d_limit % BufBytes # 0
               a1 == IF acknowledges(cmd) /\ ~ev /\ ~refused THEN cmp ELSE <<>>
               a2 == IF refused THEN dma_bus_exception
                     ELSE IF "SETENABLE" \in cmd THEN en ELSE <<>>
               a3 == IF "SETSUPDATE" \in cmd THEN sup ELSE <<>>
               a4 == IF "INITBUF" \in cmd THEN init_buffer ELSE <<>>
               a5 == IF "RESET" \in cmd THEN rst ELSE <<>>
    <2>1. write_csr(cmd, ev) = a1 ++ a2 ++ a3 ++ a4 ++ a5 ++ dev
      BY DEF write_csr
    <2>2. a1 \in calm /\ a2 \in calm /\ a3 \in calm /\ a4 \in {init_buffer, <<>>} /\ a5 \in calm
          /\ dev \in calm
      <3> HIDE DEF refused
      <3> QED OBVIOUS
    <2> HIDE DEF a1, a2, a3, a4, a5, calm
    <2> QED BY <2>1, <2>2
  <1>2. \A q \in calm : Touch(q, {})
    <2>1. Touch(cmp, {}) /\ Touch(en, {}) /\ Touch(sup, {}) /\ Touch(dev, {})
      BY DEF Touch, CoreField
    <2>2. Touch(rst, {}) /\ Touch(dma_bus_exception, {}) /\ Touch(<<>>, {})
      BY TouchNone DEF Touch, CoreField, dma_bus_exception
    <2> HIDE DEF cmp, en, sup, rst, dev
    <2> QED BY <2>1, <2>2
  <1> HIDE DEF calm
  <1> DEFINE q == a1 ++ a2 ++ a3
  <1>3. Touch(q, {})
    <2>1. Touch(a1, {}) /\ Touch(a2, {}) /\ Touch(a3, {})
      BY <1>2
    <2>2. Touch(a1 ++ a2, {} \cup {})
      BY <2>1, TouchOver
    <2>3. Touch(a1 ++ a2, {})
      BY <2>2
    <2>4. Touch(a1 ++ a2 ++ a3, {} \cup {})
      BY <2>1, <2>3, TouchOver
    <2> QED BY <2>4
  <1>4. After(y, q ++ a4 ++ a5 ++ a6, r)
    BY <1>1
  <1> HIDE DEF q
  <1>5. After(y, q ++ a4 ++ a5, r)
    BY <1>2, <1>4, AfterSkip
  <1>6. After(y, q ++ a4, r)
    BY <1>2, <1>5, AfterSkip
  <1>7. After(y, a4, r)
    BY <1>3, <1>6, AfterSkip
  <1>8. CASE a4 = <<>>
    BY <1>7, <1>8, GoodNone
  <1>9. CASE a4 = init_buffer
    <2>1. Touch(<<>>, {})
      BY TouchNone
    <2> QED BY <1>7, <1>9, <2>1, InitBuffer, GoodInit
  <1> QED BY <1>8, <1>9

(* An access that concerns neither a command nor a flush.                  *)
Calm(a) ==
    \/ a.op \in {"none", "fifo", "pop", "wr_tc", "selectbusid", "d_next", "d_limit", "d_start",
                 "d_stop", "csr", "init"}
    \/ a.op = "ctl" /\ ~flush_write(a)
    \/ a.op = "resrept" /\ a.v

(* Such an access keeps the invariant.                                     *)
LEMMA CalmGood ==
  ASSUME NEW r, NEW y, Good(r), NEW a, Calm(a), NEW ev, After(y, Access(a, ev), r)
  PROVE  Good(y)
  <1>1. \A p : Touch(p, {}) /\ After(y, p, r) => Good(y)
    <2> SUFFICES ASSUME NEW p, Touch(p, {}), After(y, p, r)
                 PROVE  Good(y)
      OBVIOUS
    <2>1. \A x \in CoreField : y[x] = r[x]
      BY ValNone DEF After
    <2>2. y.resrept = r.resrept
      BY <2>1 DEF CoreField
    <2> QED BY <2>1, <2>2, GoodLike
  <1>2. CASE a.op = "none"
    <2>1. Access(a, ev) = <<>>
      BY <1>2 DEF Access
    <2> QED BY <1>1, <2>1, TouchNone
  <1>3. CASE a.op = "fifo"
    <2>1. Access(a, ev) = fifo_push(a.token)
      BY <1>3 DEF Access
    <2> QED BY <1>1, <2>1, FifoTouch
  <1>4. CASE a.op = "pop"
    <2>1. Access(a, ev) = fifo_pop
      BY <1>4 DEF Access
    <2> QED BY <1>1, <2>1, FifoTouch
  <1>5. CASE a.op \in {"wr_tc", "selectbusid", "d_next", "d_limit", "d_start", "d_stop"}
    <2>1. Access(a, ev) = [f \in {a.op} |-> a.v]
      BY <1>5 DEF Access
    <2>2. Touch([f \in {a.op} |-> a.v], {})
      BY <1>5 DEF Touch, CoreField
    <2> QED BY <1>1, <2>1, <2>2
  <1>6. CASE a.op = "csr"
    <2>1. Access(a, ev) = write_csr(a.cmd, ev)
      BY <1>6 DEF Access
    <2> QED BY <2>1, CsrGood
  <1>7. CASE a.op = "init"
    <2> DEFINE q == [d_next |-> a.v, dma_buf_limit |-> a.v % BufBytes]
    <2>1. Access(a, ev) = q ++ init_buffer
      BY <1>7 DEF Access
    <2>2. Touch(q, {})
      BY DEF Touch, CoreField
    <2> HIDE DEF q
    <2>3. q ++ init_buffer \in {init_buffer, q ++ init_buffer}
      OBVIOUS
    <2> QED BY <2>1, <2>2, <2>3, InitBuffer, GoodInit
  <1>8. CASE a.op = "ctl" /\ ~flush_write(a)
    <2> DEFINE q == [mode_on |-> a.mode]
    <2>1. Access(a, ev) = q ++ <<>>
      BY <1>8 DEF Access, write_control
    <2>2. Touch(q, {})
      BY DEF Touch, CoreField
    <2> HIDE DEF q
    <2>3. Touch(q ++ <<>>, {} \cup {})
      BY <2>2, TouchNone, TouchOver
    <2>4. Touch(q ++ <<>>, {})
      BY <2>3
    <2> QED BY <1>1, <2>1, <2>4
  <1>9. CASE a.op = "resrept" /\ a.v
    <2> DEFINE q == [f \in {"resrept"} |-> a.v]
    <2>1. Access(a, ev) = q
      BY <1>9 DEF Access
    <2>2. DOMAIN q = {"resrept"} /\ q.resrept = a.v
      OBVIOUS
    <2> HIDE DEF q
    <2>3. \A x \in CoreField \ {"resrept"} : y[x] = r[x]
      BY <2>1, <2>2 DEF After, Val
    <2>4. y.resrept = a.v
      BY <2>1, <2>2 DEF After, Val, CoreField
    <2> QED BY <1>9, <2>3, <2>4, GoodLike
  <1> QED BY <1>2, <1>3, <1>4, <1>5, <1>6, <1>7, <1>8, <1>9 DEF Calm
-----------------------------------------------------------------------------
(* The flush: written when the transfer is reported, or is about to be.    *)

(* A state other than X_DI_WR leaves the count of the flushes and their way*)
(* home alone.                                                             *)
LEMMA EngineLeaves ==
  ASSUME Hyp, e.xst \in {"X_IDLE", "X_INT_WAIT", "X_DI_CHK", "X_FDI_CHK", "X_DO_CHK"},
         NEW a, NEW gone \in BOOLEAN, NEW sack, NEW m_ack, NEW w
  PROVE  Touch(Engine(a, gone, sack, m_ack, w), CoreField \ {"dma_flush_count", "dma_flush_return"})
  <1> DEFINE L == CoreField \ {"dma_flush_count", "dma_flush_return"}
             g == Engine(a, gone, sack, m_ack, w)
             b == fifo_access(a)
             x(v) == [xst |-> v]
             n == IF e.dma_buf # <<>> THEN 1 ELSE 0
             o == IF e.dma_buf # <<>> THEN 2 ELSE 0
             d1 == [eng_addr |-> e.buf_pos, xst |-> "X_DI_RD"]
             d2 == [eng_addr |-> e.buf_pos, xst |-> "X_FDI_WAIT"]
             u == buf_put(Head(e.fifo)[2])
             h == HitLimitIf(e.d_next = e.d_limit)
             k == HitLimitIf(e.d_en /\ e.d_next = e.d_limit)
             rs == read_sector("dma")
  <1>1. \A p : Touch(p, {}) \/ Irqs(p) => Touch(p, L)
    <2>1. {} \subseteq L /\ {"phase", "dma_irq_resume", "xst", "intstatus", "tc"} \subseteq L
      BY DEF CoreField
    <2> QED BY <2>1, TouchMore DEF Irqs
  <1>2. /\ \A v : Touch(x(v), L)
        /\ Touch(d1, L) /\ Touch(d2, L) /\ Touch(drained, L) /\ Touch(rs, L)
    BY DEF Touch, CoreField, drained, read_sector
  <1>3. Touch(h, {}) /\ Touch(k, {}) /\ Touch(<<>>, {})
    <2>1. h \in {dma_hit_limit, <<>>} /\ k \in {dma_hit_limit, <<>>}
      BY DEF HitLimitIf
    <2> QED BY <2>1, HitTouch, TouchNone
  <1>4. Touch(u ++ fifo_pop, {} \cup {})
    BY FifoTouch, TouchOver
  <1>5. n \in 0 .. 2 /\ o \in 0 .. 2
    OBVIOUS
  <1> HIDE DEF x, d1, d2, u, h, k, n, o, rs, L
  <1>6. Irqs(h ++ transfer_done ++ [dma_irq_resume |-> n])
        /\ Irqs(k ++ transfer_done ++ [dma_irq_resume |-> o]) /\ Irqs(transfer_done)
    BY <1>3, <1>5, DoneWith, TransferDone
  <1>7. CASE e.xst = "X_IDLE"
    <2>1. g = <<>>
      BY <1>7 DEF Engine
    <2> QED BY <1>1, <1>3, <2>1 DEF L
  <1>8. CASE e.xst = "X_INT_WAIT"
    <2>1. g = int_wait(gone)
      BY <1>8 DEF Engine
    <2> DEFINE r == [y \in CoreField |-> Val(int_wait(gone), y, e[y])]
    <2>2. After(r, int_wait(gone), e)
      BY DEF After
    <2> HIDE DEF r
    <2>3. Touch(int_wait(gone), {"int", "transfer_reported", "xst"})
      BY <1>8, <2>2, IntWait
    <2>4. {"int", "transfer_reported", "xst"} \subseteq L
      BY DEF L, CoreField
    <2> QED BY <2>1, <2>3, <2>4, TouchMore DEF L
  <1>9. CASE e.xst = "X_DI_CHK"
    <2>1. g = di_chk(b)
      BY <1>9 DEF Engine
    <2>2. di_chk(b) \in {<<>>, drained, x("X_DI_WR"), x("X_FDI_CHK"), u ++ fifo_pop,
                         h ++ transfer_done ++ [dma_irq_resume |-> n], d1, rs}
      BY DEF di_chk, x, u, h, n, d1, rs
    <2>3. Touch(u ++ fifo_pop, {})
      BY <1>4
    <2> QED BY <1>1, <1>2, <1>3, <1>6, <2>1, <2>2, <2>3 DEF L
  <1>10. CASE e.xst = "X_FDI_CHK"
    <2>1. g = fdi_chk
      BY <1>10 DEF Engine
    <2>2. fdi_chk \in {<<>>, x("X_DI_CHK"), transfer_done, d2, rs}
      BY DEF fdi_chk, x, d2, rs
    <2> QED BY <1>1, <1>2, <1>3, <1>6, <2>1, <2>2 DEF L
  <1>11. CASE e.xst = "X_DO_CHK"
    <2>1. g = do_chk
      BY <1>11 DEF Engine
    <2>2. do_chk \in {<<>>, x("X_IDLE"), x("X_FDO"), x("X_DO_PUT"), x("X_DO_RD"), dma_hit_limit,
                      k ++ transfer_done ++ [dma_irq_resume |-> o]}
      BY DEF do_chk, x, k, o, retain
    <2> QED BY <1>1, <1>2, <1>3, <1>6, <2>1, <2>2, HitTouch DEF L
  <1> QED BY <1>7, <1>8, <1>9, <1>10, <1>11

(* A flush written sends the engine to X_DI_WR.                            *)
LEMMA FlushAccess ==
  ASSUME NEW a, flush_write(a), NEW ev, NEW r, NEW y, After(y, Access(a, ev), r)
  PROVE  /\ y.xst = "X_DI_WR"
         /\ y.dma_flush_return = IF e.dma_flush_count # 0 THEN r.dma_flush_return ELSE flush_from
         /\ \A x \in CoreField \ {"xst", "dma_flush_return"} : y[x] = r[x]
  <1> DEFINE m == [mode_on |-> a.mode]
             x == [xst |-> "X_DI_WR"]
             d == [dma_flush_return |-> flush_from]
             q == IF e.dma_flush_count # 0 THEN <<>> ELSE d
  <1>1. Access(a, ev) = m ++ (x ++ q)
    BY DEF Access, write_control, flush_write
  <1>2. Touch(m, {}) /\ DOMAIN x = {"xst"} /\ x.xst = "X_DI_WR"
        /\ DOMAIN d = {"dma_flush_return"} /\ d.dma_flush_return = flush_from
    BY DEF Touch, CoreField
  <1>3. q = IF e.dma_flush_count # 0 THEN <<>> ELSE d
    OBVIOUS
  <1> HIDE DEF m, x, d, q
  <1>4. \A z \in CoreField : y[z] = Val(x, z, Val(q, z, r[z]))
    BY <1>1, <1>2, ValTwo, ValNone DEF After
  <1>5. y.xst = "X_DI_WR" /\ \A z \in CoreField \ {"xst"} : y[z] = Val(q, z, r[z])
    BY <1>2, <1>4 DEF Val, CoreField
  <1>6. CASE e.dma_flush_count # 0
    BY <1>3, <1>5, <1>6, NoAssignment DEF CoreField
  <1>7. CASE e.dma_flush_count = 0
    <2>1. q = d
      BY <1>3, <1>7
    <2> QED BY <1>2, <1>5, <1>7, <2>1 DEF Val, CoreField
  <1> QED BY <1>6, <1>7

FlushOk == e.command0 = "TI" /\ (e.transfer_reported \/ e.tc)
(* The count of the flushes, while one is written.                         *)
FlushCount(s, m_ack) ==
    /\ \A x \in CoreField \ {"dma_flush_count"} : s[x] = e[x]
    /\ s.dma_flush_count \in Nat
    /\ ~FlushDone(m_ack) => s.dma_flush_count > 0

(* It is counted, unless it replaces one that is done in this clock.       *)
LEMMA FlushCounts ==
  ASSUME Hyp, EspAssumption, NEW a, flush_write(a), NEW m_ack \in BOOLEAN, NEW s,
         \A x \in CoreField : s[x] = Val(flush_counter(a, m_ack), x, e[x])
  PROVE  FlushCount(s, m_ack)
  <1> DEFINE c == [dma_flush_count |-> e.dma_flush_count + 1]
  <1>1. flush_counter(a, m_ack) =
            IF ~FlushDone(m_ack) /\ e.dma_flush_count < MaxFlush THEN c ELSE <<>>
    BY DEF flush_counter, FlushDone
  <1>2. DOMAIN c = {"dma_flush_count"} /\ c.dma_flush_count = e.dma_flush_count + 1
    OBVIOUS
  <1> HIDE DEF c
  <1>3. e.dma_flush_count \in Nat /\ MaxFlush \in Nat \ {0}
    BY DEF Hyp, CoreType, EspAssumption
  <1>4. CASE ~FlushDone(m_ack) /\ e.dma_flush_count < MaxFlush
    <2>1. flush_counter(a, m_ack) = c
      BY <1>1, <1>4
    <2>2. s.dma_flush_count = e.dma_flush_count + 1
      BY <1>2, <2>1 DEF Val, CoreField
    <2>3. \A x \in CoreField \ {"dma_flush_count"} : s[x] = e[x]
      BY <1>2, <2>1 DEF Val
    <2> QED BY <1>3, <2>2, <2>3 DEF FlushCount
  <1>5. CASE ~(~FlushDone(m_ack) /\ e.dma_flush_count < MaxFlush)
    <2>1. \A x \in CoreField : s[x] = e[x]
      BY <1>1, <1>5, NoAssignment
    <2>2. s.dma_flush_count = e.dma_flush_count
      BY <2>1 DEF CoreField
    <2> QED BY <1>3, <1>5, <2>1, <2>2 DEF FlushCount
  <1> QED BY <1>4, <1>5

(* While the engine waits, checks or is idle.                              *)
LEMMA FlushWaiting ==
  ASSUME Hyp, EspAssumption, FlushOk, NEW a, flush_write(a), e.xst # "X_DI_WR", NEW gone \in BOOLEAN,
         NEW sack \in BOOLEAN, NEW m_ack \in BOOLEAN, NEW w, NEW s, NEW r, NEW y, NEW ev,
         \A x \in CoreField : s[x] = Val(flush_counter(a, m_ack), x, e[x]),
         After(r, Engine(a, gone, sack, m_ack, w), s), After(y, Access(a, ev), r)
  PROVE  CoreInv(y) /\ Kept(y)
  <1> DEFINE g == Engine(a, gone, sack, m_ack, w)
             q == [x \in CoreField |-> Val(g, x, e[x])]
  <1>0. /\ RestState = {"X_IDLE", "X_DI_CHK", "X_DI_WR", "X_FDI_CHK", "X_DO_CHK"}
        /\ TcState = {"X_IDLE", "X_INT_WAIT", "X_DI_WR", "X_DI_CHK", "X_FDI_CHK"}
        /\ "X_DI_WR" \in XState /\ "X_DI_WR" \notin SelState \cup SectState
    BY DEF RestState, TcState, XState, SelState, SectState
  <1>1. /\ ~FlushDone(m_ack) /\ FlushCount(s, m_ack)
        /\ e.xst \in {"X_IDLE", "X_INT_WAIT", "X_DI_CHK", "X_FDI_CHK", "X_DO_CHK"}
        /\ e.transfer_reported => e.xst \in RestState
        /\ ~e.transfer_reported => InTransfer(e) /\ e.tc /\ e.xst \in TcState /\ ~e.m_req
    BY <1>0, FlushCounts DEF FlushDone, FlushOk, Hyp, EngineInv, Transferring, InTransfer, Quiet
  <1>2. After(q, g, e) /\ Counted(e, m_ack)
    BY <1>1 DEF After, Counted
  <1>3. Touch(g, CoreField \ {"dma_flush_count", "dma_flush_return"})
    BY <1>1, EngineLeaves
  <1>4. Good(q)
    BY <1>2, EngineGood
  <1>5. /\ \A x \in CoreField \ {"dma_flush_count"} : r[x] = q[x]
        /\ r.dma_flush_count = s.dma_flush_count /\ r.dma_flush_return = e.dma_flush_return
    <2> HIDE DEF g
    <2>1. \A x \in CoreField \ {"dma_flush_count"} : r[x] = q[x]
      <3>1. \A x \in CoreField \ {"dma_flush_count"} : s[x] = e[x]
        BY <1>1 DEF FlushCount
      <3>2. After(r, g, s)
        BY DEF g
      <3> QED BY <3>1, <3>2 DEF After
    <2>2. r.dma_flush_count = s.dma_flush_count /\ r.dma_flush_return = s.dma_flush_return
      <3>1. After(r, g, s)
        BY DEF g
      <3> QED BY <1>3, <3>1 DEF After, Touch, Val, CoreField
    <2> QED BY <1>1, <2>1, <2>2 DEF FlushCount, CoreField
  <1>6. ~e.dly /\ e.xst = "X_INT_WAIT" => q.transfer_reported
    <2>1. SUFFICES ASSUME ~e.dly, e.xst = "X_INT_WAIT"
                   PROVE  q.transfer_reported
      OBVIOUS
    <2>2. g = int_wait(gone)
      BY <2>1 DEF Engine
    <2> HIDE DEF q
    <2> QED BY <1>2, <2>1, <2>2, IntWait DEF FlushOk
  <1>7. e.dly /\ e.xst = "X_INT_WAIT" => q.xst = "X_INT_WAIT" /\ q.m_req = e.m_req
    <2>1. SUFFICES ASSUME e.dly, e.xst = "X_INT_WAIT"
                   PROVE  q.xst = "X_INT_WAIT" /\ q.m_req = e.m_req
      OBVIOUS
    <2>2. g = int_wait(gone)
      BY <2>1 DEF Engine
    <2>3. Touch(int_wait(gone), {})
      BY <1>2, <2>1, <2>2, IntWait
    <2> HIDE DEF q
    <2> QED BY <1>2, <2>1, <2>2, <2>3, Untouched
  <1> HIDE DEF q, g
  <1>8. /\ y.xst = "X_DI_WR" /\ y.dma_flush_count \in Nat /\ y.dma_flush_count > 0
        /\ y.dma_flush_return = IF e.dma_flush_count # 0 THEN e.dma_flush_return ELSE flush_from
        /\ y.int = q.int /\ y.intstatus = q.intstatus
        /\ y.cmd_inprogress = q.cmd_inprogress /\ y.cmd_waiting = q.cmd_waiting
        /\ y.command0 = q.command0 /\ y.command1 = q.command1
        /\ y.transfer_reported = q.transfer_reported /\ y.tc = q.tc
        /\ y.counter = q.counter /\ y.m_req = q.m_req
        /\ y.dma_flush_active = q.dma_flush_active
        /\ y.dma_irq_resume = q.dma_irq_resume /\ y.rd_ret = q.rd_ret
        /\ y.resrept = q.resrept
    <2>1. /\ y.xst = "X_DI_WR"
          /\ y.dma_flush_return = IF e.dma_flush_count # 0 THEN r.dma_flush_return ELSE flush_from
          /\ \A x \in CoreField \ {"xst", "dma_flush_return"} : y[x] = r[x]
      BY FlushAccess
    <2>2. \A x \in CoreField \ {"xst", "dma_flush_return", "dma_flush_count"} : y[x] = q[x]
      BY <1>5, <2>1
    <2>3. y.dma_flush_count = s.dma_flush_count
      BY <1>5, <2>1 DEF CoreField
    <2>4. s.dma_flush_count \in Nat /\ s.dma_flush_count > 0
      BY <1>1 DEF FlushCount
    <2> QED BY <1>5, <2>1, <2>2, <2>3, <2>4 DEF CoreField
  <1>9. q.command0 = "TI" /\ (e.transfer_reported => q.transfer_reported) /\ (e.tc => q.tc)
        /\ q.transfer_reported \in BOOLEAN
    BY <1>4 DEF Good, Eff, Kept, FlushOk, Silent, CoreType
  <1>10. Kept(y)
    BY <1>4, <1>8 DEF Good, Eff, Kept, Silent
  <1>11. CoreType(y)
    BY <1>0, <1>4, <1>8 DEF Good, CoreType
  <1>12. ~q.transfer_reported => InTransfer(e) /\ e.tc /\ q.tc /\ q.cmd_inprogress /\ ~q.int
                                 /\ q.counter = 0 /\ q.intstatus # {}
    BY <1>1, <1>4, <1>9 DEF Good, EngineInv, Transferring, Caused, InTransfer
  <1>13. /\ q.transfer_reported => y.dma_flush_return \in RestState
         /\ ~q.transfer_reported => y.dma_flush_return \in TcState
         /\ y.dma_flush_return = "X_INT_WAIT" => ~q.transfer_reported /\ ~y.m_req
    <2>1. CASE e.dma_flush_count # 0
      <3>1. Flushing(e)
        BY <2>1 DEF Flushing, Hyp, CoreType
      <3>2. y.dma_flush_return = e.dma_flush_return /\ e.dma_flush_return # "X_INT_WAIT"
        BY <1>8, <2>1, <3>1 DEF Hyp, EngineInv, Flushed
      <3>3. CASE e.transfer_reported
        BY <1>0, <1>9, <3>1, <3>2, <3>3 DEF Hyp, EngineInv, Flushed, InTransfer
      <3>4. CASE ~e.transfer_reported
        BY <1>0, <1>1, <3>1, <3>2, <3>4 DEF Hyp, EngineInv, Flushed
      <3> QED BY <3>3, <3>4
    <2>2. CASE e.dma_flush_count = 0 /\ e.xst # "X_INT_WAIT"
      <3>1. y.dma_flush_return = e.xst
        BY <1>8, <2>2 DEF flush_from
      <3>2. ~q.transfer_reported => ~e.transfer_reported
        BY <1>9
      <3> QED BY <1>0, <1>1, <2>2, <3>1, <3>2
    <2>3. CASE e.dma_flush_count = 0 /\ e.xst = "X_INT_WAIT" /\ ~e.dly
      <3>1. y.dma_flush_return = "X_IDLE"
        BY <1>8, <2>3 DEF flush_from
      <3> QED BY <1>0, <3>1
    <2>4. CASE e.dma_flush_count = 0 /\ e.xst = "X_INT_WAIT" /\ e.dly
      <3>1. y.dma_flush_return = "X_INT_WAIT"
        BY <1>8, <2>4 DEF flush_from
      <3>2. ~q.transfer_reported
        BY <1>0, <1>4, <1>7, <1>9, <2>4 DEF Good, EngineInv, Transferring, Quiet
      <3>3. ~e.m_req
        BY <1>0, <1>1, <2>4
      <3> QED BY <1>0, <1>7, <1>8, <2>4, <3>1, <3>2, <3>3
    <2> QED BY <2>1, <2>2, <2>3, <2>4
  <1>14. Quiet(y) <=> q.transfer_reported
    BY <1>0, <1>8 DEF Quiet
  <1>15. Caused(y)
    <2>1. CASE q.transfer_reported
      BY <1>4, <1>8, <2>1 DEF Good, EngineInv, Caused, InTransfer
    <2>2. CASE ~q.transfer_reported
      BY <1>8, <1>12, <2>2 DEF Caused
    <2> QED BY <2>1, <2>2
  <1>16. Owned(y)
    BY <1>0, <1>8, <1>9, <1>12, <1>14 DEF Owned, InTransfer
  <1>17. Flushed(y)
    BY <1>8, <1>9, <1>12, <1>13 DEF Flushed, Flushing, InTransfer
  <1>18. Transferring(y)
    BY <1>0, <1>8, <1>9, <1>12, <1>14 DEF Transferring, InTransfer, Silent
  <1> QED BY <1>10, <1>11, <1>15, <1>16, <1>17, <1>18 DEF CoreInv, EngineInv

(* While the engine writes.                                                *)
LEMMA FlushWriting ==
  ASSUME Hyp, EspAssumption, FlushOk, NEW a, flush_write(a), e.xst = "X_DI_WR", NEW gone \in BOOLEAN,
         NEW sack \in BOOLEAN, NEW m_ack \in BOOLEAN, NEW w, NEW s, NEW r, NEW y, NEW ev,
         \A x \in CoreField : s[x] = Val(flush_counter(a, m_ack), x, e[x]),
         After(r, Engine(a, gone, sack, m_ack, w), s), After(y, Access(a, ev), r)
  PROVE  CoreInv(y) /\ Kept(y)
  <1>0. /\ RestState = {"X_IDLE", "X_DI_CHK", "X_DI_WR", "X_FDI_CHK", "X_DO_CHK"}
        /\ TcState = {"X_IDLE", "X_INT_WAIT", "X_DI_WR", "X_DI_CHK", "X_FDI_CHK"}
        /\ "X_DI_WR" \in XState /\ "X_DI_WR" \notin SelState \cup SectState
    BY DEF RestState, TcState, XState, SelState, SectState
  <1>1. /\ FlushCount(s, m_ack)
        /\ ~e.transfer_reported => /\ InTransfer(e) /\ e.tc /\ e.cmd_inprogress /\ ~e.int
                                   /\ e.counter = 0 /\ e.intstatus # {}
    BY FlushCounts DEF FlushOk, Hyp, EngineInv, Transferring, InTransfer, Caused
  <1>2. WrFrame(r) /\ WrOut(r, s, m_ack)
    <2>1. Engine(a, gone, sack, m_ack, w) = di_wr(m_ack)
      BY DEF Engine
    <2>2. \A x \in CoreField \ {"dma_flush_count"} : s[x] = e[x]
      BY <1>1 DEF FlushCount
    <2> QED BY <2>1, <2>2, DiWr
  <1>3. /\ y.xst = "X_DI_WR"
        /\ y.dma_flush_return = IF e.dma_flush_count # 0 THEN r.dma_flush_return ELSE flush_from
        /\ y.int = r.int /\ y.intstatus = r.intstatus
        /\ y.cmd_inprogress = r.cmd_inprogress /\ y.cmd_waiting = r.cmd_waiting
        /\ y.command0 = r.command0 /\ y.command1 = r.command1
        /\ y.transfer_reported = r.transfer_reported /\ y.tc = r.tc
        /\ y.counter = r.counter /\ y.m_req = r.m_req
        /\ y.dma_flush_active = r.dma_flush_active /\ y.dma_flush_count = r.dma_flush_count
        /\ y.dma_irq_resume = r.dma_irq_resume /\ y.rd_ret = r.rd_ret
        /\ y.resrept = r.resrept
    BY FlushAccess DEF CoreField
  <1>4. /\ y.int = e.int /\ y.cmd_inprogress = e.cmd_inprogress
        /\ y.cmd_waiting = e.cmd_waiting /\ y.command0 = e.command0 /\ y.command1 = e.command1
        /\ y.transfer_reported = e.transfer_reported /\ y.counter = e.counter
        /\ y.dma_flush_return = IF e.dma_flush_count # 0 THEN e.dma_flush_return ELSE "X_DI_WR"
        /\ y.rd_ret = e.rd_ret
        /\ y.resrept = e.resrept
    BY <1>2, <1>3 DEF WrFrame, flush_from
  <1>5. /\ e.transfer_reported => y.dma_flush_return \in RestState
        /\ ~e.transfer_reported => y.dma_flush_return \in TcState
    <2>1. e.dma_flush_count # 0 => Flushing(e)
      BY DEF Flushing, Hyp, CoreType
    <2> QED BY <1>0, <1>1, <1>4, <2>1 DEF Hyp, EngineInv, Flushed, InTransfer
  <1>6. e.dma_flush_count \in Nat /\ e.m_req \in BOOLEAN /\ e.dma_flush_active \in BOOLEAN
        /\ e.tc \in BOOLEAN /\ e.dma_irq_resume \in 0 .. 2
        /\ s.dma_flush_count \in Nat /\ (~FlushDone(m_ack) => s.dma_flush_count > 0)
        /\ (FlushDone(m_ack) <=> e.m_req /\ m_ack /\ e.dma_flush_active)
    BY <1>1 DEF Hyp, CoreType, FlushCount, FlushDone
  <1>7. /\ y.intstatus = e.intstatus \/ (y.intstatus # {} /\ ~e.transfer_reported)
        /\ y.tc \in BOOLEAN /\ (e.tc => y.tc)
        /\ y.dma_irq_resume \in 0 .. 2
        /\ y.m_req \in BOOLEAN /\ y.dma_flush_active \in BOOLEAN
        /\ y.dma_flush_count \in Nat /\ (y.dma_flush_active => y.dma_flush_count > 0)
        /\ y.dma_flush_return = "X_INT_WAIT" => (y.m_req => y.dma_flush_active)
    <2>0. y.dma_flush_return = "X_INT_WAIT" =>
             e.dma_flush_count # 0 /\ (e.m_req => e.dma_flush_active)
      BY <1>4, <1>6 DEF Hyp, EngineInv, Flushed, Flushing
    <2>1. CASE WrRequest(r, s)
      <3>1. y.intstatus = e.intstatus /\ y.tc = e.tc /\ y.dma_irq_resume = e.dma_irq_resume
            /\ y.dma_flush_count = s.dma_flush_count /\ ~FlushDone(m_ack)
        BY <1>3, <1>6, <2>1 DEF WrRequest, SameCause
      <3>2. y.m_req = TRUE /\ y.dma_flush_active \in BOOLEAN
            /\ (e.dma_flush_count # 0 => y.dma_flush_active)
        BY <1>3, <2>1 DEF WrRequest
      <3> QED BY <1>6, <2>0, <3>1, <3>2
    <2>2. CASE WrIrq(r, s)
      <3>1. /\ y.intstatus # {} /\ ~e.transfer_reported /\ y.tc \in BOOLEAN /\ (e.tc => y.tc)
            /\ y.dma_irq_resume \in 0 .. 2 /\ y.dma_flush_count = s.dma_flush_count
            /\ y.m_req = e.m_req /\ y.dma_flush_active = e.dma_flush_active /\ ~e.m_req
        BY <1>3, <1>6, <2>2 DEF WrIrq, SameRequest
      <3> QED BY <1>6, <2>0, <3>1
    <2>3. CASE WrStay(r, s) /\ ~(e.m_req /\ m_ack)
      <3>1. y.intstatus = e.intstatus /\ y.tc = e.tc /\ y.dma_irq_resume = e.dma_irq_resume
            /\ y.dma_flush_count = s.dma_flush_count /\ ~FlushDone(m_ack)
            /\ y.m_req = e.m_req /\ y.dma_flush_active = e.dma_flush_active
        BY <1>3, <1>6, <2>3 DEF WrStay, SameCause, SameRequest
      <3> QED BY <1>6, <2>0, <3>1
    <2>4. CASE WrFault(r, s)
      <3>1. y.intstatus = e.intstatus /\ y.tc = e.tc /\ y.dma_irq_resume = 0
            /\ y.dma_flush_count = 0
        BY <1>3, <2>4 DEF WrFault, SameCause
      <3>2. ~y.m_req /\ ~y.dma_flush_active /\ y.m_req \in BOOLEAN /\ y.dma_flush_active \in BOOLEAN
        BY <1>3, <2>4 DEF WrFault
      <3>3. 0 \in Nat /\ 0 \in 0 .. 2
        OBVIOUS
      <3> QED BY <1>6, <3>1, <3>2, <3>3
    <2>5. CASE WrAck(r, s)
      <3>1. y.intstatus = e.intstatus /\ y.tc = e.tc /\ y.dma_irq_resume \in {0, e.dma_irq_resume}
        BY <1>3, <2>5 DEF WrAck, SameCause
      <3>2. ~y.m_req /\ ~y.dma_flush_active /\ y.m_req \in BOOLEAN /\ y.dma_flush_active \in BOOLEAN
        BY <1>3, <2>5 DEF WrAck
      <3>3. y.dma_flush_count \in {0, s.dma_flush_count}
        BY <1>3, <2>5 DEF WrAck
      <3>4. y.dma_flush_count \in Nat /\ y.dma_irq_resume \in 0 .. 2
        BY <1>6, <3>1, <3>3
      <3> QED BY <1>6, <3>1, <3>2, <3>4
    <2> QED BY <1>2, <2>1, <2>2, <2>3, <2>4, <2>5 DEF WrOut
  <1>8. CoreType(y)
    BY <1>0, <1>3, <1>4, <1>7 DEF Hyp, CoreType
  <1>9. Kept(y)
    <2>1. e.int => y.intstatus = e.intstatus
      BY <1>1, <1>7
    <2> QED BY <1>4, <1>7, <2>1 DEF Kept, Silent
  <1>10. y.command0 = "TI" /\ (InTransfer(y) <=> ~e.transfer_reported)
         /\ (Quiet(y) <=> e.transfer_reported)
    BY <1>0, <1>3, <1>4 DEF FlushOk, InTransfer, Quiet
  <1>11. ~e.transfer_reported => y.tc /\ y.intstatus # {} /\ ~y.int /\ y.cmd_inprogress /\ y.counter = 0
    BY <1>1, <1>4, <1>7
  <1>12. Caused(y)
    <2>1. CASE e.transfer_reported
      <3>1. y.intstatus = e.intstatus /\ y.int = e.int /\ y.xst # "X_INT_WAIT" /\ ~InTransfer(y)
        BY <1>3, <1>4, <1>7, <1>10, <2>1
      <3> QED BY <3>1 DEF Hyp, EngineInv, Caused
    <2>2. CASE ~e.transfer_reported
      BY <1>11, <2>2 DEF Caused
    <2> QED BY <2>1, <2>2
  <1>13. Owned(y)
    BY <1>0, <1>3, <1>10, <1>11 DEF Owned
  <1>14. Flushed(y)
    <2>1. y.transfer_reported <=> e.transfer_reported
      BY <1>4
    <2> QED BY <1>3, <1>5, <1>7, <1>10, <1>11, <2>1 DEF Flushed, Flushing
  <1>15. Transferring(y)
    <2>1. y.command0 = "TI" /\ y.transfer_reported => Quiet(y)
      BY <1>4, <1>10
    <2>2. ~Silent(y)
      BY <1>10 DEF Silent
    <2>3. InTransfer(y) => y.cmd_inprogress /\ ~y.int /\ y.counter = 0 /\ y.xst \in TcState
                           /\ y.xst = "X_DI_WR"
      BY <1>0, <1>3, <1>10, <1>11
    <2> QED BY <2>1, <2>2, <2>3 DEF Transferring
  <1> QED BY <1>8, <1>9, <1>12, <1>13, <1>14, <1>15 DEF CoreInv, EngineInv
-----------------------------------------------------------------------------
(* The commands: from z to y. *)

(* Nought is a count of flushes and a way to resume.                       *)
LEMMA NoughtIs == 0 \in Nat /\ 0 \in 0 .. 2
  OBVIOUS

(* What start_command leaves of a command whose own assignments are b.     *)
Issued(y, b, c, z) ==
    \A x \in CoreField :
        y[x] = IF x \in DOMAIN b THEN b[x]
               ELSE CASE x = "command0" -> c
                      [] x = "cmd_inprogress" -> TRUE
                      [] x = "dma_irq_resume" -> 0
                      [] OTHER -> z[x]

(* The registers after a command is started.                               *)
LEMMA StartIs ==
  ASSUME NEW c, c # "TI", NEW b, NEW y, NEW z, After(y, start_command(c), z),
         start_command(c) = b ++ [command0 |-> c, cmd_inprogress |-> TRUE, dma_irq_resume |-> 0,
                                  mode_dma |-> c = "TI"] ++ <<>>
  PROVE  Issued(y, b, c, z)
  <1> DEFINE k == [command0 |-> c, cmd_inprogress |-> TRUE, dma_irq_resume |-> 0,
                   mode_dma |-> c = "TI"]
  <1>1. DOMAIN k = {"command0", "cmd_inprogress", "dma_irq_resume", "mode_dma"}
        /\ k.command0 = c /\ k.cmd_inprogress = TRUE /\ k.dma_irq_resume = 0
    OBVIOUS
  <1>2. start_command(c) = b ++ k ++ <<>>
    OBVIOUS
  <1> HIDE DEF k
  <1>3. \A x \in CoreField : y[x] = Val(b, x, Val(k, x, z[x]))
    BY <1>2, ValTwo, NoAssignment DEF After
  <1>4. \A x \in CoreField : x # "mode_dma"
    BY DEF CoreField
  <1>5. \A x \in CoreField : Val(k, x, z[x]) = CASE x = "command0" -> c
                                                 [] x = "cmd_inprogress" -> TRUE
                                                 [] x = "dma_irq_resume" -> 0
                                                 [] OTHER -> z[x]
    BY <1>1, <1>4 DEF Val
  <1> QED BY <1>3, <1>5 DEF Issued, Val

(* A select and a bus reset leave the bus and the flushes behind.          *)
LEMMA NoBusIs ==
  LET p == no_bus ++ no_flush
  IN  /\ DOMAIN p \cap CoreField = {"m_req", "dma_flush_count", "dma_flush_active", "dma_irq_resume"}
      /\ p.m_req = FALSE /\ p.dma_flush_count = 0 /\ p.dma_flush_active = FALSE
      /\ p.dma_irq_resume = 0
  <1> DEFINE n == no_flush
             b == no_bus
  <1>1. /\ DOMAIN n = {"dma_flush_count", "dma_flush_active", "dma_irq_resume"}
        /\ n.dma_flush_count = 0 /\ n.dma_flush_active = FALSE /\ n.dma_irq_resume = 0
    BY DEF no_flush
  <1>2. DOMAIN b = {"m_req", "sd_rd", "sd_wr", "sd_read_owned"} /\ b.m_req = FALSE
    BY DEF no_bus
  <1> HIDE DEF n, b
  <1>3. b ++ n = [x \in DOMAIN b \cup DOMAIN n |-> IF x \in DOMAIN b THEN b[x] ELSE n[x]]
    BY OverIs
  <1>4. /\ DOMAIN (b ++ n) = {"m_req", "sd_rd", "sd_wr", "sd_read_owned",
                              "dma_flush_count", "dma_flush_active", "dma_irq_resume"}
        /\ (b ++ n).m_req = FALSE /\ (b ++ n).dma_flush_count = 0
        /\ (b ++ n).dma_flush_active = FALSE /\ (b ++ n).dma_irq_resume = 0
    BY <1>1, <1>2, <1>3
  <1>5. {"m_req", "sd_rd", "sd_wr", "sd_read_owned", "dma_flush_count", "dma_flush_active",
         "dma_irq_resume"} \cap CoreField
        = {"m_req", "dma_flush_count", "dma_flush_active", "dma_irq_resume"}
    BY DEF CoreField
  <1> QED BY <1>4, <1>5 DEF n, b

(* A command leaves the flushes and the request alone, or ends them.       *)
LEMMA StartIccs ==
  ASSUME NEW z, NEW y, CoreInv(z), ~z.int, ~InTransfer(z), After(y, start_command("ICCS"), z)
  PROVE  /\ CoreInv(y) /\ ~y.int /\ y.cmd_inprogress /\ y.command0 = "ICCS"
         /\ y.cmd_waiting = z.cmd_waiting
  <1> DEFINE b == [xst |-> "X_ICCS1"]
  <1>1. start_command("ICCS") = b ++ [command0 |-> "ICCS", cmd_inprogress |-> TRUE,
                                      dma_irq_resume |-> 0, mode_dma |-> "ICCS" = "TI"] ++ <<>>
    BY DEF start_command
  <1>2. DOMAIN b = {"xst"} /\ b.xst = "X_ICCS1"
    OBVIOUS
  <1> HIDE DEF b
  <1>3. Issued(y, b, "ICCS", z)
    BY <1>1, StartIs
  <1>4. /\ y.xst = "X_ICCS1" /\ y.command0 = "ICCS" /\ y.cmd_inprogress = TRUE
        /\ y.dma_irq_resume = 0
        /\ y.int = z.int /\ y.intstatus = z.intstatus /\ y.cmd_waiting = z.cmd_waiting
        /\ y.transfer_reported = z.transfer_reported /\ y.tc = z.tc /\ y.m_req = z.m_req
        /\ y.dma_flush_count = z.dma_flush_count /\ y.dma_flush_return = z.dma_flush_return
        /\ y.dma_flush_active = z.dma_flush_active /\ y.rd_ret = z.rd_ret
    BY <1>2, <1>3 DEF Issued, CoreField
  <1>5. 0 \in 0 .. 2 /\ "X_ICCS1" \in XState \ (SelState \cup SectState \cup XferState)
    BY DEF XState, SelState, SectState, XferState
  <1>6. CoreType(y)
    BY <1>4, <1>5 DEF CoreInv, CoreType
  <1>7. ~Silent(y) /\ ~InTransfer(y)
    BY <1>4 DEF Silent, InTransfer
  <1>8. Caused(y) /\ Owned(y)
    BY <1>4, <1>5, <1>7 DEF Caused, Owned
  <1>9. ~(Flushing(z) /\ z.dma_flush_return = "X_INT_WAIT")
    BY DEF CoreInv, EngineInv, Flushed, RestState
  <1>10. Flushed(y) /\ Transferring(y)
    BY <1>4, <1>7, <1>9 DEF CoreInv, EngineInv, Flushed, Flushing, Transferring, InTransfer
  <1> QED BY <1>4, <1>6, <1>8, <1>10 DEF CoreInv, EngineInv

(* FLUSH FIFO is done at once.                                             *)
LEMMA StartFlushFifo ==
  ASSUME NEW z, NEW y, CoreInv(z), ~z.int, Quiet(z), Silent(z),
         After(y, start_command("FLUSH FIFO"), z)
  PROVE  /\ CoreInv(y) /\ ~y.int /\ ~y.cmd_inprogress /\ Silent(y)
         /\ y.cmd_waiting = z.cmd_waiting
  <1> DEFINE b == [cmd_inprogress |-> FALSE, fifo |-> <<>>]
  <1>1. start_command("FLUSH FIFO") =
          b ++ [command0 |-> "FLUSH FIFO", cmd_inprogress |-> TRUE,
                dma_irq_resume |-> 0, mode_dma |-> "FLUSH FIFO" = "TI"] ++ <<>>
    BY DEF start_command
  <1>2. DOMAIN b = {"cmd_inprogress", "fifo"} /\ b.cmd_inprogress = FALSE
    OBVIOUS
  <1> HIDE DEF b
  <1>3. Issued(y, b, "FLUSH FIFO", z)
    BY <1>1, StartIs
  <1>4. /\ y.xst = z.xst /\ y.command0 = "FLUSH FIFO" /\ y.cmd_inprogress = FALSE
        /\ y.dma_irq_resume = 0
        /\ y.int = z.int /\ y.intstatus = z.intstatus /\ y.cmd_waiting = z.cmd_waiting
        /\ y.transfer_reported = z.transfer_reported /\ y.tc = z.tc /\ y.m_req = z.m_req
        /\ y.dma_flush_count = z.dma_flush_count /\ y.dma_flush_return = z.dma_flush_return
        /\ y.dma_flush_active = z.dma_flush_active /\ y.rd_ret = z.rd_ret
    BY <1>2, <1>3 DEF Issued, CoreField
  <1>5. 0 \in 0 .. 2 /\ z.xst = "X_IDLE"
    <2>1. z.xst \notin XferState
      BY DEF CoreInv, EngineInv, Transferring
    <2>2. z.xst \in RestState
      BY DEF Quiet, RestState
    <2>3. RestState \ {"X_IDLE"} \subseteq XferState
      BY DEF RestState, XferState
    <2> QED BY <2>1, <2>2, <2>3, NoughtIs
  <1>6. CoreType(y)
    BY <1>4, <1>5 DEF CoreInv, CoreType
  <1>7. Silent(y) /\ ~InTransfer(y) /\ Quiet(y)
    BY <1>4, <1>5 DEF Silent, InTransfer, Quiet
  <1>8. Caused(y) /\ Owned(y)
    BY <1>4, <1>5, <1>7 DEF Caused, Owned, SelState, SectState, XferState
  <1>9. Flushed(y) /\ Transferring(y)
    BY <1>4, <1>5, <1>7 DEF CoreInv, EngineInv, Flushed, Flushing, Transferring, InTransfer,
                            XferState
  <1> QED BY <1>4, <1>6, <1>7, <1>8, <1>9 DEF CoreInv, EngineInv

(* Selection and MESSAGE ACCEPTED withdraw what was left behind.           *)
LEMMA FreshGood ==
  ASSUME NEW z, NEW y, CoreInv(z), ~y.int, y.int \in BOOLEAN, y.cmd_waiting \in BOOLEAN,
         y.m_req = FALSE, y.dma_flush_count = 0, y.dma_flush_active = FALSE,
         y.dma_irq_resume = 0, y.cmd_inprogress = TRUE, Silent(y),
         y.xst = "X_SEL_MSG" \/ (y.xst = "X_INT_WAIT" /\ y.intstatus # {}),
         y.transfer_reported = z.transfer_reported, y.tc = z.tc, y.rd_ret = z.rd_ret
  PROVE  CoreInv(y)
  <1>1. 0 \in 0 .. 2 /\ 0 \in Nat /\ y.xst \in XState /\ y.xst \notin SectState \cup XferState
    BY DEF XState, SectState, XferState
  <1>2. CoreType(y)
    BY <1>1 DEF CoreInv, CoreType
  <1>3. ~InTransfer(y) /\ ~Flushing(y)
    BY DEF InTransfer, Flushing, Silent
  <1>4. Caused(y) /\ Owned(y)
    BY <1>1, <1>3 DEF Caused, Owned
  <1>5. Flushed(y) /\ Transferring(y)
    BY <1>1, <1>3 DEF Flushed, Transferring, Silent
  <1> QED BY <1>2, <1>4, <1>5 DEF CoreInv, EngineInv

(* MESSAGE ACCEPTED disconnects.                                           *)
LEMMA StartMsgacc ==
  ASSUME NEW z, NEW y, CoreInv(z), ~z.int, After(y, start_command("MSGACC"), z)
  PROVE  /\ CoreInv(y) /\ ~y.int /\ y.cmd_inprogress /\ Silent(y)
         /\ y.cmd_waiting = z.cmd_waiting
  <1> DEFINE n == no_bus ++ no_flush
             i == esp_irq({"DC"})
             t == [cmd_busy |-> FALSE, mi_held |-> FALSE, phase |-> "DO",
                   dma_flush_return |-> "X_IDLE"]
             b == n ++ i ++ t
  <1>1. start_command("MSGACC") = b ++ [command0 |-> "MSGACC", cmd_inprogress |-> TRUE,
                                        dma_irq_resume |-> 0, mode_dma |-> "MSGACC" = "TI"] ++ <<>>
    BY DEF start_command, esp_disconnect_reset
  <1>2. /\ DOMAIN n \cap CoreField = {"m_req", "dma_flush_count", "dma_flush_active", "dma_irq_resume"}
        /\ n.m_req = FALSE /\ n.dma_flush_count = 0 /\ n.dma_flush_active = FALSE
        /\ n.dma_irq_resume = 0
    BY NoBusIs
  <1>3. DOMAIN i = {"intstatus", "dly", "xst"} /\ i.intstatus = {"DC"} /\ i.xst = "X_INT_WAIT"
    BY DEF esp_irq
  <1>4. DOMAIN t = {"cmd_busy", "mi_held", "phase", "dma_flush_return"}
    OBVIOUS
  <1>5. DOMAIN b = DOMAIN n \cup DOMAIN i \cup DOMAIN t
        /\ \A x \in DOMAIN b : b[x] = IF x \in DOMAIN n THEN n[x]
                                      ELSE IF x \in DOMAIN i THEN i[x] ELSE t[x]
    <2> HIDE DEF n, i, t
    <2>1. n ++ i = [x \in DOMAIN n \cup DOMAIN i |-> IF x \in DOMAIN n THEN n[x] ELSE i[x]]
      BY OverIs
    <2>2. b = [x \in DOMAIN (n ++ i) \cup DOMAIN t |-> IF x \in DOMAIN (n ++ i) THEN (n ++ i)[x] ELSE t[x]]
      BY OverIs
    <2> HIDE DEF b
    <2> QED BY <2>1, <2>2
  <1> HIDE DEF b, n, i, t
  <1>6. Issued(y, b, "MSGACC", z)
    BY <1>1, StartIs
  <1>7. /\ DOMAIN b \cap CoreField = {"m_req", "dma_flush_count", "dma_flush_active", "dma_irq_resume",
                                      "intstatus", "xst", "phase", "dma_flush_return"}
        /\ b.m_req = FALSE /\ b.dma_flush_count = 0 /\ b.dma_flush_active = FALSE
        /\ b.dma_irq_resume = 0 /\ b.xst = "X_INT_WAIT" /\ b.intstatus = {"DC"}
    <2>1. {"intstatus", "dly", "xst"} \cap CoreField = {"intstatus", "xst"}
          /\ {"cmd_busy", "mi_held", "phase", "dma_flush_return"} \cap CoreField
             = {"phase", "dma_flush_return"}
          /\ {"m_req", "dma_flush_count", "dma_flush_active", "dma_irq_resume", "intstatus",
              "xst"} \subseteq CoreField
      BY DEF CoreField
    <2>2. DOMAIN b \cap CoreField = {"m_req", "dma_flush_count", "dma_flush_active", "dma_irq_resume",
                                     "intstatus", "xst", "phase", "dma_flush_return"}
      BY <1>2, <1>3, <1>4, <1>5, <2>1
    <2>3. {"m_req", "dma_flush_count", "dma_flush_active", "dma_irq_resume"} \subseteq DOMAIN n
          /\ "intstatus" \notin DOMAIN n /\ "xst" \notin DOMAIN n
      BY <1>2, <2>1
    <2> QED BY <1>2, <1>3, <1>5, <2>2, <2>3
  <1>8. /\ y.m_req = FALSE /\ y.dma_flush_count = 0 /\ y.dma_flush_active = FALSE
        /\ y.dma_irq_resume = 0 /\ y.xst = "X_INT_WAIT" /\ y.intstatus = {"DC"}
        /\ y.command0 = "MSGACC" /\ y.cmd_inprogress = TRUE
        /\ y.int = z.int /\ y.cmd_waiting = z.cmd_waiting
        /\ y.transfer_reported = z.transfer_reported /\ y.tc = z.tc /\ y.rd_ret = z.rd_ret
    <2>1. "command0" \notin DOMAIN b /\ "cmd_inprogress" \notin DOMAIN b /\ "int" \notin DOMAIN b
          /\ "cmd_waiting" \notin DOMAIN b /\ "transfer_reported" \notin DOMAIN b
          /\ "tc" \notin DOMAIN b /\ "rd_ret" \notin DOMAIN b
          /\ {"m_req", "dma_flush_count", "dma_flush_active", "dma_irq_resume", "xst",
              "intstatus"} \subseteq DOMAIN b
      BY <1>7 DEF CoreField
    <2> QED BY <1>6, <1>7, <2>1 DEF Issued, CoreField
  <1>9. Silent(y) /\ y.intstatus # {} /\ y.int \in BOOLEAN /\ y.cmd_waiting \in BOOLEAN /\ ~y.int
    BY <1>8 DEF Silent, CoreInv, CoreType
  <1> QED BY <1>8, <1>9, FreshGood

(* SELECT ATN, of a target that is there or of one that is not.            *)
LEMMA StartSelect ==
  ASSUME NEW z, NEW y, CoreInv(z), ~z.int, After(y, start_command("SELECT ATN"), z)
  PROVE  /\ CoreInv(y) /\ ~y.int /\ y.cmd_inprogress /\ Silent(y)
         /\ y.cmd_waiting => z.cmd_waiting
  <1> DEFINE n == no_bus ++ no_flush
             m == [mi_held |-> FALSE]
             i == esp_irq({"DC"})
             t == [command0 |-> "none", command1 |-> "none", cmd_waiting |-> FALSE,
                   cmd_busy |-> FALSE, phase |-> "ST"]
             u == [cmd_busy |-> TRUE, t_unit |-> e.selectbusid, xst |-> "X_SEL_MSG"]
             v == IF e.selectbusid \in Target THEN u ELSE i ++ t
             b == n ++ m ++ v
  <1>1. start_command("SELECT ATN") =
            b ++ [command0 |-> "SELECT ATN", cmd_inprogress |-> TRUE,
                  dma_irq_resume |-> 0, mode_dma |-> "SELECT ATN" = "TI"] ++ <<>>
    BY DEF start_command, start_select
  <1>2. /\ DOMAIN n \cap CoreField = {"m_req", "dma_flush_count", "dma_flush_active", "dma_irq_resume"}
        /\ n.m_req = FALSE /\ n.dma_flush_count = 0 /\ n.dma_flush_active = FALSE
        /\ n.dma_irq_resume = 0
    BY NoBusIs
  <1>3. DOMAIN i = {"intstatus", "dly", "xst"} /\ i.intstatus = {"DC"} /\ i.xst = "X_INT_WAIT"
    BY DEF esp_irq
  <1>4. DOMAIN t = {"command0", "command1", "cmd_waiting", "cmd_busy", "phase"}
        /\ t.command0 = "none" /\ t.cmd_waiting = FALSE
    OBVIOUS
  <1>5. DOMAIN u = {"cmd_busy", "t_unit", "xst"} /\ u.xst = "X_SEL_MSG" /\ DOMAIN m = {"mi_held"}
    OBVIOUS
  <1>6. v = u \/ v = i ++ t
    OBVIOUS
  <1> HIDE DEF n, m, i, t, u, v
  <1>7. i ++ t = [x \in DOMAIN i \cup DOMAIN t |-> IF x \in DOMAIN i THEN i[x] ELSE t[x]]
    BY OverIs
  <1>8. /\ "xst" \in DOMAIN v
        /\ DOMAIN v \subseteq {"intstatus", "dly", "xst", "command0", "command1", "cmd_waiting",
                              "cmd_busy", "phase", "t_unit"}
        /\ v.xst = "X_SEL_MSG" \/ (v.xst = "X_INT_WAIT" /\ "intstatus" \in DOMAIN v /\ v.intstatus = {"DC"})
        /\ "command0" \in DOMAIN v => v.command0 = "none"
        /\ "cmd_waiting" \in DOMAIN v => v.cmd_waiting = FALSE
    <2>1. CASE v = u
      BY <1>5, <2>1
    <2>2. CASE v = i ++ t
      BY <1>3, <1>4, <1>7, <2>2
    <2> QED BY <1>6, <2>1, <2>2
  <1>9. DOMAIN b = DOMAIN n \cup DOMAIN m \cup DOMAIN v
        /\ \A x \in DOMAIN b : b[x] = IF x \in DOMAIN n THEN n[x]
                                      ELSE IF x \in DOMAIN m THEN m[x] ELSE v[x]
    <2>1. n ++ m = [x \in DOMAIN n \cup DOMAIN m |-> IF x \in DOMAIN n THEN n[x] ELSE m[x]]
      BY OverIs
    <2>2. b = [x \in DOMAIN (n ++ m) \cup DOMAIN v |-> IF x \in DOMAIN (n ++ m) THEN (n ++ m)[x] ELSE v[x]]
      BY OverIs
    <2> HIDE DEF b
    <2> QED BY <2>1, <2>2
  <1> HIDE DEF b
  <1>10. Issued(y, b, "SELECT ATN", z)
    BY <1>1, StartIs
  <1>11. /\ {"m_req", "dma_flush_count", "dma_flush_active", "dma_irq_resume", "xst"} \subseteq DOMAIN b
         /\ b.m_req = FALSE /\ b.dma_flush_count = 0 /\ b.dma_flush_active = FALSE
         /\ b.dma_irq_resume = 0
         /\ b.xst = "X_SEL_MSG" \/ (b.xst = "X_INT_WAIT" /\ "intstatus" \in DOMAIN b /\ b.intstatus = {"DC"})
         /\ "command0" \in DOMAIN b => b.command0 = "none"
         /\ "cmd_waiting" \in DOMAIN b => b.cmd_waiting = FALSE
         /\ {"cmd_inprogress", "int", "transfer_reported", "tc", "rd_ret"} \cap DOMAIN b = {}
    <2>1. {"m_req", "dma_flush_count", "dma_flush_active", "dma_irq_resume", "xst", "intstatus",
           "command0", "cmd_waiting", "cmd_inprogress", "int", "transfer_reported", "tc",
           "rd_ret"} \subseteq CoreField
      BY DEF CoreField
    <2>2. {"m_req", "dma_flush_count", "dma_flush_active", "dma_irq_resume"} \subseteq DOMAIN n
          /\ {"xst", "intstatus", "command0", "cmd_waiting", "cmd_inprogress", "int",
              "transfer_reported", "tc", "rd_ret"} \cap (DOMAIN n \cup DOMAIN m) = {}
      BY <1>2, <1>5, <2>1
    <2>3. {"m_req", "dma_flush_count", "dma_flush_active", "dma_irq_resume", "xst"} \subseteq DOMAIN b
          /\ b.m_req = FALSE /\ b.dma_flush_count = 0 /\ b.dma_flush_active = FALSE
          /\ b.dma_irq_resume = 0
      BY <1>2, <1>8, <1>9, <2>2
    <2>4. b.xst = v.xst /\ ("intstatus" \in DOMAIN v => "intstatus" \in DOMAIN b /\ b.intstatus = v.intstatus)
      BY <1>8, <1>9, <2>2
    <2>5. /\ "command0" \in DOMAIN b => b.command0 = "none"
          /\ "cmd_waiting" \in DOMAIN b => b.cmd_waiting = FALSE
      BY <1>8, <1>9, <2>2
    <2>6. {"cmd_inprogress", "int", "transfer_reported", "tc", "rd_ret"} \cap DOMAIN b = {}
      BY <1>8, <1>9, <2>2
    <2> QED BY <1>8, <2>3, <2>4, <2>5, <2>6
  <1>12. /\ y.m_req = FALSE /\ y.dma_flush_count = 0 /\ y.dma_flush_active = FALSE
         /\ y.dma_irq_resume = 0
         /\ y.xst = "X_SEL_MSG" \/ (y.xst = "X_INT_WAIT" /\ y.intstatus = {"DC"})
         /\ y.command0 \in {"none", "SELECT ATN"} /\ y.cmd_inprogress = TRUE
         /\ y.int = z.int /\ y.cmd_waiting \in {FALSE, z.cmd_waiting}
         /\ y.transfer_reported = z.transfer_reported /\ y.tc = z.tc /\ y.rd_ret = z.rd_ret
    <2>1. /\ y.m_req = FALSE /\ y.dma_flush_count = 0 /\ y.dma_flush_active = FALSE
          /\ y.dma_irq_resume = 0 /\ y.xst = b.xst
          /\ "intstatus" \in DOMAIN b => y.intstatus = b.intstatus
      BY <1>10, <1>11 DEF Issued, CoreField
    <2>2. /\ y.command0 \in {"none", "SELECT ATN"}
          /\ y.cmd_waiting \in {FALSE, z.cmd_waiting}
      BY <1>10, <1>11 DEF Issued, CoreField
    <2>3. /\ y.cmd_inprogress = TRUE /\ y.int = z.int
          /\ y.transfer_reported = z.transfer_reported /\ y.tc = z.tc /\ y.rd_ret = z.rd_ret
      BY <1>10, <1>11 DEF Issued, CoreField
    <2> QED BY <1>11, <2>1, <2>2, <2>3
  <1>13. Silent(y) /\ y.int \in BOOLEAN /\ y.cmd_waiting \in BOOLEAN /\ ~y.int
         /\ (y.xst = "X_SEL_MSG" \/ (y.xst = "X_INT_WAIT" /\ y.intstatus # {}))
    BY <1>12 DEF Silent, CoreInv, CoreType
  <1>14. CoreInv(y)
    BY <1>12, <1>13, FreshGood
  <1> QED BY <1>12, <1>13, <1>14

(* TRANSFER INFORMATION starts a transfer that is not reported.            *)
LEMMA StartTi ==
  ASSUME NEW z, NEW y, CoreInv(z), ~z.int, Silent(z), e.phase \in {"DI", "DO"},
         After(y, start_command("TI"), z)
  PROVE  /\ CoreInv(y) /\ ~y.int /\ y.cmd_inprogress /\ y.command0 = "TI"
         /\ y.cmd_waiting = z.cmd_waiting
  <1> DEFINE h == [transfer_reported |-> FALSE, gap |-> TRUE]
             i == esp_irq({"ILL"})
             x(v) == [xst |-> v]
             v == IF ~e.cmd_busy THEN i
                  ELSE CASE e.phase = "DI" -> x(IF e.mode_on THEN "X_DI_CHK" ELSE "X_FDI_CHK")
                         [] e.phase = "DO" -> x(IF e.mode_on THEN "X_DO_CHK" ELSE "X_FDO")
             k == [command0 |-> "TI", cmd_inprogress |-> TRUE, dma_irq_resume |-> 0,
                   mode_dma |-> "TI" = "TI"]
             t == [counter |-> IF e.wr_tc = 0 THEN CounterTop ELSE e.wr_tc, tc |-> FALSE]
             W == {"X_DI_CHK", "X_FDI_CHK", "X_DO_CHK", "X_FDO"}
  <1>1. start_command("TI") = (h ++ v) ++ k ++ t
    BY DEF start_command, start_ti
  <1>2. DOMAIN h = {"transfer_reported", "gap"} /\ h.transfer_reported = FALSE
    OBVIOUS
  <1>3. DOMAIN i = {"intstatus", "dly", "xst"} /\ i.intstatus = {"ILL"} /\ i.xst = "X_INT_WAIT"
    BY DEF esp_irq
  <1>4. DOMAIN k = {"command0", "cmd_inprogress", "dma_irq_resume", "mode_dma"}
        /\ k.command0 = "TI" /\ k.cmd_inprogress = TRUE /\ k.dma_irq_resume = 0
    OBVIOUS
  <1>5. DOMAIN t = {"counter", "tc"} /\ t.tc = FALSE
    OBVIOUS
  <1>6. \A w : DOMAIN x(w) = {"xst"} /\ x(w).xst = w
    OBVIOUS
  <1> HIDE DEF x
  <1>7. v = i \/ \E w \in W : v = x(w)
    OBVIOUS
  <1> HIDE DEF h, i, v, k, t
  <1>8. /\ "xst" \in DOMAIN v /\ DOMAIN v \subseteq {"intstatus", "dly", "xst"}
        /\ v.xst \in W \/ (v.xst = "X_INT_WAIT" /\ "intstatus" \in DOMAIN v /\ v.intstatus = {"ILL"})
    BY <1>3, <1>6, <1>7
  <1>9. \A f \in CoreField : y[f] = Val(h, f, Val(v, f, Val(k, f, Val(t, f, z[f]))))
    BY <1>1, ValTwo DEF After
  <1>10. y.transfer_reported = FALSE
    BY <1>2, <1>9 DEF Val, CoreField
  <1>11. y.xst = v.xst /\ ("intstatus" \in DOMAIN v => y.intstatus = v.intstatus)
    BY <1>2, <1>8, <1>9 DEF Val, CoreField
  <1>12. \A f \in CoreField \ {"xst", "intstatus", "transfer_reported"} :
             y[f] = Val(k, f, Val(t, f, z[f]))
    BY <1>2, <1>8, <1>9 DEF Val, CoreField
  <1>13. y.command0 = "TI" /\ y.cmd_inprogress = TRUE /\ y.dma_irq_resume = 0 /\ y.tc = FALSE
    BY <1>4, <1>5, <1>12 DEF Val, CoreField
  <1>14. /\ y.int = z.int /\ y.cmd_waiting = z.cmd_waiting /\ y.m_req = z.m_req
         /\ y.dma_flush_count = z.dma_flush_count /\ y.dma_flush_return = z.dma_flush_return
         /\ y.dma_flush_active = z.dma_flush_active /\ y.rd_ret = z.rd_ret
    BY <1>4, <1>5, <1>12 DEF Val, CoreField
  <1>15. y.xst \in W \/ (y.xst = "X_INT_WAIT" /\ y.intstatus # {})
    BY <1>8, <1>11
  <1>16. /\ W \cup {"X_INT_WAIT"} \subseteq XState \ (SelState \cup SectState)
         /\ "X_INT_WAIT" \notin W
    BY DEF XState, SelState, SectState
  <1>17. CoreType(y)
    BY <1>10, <1>13, <1>14, <1>15, <1>16, NoughtIs DEF CoreInv, CoreType
  <1>18. InTransfer(y) /\ ~Silent(y)
    BY <1>10, <1>13 DEF InTransfer, Silent
  <1>19. ~Flushing(y) /\ ~y.m_req /\ ~y.dma_flush_active /\ ~y.int
    BY <1>14 DEF CoreInv, EngineInv, Transferring, Flushing, Flushed
  <1>20. Caused(y) /\ Owned(y)
    BY <1>13, <1>15, <1>16, <1>18, <1>19 DEF Caused, Owned
  <1>21. Flushed(y) /\ Transferring(y)
    BY <1>10, <1>13, <1>18, <1>19 DEF Flushed, Transferring
  <1> QED BY <1>13, <1>14, <1>17, <1>19, <1>20, <1>21 DEF CoreInv, EngineInv

(* The resets.                                                             *)
LEMMA ResetGood ==
  ASSUME NEW y, y.xst = "X_IDLE", y.command0 = "none", y.cmd_inprogress = FALSE,
         y.cmd_waiting = FALSE, y.m_req = FALSE, y.dma_flush_count = 0,
         y.dma_flush_active = FALSE, y.dma_irq_resume = 0, y.int \in BOOLEAN,
         y.int => y.intstatus # {}, y.tc \in BOOLEAN, y.transfer_reported \in BOOLEAN,
         y.rd_ret \in {"dispatch", "dma"}
  PROVE  CoreInv(y) /\ Silent(y) /\ ~y.cmd_inprogress /\ ~y.cmd_waiting /\ Quiet(y)
  <1>1. "X_IDLE" \in XState \ (SelState \cup SectState \cup XferState)
    BY DEF XState, SelState, SectState, XferState
  <1>2. CoreType(y)
    BY <1>1, NoughtIs DEF CoreType
  <1>3. Silent(y) /\ ~InTransfer(y) /\ Quiet(y) /\ ~Flushing(y)
    BY DEF Silent, InTransfer, Quiet, Flushing
  <1>4. Caused(y) /\ Owned(y)
    BY <1>1, <1>3 DEF Caused, Owned
  <1>5. Flushed(y) /\ Transferring(y)
    BY <1>1, <1>3 DEF Flushed, Transferring
  <1> QED BY <1>2, <1>3, <1>4, <1>5 DEF CoreInv, EngineInv

(* RESET.                                                                  *)
LEMMA StartReset ==
  ASSUME NEW z, NEW y, CoreInv(z), After(y, start_command("RESET"), z)
  PROVE  CoreInv(y) /\ Silent(y) /\ ~y.cmd_inprogress /\ ~y.cmd_waiting /\ ~y.int /\ Quiet(y)
  <1> DEFINE n == no_bus ++ no_flush
             t == [resrept |-> FALSE, cmd_busy |-> FALSE, mi_held |-> FALSE, fifo |-> <<>>,
                   int |-> FALSE, ge |-> FALSE, tc |-> FALSE, intstatus |-> {}, mode_dma |-> FALSE,
                   dma_flush_return |-> "X_IDLE", counter |-> 0,
                   command0 |-> "none", command1 |-> "none",
                   cmd_inprogress |-> FALSE, cmd_waiting |-> FALSE, transfer_reported |-> FALSE,
                   xst |-> "X_IDLE"]
             b == n ++ t
             T == {"int", "tc", "intstatus", "dma_flush_return", "counter", "command0",
                   "command1", "cmd_inprogress", "cmd_waiting", "transfer_reported", "xst"}
  <1>1. start_command("RESET") = b ++ [command0 |-> "RESET", cmd_inprogress |-> TRUE,
                                       dma_irq_resume |-> 0, mode_dma |-> "RESET" = "TI"] ++ <<>>
    BY DEF start_command, hard_reset
  <1>2. /\ DOMAIN n \cap CoreField = {"m_req", "dma_flush_count", "dma_flush_active", "dma_irq_resume"}
        /\ n.m_req = FALSE /\ n.dma_flush_count = 0 /\ n.dma_flush_active = FALSE
        /\ n.dma_irq_resume = 0
    BY NoBusIs
  <1>3. /\ T \subseteq DOMAIN t /\ {"rd_ret", "phase"} \cap DOMAIN t = {}
        /\ t.int = FALSE /\ t.tc = FALSE
        /\ t.command0 = "none" /\ t.cmd_inprogress = FALSE
        /\ t.cmd_waiting = FALSE /\ t.transfer_reported = FALSE /\ t.xst = "X_IDLE"
    OBVIOUS
  <1> HIDE DEF n, t
  <1>4. b = [x \in DOMAIN n \cup DOMAIN t |-> IF x \in DOMAIN n THEN n[x] ELSE t[x]]
    BY OverIs
  <1> HIDE DEF b
  <1>5. Issued(y, b, "RESET", z)
    BY <1>1, StartIs
  <1>6. T \cap DOMAIN n = {} /\ "rd_ret" \notin DOMAIN n
        /\ {"m_req", "dma_flush_count", "dma_flush_active", "dma_irq_resume"} \subseteq DOMAIN n
    BY <1>2 DEF CoreField
  <1>7. /\ T \cup {"m_req", "dma_flush_count", "dma_flush_active", "dma_irq_resume"} \subseteq DOMAIN b
        /\ \A x \in T : b[x] = t[x]
        /\ b.m_req = FALSE /\ b.dma_flush_count = 0 /\ b.dma_flush_active = FALSE
        /\ b.dma_irq_resume = 0 /\ "rd_ret" \notin DOMAIN b
    BY <1>2, <1>3, <1>4, <1>6
  <1>8. \A x \in T : y[x] = t[x]
    BY <1>5, <1>7 DEF Issued, CoreField
  <1>9. y.m_req = FALSE /\ y.dma_flush_count = 0 /\ y.dma_flush_active = FALSE
        /\ y.dma_irq_resume = 0 /\ y.rd_ret = z.rd_ret
    BY <1>5, <1>7 DEF Issued, CoreField
  <1>10. /\ y.xst = "X_IDLE" /\ y.command0 = "none" /\ y.cmd_inprogress = FALSE
         /\ y.cmd_waiting = FALSE /\ y.int = FALSE /\ y.tc = FALSE /\ y.transfer_reported = FALSE
    BY <1>3, <1>8
  <1>11. y.rd_ret \in {"dispatch", "dma"} /\ ~y.int /\ y.int \in BOOLEAN /\ y.tc \in BOOLEAN
         /\ y.transfer_reported \in BOOLEAN
    BY <1>9, <1>10 DEF CoreInv, CoreType
  <1> QED BY <1>9, <1>10, <1>11, ResetGood

(* BUS RESET, not reported.                                                *)
LEMMA StartBusReset ==
  ASSUME NEW z, NEW y, e.resrept, CoreInv(z), After(y, start_command("BUS RESET"), z)
  PROVE  /\ CoreInv(y) /\ Silent(y) /\ ~y.cmd_inprogress /\ ~y.cmd_waiting /\ Quiet(y)
         /\ y.int = z.int
  <1> DEFINE n == no_bus ++ no_flush
             t == [cmd_busy |-> FALSE, mi_held |-> FALSE, mode_dma |-> FALSE, counter |-> 0,
                   command0 |-> "none", command1 |-> "none", cmd_waiting |-> FALSE]
             u == [cmd_inprogress |-> FALSE, xst |-> "X_IDLE"]
             b == n ++ t ++ u
  <1>1. start_command("BUS RESET") =
            b ++ [command0 |-> "BUS RESET", cmd_inprogress |-> TRUE,
                  dma_irq_resume |-> 0, mode_dma |-> "BUS RESET" = "TI"] ++ <<>>
    BY DEF start_command, start_bus_reset
  <1>2. /\ DOMAIN n \cap CoreField = {"m_req", "dma_flush_count", "dma_flush_active", "dma_irq_resume"}
        /\ n.m_req = FALSE /\ n.dma_flush_count = 0 /\ n.dma_flush_active = FALSE
        /\ n.dma_irq_resume = 0
    BY NoBusIs
  <1>3. /\ DOMAIN t = {"cmd_busy", "mi_held", "mode_dma", "counter", "command0", "command1",
                       "cmd_waiting"}
        /\ t.command0 = "none" /\ t.cmd_waiting = FALSE
        /\ DOMAIN u = {"cmd_inprogress", "xst"} /\ u.cmd_inprogress = FALSE /\ u.xst = "X_IDLE"
    OBVIOUS
  <1> HIDE DEF n, t, u
  <1>4. DOMAIN b = DOMAIN n \cup DOMAIN t \cup DOMAIN u
        /\ \A x \in DOMAIN b : b[x] = IF x \in DOMAIN n THEN n[x]
                                      ELSE IF x \in DOMAIN t THEN t[x] ELSE u[x]
    <2>1. n ++ t = [x \in DOMAIN n \cup DOMAIN t |-> IF x \in DOMAIN n THEN n[x] ELSE t[x]]
      BY OverIs
    <2>2. b = [x \in DOMAIN (n ++ t) \cup DOMAIN u |-> IF x \in DOMAIN (n ++ t) THEN (n ++ t)[x] ELSE u[x]]
      BY OverIs
    <2> HIDE DEF b
    <2> QED BY <2>1, <2>2
  <1> HIDE DEF b
  <1>5. Issued(y, b, "BUS RESET", z)
    BY <1>1, StartIs
  <1>6. {"command0", "cmd_waiting", "cmd_inprogress", "xst", "int", "intstatus", "tc",
         "transfer_reported", "rd_ret"} \cap DOMAIN n = {}
        /\ {"m_req", "dma_flush_count", "dma_flush_active", "dma_irq_resume"} \subseteq DOMAIN n
    BY <1>2 DEF CoreField
  <1>7. /\ {"m_req", "dma_flush_count", "dma_flush_active", "dma_irq_resume", "command0",
            "cmd_waiting", "cmd_inprogress", "xst"} \subseteq DOMAIN b
        /\ b.command0 = "none" /\ b.cmd_waiting = FALSE /\ b.cmd_inprogress = FALSE
        /\ b.xst = "X_IDLE"
        /\ b.m_req = FALSE /\ b.dma_flush_count = 0 /\ b.dma_flush_active = FALSE
        /\ b.dma_irq_resume = 0
        /\ {"int", "intstatus", "tc", "transfer_reported", "rd_ret"} \cap DOMAIN b = {}
    BY <1>2, <1>3, <1>4, <1>6
  <1>8. /\ y.xst = "X_IDLE" /\ y.command0 = "none" /\ y.cmd_inprogress = FALSE
        /\ y.cmd_waiting = FALSE /\ y.m_req = FALSE /\ y.dma_flush_count = 0
        /\ y.dma_flush_active = FALSE /\ y.dma_irq_resume = 0
    BY <1>5, <1>7 DEF Issued, CoreField
  <1>9. /\ y.int = z.int /\ y.intstatus = z.intstatus /\ y.tc = z.tc
        /\ y.transfer_reported = z.transfer_reported /\ y.rd_ret = z.rd_ret
    BY <1>5, <1>7 DEF Issued, CoreField
  <1>10. y.rd_ret \in {"dispatch", "dma"} /\ y.int \in BOOLEAN /\ y.tc \in BOOLEAN
         /\ y.transfer_reported \in BOOLEAN /\ (y.int => y.intstatus # {})
    BY <1>9 DEF CoreInv, CoreType, EngineInv, Caused
  <1> QED BY <1>8, <1>9, <1>10, ResetGood
-----------------------------------------------------------------------------
(* The accesses that concern a command: the command register and INTSTATUS. *)

(* The ranks of the command register are not part of the engine.           *)
LEMMA RankFree ==
  ASSUME NEW r, NEW z, CoreInv(r), z.cmd_waiting \in BOOLEAN,
         \A x \in CoreField \ {"command1", "cmd_waiting"} : z[x] = r[x]
  PROVE  /\ CoreInv(z) /\ z.int = r.int /\ z.intstatus = r.intstatus /\ z.xst = r.xst
         /\ z.cmd_inprogress = r.cmd_inprogress /\ z.command0 = r.command0 /\ z.tc = r.tc
         /\ z.transfer_reported = r.transfer_reported /\ z.phase = r.phase
         /\ (Quiet(z) <=> Quiet(r)) /\ (InTransfer(z) <=> InTransfer(r))
         /\ (Silent(z) <=> Silent(r))
  <1>1. /\ z.int = r.int /\ z.intstatus = r.intstatus /\ z.xst = r.xst
        /\ z.cmd_inprogress = r.cmd_inprogress /\ z.command0 = r.command0
        /\ z.transfer_reported = r.transfer_reported /\ z.tc = r.tc
        /\ z.counter = r.counter /\ z.phase = r.phase
        /\ z.m_req = r.m_req /\ z.dma_flush_count = r.dma_flush_count
        /\ z.dma_flush_return = r.dma_flush_return /\ z.dma_flush_active = r.dma_flush_active
        /\ z.dma_irq_resume = r.dma_irq_resume /\ z.rd_ret = r.rd_ret
    BY DEF CoreField
  <1>2. CoreType(z)
    BY <1>1 DEF CoreInv, CoreType
  <1>3. (Quiet(z) <=> Quiet(r)) /\ (InTransfer(z) <=> InTransfer(r)) /\ (Silent(z) <=> Silent(r))
    BY <1>1 DEF Quiet, InTransfer, Silent
  <1>4. Caused(z) /\ Owned(z)
    BY <1>1 DEF CoreInv, EngineInv, Caused, Owned, Quiet, InTransfer, Silent
  <1>5. Flushed(z) /\ Transferring(z)
    BY <1>1 DEF CoreInv, EngineInv, Flushed, Flushing, Transferring, InTransfer, Quiet, Silent
  <1> QED BY <1>1, <1>2, <1>3, <1>4, <1>5 DEF CoreInv, EngineInv

Resets == {"RESET", "BUS RESET"}

(* A command written while one is in progress waits.                       *)
LEMMA CommandWaits ==
  ASSUME NEW r, NEW y, CoreInv(r), NEW c, c \notin Resets, e.cmd_inprogress,
         After(y, write_command(c), r)
  PROVE  /\ CoreInv(y) /\ y.cmd_waiting = TRUE /\ y.command1 = c
         /\ y.int = r.int /\ y.intstatus = r.intstatus /\ y.xst = r.xst
         /\ y.cmd_inprogress = r.cmd_inprogress /\ y.command0 = r.command0
         /\ y.transfer_reported = r.transfer_reported
  <1> DEFINE p == [command1 |-> c, cmd_waiting |-> TRUE]
             g == [ge |-> TRUE]
             q == IF e.cmd_waiting THEN g ELSE <<>>
  <1>1. write_command(c) = p ++ q
    BY DEF write_command, Resets
  <1>2. DOMAIN p = {"command1", "cmd_waiting"} /\ p.command1 = c /\ p.cmd_waiting = TRUE
    OBVIOUS
  <1>3. Touch(q, {})
    <2>1. Touch(g, {})
      BY DEF Touch, CoreField
    <2> QED BY <2>1, TouchNone
  <1> HIDE DEF p, q
  <1>4. \A x \in CoreField : y[x] = Val(p, x, r[x])
    BY <1>1, <1>3, ValTwo, ValNone DEF After
  <1>5. y.command1 = c /\ y.cmd_waiting = TRUE
    BY <1>2, <1>4 DEF Val, CoreField
  <1>6. \A x \in CoreField \ {"command1", "cmd_waiting"} : y[x] = r[x]
    BY <1>2, <1>4 DEF Val
  <1>7. y.cmd_waiting \in BOOLEAN
    BY <1>5
  <1> QED BY <1>5, <1>6, <1>7, RankFree

(* From what registers a command written now starts.                       *)
LEMMA CommandStarts ==
  ASSUME NEW r, NEW y, CoreInv(r), NEW c, c \notin Resets, ~e.cmd_inprogress,
         After(y, write_command(c), r)
  PROVE  \E z : /\ CoreInv(z) /\ ~z.cmd_waiting
                /\ z.int = r.int /\ z.xst = r.xst
                /\ z.cmd_inprogress = r.cmd_inprogress /\ z.command0 = r.command0
                /\ z.transfer_reported = r.transfer_reported
                /\ After(y, start_command(c), z)
  <1> DEFINE p == [command1 |-> "none", cmd_waiting |-> FALSE]
             s == start_command(c)
             z == [x \in CoreField |-> Val(p, x, r[x])]
  <1>1. write_command(c) = s ++ p
    BY DEF write_command, Resets
  <1>2. DOMAIN p = {"command1", "cmd_waiting"} /\ p.cmd_waiting = FALSE
    OBVIOUS
  <1> HIDE DEF p, s
  <1>3. After(y, s, z)
    BY <1>1, ValTwo DEF After
  <1>4. z.cmd_waiting = FALSE
    BY <1>2 DEF Val, CoreField
  <1>5. \A x \in CoreField \ {"command1", "cmd_waiting"} : z[x] = r[x]
    BY <1>2 DEF Val
  <1> HIDE DEF z
  <1>6. z.cmd_waiting \in BOOLEAN /\ ~z.cmd_waiting
    BY <1>4
  <1>7. /\ CoreInv(z) /\ z.int = r.int /\ z.xst = r.xst
        /\ z.cmd_inprogress = r.cmd_inprogress /\ z.command0 = r.command0
        /\ z.transfer_reported = r.transfer_reported
    BY <1>5, <1>6, RankFree
  <1> QED BY <1>3, <1>6, <1>7 DEF s

(* Reading INTSTATUS while the interrupt is up.                            *)
Cleared(z, r) ==
    /\ CoreInv(z) /\ ~z.int /\ ~InTransfer(z) /\ Quiet(z) /\ ~z.cmd_waiting
    /\ z.command0 = r.command0 /\ z.transfer_reported = r.transfer_reported
    /\ z.xst = r.xst /\ z.phase = r.phase

(* The registers so changed keep the invariant.                            *)
LEMMA ClearedIs ==
  ASSUME Hyp, NEW r, NEW z, Good(r), e.int, z.int = FALSE, z.tc = e.tc, z.cmd_waiting = FALSE,
         z.cmd_inprogress \in BOOLEAN,
         \A x \in CoreField \ {"int", "intstatus", "tc", "cmd_waiting", "cmd_inprogress", "command1"} :
             z[x] = r[x]
  PROVE  Cleared(z, r)
  <1>1. /\ z.xst = r.xst /\ z.command0 = r.command0
        /\ z.transfer_reported = r.transfer_reported
        /\ z.counter = r.counter /\ z.phase = r.phase
        /\ z.m_req = r.m_req /\ z.dma_flush_count = r.dma_flush_count
        /\ z.dma_flush_return = r.dma_flush_return /\ z.dma_flush_active = r.dma_flush_active
        /\ z.dma_irq_resume = r.dma_irq_resume /\ z.rd_ret = r.rd_ret
    BY DEF CoreField
  <1>2. Quiet(r) /\ ~InTransfer(r)
    BY DEF Good, Eff, Kept, EngineInv, Owned, Transferring
  <1>3. CoreType(z)
    BY <1>1 DEF Good, Hyp, CoreType
  <1>4. Quiet(z) /\ ~InTransfer(z) /\ ~z.int /\ ~z.cmd_waiting /\ z.xst # "X_INT_WAIT"
    BY <1>1, <1>2 DEF Quiet, InTransfer, RestState
  <1>5. Caused(z) /\ Owned(z)
    BY <1>1, <1>4 DEF Good, EngineInv, Caused, Owned, Quiet, InTransfer, Silent
  <1>6. Flushed(z) /\ Transferring(z)
    BY <1>1, <1>2, <1>4 DEF Good, EngineInv, Flushed, Flushing, Transferring, Quiet, InTransfer,
                            Silent
  <1> QED BY <1>1, <1>3, <1>4, <1>5, <1>6 DEF Cleared, CoreInv, EngineInv

(* Reading INTSTATUS finishes the command, and starts the one that waits.  *)
LEMMA IntRead ==
  ASSUME Hyp, NEW r, NEW y, Good(r), e.int, After(y, read_intstatus, r)
  PROVE  /\ ~e.cmd_waiting => Cleared(y, r) /\ ~y.cmd_inprogress
         /\ e.cmd_waiting => \E z : Cleared(z, r) /\ After(y, start_command(e.command1), z)
  <1> DEFINE s == start_command(e.command1)
             p == [command1 |-> "none", cmd_waiting |-> FALSE]
             q == [cmd_inprogress |-> FALSE]
             t == [intstatus |-> {}, int |-> FALSE, ge |-> FALSE, tc |-> e.tc]
  <1>1. /\ e.cmd_waiting => read_intstatus = s ++ p ++ t
        /\ ~e.cmd_waiting => read_intstatus = q ++ t
    BY DEF read_intstatus
  <1>2. /\ DOMAIN p = {"command1", "cmd_waiting"} /\ p.cmd_waiting = FALSE
        /\ DOMAIN q = {"cmd_inprogress"} /\ q.cmd_inprogress = FALSE
        /\ DOMAIN t = {"intstatus", "int", "ge", "tc"} /\ t.int = FALSE /\ t.tc = e.tc
    OBVIOUS
  <1> HIDE DEF s, p, q, t
  <1>3. "ge" \notin CoreField
    BY DEF CoreField
  <1>4. CASE ~e.cmd_waiting
    <2>1. \A x \in CoreField : y[x] = Val(q, x, Val(t, x, r[x]))
      BY <1>1, <1>4, ValTwo DEF After
    <2>2. y.int = FALSE /\ y.tc = e.tc /\ y.cmd_inprogress = FALSE /\ y.cmd_waiting = r.cmd_waiting
      BY <1>2, <2>1 DEF Val, CoreField
    <2>3. \A x \in CoreField \ {"int", "intstatus", "tc", "cmd_waiting", "cmd_inprogress", "command1"} :
             y[x] = r[x]
      BY <1>2, <1>3, <2>1 DEF Val
    <2>4. y.cmd_waiting = FALSE /\ y.cmd_inprogress \in BOOLEAN /\ ~y.cmd_inprogress
      BY <1>4, <2>2 DEF Good, Eff, Kept, CoreType
    <2>5. Cleared(y, r)
      BY <2>2, <2>3, <2>4, ClearedIs
    <2> QED BY <1>4, <2>4, <2>5
  <1>5. CASE e.cmd_waiting
    <2> DEFINE z == [x \in CoreField |-> Val(p, x, Val(t, x, r[x]))]
    <2>1. After(y, s, z)
      BY <1>1, <1>5, ValTwo DEF After
    <2>2. z.int = FALSE /\ z.tc = e.tc /\ z.cmd_waiting = FALSE /\ z.cmd_inprogress = r.cmd_inprogress
      BY <1>2 DEF Val, CoreField
    <2>3. \A x \in CoreField \ {"int", "intstatus", "tc", "cmd_waiting", "cmd_inprogress", "command1"} :
             z[x] = r[x]
      BY <1>2, <1>3 DEF Val
    <2> HIDE DEF z
    <2>4. z.cmd_inprogress \in BOOLEAN
      BY <2>2 DEF Good, CoreType
    <2>5. Cleared(z, r)
      BY <2>2, <2>3, <2>4, ClearedIs
    <2> QED BY <1>5, <2>1, <2>5 DEF s
  <1> QED BY <1>4, <1>5
-----------------------------------------------------------------------------
(* The driver. *)

(* What an access is to the controller.  Flush: it may make the channel    *)
(* write a word.                                                           *)
CommandKind(c) ==
    CASE c = "SELECT ATN" -> "Select"
      [] c = "FLUSH FIFO" -> "FlushFifo"
      [] c = "TI" -> "TI"
      [] c = "ICCS" -> "ICCS"
      [] c = "MSGACC" -> "MSGACC"
      [] c = "RESET" -> "Reset"
      [] OTHER -> "unknown"
Plain == {"none", "fifo", "pop", "wr_tc", "selectbusid", "d_next", "d_limit", "d_start", "d_stop",
          "csr", "init"}
Kind(a) ==
    IF a.op = "cmd" THEN CommandKind(a.c)
    ELSE IF a.op = "intstatus" THEN "Read"
    ELSE IF a.op = "ctl" /\ a.flush THEN "Flush"
    ELSE IF a.op \in Plain \cup {"ctl"} \/ (a.op = "resrept" /\ a.v) THEN "Other" ELSE "unknown"
(* The kinds that may follow one of kind k in the driver's list.           *)
Later(k) ==
    CASE k \in {"Select", "TI", "Reset"} -> {"Other"}
      [] k = "FlushFifo" -> {"Select", "Other"}
      [] k \in {"ICCS", "MSGACC"} -> {"Read", "Other"}
      [] k = "Read" -> {"FlushFifo", "Select", "TI", "ICCS", "MSGACC", "Other"}
      [] OTHER -> {"FlushFifo", "Select", "TI", "Reset", "ICCS", "MSGACC", "Read", "Flush", "Other"}
Ordered(s) == \A i, j \in DOMAIN s : i < j => Kind(s[j]) \in Later(Kind(s[i]))
Kinds(s) == {Kind(s[i]) : i \in DOMAIN s}
Marks(s) == Kinds(s) \ {"Flush", "Other"}

Ready == ~e.cmd_inprogress /\ ~e.int
Clearing == {"Read", "FlushFifo"}
Resetting == {"Read", "FlushFifo", "Select"}
SelectInv(M) ==
    /\ M \in {Resetting, {"FlushFifo", "Select"}, {"Select"}, {}}
    /\ IF M = {} THEN e.cmd_inprogress ELSE ~e.cmd_inprogress /\ (e.int => M = Resetting)
    /\ Silent(e)
TransferInv(M) ==
    /\ M \in {{"Read", "TI"}, {"TI"}, {}}
    /\ IF M = {} THEN e.cmd_inprogress /\ e.command0 = "TI"
       ELSE /\ Silent(e) /\ e.xst = "X_IDLE" /\ e.phase \in {"DI", "DO"}
            /\ IF M = {"TI"} THEN Ready ELSE e.int /\ e.cmd_inprogress
PumpedInv(M) == M = {} /\ e.cmd_inprogress /\ FlushOk
CommandInv(M, c) ==
    /\ M \in {{"Read", c}, {"Read"}, {c}, {}}
    /\ M = {} => e.cmd_inprogress /\ (c = "MSGACC" => Silent(e))
    /\ M = {c} => Ready
    /\ "Read" \in M => e.int /\ e.cmd_inprogress /\ (c \notin M => e.cmd_waiting /\ e.command1 = c)
DoneInv(M) ==
    /\ M \in {{"Reset"}, {"Read"}, Clearing, {"FlushFifo"}, {}}
    /\ M = {"Reset"} => result = "failed"
    /\ "Read" \in M => e.int /\ e.cmd_inprogress
    /\ M = {"FlushFifo"} => Ready
    /\ M = {} => result = "failed" \/ Ready
    /\ result # "failed" \/ "FlushFifo" \in M => Silent(e)
(* What the driver has still to write, and what became of what it wrote.   *)
Progress ==
    \/ step = "select" /\ SelectInv(Marks(todo))
    \/ step = "transfer" /\ TransferInv(Marks(todo))
    \/ step = "pumped" /\ PumpedInv(Marks(todo))
    \/ step = "status" /\ CommandInv(Marks(todo), "ICCS")
    \/ step = "accept" /\ CommandInv(Marks(todo), "MSGACC")
    \/ step = "done" /\ DoneInv(Marks(todo))
DriverInv ==
    /\ Ordered(todo)
    /\ "Flush" \in Kinds(todo) => step \in {"pumped", "status"} /\ FlushOk
    /\ e.cmd_waiting => step \in {"status", "accept"} /\ Marks(todo) = {"Read"}
    /\ pc = "check" => step = "transfer"
    /\ Progress
-----------------------------------------------------------------------------
(* Lists of accesses. *)

IsList(s) == \E S : s \in Seq(S)
(* A list of accesses of the kinds K, in a possible order.                 *)
List(s, K) == IsList(s) /\ Ordered(s) /\ Kinds(s) = K
Known == {"Select", "FlushFifo", "TI", "ICCS", "MSGACC", "Reset", "Read"}
(* A list without flushes in which the driver gives the commands M.        *)
Todo(s, M) ==
    /\ IsList(s) /\ Ordered(s) /\ Marks(s) = M /\ "Flush" \notin Kinds(s) /\ M \subseteq Known

(* Making the first access of a list.                                      *)
LEMMA PopList ==
  ASSUME NEW s, IsList(s), Ordered(s), s # <<>>
  PROVE  /\ IsList(Tail(s)) /\ Ordered(Tail(s))
         /\ Kinds(s) = {Kind(Head(s))} \cup Kinds(Tail(s))
         /\ Kinds(Tail(s)) \subseteq Later(Kind(Head(s)))
  <1>1. PICK S : s \in Seq(S)
    BY DEF IsList
  <1>2. /\ Tail(s) \in Seq(S) /\ Len(s) \in Nat /\ Len(s) > 0 /\ DOMAIN s = 1 .. Len(s)
        /\ Head(s) = s[1] /\ DOMAIN Tail(s) = 1 .. (Len(s) - 1)
        /\ \A i \in DOMAIN Tail(s) : Tail(s)[i] = s[i + 1]
    BY <1>1
  <1>3. \A i \in DOMAIN Tail(s) : i + 1 \in DOMAIN s /\ i + 1 > 1 /\ 1 \in DOMAIN s
    BY <1>2
  <1>4. Ordered(Tail(s))
    <2>1. ASSUME NEW i \in DOMAIN Tail(s), NEW j \in DOMAIN Tail(s), i < j
          PROVE  Kind(Tail(s)[j]) \in Later(Kind(Tail(s)[i]))
      <3>1. i + 1 < j + 1
        BY <1>2, <2>1
      <3> QED BY <1>2, <1>3, <3>1 DEF Ordered
    <2> QED BY <2>1 DEF Ordered
  <1>5. Kinds(Tail(s)) \subseteq Later(Kind(Head(s)))
    <2>1. ASSUME NEW i \in DOMAIN Tail(s)
          PROVE  Kind(Tail(s)[i]) \in Later(Kind(Head(s)))
      BY <1>2, <1>3 DEF Ordered
    <2> QED BY <2>1 DEF Kinds
  <1>6. Kinds(s) \subseteq {Kind(Head(s))} \cup Kinds(Tail(s))
    <2>1. ASSUME NEW i \in DOMAIN s
          PROVE  Kind(s[i]) \in {Kind(Head(s))} \cup Kinds(Tail(s))
      <3>1. CASE i = 1
        BY <1>2, <3>1
      <3>2. CASE i # 1
        <4>1. i - 1 \in DOMAIN Tail(s) /\ Tail(s)[i - 1] = s[i]
          BY <1>2, <3>2
        <4> QED BY <4>1 DEF Kinds
      <3> QED BY <3>1, <3>2
    <2> QED BY <2>1 DEF Kinds
  <1>7. {Kind(Head(s))} \cup Kinds(Tail(s)) \subseteq Kinds(s)
    <2>1. Kind(Head(s)) \in Kinds(s)
      BY <1>2 DEF Kinds
    <2>2. ASSUME NEW i \in DOMAIN Tail(s)
          PROVE  Kind(Tail(s)[i]) \in Kinds(s)
      BY <1>2, <1>3 DEF Kinds
    <2> QED BY <2>1, <2>2 DEF Kinds
  <1> QED BY <1>2, <1>4, <1>5, <1>6, <1>7 DEF IsList

(* One list after the other.                                               *)
LEMMA CatList ==
  ASSUME NEW s, NEW t, IsList(s), IsList(t)
  PROVE  /\ IsList(s \o t) /\ Kinds(s \o t) = Kinds(s) \cup Kinds(t)
         /\ Ordered(s) /\ Ordered(t) /\ (\A k \in Kinds(s) : Kinds(t) \subseteq Later(k))
               => Ordered(s \o t)
  <1>1. PICK S : s \in Seq(S)
    BY DEF IsList
  <1>2. PICK T : t \in Seq(T)
    BY DEF IsList
  <1> DEFINE U == S \cup T
             m == Len(s)
             n == Len(t)
             u == s \o t
  <1>3. s \in Seq(U) /\ t \in Seq(U)
    BY <1>1, <1>2
  <1>4. /\ m \in Nat /\ n \in Nat /\ DOMAIN s = 1 .. m /\ DOMAIN t = 1 .. n
        /\ u \in Seq(U) /\ DOMAIN u = 1 .. (m + n)
        /\ \A i \in 1 .. (m + n) : u[i] = IF i <= m THEN s[i] ELSE t[i - m]
    BY <1>3
  <1> HIDE DEF U, m, n, u
  <1>5. \A i \in 1 .. (m + n) : i > m => i - m \in 1 .. n
    BY <1>4
  <1>6. \A i \in DOMAIN s : i \in DOMAIN u /\ u[i] = s[i]
    BY <1>4
  <1>7. \A i \in DOMAIN t : m + i \in DOMAIN u /\ u[m + i] = t[i]
    BY <1>4
  <1>8. \A i \in DOMAIN u : \/ i \in DOMAIN s /\ u[i] = s[i]
                            \/ i - m \in DOMAIN t /\ u[i] = t[i - m]
    BY <1>4, <1>5
  <1>9. Kinds(u) = Kinds(s) \cup Kinds(t)
    <2>1. Kinds(u) \subseteq Kinds(s) \cup Kinds(t)
      BY <1>8 DEF Kinds
    <2>2. Kinds(s) \subseteq Kinds(u)
      BY <1>6 DEF Kinds
    <2>3. Kinds(t) \subseteq Kinds(u)
      BY <1>7 DEF Kinds
    <2> QED BY <2>1, <2>2, <2>3
  <1>10. ASSUME Ordered(s), Ordered(t), \A k \in Kinds(s) : Kinds(t) \subseteq Later(k)
         PROVE  Ordered(u)
    <2>1. ASSUME NEW i \in DOMAIN u, NEW j \in DOMAIN u, i < j
          PROVE  Kind(u[j]) \in Later(Kind(u[i]))
      <3>1. CASE j <= m
        <4>1. i \in DOMAIN s /\ j \in DOMAIN s /\ u[i] = s[i] /\ u[j] = s[j]
          BY <1>4, <2>1, <3>1
        <4> QED BY <1>10, <2>1, <4>1 DEF Ordered
      <3>2. CASE i > m
        <4>1. /\ i - m \in DOMAIN t /\ j - m \in DOMAIN t /\ u[i] = t[i - m] /\ u[j] = t[j - m]
              /\ i - m < j - m
          BY <1>4, <2>1, <3>2
        <4> QED BY <1>10, <4>1 DEF Ordered
      <3>3. CASE i <= m /\ j > m
        <4>1. i \in DOMAIN s /\ u[i] = s[i] /\ j - m \in DOMAIN t /\ u[j] = t[j - m]
          BY <1>4, <2>1, <3>3
        <4>2. Kind(s[i]) \in Kinds(s) /\ Kind(t[j - m]) \in Kinds(t)
          BY <4>1 DEF Kinds
        <4> QED BY <1>10, <4>1, <4>2
      <3> QED BY <1>4, <3>1, <3>2, <3>3
    <2> QED BY <2>1 DEF Ordered
  <1>11. IsList(u)
    BY <1>4 DEF IsList
  <1> QED BY <1>9, <1>10, <1>11 DEF u

(* The lists of none and of one access.                                    *)
LEMMA ShortList ==
  /\ List(<<>>, {})
  /\ \A a : List(<<a>>, {Kind(a)})
  <1>1. List(<<>>, {})
    <2>1. <<>> \in Seq({})
      OBVIOUS
    <2> QED BY <2>1 DEF List, IsList, Ordered, Kinds
  <1>2. ASSUME NEW a
        PROVE  List(<<a>>, {Kind(a)})
    <2>1. <<a>> \in Seq({a}) /\ DOMAIN <<a>> = {1} /\ <<a>>[1] = a
      OBVIOUS
    <2>2. \A i, j \in DOMAIN <<a>> : ~(i < j)
      BY <2>1
    <2> QED BY <2>1, <2>2 DEF List, IsList, Ordered, Kinds
  <1> QED BY <1>1, <1>2

(* Plain accesses and flushes may stand anywhere.                          *)
LEMMA LaterKnown ==
  /\ \A k \in Known \cup {"Flush", "Other"} : "Other" \in Later(k)
  /\ \A k \in {"Flush", "Other"} : Known \cup {"Flush", "Other"} \subseteq Later(k)
  BY DEF Known, Later

(* One such list after the other.                                          *)
LEMMA TodoCat ==
  ASSUME NEW s, NEW t, NEW M, NEW N, Todo(s, M), Todo(t, N), \A k \in M : N \subseteq Later(k)
  PROVE  Todo(s \o t, M \cup N)
  <1>1. Kinds(s) \subseteq M \cup {"Other"} /\ Kinds(t) \subseteq N \cup {"Other"}
    BY DEF Todo, Marks
  <1>2. \A k \in Kinds(s) : Kinds(t) \subseteq Later(k)
    <2>1. ASSUME NEW k \in M
          PROVE  N \cup {"Other"} \subseteq Later(k)
      BY <2>1, LaterKnown DEF Todo
    <2>2. N \cup {"Other"} \subseteq Later("Other")
      BY LaterKnown DEF Todo
    <2> QED BY <1>1, <2>1, <2>2
  <1>3. IsList(s \o t) /\ Ordered(s \o t) /\ Kinds(s \o t) = Kinds(s) \cup Kinds(t)
    BY <1>2, CatList DEF Todo
  <1> QED BY <1>3 DEF Todo, Marks

(* Flushes may come before.                                                *)
LEMMA FlushCat ==
  ASSUME NEW s, IsList(s), Kinds(s) \subseteq {"Flush", "Other"}, NEW t, NEW N, Todo(t, N)
  PROVE  IsList(s \o t) /\ Ordered(s \o t) /\ Marks(s \o t) = N
  <1>1. Kinds(t) \subseteq Known \cup {"Other"}
    BY DEF Todo, Marks
  <1>2. \A k \in Kinds(s) : Kinds(t) \subseteq Later(k)
    BY <1>1, LaterKnown
  <1>3. Ordered(s)
    BY LaterKnown DEF Ordered, Kinds
  <1>4. IsList(s \o t) /\ Ordered(s \o t) /\ Kinds(s \o t) = Kinds(s) \cup Kinds(t)
    BY <1>2, <1>3, CatList DEF Todo
  <1> QED BY <1>4 DEF Todo, Marks

(* The lists of one, two, three and four accesses.                         *)
LEMMA TodoOne ==
  ASSUME NEW a, Kind(a) \in Known \cup {"Other"}
  PROVE  Todo(<<a>>, {Kind(a)} \ {"Other"})
  <1>1. {Kind(a)} \ {"Flush", "Other"} = {Kind(a)} \ {"Other"} /\ Kind(a) # "Flush"
    BY DEF Known
  <1> QED BY <1>1, ShortList DEF Todo, List, Marks

(* Two accesses.                                                           *)
LEMMA TodoTwo ==
  ASSUME NEW a, NEW b, Kind(a) \in Known \cup {"Other"}, Kind(b) \in Known \cup {"Other"},
         Kind(b) \in Later(Kind(a))
  PROVE  Todo(<<a, b>>, {Kind(a), Kind(b)} \ {"Other"})
  <1> DEFINE s == <<a, b>>
  <1>1. s \in Seq({a, b}) /\ DOMAIN s = {1, 2} /\ s[1] = a /\ s[2] = b
    OBVIOUS
  <1> HIDE DEF s
  <1>2. \A i, j \in DOMAIN s : i < j => i = 1 /\ j = 2
    BY <1>1
  <1>3. Ordered(s)
    BY <1>1, <1>2 DEF Ordered
  <1>4. Kinds(s) = {Kind(a), Kind(b)}
    BY <1>1 DEF Kinds
  <1>5. Kind(a) # "Flush" /\ Kind(b) # "Flush"
    BY DEF Known
  <1> QED BY <1>1, <1>3, <1>4, <1>5 DEF Todo, IsList, Marks, s

(* Three plain accesses.                                                   *)
LEMMA TodoThree ==
  ASSUME NEW a, NEW b, NEW c, Kind(a) = "Other", Kind(b) = "Other", Kind(c) = "Other"
  PROVE  Todo(<<a, b, c>>, {})
  <1> DEFINE s == <<a, b, c>>
  <1>1. s \in Seq({a, b, c}) /\ DOMAIN s = {1, 2, 3} /\ s[1] = a /\ s[2] = b /\ s[3] = c
    OBVIOUS
  <1> HIDE DEF s
  <1>2. \A i \in DOMAIN s : Kind(s[i]) = "Other"
    BY <1>1
  <1>3. Ordered(s)
    BY <1>2, LaterKnown DEF Ordered
  <1>4. Kinds(s) \subseteq {"Other"}
    BY <1>2 DEF Kinds
  <1> QED BY <1>1, <1>3, <1>4 DEF Todo, IsList, Marks, s

(* Three plain accesses and a command.                                     *)
LEMMA TodoFour ==
  ASSUME NEW a, NEW b, NEW c, NEW d, Kind(a) = "Other", Kind(b) = "Other", Kind(c) = "Other",
         Kind(d) \in Known
  PROVE  Todo(<<a, b, c, d>>, {Kind(d)})
  <1> DEFINE s == <<a, b, c, d>>
  <1>1. /\ s \in Seq({a, b, c, d}) /\ DOMAIN s = {1, 2, 3, 4}
        /\ s[1] = a /\ s[2] = b /\ s[3] = c /\ s[4] = d
    OBVIOUS
  <1> HIDE DEF s
  <1>2. \A i, j \in DOMAIN s : i < j => i # 4
    BY <1>1
  <1>3. \A i \in DOMAIN s : i # 4 => Kind(s[i]) = "Other"
    BY <1>1
  <1>4. \A i \in DOMAIN s : Kind(s[i]) \in Known \cup {"Other"}
    BY <1>1
  <1>5. Ordered(s)
    BY <1>2, <1>3, <1>4, LaterKnown DEF Ordered
  <1>6. Kinds(s) = {"Other", Kind(d)}
    BY <1>1 DEF Kinds
  <1>7. Kind(d) # "Flush" /\ Kind(d) # "Other"
    BY DEF Known
  <1> QED BY <1>1, <1>5, <1>6, <1>7 DEF Todo, IsList, Marks, s

(* The kinds of the accesses the driver makes.                             *)
LEMMA KindIs ==
  /\ Kind(ReadInt) = "Read" /\ Kind(Pop) = "Other"
  /\ \A o \in Plain : \A v : Kind(Write(o, v)) = "Other"
  /\ \A t : Kind(Push(t)) = "Other"
  /\ \A c : Kind(Csr(c)) = "Other"
  /\ \A m : Kind(Control(m, FALSE)) = "Other" /\ Kind(Control(m, TRUE)) = "Flush"
  /\ Kind(NoAccess) = "Other"
  <1>1. Kind(ReadInt) = "Read" /\ Kind(Pop) = "Other" /\ Kind(NoAccess) = "Other"
    BY DEF Kind, ReadInt, Pop, NoAccess, Plain
  <1>2. \A o \in Plain : \A v : Kind(Write(o, v)) = "Other"
    BY DEF Kind, Write, Plain
  <1>3. \A t : Kind(Push(t)) = "Other"
    BY DEF Kind, Push, Plain
  <1>4. \A c : Kind(Csr(c)) = "Other"
    BY DEF Kind, Csr, Plain
  <1>5. \A m : Kind(Control(m, FALSE)) = "Other" /\ Kind(Control(m, TRUE)) = "Flush"
    <2>1. \A m, f : Control(m, f).op = "ctl" /\ Control(m, f).flush = f
      BY DEF Control
    <2> QED BY <2>1 DEF Kind
  <1> QED BY <1>1, <1>2, <1>3, <1>4, <1>5

(* The kinds of the commands the driver gives.                             *)
LEMMA CommandIs ==
  /\ \A c : Kind(Command(c)) = CommandKind(c)
  /\ CommandKind("SELECT ATN") = "Select" /\ CommandKind("FLUSH FIFO") = "FlushFifo"
  /\ CommandKind("TI") = "TI" /\ CommandKind("ICCS") = "ICCS" /\ CommandKind("MSGACC") = "MSGACC"
  /\ CommandKind("RESET") = "Reset"
  <1>1. \A c : Kind(Command(c)) = CommandKind(c)
    <2>1. \A c : Command(c).op = "cmd" /\ Command(c).c = c
      BY DEF Command
    <2> QED BY <2>1 DEF Kind
  <1> QED BY <1>1 DEF CommandKind
(* Reading the interrupt and flushing the FIFO.                            *)
LEMMA ClearList == Todo(<<ReadInt, Command("FLUSH FIFO")>>, Clearing)
  <1>1. Kind(ReadInt) = "Read" /\ Kind(Command("FLUSH FIFO")) = "FlushFifo"
    BY CommandIs, KindIs
  <1>2. "Read" \in Known /\ "FlushFifo" \in Known /\ "FlushFifo" \in Later("Read")
    BY DEF Known, Later
  <1>3. {"Read", "FlushFifo"} \ {"Other"} = Clearing
    BY DEF Clearing
  <1> QED BY <1>1, <1>2, <1>3, TodoTwo
(* The write of the configuration.                                         *)
LEMMA ConfigureIs ==
  ASSUME Resrept
  PROVE  /\ Kind(Configure) = "Other" /\ Configure.op = "resrept"
         /\ Todo(<<Configure>>, {})
  <1>1. Configure.op = "resrept" /\ Configure.v = Resrept
    BY DEF Configure, Write
  <1>2. Kind(Configure) = "Other"
    BY <1>1 DEF Kind
  <1>3. {"Other"} \ {"Other"} = {}
    OBVIOUS
  <1> QED BY <1>1, <1>2, <1>3, TodoOne

(* RESET and the write of the configuration.                               *)
LEMMA ResetList ==
  ASSUME Resrept
  PROVE  Todo(Reset, {"Reset"})
  <1>1. Kind(Command("RESET")) = "Reset" /\ Kind(Configure) = "Other"
    BY CommandIs, ConfigureIs
  <1>2. "Reset" \in Known /\ "Other" \in Later("Reset")
    BY DEF Known, Later
  <1>3. {"Reset", "Other"} \ {"Other"} = {"Reset"}
    OBVIOUS
  <1>4. Todo(<<Command("RESET"), Configure>>, {"Reset"})
    BY <1>1, <1>2, <1>3, TodoTwo
  <1> QED BY <1>4 DEF Reset

(* A list may begin with the write of the configuration.                   *)
LEMMA ConfigureFirst ==
  ASSUME Resrept, NEW s, NEW M, Todo(s, M)
  PROVE  Todo(<<Configure>> \o s, M)
  <1>1. Todo(<<Configure>>, {})
    BY ConfigureIs
  <1>2. Todo(<<Configure>> \o s, {} \cup M)
    BY <1>1, TodoCat
  <1>3. {} \cup M = M
    OBVIOUS
  <1> QED BY <1>2, <1>3
(* The lists of the driver.                                                *)
LEMMA SelectList ==
  ASSUME NEW q
  PROVE  /\ Todo(Select(q), {"Select"}) /\ Todo(Reselect(q), Resetting)
         /\ Resrept => /\ Todo(<<Configure>> \o Select(q), {"Select"})
                       /\ \A c : Todo(Recover(c) \o Reselect(q), Resetting)
  <1>1. Kind(Write("selectbusid", q.unit)) = "Other"
    BY KindIs DEF Plain
  <1>2. Kind(Command("SELECT ATN")) = "Select"
    BY CommandIs
  <1>3. /\ Kind(Push(<<"IDENTIFY">>)) = "Other" /\ Kind(Push(<<q.op, q.lba, q.n>>)) = "Other"
    BY KindIs
  <1> DEFINE s == Command("SELECT ATN")
             w == Write("selectbusid", q.unit)
             i == Push(<<"IDENTIFY">>)
             d == Push(<<q.op, q.lba, q.n>>)
  <1>4. Select(q) = <<w, i, d, s>>
    BY DEF Select
  <1>5. /\ Kind(w) = "Other" /\ Kind(s) = "Select"
        /\ Kind(i) = "Other" /\ Kind(d) = "Other"
    BY <1>1, <1>2, <1>3
  <1> HIDE DEF s, w, i, d
  <1>6. "Select" \in Known
    BY DEF Known
  <1>7. Todo(Select(q), {"Select"})
    BY <1>4, <1>5, <1>6, TodoFour
  <1>8. {"Select"} \subseteq Later("Read") /\ {"Select"} \subseteq Later("FlushFifo")
    BY DEF Later
  <1>9. Todo(<<ReadInt, Command("FLUSH FIFO")>> \o Select(q), Clearing \cup {"Select"})
    BY <1>7, <1>8, ClearList, TodoCat DEF Clearing
  <1>10. Clearing \cup {"Select"} = Resetting
    BY DEF Clearing, Resetting
  <1>11. Todo(Reselect(q), Resetting)
    BY <1>9, <1>10 DEF Reselect
  <1>12. ASSUME Resrept
         PROVE  /\ Todo(<<Configure>> \o Select(q), {"Select"})
                /\ \A c : Todo(Recover(c) \o Reselect(q), Resetting)
    <2>1. Todo(<<Configure>> \o Select(q), {"Select"})
      BY <1>7, <1>12, ConfigureFirst
    <2>2. Todo(<<Configure>> \o Reselect(q), Resetting)
      BY <1>11, <1>12, ConfigureFirst
    <2>3. Todo(<<>> \o Reselect(q), Resetting)
      <3>1. Todo(<<>>, {}) /\ {} \cup Resetting = Resetting
        BY ShortList DEF Todo, List, Marks
      <3>2. Todo(<<>> \o Reselect(q), {} \cup Resetting)
        BY <1>11, <3>1, TodoCat
      <3> QED BY <3>1, <3>2
    <2> QED BY <2>1, <2>2, <2>3 DEF Recover
  <1> QED BY <1>7, <1>11, <1>12

(* Programming the channel.                                                *)
LEMMA ProgramList ==
  ASSUME NEW q, NEW k, NEW first
  PROVE  Todo(Program(q, k, first), {})
  <1> DEFINE h == IF first THEN <<Csr({"RESET", "INITBUF"}), Write("init", q.win[k])>>
                  ELSE <<Csr({"RESET"}), Write("d_next", q.win[k])>>
             l == <<Write("d_limit", q.win[k + 1])>>
             t == IF k < NWin(q)
                  THEN <<Write("d_start", q.win[k + 1]), Write("d_stop", q.win[k + 2]),
                         Csr({"SETENABLE", "SETSUPDATE"} \cup Direction(q))>>
                  ELSE <<Csr({"SETENABLE"} \cup Direction(q))>>
  <1>1. Program(q, k, first) = h \o l \o t
    BY DEF Program
  <1>2. \A o \in {"init", "d_next", "d_limit", "d_start", "d_stop"} : \A v : Kind(Write(o, v)) = "Other"
    BY KindIs DEF Plain
  <1>3. "Other" \in Known \cup {"Other"} /\ "Other" \in Later("Other")
    BY LaterKnown
  <1>4. Todo(h, {})
    <2>1. \A a, b : Kind(a) = "Other" /\ Kind(b) = "Other" => Todo(<<a, b>>, {})
      <3>1. {"Other", "Other"} \ {"Other"} = {}
        OBVIOUS
      <3> QED BY <1>3, <3>1, TodoTwo
    <2> QED BY <1>2, <2>1, KindIs
  <1>5. \A a : Kind(a) = "Other" => Todo(<<a>>, {})
    <2>1. {"Other"} \ {"Other"} = {}
      OBVIOUS
    <2> QED BY <1>3, <2>1, TodoOne
  <1>6. Todo(l, {})
    BY <1>2, <1>5
  <1>7. Todo(t, {})
    BY <1>2, <1>5, TodoThree, KindIs
  <1> HIDE DEF h, l, t
  <1>8. Todo(h \o l, {} \cup {})
    BY <1>4, <1>6, TodoCat
  <1>9. Todo((h \o l) \o t, ({} \cup {}) \cup {})
    BY <1>7, <1>8, TodoCat
  <1>10. ({} \cup {}) \cup {} = {}
    OBVIOUS
  <1> QED BY <1>1, <1>9, <1>10

(* Starting a transfer.                                                    *)
LEMMA TransferList ==
  ASSUME NEW q
  PROVE  Todo(Transfer(q), {"TI"})
  <1> DEFINE w == Write("wr_tc", q.n * SectBytes)
             m == Control(TRUE, FALSE)
             c == Command("TI")
             t == IF q.late THEN <<c, m>> ELSE <<m, c>>
  <1>1. Transfer(q) = <<w>> \o t
    BY DEF Transfer
  <1>2. Kind(w) = "Other" /\ Kind(m) = "Other" /\ Kind(c) = "TI"
    BY KindIs, CommandIs DEF Plain
  <1> HIDE DEF w, m, c
  <1>3. "TI" \in Known /\ "Other" \in Later("TI") /\ "TI" \in Later("Other")
    BY DEF Known, Later
  <1>4. {"TI", "Other"} \ {"Other"} = {"TI"} /\ {"Other", "TI"} \ {"Other"} = {"TI"}
        /\ {"Other"} \ {"Other"} = {} /\ {} \cup {"TI"} = {"TI"}
    OBVIOUS
  <1>5. Todo(<<c, m>>, {"TI"})
    BY <1>2, <1>3, <1>4, TodoTwo
  <1>6. Todo(<<m, c>>, {"TI"})
    BY <1>2, <1>3, <1>4, TodoTwo
  <1>7. Todo(<<w>>, {})
    BY <1>2, <1>4, TodoOne
  <1>8. Todo(t, {"TI"})
    BY <1>5, <1>6
  <1> HIDE DEF t
  <1>9. Todo(<<w>> \o t, {} \cup {"TI"})
    BY <1>7, <1>8, TodoCat
  <1> QED BY <1>1, <1>4, <1>9

(* INTSTATUS and the next command, in either order.                        *)
LEMMA ReadThenList ==
  ASSUME NEW c \in {"ICCS", "MSGACC"}, NEW s \in ReadThen(c)
  PROVE  Todo(s, {"Read", c})
  <1>1. Kind(Command(c)) = c /\ Kind(ReadInt) = "Read"
    BY CommandIs, KindIs
  <1>2. "Read" \in Known /\ c \in Known /\ "Read" \in Later(c) /\ c \in Later("Read")
    BY DEF Known, Later
  <1>3. {"Read", c} \ {"Other"} = {"Read", c} /\ {c, "Read"} \ {"Other"} = {"Read", c}
    OBVIOUS
  <1>4. Todo(<<ReadInt, Command(c)>>, {"Read", c})
    BY <1>1, <1>2, <1>3, TodoTwo
  <1>5. Todo(<<Command(c), ReadInt>>, {"Read", c})
    BY <1>1, <1>2, <1>3, TodoTwo
  <1> QED BY <1>4, <1>5 DEF ReadThen

(* The same access n times.                                                *)
LEMMA Repeated ==
  ASSUME NEW n \in Nat, NEW c, NEW f, f = [i \in 1 .. n |-> c]
  PROVE  f \in Seq({c}) /\ \A i \in DOMAIN f : f[i] = c
  <1>1. Len(f) = n
    OBVIOUS
  <1>2. DOMAIN f = 1 .. n /\ \A i \in 1 .. n : f[i] = c
    OBVIOUS
  <1>3. f \in Seq({c})
    BY <1>1, <1>2
  <1> QED BY <1>2, <1>3

(* The flush pumps.                                                        *)
LEMMA FlushList ==
  ASSUME NEW q, ScsiAssumption
  PROVE  IsList(Flushes(q)) /\ Kinds(Flushes(q)) \subseteq {"Flush"}
  <1> DEFINE n == IF q.op = "READ" THEN Pumps ELSE 0
             c == Control(TRUE, TRUE)
  <1>1. n \in Nat
    BY DEF ScsiAssumption
  <1>2. Flushes(q) = [i \in 1 .. n |-> c]
    BY DEF Flushes
  <1>3. Kind(c) = "Flush"
    BY KindIs
  <1> HIDE DEF n, c
  <1>4. Flushes(q) \in Seq({c}) /\ \A i \in DOMAIN Flushes(q) : Flushes(q)[i] = c
    BY <1>1, <1>2, Repeated
  <1> QED BY <1>3, <1>4 DEF IsList, Kinds
-----------------------------------------------------------------------------
(* What a clock with an access of the driver does. *)

(* What the accesses of each kind are.                                     *)
LEMMA CommandKindIs ==
  ASSUME NEW c
  PROVE  /\ CommandKind(c) \in {"Select", "FlushFifo", "TI", "ICCS", "MSGACC", "Reset", "unknown"}
         /\ CommandKind(c) = "Select" => c = "SELECT ATN"
         /\ CommandKind(c) = "FlushFifo" => c = "FLUSH FIFO"
         /\ CommandKind(c) = "TI" => c = "TI"
         /\ CommandKind(c) = "ICCS" => c = "ICCS"
         /\ CommandKind(c) = "MSGACC" => c = "MSGACC"
         /\ CommandKind(c) = "Reset" => c = "RESET"
  <1>1. CASE c = "SELECT ATN"
    BY <1>1, CommandIs
  <1>2. CASE c = "FLUSH FIFO"
    BY <1>2, CommandIs
  <1>3. CASE c = "TI"
    BY <1>3, CommandIs
  <1>4. CASE c = "ICCS"
    BY <1>4, CommandIs
  <1>5. CASE c = "MSGACC"
    BY <1>5, CommandIs
  <1>6. CASE c = "RESET"
    BY <1>6, CommandIs
  <1>7. CASE c \notin {"SELECT ATN", "FLUSH FIFO", "TI", "ICCS", "MSGACC", "RESET"}
    <2>1. CommandKind(c) = "unknown"
      BY <1>7 DEF CommandKind
    <2> QED BY <2>1
  <1> QED BY <1>1, <1>2, <1>3, <1>4, <1>5, <1>6, <1>7

(* What an access of a known kind is.                                      *)
LEMMA AccessIs ==
  ASSUME NEW a
  PROVE  /\ Kind(a) = "Other" => Calm(a)
         /\ Kind(a) = "Flush" => a.op = "ctl"
         /\ Kind(a) = "Read" => a.op = "intstatus"
         /\ Kind(a) \in Known \ {"Read"} => a.op = "cmd" /\ CommandKind(a.c) = Kind(a)
  <1>1. CASE a.op = "cmd"
    BY <1>1, CommandKindIs DEF Kind
  <1>2. CASE a.op = "intstatus"
    BY <1>2 DEF Kind
  <1>3. CASE a.op = "ctl" /\ a.flush
    BY <1>3 DEF Kind, Known
  <1>4. CASE a.op = "ctl" /\ ~a.flush
    BY <1>4 DEF Kind, Known, Calm, flush_write
  <1>5. CASE a.op \in Plain
    BY <1>5 DEF Kind, Known, Calm, Plain
  <1>6. CASE a.op = "resrept" /\ a.v
    BY <1>6 DEF Kind, Known, Calm, Plain
  <1>7. CASE a.op \notin Plain \cup {"cmd", "ctl", "intstatus"} /\ ~(a.op = "resrept" /\ a.v)
    BY <1>7 DEF Kind, Known
  <1> QED BY <1>1, <1>2, <1>3, <1>4, <1>5, <1>6, <1>7

(* What the accesses that concern a command assign.                        *)
LEMMA AccessDoes ==
  ASSUME NEW a, NEW ev
  PROVE  /\ a.op = "intstatus" => Access(a, ev) = read_intstatus
         /\ a.op = "cmd" => Access(a, ev) = write_command(a.c)
         /\ a.op # "ctl" => ~flush_write(a)
  <1>1. a.op = "intstatus" => Access(a, ev) = read_intstatus
    BY DEF Access
  <1>2. a.op = "cmd" => Access(a, ev) = write_command(a.c)
    BY DEF Access
  <1>3. a.op # "ctl" => ~flush_write(a)
    BY DEF flush_write
  <1> QED BY <1>1, <1>2, <1>3

(* The registers the proof is about, and the input from the block device.  *)
Base == CoreField \subseteq DOMAIN e /\ CoreInv(e) /\ sd_ack \in BOOLEAN

(* A clock without a flush: the engine first, the access on top.           *)
LEMMA ClockGood ==
  ASSUME Base, NEW a, NEW expired, NEW m_ack \in BOOLEAN, NEW w, ~flush_write(a),
         EspClock(a, expired, sd_ack, strobe, m_ack, w)
  PROVE  CoreField \subseteq DOMAIN e' /\ \E r, ev : Good(r) /\ After(e', Access(a, ev), r)
  <1> DEFINE gone == "dly" \in expired
  <1>1. PICK s, r : /\ \A x \in CoreField : s[x] = Val(flush_counter(a, m_ack), x, e[x])
                    /\ After(r, Engine(a, gone, sd_ack, m_ack, w), s)
                    /\ After(e', Acc(a, gone, sd_ack, m_ack, w), r)
    BY ClockParts DEF Base
  <1>2. CoreField \subseteq DOMAIN e'
    BY ClockParts DEF Base
  <1>3. Counted(s, m_ack)
    BY <1>1, CountedNow
  <1>4. gone \in BOOLEAN
    OBVIOUS
  <1> HIDE DEF gone
  <1>5. Good(r)
    BY <1>1, <1>3, <1>4, EngineGood DEF Base, CoreInv, Hyp
  <1> QED BY <1>1, <1>2, <1>5 DEF Acc

(* A clock in which a flush is written.                                    *)
LEMMA ClockFlush ==
  ASSUME Base, EspAssumption, FlushOk, NEW a, NEW expired, NEW m_ack \in BOOLEAN, NEW w,
         flush_write(a), EspClock(a, expired, sd_ack, strobe, m_ack, w)
  PROVE  CoreField \subseteq DOMAIN e' /\ CoreInv(e') /\ Kept(e')
  <1> DEFINE gone == "dly" \in expired
  <1>1. PICK s, r : /\ \A x \in CoreField : s[x] = Val(flush_counter(a, m_ack), x, e[x])
                    /\ After(r, Engine(a, gone, sd_ack, m_ack, w), s)
                    /\ After(e', Acc(a, gone, sd_ack, m_ack, w), r)
    BY ClockParts DEF Base
  <1>2. CoreField \subseteq DOMAIN e'
    BY ClockParts DEF Base
  <1>3. gone \in BOOLEAN /\ sd_ack \in BOOLEAN /\ Hyp
    BY DEF Base, CoreInv, Hyp
  <1>4. PICK ev : After(e', Access(a, ev), r)
    BY <1>1 DEF Acc
  <1> HIDE DEF gone
  <1>5. CASE e.xst # "X_DI_WR"
    BY <1>1, <1>2, <1>3, <1>4, <1>5, FlushWaiting
  <1>6. CASE e.xst = "X_DI_WR"
    BY <1>1, <1>2, <1>3, <1>4, <1>6, FlushWriting
  <1> QED BY <1>5, <1>6
(* The controller has started a command.                                   *)
Started(y) == CoreInv(y) /\ ~y.int /\ y.cmd_inprogress /\ ~y.cmd_waiting

(* The controller stays ready.                                             *)
LEMMA GoodReady ==
  ASSUME Hyp, NEW r, Good(r), Ready
  PROVE  ~r.int /\ ~r.cmd_inprogress /\ Quiet(r) /\ ~InTransfer(r)
  <1>1. ~r.cmd_inprogress /\ r.cmd_inprogress \in BOOLEAN
    BY DEF Good, Eff, Kept, Ready, CoreType
  <1>2. Quiet(r) /\ ~InTransfer(r)
    BY <1>1 DEF Good, EngineInv, Owned, Transferring
  <1>3. e.xst # "X_INT_WAIT"
    BY DEF Hyp, EngineInv, Owned, Quiet, RestState, Ready
  <1>4. ~r.int
    BY <1>3 DEF Good, Eff, Kept, Ready
  <1> QED BY <1>1, <1>2, <1>4

(* Reading INTSTATUS.                                                      *)
LEMMA ReadOut ==
  ASSUME Hyp, NEW r, Good(r), NEW y, NEW a, Kind(a) = "Read", NEW ev, After(y, Access(a, ev), r)
  PROVE  /\ ~e.int => Good(y)
         /\ e.int /\ ~e.cmd_waiting =>
               /\ CoreInv(y) /\ ~y.int /\ ~y.cmd_inprogress /\ ~y.cmd_waiting
               /\ Silent(e) => Silent(y)
               /\ e.xst = "X_IDLE" => y.xst = "X_IDLE" /\ y.phase = e.phase
         /\ e.int /\ e.cmd_waiting /\ e.command1 = "ICCS" => Started(y)
         /\ e.int /\ e.cmd_waiting /\ e.command1 = "MSGACC" => Started(y) /\ Silent(y)
  <1>1. After(y, read_intstatus, r)
    BY AccessIs, AccessDoes
  <1>2. ASSUME ~e.int
        PROVE  Good(y)
    <2>1. read_intstatus = <<>>
      BY <1>2 DEF read_intstatus
    <2> QED BY <1>1, <2>1, GoodNone
  <1>3. ASSUME e.int, ~e.cmd_waiting
        PROVE  /\ CoreInv(y) /\ ~y.int /\ ~y.cmd_inprogress /\ ~y.cmd_waiting
               /\ Silent(e) => Silent(y)
               /\ e.xst = "X_IDLE" => y.xst = "X_IDLE" /\ y.phase = e.phase
    <2>1. Cleared(y, r) /\ ~y.cmd_inprogress
      BY <1>1, <1>3, IntRead
    <2> QED BY <2>1 DEF Cleared, Good, Eff, Kept, Silent
  <1>4. ASSUME e.int, e.cmd_waiting
        PROVE  \E z : Cleared(z, r) /\ After(y, start_command(e.command1), z)
    BY <1>1, <1>4, IntRead
  <1>5. ASSUME e.int, e.cmd_waiting, e.command1 = "ICCS"
        PROVE  Started(y)
    <2>1. PICK z : Cleared(z, r) /\ After(y, start_command("ICCS"), z)
      BY <1>4, <1>5
    <2>2. CoreInv(z) /\ ~z.int /\ ~InTransfer(z) /\ ~z.cmd_waiting
      BY <2>1 DEF Cleared
    <2>3. CoreInv(y) /\ ~y.int /\ y.cmd_inprogress /\ y.cmd_waiting = z.cmd_waiting
      BY <2>1, <2>2, StartIccs
    <2> QED BY <2>2, <2>3 DEF Started
  <1>6. ASSUME e.int, e.cmd_waiting, e.command1 = "MSGACC"
        PROVE  Started(y) /\ Silent(y)
    <2>1. PICK z : Cleared(z, r) /\ After(y, start_command("MSGACC"), z)
      BY <1>4, <1>6
    <2>2. CoreInv(z) /\ ~z.int /\ ~z.cmd_waiting
      BY <2>1 DEF Cleared
    <2>3. CoreInv(y) /\ ~y.int /\ y.cmd_inprogress /\ Silent(y) /\ y.cmd_waiting = z.cmd_waiting
      BY <2>1, <2>2, StartMsgacc
    <2> QED BY <2>2, <2>3 DEF Started
  <1> QED BY <1>2, <1>3, <1>5, <1>6

(* The commands that follow a transfer, written before or after INTSTATUS  *)
(* is read.                                                                *)
LEMMA NextOut ==
  ASSUME Hyp, NEW r, Good(r), NEW y, NEW a, NEW c \in {"ICCS", "MSGACC"}, Kind(a) = c,
         NEW ev, After(y, Access(a, ev), r)
  PROVE  /\ e.cmd_inprogress /\ e.int =>
               CoreInv(y) /\ y.int /\ y.cmd_inprogress /\ y.cmd_waiting /\ y.command1 = c
         /\ Ready => Started(y) /\ (c = "MSGACC" => Silent(y))
  <1>1. After(y, write_command(c), r)
    <2>1. Kind(a) \in Known \ {"Read"}
      BY DEF Known
    <2>2. a.op = "cmd" /\ a.c = c
      BY <2>1, AccessIs, CommandKindIs
    <2> QED BY <2>2, AccessDoes
  <1>2. c \notin Resets /\ CoreInv(r)
    BY DEF Resets, Good, CoreInv
  <1>3. ASSUME e.cmd_inprogress, e.int
        PROVE  CoreInv(y) /\ y.int /\ y.cmd_inprogress /\ y.cmd_waiting /\ y.command1 = c
    <2>1. /\ CoreInv(y) /\ y.cmd_waiting /\ y.command1 = c
          /\ y.int = r.int /\ y.cmd_inprogress = r.cmd_inprogress
      BY <1>1, <1>2, <1>3, CommandWaits
    <2>2. r.int /\ r.cmd_inprogress
      BY <1>3 DEF Good, Eff, Kept
    <2> QED BY <2>1, <2>2
  <1>4. ASSUME Ready
        PROVE  Started(y) /\ (c = "MSGACC" => Silent(y))
    <2>1. PICK z : /\ CoreInv(z) /\ ~z.cmd_waiting /\ z.int = r.int /\ z.command0 = r.command0
                   /\ z.transfer_reported = r.transfer_reported
                   /\ After(y, start_command(c), z)
      BY <1>1, <1>2, <1>4, CommandStarts DEF Ready
    <2>2. ~z.int /\ ~InTransfer(z)
      BY <1>4, <2>1, GoodReady DEF InTransfer
    <2>3. CASE c = "ICCS"
      <3>1. CoreInv(y) /\ ~y.int /\ y.cmd_inprogress /\ y.cmd_waiting = z.cmd_waiting
        BY <2>1, <2>2, <2>3, StartIccs
      <3> QED BY <2>1, <2>3, <3>1 DEF Started
    <2>4. CASE c = "MSGACC"
      <3>1. CoreInv(y) /\ ~y.int /\ y.cmd_inprogress /\ Silent(y) /\ y.cmd_waiting = z.cmd_waiting
        BY <2>1, <2>2, <2>4, StartMsgacc
      <3> QED BY <2>1, <2>4, <3>1 DEF Started
    <2> QED BY <2>3, <2>4
  <1> QED BY <1>3, <1>4
(* A command of the driver while none is in progress.                      *)
LEMMA ReadyStarts ==
  ASSUME Hyp, NEW r, Good(r), NEW y, NEW c, c \notin Resets, After(y, write_command(c), r), Ready
  PROVE  \E z : /\ CoreInv(z) /\ ~z.int /\ ~z.cmd_waiting /\ Quiet(z) /\ (Silent(e) => Silent(z))
                /\ After(y, start_command(c), z)
  <1>1. CoreInv(r)
    BY DEF Good, CoreInv
  <1>2. PICK z : /\ CoreInv(z) /\ ~z.cmd_waiting /\ z.int = r.int /\ z.xst = r.xst
                 /\ z.command0 = r.command0 /\ z.transfer_reported = r.transfer_reported
                 /\ After(y, start_command(c), z)
    BY <1>1, CommandStarts DEF Ready
  <1>3. ~z.int /\ Quiet(z)
    BY <1>2, GoodReady DEF Quiet
  <1>4. Silent(e) => Silent(z)
    BY <1>2 DEF Good, Eff, Kept, Silent
  <1> QED BY <1>2, <1>3, <1>4

(* A selection starts.                                                     *)
LEMMA SelectOut ==
  ASSUME Hyp, NEW r, Good(r), NEW y, NEW a, Kind(a) = "Select", NEW ev, After(y, Access(a, ev), r),
         Ready
  PROVE  Started(y) /\ Silent(y)
  <1>1. Kind(a) \in Known \ {"Read"}
    BY DEF Known
  <1>2. a.op = "cmd" /\ a.c = "SELECT ATN"
    BY <1>1, AccessIs, CommandKindIs
  <1>3. After(y, write_command("SELECT ATN"), r)
    BY <1>2, AccessDoes
  <1>4. "SELECT ATN" \notin Resets
    BY DEF Resets
  <1>5. PICK z : CoreInv(z) /\ ~z.int /\ ~z.cmd_waiting /\ After(y, start_command("SELECT ATN"), z)
    BY <1>3, <1>4, ReadyStarts
  <1>6. /\ CoreInv(y) /\ ~y.int /\ y.cmd_inprogress /\ Silent(y)
        /\ y.cmd_waiting => z.cmd_waiting
    BY <1>5, StartSelect
  <1> QED BY <1>5, <1>6 DEF Started

(* A transfer starts.                                                      *)
LEMMA TiOut ==
  ASSUME Hyp, NEW r, Good(r), NEW y, NEW a, Kind(a) = "TI", NEW ev, After(y, Access(a, ev), r),
         Ready, Silent(e), e.phase \in {"DI", "DO"}
  PROVE  Started(y) /\ y.command0 = "TI"
  <1>1. Kind(a) \in Known \ {"Read"}
    BY DEF Known
  <1>2. a.op = "cmd" /\ a.c = "TI"
    BY <1>1, AccessIs, CommandKindIs
  <1>3. After(y, write_command("TI"), r)
    BY <1>2, AccessDoes
  <1>4. "TI" \notin Resets
    BY DEF Resets
  <1>5. PICK z : /\ CoreInv(z) /\ ~z.int /\ ~z.cmd_waiting /\ Silent(z)
                 /\ After(y, start_command("TI"), z)
    BY <1>3, <1>4, ReadyStarts
  <1>6. /\ CoreInv(y) /\ ~y.int /\ y.cmd_inprogress /\ y.command0 = "TI"
        /\ y.cmd_waiting = z.cmd_waiting
    BY <1>5, StartTi
  <1> QED BY <1>5, <1>6 DEF Started

(* The FIFO is emptied.                                                    *)
LEMMA FlushFifoOut ==
  ASSUME Hyp, NEW r, Good(r), NEW y, NEW a, Kind(a) = "FlushFifo", NEW ev,
         After(y, Access(a, ev), r), Ready, Silent(e)
  PROVE  CoreInv(y) /\ ~y.int /\ ~y.cmd_inprogress /\ ~y.cmd_waiting /\ Silent(y)
  <1>1. Kind(a) \in Known \ {"Read"}
    BY DEF Known
  <1>2. a.op = "cmd" /\ a.c = "FLUSH FIFO"
    BY <1>1, AccessIs, CommandKindIs
  <1>3. After(y, write_command("FLUSH FIFO"), r)
    BY <1>2, AccessDoes
  <1>4. "FLUSH FIFO" \notin Resets
    BY DEF Resets
  <1>5. PICK z : /\ CoreInv(z) /\ ~z.int /\ ~z.cmd_waiting /\ Quiet(z) /\ Silent(z)
                 /\ After(y, start_command("FLUSH FIFO"), z)
    BY <1>3, <1>4, ReadyStarts
  <1>6. /\ CoreInv(y) /\ ~y.int /\ ~y.cmd_inprogress /\ Silent(y)
        /\ y.cmd_waiting = z.cmd_waiting
    BY <1>5, StartFlushFifo
  <1> QED BY <1>5, <1>6

(* The resets, at any time.                                                *)
LEMMA ResetOut ==
  ASSUME NEW r, Good(r), NEW y, NEW c \in Resets, c = "BUS RESET" => e.resrept,
         NEW a, a.op = "cmd", a.c = c, NEW ev,
         After(y, Access(a, ev), r)
  PROVE  /\ CoreInv(y) /\ Silent(y) /\ ~y.cmd_inprogress /\ ~y.cmd_waiting
         /\ y.int => r.int
  <1>1. CoreInv(r)
    BY DEF Good, CoreInv
  <1>2. After(y, start_command(c), r)
    <2>1. write_command(c) = start_command(c)
      BY DEF write_command, Resets
    <2> QED BY <2>1, AccessDoes
  <1>3. CASE c = "RESET"
    <2>1. /\ CoreInv(y) /\ Silent(y) /\ ~y.cmd_inprogress /\ ~y.cmd_waiting
          /\ ~y.int
      BY <1>1, <1>2, <1>3, StartReset
    <2> QED BY <2>1
  <1>4. CASE c = "BUS RESET"
    <2>1. /\ CoreInv(y) /\ Silent(y) /\ ~y.cmd_inprogress /\ ~y.cmd_waiting
          /\ y.int = r.int
      BY <1>1, <1>2, <1>4, StartBusReset
    <2> QED BY <2>1
  <1> QED BY <1>3, <1>4 DEF Resets
-----------------------------------------------------------------------------
(* The inductive invariant. *)

IInv == Base /\ IsList(todo) /\ DriverInv
(* Bus resets are not reported, or the driver is about to see to it: it    *)
(* writes the configuration right after every RESET.                       *)
Configures(s) == \E i \in DOMAIN s : s[i].op = "resrept"
ConfigInv ==
    /\ e.resrept \/ Configures(todo)
    /\ "Reset" \in Kinds(todo) => todo = Reset
Inv == IInv /\ ConfigInv
(* What OneInterrupt says of a step.                                       *)
Rises == ~e.int /\ e'.int => e.cmd_inprogress
(* The driver makes the access at the head of its list.                    *)
Popped(a) ==
    /\ todo # <<>> /\ a = Head(todo) /\ todo' = Tail(todo)
    /\ step' = step /\ pc' = pc /\ (result' = result \/ result = "none")

(* What is left to be written after the access.                            *)
LEMMA PopMarks ==
  ASSUME IInv, NEW a, Popped(a)
  PROVE  /\ Kind(a) \in Known \cup {"Other", "Flush"}
         /\ IsList(todo') /\ Ordered(todo')
         /\ Kind(a) \in {"Other", "Flush"} => Marks(todo') = Marks(todo)
         /\ Kind(a) \notin {"Other", "Flush"} =>
               Kind(a) \notin Marks(todo') /\ Marks(todo) = {Kind(a)} \cup Marks(todo')
         /\ Kind(a) \in Known =>
               /\ Marks(todo') \subseteq Later(Kind(a)) \ {"Other"}
               /\ "Flush" \notin Kinds(todo')
         /\ "Flush" \in Kinds(todo') \/ Kind(a) = "Flush" => "Flush" \in Kinds(todo)
  <1>1. IsList(todo) /\ Ordered(todo) /\ todo # <<>> /\ a = Head(todo) /\ todo' = Tail(todo)
    BY DEF IInv, DriverInv, Popped
  <1>2. /\ IsList(todo') /\ Ordered(todo')
        /\ Kinds(todo) = {Kind(a)} \cup Kinds(todo')
        /\ Kinds(todo') \subseteq Later(Kind(a))
    BY <1>1, PopList
  <1>3. Kind(a) \in {"Other", "Flush"} => Marks(todo') = Marks(todo)
    BY <1>2 DEF Marks
  <1>4. Kind(a) \notin {"Other", "Flush"} => Marks(todo) = {Kind(a)} \cup Marks(todo')
    BY <1>2 DEF Marks
  <1>5. Kind(a) \in Known => "Flush" \notin Later(Kind(a)) /\ Kind(a) \notin Later(Kind(a))
    BY DEF Known, Later
  <1>6. Kind(a) \in Known =>
           /\ Kind(a) \notin Marks(todo') /\ Marks(todo') \subseteq Later(Kind(a)) \ {"Other"}
           /\ "Flush" \notin Kinds(todo')
    BY <1>2, <1>5 DEF Marks
  <1>7. Kind(a) \notin {"Other", "Flush"} => Kind(a) \in Known
    <2>1. Kind(a) \in Kinds(todo)
      BY <1>2
    <2>2. Marks(todo) \subseteq Known
      BY DEF IInv, DriverInv, Progress, SelectInv, TransferInv, PumpedInv, CommandInv, DoneInv,
             Clearing, Resetting, Known
    <2> QED BY <2>1, <2>2 DEF Marks
  <1> QED BY <1>2, <1>3, <1>4, <1>6, <1>7

(* While the controller keeps what it has.                                 *)
LEMMA KeptReady ==
  ASSUME Hyp, NEW r, Kept(r)
  PROVE  /\ ~e.cmd_inprogress => ~r.cmd_inprogress /\ (r.int => e.int)
         /\ ~e.int /\ r.int => e.cmd_inprogress
         /\ FlushOk => r.command0 = "TI" /\ (r.transfer_reported \/ r.tc)
  <1>1. e.xst = "X_INT_WAIT" => e.cmd_inprogress
    BY DEF Hyp, EngineInv, Owned, Quiet, RestState
  <1>2. FlushOk => ~Silent(e)
    BY DEF FlushOk, Silent
  <1> QED BY <1>1, <1>2 DEF Kept, FlushOk

(* A step that gives no command and reads no interrupt keeps the progress  *)
(* of the driver.                                                          *)
LEMMA KeepStep ==
  ASSUME IInv, Kept(e'), step = "transfer" => Eff(e'), Marks(todo') = Marks(todo),
         "Flush" \in Kinds(todo') => "Flush" \in Kinds(todo),
         Ordered(todo'), step' = step, pc' = pc, result' = result \/ result = "none"
  PROVE  DriverInv' /\ Rises
  <1>1. Hyp
    BY DEF IInv, Base, CoreInv, Hyp
  <1>2. /\ ~e.cmd_inprogress => ~e'.cmd_inprogress /\ (e'.int => e.int)
        /\ ~e.int /\ e'.int => e.cmd_inprogress
        /\ FlushOk => FlushOk'
    BY <1>1, KeptReady DEF FlushOk
  <1>3. e'.cmd_waiting => step \in {"status", "accept"} /\ Marks(todo) = {"Read"}
    BY DEF Kept, IInv, DriverInv
  <1>4. Progress'
    <2>1. CASE step = "select"
      <3>1. SelectInv(Marks(todo))
        BY <2>1 DEF IInv, DriverInv, Progress
      <3>2. SelectInv(Marks(todo))'
        BY <1>2, <3>1 DEF SelectInv, Kept, Silent
      <3> QED BY <2>1, <3>2 DEF Progress
    <2>2. CASE step = "transfer"
      <3>1. TransferInv(Marks(todo))
        BY <2>2 DEF IInv, DriverInv, Progress
      <3>2. TransferInv(Marks(todo))'
        BY <1>2, <2>2, <3>1 DEF TransferInv, Kept, Eff, Silent, Ready
      <3> QED BY <2>2, <3>2 DEF Progress
    <2>3. CASE step = "pumped"
      <3>1. PumpedInv(Marks(todo))
        BY <2>3 DEF IInv, DriverInv, Progress
      <3>2. PumpedInv(Marks(todo))'
        BY <1>2, <3>1 DEF PumpedInv, Kept
      <3> QED BY <2>3, <3>2 DEF Progress
    <2>4. ASSUME NEW c, CommandInv(Marks(todo), c)
          PROVE  CommandInv(Marks(todo), c)'
      BY <1>2, <2>4 DEF CommandInv, Kept, Silent, Ready
    <2>5. CASE step \in {"status", "accept"}
      BY <2>4, <2>5 DEF IInv, DriverInv, Progress
    <2>6. CASE step = "done"
      <3>1. DoneInv(Marks(todo))
        BY <2>6 DEF IInv, DriverInv, Progress
      <3>2. DoneInv(Marks(todo))'
        BY <1>2, <3>1 DEF DoneInv, Kept, Silent, Ready
      <3> QED BY <2>6, <3>2 DEF Progress
    <2> QED BY <2>1, <2>2, <2>3, <2>5, <2>6 DEF IInv, DriverInv, Progress
  <1>5. "Flush" \in Kinds(todo') => step \in {"pumped", "status"} /\ FlushOk'
    BY <1>2 DEF IInv, DriverInv
  <1>6. pc' = "check" => step' = "transfer"
    BY DEF IInv, DriverInv
  <1> QED BY <1>2, <1>3, <1>4, <1>5, <1>6 DEF DriverInv, Rises
(* Where the driver is when it makes an access of each kind.               *)
LEMMA PlainStep ==
  ASSUME IInv, NEW a, Popped(a), Kind(a) = "Other", Good(e')
  PROVE  DriverInv' /\ Rises
  <1>1. Kept(e') /\ Eff(e')
    BY DEF Good, Eff
  <1> QED BY <1>1, PopMarks, KeepStep DEF Popped

(* A pump.                                                                 *)
LEMMA FlushStep ==
  ASSUME IInv, NEW a, Popped(a), Kind(a) = "Flush", Kept(e')
  PROVE  DriverInv' /\ Rises
  <1>1. "Flush" \in Kinds(todo)
    BY PopMarks
  <1>2. step \in {"pumped", "status"}
    BY <1>1 DEF IInv, DriverInv
  <1> QED BY <1>2, PopMarks, KeepStep DEF Popped

(* Reading INTSTATUS.                                                      *)
LEMMA ReadStep ==
  ASSUME IInv, NEW a, Popped(a), Kind(a) = "Read", NEW r, Good(r), NEW ev,
         After(e', Access(a, ev), r)
  PROVE  CoreInv(e') /\ DriverInv' /\ Rises
  <1> DEFINE M == Marks(todo)
             N == Marks(todo')
  <1>1. Hyp
    BY DEF IInv, Base, CoreInv, Hyp
  <1>2. /\ "Read" \notin N /\ M = {"Read"} \cup N /\ Ordered(todo')
        /\ "Flush" \notin Kinds(todo')
    <2>1. "Read" \in Known
      BY DEF Known
    <2> QED BY <2>1, PopMarks
  <1>3. step' = step /\ (result' = result \/ result = "none") /\ (pc' = "check" => step' = "transfer")
    BY DEF Popped, IInv, DriverInv
  <1>4. /\ ~e.int => Good(e')
        /\ e.int /\ ~e.cmd_waiting =>
               /\ CoreInv(e') /\ ~e'.int /\ ~e'.cmd_inprogress /\ ~e'.cmd_waiting
               /\ Silent(e) => Silent(e')
               /\ e.xst = "X_IDLE" => e'.xst = "X_IDLE" /\ e'.phase = e.phase
        /\ e.int /\ e.cmd_waiting /\ e.command1 = "ICCS" => Started(e')
        /\ e.int /\ e.cmd_waiting /\ e.command1 = "MSGACC" => Started(e') /\ Silent(e')
    BY <1>1, ReadOut
  <1>5. e.cmd_waiting => step \in {"status", "accept"} /\ M = {"Read"}
    BY DEF IInv, DriverInv
  <1> HIDE DEF M, N
  <1>6. CASE step = "select"
    <2>1. SelectInv(M)
      BY <1>6 DEF IInv, DriverInv, Progress, M
    <2>2. M = Resetting
      BY <1>2, <2>1 DEF SelectInv, Resetting
    <2>3. N = {"FlushFifo", "Select"}
      BY <1>2, <2>2 DEF Resetting
    <2>4. ~e.cmd_waiting /\ ~e.cmd_inprogress /\ Silent(e)
      BY <1>5, <1>6, <2>1, <2>2 DEF SelectInv, Resetting
    <2>5. ~e'.int /\ ~e'.cmd_inprogress /\ ~e'.cmd_waiting /\ Silent(e') /\ CoreInv(e')
      <3>1. CASE e.int
        BY <1>4, <2>4, <3>1
      <3>2. CASE ~e.int
        <4>1. Good(e')
          BY <1>4, <3>2
        <4>2. ~e'.int /\ ~e'.cmd_inprogress
          BY <1>1, <2>4, <3>2, <4>1, KeptReady DEF Good, Eff
        <4> QED BY <2>4, <4>1, <4>2 DEF Good, Eff, Kept, CoreInv
      <3> QED BY <3>1, <3>2
    <2>6. Progress'
      BY <1>3, <1>6, <2>3, <2>5 DEF Progress, SelectInv, N
    <2> QED BY <1>2, <1>3, <2>5, <2>6 DEF DriverInv, Rises
  <1>7. CASE step = "transfer"
    <2>1. TransferInv(M)
      BY <1>7 DEF IInv, DriverInv, Progress, M
    <2>2. M = {"Read", "TI"}
      BY <1>2, <2>1 DEF TransferInv
    <2>3. N = {"TI"}
      BY <1>2, <2>2
    <2>4. /\ ~e.cmd_waiting /\ e.int /\ Silent(e) /\ e.xst = "X_IDLE"
          /\ e.phase \in {"DI", "DO"}
      BY <1>5, <1>7, <2>1, <2>2 DEF TransferInv
    <2>5. /\ ~e'.int /\ ~e'.cmd_inprogress /\ ~e'.cmd_waiting /\ Silent(e') /\ CoreInv(e')
          /\ e'.xst = "X_IDLE" /\ e'.phase \in {"DI", "DO"}
      BY <1>4, <2>4
    <2>6. Progress'
      BY <1>3, <1>7, <2>3, <2>5 DEF Progress, TransferInv, Ready, N
    <2> QED BY <1>2, <1>3, <2>5, <2>6 DEF DriverInv, Rises
  <1>8. CASE step = "pumped"
    BY <1>2, <1>8 DEF IInv, DriverInv, Progress, PumpedInv, M
  <1>9. ASSUME NEW c \in {"ICCS", "MSGACC"}, CommandInv(M, c)
        PROVE  CommandInv(Marks(todo), c)' /\ CoreInv(e') /\ ~e'.int /\ ~e'.cmd_waiting
    <2>1. e.int /\ (c \notin M => e.cmd_waiting /\ e.command1 = c) /\ M \in {{"Read", c}, {"Read"}}
      BY <1>2, <1>9 DEF CommandInv
    <2>2. CASE M = {"Read", c}
      <3>1. N = {c} /\ M # {"Read"} /\ N # {}
        BY <1>2, <2>2
      <3>2. ~e'.int /\ ~e'.cmd_inprogress /\ ~e'.cmd_waiting /\ CoreInv(e')
        BY <1>4, <1>5, <2>1, <3>1
      <3> QED BY <1>2, <3>1, <3>2 DEF CommandInv, Ready, N
    <2>3. CASE M = {"Read"}
      <3>1. N = {}
        BY <1>2, <2>3
      <3>2. e.cmd_waiting /\ e.command1 = c
        BY <2>1, <2>3
      <3>3. Started(e') /\ (c = "MSGACC" => Silent(e'))
        BY <1>4, <2>1, <3>2
      <3> QED BY <3>1, <3>3 DEF CommandInv, Started, N
    <2> QED BY <2>1, <2>2, <2>3
  <1>10. CASE step \in {"status", "accept"}
    <2>1. PICK c \in {"ICCS", "MSGACC"} : /\ CommandInv(M, c)
                                          /\ c = IF step = "status" THEN "ICCS" ELSE "MSGACC"
      BY <1>10 DEF IInv, DriverInv, Progress, M
    <2>2. Progress'
      BY <1>3, <1>9, <1>10, <2>1 DEF Progress
    <2> QED BY <1>2, <1>3, <1>9, <2>1, <2>2 DEF DriverInv, Rises
  <1>11. CASE step = "done"
    <2>1. DoneInv(M)
      BY <1>11 DEF IInv, DriverInv, Progress, M
    <2>2. M \in {{"Read"}, Clearing} /\ e.int /\ ~e.cmd_waiting
      BY <1>2, <1>5, <1>11, <2>1 DEF DoneInv, Clearing
    <2>3. N \in {{}, {"FlushFifo"}}
      BY <1>2, <2>2 DEF Clearing
    <2>4. /\ ~e'.int /\ ~e'.cmd_inprogress /\ ~e'.cmd_waiting /\ CoreInv(e')
          /\ Silent(e) => Silent(e')
      BY <1>4, <2>2
    <2>5. result' # "failed" \/ "FlushFifo" \in N => Silent(e')
      BY <1>2, <1>3, <2>1, <2>4 DEF DoneInv
    <2>6. Progress'
      BY <1>3, <1>11, <2>3, <2>4, <2>5 DEF Progress, DoneInv, Ready, N
    <2> QED BY <1>2, <1>3, <2>4, <2>6 DEF DriverInv, Rises
  <1> QED BY <1>6, <1>7, <1>8, <1>10, <1>11 DEF IInv, DriverInv, Progress
(* SELECT ATN.                                                             *)
LEMMA SelectStep ==
  ASSUME IInv, NEW a, Popped(a), Kind(a) = "Select", NEW r, Good(r), NEW ev,
         After(e', Access(a, ev), r)
  PROVE  CoreInv(e') /\ DriverInv' /\ Rises
  <1> DEFINE M == Marks(todo)
             N == Marks(todo')
  <1>1. Hyp
    BY DEF IInv, Base, CoreInv, Hyp
  <1>2. /\ M = {"Select"} \cup N /\ Ordered(todo') /\ "Flush" \notin Kinds(todo') /\ N = {}
    <2>1. "Select" \in Known /\ Later("Select") = {"Other"}
      BY DEF Known, Later
    <2> QED BY <2>1, PopMarks
  <1>3. step' = step /\ (pc' = "check" => step' = "transfer")
    BY DEF Popped, IInv, DriverInv
  <1> HIDE DEF M, N
  <1>4. M = {"Select"}
    BY <1>2
  <1>5. step = "select" /\ SelectInv(M)
    BY <1>4 DEF IInv, DriverInv, Progress, TransferInv, PumpedInv, CommandInv, DoneInv,
                Clearing, M
  <1>6. Ready
    BY <1>4, <1>5 DEF SelectInv, Resetting, Ready
  <1>7. Started(e') /\ Silent(e')
    BY <1>1, <1>6, SelectOut
  <1>8. Progress'
    BY <1>2, <1>3, <1>5, <1>7 DEF Progress, SelectInv, Started, N
  <1> QED BY <1>2, <1>3, <1>7, <1>8 DEF DriverInv, Rises, Started

(* FLUSH FIFO.                                                             *)
LEMMA FlushFifoStep ==
  ASSUME IInv, NEW a, Popped(a), Kind(a) = "FlushFifo", NEW r, Good(r), NEW ev,
         After(e', Access(a, ev), r)
  PROVE  CoreInv(e') /\ DriverInv' /\ Rises
  <1> DEFINE M == Marks(todo)
             N == Marks(todo')
  <1>1. Hyp
    BY DEF IInv, Base, CoreInv, Hyp
  <1>2. /\ M = {"FlushFifo"} \cup N /\ Ordered(todo') /\ "Flush" \notin Kinds(todo')
        /\ N \subseteq {"Select"}
    <2>1. "FlushFifo" \in Known /\ Later("FlushFifo") = {"Select", "Other"}
      BY DEF Known, Later
    <2> QED BY <2>1, PopMarks
  <1>3. step' = step /\ (pc' = "check" => step' = "transfer")
    BY DEF Popped, IInv, DriverInv
  <1> HIDE DEF M, N
  <1>4. "FlushFifo" \in M /\ "Read" \notin M
    BY <1>2
  <1>5. (step = "select" /\ SelectInv(M)) \/ (step = "done" /\ DoneInv(M))
    BY <1>4 DEF IInv, DriverInv, Progress, TransferInv, PumpedInv, CommandInv, M
  <1>6. CASE step = "select" /\ SelectInv(M)
    <2>1. M = {"FlushFifo", "Select"} /\ N = {"Select"}
      BY <1>2, <1>4, <1>6 DEF SelectInv, Resetting
    <2>2. Ready /\ Silent(e)
      BY <1>4, <1>6, <2>1 DEF SelectInv, Resetting, Ready
    <2>3. CoreInv(e') /\ ~e'.int /\ ~e'.cmd_inprogress /\ ~e'.cmd_waiting /\ Silent(e')
      BY <1>1, <2>2, FlushFifoOut
    <2>4. Progress'
      BY <1>3, <1>6, <2>1, <2>3 DEF Progress, SelectInv, N
    <2> QED BY <1>2, <1>3, <2>3, <2>4 DEF DriverInv, Rises
  <1>7. CASE step = "done" /\ DoneInv(M)
    <2>1. M = {"FlushFifo"} /\ N = {}
      BY <1>2, <1>4, <1>7 DEF DoneInv, Clearing
    <2>2. Ready /\ Silent(e)
      BY <1>7, <2>1 DEF DoneInv
    <2>3. CoreInv(e') /\ ~e'.int /\ ~e'.cmd_inprogress /\ ~e'.cmd_waiting /\ Silent(e')
      BY <1>1, <2>2, FlushFifoOut
    <2>4. Progress'
      BY <1>3, <1>7, <2>1, <2>3 DEF Progress, DoneInv, Ready, N
    <2> QED BY <1>2, <1>3, <2>3, <2>4 DEF DriverInv, Rises
  <1> QED BY <1>5, <1>6, <1>7

(* TI.                                                                     *)
LEMMA TiStep ==
  ASSUME IInv, NEW a, Popped(a), Kind(a) = "TI", NEW r, Good(r), NEW ev,
         After(e', Access(a, ev), r)
  PROVE  CoreInv(e') /\ DriverInv' /\ Rises
  <1> DEFINE M == Marks(todo)
             N == Marks(todo')
  <1>1. Hyp
    BY DEF IInv, Base, CoreInv, Hyp
  <1>2. /\ M = {"TI"} \cup N /\ Ordered(todo') /\ "Flush" \notin Kinds(todo') /\ N = {}
    <2>1. "TI" \in Known /\ Later("TI") = {"Other"}
      BY DEF Known, Later
    <2> QED BY <2>1, PopMarks
  <1>3. step' = step /\ (pc' = "check" => step' = "transfer")
    BY DEF Popped, IInv, DriverInv
  <1> HIDE DEF M, N
  <1>4. M = {"TI"}
    BY <1>2
  <1>5. step = "transfer" /\ TransferInv(M)
    BY <1>4 DEF IInv, DriverInv, Progress, SelectInv, Resetting, PumpedInv, CommandInv, DoneInv,
                Clearing, M
  <1>6. Ready /\ Silent(e) /\ e.phase \in {"DI", "DO"}
    BY <1>4, <1>5 DEF TransferInv
  <1>7. Started(e') /\ e'.command0 = "TI"
    BY <1>1, <1>6, TiOut
  <1>8. Progress'
    BY <1>2, <1>3, <1>5, <1>7 DEF Progress, TransferInv, Started, N
  <1> QED BY <1>2, <1>3, <1>7, <1>8 DEF DriverInv, Rises, Started

(* ICCS and MESSAGE ACCEPTED, given or queued.                             *)
LEMMA NextStep ==
  ASSUME IInv, NEW a, Popped(a), NEW c \in {"ICCS", "MSGACC"}, Kind(a) = c, NEW r, Good(r), NEW ev,
         After(e', Access(a, ev), r)
  PROVE  CoreInv(e') /\ DriverInv' /\ Rises
  <1> DEFINE M == Marks(todo)
             N == Marks(todo')
  <1>1. Hyp
    BY DEF IInv, Base, CoreInv, Hyp
  <1>2. /\ M = {c} \cup N /\ c \notin N /\ Ordered(todo') /\ "Flush" \notin Kinds(todo')
    <2>1. c \in Known /\ c \notin {"Other", "Flush"}
      BY DEF Known
    <2> QED BY <2>1, PopMarks
  <1>3. step' = step /\ (pc' = "check" => step' = "transfer")
    BY DEF Popped, IInv, DriverInv
  <1> HIDE DEF M, N
  <1>4. c \in M /\ c \notin {"Read", "Select", "FlushFifo", "TI", "Reset"}
    BY <1>2
  <1>5. step = (IF c = "ICCS" THEN "status" ELSE "accept") /\ CommandInv(M, c)
    BY <1>4 DEF IInv, DriverInv, Progress, SelectInv, TransferInv, Resetting, PumpedInv,
                CommandInv,
                DoneInv, Clearing, M
  <1>6. CASE M = {"Read", c}
    <2>1. N = {"Read"}
      BY <1>2, <1>4, <1>6
    <2>2. e.int /\ e.cmd_inprogress
      BY <1>5, <1>6 DEF CommandInv
    <2>3. CoreInv(e') /\ e'.int /\ e'.cmd_inprogress /\ e'.cmd_waiting /\ e'.command1 = c
      BY <1>1, <2>2, NextOut
    <2>4. CommandInv(Marks(todo), c)'
      BY <1>4, <2>1, <2>3 DEF CommandInv, N
    <2>5. Progress'
      BY <1>3, <1>5, <2>4 DEF Progress
    <2>6. e'.cmd_waiting => step' \in {"status", "accept"} /\ Marks(todo') = {"Read"}
      BY <1>3, <1>5, <2>1 DEF N
    <2> QED BY <1>2, <1>3, <2>2, <2>3, <2>5, <2>6 DEF DriverInv, Rises
  <1>7. CASE M = {c}
    <2>1. N = {}
      BY <1>2, <1>7
    <2>2. Ready
      BY <1>5, <1>7 DEF CommandInv
    <2>3. Started(e') /\ (c = "MSGACC" => Silent(e'))
      BY <1>1, <2>2, NextOut
    <2>4. CommandInv(Marks(todo), c)'
      BY <2>1, <2>3 DEF CommandInv, Started, N
    <2>5. Progress'
      BY <1>3, <1>5, <2>4 DEF Progress
    <2> QED BY <1>2, <1>3, <2>3, <2>5 DEF DriverInv, Rises, Started
  <1> QED BY <1>4, <1>5, <1>6, <1>7 DEF CommandInv

(* RESET, after a bus exception.                                           *)
LEMMA ResetStep ==
  ASSUME IInv, NEW a, Popped(a), Kind(a) = "Reset", NEW r, Good(r), NEW ev,
         After(e', Access(a, ev), r)
  PROVE  CoreInv(e') /\ DriverInv' /\ Rises
  <1> DEFINE M == Marks(todo)
             N == Marks(todo')
  <1>1. Hyp
    BY DEF IInv, Base, CoreInv, Hyp
  <1>2. /\ M = {"Reset"} \cup N /\ Ordered(todo') /\ "Flush" \notin Kinds(todo') /\ N = {}
    <2>1. "Reset" \in Known /\ Later("Reset") = {"Other"}
      BY DEF Known, Later
    <2> QED BY <2>1, PopMarks
  <1>3. step' = step /\ (result' = result \/ result = "none") /\ (pc' = "check" => step' = "transfer")
    BY DEF Popped, IInv, DriverInv
  <1> HIDE DEF M, N
  <1>4. M = {"Reset"}
    BY <1>2
  <1>5. step = "done" /\ result = "failed"
    BY <1>4 DEF IInv, DriverInv, Progress, SelectInv, TransferInv, Resetting, PumpedInv,
                CommandInv,
                DoneInv, Clearing, M
  <1>6. CoreInv(e') /\ Silent(e') /\ ~e'.cmd_inprogress /\ ~e'.cmd_waiting /\ (e'.int => r.int)
    <2>1. Kind(a) \in Known \ {"Read"}
      BY DEF Known
    <2>2. a.op = "cmd" /\ a.c = "RESET" /\ "RESET" \in Resets /\ "RESET" # "BUS RESET"
      BY <2>1, AccessIs, CommandKindIs DEF Resets
    <2> QED BY <2>2, ResetOut
  <1>7. Rises
    BY <1>1, <1>6, KeptReady DEF Rises, Good, Eff
  <1>8. Progress'
    BY <1>2, <1>3, <1>5 DEF Progress, DoneInv, N
  <1> QED BY <1>2, <1>3, <1>6, <1>7, <1>8 DEF DriverInv
(* Any access of the driver's list.                                        *)
LEMMA WorkStep ==
  ASSUME EspAssumption, IInv, sd_ack' \in BOOLEAN, NEW a, Popped(a), NEW expired,
         NEW m_ack \in BOOLEAN, NEW w, EspClock(a, expired, sd_ack, strobe, m_ack, w)
  PROVE  IInv' /\ Rises
  <1>1. Base /\ IsList(todo')
    BY PopMarks DEF IInv
  <1>2. ASSUME flush_write(a)
        PROVE  IInv' /\ Rises
    <2>1. a.op = "ctl" /\ a.flush
      BY <1>2 DEF flush_write
    <2>2. Kind(a) = "Flush"
      BY <2>1 DEF Kind
    <2>3. FlushOk
      BY <2>2, PopMarks DEF IInv, DriverInv
    <2>4. CoreField \subseteq DOMAIN e' /\ CoreInv(e') /\ Kept(e')
      BY <1>1, <1>2, <2>3, ClockFlush
    <2>5. DriverInv' /\ Rises
      BY <2>2, <2>4, FlushStep
    <2> QED BY <1>1, <2>4, <2>5 DEF IInv, Base
  <1>3. ASSUME ~flush_write(a)
        PROVE  IInv' /\ Rises
    <2>1. CoreField \subseteq DOMAIN e' /\ \E r, ev : Good(r) /\ After(e', Access(a, ev), r)
      BY <1>1, <1>3, ClockGood
    <2>2. PICK r, ev : Good(r) /\ After(e', Access(a, ev), r)
      BY <2>1
    <2>3. CASE Kind(a) \in {"Other", "Flush"}
      <3>1. Calm(a)
        BY <1>3, <2>3, AccessIs DEF Calm
      <3>2. Good(e')
        BY <2>2, <3>1, CalmGood
      <3>3. DriverInv' /\ Rises
        BY <2>3, <3>2, PlainStep, FlushStep DEF Good, Eff
      <3> QED BY <1>1, <2>1, <3>2, <3>3 DEF IInv, Base, Good, CoreInv
    <2>4. CASE Kind(a) \in Known
      <3>1. CoreInv(e') /\ DriverInv' /\ Rises
        BY <2>2, <2>4, ReadStep, SelectStep, FlushFifoStep, TiStep, NextStep, ResetStep DEF Known
      <3> QED BY <1>1, <2>1, <3>1 DEF IInv, Base
    <2> QED BY <2>3, <2>4, PopMarks
  <1> QED BY <1>2, <1>3

(* The driver without an access: the registers of the controller stay good. *)
LEMMA NoneGood ==
  ASSUME IInv, NEW expired, NEW m_ack \in BOOLEAN, NEW w,
         EspClock(NoAccess, expired, sd_ack, strobe, m_ack, w)
  PROVE  CoreField \subseteq DOMAIN e' /\ Good(e')
  <1>1. Kind(NoAccess) = "Other"
    BY KindIs
  <1>2. Calm(NoAccess)
    BY <1>1, AccessIs
  <1>3. ~flush_write(NoAccess)
    BY <1>2 DEF Calm, flush_write
  <1>4. CoreField \subseteq DOMAIN e' /\ \E r, ev : Good(r) /\ After(e', Access(NoAccess, ev), r)
    BY <1>3, ClockGood DEF IInv
  <1> QED BY <1>2, <1>4, CalmGood

-----------------------------------------------------------------------------
(* The driver's handlers. *)

(* A handler runs when nothing is left to be written.                      *)
Handles == IInv /\ todo = <<>> /\ Good(e')

(* Nothing of the controller is lost meanwhile.                            *)
LEMMA HandlesFrom ==
  ASSUME Handles
  PROVE  /\ Marks(todo) = {} /\ ~e'.cmd_waiting /\ Kept(e') /\ Eff(e') /\ Rises
         /\ ~e.cmd_inprogress => ~e'.cmd_inprogress /\ (e'.int => e.int)
         /\ FlushOk => FlushOk'
  <1>1. Kinds(todo) = {} /\ Marks(todo) = {}
    BY ShortList DEF Handles, List, Marks
  <1>2. ~e.cmd_waiting
    BY <1>1 DEF Handles, IInv, DriverInv
  <1>3. Kept(e') /\ Eff(e') /\ Hyp
    BY DEF Handles, Good, Eff, IInv, Base, CoreInv, Hyp
  <1>4. ~e'.cmd_waiting
    BY <1>2, <1>3 DEF Kept
  <1> QED BY <1>1, <1>3, <1>4, KeptReady DEF Rises, FlushOk

(* A list of commands without flushes.                                     *)
LEMMA Handled ==
  ASSUME NEW M, Todo(todo', M), ~e'.cmd_waiting, pc' = "check" => step' = "transfer", Progress'
  PROVE  IsList(todo') /\ DriverInv'
  BY DEF Todo, DriverInv

(* After a bus exception the driver resets.                                *)
LEMMA FailedStep ==
  ASSUME Resrept, Handles, Finish("failed", Reset)
  PROVE  IsList(todo') /\ DriverInv'
  <1>1. Todo(todo', {"Reset"})
    BY ResetList DEF Finish, Go
  <1>2. Marks(todo') = {"Reset"}
    BY <1>1 DEF Todo
  <1>3. Progress'
    BY <1>2 DEF Finish, Go, Progress, DoneInv
  <1>4. pc' = "check" => step' = "transfer"
    BY DEF Finish, Go
  <1> QED BY <1>1, <1>3, <1>4, HandlesFrom, Handled

(* The transfer goes on.                                                   *)
LEMMA TransferStep ==
  ASSUME Handles, step = "transfer", step' = "transfer", Todo(todo', {})
  PROVE  IsList(todo') /\ DriverInv'
  <1>1. TransferInv({})
    BY HandlesFrom DEF Handles, IInv, DriverInv, Progress
  <1>2. e.cmd_inprogress /\ e.command0 = "TI"
    BY <1>1 DEF TransferInv
  <1>3. e'.cmd_inprogress /\ e'.command0 = "TI"
    BY <1>2, HandlesFrom DEF Kept, Silent
  <1>4. Marks(todo') = {}
    BY DEF Todo
  <1>5. Progress'
    BY <1>3, <1>4 DEF Progress, TransferInv
  <1> QED BY <1>5, HandlesFrom, Handled

(* The handler of the DMA interrupt.                                       *)
LEMMA RestartStep ==
  ASSUME Handles, step = "transfer", NEW k, RestartAfter(k)
  PROVE  IsList(todo') /\ DriverInv'
  <1>1. Todo(<<Csr({"RESET"})>>, {})
    <2>1. {"Other"} \ {"Other"} = {} /\ Kind(Csr({"RESET"})) = "Other"
      BY KindIs
    <2> QED BY <2>1, TodoOne
  <1>2. Todo(todo', {}) /\ step' = "transfer"
    BY <1>1, ProgramList DEF RestartAfter, Go
  <1> QED BY <1>2, TransferStep

(* The first half of the DMA handler.                                      *)
LEMMA ReadCsrStep ==
  ASSUME Resrept, Handles, step = "transfer", ReadCsr
  PROVE  IsList(todo') /\ DriverInv'
  <1>1. CASE e.d_exc
    BY <1>1, FailedStep DEF ReadCsr
  <1>2. CASE ~e.d_exc /\ ~e.d_en
    BY <1>2, RestartStep DEF ReadCsr
  <1>3. CASE ~e.d_exc /\ e.d_en
    <2> DEFINE u == <<Write("d_start", req.win[queued + 1]), Write("d_stop", req.win[queued + 2]),
                      Csr({"SETSUPDATE", "CLRCOMPLETE"} \cup Direction(req))>>
               v == <<Csr({"CLRCOMPLETE"} \cup Direction(req))>>
    <2>1. /\ todo' = IF queued < NWin(req) THEN u ELSE v
          /\ step' = "transfer"
      BY <1>3 DEF ReadCsr, Go
    <2>2. /\ Kind(Write("d_start", req.win[queued + 1])) = "Other"
          /\ Kind(Write("d_stop", req.win[queued + 2])) = "Other"
          /\ \A c : Kind(Csr(c)) = "Other"
      BY KindIs DEF Plain
    <2>3. Todo(u, {})
      BY <2>2, TodoThree
    <2>4. Todo(v, {})
      <3>1. {"Other"} \ {"Other"} = {}
        OBVIOUS
      <3> QED BY <2>2, <3>1, TodoOne
    <2> HIDE DEF u, v
    <2> QED BY <2>1, <2>3, <2>4, TransferStep
  <1> QED BY <1>1, <1>2, <1>3

(* The second half of the DMA handler.                                     *)
LEMMA CheckCsrStep ==
  ASSUME Resrept, Handles, step = "transfer", CheckCsr
  PROVE  IsList(todo') /\ DriverInv'
  <1>1. CASE e.d_exc
    BY <1>1, FailedStep DEF CheckCsr
  <1>2. CASE ~e.d_exc /\ e.d_cmp /\ ~e.d_en
    BY <1>2, RestartStep DEF CheckCsr
  <1>3. CASE ~e.d_exc /\ ~(e.d_cmp /\ ~e.d_en)
    <2>1. todo' = <<>> /\ step' = "transfer"
      BY <1>3 DEF CheckCsr, Go
    <2>2. Todo(<<>>, {})
      BY ShortList DEF Todo, List, Marks
    <2> QED BY <2>1, <2>2, TransferStep
  <1> QED BY <1>1, <1>2, <1>3
(* The handler of the controller's interrupt.                              *)
LEMMA OneRead == Todo(<<ReadInt>>, {"Read"})
  <1>1. Kind(ReadInt) = "Read" /\ "Read" \in Known /\ {"Read"} \ {"Other"} = {"Read"}
    BY KindIs DEF Known
  <1> QED BY <1>1, TodoOne

(* A target has answered, or none has.                                     *)
LEMMA SelectedStep ==
  ASSUME Handles, step = "select", e.int, Selected
  PROVE  IsList(todo') /\ DriverInv'
  <1>1. SelectInv({})
    BY HandlesFrom DEF Handles, IInv, DriverInv, Progress
  <1>2. e.cmd_inprogress /\ Silent(e)
    BY <1>1 DEF SelectInv, Resetting
  <1>3. e.xst = "X_IDLE"
    <2>1. EngineInv(e)
      BY DEF Handles, IInv, Base, CoreInv
    <2>2. Quiet(e) /\ e.xst \notin XferState
      BY <1>2, <2>1 DEF EngineInv, Owned, Transferring
    <2> QED BY <2>2 DEF Quiet, RestState, XferState
  <1>4. e'.cmd_inprogress /\ Silent(e') /\ e'.int /\ e'.xst = "X_IDLE" /\ e'.phase = e.phase
    BY <1>2, <1>3, HandlesFrom DEF Kept, Eff
  <1>5. CASE "DC" \in e.intstatus
    <2>1. Finish("absent", <<ReadInt, Command("FLUSH FIFO")>>)
      BY <1>5 DEF Selected
    <2>2. step' = "done" /\ pc' = "wait" /\ Todo(todo', Clearing) /\ result' = "absent"
      BY <2>1, ClearList DEF Finish, Go
    <2>3. Progress'
      BY <1>4, <2>2 DEF Progress, DoneInv, Todo, Clearing
    <2> QED BY <2>2, <2>3, HandlesFrom, Handled
  <1>6. CASE "DC" \notin e.intstatus /\ e.phase \in {"DI", "DO"}
    <2>1. /\ step' = "transfer" /\ pc' = "wait"
          /\ todo' = <<ReadInt>> \o Program(req, 1, TRUE) \o Transfer(req)
      BY <1>6 DEF Selected, Go
    <2>2. Todo(<<ReadInt>> \o Program(req, 1, TRUE), {"Read"} \cup {})
      BY OneRead, ProgramList, TodoCat
    <2>3. {"Read"} \cup {} = {"Read"} /\ {"Read"} \cup {"TI"} = {"Read", "TI"}
      OBVIOUS
    <2>4. {"TI"} \subseteq Later("Read")
      BY DEF Later
    <2>5. Todo(todo', {"Read", "TI"})
      <3> DEFINE g == <<ReadInt>> \o Program(req, 1, TRUE)
                 t == Transfer(req)
      <3>1. Todo(g, {"Read"}) /\ Todo(t, {"TI"}) /\ todo' = g \o t
        BY <2>1, <2>2, <2>3, TransferList
      <3> HIDE DEF g, t
      <3>2. Todo(g \o t, {"Read"} \cup {"TI"})
        BY <2>4, <3>1, TodoCat
      <3> QED BY <2>3, <3>1, <3>2
    <2>6. Marks(todo') = {"Read", "TI"} /\ {"Read", "TI"} # {} /\ {"Read", "TI"} # {"TI"}
      BY <2>5 DEF Todo
    <2>7. Progress'
      BY <1>4, <1>6, <2>1, <2>6 DEF Progress, TransferInv
    <2> QED BY <2>1, <2>5, <2>7, HandlesFrom, Handled
  <1>7. CASE "DC" \notin e.intstatus /\ e.phase \notin {"DI", "DO"}
    <2>1. PICK c \in ReadThen("ICCS") : Give("status", c)
      BY <1>7 DEF Selected
    <2>2. step' = "status" /\ pc' = "wait" /\ Todo(todo', {"Read", "ICCS"})
      BY <2>1, ReadThenList DEF Give, Go
    <2>3. Progress'
      BY <1>4, <2>2 DEF Progress, CommandInv, Todo
    <2> QED BY <2>2, <2>3, HandlesFrom, Handled
  <1> QED BY <1>5, <1>6, <1>7

(* A transfer is over.                                                     *)
LEMMA TransferredStep ==
  ASSUME ScsiAssumption, Handles, step \in {"transfer", "pumped"}, e.int, NEW pumped,
         Transferred(pumped)
  PROVE  IsList(todo') /\ DriverInv'
  <1>1. e.cmd_inprogress /\ e.command0 = "TI"
    BY HandlesFrom DEF Handles, IInv, DriverInv, Progress, TransferInv, PumpedInv, FlushOk
  <1>2. FlushOk
    BY <1>1 DEF Handles, IInv, Base, CoreInv, EngineInv, Transferring, InTransfer, FlushOk
  <1>3. e'.cmd_inprogress /\ e'.int /\ FlushOk'
    BY <1>1, <1>2, HandlesFrom DEF Kept
  <1> DEFINE f == IF pumped THEN <<>> ELSE Flushes(req)
             m == <<Control(FALSE, FALSE)>>
  <1>4. PICK c \in ReadThen("ICCS") : Give("status", f \o m \o c)
    BY DEF Transferred
  <1>5. IsList(f) /\ Kinds(f) \subseteq {"Flush"}
    BY ShortList, FlushList DEF List
  <1>6. List(m, {"Other"})
    <2>1. Kind(Control(FALSE, FALSE)) = "Other"
      BY KindIs
    <2> QED BY <2>1, ShortList
  <1>7. step' = "status" /\ pc' = "wait" /\ todo' = f \o m \o c
    BY <1>4 DEF Give, Go
  <1> HIDE DEF f, m
  <1>8. IsList(f \o m) /\ Kinds(f \o m) \subseteq {"Flush", "Other"}
    <2>1. IsList(m) /\ Kinds(m) = {"Other"}
      BY <1>6 DEF List
    <2>2. IsList(f \o m) /\ Kinds(f \o m) = Kinds(f) \cup Kinds(m)
      BY <1>5, <2>1, CatList
    <2> QED BY <1>5, <2>1, <2>2
  <1>9. Todo(c, {"Read", "ICCS"})
    BY <1>4, ReadThenList
  <1>10. IsList(todo') /\ Ordered(todo') /\ Marks(todo') = {"Read", "ICCS"}
    BY <1>7, <1>8, <1>9, FlushCat
  <1>11. Progress'
    BY <1>3, <1>7, <1>10 DEF Progress, CommandInv
  <1> QED BY <1>3, <1>7, <1>10, <1>11, HandlesFrom DEF DriverInv

(* The driver has seen the terminal count.                                 *)
LEMMA PolledStep ==
  ASSUME ScsiAssumption, Handles, Polled
  PROVE  IsList(todo') /\ DriverInv'
  <1>1. step = "transfer" /\ e.tc /\ step' = "pumped" /\ pc' = "wait" /\ todo' = Flushes(req)
    BY DEF Polled, Give, Go
  <1>2. TransferInv({})
    BY <1>1, HandlesFrom DEF Handles, IInv, DriverInv, Progress
  <1>3. e.cmd_inprogress /\ FlushOk
    BY <1>1, <1>2 DEF TransferInv, FlushOk
  <1>4. e'.cmd_inprogress /\ FlushOk'
    BY <1>3, HandlesFrom DEF Kept
  <1>5. IsList(todo') /\ Kinds(todo') \subseteq {"Flush"}
    BY <1>1, FlushList
  <1>6. Ordered(todo') /\ Marks(todo') = {}
    BY <1>5, LaterKnown DEF Ordered, Kinds, Marks
  <1>7. Progress'
    BY <1>1, <1>4, <1>6 DEF Progress, PumpedInv
  <1> QED BY <1>1, <1>4, <1>5, <1>6, <1>7, HandlesFrom DEF DriverInv

(* The status has come.                                                    *)
LEMMA CompletedStep ==
  ASSUME Handles, step = "status", e.int, Completed
  PROVE  IsList(todo') /\ DriverInv'
  <1>1. CommandInv({}, "ICCS")
    BY HandlesFrom DEF Handles, IInv, DriverInv, Progress
  <1>2. e'.cmd_inprogress /\ e'.int
    BY <1>1, HandlesFrom DEF CommandInv, Kept
  <1>3. PICK c \in ReadThen("MSGACC") : Give("accept", <<Pop, Pop>> \o c)
    BY DEF Completed
  <1>4. Todo(<<Pop, Pop>>, {})
    <2>1. /\ Kind(Pop) = "Other" /\ {"Other", "Other"} \ {"Other"} = {}
          /\ "Other" \in Later("Other")
      BY KindIs, LaterKnown
    <2> QED BY <2>1, TodoTwo
  <1>5. step' = "accept" /\ pc' = "wait" /\ todo' = <<Pop, Pop>> \o c
    BY <1>3 DEF Give, Go
  <1>6. Todo(c, {"Read", "MSGACC"}) /\ {} \cup {"Read", "MSGACC"} = {"Read", "MSGACC"}
    BY <1>3, ReadThenList
  <1>7. Todo(todo', {"Read", "MSGACC"})
    BY <1>4, <1>5, <1>6, TodoCat
  <1>8. Progress'
    <2>1. Marks(todo') = {"Read", "MSGACC"} /\ {"Read", "MSGACC"} # {}
          /\ {"Read", "MSGACC"} # {"MSGACC"}
      BY <1>7 DEF Todo
    <2>2. CommandInv(Marks(todo), "MSGACC")'
      BY <1>2, <2>1 DEF CommandInv
    <2> QED BY <1>5, <2>2 DEF Progress
  <1> QED BY <1>5, <1>7, <1>8, HandlesFrom, Handled

(* The message is accepted.                                                *)
LEMMA AcceptedStep ==
  ASSUME Handles, step = "accept", e.int, NEW res, Finish(res, <<ReadInt>>)
  PROVE  IsList(todo') /\ DriverInv'
  <1>1. CommandInv({}, "MSGACC")
    BY HandlesFrom DEF Handles, IInv, DriverInv, Progress
  <1>2. e'.cmd_inprogress /\ e'.int /\ Silent(e')
    BY <1>1, HandlesFrom DEF CommandInv, Kept
  <1>3. step' = "done" /\ pc' = "wait" /\ Todo(todo', {"Read"})
    BY OneRead DEF Finish, Go
  <1>4. Progress'
    BY <1>2, <1>3 DEF Progress, DoneInv, Todo
  <1> QED BY <1>3, <1>4, HandlesFrom, Handled

(* Every handler keeps the progress of the driver.                         *)
LEMMA HandleStep ==
  ASSUME ScsiAssumption, Resrept, Handles, Handle
  PROVE  IsList(todo') /\ DriverInv'
  <1>1. CASE pc = "check" /\ CheckCsr
    BY <1>1, CheckCsrStep DEF Handles, IInv, DriverInv
  <1>2. CASE DmaPending /\ ReadCsr
    BY <1>2, ReadCsrStep DEF DmaPending
  <1>3. CASE e.int /\ EspInterrupt
    <2>1. step # "reset"
      BY DEF Handles, IInv, DriverInv, Progress
    <2>2. CASE step = "select" /\ Selected
      BY <1>3, <2>2, SelectedStep
    <2>3. CASE step \in {"transfer", "pumped"} /\ \E p : Transferred(p)
      BY <1>3, <2>3, TransferredStep
    <2>4. CASE step = "status" /\ Completed
      BY <1>3, <2>4, CompletedStep
    <2>5. CASE step = "accept" /\ \E res : Finish(res, <<ReadInt>>)
      BY <1>3, <2>5, AcceptedStep
    <2> QED BY <1>3, <2>1, <2>2, <2>3, <2>4, <2>5 DEF EspInterrupt
  <1>4. CASE Polled
    BY <1>4, PolledStep
  <1>5. CASE step = "pumped" /\ Finish("failed", Reset)
    BY <1>5, FailedStep
  <1> QED BY <1>1, <1>2, <1>3, <1>4, <1>5 DEF Handle
-----------------------------------------------------------------------------
(* The configuration. *)

(* Assignments that leave CFG1_RESREPT alone.                              *)
Keeps(p) == "resrept" \notin DOMAIN p

(* Assignments one after the other.                                        *)
LEMMA KeepsOver == \A f, g : Keeps(f) /\ Keeps(g) => Keeps(f ++ g)
  BY ValOver DEF Keeps

(* They leave it alone.                                                    *)
LEMMA KeepsIs ==
  ASSUME NEW y, NEW p, NEW s, After(y, p, s), Keeps(p)
  PROVE  y.resrept = s.resrept
  BY DEF After, Keeps, Val, CoreField

(* Of the commands only RESET does not.                                    *)
LEMMA StartConfig ==
  ASSUME NEW c, \/ c \in {"SELECT ATN", "FLUSH FIFO", "ICCS", "MSGACC", "BUS RESET"}
                \/ c = "TI" /\ e.phase \in {"DI", "DO"}
  PROVE  Keeps(start_command(c))
  <1> DEFINE k == [command0 |-> c, cmd_inprogress |-> TRUE, dma_irq_resume |-> 0,
                   mode_dma |-> c = "TI"]
             t == IF c = "TI"
                  THEN [counter |-> IF e.wr_tc = 0 THEN CounterTop ELSE e.wr_tc, tc |-> FALSE]
                  ELSE <<>>
  <1>1. Keeps(<<>>) /\ Keeps(k) /\ Keeps(t)
    BY NoAssignment DEF Keeps
  <1>2. Keeps(no_bus) /\ Keeps(no_flush) /\ \A i : Keeps(esp_irq(i))
    BY DEF Keeps, no_bus, no_flush, esp_irq
  <1>3. Keeps(no_bus ++ no_flush)
    BY <1>2, KeepsOver
  <1> HIDE DEF k, t
  <1>4. ASSUME NEW b, Keeps(b), start_command(c) = b ++ k ++ t
        PROVE  Keeps(start_command(c))
    BY <1>1, <1>4, KeepsOver
  <1> USE DEF k, t
  <1>5. CASE c = "ICCS"
    <2> DEFINE b == [xst |-> "X_ICCS1"]
    <2>1. start_command(c) = b ++ k ++ t /\ Keeps(b)
      BY <1>5 DEF start_command, Keeps
    <2> QED BY <1>4, <2>1
  <1>6. CASE c = "FLUSH FIFO"
    <2> DEFINE b == [cmd_inprogress |-> FALSE, fifo |-> <<>>]
    <2>1. start_command(c) = b ++ k ++ t /\ Keeps(b)
      BY <1>6 DEF start_command, Keeps
    <2> QED BY <1>4, <2>1
  <1>7. CASE c = "MSGACC"
    <2>1. Keeps([cmd_busy |-> FALSE, mi_held |-> FALSE, phase |-> "DO",
                 dma_flush_return |-> "X_IDLE"])
      BY DEF Keeps
    <2>2. Keeps(esp_disconnect_reset)
      BY <1>2, <1>3, <2>1, KeepsOver DEF esp_disconnect_reset
    <2>3. start_command(c) = esp_disconnect_reset ++ k ++ t
      BY <1>7 DEF start_command
    <2> QED BY <1>4, <2>2, <2>3
  <1>8. CASE c = "SELECT ATN"
    <2>1. /\ Keeps([mi_held |-> FALSE])
          /\ Keeps([cmd_busy |-> TRUE, t_unit |-> e.selectbusid, xst |-> "X_SEL_MSG"])
          /\ Keeps([command0 |-> "none", command1 |-> "none", cmd_waiting |-> FALSE,
                    cmd_busy |-> FALSE, phase |-> "ST"])
      BY DEF Keeps
    <2>2. Keeps(start_select)
      BY <1>2, <1>3, <2>1, KeepsOver DEF start_select
    <2>3. start_command(c) = start_select ++ k ++ t
      BY <1>8 DEF start_command
    <2> QED BY <1>4, <2>2, <2>3
  <1>9. CASE c = "BUS RESET"
    <2>1. /\ Keeps([cmd_busy |-> FALSE, mi_held |-> FALSE, mode_dma |-> FALSE, counter |-> 0,
                    command0 |-> "none", command1 |-> "none", cmd_waiting |-> FALSE])
          /\ Keeps([cmd_inprogress |-> FALSE, xst |-> "X_IDLE"]) /\ Keeps([phase |-> "DO"])
      BY DEF Keeps
    <2>2. Keeps(start_bus_reset)
      BY <1>2, <1>3, <2>1, KeepsOver DEF start_bus_reset
    <2>3. start_command(c) = start_bus_reset ++ k ++ t
      BY <1>9 DEF start_command
    <2> QED BY <1>4, <2>2, <2>3
  <1>10. CASE c = "TI" /\ e.phase \in {"DI", "DO"}
    <2>1. Keeps([transfer_reported |-> FALSE, gap |-> TRUE]) /\ \A x : Keeps([xst |-> x])
      BY DEF Keeps
    <2>2. Keeps(start_ti)
      BY <1>2, <1>10, <2>1, KeepsOver DEF start_ti
    <2>3. start_command(c) = start_ti ++ k ++ t
      BY <1>10 DEF start_command
    <2> QED BY <1>4, <2>2, <2>3
  <1> QED BY <1>5, <1>6, <1>7, <1>8, <1>9, <1>10

(* A list is a sequence of its elements, and begins with its first.        *)
LEMMA SeqOfRange ==
  ASSUME NEW s, IsList(s)
  PROVE  s \in Seq({s[i] : i \in DOMAIN s})
  <1>1. PICK S : s \in Seq(S)
    BY DEF IsList
  <1>2. Len(s) \in Nat /\ s = [i \in 1 .. Len(s) |-> s[i]] /\ DOMAIN s = 1 .. Len(s)
    BY <1>1
  <1> QED BY <1>2

(* The first of a list.                                                    *)
LEMMA HeadCat ==
  ASSUME NEW a, NEW S, NEW s \in Seq(S)
  PROVE  1 \in DOMAIN (<<a>> \o s) /\ (<<a>> \o s)[1] = a
  OBVIOUS

(* An access of the driver's list.                                         *)
LEMMA ConfigWork ==
  ASSUME EspAssumption, Resrept, IInv, ConfigInv, NEW a, Popped(a), NEW expired,
         NEW m_ack \in BOOLEAN, NEW w, EspClock(a, expired, sd_ack, strobe, m_ack, w)
  PROVE  ConfigInv'
  <1>1. IsList(todo) /\ todo # <<>> /\ a = Head(todo) /\ todo' = Tail(todo)
    BY DEF IInv, Popped
  <1>2. /\ e.resrept /\ Kind(a) # "Reset" => e'.resrept
        /\ a.op = "resrept" => e'.resrept
    <2>1. CASE flush_write(a)
      <3>1. a.op = "ctl" /\ a.flush
        BY <2>1 DEF flush_write
      <3>2. Kind(a) = "Flush"
        BY <3>1 DEF Kind
      <3>3. FlushOk
        BY <3>2, PopMarks DEF IInv, DriverInv
      <3> QED BY <2>1, <3>1, <3>3, ClockFlush DEF IInv, Kept
    <2>2. CASE ~flush_write(a)
      <3>1. PICK r, ev : Good(r) /\ After(e', Access(a, ev), r)
        BY <2>2, ClockGood DEF IInv
      <3>2. CASE Kind(a) \in {"Other", "Flush"}
        <4>1. Calm(a)
          BY <2>2, <3>2, AccessIs DEF Calm
        <4>2. e.resrept => e'.resrept
          BY <3>1, <4>1, CalmGood DEF Good, Eff, Kept
        <4>3. ASSUME a.op = "resrept"
              PROVE  e'.resrept
          <5>1. Access(a, ev) = [f \in {"resrept"} |-> a.v]
            BY <4>3 DEF Access
          <5>2. a.v
            BY <4>1, <4>3 DEF Calm
          <5>3. e'.resrept = a.v
            BY <3>1, <5>1 DEF After, Val, CoreField
          <5> QED BY <5>2, <5>3
        <4> QED BY <4>2, <4>3
      <3>3. CASE Kind(a) = "Read"
        <4>1. a.op = "intstatus" /\ Access(a, ev) = read_intstatus
          BY <3>3, AccessIs, AccessDoes
        <4>2. e.cmd_waiting /\ e.int => e.command1 \in {"ICCS", "MSGACC"}
          BY DEF IInv, DriverInv, Progress, CommandInv
        <4>3. /\ Keeps([command1 |-> "none", cmd_waiting |-> FALSE])
              /\ Keeps([cmd_inprogress |-> FALSE])
              /\ Keeps([intstatus |-> {}, int |-> FALSE, ge |-> FALSE, tc |-> e.tc])
              /\ Keeps(<<>>)
          BY NoAssignment DEF Keeps
        <4>4. Keeps(read_intstatus)
          <5>1. CASE e.int /\ e.cmd_waiting
            <6>1. Keeps(start_command(e.command1))
              BY <4>2, <5>1, StartConfig
            <6> QED BY <4>3, <5>1, <6>1, KeepsOver DEF read_intstatus
          <5>2. CASE ~e.int
            BY <4>3, <5>2 DEF read_intstatus
          <5>3. CASE e.int /\ ~e.cmd_waiting
            BY <4>3, <5>3, KeepsOver DEF read_intstatus
          <5> QED BY <5>1, <5>2, <5>3
        <4> QED BY <3>1, <4>1, <4>4, KeepsIs DEF Good, Eff, Kept
      <3>4. CASE Kind(a) \in Known \ {"Read", "Reset"}
        <4>1. a.op = "cmd" /\ CommandKind(a.c) = Kind(a)
          BY <3>4, AccessIs
        <4>2. a.c \in {"SELECT ATN", "FLUSH FIFO", "ICCS", "MSGACC", "TI"}
              /\ (a.c = "TI" => Kind(a) = "TI")
          BY <3>4, <4>1, CommandKindIs, CommandIs DEF Known
        <4>3. a.c = "TI" => e.phase \in {"DI", "DO"}
          <5>1. a.c = "TI" => "TI" \in Marks(todo)
            BY <4>2, PopMarks
          <5> QED BY <5>1 DEF IInv, DriverInv, Progress, SelectInv, Resetting, TransferInv,
                              PumpedInv, CommandInv, DoneInv, Clearing
        <4>4. Keeps(start_command(a.c))
          BY <4>2, <4>3, StartConfig
        <4>5. Keeps(write_command(a.c))
          <5>1. /\ Keeps([command1 |-> "none", cmd_waiting |-> FALSE])
                /\ Keeps([command1 |-> a.c, cmd_waiting |-> TRUE])
                /\ Keeps([ge |-> TRUE]) /\ Keeps(<<>>)
            BY NoAssignment DEF Keeps
          <5> QED BY <4>4, <5>1, KeepsOver DEF write_command
        <4>6. Access(a, ev) = write_command(a.c)
          BY <4>1, AccessDoes
        <4> QED BY <3>1, <4>1, <4>5, <4>6, KeepsIs DEF Good, Eff, Kept
      <3>5. CASE Kind(a) = "Reset"
        BY <3>5, AccessIs DEF Known
      <3> QED BY <3>2, <3>3, <3>4, <3>5, PopMarks
    <2> QED BY <2>1, <2>2
  <1>3. \A i \in DOMAIN todo : i = 1 \/ (i - 1 \in DOMAIN todo' /\ todo'[i - 1] = todo[i])
    <2>1. PICK S : todo \in Seq(S)
      BY <1>1 DEF IsList
    <2> QED BY <1>1, <2>1
  <1>4. a = todo[1]
    BY <1>1 DEF IsList
  <1>5. CASE Kind(a) = "Reset"
    <2>1. "Reset" \in Marks(todo) /\ "Reset" \notin Marks(todo')
      BY <1>5, PopMarks
    <2>2. todo = Reset
      BY <2>1 DEF ConfigInv, Marks
    <2>3. 1 \in DOMAIN todo' /\ todo'[1] = Configure
      BY <1>1, <2>2 DEF Reset
    <2> QED BY <2>1, <2>3, ConfigureIs DEF ConfigInv, Configures, Marks
  <1>6. CASE Kind(a) # "Reset"
    <2>1. e'.resrept \/ Configures(todo')
      BY <1>2, <1>3, <1>4, <1>6 DEF ConfigInv, Configures
    <2>2. "Reset" \notin Kinds(todo')
      <3>1. SUFFICES ASSUME "Reset" \in Kinds(todo')
                     PROVE  FALSE
        OBVIOUS
      <3>2. "Reset" \in Marks(todo') /\ Marks(todo') \subseteq Marks(todo)
        BY <3>1, PopMarks DEF Marks
      <3>3. todo = Reset
        BY <3>2 DEF ConfigInv, Marks
      <3>4. a = Command("RESET")
        BY <1>4, <3>3 DEF Reset
      <3> QED BY <1>6, <3>4, CommandIs
    <2> QED BY <2>1, <2>2 DEF ConfigInv
  <1> QED BY <1>5, <1>6

(* RESET is a mark, and the end of a request that failed.                  *)
LEMMA ResetMark ==
  ASSUME NEW s
  PROVE  "Reset" \in Kinds(s) <=> "Reset" \in Marks(s)
  BY DEF Marks

(* The driver resets when a request has failed.                            *)
LEMMA ResetsLast ==
  ASSUME DriverInv', "Reset" \in Marks(todo')
  PROVE  step' = "done"
  <1> DEFINE M == Marks(todo')
  <1>1. \/ step' = "done"
        \/ M \in {Resetting, {"FlushFifo", "Select"}, {"Select"}, {}}
        \/ M \in {{"Read", "TI"}, {"TI"}, {}}
        \/ \E c \in {"ICCS", "MSGACC"} : M \in {{"Read", c}, {"Read"}, {c}, {}}
    BY DEF DriverInv, Progress, SelectInv, TransferInv, PumpedInv, CommandInv
  <1>2. "Reset" \in M
    OBVIOUS
  <1> HIDE DEF M
  <1> QED BY <1>1, <1>2 DEF Resetting

(* The handlers that end a request.                                        *)
LEMMA EndLists ==
  ASSUME Handle, step' = "done"
  PROVE  todo' \in {Reset, <<ReadInt, Command("FLUSH FIFO")>>, <<ReadInt>>}
  <1>1. CASE CheckCsr \/ ReadCsr
    BY <1>1 DEF CheckCsr, ReadCsr, RestartAfter, Finish, Go
  <1>2. CASE EspInterrupt
    BY <1>2 DEF EspInterrupt, Selected, Transferred, Completed, Finish, Give, Go
  <1>3. CASE Polled \/ Finish("failed", Reset)
    BY <1>3 DEF Polled, Give, Finish, Go
  <1> QED BY <1>1, <1>2, <1>3 DEF Handle

(* A step of the driver in which it writes nothing.                        *)
LEMMA ConfigIdle ==
  ASSUME ScsiAssumption, Resrept, IInv, ConfigInv, sd_ack' \in BOOLEAN, NEW expired,
         NEW m_ack \in BOOLEAN, NEW w, EspClock(NoAccess, expired, sd_ack, strobe, m_ack, w),
         (todo = <<>> /\ Handle) \/ NextRequest(NoAccess) \/ Pause(NoAccess)
  PROVE  ConfigInv'
  <1>1. e.resrept => e'.resrept
    BY NoneGood DEF Good, Eff, Kept
  <1>2. todo = <<>> => e.resrept
    BY NoAssignment DEF ConfigInv, Configures
  <1>3. CASE todo = <<>> /\ Handle
    <2>1. IsList(todo') /\ DriverInv'
      BY <1>3, NoneGood, HandleStep DEF Handles
    <2>2. SUFFICES ASSUME "Reset" \in Kinds(todo')
                   PROVE  todo' = Reset
      BY <1>1, <1>2, <1>3 DEF ConfigInv
    <2>3. "Reset" \in Marks(todo')
      BY <2>2, ResetMark
    <2>4. step' = "done"
      BY <2>1, <2>3, ResetsLast
    <2>5. "Reset" \notin Clearing /\ "Reset" \notin {"Read"}
      BY DEF Clearing
    <2>6. todo' # <<ReadInt, Command("FLUSH FIFO")>> /\ todo' # <<ReadInt>>
      BY <2>3, <2>5, ClearList, OneRead DEF Todo
    <2> QED BY <1>3, <2>4, <2>6, EndLists
  <1>4. CASE NextRequest(NoAccess)
    <2>1. PICK q : todo = <<>> /\ todo' = Select(q)
      BY <1>4 DEF NextRequest, Go
    <2>2. "Reset" \notin Kinds(todo')
      BY <2>1, SelectList, ResetMark DEF Todo
    <2> QED BY <1>1, <1>2, <2>1, <2>2 DEF ConfigInv
  <1>5. CASE Pause(NoAccess)
    BY <1>1, <1>5 DEF Pause, driverVars, ConfigInv
  <1> QED BY <1>3, <1>4, <1>5

-----------------------------------------------------------------------------
(* The theorems. *)

(* A step of the driver in which it writes nothing.                        *)
LEMMA IdleStep ==
  ASSUME ScsiAssumption, Resrept, IInv, sd_ack' \in BOOLEAN, NEW expired, NEW m_ack \in BOOLEAN, NEW w,
         EspClock(NoAccess, expired, sd_ack, strobe, m_ack, w),
         (todo = <<>> /\ Handle) \/ NextRequest(NoAccess) \/ Pause(NoAccess)
  PROVE  IInv' /\ Rises
  <1>1. CoreField \subseteq DOMAIN e' /\ Good(e')
    BY NoneGood
  <1>2. Base'
    BY <1>1 DEF Base, Good, CoreInv
  <1>3. CASE todo = <<>> /\ Handle
    <2>1. Handles
      BY <1>1, <1>3 DEF Handles
    <2> QED BY <1>2, <1>3, <2>1, HandleStep, HandlesFrom DEF IInv
  <1>4. CASE NextRequest(NoAccess)
    <2>1. Handles /\ step = "done" /\ result # "failed"
      BY <1>1, <1>4 DEF NextRequest, Handles
    <2>2. PICK q : todo' = Select(q) /\ step' = "select" /\ pc' = "wait"
      BY <1>4 DEF NextRequest, Go
    <2>3. Todo(todo', {"Select"}) /\ Marks(todo') = {"Select"}
      BY <2>2, SelectList DEF Todo
    <2>4. DoneInv({})
      BY <2>1, HandlesFrom DEF Handles, IInv, DriverInv, Progress
    <2>5. ~e'.cmd_inprogress /\ ~e'.int /\ Silent(e')
      BY <2>1, <2>4, HandlesFrom DEF DoneInv, Ready, Kept
    <2>6. Progress'
      BY <2>2, <2>3, <2>5 DEF Progress, SelectInv
    <2>7. IsList(todo') /\ DriverInv'
      BY <2>1, <2>2, <2>3, <2>6, HandlesFrom, Handled
    <2> QED BY <1>2, <2>1, <2>7, HandlesFrom DEF IInv
  <1>5. CASE Pause(NoAccess)
    <2>1. todo' = todo /\ step' = step /\ pc' = pc /\ result' = result
      BY <1>5 DEF Pause, driverVars
    <2>2. Kept(e') /\ Eff(e') /\ Marks(todo') = Marks(todo) /\ Ordered(todo') /\ IsList(todo')
      BY <1>1, <2>1 DEF Good, Eff, IInv, DriverInv
    <2>3. DriverInv' /\ Rises
      BY <2>1, <2>2, KeepStep
    <2> QED BY <1>2, <2>2, <2>3 DEF IInv
  <1> QED BY <1>3, <1>4, <1>5

(* The driver gives up.                                                    *)
LEMMA GiveUpStep ==
  ASSUME ScsiAssumption, Resrept, IInv, ConfigInv, sd_ack' \in BOOLEAN, NEW a, NEW expired,
         NEW m_ack \in BOOLEAN, NEW w, EspClock(a, expired, sd_ack, strobe, m_ack, w), GiveUp(a)
  PROVE  IInv' /\ ConfigInv' /\ Rises
  <1>0. e.resrept
    BY DEF ConfigInv, Configures, GiveUp
  <1>1. PICK c \in Resets, q \in Request :
            /\ a = Command(c) /\ step' = "select" /\ pc' = "wait"
            /\ todo' = Recover(c) \o Reselect(q)
    BY DEF GiveUp, ScsiAssumption, Go, Resets
  <1>2. a.op = "cmd" /\ a.c = c
    BY <1>1 DEF Command
  <1>3. CoreField \subseteq DOMAIN e' /\ \E r, ev : Good(r) /\ After(e', Access(a, ev), r)
    BY <1>2, AccessDoes, ClockGood DEF IInv
  <1>4. PICK r, ev : Good(r) /\ After(e', Access(a, ev), r)
    BY <1>3
  <1>5. /\ CoreInv(e') /\ Silent(e') /\ ~e'.cmd_inprogress /\ ~e'.cmd_waiting
        /\ e'.int => r.int
    BY <1>0, <1>2, <1>4, ResetOut
  <1>6. Todo(todo', Resetting)
    BY <1>1, SelectList
  <1>7. Marks(todo') = Resetting /\ Resetting # {}
    BY <1>6 DEF Todo, Resetting
  <1>8. Progress'
    BY <1>1, <1>5, <1>7 DEF Progress, SelectInv
  <1>9. IsList(todo') /\ DriverInv'
    BY <1>1, <1>5, <1>6, <1>8, Handled
  <1>10. Rises
    BY <1>4, <1>5, KeptReady DEF Rises, Good, Eff, IInv, Base, CoreInv, Hyp
  <1>11. Configures(todo') \/ e'.resrept
    <2>1. CASE c = "RESET"
      <3>1. todo' = <<Configure>> \o Reselect(q)
        BY <1>1, <2>1 DEF Recover
      <3>2. Reselect(q) \in Seq({Reselect(q)[i] : i \in DOMAIN Reselect(q)})
        BY SelectList, SeqOfRange DEF Todo
      <3>3. 1 \in DOMAIN (<<Configure>> \o Reselect(q))
            /\ (<<Configure>> \o Reselect(q))[1] = Configure
        BY <3>2, HeadCat
      <3> QED BY <3>1, <3>3, ConfigureIs DEF Configures
    <2>2. CASE c = "BUS RESET"
      <3>1. Keeps(Access(a, ev))
        BY <1>2, <2>2, StartConfig, AccessDoes DEF write_command
      <3> QED BY <1>0, <1>4, <3>1, KeepsIs DEF Good, Eff, Kept
    <2> QED BY <2>1, <2>2 DEF Resets
  <1>12. "Reset" \notin Kinds(todo')
    <2>1. "Reset" \notin Resetting
      BY DEF Resetting
    <2> QED BY <1>7, <2>1, ResetMark
  <1> QED BY <1>3, <1>5, <1>9, <1>10, <1>11, <1>12 DEF IInv, Base, ConfigInv

(* Every step keeps the invariant, and raises an interrupt only for a      *)
(* command in progress.                                                    *)
LEMMA NextInv ==
  ASSUME EspAssumption, ScsiAssumption, Resrept, Inv, Next
  PROVE  Inv' /\ Rises
  <1>0. IInv /\ ConfigInv
    BY DEF Inv
  <1>1. PICK a \in Accesses, expired \in SUBSET Delays, m_ack \in BOOLEAN :
            Driver(a) /\ Clock(a, expired, m_ack) /\ Host
    BY DEF Next, Step
  <1>2. PICK w : EspClock(a, expired, sd_ack, strobe, m_ack, w)
    BY <1>1 DEF Clock
  <1>3. sd_ack' \in BOOLEAN
    BY <1>0, <1>1 DEF Host, HostTakes, HostWaits, HostReads, HostWrites, IInv, Base
  <1>4. CASE Perform(a)
    <2>1. Popped(a)
      BY <1>4 DEF Perform, Popped
    <2> QED BY <1>0, <1>2, <1>3, <2>1, WorkStep, ConfigWork DEF Inv
  <1>5. CASE a = NoAccess /\ ((todo = <<>> /\ Handle) \/ NextRequest(NoAccess) \/ Pause(NoAccess))
    BY <1>0, <1>2, <1>3, <1>5, IdleStep, ConfigIdle DEF Inv
  <1>6. CASE GiveUp(a)
    BY <1>0, <1>2, <1>3, <1>6, GiveUpStep DEF Inv
  <1>7. NextRequest(a) \/ Pause(a) => a = NoAccess
    BY DEF NextRequest, Pause
  <1> QED BY <1>1, <1>4, <1>5, <1>6, <1>7 DEF Driver, Works
(* The invariant holds after reset.                                        *)
LEMMA InitInv ==
  ASSUME Resrept, Init
  PROVE  Inv
  <1>1. e = EspReset
    BY DEF Init
  <1>2. CoreField \subseteq DOMAIN e
    BY <1>1 DEF EspReset, CoreField
  <1>3. /\ e.int = FALSE /\ e.cmd_inprogress = FALSE /\ e.cmd_waiting = FALSE
        /\ e.transfer_reported = FALSE /\ e.tc = FALSE /\ e.m_req = FALSE
        /\ e.dma_flush_active = FALSE
        /\ e.dma_flush_count = 0 /\ e.dma_irq_resume = 0
    BY <1>1 DEF EspReset
  <1>4. e.xst = "X_IDLE" /\ e.command0 = "none" /\ e.rd_ret = "dispatch"
    BY <1>1 DEF EspReset
  <1>5. CoreInv(e) /\ Silent(e)
    BY <1>3, <1>4, ResetGood
  <1>6. todo = <<Configure>> \o Select(req) /\ step = "select" /\ pc = "wait" /\ sd_ack \in BOOLEAN
    BY DEF Init
  <1>7. Todo(todo, {"Select"})
    BY <1>6, SelectList
  <1>8. SelectInv({"Select"})
    BY <1>3, <1>5 DEF SelectInv
  <1>9. Progress
    BY <1>6, <1>7, <1>8 DEF Progress, Todo
  <1>10. DriverInv
    BY <1>3, <1>6, <1>7, <1>9 DEF DriverInv, Todo
  <1>11. Configures(todo)
    <2>1. Select(req) \in Seq({Select(req)[i] : i \in DOMAIN Select(req)})
      BY SelectList, SeqOfRange DEF Todo
    <2>2. 1 \in DOMAIN (<<Configure>> \o Select(req))
          /\ (<<Configure>> \o Select(req))[1] = Configure
      BY <2>1, HeadCat
    <2> QED BY <1>6, <2>2, ConfigureIs DEF Configures
  <1>12. "Reset" \notin Kinds(todo)
    BY <1>7, ResetMark DEF Todo
  <1> QED BY <1>2, <1>5, <1>6, <1>7, <1>10, <1>11, <1>12 DEF Inv, ConfigInv, IInv, Base, Todo

(* The invariant is about the variables of the specification.              *)
LEMMA StutterInv ==
  ASSUME Inv, UNCHANGED vars
  PROVE  Inv'
  <1>0. IInv
    BY DEF Inv
  <1>1. /\ e' = e /\ sd_ack' = sd_ack /\ todo' = todo /\ step' = step /\ pc' = pc
        /\ result' = result
    BY DEF vars, hostVars, driverVars
  <1>2. Base' /\ IsList(todo')
    BY <1>0, <1>1 DEF IInv, Base
  <1>3. Hyp /\ Kept(e) /\ Eff(e)
    BY <1>0 DEF IInv, Base, CoreInv, Hyp, EngineInv, Owned, Quiet, RestState, Kept, Eff
  <1>4. Kept(e') /\ Eff(e')
    BY <1>1, <1>3
  <1>5. Marks(todo') = Marks(todo) /\ Ordered(todo') /\ Kinds(todo') = Kinds(todo)
    BY <1>0, <1>1 DEF IInv, DriverInv
  <1>6. DriverInv'
    BY <1>0, <1>1, <1>4, <1>5, KeepStep
  <1>7. ConfigInv'
    BY <1>1 DEF Inv, ConfigInv
  <1> QED BY <1>2, <1>6, <1>7 DEF Inv, IInv

(* The invariant.                                                          *)
LEMMA SpecInv ==
  ASSUME Resrept
  PROVE  Spec => []Inv
  <1>1. Inv /\ [Next]_vars => Inv'
    BY EspAssumption, ScsiAssumption, NextInv, StutterInv
  <1>2. Init => Inv
    BY InitInv
  <1> QED BY <1>1, <1>2, PTL DEF Spec

(* Every interrupt the controller asserts has a cause in INTSTATUS, when   *)
(* the driver sets RESREPT whenever it writes the configuration: at        *)
(* power-up and after each RESET, which clears it.                         *)
THEOREM CauseNonzeroHolds ==
  ASSUME Resrept
  PROVE  Spec => []CauseNonzero
  <1>1. Inv => CauseNonzero
    BY DEF Inv, IInv, Base, CoreInv, EngineInv, Caused, CauseNonzero
  <1> QED BY <1>1, SpecInv, PTL

(* No interrupt is raised when no command is in progress, on the same      *)
(* condition: what the channel still holds after a transfer raises none,   *)
(* nor does a reset in any state of the controller.                        *)
THEOREM OneInterruptHolds ==
  ASSUME Resrept
  PROVE  Spec => OneInterrupt
  <1>1. Inv /\ [Next]_vars => [~e.int /\ e'.int => e.cmd_inprogress]_vars
    BY EspAssumption, ScsiAssumption, NextInv DEF Rises
  <1> QED BY <1>1, SpecInv, PTL DEF Spec, OneInterrupt
=============================================================================
