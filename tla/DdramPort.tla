----------------------------- MODULE DdramPort -----------------------------
(***************************************************************************)
(* The path from the core to the HPS DDR3, clock by clock:                 *)
(*                                                                         *)
(*   bus (next_system) --ram_*--> next_ddram --a_*--+                      *)
(*                                                  next_ddram_arb --> DDR3*)
(*   mailbox master (bridge, diagnostics) --b_*-----+                      *)
(*                                                                         *)
(* Every variable is a register of the RTL or a piece of the DDR3          *)
(* controller; one step of the specification is one rising clock edge, in  *)
(* which all registers take their next value from the current ones and     *)
(* from the controller's BUSY and DOUT_READY of that clock.                *)
(*                                                                         *)
(* A 32-bit RAM word is a function on lanes 0..3, lane 3 being bits 31:24  *)
(* (the lowest 68k byte address); a 64-bit DDR3 word is a function on      *)
(* lanes 0..7, lane i being byte offset i.                                 *)
(***************************************************************************)
EXTENDS Integers, Sequences

CONSTANTS RamWord,      \* 64-bit words of the guest RAM window
          BoxWord,      \* 64-bit words of the shared mailbox window
          Byte,         \* byte values
          RamOps,       \* the operations the bus requests
          BoxOps        \* the operations the mailbox master requests

Lane4 == 0 .. 3
Lane8 == 0 .. 7
Word32 == [Lane4 -> Byte]
Word64 == [Lane8 -> Byte]

RamOp == [we : BOOLEAN, word : RamWord, half : {0, 1},
          be : SUBSET Lane4, din : Word32]
BoxOp == [we : BOOLEAN, word : BoxWord, din : Word64]

ASSUME WindowsDisjoint == RamWord \cap BoxWord = {}
ASSUME OpsAssumption == RamOps \subseteq RamOp /\ BoxOps \subseteq BoxOp
ASSUME ByteAssumption == Byte # {}

VARIABLES
    reset,              \* reset input, driven by the HPS
    (* the bus of next_system, master of port A *)
    ram_req, ram_op,
    (* next_ddram *)
    a_rd, a_we, a_cmd, half, busy, ram_ack, ram_dout,
    (* the mailbox master, on port B *)
    b_req, b_op,
    (* next_ddram_arb *)
    gst, a_read_pending, b_ack, b_rdata,
    (* the DDR3 controller: contents and reads accepted but not returned *)
    mem, inflight

busVars == <<ram_req, ram_op>>
ddramVars == <<a_rd, a_we, a_cmd, half, busy, ram_ack, ram_dout>>
boxVars == <<b_req, b_op>>
arbVars == <<gst, a_read_pending, b_ack, b_rdata>>
ctlVars == <<mem, inflight>>
vars == <<reset, busVars, ddramVars, boxVars, arbVars, ctlVars>>

Zero == CHOOSE b \in Byte : TRUE
Zero64 == [i \in Lane8 |-> Zero]

Cmd == [word : RamWord, be : SUBSET Lane8, din : Word64]

-----------------------------------------------------------------------------
(* Byte order.  The 68k word is swapped within its half of the DDR3 word.  *)

Bswap(x) == [i \in Lane4 |-> x[3 - i]]
HalfOf(w, h) == [i \in Lane4 |-> w[4 * h + i]]
BothHalves(x) == [i \in Lane8 |-> x[i % 4]]

(* Mutant: the lanes are not reversed.                                     *)
BeRevStraight(be, h) == {4 * h + l : l \in be}

BeRev(be, h) == {4 * h + (3 - l) : l \in be}

-----------------------------------------------------------------------------
(* The arbiter's wires. *)

(* Mutant: an accepted read is forgotten until its data returns.           *)
a_active_forgetful == a_rd \/ a_we

a_active == a_rd \/ a_we \/ a_read_pending
b_owns == gst # "G_A"

DDRAM_RD == IF b_owns THEN gst = "G_B_ISSUE" /\ ~b_op.we ELSE a_rd
DDRAM_WE == IF b_owns THEN gst = "G_B_ISSUE" /\ b_op.we ELSE a_we
DDRAM_WORD == IF b_owns THEN b_op.word ELSE a_cmd.word
DDRAM_DIN == IF b_owns THEN b_op.din ELSE a_cmd.din
DDRAM_BE == IF b_owns THEN Lane8 ELSE a_cmd.be

-----------------------------------------------------------------------------
(* The masters.  Each holds its request until it is acknowledged, then     *)
(* drops it for at least one clock.                                        *)

BusClock ==
    \/ ~ram_req /\ UNCHANGED busVars
    \/ ~ram_req /\ ram_req' = TRUE /\ ram_op' \in RamOps
    \/ ram_req /\ ~ram_ack /\ UNCHANGED busVars
    \/ ram_req /\ ram_ack /\ ram_req' = FALSE /\ UNCHANGED ram_op

BoxClock ==
    \/ ~b_req /\ UNCHANGED boxVars
    \/ ~b_req /\ b_req' = TRUE /\ b_op' \in BoxOps
    \/ b_req /\ ~b_ack /\ UNCHANGED boxVars
    \/ b_req /\ b_ack /\ b_req' = FALSE /\ UNCHANGED b_op

-----------------------------------------------------------------------------
(* next_ddram: one operation at a time, acknowledged when the write is     *)
(* accepted or the read data returns.                                      *)

DdramIssue == ram_req /\ ~ram_ack /\ ~busy /\ ~a_rd /\ ~a_we

WriteCmd(o) == [word |-> o.word, be |-> BeRev(o.be, o.half),
                din |-> BothHalves(Bswap(o.din))]

DdramClock(a_busy, a_dout_ready, dout) ==
    LET written == a_we /\ ~a_busy
        returned == busy /\ a_dout_ready
    IN  /\ a_we' = IF DdramIssue THEN ram_op.we ELSE a_we /\ a_busy
        /\ a_rd' = IF DdramIssue THEN ~ram_op.we ELSE a_rd /\ a_busy
        /\ busy' = IF DdramIssue THEN ~ram_op.we
                   ELSE busy /\ ~written /\ ~returned
        /\ ram_ack' = (ram_req /\ (ram_ack \/ written \/ returned))
        /\ ram_dout' = IF returned THEN Bswap(HalfOf(dout, half)) ELSE ram_dout
        /\ half' = IF DdramIssue THEN ram_op.half ELSE half
        /\ a_cmd' = IF ~DdramIssue THEN a_cmd
                    ELSE IF ram_op.we
                    THEN WriteCmd(ram_op)
                    ELSE [a_cmd EXCEPT !.word = ram_op.word, !.be = Lane8]

DdramReset ==
    /\ a_rd' = FALSE /\ a_we' = FALSE /\ ram_ack' = FALSE /\ busy' = FALSE
    /\ UNCHANGED <<a_cmd, half, ram_dout>>

-----------------------------------------------------------------------------
(* next_ddram_arb: port A owns the bus by default, port B takes it for one *)
(* operation when A is idle.                                               *)

(* Mutant: a read is never over.                                           *)
TrackReadSticky(BUSY, READY) ==
    a_read_pending' = IF b_owns THEN a_read_pending
                      ELSE a_read_pending \/ (a_rd /\ ~BUSY)

TrackRead(BUSY, READY) ==
    a_read_pending' = IF b_owns THEN a_read_pending
                      ELSE ~READY /\ (a_read_pending \/ (a_rd /\ ~BUSY))

(* Mutant: a request already acknowledged is granted again.                *)
GrantAgain ==
    /\ gst = "G_A"
    /\ gst' = IF b_req /\ ~a_active THEN "G_B_ISSUE" ELSE "G_A"
    /\ b_ack' = FALSE /\ UNCHANGED b_rdata

GrantA ==
    /\ gst = "G_A"
    /\ gst' = IF b_req /\ ~b_ack /\ ~a_active THEN "G_B_ISSUE" ELSE "G_A"
    /\ b_ack' = FALSE /\ UNCHANGED b_rdata

BIssue(BUSY) ==
    /\ gst = "G_B_ISSUE"
    /\ gst' = IF BUSY THEN "G_B_ISSUE" ELSE IF b_op.we THEN "G_A" ELSE "G_B_READ"
    /\ b_ack' = (~BUSY /\ b_op.we)
    /\ UNCHANGED b_rdata

(* Mutant: port B keeps the bus after its read.                            *)
BReadKeeps(READY, dout) ==
    /\ gst = "G_B_READ" /\ gst' = gst /\ b_ack' = READY
    /\ b_rdata' = IF READY THEN dout ELSE b_rdata

BRead(READY, dout) ==
    /\ gst = "G_B_READ"
    /\ gst' = IF READY THEN "G_A" ELSE "G_B_READ"
    /\ b_ack' = READY
    /\ b_rdata' = IF READY THEN dout ELSE b_rdata

ArbClock(BUSY, READY, dout) ==
    /\ TrackRead(BUSY, READY)
    /\ GrantA \/ BIssue(BUSY) \/ BRead(READY, dout)

ArbReset ==
    /\ gst' = "G_A" /\ a_read_pending' = FALSE
    /\ b_ack' = FALSE /\ b_rdata' = Zero64

-----------------------------------------------------------------------------
(* The DDR3 controller: it accepts the presented command when not BUSY and *)
(* returns reads in order, each at least one clock after its acceptance.   *)

Accepted(BUSY) ==
    IF ~BUSY /\ DDRAM_WE
    THEN [mem EXCEPT ![DDRAM_WORD] =
            [i \in Lane8 |-> IF i \in DDRAM_BE THEN DDRAM_DIN[i] ELSE @[i]]]
    ELSE mem

CtlClock(BUSY, READY) ==
    /\ READY => inflight # <<>>
    /\ mem' = Accepted(BUSY)
    /\ inflight' =
         (IF READY THEN Tail(inflight) ELSE inflight) \o
         (IF ~BUSY /\ DDRAM_RD THEN <<mem[DDRAM_WORD]>> ELSE <<>>)

-----------------------------------------------------------------------------
Init ==
    /\ reset = TRUE
    /\ ram_req = FALSE /\ ram_op \in RamOps
    /\ a_rd = FALSE /\ a_we = FALSE /\ busy = FALSE /\ ram_ack = FALSE
    /\ half = 0 /\ ram_dout = [i \in Lane4 |-> Zero]
    /\ a_cmd \in [word : RamWord, be : {Lane8}, din : {Zero64}]
    /\ b_req = FALSE /\ b_op \in BoxOps
    /\ gst = "G_A" /\ a_read_pending = FALSE
    /\ b_ack = FALSE /\ b_rdata = Zero64
    /\ mem = [w \in RamWord \cup BoxWord |-> Zero64]
    /\ inflight = <<>>

(* A clock with reset released.  DDRAM_DOUT is the oldest outstanding     *)
(* read; what the port carries when nothing is ready is never sampled.     *)
Run(BUSY, READY) ==
    /\ ~reset
    /\ CtlClock(BUSY, READY)
    /\ LET dout == IF READY THEN Head(inflight) ELSE Zero64
       IN  /\ DdramClock(b_owns \/ BUSY, READY /\ ~b_owns, dout)
           /\ ArbClock(BUSY, READY, dout)
    /\ BusClock
    /\ BoxClock
    /\ reset' \in BOOLEAN

(* A clock with reset asserted: the core's registers take their reset      *)
(* values while the DDR3 keeps its contents and drains what it accepted.   *)
(* The HPS holds reset for far longer than a DDR3 read takes.              *)
HoldReset(BUSY, READY) ==
    /\ reset
    /\ CtlClock(BUSY, READY)
    /\ DdramReset
    /\ ArbReset
    /\ ram_req' = FALSE /\ b_req' = FALSE
    /\ UNCHANGED <<ram_op, b_op>>
    /\ reset' \in IF inflight' = <<>> THEN BOOLEAN ELSE {TRUE}

Next == \E BUSY, READY \in BOOLEAN : Run(BUSY, READY) \/ HoldReset(BUSY, READY)

Spec == Init /\ [][Next]_vars

(* The clock never stops, the controller leaves BUSY again and again and   *)
(* returns every read.  Nobody is obliged to make a request or to reset.   *)
Quiet == ~reset' /\ (ram_req' => ram_req) /\ (b_req' => b_req)
ClockRuns == (\E BUSY, READY \in BOOLEAN : Run(BUSY, READY)) /\ Quiet
AcceptStep == (DDRAM_RD \/ DDRAM_WE) /\ \E READY \in BOOLEAN : Run(FALSE, READY)
ReturnStep == \E BUSY \in BOOLEAN : Run(BUSY, TRUE)
Fairness == WF_vars(ClockRuns) /\ SF_vars(AcceptStep) /\ SF_vars(ReturnStep)

FairSpec == Spec /\ Fairness
-----------------------------------------------------------------------------
TypeOK ==
    /\ reset \in BOOLEAN
    /\ ram_req \in BOOLEAN /\ ram_op \in RamOp
    /\ a_rd \in BOOLEAN /\ a_we \in BOOLEAN
    /\ busy \in BOOLEAN /\ ram_ack \in BOOLEAN
    /\ half \in {0, 1} /\ a_cmd \in Cmd /\ ram_dout \in Word32
    /\ b_req \in BOOLEAN /\ b_op \in BoxOp
    /\ gst \in {"G_A", "G_B_ISSUE", "G_B_READ"}
    /\ a_read_pending \in BOOLEAN /\ b_ack \in BOOLEAN /\ b_rdata \in Word64
    /\ mem \in [RamWord \cup BoxWord -> Word64]
    /\ inflight \in Seq(Word64)

(* Outside reset the DDR3 owes at most one read, and the arbiter knows     *)
(* whose it is: port B never takes the bus between the acceptance of a     *)
(* port A read and its data ("track port A's outstanding read so B never   *)
(* steals the bus", next_ddram_arb.sv), nor the reverse, and the word on   *)
(* its way is the present contents of the address the owner asked for.     *)
ReadOwner ==
    ~reset /\ inflight # <<>> =>
        \/ /\ gst = "G_B_READ" /\ ~a_read_pending
           /\ inflight = <<mem[b_op.word]>>
        \/ /\ gst = "G_A" /\ a_read_pending /\ busy /\ ~a_rd
           /\ inflight = <<mem[a_cmd.word]>>

(* The inductive form of ReadOwner: what the two masters' handshakes and   *)
(* the registers of next_ddram and the arbiter say about each other.       *)
Ownership ==
    /\ a_rd => busy /\ ~a_we
    /\ busy => ~a_we /\ (a_rd \/ a_read_pending)
    /\ a_read_pending => gst = "G_A" /\ busy /\ ~a_rd
    /\ gst = "G_B_READ" => ~b_op.we
    /\ gst # "G_A" => b_req /\ ~b_ack
    /\ (inflight = <<>>) = (~a_read_pending /\ gst # "G_B_READ")
    /\ ReadOwner
Inv == ~reset => Ownership

(* What the registers still know of the request they serve, in reset too:  *)
(* a command under way is that of the request held and not yet answered.   *)
Linked ==
    /\ a_rd \/ a_we \/ busy => ram_req /\ ~ram_ack
    /\ a_rd \/ busy => ~ram_op.we /\ a_cmd.word = ram_op.word /\ half = ram_op.half
    /\ a_we => ram_op.we /\ a_cmd = WriteCmd(ram_op)
    /\ gst # "G_A" => b_req /\ ~b_ack

(* The guest's view of the DDR3: 32-bit cell <<w, h>>, lane 3 first.       *)
GuestMem == [c \in RamWord \X {0, 1} |-> Bswap(HalfOf(mem[c[1]], c[2]))]
GuestOp == [we |-> ram_op.we, cell |-> <<ram_op.word, ram_op.half>>,
            be |-> ram_op.be, din |-> ram_op.din]

(* Port A implements an atomic big-endian RAM: next_ddram, the arbiter and *)
(* the byte swapping together answer each bus request exactly once, in one *)
(* indivisible access to the lanes it enables, whatever BUSY does, whoever *)
(* else uses the DDR3, and across a reset.                                 *)
PortA == INSTANCE AtomicRam WITH
    Cell <- RamWord \X {0, 1}, Lane <- Lane4,
    req <- ram_req, op <- GuestOp, ack <- ram_ack, dout <- ram_dout,
    mem <- GuestMem
PortAImplementsRam == PortA!Spec

(* The mailbox's view: whole 64-bit words. *)
MailMem == [w \in BoxWord |-> mem[w]]
MailOp == [we |-> b_op.we, cell |-> b_op.word, be |-> Lane8, din |-> b_op.din]

(* Port B implements an atomic memory of 64-bit mailbox words.             *)
PortB == INSTANCE AtomicRam WITH
    Cell <- BoxWord, Lane <- Lane8,
    req <- b_req, ack <- b_ack, dout <- b_rdata,
    op <- MailOp, mem <- MailMem
PortBImplementsRam == PortB!Spec

(* Neither master waits for ever: the bus is answered although the mailbox *)
(* interleaves, and the mailbox is answered although the bus has priority  *)
(* and may be back with a new request as soon as the handshake allows.     *)
BusAnswered == ram_req ~> (ram_ack \/ reset)
MailboxAnswered == b_req ~> (b_ack \/ reset)
=============================================================================
