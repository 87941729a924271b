------------------------------ MODULE SoundIn ------------------------------
(***************************************************************************)
(* Recording: the codec, the sound-input channel (SndIn), the interrupt    *)
(* controller (Intc), main RAM and the guest's driver.                     *)
(*                                                                         *)
(* External: the driver, modelled from docs/SCSI_DMA.md, which describes   *)
(* the interrupt handler of Mach every DMA channel must live with: it      *)
(* reads the CSR, and if the channel still runs it hands over the next     *)
(* descriptor in START/STOP, writes SETSUPDATE|CLRCOMPLETE, and reads the  *)
(* CSR again to find out whether the channel stopped in between.  Each     *)
(* register access may come any number of clocks after the one before.     *)
(*                                                                         *)
(* Descriptor k is the RAM from Desc[k] up to Desc[k+1].                   *)
(***************************************************************************)
EXTENDS SndIn, Intc

CONSTANTS Desc,         \* boundaries of the buffers
          SampleMod,    \* samples are numbered modulo SampleMod
          MaxAbort,     \* bound on aborts by the driver
          MaxSwitch     \* bound on the codec being switched off and on

ASSUME SoundAssumption ==
    /\ Desc \in Seq(0 .. AddrTop) /\ Len(Desc) >= 2
    /\ \A k \in DOMAIN Desc : Desc[k] % WordBytes = 0
    /\ \A k \in 1 .. (Len(Desc) - 1) : Desc[k] < Desc[k + 1]
    /\ SampleMod \in Nat \ {0} /\ Sample = 0 .. (SampleMod - 1)
    /\ {MaxAbort, MaxSwitch} \subseteq Nat /\ SND_IN \in Source

VARIABLES
    sndin_active, sndin_clear,  \* the KMS's control of the codec
    heard,              \* the codec's next sample
    (* the driver: the writes it is about to make, where it is, the         *)
    (* descriptors it has handed over and those it takes to be complete     *)
    todo, pc, queued, done,
    aborts, switches,
    (* history: the addresses recorded for the present program, whether     *)
    (* the access under way belongs to an aborted one, the last sample      *)
    (* sent to RAM, and whether the guest knows that some were lost since   *)
    rec, stale, last, gap

NDesc == Len(Desc) - 1
driverVars == <<todo, pc, queued, done>>
codecVars == <<sndin_active, sndin_clear>>
hist == <<rec, stale, last, gap>>
vars == <<ch, intcVars, codecVars, heard, driverVars, aborts, switches, hist>>

Ptr(r, a) == [reg |-> r, a |-> a]
CsrWrite(cmd) == [reg |-> "csr", cmd |-> cmd]

(* Program the channel for descriptor k and, where there is one, chain     *)
(* the next.                                                               *)
Chained(k) == k < NDesc
Program(k) ==
    IF Chained(k)
    THEN <<CsrWrite({"RESET"}), Ptr("next_ptr", Desc[k]), Ptr("limit_ptr", Desc[k + 1]),
           Ptr("start_ptr", Desc[k + 1]), Ptr("stop_ptr", Desc[k + 2]),
           CsrWrite({"SETENABLE", "SETSUPDATE", "DEV2M"})>>
    ELSE <<CsrWrite({"RESET"}), Ptr("next_ptr", Desc[k]), Ptr("limit_ptr", Desc[k + 1]),
           CsrWrite({"SETENABLE", "DEV2M"})>>
(* Hand over descriptor k to the running channel.                          *)
Refill(k) ==
    <<Ptr("start_ptr", Desc[k]), Ptr("stop_ptr", Desc[k + 1]),
      CsrWrite({"SETSUPDATE", "CLRCOMPLETE"})>>
Handed(k) == IF Chained(k) THEN k + 1 ELSE k

Init ==
    /\ ch = ChReset /\ IntcInit
    /\ sndin_active = FALSE /\ sndin_clear = FALSE /\ heard = 0
    /\ todo = Program(1) /\ pc = "wait" /\ queued = Handed(1) /\ done = 0
    /\ aborts = 0 /\ switches = 0
    /\ rec = {} /\ stale = FALSE /\ last = 0 /\ gap = TRUE
-----------------------------------------------------------------------------
Go(p, writes) == pc' = p /\ todo' = writes
(* The first n descriptors are complete and the channel is at a stop.      *)
RestartAfter(n) ==
    /\ done' = n
    /\ queued' = IF n < NDesc THEN Handed(n + 1) ELSE n
    /\ Go("wait", IF n < NDesc THEN Program(n + 1) ELSE <<CsrWrite({"RESET"})>>)
GiveUp == Go("failed", <<>>) /\ UNCHANGED <<queued, done>>

(* The interrupt handler reads the CSR.                                    *)
ReadCsr ==
    IF ch.exc THEN GiveUp
    ELSE IF ch.cmp /\ ~ch.en THEN RestartAfter(queued)
    ELSE IF ch.cmp
    THEN /\ done' = done + 1
         /\ queued' = IF queued < NDesc THEN queued + 1 ELSE queued
         /\ Go("check", IF queued < NDesc
                        THEN Refill(queued + 1) ELSE <<CsrWrite({"CLRCOMPLETE"})>>)
    ELSE Go("wait", <<>>) /\ UNCHANGED <<queued, done>>

(* It looks again after the acknowledgement: with SUPDATE left over, the   *)
(* descriptor just handed over was not begun.                              *)
CheckCsr ==
    IF ch.exc THEN GiveUp
    ELSE IF ch.cmp /\ ~ch.en
    THEN RestartAfter(IF ch.sup THEN queued - 1 ELSE queued)
    ELSE Go("wait", <<>>) /\ UNCHANGED <<queued, done>>

Interrupt == SND_IN \in stat \cap mask /\ ipl(FALSE) # 0

(* One access of the driver in this clock, w being its write, or none.     *)
Write(w) == todo # <<>> /\ w = Head(todo) /\ todo' = Tail(todo) /\ UNCHANGED <<pc, queued, done>>
Handle(w) ==
    /\ todo = <<>> /\ w = NoWrite
    /\ \/ pc = "wait" /\ Interrupt /\ ReadCsr
       \/ pc = "check" /\ CheckCsr
Pause(w) == w = NoWrite /\ UNCHANGED driverVars

(* dma_abort: RESET at any moment, then everything not yet complete again. *)
Abort(w) == pc # "failed" /\ done < NDesc /\ w = CsrWrite({"RESET"}) /\ RestartAfter(done)

(* The guest enables the interrupt in the controller's mask once.          *)
MaskWrite == [reg |-> "mask", half |-> 1, lanes |-> Source, v |-> {SND_IN}]
Unmask(w) == IF mask = {} /\ w = NoWrite THEN MaskWrite ELSE NoAccess

(* What the clock means for the recording.  A RESET makes an access under  *)
(* way stale.                                                              *)
History(w, tick, m_ack, aborted) ==
    LET landed == m_ack /\ ~stale
        taken == ch'.m_req /\ ~ch.m_req
    IN  /\ rec' = IF aborted THEN {a \in rec : a < Desc[done + 1]}
                  ELSE IF landed THEN rec \cup {ch.m_addr} ELSE rec
        /\ stale' = (ch'.m_req /\ (stale \/ (ch.m_req /\ csr_reset(w))))
        /\ last' = IF taken THEN ch'.m_din[PerWord] ELSE last
        /\ gap' = (ch'.overrun \/ ~sndin_active \/ csr_reset(w) \/ (gap /\ ~taken))

(* A clock; the driver's part of it is the caller's.                       *)
Clock(w, tick, m_ack, aborted) ==
    /\ m_ack => ch.m_req /\ ch.m_addr < RamTop
    /\ ChClock(sndin_active, sndin_clear, tick, heard, m_ack, w)
    /\ IntcClock(IF ch.cmp THEN {SND_IN} ELSE {}, {}, {}, Unmask(w))
    /\ heard' = IF sndin_active /\ tick THEN (heard + 1) % SampleMod ELSE heard
    /\ History(w, tick, m_ack, aborted)

(* The KMS switches the codec, clearing the status as it goes off.         *)
Switch ==
    /\ switches < MaxSwitch /\ switches' = switches + 1
    /\ sndin_active' = ~sndin_active /\ sndin_clear' = sndin_active
Steady == sndin_clear' = FALSE /\ UNCHANGED <<sndin_active, switches>>

DriverStep(w) == (Write(w) \/ Handle(w) \/ Pause(w)) /\ UNCHANGED aborts
AbortStep(w) == Abort(w) /\ aborts < MaxAbort /\ aborts' = aborts + 1

Accesses == {NoWrite, CsrWrite({"RESET"})} \cup {todo[i] : i \in DOMAIN todo}
Next ==
    \E w \in Accesses, tick, m_ack \in BOOLEAN :
        /\ \/ DriverStep(w) /\ Clock(w, tick, m_ack, FALSE)
           \/ AbortStep(w) /\ Clock(w, tick, m_ack, TRUE)
        /\ Switch \/ Steady

Spec == Init /\ [][Next]_vars

(* The clock runs, samples keep coming, RAM answers, the driver gets on    *)
(* with its work and has the codec switched on.                            *)
Run(w, tick, m_ack) ==
    DriverStep(w) /\ Clock(w, tick, m_ack, FALSE) /\ Steady
Ticks == \E w \in Accesses, m_ack \in BOOLEAN : Run(w, TRUE, m_ack)
Answers == \E w \in Accesses, tick \in BOOLEAN : Run(w, tick, TRUE)
Works == /\ \E w \in Accesses, tick, m_ack \in BOOLEAN : Run(w, tick, m_ack)
         /\ todo' # todo \/ pc' # pc
Records == ~sndin_active /\ Next /\ sndin_active'
Fairness == WF_vars(Ticks) /\ WF_vars(Answers) /\ WF_vars(Works) /\ WF_vars(Records)
FairSpec == Spec /\ Fairness
-----------------------------------------------------------------------------
(* The driver's accesses; it leaves INITBUF alone.                         *)
Access == {NoWrite} \cup {Ptr(r, a) : r \in Pointer, a \in 0 .. AddrTop}
                    \cup {CsrWrite(cmd) : cmd \in SUBSET (Command \ {"INITBUF"})}
TypeOK ==
    /\ ChTypeOK /\ stat \subseteq Source /\ mask \subseteq Source
    /\ {sndin_active, sndin_clear, stale, gap} \subseteq BOOLEAN
    /\ heard \in Sample /\ last \in Sample /\ rec \subseteq 0 .. (RamTop - 1)
    /\ pc \in {"wait", "check", "failed"} /\ todo \in Seq(Access)
    /\ done \in 0 .. queued /\ queued \in 0 .. NDesc

(* A buffer the driver takes to be complete has been recorded to its last  *)
(* word, since the last abort, although the channel may complete, chain or *)
(* stop between any two of the driver's accesses.                          *)
Filled(n) == \A a \in Desc[1] .. (n - 1) : a % WordBytes = 0 => a \in rec
DoneMeansFilled == Filled(Desc[done + 1])

(* "A stopped channel retains COMPLETE until RESET or explicit reenable":  *)
(* while buffers remain, a driver that waits for an interrupt waits for    *)
(* one that the channel has raised or, being enabled, can still raise.     *)
ChainKept ==
    pc = "wait" /\ todo = <<>> /\ done < NDesc => ch.en \/ ch.cmp

(* The words sent to RAM continue each other sample by sample, unless the  *)
(* overrun status told the guest otherwise or it stopped the recording     *)
(* itself.                                                                 *)
NoSilentLoss ==
    [][~gap /\ ch'.m_req /\ ~ch.m_req => ch'.m_din[1] = (last + 1) % SampleMod]_vars

(* Every buffer is recorded in the end, however late the driver is.        *)
AllRecorded == <>(done = NDesc \/ pc = "failed")
-----------------------------------------------------------------------------
(* The inductive invariant behind the properties.  What the channel may be *)
(* doing, relative to the driver's two counters:                           *)

(* filling buffer k,                                                       *)
Recording(k) ==
    /\ ch.en /\ k \in 1 .. NDesc /\ ch.limit_ptr = Desc[k + 1]
    /\ ch.next_ptr \in Desc[k] .. (Desc[k + 1] - 1) /\ ch.next_ptr % WordBytes = 0
    /\ Filled(ch.next_ptr)
(* at a stop after buffer k, or after an exception.                        *)
Stopped(k) == ~ch.en /\ ch.cmp /\ Filled(Desc[k + 1])
Broken == ~ch.en /\ ch.cmp /\ ch.exc
NextIs(k) == ch.start_ptr = Desc[k] /\ ch.stop_ptr = Desc[k + 1]

(* Nothing to write: the channel is in the first or in the last of the     *)
(* buffers handed over, or has stopped after them.                         *)
Chain ==
    \/ Recording(done + 1) /\ ~ch.cmp /\ ~ch.sup /\ queued = done + 1
    \/ Recording(done + 1) /\ ~ch.cmp /\ ch.sup /\ queued = done + 2 /\ NextIs(queued)
    \/ Recording(queued) /\ ch.cmp /\ ~ch.sup /\ queued = done + 2
    \/ Stopped(queued) /\ ~ch.sup /\ queued \in {done + 1, done + 2}
    \/ Broken
(* The last buffer was handed over too late: SUPDATE is left over.         *)
Missed == Stopped(done + 1) /\ ch.sup /\ queued = done + 2

(* The first n writes of the program p have been made.                     *)
Left(p, n) == todo = SubSeq(p, n + 1, Len(p))
Refilling ==
    /\ \/ Recording(done + 1) /\ ch.cmp /\ ~ch.sup
       \/ Stopped(done + 1) /\ ~ch.sup
       \/ Broken
    /\ \/ queued = done + 1 /\ todo = <<CsrWrite({"CLRCOMPLETE"})>>
       \/ /\ queued = done + 2
          /\ \E n \in 0 .. 2 :
               /\ Left(Refill(queued), n)
               /\ n >= 1 => ch.start_ptr = Desc[queued]
               /\ n >= 2 => ch.stop_ptr = Desc[queued + 1]
Programmed(k, n) ==
    /\ n >= 1 => ~ch.cmp /\ ~ch.sup
    /\ n >= 2 => ch.next_ptr = Desc[k]
    /\ n >= 3 => ch.limit_ptr = Desc[k + 1]
    /\ Chained(k) /\ n >= 4 => ch.start_ptr = Desc[k + 1]
    /\ Chained(k) /\ n >= 5 => ch.stop_ptr = Desc[k + 2]
Programming ==
    /\ ~ch.en /\ queued = Handed(done + 1)
    /\ \E n \in 0 .. (Len(Program(done + 1)) - 1) :
         Left(Program(done + 1), n) /\ Programmed(done + 1, n)
Finished ==
    /\ ~ch.en /\ queued = done
    /\ todo = <<CsrWrite({"RESET"})>> \/ (todo = <<>> /\ ~ch.cmp)

Handover ==
    /\ pc = "wait" /\ done = NDesc => Finished
    /\ pc = "wait" /\ done < NDesc /\ todo # <<>> => Programming
    /\ pc = "wait" /\ done < NDesc /\ todo = <<>> => Chain
    /\ pc = "check" => done < NDesc /\ IF todo = <<>> THEN Chain \/ Missed ELSE Refilling
    /\ pc = "failed" => todo = <<>> /\ (~ch.en \/ (done < NDesc /\ Chain))

(* A request that counts is for the word at next_ptr; one that does not is *)
(* marked, and the mark lasts as long as it.                               *)
Request ==
    /\ stale = ch.cancelled /\ (ch.cancelled => ch.m_req)
    /\ ch.m_req /\ ~ch.cancelled => ch.en /\ ch.m_addr = ch.next_ptr

(* The shift register holds the latest samples, and as many of them follow *)
(* the last word sent as the counter says.                                 *)
Continuous ==
    /\ ch.sample_count <= Len(ch.samples)
    /\ \A i \in 1 .. Len(ch.samples) :
         ch.samples[i] = (heard - (Len(ch.samples) + 1 - i)) % SampleMod
    /\ ~gap => heard = (last + 1 + ch.sample_count) % SampleMod
    /\ sndin_clear => ~sndin_active

Inv == TypeOK /\ DoneMeansFilled /\ Request /\ Handover /\ Continuous
=============================================================================
