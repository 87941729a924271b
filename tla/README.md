# A TLA+ verification project for the NeXT core

The repository is a NeXT Computer for the MiSTer FPGA platform. Its own logic is
SystemVerilog: `src/rtl/next/*.sv` and the top level `src/NeXT.sv`. `src/sys` is
the MiSTer framework, `src/reference/previous` an emulator used as a reference,
`rtl/AP68040` the CPU core (a submodule that is not in the tree). This project
models the parts of the core's own logic where several actors meet on shared
state, checks them with TLC and proves the central facts with TLAPS.

## The system

### Components

| Part | Source | State it keeps | What it does, and for whom |
|---|---|---|---|
| DDR3 adapter | `next_ddram.sv` | one command, `half`, `busy`, `ram_ack`, `ram_dout` | turns the 32-bit big-endian RAM port of the system bus into accesses to 64-bit little-endian DDR3 words |
| DDR3 arbiter | `next_ddram_arb.sv` | `gst`, `a_read_pending`, `b_ack`, `b_rdata` | shares the DDR3 between the adapter (port A) and the mailbox (port B) |
| System bus | `next_system.sv` | bus state machine, `dma_grant`, walker and bus-error flags | serves CPU cycles, MMU table walks and six DMA engines one at a time; bus errors; snoops for the cache |
| Interrupt controller | `next_intc.sv`, edge logic in `next_system.sv` | status, mask, delayed device levels | turns device levels into request and release pulses, keeps them pending, encodes a level |
| Hardclock | `next_timer.sv` | latch, counter, prescaler, enable | periodic interrupt |
| Event counter | `next_system.sv` | microsecond count, read latch | time of day for the guest |
| MB8795 ethernet and DMA | `next_enet_dma.sv` | controller registers, two DMA channels, packet buffer, engine state | gathers packets from RAM, loops them back or hands them to the bridge, delivers packets to RAM |
| Ethernet bridge | `next_enet_bridge.sv` | ring pointers, one word being packed, state | moves frames between the MAC and two rings in a DDR3 mailbox shared with a daemon on the ARM |
| Sound input | `next_snd_in.sv` | DMA channel, sample word, overrun flags | records codec samples to RAM |
| Keyboard, mouse, sound output | `next_kms_snd.sv` | serial link, DMA channel, codec control | plays samples, reports keys |
| SCSI | `next_scsi.sv` | ESP registers and FIFO, bus phase, engine state, sector buffer, DMA channel with its 16-byte buffer, queued flushes, delayed interrupt | executes the driver's ESP commands on disk images behind the ARM's block device and moves their data to and from RAM |
| Magneto-optical drive, Reed-Solomon | `next_mo.sv`, `next_rs.sv` | formatter, DMA channel; codec pipeline | optical disk |
| Floppy | `next_floppy.sv` | command phases, FIFO | floppy disk through the SCSI DMA channel |
| Printer | `next_printer.sv` | DMA channel, shift register | laser printer |
| Exception diagnostic | `next_exception_*.sv` | trigger, snapshot, mailbox writer | reports CPU exceptions through DDR3 port B |
| SCR, RTC | `next_scr.sv` | control registers, bit-serial RTC | configuration and clock chip |
| SCC, BMAP, DMA stubs | `next_scc.sv`, `next_bmap.sv`, `next_dma_stub.sv` | plain registers | presence for the boot ROM |
| ADC, video, memories | `next_audio_adc.sv`, `next_video.sv`, ... | filters, counters | signal paths |

### How they interact

All modules run on one clock; "concurrency" here is that every module takes a
step in every clock, reads the other modules' registers as they were before the
clock, and that the environment (DDR3 controller, ARM, user, guest software)
acts at any clock. The interactions are

* request/acknowledge handshakes: bus to adapter, bridge to arbiter, engines to
  bus, bridge to MAC (`btx_req`/`btx_rd`/`btx_ack`/`btx_done`, `brx_start`/
  `brx_valid`/`brx_ready`);
* one-clock pulses: `mem_ready`, `walker_ack`, `int_set`, `int_clr`,
  `poll_tick`, `btx_rd`. A pulse that nobody looks at is gone;
* shared memory: main RAM (CPU, walker, engines), the mailbox (bridge, ARM);
* two resets: the core reset, and the guest's RESET instruction, which reaches
  the devices but neither the bus nor the bridge;
* the interrupt loop: a channel completes, the guest's handler reads the CSR,
  refills the chain and acknowledges, each access any number of clocks later.

What is hard to test in this code is listed, with its line, in `PROJECT.json`
under `hazards`.

### What makes the components correct

* DDR3 path: returned data belongs to the port that takes it; each port is an
  atomic memory for its user; nobody starves.
* System bus: one memory for all masters, each access done once, for a master
  that still waits; the cache is coherent; everyone is served.
* MAC: a packet reported as received is the packet that was sent; a packet does
  not block the buffer for ever.
* Bridge: the rings contain whole frames in order whatever is reset or switched
  off when; transmit, receive and the station address make progress.
* Interrupts: no event is lost to a simultaneous acknowledgement.
* Exception diagnostic: the record names the right frame or says that it cannot;
  a record declared complete is whole, for a reader at any moment; sharing the
  port does not disturb the bridge.
* SCSI: a request that ends with good status has moved every byte, one that is
  refused none; nothing outside the driver's windows and sectors is touched, also
  after a reset; every command is answered by exactly one interrupt with a cause.
* DMA channels: a driver that follows Mach's protocol never takes an unfilled
  buffer for complete and never waits for an interrupt that cannot come.

## Modules

One step of every model is one clock. A module that models a register file as a
record (`mac`, `br`, `e`) computes the next record as
`later assignments ++ earlier assignments ++ old`, which is the rule of the RTL:
right-hand sides are old values, the last assignment wins. `SndIn` says the same with
a pipeline of stages (codec, answer, event, pointer writes, CSR, clear): each takes the
registers as assigned so far and reads the old ones in `ch`. Mutated forms of
definitions stand before the definition they mutate and are marked "Mutant"; no
specification uses them.

| Module | Models | Remarks |
|---|---|---|
| `AtomicRam` | abstract | a request/acknowledge port of an atomic memory, reset included |
| `DdramPort` | `next_ddram.sv`, `next_ddram_arb.sv` | a controller that is BUSY and answers as it likes; `Run` is a clock, `HoldReset` a clock in reset. Implements `AtomicRam` twice |
| `DdramPortProofs` | | proofs |
| `SharedRam` | abstract | one atomic memory with several ports, a withdrawn request may still take effect once |
| `SystemBus` | `next_system.sv` 241-551 | the six copies of the DMA branch are one action over numbered engines; CPU core and its cache external. Implements `SharedRam` |
| `SystemBusProofs` | | proofs |
| `Assign` | | the assignments of a clock (`++`) |
| `EnetMac` | `next_enet_dma.sv` | one operator per engine state, per task, and for CPU writes |
| `EnetDma` | | `EnetMac` on RAM with the wire unplugged and a CPU that writes registers at any clock |
| `EnetDmaProofs` | | proofs |
| `EnetBridge` | `next_enet_bridge.sv` | one operator per state |
| `EnetLink` | `NeXT.sv` wiring | `EnetMac` and `EnetBridge` with mailbox, ARM, driver, link switch and both resets |
| `EnetLinkProofs` | | proofs |
| `Intc` | `next_intc.sv`, `next_system.sv` 1065-1132 | sources as a set of bit numbers |
| `Hardclock`, `HardclockProofs` | `next_timer.sv` | composed with `Intc` |
| `SndIn` | `next_snd_in.sv` | the channel |
| `SoundIn` | | the channel with codec, `Intc` and Mach's DMA interrupt handler; the last part is the inductive invariant |
| `SoundInProofs` | | proofs |
| `Esp` | `next_scsi.sv` | controller, disk target and DMA channel; one operator per engine state and per kind of register write |
| `Scsi` | | `Esp` with RAM, the bus's turn-taking, the ARM's block device and the driver: selection, chained DMA windows, flush pumps, ICCS, message accepted, and giving up with a reset |
| `ScsiProofs` | | proofs |
| `ExcTrigger` | `next_exception_trigger.sv` | the ring in block RAM, its search through a registered read |
| `ExcMailbox` | `next_exception_mailbox.sv` | publication word by word, arbitration with the bridge |
| `ExceptionDiag` | `NeXT.sv` 372-396, `tb/read_exception_mailbox.sh` | both with bridge, DDR3 words, resets and the user's reader; history variables `log`, `published`, `fresh`, `mixed` serve the properties only |
| `ExceptionDiagProofs` | | proofs |
| `MC*` | | constants for TLC |

`SystemBus` uses `AtomicRam` for the RAM behind it and `EnetLink` one access at a
time for its mailbox port; that `DdramPort` implements both ports is checked by
the `ddram_port` run, so the models stack as the hardware does.

### Abstractions

Addresses are members of small sets, data are bytes that tell where they came
from. The bus's address decode is reduced to RAM, internal and nothing. The MAC
has byte addresses and no lanes; its masks, the saved pointers its engine never
reads, `tpe_select` and the 16-bit halves of pointer writes are left out, and the
six destination bytes are one. A tick outside `E_IDLE` (a bridge poll outside
`S_IDLE`) is not looked at by the code and not offered by the models. A pointer the
driver writes leaves room for one byte below `AddrTop`. `SndIn` numbers samples instead of coding them in
mu-law and keeps no saved pointers. Tick counters (`tickcnt`, `pollcnt`, the
sample rate accumulator) become a tick that may come at any clock; only the
hardclock's prescaler and counter, whose arithmetic is the point, are kept.
Ring pointers are natural numbers (64 bits in the RTL).
The exception diagnostic keeps of an event its class, its (URP, frame address)
pair as one key, its context, and whether it is the exit fallback; every payload
word stands for the whole record. The reader gives up at the first header that is
not that of a complete record, where the script reads on and the decoder rejects
the result. `INPUT_HELD = 0` of the publisher is not built by `NeXT.sv` and not
modelled.

`Esp` has words of 2 bytes, a channel buffer of 4 and sectors of 4, and a FIFO of 3
tokens, one of which may be a whole CDB (operation, block address, count). The
channel's buffer is the queue of its bytes; that it is an array with a limit and a
size is left out. The delays before interrupts and between bytes may expire at any
clock, so a flush pump meets them early, late and on the very edge. A pointer or
transfer count is written in one access. The refused operations are one `OTHER`.
`Scsi` keeps of `SystemBus` the order of service: the CPU before the engines in
`S_IDLE`, the engines first in the clock of `mem_ready`. The engines ahead in the
chain may take up to `MaxPass` slots from this channel while it has words to move
(`passed` counts them). `NoOrphan` states its condition: with two slots lost the
driver's ICCS can find a flushed word still waiting for RAM, and the engine leaves it
(`next_scsi.sv:929`): the word is written again and again, the pointer and the
remaining flushes stand still until the next select or reset. The run has these
states, too, and the other properties hold in them.

The driver writes the configuration (`Configure`: CFG1_RESREPT as `Resrept` says)
at power-up and after each RESET, because RESET clears it (`next_scsi.sv:713`). It
may give up at any access, with RESET or BUS RESET, and goes on with any request
of `Following`, the same or another, as a guest whose operation timed out does;
not between a RESET and the write of the configuration that follows it, where it
does not wait for anything, and not while the block device streams a sector: its
timeout is seconds long.

Assumed of the environment: the core reset is held longer than a DDR3 read takes,
and a RESET instruction longer than a RAM access; the link switch is off longer
than the bridge needs to come to rest; the ARM daemon makes its check of MAGIC,
its frame and its pointer update in one pass; the guest's drivers write START and
STOP before SETSUPDATE. The first three are differences of many orders of
magnitude in time; the last two are obligations of software outside `src/`.

## Runs

| Run | Checks | Bounds |
|---|---|---|
| `ddram_port` | `ReadOwner`; each port implements `AtomicRam`; `BusAnswered`, `MailboxAnswered` | one DDR3 word (two 32-bit cells) and one mailbox word, bytes different in every lane, reads, partial and full writes. More words change nothing: addresses are never compared |
| `system_bus` | `ServesWaitingMaster`, `CacheCoherent`, `SharedRam` implemented; `CoreServed`, `DmaServed` | one word, two engines (the chain's code is the same for each), CPU reads, stores, device cycles and bus errors, walker reads, writes and errors, RESET at any time |
| `enet_dma` | `NetBusyMeansPending`, `PacketIntact`, `RxDrains` | buffer of 4 bytes, minimum 2, CRC 1; eight driver programs: single and chained buffers, short, too long, too small a receive buffer, bad addresses, filtered; writes of the CSRs, the reset register and the mode at any clock |
| `enet_dma_reset` | `DeliveredCompletely`, violated | as above, only resets written |
| `enet_link` | `TxRingIntact`, `RxIntact` | rings of 2 slots, words of 2 bytes, transmit frames of 4 bytes in RAM, of which 3 are sent, and of 1, one receive frame; any two of link switch, core reset, RESET, at any clock; mailbox full of a former core's data |
| `enet_link_live` | `MacLeavesBtx`, `BridgeReturns`, `RxServed`, `MacPublished` | link up; three receive frames, one of them too long; one change of the address |
| `enet_link_wedge` | `MacLeavesBtx`, violated | link switched off and on |
| `hardclock` | `TickNotLost`, `ExactPeriod` | prescaler 2, periods 0, 1 and 3 |
| `sound_in` | `DoneMeansFilled`, `ChainKept`, `NoSilentLoss`, `AllRecorded` | words of 2 samples, four buffers of one or two words, the last outside RAM, one abort, codec switched three times |
| `exception_diag` | `SelectorCorrect`, `RecordIntact`, `ReaderSafe`, `BridgeAckOwn` | ring of 2 entries over stale RAM (so it wraps and evicts), records of 2 words, two frames, candidate, return, delivery and exit events, one reset at any clock, a record of an earlier run in DDR3 or not. The proofs lift ring and record size |
| `scsi` | `CauseNonzero`, `NoOrphan`, `DataIntact`, `OneInterrupt`, `Confined`, `Ends` | two attempts. The first is one of 12 requests: reads and writes of one and two sectors in one to three windows that end inside the channel's buffer, at its end or beyond RAM, past the end of the disk, to a protected disk, to an absent one (whose identify message and CDB the driver must flush: the FIFO of 3 has an entry more than a request uses, so that what is left over would show), without data; MODE_DMA set before or after the transfer has started. It is finished, or given up at any access with either reset. The second is a read that fills a part of its window or a write past the end of the disk: either may follow either, so that a stray write or byte of the first falls outside the windows and sectors of the second or into its data. Up to two slots lost to other engines while a word waits; 3 flush pumps (8 in the driver; 3 write more than a buffer of 2 words can hold, and exceed a window). A RESET followed by a BUS RESET takes three attempts and is left to the proofs |
| `scsi_bus_reset` | `CauseNonzero`, violated | a bus reset that is to be reported |

Types are checked once per composition (in `enet_link` for `enet_link_live`, too),
except where they are proved only: `ddram_port`, `hardclock` and `exception_diag`
(`TypeCorrect`, `HardclockTypes`, `DiagnosticTypes`). Every property has a mutant
of the code in `PROJECT.json` that violates it. Deadlock is checked everywhere:
the clock never stops.

### Fairness

The clock runs (weak fairness of a clock step). The DDR3 controller leaves BUSY
and returns data again and again (strong fairness of the clock that accepts,
because the request may be withdrawn by a reset). RAM answers a request that
waits (weak). The free-running tick counters come round while the engine is idle
(strong: a tick may fall into other work any number of times, but the tick period
is far longer than any of it), and clocks without a poll exist. The sound driver
carries on with what it has begun. In
`scsi` RAM answers a word that waits, a delay runs out, the block device goes on streaming, and the driver carries on when it has an access to make or
an interrupt to serve (weak, each of its own, for each waits steadily until it is
served); the driver's access gets the bus in one of the idle clocks that come again
and again between the engines' words (strong: in `S_IDLE` the CPU comes first, but the
clock after an access goes to the engines). No fairness is assumed of resets, switches,
the ARM, or what the CPU writes.

`DmaServed` is conditional because the code is: an engine waits for the engines
before it in the chain, and `berr_hold` locks DMA out, so an endless run of bus
errors would starve it. `RxDrains` excepts a driver that enables a used up
receive window again and again.

### Findings

* `enet_dma_reset`: writing the MB8795's reset register while a packet is being
  delivered zeroes `rx_len` under the engine (`next_enet_dma.sv:274`), whose next
  test `rx_pos >= rx_len` then succeeds; `E_RX_END` ("packet delivered
  completely") reports PKT_OK and a completed DMA for a truncated packet.
* `enet_link_wedge`: if the link goes down while the bridge fetches a frame, the
  MAC withdraws its request and the bridge waits in `S_TX_FETCH` for a byte that
  never comes; `disable_pending` is looked at only in `S_IDLE`. When the link is
  up again the MAC parks its next frame in `E_BTX` for ever, the wedge that
  `next_enet_bridge.sv:170` sets out to avoid. A RESET instruction of the guest in
  the middle of a transmit has the same effect on the bridge.
* `scsi_bus_reset`: a bus reset with `CFG1_RESREPT` clear sets INTSTATUS to RST and
  delays its interrupt by 500 us (`next_scsi.sv:893`), but leaves a STAT_INT that is
  already up. Software that answers the pending interrupt reads, and thereby clears,
  the new cause at once; when the delay ends STAT_INT rises again with INTSTATUS 0,
  which `docs/SCSI_TI.md:39` says the bench excludes. In the `scsi` run the driver sets
  `CFG1_RESREPT`, at power-up and after each RESET, which clears it: a BUS RESET
  straight after a RESET would be reported.

## Proofs

`DdramPortProofs` (any windows, byte set and operation sets):

* `TypeCorrect`: `Spec => []TypeOK`.
* `ReadOwnerCorrect`: `Spec => []ReadOwner`. `ReadOwner` alone is not inductive:
  that the DDR3 owes at most one read, and whose, follows from what the registers
  of adapter and arbiter say about each other. `Inv` adds that a read command
  implies `busy`, that `busy` means the command is out or the arbiter tracks the
  read, that a tracked read keeps the arbiter in `G_A`, that the arbiter leaves
  `G_A` only for a mailbox master that still waits, and that something is in
  flight exactly when one of the two waits for it. A master may change its
  request only after its acknowledge, which is why the word in flight is still the
  one asked for.
* `PortAIsRam`, `PortBIsRam`: `Spec => PortAImplementsRam` and
  `Spec => PortBImplementsRam`, the refinement of `AtomicRam` step by step. Each
  action of the model maps to the abstract access in the clock in which the DDR3
  accepts the write or returns the word, to the request or release of the master,
  to a reset, or to a stutter. The invariant is strengthened by `Linked` (the
  command in the adapter's registers is the master's request, translated; an
  acknowledged read has its data): during a reset, too, because the master may keep
  its request. Lemmas: two byte swaps undo each other lane by lane
  (`SwappedLanes`), a write to one half leaves the other alone, and the two ports'
  windows are disjoint, so that a step of one is a stutter of the other.

`SystemBusProofs` (any memory, word contents, number of DMA engines and accesses):

* `BusTypeOK`, `BusServesWaitingMaster`, `BusCacheCoherent` and `BusIsSharedRam`
  (`Spec => ImplementsSharedRam`), all from `BusInvariant`: `Spec => []Inv`.
  Coherence is not inductive alone: that a cached half is RAM's or its snoop is on
  the way needs `FreshData` (data between RAM and its reader is what RAM holds),
  which needs to know whose access is in RAM: `ServesWaitingMaster` and, for the
  engines, `EngineGranted`, and that no answer is pending elsewhere (`Handshake`:
  one cycle or walk at a time, answers only in `S_IDLE`). In the refinement the CPU
  sees its answer from the RAM's acknowledge to `mem_ready`, so the abstract access
  happens once, in the clock in which RAM performs it.

`SoundInProofs` (any bytes and samples per word, any number and sizes of aligned
buffers inside or outside RAM, any number of aborts and switches):

* `RecordingTypeOK`, `CompleteBuffersFilled`, `ChainIsKept` and `LossIsTold`
  (`Spec => NoSilentLoss`), all from `RecordingInvariant`: `Spec => []Inv`. The
  lemmas `CodecFields` to `ChFields` turn the pipeline of a clock into one equation
  per register (`ChNext`); everything else reasons from these. `Handover` says what
  the channel may be doing given where the driver is: while the driver has nothing
  to write it records the first or the last of the buffers handed over or has
  stopped after them (`Chain`, or `Missed` when the last one came too late); between
  the handler's two looks at the CSR the writes still to come are a suffix of
  `Refill` (`Refilling`); while it programs the channel, a suffix of `Program`,
  with the registers already written (`Programming`). `Request` is what makes an
  aborted access harmless: a request counts iff it is for the word at `next_ptr`.
  `Continuous` counts samples: the shift register holds the latest ones and
  `sample_count` of them follow the last word sent. `LossIsTold` needs `Handover`
  as well: a word that meets an enabled channel with an unusable window would be
  dropped without overrun, and the driver's protocol excludes it.

`EnetDmaProofs` (any byte set, packet sizes, padding, RAM, driver settings and
register writes, in any clock):

* `TypeCorrect`, `BusyMeansPending` and `DeliveredIntact` (`Spec => []PacketIntact`),
  all from `InvAlways`: `Spec => []Inv`. First, per engine state, what it assigns
  (`IdlePatch` to `RxEndPatch`); a clock is these assignments over what the CPU's
  write and the packet buffer leave (`Clocked`, `LeftIs`: a write can clear the
  packet only by the MB8795's reset, which clears its length on both sides and
  NET_BUSY together); hence a clock has one of a few `Effects` on the packet
  gathered and the packet due (`ClockEffects`). `PacketIntact` is not inductive:
  `Inv` adds that the bytes gathered are those in the buffer, the write still in its
  port included (`GatherInv`), that no packet is due while one is gathered and the
  port rests outside `E_TX_RD` (`EngOf`), that the buffer's output is the byte at
  `rx_pos` when it is sent (`PortOf`, which is what the state `E_RX_PRE` is for), and
  that of the packet due, which the buffer still holds, exactly `rx_pos` bytes have
  been delivered (`DueInv`). The pointers stay in range because a window's end
  bounds them when a byte is requested and only the engine moves them until it comes.

`EnetLinkProofs` (any size of words, rings, frames and trailer, any list of frames
that fit from the guest and any at all from the ARM, any number of switches, resets
and address changes; the environment's obligations of "Abstractions" are part of the
model):

* `TxRingHolds` (`Spec => []TxRingIntact`) and `RxHolds` (`Spec => []RxIntact`), both
  from `LinkInvariant`: `Spec => []IInv`. `BridgeInv` says what operation the bridge
  waits for in `S_WAIT`, by the state it left; `InitInv` which words of the mailbox
  the initialisation has cleared before it writes MAGIC (this is what keeps the ring
  of the preceding core from counting); `LiveInv` that from then on the pointers in
  the mailbox are the bridge's, except for the one whose write has not landed yet,
  and that the receive slots between them hold the ARM's frames in order.

  `RingInv` is `TxRingIntact` for the frames up to `Bound`: all those sent, except the
  one that is still being gathered or waits in `E_BTX`. The order of the ring needs
  this, because the frame the bridge publishes next must be newer than all that are
  published. `TxInv` follows that frame: its bytes are in the rows of the slot already
  written, the row being packed, and the byte on its way from the MAC's buffer
  (`Bytes`), which is the frame the MAC holds while it is in `E_BTX` (`Hold`). If the
  MAC lets go of it (the link is off, or a RESET) the bridge may still finish the
  word or the frame it has begun, which therefore must stay known. A ring pointer,
  then, is raised only over a slot that holds a whole frame (`Landing`). The slot
  being written is not among the last `Slots - 1` published ones, so that a write to
  it leaves those alone (`RingAdvances`; division and remainder by a symbolic
  `Lanes` and `Slots` are the lemmas `DivUnique` to `ModApart`).

  `MacInv` says what the MAC has gathered, the byte in the write port included, and
  that the driver leaves pointer and limit alone meanwhile. `RxInv` follows a frame
  from the slot through the word being streamed into the MAC's buffer: `Streaming`
  until the last byte is taken, `Streamed` in the clock after it, when the write of
  RX_RPTR has started; its number is `gen_base + rx_rptr`, which is why a frame
  cannot be taken twice or out of order.

`ScsiProofs` (any sector, buffer and FIFO size, any set of targets, requests and
windows, any timing of bus, disk and driver, any number of attempts and resets of
both kinds; the driver sets CFG1_RESREPT whenever it writes the configuration, which
is the hypothesis `Resrept` of both theorems):

* `CauseNonzeroHolds` and `OneInterruptHolds` (`Spec => OneInterrupt`), both from
  `SpecInv`: `Spec => []Inv`. `Resrept` is needed: when a bus reset is reported,
  the `scsi_bus_reset` run reads the cause before the interrupt comes, and the read
  ends the command, too. It does not say that the register's bit is set, which RESET
  clears: that a bus reset finds it set has to be proved. The invariant has three parts,
  of which `IInv` is the first two.

  `EngineInv` relates the engine to the command: an engine at work belongs to a
  command in progress whose interrupt has not come (`Owned`); the cause of a
  transfer's interrupt is there from the terminal count on (`Caused`); a flush
  returns to where it interrupted the engine, and while one is queued the terminal
  count is reached or the transfer is reported (`Flushed`).

  The controller alone cannot keep this: a command or a register write at the wrong
  time breaks it. Hence `DriverInv`: what the driver has still to write (`Todo`: the
  kinds of the pending accesses and their order) fits what the controller has done
  with what it already has (`Progress`, one case per step of the driver). The proof
  says first of every engine state, command and register write what it assigns to
  the registers of `CoreField`, then that each keeps `EngineInv` (`After`, `Good`);
  one lemma per step of the driver follows.

  `ConfigInv` relates the configuration to the driver: CFG1_RESREPT is set, or the
  write of it is still among the accesses to make, where a RESET of the driver's is
  always followed by that write (`ConfigWork`, `ConfigIdle`, `ResetsLast`); until it
  is made the driver does not give up, so no BUS RESET falls in between.

`HardclockProofs` (any prescaler, set of periods and interrupt sources):

* `HardclockTypes`: `Spec => []TypeOK`; the prescaler stays below its divider.
* `NoTickLost`: `Spec => []TickNotLost`; the invariant adds what a pulse on its
  way between timer and controller says about the tick that is owed.
* `PeriodIsExact`: `Spec => ExactPeriod`, that an expiry comes neither before nor
  after the latched number of microseconds; the invariant adds that the counter equals
  the microseconds elapsed and stays below the latch.

`ExceptionDiagProofs` (any ring size, record length, sets of keys, contexts and
events, and number of resets):

* `SelectorIsCorrect`, `RecordIsIntact`, `ReaderIsSafe`, `BridgeAckIsOwn` and
  `DiagnosticTypes`, all from `DiagnosticInvariant`: `Spec => []Inv`. `Inv` has two
  halves. `TrigInv`: the ring holds the log, newest event just behind `wr_index`
  (`RingOK`); a search has excluded everything newer than the entry it looks at
  (`SearchOK`), and the RAM's output register is that entry when it is compared and
  for as long as a found record is held (`HeldOK`). `PubInv`: what is published
  follows the trigger's DONE, the words written in this boot hold the captured
  record, `captured` is 0 in DDR3 from its clearing to its last write, and a record
  with `captured` set is whole (`PublishOK`); a reader who could still accept has
  read no foreign word (`ReaderOK`). The record is declared before it is known to
  be whole unless the count of landed words includes the one acknowledged in this
  clock, hence `landed`.

The proofs rest on the named `ASSUME`s of the modules (non-empty byte set,
operations of the right shape, disjoint windows, a positive prescaler, `None`
distinct from every word, operation and port, at least one buffer with aligned,
increasing boundaries, register writes of the registers' types, transmit frames that fit buffer
and slot), which TLC
evaluates on every run.

Only model-checked: all liveness (fairness and ENABLED are out of the prover's
reach); the type invariant of `EnetLink` (what its properties need of it is in `IInv`;
the full one also needs `Byte` to contain every byte the frames are made of); and of
`Scsi` the type invariant, `NoOrphan`, `DataIntact` and `Confined`, whose invariant has
to relate FIFO, buffers, RAM and disk word by word, beyond the control that
`ScsiProofs` is about.

## Plan

Done: DDR3 path, system bus, ethernet controller and bridge, interrupt
controller, hardclock, sound input, exception diagnostic, disk transfers over
SCSI. In order of importance there remain

1. Proofs: the other properties of `Scsi`, starting with its types.
2. The rest of `next_scsi.sv`: programmed transfers, TRANSFER PAD, message phases,
   sense data, and the floppy controller, which borrows the channel.
3. Sound output and the printer, with an abstract DMA channel that they, sound
   input and SCSI implement; the keyboard/mouse/sound serial link.
4. Magneto-optical drive and the Reed-Solomon codec, the latter as a pure
   algorithm over a small field against a reference definition.
5. Event counter; RTC.

## Not modelled

* Of SCSI: transfers without the DMA bit, TRANSFER PAD, selection without ATN,
  message rejection, the commands answered from a table and their sense data,
  images of different sizes, the floppy's use of the channel.
* Magneto-optical drive, Reed-Solomon codec, floppy, printer, sound output, RTC and
  event counter: see the plan.
* SCC, BMAP and DMA stubs (registers without behaviour), the ADC's filters (numeric
  quality), video timing and block RAMs.
* `src/sys`, the MiSTer framework, and `src/reference/previous`, the Previous
  emulator: a third-party C program (170,000 lines, a submodule according to
  `src/README.md:5`) kept as the reference for the hardware's behaviour. None of it
  is part of the core; the core's own implementation is SystemVerilog.
* The CPU core is a submodule outside the tree and appears by its bus protocol
  only.
