---------------------------- MODULE MCSystemBus ----------------------------
(* One word of RAM and two engines, the first one writing (or straying out *)
(* of RAM), the second one reading.  Stores clear a byte, DMA writes set   *)
(* bytes, so the order in which they land shows in the word.               *)
EXTENDS SystemBus

CONSTANT c1

Low16 == [h \in Half |-> 0]
Fill(b) == [l \in Lane |-> b]
Cpu(at, we, lo, lanes) ==
    [at |-> at, we |-> we, cell |-> c1, lo |-> lo, lanes |-> lanes, din |-> Low16]
MCCpuOps ==
    {Cpu("ram", FALSE, FALSE, Half), Cpu("ram", TRUE, FALSE, {0}),
     Cpu("int", TRUE, FALSE, Half), Cpu("none", FALSE, FALSE, Half)}
MCWalkOps ==
    {[ram |-> r, we |-> FALSE, cell |-> c1, be |-> Lane, din |-> Fill(0)] : r \in BOOLEAN}
    \cup {[ram |-> TRUE, we |-> TRUE, cell |-> c1, be |-> Lane, din |-> Fill(0)]}
Dma(ram, we) ==
    [ram |-> ram, we |-> we, cell |-> c1, be |-> IF we THEN {2, 3} ELSE Lane, din |-> Fill(1)]
MCDmaOps == [e \in Engine |-> IF e = 1 THEN {Dma(TRUE, TRUE), Dma(FALSE, TRUE)}
                              ELSE {Dma(TRUE, FALSE)}]
=============================================================================
