----------------------------- MODULE AtomicRam -----------------------------
(***************************************************************************)
(* What a RAM port of the core promises its master: a level request is     *)
(* answered by an acknowledge, and the operation it names takes       *)
(* effect on the memory in one indivisible step, the one that raises the   *)
(* acknowledge.  A reset withdraws the request; a write it cuts short has  *)
(* either happened completely or not at all.                               *)
(*                                                                         *)
(* next_ddram.sv states this contract in its port list ("level req, level  *)
(* ack: ack holds until req drops"), next_ddram_arb.sv answers its port B  *)
(* with an acknowledge that falls as the request does; the bus of next_system.sv and every   *)
(* DMA engine behind it rely on nothing else.                              *)
(***************************************************************************)
CONSTANTS Cell,         \* addresses the port can name
          Lane,         \* byte lanes of one cell
          Byte          \* byte values

VARIABLES req,          \* request level
          op,           \* the request's operation, stable while req holds
          ack,          \* acknowledge level
          dout,         \* read data, meaningful while ack holds
          mem           \* contents, one byte per lane of each cell

vars == <<req, op, ack, dout, mem>>

Data == [Lane -> Byte]
Op == [we : BOOLEAN, cell : Cell, be : SUBSET Lane, din : Data]

(* A write replaces the enabled lanes of one cell and nothing else.        *)
Written(m, o) ==
    [m EXCEPT ![o.cell] =
        [l \in Lane |-> IF l \in o.be THEN o.din[l] ELSE @[l]]]

Init ==
    /\ req = FALSE
    /\ op \in Op
    /\ ack = FALSE
    /\ dout \in Data
    /\ mem \in [Cell -> Data]

Issue ==
    /\ ~req
    /\ req' = TRUE
    /\ op' \in Op
    /\ ack' = FALSE
    /\ UNCHANGED <<dout, mem>>

Complete ==
    /\ req /\ ~ack
    /\ ack' = TRUE
    /\ IF op.we THEN mem' = Written(mem, op) /\ dout' = dout
                ELSE mem' = mem /\ dout' = mem[op.cell]
    /\ UNCHANGED <<req, op>>

Release ==
    /\ req /\ ack
    /\ req' = FALSE
    /\ ack' \in BOOLEAN
    /\ UNCHANGED <<op, dout, mem>>

Quiet ==
    /\ ~req /\ ack' = FALSE
    /\ UNCHANGED <<req, op, dout, mem>>

Reset ==
    /\ req' = FALSE /\ ack' = FALSE
    /\ \/ mem' = mem
       \/ req /\ ~ack /\ op.we /\ mem' = Written(mem, op)
    /\ dout' \in Data
    /\ op' = op

Next == Issue \/ Complete \/ Release \/ Quiet \/ Reset

Spec == Init /\ [][Next]_vars
=============================================================================
