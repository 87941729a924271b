----------------------------- MODULE SharedRam -----------------------------
(***************************************************************************)
(* What the bus of next_system.sv promises its masters (the CPU, the MMU   *)
(* table walker and the DMA engines): one memory, in which every request   *)
(* takes effect in one indivisible step, at most one per clock, at some    *)
(* moment while its master is waiting.  Ports move in the same clock       *)
(* independently of each other.                                            *)
(*                                                                         *)
(* A master that is reset may withdraw its request; the operation it had   *)
(* started may then still reach the memory later, once, or never.          *)
(***************************************************************************)
CONSTANTS Port,         \* the masters
          Cell,         \* 32-bit words of main RAM
          Lane,         \* byte lanes of a word
          None          \* not an operation, not a port

VARIABLES req,          \* req[p]: p waits for, or has just got, an answer
          op,           \* op[p]: its operation, stable while req[p]
          ack,          \* ack[p]: the operation has happened
          dout,         \* dout[p]: what p reads while ack[p]
          mem,
          orphan        \* a withdrawn operation still on its way, or None

vars == <<req, op, ack, dout, mem, orphan>>

After(o) ==
    IF o.we
    THEN [mem EXCEPT ![o.cell] =
            [l \in Lane |-> IF l \in o.be THEN o.din[l] ELSE @[l]]]
    ELSE mem
Answer(o) == [l \in o.view |-> mem[o.cell][l]]

Idle(p) == ~req[p] /\ (req'[p] => ~ack'[p])

Wait(p) == req[p] /\ ~ack[p] /\ req'[p] /\ op'[p] = op[p] /\ ~ack'[p]

Done(p) ==
    /\ req[p] /\ ~ack[p]
    /\ req'[p] /\ op'[p] = op[p] /\ ack'[p]
    /\ ~op[p].we => dout'[p] = Answer(op[p])

Hold(p) ==
    /\ req[p] /\ ack[p]
    /\ req'[p] /\ op'[p] = op[p] /\ ack'[p] /\ (~op[p].we => dout'[p] = dout[p])

Release(p) == req[p] /\ ack[p] /\ (req'[p] => ~ack'[p])

Withdraw(p) == req[p] /\ ~req'[p]

Init == (\A p \in Port : ~req[p]) /\ orphan = None

Gives(p) == Withdraw(p) /\ ~ack[p]

(* Who completes in this clock (None: nobody who is still waiting).        *)
MemStep(who) ==
    \/ who # None /\ mem' = After(op[who]) /\ orphan' = orphan
    \/ who = None /\ mem' = mem /\ orphan' \in {orphan, None}
    \/ who = None /\ mem' = mem /\ \E p \in Port : Gives(p) /\ orphan' = op[p]
    \/ who = None /\ orphan' = None
       /\ \E p \in Port : Gives(p) /\ mem' = After(op[p])
    \/ who = None /\ orphan # None /\ orphan' = None /\ mem' = After(orphan)

Next ==
    \E who \in Port \cup {None} :
        /\ \A p \in Port :
             IF p = who THEN Done(p)
             ELSE Idle(p) \/ Wait(p) \/ Hold(p) \/ Release(p) \/ Withdraw(p)
        /\ MemStep(who)

Spec == Init /\ [][Next]_vars
=============================================================================
