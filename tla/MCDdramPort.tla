---------------------------- MODULE MCDdramPort ----------------------------
(* One DDR3 word of guest RAM (two 32-bit cells) and one mailbox word.     *)
(* The value written has a different byte in every lane, so a lane out of  *)
(* place shows; the memory starts as all zero bytes.                       *)
EXTENDS DdramPort

CONSTANTS r1, b1

Distinct == [i \in Lane4 |-> 4 - i]
Ones == [i \in Lane8 |-> 1]

BusRead(h) == [we |-> FALSE, word |-> r1, half |-> h, be |-> Lane4, din |-> Distinct]
BusWrite(h, be) == [we |-> TRUE, word |-> r1, half |-> h, be |-> be, din |-> Distinct]
MCRamOps == {BusRead(0), BusRead(1), BusWrite(0, {2, 3}), BusWrite(1, {0}),
             BusWrite(1, Lane4)}
MCBoxOps == [we : BOOLEAN, word : {b1}, din : {Ones}]
=============================================================================
