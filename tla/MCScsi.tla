------------------------------- MODULE MCScsi ------------------------------
(* Words of two bytes, a channel buffer of two words, sectors of four      *)
(* bytes.  The windows leave the transfers an odd word in the channel's    *)
(* buffer, end where they end, or reach beyond main RAM, the block         *)
(* addresses beyond the disk; bus id 1 has no disk and 2 a protected one.  *)
EXTENDS Scsi

Req(op, lba, n, unit, win, late) ==
    [op |-> op, lba |-> lba, n |-> n, unit |-> unit, win |-> win, late |-> late]
MCRequest == {
    Req("READ", 0, 2, 0, <<2, 4, 8, 12>>, FALSE),
    Req("READ", 0, 2, 0, <<0, 4, 8>>, TRUE),
    Req("READ", 1, 1, 0, <<2, 4, 12>>, FALSE),
    Req("READ", 1, 2, 0, <<2, 4, 12>>, FALSE),
    Req("READ", 0, 2, 0, <<8, 12, 16>>, FALSE),
    Req("WRITE", 0, 2, 0, <<2, 4, 8, 12>>, FALSE),
    Req("WRITE", 1, 2, 0, <<2, 4, 12>>, TRUE),
    Req("WRITE", 0, 2, 0, <<8, 12, 16>>, FALSE),
    Req("WRITE", 0, 1, 2, <<0, 4>>, FALSE),
    Req("TEST UNIT READY", 0, 0, 0, <<0>>, FALSE),
    Req("OTHER", 0, 0, 0, <<0>>, FALSE),
    Req("OTHER", 0, 0, 1, <<0>>, FALSE)}
(* What follows another request: a read that fills a part of its window,   *)
(* which the flush pumps go on filling, and a write past the end of the    *)
(* disk.                                                                   *)
MCFollowing == {
    Req("READ", 1, 1, 0, <<2, 4, 12>>, FALSE),
    Req("WRITE", 1, 2, 0, <<2, 4, 12>>, TRUE)}
=============================================================================
