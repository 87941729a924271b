----------------------------- MODULE MCEnetDma -----------------------------
(* Transmit buffers at 0..3, receive buffers at 4..7, nothing at 8.  Every *)
(* byte of RAM is different.                                               *)
EXTENDS EnetDma

MCTxByte == [a \in 0 .. (RamTop - 1) |-> a]

Running == [stopped |-> FALSE, rx_mode |-> "normal", tx_en |-> TRUE, rx_en |-> TRUE]
Eop(a) == [a |-> a, f |-> TRUE]
Part(a) == [a |-> a, f |-> FALSE]

Single == [tx_next |-> 0, tx_limit |-> Eop(3), rx_next |-> 4, rx_limit |-> 7]
Chained == [tx_next |-> 0, tx_limit |-> Part(1), tx_start |-> 1, tx_stop |-> Eop(3),
            tx_sup |-> TRUE, rx_next |-> 4, rx_limit |-> 5, rx_start |-> 5,
            rx_stop |-> 8, rx_sup |-> TRUE]
Short == [tx_next |-> 1, tx_limit |-> Eop(2), rx_next |-> 4, rx_limit |-> 8]
Long == [tx_next |-> 0, tx_limit |-> Eop(6), rx_next |-> 4, rx_limit |-> 8]
TooSmall == [tx_next |-> 0, tx_limit |-> Eop(3), rx_next |-> 4, rx_limit |-> 6]
BadTx == [tx_next |-> 7, tx_limit |-> Eop(9), rx_next |-> 4, rx_limit |-> 8]
BadRx == [tx_next |-> 0, tx_limit |-> Eop(3), rx_next |-> 6, rx_limit |-> 9]
NotMine == [tx_next |-> 2, tx_limit |-> Eop(4), rx_next |-> 4, rx_limit |-> 8]
MCPrograms ==
    {p ++ Running : p \in {Single, Chained, Short, Long, TooSmall, BadTx, BadRx, NotMine}}

Csr(ch, cmd) == [reg |-> ch, v |-> cmd]
Reset(v) == [reg |-> "reset", v |-> v]
MCWrites ==
    {Csr("tx_csr", {"SETENABLE"}), Csr("rx_csr", {"SETENABLE", "CLRCOMPLETE"}),
     Csr("rx_csr", {"RESET"}), Reset(TRUE), Reset(FALSE),
     [reg |-> "dis_loop", v |-> TRUE]}
ResetWrites == {Reset(TRUE), Reset(FALSE)}
=============================================================================
