----------------------------- MODULE MCEnetLink ----------------------------
(* Words of two bytes and rings of two slots; frames of one word and of    *)
(* two, so that a frame can be interrupted between words; the ARM's second *)
(* frame is too long.                                                      *)
EXTENDS EnetLink

MCTxEnd == <<0, 4, 5>>
MCRxLen == <<3, 4, 1>>
OneRxLen == <<3>>
NoRxLen == <<>>
MCByte == 0 .. 4 \cup {RxByte(k, p) : k \in {1, 2, 3, StaleFrame}, p \in 0 .. 3}
=============================================================================
