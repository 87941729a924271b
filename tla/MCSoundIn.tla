----------------------------- MODULE MCSoundIn -----------------------------
(* Words of two samples, three buffers of one and two words.  Sample       *)
(* numbers repeat after three words.                                       *)
EXTENDS SoundIn

MCDesc == <<0, 2, 6, 8>>
(* The last buffer reaches beyond main RAM.                                *)
BadDesc == <<0, 2, 6, 8, 10>>
=============================================================================
