------------------------------- MODULE Assign -------------------------------
(***************************************************************************)
(* The nonblocking assignments of a clock, as a record from registers to   *)
(* the values assigned: where two assign the same register the later one   *)
(* wins, and a register nobody assigns keeps its value.                    *)
(***************************************************************************)

(* The assignments f and, where they assign nothing, the assignments g.    *)
(* (Chosen from a set of one, so that TLC evaluates f and g just once.)    *)
f ++ g ==
    CHOOSE h \in {[x \in DOMAIN p \cup DOMAIN q |-> IF x \in DOMAIN p THEN p[x] ELSE q[x]] :
                      p \in {f}, q \in {g}} : TRUE
=============================================================================
