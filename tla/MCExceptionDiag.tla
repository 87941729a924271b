-------------------------- MODULE MCExceptionDiag --------------------------
(* Two frames, of which the first returns and is delivered.                *)
EXTENDS ExceptionDiag

CONSTANTS k1, k2, i1, i2

Ev(c, k, i, x) == [class |-> c, key |-> k, info |-> i, exit |-> x]
MCIdle == Ev("none", k1, i1, FALSE)
MCStale == {Ev("candidate", k1, i1, FALSE)}
MCEvents == {Ev("candidate", k1, i1, FALSE), Ev("return", k1, i1, FALSE),
             Ev("candidate", k2, i2, FALSE),
             Ev("delivery", k1, i1, FALSE), Ev("delivery", k1, i1, TRUE)}
=============================================================================
