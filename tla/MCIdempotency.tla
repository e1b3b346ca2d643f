--------------------------- MODULE MCIdempotency ---------------------------
(* Idempotency on small instances: requests that share one key, because    *)
(* different keys never meet.                                              *)
EXTENDS Idempotency

CONSTANTS
    k1,            \* the key
    r1, r2, r3,    \* requests
    a, b           \* two bodies

MCKeyOf == [r \in Requests |-> k1]

\* r3 reuses the key of the other two with another body.
MCBodyOf == [r \in Requests |-> IF r = r3 THEN b ELSE a]
=============================================================================
