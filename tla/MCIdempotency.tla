--------------------------- MODULE MCIdempotency ---------------------------
(* Small instances of Idempotency for TLC.                                 *)
EXTENDS Idempotency

CONSTANTS k1, hello, goodbye, a, b

\* A request and its retry, through the other process, under one key.
Retry == {[id |-> 1, key |-> k1, fp |-> hello, proc |-> a],
          [id |-> 2, key |-> k1, fp |-> hello, proc |-> b]}

\* ... and a different request under the same key, by mistake.
Misuse == Retry \cup {[id |-> 3, key |-> k1, fp |-> goodbye, proc |-> a]}
============================================================================
