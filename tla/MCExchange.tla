----------------------------- MODULE MCExchange -----------------------------
(* Small instances of Exchange for TLC.                                    *)
EXTENDS Exchange

CONSTANTS alice, bob, hello, c1, c2

Request(i, o, c, s) ==
    [id |-> i, owner |-> o, prompt |-> hello, conv |-> c, streamed |-> s, cacheable |-> TRUE]

\* The same prompt: alice asks twice, once as a stream, and so does bob, into a
\* conversation that may be his, hers, or nobody's.
SamePrompt == {Request(1, alice, c1, FALSE), Request(2, alice, None, TRUE),
               Request(3, bob, c1, TRUE)}

OneStream == {Request(1, alice, None, TRUE)}
=============================================================================
