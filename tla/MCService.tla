----------------------------- MODULE MCService -----------------------------
(* A small instance of Service for TLC.                                    *)
EXTENDS Service

CONSTANTS alice, bob, new, old, other, wrong, key, hello, a, b

\* Alice is moving from her old key to a new one; the key of bob was given twice,
\* and the last entry counts.
Keyring == <<[token |-> old, client |-> alice, scopes |-> {"chat"}],
             [token |-> other, client |-> alice, scopes |-> {"chat", "admin"}],
             [token |-> new, client |-> alice, scopes |-> {"chat"}],
             [token |-> other, client |-> bob, scopes |-> {"chat"}]>>

Call(i, t, e, h, x, p) ==
    [id |-> i, token |-> t, endpoint |-> e, header |-> h, body |-> x, proc |-> p]

First == Call(1, old, "chat", key, hello, a)
Retry == Call(2, new, "chat", key, hello, b)
Elsewhere == Call(3, new, "structured", key, hello, b)
Foreign == Call(4, other, "chat", key, hello, a)
Stream == Call(5, old, "stream", None, hello, a)
Unkeyed == Call(6, old, "chat", None, hello, a)
KeyedStream == Call(7, old, "stream", key, hello, a)
Blank == Call(8, old, "chat", Invalid, hello, b)
Broken == Call(9, old, "chat", key, Malformed, a)
Unknown == Call(10, wrong, "chat", key, hello, a)
Forbidden == Call(11, old, "usage", None, None, a)
Creating == Call(12, other, "create", None, None, a)

AllCalls == {First, Retry, Elsewhere, Foreign, Stream, Unkeyed, KeyedStream, Blank,
             Broken, Unknown, Forbidden, Creating}

\* One Idempotency-Key from a client twice, and then no allowance left; from two
\* clients; at two endpoints; every way to be turned away; calls without a key.
Scenes == {{First, Retry, Stream}, {First, Foreign}, {First, Elsewhere},
           {Retry, Broken, KeyedStream}, {Stream, Unknown, Forbidden},
           {Unkeyed, Blank, Creating}, {Unkeyed, Stream, Foreign}}
============================================================================
