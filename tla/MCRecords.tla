----------------------------- MODULE MCRecords -----------------------------
(* A small instance of Records for TLC.                                    *)
EXTENDS Records

CONSTANTS alice, bob, c1, old, small, large

Work(i, o, c, k, m) ==
    [id |-> i, owner |-> o, conv |-> c, kind |-> k, model |-> m, input |-> 3, output |-> i]

\* An exchange that opens a conversation and two that continue it, and an
\* analysis that was paid for and rejected.
TwoInOne == {Work(1, alice, None, "fresh", small), Work(2, alice, c1, "fresh", large),
             Work(3, alice, c1, "cached", small), Work(4, bob, None, "rejected", small)}

\* The owner, and another client who asks for the same conversation and for one that
\* nobody owns.  None is an admin, whom MayRead lets in everywhere.
Readers == {[id |-> 1, client |-> alice, admin |-> FALSE, conv |-> c1],
            [id |-> 2, client |-> bob, admin |-> FALSE, conv |-> c1],
            [id |-> 3, client |-> bob, admin |-> FALSE, conv |-> old]}

AtFirst == [c \in Conversations |-> IF c = old THEN Nobody ELSE None]

Monthly == {[id |-> 1, days |-> 1]}

\* The large model has a price from the second process on; half units are rounded.
PriceLists == <<[m \in Models |-> IF m = small THEN [input |-> 75, output |-> 400] ELSE None],
                [m \in Models |-> [input |-> 51, output |-> 403]]>>
============================================================================
