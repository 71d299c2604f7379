----------------------------- MODULE KeyedOnce -----------------------------
(***************************************************************************)
(* What idempotency keys promise, without Redis, clocks or failures: of    *)
(* the requests that share a key one at a time runs, a response is kept    *)
(* only by the request that runs and never replaced, and a request with    *)
(* the same body is told the kept response instead of running.             *)
(***************************************************************************)
EXTENDS Integers

CONSTANTS Requests, Keys, None

VARIABLES
    runner,    \* the request that runs for a key, or None
    kept,      \* the request whose response is kept for a key, or None
    told       \* whose response a request was told instead of running, or None

vars == <<runner, kept, told>>

Init ==
    /\ runner = [k \in Keys |-> None]
    /\ kept = [k \in Keys |-> None]
    /\ told = [r \in Requests |-> None]

\* A request runs: its key is not taken, and no response is kept for it.
Start(r) ==
    /\ runner[r.key] = None
    /\ kept[r.key] = None
    /\ runner' = [runner EXCEPT ![r.key] = r]
    /\ UNCHANGED <<kept, told>>

\* The runner is done: its response is kept.
Keep(r) ==
    /\ runner[r.key] = r
    /\ runner' = [runner EXCEPT ![r.key] = None]
    /\ kept' = [kept EXCEPT ![r.key] = r]
    /\ UNCHANGED told

\* Runners stop without a response being kept: they failed, or died together.
Stop(gone) ==
    /\ gone # {}
    /\ \A k \in gone : runner[k] # None
    /\ runner' = [k \in Keys |-> IF k \in gone THEN None ELSE runner[k]]
    /\ UNCHANGED <<kept, told>>

\* The time of kept responses is over.
Forget(old) ==
    /\ old # {}
    /\ \A k \in old : kept[k] # None
    /\ kept' = [k \in Keys |-> IF k \in old THEN None ELSE kept[k]]
    /\ UNCHANGED <<runner, told>>

\* A retry is told the kept response to the same body.
Tell(r) ==
    /\ kept[r.key] # None
    /\ kept[r.key].fp = r.fp
    /\ told' = [told EXCEPT ![r] = kept[r.key]]
    /\ UNCHANGED <<runner, kept>>

Next ==
    \/ \E r \in Requests : Start(r) \/ Keep(r) \/ Tell(r)
    \/ \E ks \in SUBSET Keys : Stop(ks) \/ Forget(ks)

Spec == Init /\ [][Next]_vars

============================================================================
