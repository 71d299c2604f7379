---------------------------- MODULE Idempotency ----------------------------
(***************************************************************************)
(* Idempotency keys: app/services/idempotency.py (IdempotencyStore),       *)
(* app/api/idempotency.py (run_idempotent) and app/kv/cooldown.py.         *)
(*                                                                         *)
(* Several API processes share one Redis.  A request with an               *)
(* Idempotency-Key takes its Redis key with SET NX, runs its action, and   *)
(* stores the response under the key or frees the key.  Every Redis        *)
(* command is a step of its own, because the handler awaits it: other      *)
(* requests, time, failures and cancellations come in between.             *)
(*                                                                         *)
(* Abstracted: a response body is named by the request that produced it,   *)
(* a fingerprint (a SHA-256 of the body) is a value compared for equality, *)
(* seconds are ticks.  The action itself (generate_reply, analyze) is one  *)
(* step that returns or raises, and commits once or, if it raises, maybe.  *)
(***************************************************************************)
EXTENDS Integers, FiniteSets

CONSTANTS
    Requests,        \* records [id, key, fp, proc]: a first sending or a retry of it
    Keys,            \* Redis keys make_key("idem", client, sha256(key))
    Fingerprints,
    Processes,
    LockSeconds,     \* idempotency_lock_seconds
    TtlSeconds,      \* idempotency_ttl_seconds
    CooldownSeconds, \* COOLDOWN_SECONDS
    MaxRun,          \* the longest a request keeps its marker, in ticks (environment)
    MaxFaults,       \* bound on Redis errors, cancellations and process crashes
    MaxLosses,       \* bound on evictions and restarts of Redis
    Losable,         \* the states of the entries that Redis loses: markers, responses
    None             \* no value: the nil reply of GET, or no response

ASSUME RequestsAssumption ==
    \A r \in Requests : r.key \in Keys /\ r.fp \in Fingerprints /\ r.proc \in Processes
ASSUME TimesAssumption ==
    /\ LockSeconds \in Nat \ {0}
    /\ TtlSeconds \in Nat \ {0}
    /\ CooldownSeconds \in Nat
    /\ MaxRun \in Nat
ASSUME BoundsAssumption == MaxFaults \in Nat /\ MaxLosses \in Nat

\* A Redis value: a marker or a stored response, with its time to live.
Entries == [state : {"in_progress", "done"}, fp : Fingerprints,
            body : Requests \cup {None}, ttl : Nat \ {0}]

ASSUME NoneAssumption == None \notin Requests /\ None \notin Entries

VARIABLES
    entry,     \* what Redis holds under each key: a marker, a stored response, or None
    pc,        \* where the handler of each request stands
    outcome,   \* what begin() returned to a request that runs its action
    served,    \* the response body a request was answered with
    age,       \* ticks since the marker of a protected run was set
    cooldown,  \* ticks until each process uses Redis again (Cooldown._until)
    effects,   \* requests whose action committed since their key was last free by age
    faults, losses

vars == <<entry, pc, outcome, served, age, cooldown, effects, faults, losses>>

----------------------------------------------------------------------------
(* Values.                                                                 *)

Marker(r) == [state |-> "in_progress", fp |-> r.fp, body |-> None, ttl |-> LockSeconds]
Stored(r) == [state |-> "done", fp |-> r.fp, body |-> r, ttl |-> TtlSeconds]

\* The handler is inside begin(), awaiting the named Redis command.
BeginStages == {"set", "get", "reset", "reget"}
\* The handler runs the action or awaits the command that follows it.
RunStages == {"running", "complete", "abort"}
\* Answered (200, stored 200, 409, 422, an error) or gone without an answer.
Finished == {"ok", "replay", "conflict", "reuse", "error", "gone"}
Stages == {"new"} \cup BeginStages \cup RunStages \cup Finished

\* A request that took its key and has not yet stored a response nor freed it.
Holds(r) == outcome[r] = "proceed" /\ pc[r] \in RunStages

TypeOK ==
    /\ entry \in [Keys -> Entries \cup {None}]
    /\ pc \in [Requests -> Stages]
    /\ outcome \in [Requests -> {"none", "proceed", "unprotected"}]
    /\ served \in [Requests -> Requests \cup {None}]
    /\ age \in [Requests -> Nat]
    /\ cooldown \in [Processes -> Nat]
    /\ effects \in [Keys -> SUBSET Requests]
    /\ faults \in 0..MaxFaults
    /\ losses \in 0..MaxLosses

Init ==
    /\ entry = [k \in Keys |-> None]
    /\ pc = [r \in Requests |-> "new"]
    /\ outcome = [r \in Requests |-> "none"]
    /\ served = [r \in Requests |-> None]
    /\ age = [r \in Requests |-> 0]
    /\ cooldown = [p \in Processes |-> 0]
    /\ effects = [k \in Keys |-> {}]
    /\ faults = 0
    /\ losses = 0

----------------------------------------------------------------------------
(* Helpers: one Redis command, one failure.                                *)

\* The entry after SET key marker NX EX lock_seconds.
SetNX(r) == IF entry[r.key] = None THEN [entry EXCEPT ![r.key] = Marker(r)] ELSE entry

\* A command whose reply never arrived was executed by Redis or not.
Command(stage, r) ==
    CASE stage \in {"set", "reset"} -> SetNX(r)
      [] stage = "complete"         -> [entry EXCEPT ![r.key] = Stored(r)]
      [] stage = "abort"            -> [entry EXCEPT ![r.key] = None]
      [] OTHER                      -> entry

Fault ==
    /\ faults < MaxFaults
    /\ faults' = faults + 1

\* IdempotencyStore._fail
Trip(p) == cooldown' = [cooldown EXCEPT ![p] = CooldownSeconds]

Goto(r, stage) == pc' = [pc EXCEPT ![r] = stage]

----------------------------------------------------------------------------
(* IdempotencyStore.begin                                                  *)

\* During a cooldown the store is not asked at all: the request runs unprotected.
BeginUnprotected(r) ==
    /\ pc[r] = "new"
    /\ cooldown[r.proc] > 0
    /\ outcome' = [outcome EXCEPT ![r] = "unprotected"]
    /\ Goto(r, "running")
    /\ UNCHANGED <<entry, served, age, cooldown, effects, faults, losses>>

Begin(r) ==
    /\ pc[r] = "new"
    /\ cooldown[r.proc] = 0
    /\ Goto(r, "set")
    /\ UNCHANGED <<entry, outcome, served, age, cooldown, effects, faults, losses>>

\* Mutant of TakeKey: SET without NX overwrites whatever the key holds.
TakeKeyWithoutNX(r) ==
    /\ pc[r] \in {"set", "reset"}
    /\ entry' = [entry EXCEPT ![r.key] = Marker(r)]
    /\ outcome' = [outcome EXCEPT ![r] = "proceed"]
    /\ age' = [age EXCEPT ![r] = 0]
    /\ Goto(r, "running")
    /\ UNCHANGED <<served, cooldown, effects, faults, losses>>

\* SET NX answers True: the request runs.
TakeKey(r) ==
    /\ pc[r] \in {"set", "reset"}
    /\ entry[r.key] = None
    /\ entry' = SetNX(r)
    /\ outcome' = [outcome EXCEPT ![r] = "proceed"]
    /\ age' = [age EXCEPT ![r] = 0]
    /\ Goto(r, "running")
    /\ UNCHANGED <<served, cooldown, effects, faults, losses>>

\* SET NX answers nil: the entry is read next.
KeyTaken(r) ==
    /\ pc[r] \in {"set", "reset"}
    /\ entry[r.key] # None
    /\ Goto(r, IF pc[r] = "set" THEN "get" ELSE "reget")
    /\ UNCHANGED <<entry, outcome, served, age, cooldown, effects, faults, losses>>

\* GET answers nil: the entry vanished between the two commands.  The first
\* time the key is tried once more, the second time the answer is 409.
ReadNothing(r) ==
    /\ pc[r] \in {"get", "reget"}
    /\ entry[r.key] = None
    /\ Goto(r, IF pc[r] = "get" THEN "reset" ELSE "conflict")
    /\ UNCHANGED <<entry, outcome, served, age, cooldown, effects, faults, losses>>

\* Mutant of Verdict: the fingerprint is not compared.
VerdictIgnoringFingerprint(e, r) == IF e.state = "done" THEN "replay" ELSE "conflict"

\* The verdict on an entry that is there: 422, the stored response, or 409.
Verdict(e, r) ==
    CASE e.fp # r.fp                        -> "reuse"
      [] e.fp = r.fp /\ e.state = "done"    -> "replay"
      [] e.fp = r.fp /\ e.state # "done"    -> "conflict"

ReadEntry(r) ==
    /\ pc[r] \in {"get", "reget"}
    /\ entry[r.key] # None
    /\ LET e == entry[r.key] IN
         /\ Goto(r, Verdict(e, r))
         /\ served' = IF Verdict(e, r) = "replay" THEN [served EXCEPT ![r] = e.body]
                                                  ELSE served
    /\ UNCHANGED <<entry, outcome, age, cooldown, effects, faults, losses>>

\* RedisError inside begin(): cooldown, and the request runs unprotected.
BeginFails(r) ==
    /\ pc[r] \in BeginStages
    /\ Fault
    /\ entry' \in {entry, Command(pc[r], r)}
    /\ Trip(r.proc)
    /\ outcome' = [outcome EXCEPT ![r] = "unprotected"]
    /\ Goto(r, "running")
    /\ UNCHANGED <<served, age, effects, losses>>

----------------------------------------------------------------------------
(* run_idempotent around the action                                        *)

\* Mutant of ActionReturns: the response is returned and never stored.
ActionReturnsUnstored(r) ==
    /\ pc[r] = "running"
    /\ effects' = [effects EXCEPT ![r.key] = @ \cup {r}]
    /\ Goto(r, "ok")
    /\ served' = [served EXCEPT ![r] = r]
    /\ UNCHANGED <<entry, outcome, age, cooldown, faults, losses>>

\* The action returns.  An unprotected run is answered at once.
ActionReturns(r) ==
    /\ pc[r] = "running"
    /\ effects' = [effects EXCEPT ![r.key] = @ \cup {r}]
    /\ IF outcome[r] = "proceed"
         THEN Goto(r, "complete") /\ UNCHANGED served
         ELSE Goto(r, "ok") /\ served' = [served EXCEPT ![r] = r]
    /\ UNCHANGED <<entry, outcome, age, cooldown, faults, losses>>

\* Mutant of ActionRaises: the error goes straight up, the key is not freed.
ActionRaisesWithoutAbort(r) ==
    /\ pc[r] = "running"
    /\ Goto(r, "error")
    /\ UNCHANGED <<entry, outcome, served, age, cooldown, effects, faults, losses>>

\* Mutant of ActionRaises: the key is freed by requests that never took it.
ActionRaisesAlwaysAborts(r) ==
    /\ pc[r] = "running"
    /\ Goto(r, "abort")
    /\ UNCHANGED <<entry, outcome, served, age, cooldown, effects, faults, losses>>

\* The action raises (an error of any kind, BaseException included), before its
\* commit or after it: generate_reply makes the response when the exchange is
\* stored, analyze records a failure, and the answer to COMMIT can get lost.
ActionRaises(r) ==
    /\ pc[r] = "running"
    /\ effects' \in {effects, [effects EXCEPT ![r.key] = @ \cup {r}]}
    /\ Goto(r, IF outcome[r] = "proceed" THEN "abort" ELSE "error")
    /\ UNCHANGED <<entry, outcome, served, age, cooldown, faults, losses>>

\* IdempotencyStore.complete: SET key response EX ttl_seconds, unconditionally.
Complete(r) ==
    /\ pc[r] = "complete"
    /\ entry' = Command("complete", r)
    /\ served' = [served EXCEPT ![r] = r]
    /\ Goto(r, "ok")
    /\ UNCHANGED <<outcome, age, cooldown, effects, faults, losses>>

\* RedisError inside complete(): swallowed, the client still gets its 200.
CompleteFails(r) ==
    /\ pc[r] = "complete"
    /\ Fault
    /\ entry' \in {entry, Command("complete", r)}
    /\ Trip(r.proc)
    /\ served' = [served EXCEPT ![r] = r]
    /\ Goto(r, "ok")
    /\ UNCHANGED <<outcome, age, effects, losses>>

\* IdempotencyStore.abort: DELETE key, unconditionally; then the error is re-raised.
Abort(r) ==
    /\ pc[r] = "abort"
    /\ entry' = Command("abort", r)
    /\ Goto(r, "error")
    /\ UNCHANGED <<outcome, served, age, cooldown, effects, faults, losses>>

AbortFails(r) ==
    /\ pc[r] = "abort"
    /\ Fault
    /\ entry' \in {entry, Command("abort", r)}
    /\ Trip(r.proc)
    /\ Goto(r, "error")
    /\ UNCHANGED <<outcome, served, age, effects, losses>>

\* CancelledError while a Redis command is awaited.  It is no RedisError, and
\* begin(), complete() and abort() are awaited outside the try of
\* run_idempotent, so nothing more is done for the key.  (A cancellation of
\* the action itself is ActionRaises.)
Cancelled(r) ==
    /\ pc[r] \in BeginStages \cup {"complete", "abort"}
    /\ Fault
    /\ entry' \in {entry, Command(pc[r], r)}
    /\ Goto(r, "gone")
    /\ UNCHANGED <<outcome, served, age, cooldown, effects, losses>>

----------------------------------------------------------------------------
(* The environment                                                         *)

\* A process dies and restarts: its requests are gone, its cooldown is forgotten.
Crash(p) ==
    /\ Fault
    /\ pc' = [r \in Requests |->
                IF r.proc = p /\ pc[r] \in BeginStages \cup RunStages
                THEN "gone" ELSE pc[r]]
    /\ cooldown' = [cooldown EXCEPT ![p] = 0]
    /\ UNCHANGED <<entry, outcome, served, age, effects, losses>>

\* Redis evicts a key (allkeys-lru) or restarts without persistence.
Lose(lost) ==
    /\ losses < MaxLosses
    /\ losses' = losses + 1
    /\ lost # {}
    /\ \A k \in lost : entry[k] # None /\ entry[k].state \in Losable
    /\ entry' = [k \in Keys |-> IF k \in lost THEN None ELSE entry[k]]
    /\ effects' = [k \in Keys |-> IF k \in lost /\ entry[k].state = "done" THEN {}
                                  ELSE effects[k]]
    /\ UNCHANGED <<pc, outcome, served, age, cooldown, faults>>

\* Mutant of Aged: markers are set without EX.
AgedResponsesOnly(e) ==
    CASE e = None                              -> None
      [] e # None /\ e.state = "in_progress"   -> e
      [] e # None /\ e.state = "done"          -> IF e.ttl = 1 THEN None ELSE [e EXCEPT !.ttl = @ - 1]

\* EX: the server counts the time to live down and deletes the key at zero.
Aged(e) == IF e = None THEN None
           ELSE IF e.ttl = 1 THEN None ELSE [e EXCEPT !.ttl = @ - 1]

\* One second passes.  No run keeps its marker longer than MaxRun.
Tick ==
    /\ \A r \in Requests : Holds(r) => age[r] < MaxRun
    /\ entry' = [k \in Keys |-> Aged(entry[k])]
    /\ age' = [r \in Requests |-> IF Holds(r) THEN age[r] + 1 ELSE 0]
    /\ cooldown' = [p \in Processes |-> IF cooldown[p] = 0 THEN 0 ELSE cooldown[p] - 1]
    /\ effects' = [k \in Keys |->
                     IF entry[k] # None /\ entry[k].state = "done" /\ Aged(entry[k]) = None
                     THEN {} ELSE effects[k]]
    /\ UNCHANGED <<pc, outcome, served, faults, losses>>

----------------------------------------------------------------------------

\* What a request does when nothing fails.
Progress(r) ==
    \/ BeginUnprotected(r) \/ Begin(r)
    \/ TakeKey(r) \/ KeyTaken(r) \/ ReadNothing(r) \/ ReadEntry(r)
    \/ ActionReturns(r) \/ ActionRaises(r)
    \/ Complete(r) \/ Abort(r)

Failure(r) == BeginFails(r) \/ CompleteFails(r) \/ AbortFails(r) \/ Cancelled(r)

Next ==
    \/ \E r \in Requests : Progress(r) \/ Failure(r)
    \/ \E p \in Processes : Crash(p)
    \/ \E lost \in SUBSET Keys : Lose(lost)
    \/ Tick

Spec == Init /\ [][Next]_vars

\* The event loop resumes every handler that can go on, and clocks do not stop.
FairSpec ==
    /\ Spec
    /\ \A r \in Requests : WF_vars(Progress(r))
    /\ WF_vars(Tick)

----------------------------------------------------------------------------
(* Properties                                                              *)

\* What config.py asks of idempotency_lock_seconds ("must outlast the slowest
\* request"), and a Redis that keeps markers; stored responses it may lose.
MarkerOutlastsRuns == MaxRun < LockSeconds /\ "in_progress" \notin Losable

\* Of several simultaneous requests with one key exactly one runs
\* (services/idempotency.py:93-94), counting the runs that took the key.
OneRunPerKey ==
    \A q, r \in Requests : Holds(q) /\ Holds(r) /\ q.key = r.key => q = r

\* "A retried request must not repeat its effects" (services/idempotency.py:1),
\* "run `action` once per (client, key)" (api/idempotency.py:37): the action of a
\* key commits at most once for as long as its response is kept.
CommitsAtMostOnce == \A k \in Keys : \A q, r \in effects[k] : q = r

\* What the code does promise of repeated effects: once the action of a key has
\* returned, no request with the key commits anything until the response is gone,
\* however they interleave, while no command fails and nobody is cancelled.  Only
\* an action that raised can be repeated, its commit included.
NothingAfterSuccess ==
    [][faults' = 0 =>
         \A k \in Keys :
           (\E q \in effects[k] : pc[q] \in {"complete", "ok"})
               => effects'[k] \subseteq effects[k]]_vars

\* A replay hands out the response to the same body under the same key, and
\* only that of an action that returned, whatever fails and whatever expires.
ReplayIsTheSameRequest ==
    \A r \in Requests :
        pc[r] = "replay" =>
            /\ served[r] # None
            /\ served[r].key = r.key /\ served[r].fp = r.fp
            /\ pc[served[r]] \in {"ok", "gone"}

\* Where 409 says that the first request is still running (main.py:184-185), it
\* is: while nothing fails, a marker under a key means that somebody holds it.
MarkerHasRunner ==
    \A k \in Keys :
        faults = 0 /\ entry[k] # None /\ entry[k].state = "in_progress" =>
            \E r \in Requests : Holds(r) /\ r.key = k

\* A stored response stays as it is until its time to live is over or Redis
\* loses it: no other request with the key replaces or frees it
\* (services/idempotency.py:10-11).
StoredResponseIsStable ==
    [][losses' = losses =>
         \A k \in Keys :
           entry[k] # None /\ entry[k].state = "done" =>
               entry'[k] \in {entry[k], Aged(entry[k])}]_vars

\* "It must expire on its own, or a crashed process would block its key forever"
\* (services/idempotency.py:76-77): a marker gives way sooner or later.
KeyNeverBlockedForever ==
    \A k \in Keys :
        (entry[k] # None /\ entry[k].state = "in_progress")
            ~> (entry[k] = None \/ entry[k].state = "done")

----------------------------------------------------------------------------
(* Refinement                                                              *)

\* The request that holds a key, if any; the one whose response is stored.
Runner == [k \in Keys |->
             IF \E r \in Requests : Holds(r) /\ r.key = k
             THEN CHOOSE r \in Requests : Holds(r) /\ r.key = k
             ELSE None]
Kept == [k \in Keys |-> IF entry[k] = None THEN None ELSE entry[k].body]
Told == [r \in Requests |-> IF pc[r] = "replay" THEN served[r] ELSE None]

Promise == INSTANCE KeyedOnce WITH runner <- Runner, kept <- Kept, told <- Told

\* The store and run_idempotent keep the promise of KeyedOnce, in spite of
\* failing commands, cancellations, crashes and cooldowns.
KeepsPromise == Promise!Spec

============================================================================
