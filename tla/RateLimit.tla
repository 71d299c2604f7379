----------------------------- MODULE RateLimit -----------------------------
(***************************************************************************)
(* The per-client rate limit: app/services/ratelimit.py (RateLimiter and   *)
(* its Lua script), app/kv/cooldown.py and enforce_rate_limit of           *)
(* app/api/security.py.                                                    *)
(*                                                                         *)
(* Handlers of several processes ask one Redis.  The script is one step,   *)
(* because Redis runs it without interleaving; looking at the cooldown     *)
(* comes before it and the handler awaits in between.  A failing call may  *)
(* or may not have run the script.                                         *)
(*                                                                         *)
(* Abstracted: time is the clock of Redis in ticks (milliseconds), of      *)
(* which a second has SecondMs; a nonce (a UUID) is a fresh model value.   *)
(***************************************************************************)
EXTENDS Integers, FiniteSets

CONSTANTS
    Clients,
    Processes,
    Handlers,        \* records [id, client, proc]: one request at a time each
    Nonces,
    Limit,           \* rate_limit_requests
    WindowSeconds,   \* rate_limit_window_seconds
    SecondMs,        \* ticks in a second
    CooldownMs,      \* COOLDOWN_SECONDS, in ticks
    MaxTime,         \* bound on the clock
    MaxFaults,       \* bound on Redis errors and cancellations
    MaxLosses        \* bound on windows that Redis loses

ASSUME HandlersAssumption ==
    \A h \in Handlers : h.client \in Clients /\ h.proc \in Processes
ASSUME LimitAssumption == Limit \in Nat \ {0}
ASSUME TimesAssumption ==
    /\ WindowSeconds \in Nat \ {0}
    /\ SecondMs \in Nat \ {0}
    /\ CooldownMs \in Nat
    /\ MaxTime \in Nat
ASSUME BoundsAssumption == MaxFaults \in Nat /\ MaxLosses \in Nat

WindowMs == WindowSeconds * SecondMs

VARIABLES
    now,       \* the clock of Redis
    window,    \* the sorted set of each client
    expires,   \* when Redis deletes the sorted set (PEXPIRE); 0: there is none
    until,     \* Cooldown._until of each process
    stage,     \* "sent": the handler awaits the script
    answer,    \* what the last check() of a handler came to
    granted,   \* the admissions of each client within the last window, all of them
    promised,  \* the earliest Retry-After a client was given since its last admission; 0: none
    faults, losses

vars == <<now, window, expires, until, stage, answer, granted, promised, faults, losses>>

Times == 0 .. MaxTime
Members == [at : Times, nonce : Nonces]

TypeOK ==
    /\ now \in Times
    /\ window \in [Clients -> SUBSET Members]
    /\ expires \in [Clients -> Nat]
    /\ until \in [Processes -> Nat]
    /\ stage \in [Handlers -> {"idle", "sent"}]
    /\ answer \in [Handlers -> {"none", "unlimited", "admitted", "rejected", "gone"}]
    /\ granted \in [Clients -> SUBSET Members]
    /\ promised \in [Clients -> Nat]
    /\ faults \in 0..MaxFaults
    /\ losses \in 0..MaxLosses

Init ==
    /\ now = 0
    /\ window = [c \in Clients |-> {}]
    /\ expires = [c \in Clients |-> 0]
    /\ until = [p \in Processes |-> 0]
    /\ stage = [h \in Handlers |-> "idle"]
    /\ answer = [h \in Handlers |-> "none"]
    /\ granted = [c \in Clients |-> {}]
    /\ promised = [c \in Clients |-> 0]
    /\ faults = 0
    /\ losses = 0

----------------------------------------------------------------------------
(* The script SLIDING_WINDOW                                               *)

\* The members left by ZREMRANGEBYSCORE 0 .. now - window; an expired key is empty.
Recent(c) ==
    IF expires[c] <= now THEN {} ELSE {m \in window[c] : m.at > now - WindowMs}

\* Mutant of Member: two requests in one millisecond are one member.
MemberWithoutNonce(n) == [at |-> now, nonce |-> CHOOSE m \in Nonces : TRUE]

\* ZADD key now "now:nonce"
Member(n) == [at |-> now, nonce |-> n]

\* PEXPIRE key window
KeyLifetime(c) == now + WindowMs

\* The client is below its limit: the request is counted.
Admit(c) ==
    /\ Cardinality(Recent(c)) < Limit
    /\ \E n \in {n \in Nonces : \A m \in granted[c] : m.nonce # n} :
         /\ window' = [window EXCEPT ![c] = Recent(c) \cup {Member(n)}]
         /\ granted' = [granted EXCEPT ![c] = @ \cup {[at |-> now, nonce |-> n]}]
    /\ expires' = [expires EXCEPT ![c] = KeyLifetime(c)]
    /\ promised' = [promised EXCEPT ![c] = 0]

\* Mutant of Refuse: a refused request is counted as well.
RefuseAndCount(c) ==
    /\ Cardinality(Recent(c)) >= Limit
    /\ \E n \in {n \in Nonces : \A m \in window[c] : m.nonce # n} :
         window' = [window EXCEPT ![c] = Recent(c) \cup {Member(n)}]
    /\ expires' = [expires EXCEPT ![c] = KeyLifetime(c)]
    /\ UNCHANGED granted

\* The client is at its limit: nothing is counted.
Refuse(c) ==
    /\ Cardinality(Recent(c)) >= Limit
    /\ window' = [window EXCEPT ![c] = Recent(c)]
    /\ UNCHANGED <<granted, expires>>

\* Mutant of ResetSeconds: the seconds are rounded down.
ResetSecondsFloor(c) ==
    LET oldest == CHOOSE t \in {m.at : m \in Recent(c)} : \A m \in Recent(c) : t <= m.at
        reset  == oldest + WindowMs - now
    IN  IF reset \div SecondMs < 1 THEN 1 ELSE reset \div SecondMs

\* max(ceil(reset_ms / 1000), 1), where reset_ms is when the oldest member leaves.
ResetSeconds(c) ==
    LET oldest == CHOOSE t \in {m.at : m \in Recent(c)} : \A m \in Recent(c) : t <= m.at
        reset  == oldest + WindowMs - now
        ceil   == (reset + SecondMs - 1) \div SecondMs
    IN  IF ceil < 1 THEN 1 ELSE ceil

----------------------------------------------------------------------------
(* RateLimiter.check                                                       *)

CoolingDown(p) == now < until[p]

Finish(h, result) ==
    /\ stage' = [stage EXCEPT ![h] = "idle"]
    /\ answer' = [answer EXCEPT ![h] = result]

\* During a cooldown nobody is limited.
Skip(h) ==
    /\ stage[h] = "idle"
    /\ CoolingDown(h.proc)
    /\ Finish(h, "unlimited")
    /\ UNCHANGED <<now, window, expires, until, granted, promised, faults, losses>>

Send(h) ==
    /\ stage[h] = "idle"
    /\ ~CoolingDown(h.proc)
    /\ stage' = [stage EXCEPT ![h] = "sent"]
    /\ UNCHANGED <<now, window, expires, until, answer, granted, promised, faults, losses>>

Admitted(h) ==
    /\ stage[h] = "sent"
    /\ Admit(h.client)
    /\ Finish(h, "admitted")
    /\ UNCHANGED <<now, until, faults, losses>>

\* enforce_rate_limit answers 429 with Retry-After.
Rejected(h) ==
    LET c     == h.client
        retry == now + ResetSeconds(c) * SecondMs
    IN  /\ stage[h] = "sent"
        /\ Refuse(c)
        /\ promised' = [promised EXCEPT ![c] = IF @ = 0 \/ retry < @ THEN retry ELSE @]
        /\ Finish(h, "rejected")
        /\ UNCHANGED <<now, until, faults, losses>>

\* The script ran, or did not, and nobody hears of it.
Unheard(c) ==
    \/ Admit(c)
    \/ Refuse(c) /\ UNCHANGED promised
    \/ UNCHANGED <<window, expires, granted, promised>>

Fault ==
    /\ faults < MaxFaults
    /\ faults' = faults + 1

\* RedisError: the limiter fails open and pauses.
Fails(h) ==
    /\ stage[h] = "sent"
    /\ Fault
    /\ Unheard(h.client)
    /\ until' = [until EXCEPT ![h.proc] = now + CooldownMs]
    /\ Finish(h, "unlimited")
    /\ UNCHANGED <<now, losses>>

\* CancelledError is no RedisError: the request is gone, nothing pauses.
Cancelled(h) ==
    /\ stage[h] = "sent"
    /\ Fault
    /\ Unheard(h.client)
    /\ Finish(h, "gone")
    /\ UNCHANGED <<now, until, losses>>

----------------------------------------------------------------------------
(* The environment                                                         *)

\* Redis evicts a window (allkeys-lru) or restarts without persistence.
Lose(c) ==
    /\ losses < MaxLosses
    /\ losses' = losses + 1
    /\ expires[c] > now
    /\ window' = [window EXCEPT ![c] = {}]
    /\ expires' = [expires EXCEPT ![c] = 0]
    /\ UNCHANGED <<now, until, stage, answer, granted, promised, faults>>

Tick ==
    /\ now < MaxTime
    /\ now' = now + 1
    /\ granted' = [c \in Clients |-> {m \in granted[c] : m.at > now' - WindowMs}]
    /\ UNCHANGED <<window, expires, until, stage, answer, promised, faults, losses>>

Next ==
    \/ \E h \in Handlers :
         Skip(h) \/ Send(h) \/ Admitted(h) \/ Rejected(h) \/ Fails(h) \/ Cancelled(h)
    \/ \E c \in Clients : Lose(c)
    \/ Tick

Spec == Init /\ [][Next]_vars

----------------------------------------------------------------------------
(* Properties                                                              *)

\* In no window, wherever it starts, is a client admitted more often than Limit
\* ("no boundary burst", ratelimit.py:33-35), counting admissions whose answer
\* got lost, as long as Redis has kept its data.
WithinLimit == losses = 0 => \A c \in Clients : Cardinality(granted[c]) <= Limit

\* Retry-After tells a well-behaved client when to come back (main.py:212): from
\* that moment on the script admits it, unless it was admitted in between.
RetryAfterIsEnough ==
    \A c \in Clients :
        promised[c] # 0 /\ now >= promised[c] => Cardinality(Recent(c)) < Limit

\* The limiter never refuses a client that has not used up its limit within the
\* last window: refusals cost a client nothing, nor does what Redis loses.
NoUndueRefusal ==
    [][\A h \in Handlers :
         Rejected(h) => Cardinality(granted[h.client]) >= Limit]_vars

============================================================================
