----------------------------- MODULE Readiness -----------------------------
(***************************************************************************)
(* GET /ready: ReadinessChecker of app/services/readiness.py and ready of  *)
(* app/api/health.py, as app/main.py sets them up.                         *)
(*                                                                         *)
(* Checks of one process queue for a lock; the first probes all            *)
(* dependencies at once, each with a timeout, and keeps its report for a   *)
(* while, for those behind it and after it.  Dependencies come and go.     *)
(*                                                                         *)
(* Abstracted: seconds are ticks, counted from or towards the moment that  *)
(* matters and capped at Horizon; a dependency that is slow is hanging for *)
(* that time.  The event loop runs what is ready before time passes.       *)
(***************************************************************************)
EXTENDS Integers, Sequences, SequencesExt

CONSTANTS
    Dependencies,   \* postgres, redis
    Required,       \* those the instance cannot serve without
    Checks,         \* one request for /ready at a time each
    TimeoutSeconds, \* ready_timeout_seconds
    CacheSeconds,   \* ready_cache_seconds
    MaxCancels,     \* bound on cancelled checks
    None            \* no report yet

ASSUME DependenciesAssumption == Required \subseteq Dependencies
ASSUME TimesAssumption ==
    /\ TimeoutSeconds \in Nat \ {0}
    /\ CacheSeconds \in Nat
    /\ MaxCancels \in Nat

VARIABLES
    state,    \* what each dependency is like
    queue,    \* the checks at the lock; the first one has it
    probing,  \* the first check runs the probes
    result,   \* what each probe came to
    elapsed,  \* ticks since the probes were started
    cached,   \* the last report
    fresh,    \* ticks for which the last report may still be used
    answer,   \* the answer given in this very step, its status and report, or None
    waited,   \* ticks a check in the queue has waited; 0 for the others
    upAgo,    \* ticks since each dependency was up
    downAgo,  \* ticks since each dependency was not up
    runAgo,   \* ticks since a run of probes was last complete
    cancels

vars == <<state, queue, probing, result, elapsed, cached, fresh,
          answer, waited, upAgo, downAgo, runAgo, cancels>>
world == <<state, upAgo, downAgo>>

\* Where the counters of the past stop.
Horizon == CacheSeconds + TimeoutSeconds + 1
Later(n) == IF n < Horizon THEN n + 1 ELSE n

Reports == [Dependencies -> BOOLEAN]
NoResults == [d \in Dependencies |-> "pending"]

ASSUME NoneAssumption == None \notin Reports

\* The longest a check may wait, see AnsweredInTime.
Patience == TimeoutSeconds * (1 + MaxCancels)

TypeOK ==
    /\ state \in [Dependencies -> {"up", "down", "hanging"}]
    /\ queue \in Seq(Checks) /\ IsInjective(queue)
    /\ probing \in BOOLEAN
    /\ result \in [Dependencies -> {"pending", "ok", "failed"}]
    /\ elapsed \in 0 .. TimeoutSeconds
    /\ cached \in Reports \cup {None}
    /\ fresh \in 0 .. CacheSeconds
    /\ answer \in [status : {200, 503}, report : Reports] \cup {None}
    /\ waited \in [Checks -> Nat]
    /\ upAgo \in [Dependencies -> 0 .. Horizon]
    /\ downAgo \in [Dependencies -> 0 .. Horizon]
    /\ runAgo \in 0 .. Horizon
    /\ cancels \in 0 .. MaxCancels

Init ==
    /\ state \in [Dependencies -> {"up", "down"}]
    /\ queue = <<>>
    /\ probing = FALSE
    /\ result = NoResults
    /\ elapsed = 0
    /\ cached = None
    /\ fresh = 0
    /\ answer = None
    /\ waited = [c \in Checks |-> 0]
    /\ upAgo = [d \in Dependencies |-> IF state[d] = "up" THEN 0 ELSE Horizon]
    /\ downAgo = [d \in Dependencies |-> IF state[d] = "up" THEN Horizon ELSE 0]
    /\ runAgo = Horizon
    /\ cancels = 0

----------------------------------------------------------------------------
(* A check                                                                 *)

Queued(c) == \E i \in DOMAIN queue : queue[i] = c
HasLock(c) == queue # <<>> /\ Head(queue) = c

\* Nobody is answered.
Silent == answer' = None

Arrive(c) ==
    /\ ~Queued(c)
    /\ queue' = Append(queue, c)
    /\ Silent
    /\ UNCHANGED <<world, probing, result, elapsed, cached, fresh, waited, runAgo, cancels>>

\* Mutant of Status: a missing optional dependency stops traffic as well.
StatusOfAll(report) == IF \A d \in Dependencies : report[d] THEN 200 ELSE 503

\* 503 when a required dependency is down, else 200 ("ready" or "degraded").
Status(report) == IF \A d \in Required : report[d] THEN 200 ELSE 503

\* The check is answered and leaves the lock to the next one.
Reply(c, report) ==
    /\ answer' = [status |-> Status(report), report |-> report]
    /\ queue' = Tail(queue)
    /\ waited' = [waited EXCEPT ![c] = 0]

\* Mutant of Usable: a report is used for ever.
UsableForEver == cached # None

\* Mutant of Usable: the last second of a report is given away.
UsableTooShort == cached # None /\ fresh > 1

\* now < self._cached[0]
Usable == cached # None /\ fresh > 0

Serve(c) ==
    /\ HasLock(c) /\ ~probing
    /\ Usable
    /\ Reply(c, cached)
    /\ UNCHANGED <<world, probing, result, elapsed, cached, fresh, runAgo, cancels>>

Probe(c) ==
    /\ HasLock(c) /\ ~probing
    /\ ~Usable
    /\ probing' = TRUE
    /\ Silent
    /\ UNCHANGED <<world, queue, result, elapsed, cached, fresh, waited, runAgo, cancels>>

\* A probe comes back: the dependency is there, or it refuses.
Returns(d) ==
    /\ probing
    /\ result[d] = "pending"
    /\ state[d] # "hanging"
    /\ result' = [result EXCEPT ![d] = IF state[d] = "up" THEN "ok" ELSE "failed"]
    /\ Silent
    /\ UNCHANGED <<world, queue, probing, elapsed, cached, fresh, waited, runAgo, cancels>>

\* Mutant of TimesOut: only a run that other probes have waited for times out.
TimesOutInCompany(d) ==
    /\ probing
    /\ result[d] = "pending"
    /\ elapsed = TimeoutSeconds
    /\ \E e \in Dependencies \ {d} : result[e] = "pending"
    /\ result' = [result EXCEPT ![d] = "failed"]
    /\ Silent
    /\ UNCHANGED <<world, queue, probing, elapsed, cached, fresh, waited, runAgo, cancels>>

\* asyncio.timeout
TimesOut(d) ==
    /\ probing
    /\ result[d] = "pending"
    /\ elapsed = TimeoutSeconds
    /\ result' = [result EXCEPT ![d] = "failed"]
    /\ Silent
    /\ UNCHANGED <<world, queue, probing, elapsed, cached, fresh, waited, runAgo, cancels>>

StopProbes ==
    /\ probing' = FALSE
    /\ result' = NoResults
    /\ elapsed' = 0

RunIsComplete == probing /\ \A d \in Dependencies : result[d] # "pending"

\* Mutant of Complete: the report is not kept.
CompleteWithoutKeeping(c) ==
    LET report == [d \in Dependencies |-> result[d] = "ok"] IN
        /\ HasLock(c)
        /\ RunIsComplete
        /\ StopProbes
        /\ runAgo' = 0
        /\ Reply(c, report)
        /\ UNCHANGED <<world, cached, fresh, cancels>>

\* The report is kept from the moment it is complete.
Complete(c) ==
    LET report == [d \in Dependencies |-> result[d] = "ok"] IN
        /\ HasLock(c)
        /\ RunIsComplete
        /\ StopProbes
        /\ cached' = report
        /\ fresh' = CacheSeconds
        /\ runAgo' = 0
        /\ Reply(c, report)
        /\ UNCHANGED <<world, cancels>>

\* CancelledError: the probes are cancelled too, the last report stays.
Cancel(c) ==
    /\ cancels < MaxCancels
    /\ cancels' = cancels + 1
    /\ \E i \in DOMAIN queue : queue[i] = c /\ queue' = RemoveAt(queue, i)
    /\ waited' = [waited EXCEPT ![c] = 0]
    /\ IF HasLock(c) THEN StopProbes ELSE UNCHANGED <<probing, result, elapsed>>
    /\ Silent
    /\ UNCHANGED <<world, cached, fresh, runAgo>>

----------------------------------------------------------------------------
(* The environment                                                         *)

Change(d) ==
    /\ \E s \in {"up", "down", "hanging"} \ {state[d]} : state' = [state EXCEPT ![d] = s]
    /\ upAgo' = [upAgo EXCEPT ![d] = IF state'[d] = "up" THEN 0 ELSE @]
    /\ downAgo' = [downAgo EXCEPT ![d] = IF state'[d] = "up" THEN @ ELSE 0]
    /\ Silent
    /\ UNCHANGED <<queue, probing, result, elapsed, cached, fresh, waited, runAgo, cancels>>

\* The event loop has nothing to do but wait.
Idle ==
    IF probing
    THEN /\ elapsed < TimeoutSeconds
         /\ \E d \in Dependencies : result[d] = "pending"
         /\ \A d \in Dependencies : result[d] = "pending" => state[d] = "hanging"
    ELSE queue = <<>>

Tick ==
    /\ Idle
    /\ elapsed' = IF probing THEN elapsed + 1 ELSE elapsed
    /\ fresh' = IF fresh = 0 THEN 0 ELSE fresh - 1
    /\ waited' = [c \in Checks |-> IF Queued(c) /\ waited[c] <= Patience THEN waited[c] + 1
                                                                       ELSE waited[c]]
    /\ upAgo' = [d \in Dependencies |-> IF state[d] = "up" THEN 0 ELSE Later(upAgo[d])]
    /\ downAgo' = [d \in Dependencies |-> IF state[d] = "up" THEN Later(downAgo[d]) ELSE 0]
    /\ runAgo' = Later(runAgo)
    /\ Silent
    /\ UNCHANGED <<state, queue, probing, result, cached, cancels>>

Step == \E c \in Checks : Serve(c) \/ Probe(c) \/ Complete(c)
Answer(d) == Returns(d) \/ TimesOut(d)

Next ==
    \/ \E c \in Checks : Arrive(c) \/ Cancel(c)
    \/ Step
    \/ \E d \in Dependencies : Answer(d) \/ Change(d)
    \/ Tick

Spec == Init /\ [][Next]_vars

\* The event loop goes on, a dependency that is there again and again answers, or
\* its timeout fires, and time passes.
FairSpec ==
    /\ Spec
    /\ WF_vars(Step)
    /\ \A d \in Dependencies : SF_vars(Answer(d))
    /\ WF_vars(Tick)

----------------------------------------------------------------------------
(* Properties                                                              *)

Replied == answer' # None

\* However many checks share a report and however old it is when it is used: 200
\* means that every required dependency was up, and 503 that one was not, at some
\* time within the last CacheSeconds + TimeoutSeconds.
AnswersWereTrueRecently ==
    [][Replied =>
         IF answer'.status = 200
         THEN \A d \in Required : upAgo[d] < Horizon
         ELSE \E d \in Required : downAgo[d] < Horizon]_vars

\* "However many checkers there are, the dependencies get no more than one check
\* in this time" (docs/health.md:86-87): probes start only when the last complete
\* run is CacheSeconds old.
ProbesAreSpaced == [][~probing /\ probing' => runAgo >= CacheSeconds]_vars

\* "A dependency that hangs must produce not ready in a second, not a probe that
\* hangs" (readiness.py:91-92): a check waits for one timeout, plus one for every
\* check before it that is cancelled, wherever in the queue it stands.
AnsweredInTime ==
    \A c \in Checks : Queued(c) => waited[c] <= TimeoutSeconds * (1 + cancels)

\* Every check leaves the queue.
EveryCheckEnds == \A c \in Checks : Queued(c) ~> ~Queued(c)

=============================================================================
