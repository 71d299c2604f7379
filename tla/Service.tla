------------------------------ MODULE Service ------------------------------
(***************************************************************************)
(* A request on its way through a process: RequestContextMiddleware, the   *)
(* dependencies of the endpoint (current_client, require_scope,            *)
(* enforce_rate_limit, then the validation of the body), run_idempotent or *)
(* the stream, and the exception handlers of app/main.py.  The idempotency *)
(* store is module Idempotency, with the Redis keys, the fingerprints and  *)
(* the actions this front gives it.                                        *)
(*                                                                         *)
(* The framework parses the body before it solves the dependencies and     *)
(* validates it after them.                                                *)
(*                                                                         *)
(* Abstracted: the action of an endpoint (modules Exchange and Analysis)   *)
(* commits or raises; the rate limiter (module RateLimit) has one window,  *)
(* in which everything happens.  What no other actor can tell apart is one *)
(* step, such as the gates, which read nothing that changes.               *)
(***************************************************************************)
EXTENDS Integers, FiniteSets, FiniteSetsExt, Sequences

CONSTANTS
    Calls,      \* records [id, token, endpoint, header, body, proc]
    ApiKeys,    \* the entries of the authenticator: records [token, client, scopes]
    Processes,
    Limit,      \* rate_limit_requests
    Errors,     \* the ErrorKinds that happen: a bound
    Together,   \* the sets of calls that are made in one behaviour: a bound
    LockSeconds, TtlSeconds, CooldownSeconds, MaxRun, MaxFaults, MaxLosses,
    Malformed,  \* a body that is no JSON
    Invalid,    \* JSON that the schema refuses; an Idempotency-Key without a character
    None

Endpoints == {"chat", "structured", "stream", "create", "conversations", "usage", "cache"}

\* What an action raises, by its exception handler.  A database error that is
\* no DBAPIError nor ConnectionError is "other".
ErrorKinds == {"not_found", "overflow", "structured", "database", "redis",
               "llm_timeout", "llm", "other"}

ASSUME CallsAssumption ==
    /\ IsFiniteSet(Calls)
    /\ \A c \in Calls : c.endpoint \in Endpoints /\ c.proc \in Processes
    /\ \A c, d \in Calls : c.id = d.id => c = d
ASSUME KeysAssumption ==
    /\ Len(ApiKeys) \in Nat /\ DOMAIN ApiKeys = 1..Len(ApiKeys)
    /\ \A i \in DOMAIN ApiKeys : ApiKeys[i].scopes \subseteq {"chat", "admin"}
    /\ \A i \in DOMAIN ApiKeys : ApiKeys[i].token # None /\ ApiKeys[i].client # None
ASSUME FrontAssumption ==
    Limit \in Nat \ {0} /\ Together \subseteq SUBSET Calls /\ Errors \subseteq ErrorKinds

----------------------------------------------------------------------------
(* Who is calling, and what for                                            *)

\* Authenticator.authenticate: the last entry that matches, no early exit.
Authenticate(token) ==
    LET found == {i \in DOMAIN ApiKeys : ApiKeys[i].token = token}
    IN  IF found = {} THEN [client |-> None, scopes |-> {}] ELSE ApiKeys[Max(found)]

Client(c) == Authenticate(c.token).client

\* The scopes of ChatClient, ConversationClient and AdminClient: one is enough.
ScopesFor(endpoint) ==
    CASE endpoint \in {"chat", "structured", "stream", "create"} -> {"chat"}
      [] endpoint = "conversations"                              -> {"chat", "admin"}
      [] endpoint \in {"usage", "cache"}                         -> {"admin"}

MayUse(c) == Authenticate(c.token).scopes \cap ScopesFor(c.endpoint) # {}

CostsTheModel(c) == c.endpoint \in {"chat", "structured", "stream"}

\* Mutant of RequestKey: the header alone names the request.
RequestKeyOfHeader(c) == <<None, c.header>>

\* make_key("idem", client, sha256(key))
RequestKey(c) == <<Client(c), c.header>>

\* What the idempotency store is given.  The two endpoints dump different schemas.
RequestOf(c) == [id |-> c.id, key |-> RequestKey(c), fp |-> <<c.endpoint, c.body>>,
                 proc |-> c.proc]

Keyed == {c \in Calls :
            /\ c.endpoint \in {"chat", "structured"}
            /\ c.header \notin {None, Invalid} /\ c.body \notin {Malformed, Invalid}
            /\ Client(c) # None}

Requests == {RequestOf(c) : c \in Keyed}

VARIABLES
    stage,     \* where each call stands in its process ("turned": away)
    sent,      \* the status the client was sent, or None
    lines,     \* the statuses of the request lines that were logged for a call
    inflight,  \* the gauge HTTP_IN_FLIGHT of each process
    counted,   \* the calls in the window of each client
    committed, \* history: the calls whose action has committed
    entry, pc, outcome, served, age, cooldown, effects, faults, losses

Idem == INSTANCE Idempotency WITH
    Keys <- {r.key : r \in Requests},
    Fingerprints <- {r.fp : r \in Requests},
    Losable <- {"in_progress", "done"}

ASSUME StoreAssumption ==
    /\ LockSeconds \in Nat \ {0} /\ TtlSeconds \in Nat \ {0} /\ CooldownSeconds \in Nat
    /\ MaxRun \in Nat /\ MaxFaults \in Nat /\ MaxLosses \in Nat
    /\ None \notin Requests /\ None \notin Idem!Entries /\ None \notin Nat

front == <<stage, sent, lines, inflight, counted>>
store == <<entry, pc, outcome, served, age, cooldown, effects, faults, losses>>
vars == <<front, committed, store>>

Clients == {ApiKeys[i].client : i \in DOMAIN ApiKeys}

InFlight == {"turned", "limit", "handler", "streaming"}
Stages == {"new", "done", "gone"} \cup InFlight
Statuses == {200, 201, 400, 401, 403, 404, 409, 422, 429, 500, 502, 503, 504}

TypeOK ==
    /\ stage \in [Calls -> Stages]
    /\ sent \in [Calls -> Statuses \cup {None}]
    /\ lines \in [Calls -> Seq(Statuses)]
    /\ inflight \in [Processes -> Int]
    /\ counted \in [Clients -> SUBSET Calls]
    /\ committed \subseteq Calls
    /\ Idem!TypeOK

Init ==
    /\ stage = [c \in Calls |-> "new"]
    /\ sent = [c \in Calls |-> None]
    /\ lines = [c \in Calls |-> <<>>]
    /\ inflight = [p \in Processes |-> 0]
    /\ counted = [x \in Clients |-> {}]
    /\ committed = {}
    /\ Idem!Init

----------------------------------------------------------------------------
(* RequestContextMiddleware                                                *)

\* Mutant of Leave: the gauge goes down only after a success.
LeaveInSuccess(c, status) ==
    /\ stage' = [stage EXCEPT ![c] = "done"]
    /\ lines' = [lines EXCEPT ![c] = Append(@, status)]
    /\ inflight' = IF status = 200 THEN [inflight EXCEPT ![c.proc] = @ - 1] ELSE inflight
    /\ UNCHANGED counted

\* The finally block: the gauge, and one line.
Leave(c, status) ==
    /\ stage' = [stage EXCEPT ![c] = "done"]
    /\ lines' = [lines EXCEPT ![c] = Append(@, status)]
    /\ inflight' = [inflight EXCEPT ![c.proc] = @ - 1]
    /\ UNCHANGED counted

\* The whole answer goes out and the middleware returns.
Answer(c, status) ==
    /\ sent' = [sent EXCEPT ![c] = status]
    /\ Leave(c, status)

\* Nothing can be sent: status still has its first value.
LeaveUnanswered(c) == Leave(c, 500) /\ UNCHANGED sent

\* The exception handlers of main.py, and the middleware for the rest.
StatusOf(kind) ==
    CASE kind = "not_found"             -> 404
      [] kind = "overflow"              -> 400
      [] kind \in {"structured", "llm"} -> 502
      [] kind \in {"database", "redis"} -> 503
      [] kind = "llm_timeout"           -> 504
      [] kind = "other"                 -> 500

----------------------------------------------------------------------------
(* The dependencies of an endpoint                                         *)

Refusal(c) ==
    CASE c.body = Malformed                                     -> 422
      [] c.body # Malformed /\ Client(c) = None                 -> 401
      [] c.body # Malformed /\ Client(c) # None /\ ~MayUse(c)   -> 403

Turned(c) == c.body = Malformed \/ ~MayUse(c)

\* The middleware is entered, and current_client and require_scope run.
Arrive(c) ==
    /\ stage[c] = "new"
    /\ \E some \in Together : {d \in Calls : stage[d] # "new"} \cup {c} \subseteq some
    /\ stage' = [stage EXCEPT ![c] = IF Turned(c) THEN "turned"
                                     ELSE IF CostsTheModel(c) THEN "limit" ELSE "handler"]
    /\ inflight' = [inflight EXCEPT ![c.proc] = @ + 1]
    /\ UNCHANGED <<sent, lines, counted, committed, store>>

Reject(c) ==
    /\ stage[c] = "turned"
    /\ Answer(c, Refusal(c))
    /\ UNCHANGED <<committed, store>>

\* Mutant of Window: one window for all.
WindowOfAll(c) == UNION {counted[x] : x \in Clients}

\* The window a call is counted in.
Window(c) == counted[Client(c)]

\* RateLimiter.check
Admit(c) ==
    /\ stage[c] = "limit"
    /\ Cardinality(Window(c)) < Limit
    /\ counted' = [counted EXCEPT ![Client(c)] = @ \cup {c}]
    /\ stage' = [stage EXCEPT ![c] = "handler"]
    /\ UNCHANGED <<sent, lines, inflight, committed, store>>

Refuse(c) ==
    /\ stage[c] = "limit"
    /\ Cardinality(Window(c)) >= Limit
    /\ Answer(c, 429)
    /\ UNCHANGED <<committed, store>>

\* Redis does not answer, or has not for a moment (each time a fault): the call
\* goes on unlimited, counted or not.
LimiterFails(c) ==
    /\ stage[c] = "limit"
    /\ Idem!Fault
    /\ counted' \in {counted, [counted EXCEPT ![Client(c)] =
                                 IF Cardinality(@) < Limit THEN @ \cup {c} ELSE @]}
    /\ stage' = [stage EXCEPT ![c] = "handler"]
    /\ UNCHANGED <<sent, lines, inflight, committed,
                   entry, pc, outcome, served, age, cooldown, effects, losses>>

\* The body and the headers are judged last; then a stream refuses the key.
Unprocessable(c) == c.body = Invalid \/ (CostsTheModel(c) /\ c.header = Invalid)
Unsupported(c) == c.endpoint = "stream" /\ c.header # None

Judge(c) ==
    /\ stage[c] = "handler"
    /\ Unprocessable(c) \/ Unsupported(c)
    /\ Answer(c, IF Unprocessable(c) THEN 422 ELSE 400)
    /\ UNCHANGED <<committed, store>>

----------------------------------------------------------------------------
(* The endpoint                                                            *)

\* run_idempotent with a key: a step of the store, of the action or of a fault.
KeyedStep(c) ==
    /\ stage[c] = "handler" /\ c \in Keyed
    /\ Idem!Progress(RequestOf(c)) \/ Idem!Failure(RequestOf(c))
    /\ committed' = IF \E k \in DOMAIN effects' : RequestOf(c) \in effects'[k]
                    THEN committed \cup {c} ELSE committed
    /\ UNCHANGED front

\* What generate_reply, stream_reply, analyze and the readers raise.
RaisedBy(endpoint) ==
    CASE endpoint \in {"chat", "stream"} ->
           {"not_found", "overflow", "database", "llm_timeout", "llm", "other"}
      [] endpoint = "structured" ->
           {"overflow", "structured", "database", "llm_timeout", "llm", "other"}
      [] endpoint = "conversations"       -> {"not_found", "database", "other"}
      [] endpoint \in {"create", "usage"} -> {"database", "other"}
      [] endpoint = "cache"               -> {"redis", "other"}

\* ... although a transaction was committed: the answer to COMMIT got lost, or the
\* response could not be made (chat.py:93-102).  analyze commits the row of a failed
\* analysis and then raises what made it fail (analysis.py:55-59).
RaisedAfterCommit(endpoint) ==
    IF endpoint = "structured" THEN RaisedBy(endpoint)
    ELSE RaisedBy(endpoint) \cap {"database", "other"}

Raised(c) == Errors \cap IF c \in committed THEN RaisedAfterCommit(c.endpoint)
                                            ELSE RaisedBy(c.endpoint)

\* What run_idempotent returned or raised becomes the answer.  CancelledError, of
\* the action or of a Redis command, is answered by nothing.
KeyedAnswer(c) ==
    /\ stage[c] = "handler" /\ c \in Keyed
    /\ LET end == pc[RequestOf(c)] IN
         \/ end \in {"ok", "replay"} /\ Answer(c, 200)
         \/ end = "conflict" /\ Answer(c, 409)
         \/ end = "reuse" /\ Answer(c, 422)
         \/ end = "error" /\ \E kind \in Raised(c) : Answer(c, StatusOf(kind))
         \/ end \in {"error", "gone"} /\ LeaveUnanswered(c)
    /\ UNCHANGED <<committed, store>>

\* Without a key the action runs once, whatever became of an earlier call.
Plain(c) ==
    /\ stage[c] = "handler" /\ ~Unprocessable(c)
    /\ c.endpoint # "stream" /\ c \notin Keyed

PlainReturns(c) ==
    /\ Plain(c)
    /\ Answer(c, IF c.endpoint = "create" THEN 201 ELSE 200)
    /\ committed' = committed \cup {c}
    /\ UNCHANGED store

\* Mutant of PlainRaises: whatever is raised may come after the commit.
PlainRaisesAfterCommit(c) ==
    /\ Plain(c)
    /\ \E kind \in Raised(c) : Answer(c, StatusOf(kind))
    /\ committed' \in {committed, committed \cup {c}}
    /\ UNCHANGED store

PlainRaises(c) ==
    /\ Plain(c)
    /\ \E kind \in Raised(c) :
         /\ Answer(c, StatusOf(kind))
         /\ \/ UNCHANGED committed
            \/ kind \in RaisedAfterCommit(c.endpoint) /\ committed' = committed \cup {c}
    /\ UNCHANGED store

Streamed(c) ==
    /\ stage[c] = "handler" /\ ~Unprocessable(c)
    /\ c.endpoint = "stream" /\ ~Unsupported(c)

\* chat_stream awaits the first event before it answers: until then an error
\* has a status of its own.
FirstEvent(c) ==
    /\ Streamed(c)
    /\ stage' = [stage EXCEPT ![c] = "streaming"]
    /\ sent' = [sent EXCEPT ![c] = 200]
    /\ UNCHANGED <<lines, inflight, counted, committed, store>>

StreamRaises(c) ==
    /\ Streamed(c)
    /\ \E kind \in Raised(c) : Answer(c, StatusOf(kind))
    /\ UNCHANGED <<committed, store>>

\* CancelledError, before anything was sent.
Interrupted(c) ==
    /\ Plain(c) \/ Streamed(c)
    /\ LeaveUnanswered(c)
    /\ UNCHANGED committed \/ (Plain(c) /\ committed' = committed \cup {c})
    /\ UNCHANGED store

\* The last event, an exception that is raised again, or a client that left:
\* the line has the status that was sent.
StreamEnds(c) ==
    /\ stage[c] = "streaming"
    /\ Leave(c, sent[c])
    /\ committed' \in {committed, committed \cup {c}}
    /\ UNCHANGED <<sent, store>>

----------------------------------------------------------------------------
(* The environment                                                         *)

\* A process dies and is started again, with a gauge of its own.
Crash(p) ==
    /\ Idem!Crash(p)
    /\ stage' = [c \in Calls |-> IF c.proc = p /\ stage[c] \in InFlight THEN "gone" ELSE stage[c]]
    /\ stage' # stage
    /\ inflight' = [inflight EXCEPT ![p] = 0]
    /\ UNCHANGED <<sent, lines, counted, committed>>

\* Redis loses what the idempotency store keeps in it; time passes.
Outside ==
    /\ Idem!Tick \/ \E k \in DOMAIN entry : Idem!Lose({k})
    /\ UNCHANGED <<front, committed>>

Next ==
    \/ \E c \in Calls :
         \/ Arrive(c) \/ Reject(c)
         \/ Admit(c) \/ Refuse(c) \/ LimiterFails(c)
         \/ Judge(c)
         \/ KeyedStep(c) \/ KeyedAnswer(c)
         \/ PlainReturns(c) \/ PlainRaises(c)
         \/ FirstEvent(c) \/ StreamRaises(c) \/ StreamEnds(c) \/ Interrupted(c)
    \/ \E p \in Processes : Crash(p)
    \/ Outside

Spec == Init /\ [][Next]_vars

----------------------------------------------------------------------------
(* Properties                                                              *)

IsReplay(c) == c \in Keyed /\ pc[RequestOf(c)] = "replay"

\* A stored response goes to the client it was made for, who sent the same body
\* to the same endpoint under the same key before, whichever of its API keys it
\* used: not to another client that happens to use the same Idempotency-Key
\* (api/idempotency.py:37 "once per (client, key)"), whatever expires or is lost.
ReplaysStayWithTheClient ==
    \A c \in Calls : IsReplay(c) =>
        \E d \in Keyed :
            /\ served[RequestOf(c)] = RequestOf(d)
            /\ Client(d) = Client(c) /\ d.header = c.header
            /\ d.endpoint = c.endpoint /\ d.body = c.body
            /\ d \in committed /\ (sent[d] = 200 \/ sent[d] = None)

\* "Only identified clients are counted: a flood of requests with wrong keys
\* cannot use up a real client's allowance" (security.py:72-73), and one client
\* cannot use up another's: who is refused has made Limit calls itself.
AllowanceIsTheClients ==
    /\ \A x \in Clients : \A c \in counted[x] : Client(c) = x /\ MayUse(c) /\ CostsTheModel(c)
    /\ \A c \in Calls : sent[c] = 429 => Cardinality(counted[Client(c)] \ {c}) >= Limit

\* A client can go by the status, whatever is retried, cancelled or interrupted: a
\* 2xx means that the action was done, by this call or by the one whose response is
\* replayed; a 4xx means that nothing was stored, with one exception: an analysis
\* whose conversation with the model grew too long (400) has been charged for the
\* generations before ("rejected generations were paid for", analysis.py:56-58).
StatusesTellTheEffect ==
    \A c \in Calls :
        /\ sent[c] \in 400..499 /\ c \in committed => c.endpoint = "structured" /\ sent[c] = 400
        /\ sent[c] \in {200, 201} /\ c.endpoint # "stream" =>
             \/ c \in committed
             \/ IsReplay(c) /\ \E d \in committed : served[RequestOf(c)] = RequestOf(d)

\* "Logs one line when the request ends" (middleware.py:35): a request that is
\* over has one line with the status its client saw, 500 if it saw none, and one
\* that is not has none yet; the gauge counts exactly the latter.  A crash takes
\* its requests with it.
LinesTellTheTruth ==
    /\ \A c \in Calls :
         lines[c] = IF stage[c] # "done" THEN <<>>
                    ELSE <<IF sent[c] = None THEN 500 ELSE sent[c]>>
    /\ \A p \in Processes :
         inflight[p] = Cardinality({c \in Calls : c.proc = p /\ stage[c] \in InFlight})

============================================================================
