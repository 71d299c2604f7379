------------------------------ MODULE Exchange ------------------------------
(***************************************************************************)
(* One exchange, from the request to the rows and the answer:              *)
(* ChatService.generate_reply, stream_reply, _finish_stream,               *)
(* _complete_cached, _require_conversation and _persist_exchange of        *)
(* app/services/chat.py, ResponseCache of app/services/cache.py,           *)
(* app/services/conversations.py, app/db/repository.py and chat_stream of  *)
(* app/api/chat.py.                                                        *)
(*                                                                         *)
(* Requests run concurrently; they share the cache in Redis, its cooldown  *)
(* and the database.  A step is what happens between two awaits; a         *)
(* transaction is one step, because PostgreSQL makes it one, but the       *)
(* answer to its COMMIT may get lost.  The model call, with its retries    *)
(* and its slots, is module ModelCalls; here it answers, streams or fails. *)
(*                                                                         *)
(* Abstracted: a prompt is what the cache key is made of besides the owner *)
(* (model, fitted messages, parameters, provider settings); a reply is     *)
(* named by the request that generated it.                                 *)
(***************************************************************************)
EXTENDS Integers, FiniteSets

CONSTANTS
    Requests,      \* records [id, owner, prompt, conv, streamed, cacheable]
    Owners,        \* clients
    Prompts,
    Conversations, \* the ids of conversations
    Deletions,     \* BOOLEAN: may an operator delete conversations
    None,          \* no owner yet, no conversation given, no reply, no cache entry
    Unreadable,    \* a damaged or foreign value in the cache
    Deleted        \* the owner of a deleted conversation

ASSUME RequestsAssumption ==
    \A r \in Requests :
        /\ r.owner \in Owners
        /\ r.prompt \in Prompts
        /\ r.conv \in Conversations \cup {None}
        /\ r.streamed \in BOOLEAN
        /\ r.cacheable \in BOOLEAN \* temperature 0 (is_cacheable)
ASSUME DeletionsAssumption == Deletions \in BOOLEAN

\* A Completion: who generated it, whether the model finished it (finish_reason
\* "stop"), whether it can be a Message (not blank, not too long), and whether
\* it came from the cache.
Replies == [by : Requests, finished : BOOLEAN, valid : BOOLEAN, cached : BOOLEAN]

ASSUME NoneAssumption ==
    /\ None \notin Conversations /\ None \notin Owners /\ None \notin Replies
    /\ Deleted \notin Owners /\ Deleted # None
    /\ Unreadable \notin Replies /\ Unreadable # None

VARIABLES
    owner,   \* the owner of each conversation in the database
    rows,    \* the stored exchanges: question, answer and their conversation
    usage,   \* the requests with a row in usage_logs
    cache,   \* what Redis holds for each owner and prompt
    bypass,  \* the cooldown of the cache is active
    pc,      \* where each request stands
    reply,   \* the reply a request works with
    text,    \* a stream delivered text
    status,  \* the HTTP status sent
    closing, \* the closing event of a stream
    paid     \* the requests the model generated tokens for

vars == <<owner, rows, usage, cache, bypass, pc, reply, text, status, closing, paid>>

Keys == Owners \X Prompts
Exchanges == [req : Requests, conv : Conversations, cached : BOOLEAN]

\* "lookup", "put": GET or SET is awaited; "save": the transaction of
\* _persist_exchange is; "gone": cancelled, disconnected or crashed.
Active == {"lookup", "generate", "reading", "put", "save"}

TypeOK ==
    /\ owner \in [Conversations -> Owners \cup {None, Deleted}]
    /\ rows \subseteq Exchanges
    /\ usage \subseteq Requests
    /\ cache \in [Keys -> Replies \cup {None, Unreadable}]
    /\ bypass \in BOOLEAN
    /\ pc \in [Requests -> {"new", "over", "gone"} \cup Active]
    /\ reply \in [Requests -> Replies \cup {None}]
    /\ text \in [Requests -> BOOLEAN]
    /\ status \in [Requests -> {"none", "ok", "notfound", "error"}]
    /\ closing \in [Requests -> {"none", "done", "error", "storage"}]
    /\ paid \subseteq Requests

Init ==
    /\ owner = [c \in Conversations |-> None]
    /\ rows = {}
    /\ usage = {}
    /\ cache = [k \in Keys |-> None]
    /\ bypass = FALSE
    /\ pc = [r \in Requests |-> "new"]
    /\ reply = [r \in Requests |-> None]
    /\ text = [r \in Requests |-> FALSE]
    /\ status = [r \in Requests |-> "none"]
    /\ closing = [r \in Requests |-> "none"]
    /\ paid = {}

db == <<owner, rows, usage>>
kv == <<cache, bypass>>
sent == <<text, status, closing>>

Goto(r, stage) == pc' = [pc EXCEPT ![r] = stage]

----------------------------------------------------------------------------
(* Answers                                                                 *)

\* An HTTP answer, for a plain request or before the first event of a stream.
Answer(r, code) ==
    /\ Goto(r, "over")
    /\ status' = [status EXCEPT ![r] = code]
    /\ UNCHANGED <<text, closing>>

\* An LLMError: an HTTP error before text has been sent, an error event after.
Fail(r) ==
    IF text[r]
    THEN /\ Goto(r, "over")
         /\ closing' = [closing EXCEPT ![r] = "error"]
         /\ UNCHANGED <<text, status>>
    ELSE Answer(r, "error")

\* Any other exception: it cuts a stream off that has sent text.
Cut(r) ==
    IF text[r] THEN Goto(r, "over") /\ UNCHANGED sent ELSE Answer(r, "error")

\* The first piece of text starts the response: status 200 and one delta event.
Deliver(r) ==
    /\ text' = [text EXCEPT ![r] = TRUE]
    /\ status' = [status EXCEPT ![r] = "ok"]
    /\ UNCHANGED closing

----------------------------------------------------------------------------
(* Before the model                                                        *)

\* Mutant of MayUse: any conversation that exists will do.
Exists(r) == r.conv # None => owner[r.conv] \in Owners

\* _require_conversation: somebody else's conversation is as good as a missing one.
MayUse(r) == r.conv # None => owner[r.conv] = r.owner

\* The request is found good, up to sending GET to Redis, unless it is not
\* cacheable or Redis is being left alone.
Start(r) ==
    /\ pc[r] = "new"
    /\ MayUse(r)
    /\ Goto(r, IF r.cacheable /\ ~bypass THEN "lookup" ELSE "generate")
    /\ UNCHANGED <<db, kv, reply, sent, paid>>

NotFound(r) ==
    /\ pc[r] = "new"
    /\ ~MayUse(r)
    /\ Answer(r, "notfound")
    /\ UNCHANGED <<db, kv, reply, paid>>

\* The database is down, or the prompt does not fit the model (ContextBudget.fit).
Refused(r) ==
    /\ pc[r] = "new"
    /\ Answer(r, "error")
    /\ UNCHANGED <<db, kv, reply, paid>>

\* Mutant of CacheKey: one cache for all clients.
CacheKeyForAll(r) == <<CHOOSE o \in Owners : TRUE, r.prompt>>

\* ResponseCache.key_for
CacheKey(r) == <<r.owner, r.prompt>>

\* A value that cannot be read is a miss like no value, without a cooldown.
Miss(r) ==
    /\ pc[r] = "lookup"
    /\ cache[CacheKey(r)] \in {None, Unreadable}
    /\ Goto(r, "generate")
    /\ UNCHANGED <<db, kv, reply, sent, paid>>

\* A hit; a stream delivers it as one piece.
Hit(r) ==
    /\ pc[r] = "lookup"
    /\ cache[CacheKey(r)] \notin {None, Unreadable}
    /\ reply' = [reply EXCEPT ![r] = [cache[CacheKey(r)] EXCEPT !.cached = TRUE]]
    /\ IF r.streamed THEN Deliver(r) ELSE UNCHANGED sent
    /\ Goto(r, "save")
    /\ UNCHANGED <<db, kv, paid>>

\* RedisError from GET or from counting the hit: a miss, and a cooldown.
LookupFails(r) ==
    /\ pc[r] = "lookup"
    /\ bypass' = TRUE
    /\ Goto(r, "generate")
    /\ UNCHANGED <<db, cache, reply, sent, paid>>

----------------------------------------------------------------------------
(* The model                                                               *)

Fresh(r, finished, valid) ==
    [by |-> r, finished |-> finished, valid |-> valid, cached |-> FALSE]

\* Mutant of Keeps: replies cut by max_tokens are cached too.
KeepsAll(r, finished) == r.cacheable

\* Only a reply the model finished itself goes to the cache.
Keeps(r, finished) == r.cacheable /\ finished

Generated(r) ==
    \E finished, valid \in BOOLEAN :
        /\ reply' = [reply EXCEPT ![r] = Fresh(r, finished, valid)]
        /\ Goto(r, IF Keeps(r, finished) /\ ~bypass THEN "put" ELSE "save")

Generate(r) ==
    /\ pc[r] = "generate" /\ ~r.streamed
    /\ Generated(r)
    /\ paid' = paid \cup {r}
    /\ UNCHANGED <<db, kv, sent>>

FirstPiece(r) ==
    /\ pc[r] = "generate" /\ r.streamed
    /\ Deliver(r)
    /\ paid' = paid \cup {r}
    /\ Goto(r, "reading")
    /\ UNCHANGED <<db, kv, reply>>

StreamEnds(r) ==
    /\ pc[r] = "reading"
    /\ Generated(r)
    /\ UNCHANGED <<db, kv, sent, paid>>

\* Anything but an LLMError ends a stream: a transport error that OllamaProvider
\* does not translate (ollama.py:110-121), or a reply without usage that the
\* estimate cannot make a Message of, blank or very long (chat.py:201).
StreamRaises(r) ==
    /\ r.streamed
    /\ pc[r] \in {"generate", "reading"}
    /\ Cut(r)
    /\ UNCHANGED <<db, kv, reply, paid>>

\* LLMError, at the end of the retries.
ModelFails(r) ==
    /\ pc[r] \in {"generate", "reading"}
    /\ Fail(r)
    /\ UNCHANGED <<db, kv, reply, paid>>

----------------------------------------------------------------------------
(* After the model                                                         *)

Put(r) ==
    /\ pc[r] = "put"
    /\ cache' = [cache EXCEPT ![CacheKey(r)] = reply[r]]
    /\ Goto(r, "save")
    /\ UNCHANGED <<db, bypass, reply, sent, paid>>

\* RedisError from SET: the value was stored or not.
PutFails(r) ==
    /\ pc[r] = "put"
    /\ cache' \in {cache, [cache EXCEPT ![CacheKey(r)] = reply[r]]}
    /\ bypass' = TRUE
    /\ Goto(r, "save")
    /\ UNCHANGED <<db, reply, sent, paid>>

\* The conversation an exchange goes to: the given one while it exists, or a new one.
Target(r, c) ==
    IF r.conv = None THEN owner[c] = None ELSE c = r.conv /\ owner[c] \in Owners

\* Mutant of UsageRow: cached replies are charged as well.
UsageRowForAll(r) == {r}

\* A cached reply called no model and spent nothing.
UsageRow(r) == IF reply[r].cached THEN {} ELSE {r}

\* _persist_exchange: conversation, both messages and the usage row.
Persist(r) ==
    \E c \in Conversations :
        /\ Target(r, c)
        /\ owner' = IF r.conv = None THEN [owner EXCEPT ![c] = r.owner] ELSE owner
        /\ rows' = rows \cup {[req |-> r, conv |-> c, cached |-> reply[r].cached]}
        /\ usage' = usage \cup UsageRow(r)

\* The transaction is committed: the done event, or the response, which takes a
\* Message and so may yet raise (chat.py:93-102).
Save(r) ==
    /\ pc[r] = "save"
    /\ Persist(r)
    /\ IF r.streamed
         THEN /\ Goto(r, "over")
              /\ closing' = [closing EXCEPT ![r] = "done"]
              /\ UNCHANGED <<text, status>>
         ELSE Answer(r, IF reply[r].valid THEN "ok" ELSE "error")
    /\ UNCHANGED <<kv, reply, paid>>

\* Mutant of SaveFails: a failed save ends a stream with done all the same.
SaveFailsSilently(r) ==
    /\ pc[r] = "save"
    /\ Persist(r) \/ UNCHANGED db
    /\ IF r.streamed
         THEN /\ Goto(r, "over")
              /\ closing' = [closing EXCEPT ![r] = "done"]
              /\ UNCHANGED <<text, status>>
         ELSE Answer(r, "error")
    /\ UNCHANGED <<kv, reply, paid>>

\* The transaction fails and is rolled back, or it was committed and the answer
\* was lost.
SaveFails(r) ==
    /\ pc[r] = "save"
    /\ Persist(r) \/ UNCHANGED db
    /\ IF r.streamed
         THEN /\ Goto(r, "over")
              /\ closing' = [closing EXCEPT ![r] = "storage"]
              /\ UNCHANGED <<text, status>>
         ELSE Answer(r, "error")
    /\ UNCHANGED <<kv, reply, paid>>

\* The task is cancelled, the client of a stream is gone, or the process dies.
Gone(r) ==
    /\ pc[r] \in Active
    /\ Goto(r, "gone")
    /\ IF pc[r] = "save" THEN Persist(r) \/ UNCHANGED db ELSE UNCHANGED db
    /\ cache' \in {cache} \cup
                  (IF pc[r] = "put" THEN {[cache EXCEPT ![CacheKey(r)] = reply[r]]} ELSE {})
    /\ UNCHANGED <<bypass, reply, sent, paid>>

----------------------------------------------------------------------------
(* Everything else                                                         *)

\* POST /v1/conversations
Open(o) ==
    /\ \E c \in Conversations :
         /\ owner[c] = None
         /\ owner' = [owner EXCEPT ![c] = o]
    /\ UNCHANGED <<rows, usage, kv, pc, reply, sent, paid>>

\* Mutant of Delete: the usage rows go with the conversation too.
DeleteWithUsage(c) ==
    /\ Deletions
    /\ owner[c] \in Owners
    /\ owner' = [owner EXCEPT ![c] = Deleted]
    /\ rows' = {x \in rows : x.conv # c}
    /\ usage' = usage \ {x.req : x \in rows \ rows'}
    /\ UNCHANGED <<kv, pc, reply, sent, paid>>

\* An operator deletes a conversation: its messages go with it (ON DELETE
\* CASCADE), what it cost stays (ON DELETE SET NULL).
Delete(c) ==
    /\ Deletions
    /\ owner[c] \in Owners
    /\ owner' = [owner EXCEPT ![c] = Deleted]
    /\ rows' = {x \in rows : x.conv # c}
    /\ UNCHANGED <<usage, kv, pc, reply, sent, paid>>

\* The time to live is over, or Redis evicts the entry.
Expire(k) ==
    /\ cache[k] # None
    /\ cache' = [cache EXCEPT ![k] = None]
    /\ UNCHANGED <<db, bypass, pc, reply, sent, paid>>

\* Whatever else writes to this Redis damages the entry.
Damage(k) ==
    /\ cache[k] \in Replies
    /\ cache' = [cache EXCEPT ![k] = Unreadable]
    /\ UNCHANGED <<db, bypass, pc, reply, sent, paid>>

CooldownEnds ==
    /\ bypass
    /\ bypass' = FALSE
    /\ UNCHANGED <<db, cache, pc, reply, sent, paid>>

Progress(r) ==
    \/ Start(r) \/ NotFound(r) \/ Refused(r)
    \/ Miss(r) \/ Hit(r) \/ LookupFails(r)
    \/ Generate(r) \/ FirstPiece(r) \/ StreamEnds(r) \/ StreamRaises(r) \/ ModelFails(r)
    \/ Put(r) \/ PutFails(r)
    \/ Save(r) \/ SaveFails(r)

Next ==
    \/ \E r \in Requests : Progress(r) \/ Gone(r)
    \/ \E o \in Owners : Open(o)
    \/ \E c \in Conversations : Delete(c)
    \/ \E k \in Keys : Expire(k) \/ Damage(k)
    \/ CooldownEnds

Spec == Init /\ [][Next]_vars

----------------------------------------------------------------------------
(* Properties                                                              *)

\* Whatever comes out of the cache was generated for the same client and the
\* same prompt ("entries are private", cache.py:52-54), and the model finished
\* it (chat.py:358-359), in whatever order requests of different clients fill
\* and read the cache.
CachedRepliesFit ==
    \A r \in Requests :
        reply[r] # None /\ reply[r].cached =>
            /\ reply[r].by.owner = r.owner
            /\ reply[r].by.prompt = r.prompt
            /\ reply[r].finished

\* A client's exchanges are only ever found in conversations of its own, even if
\* conversations are opened and deleted while the model works.
OwnConversationsOnly == \A x \in rows : owner[x.conv] = x.req.owner

\* The client was told that the exchange is complete: 200, or the done event.
Delivered(r) == closing[r] = "done" \/ (pc[r] = "over" /\ ~r.streamed /\ status[r] = "ok")

\* What a client was told is true of the database: "done" and 200 mean that the
\* exchange was stored (unless its conversation was deleted since); an error
\* event of the model, and 404, mean that nothing was stored, and 404 that
\* nothing was spent ("a wrong id does not cost a generation", chat.py:71).
AnswersAreTrue ==
    \A r \in Requests :
        LET stored == \E x \in rows : x.req = r IN
          /\ Delivered(r) => stored \/ \E c \in Conversations : owner[c] = Deleted
          /\ closing[r] = "error" \/ status[r] = "notfound" => ~stored /\ r \notin usage
          /\ status[r] = "notfound" => r \notin paid

\* The ledger charges a stored exchange exactly when the model was called for it.
LedgerMatchesExchanges ==
    /\ \A x \in rows : x.req \in usage <=> ~x.cached
    /\ usage \subseteq paid

\* A reply that the model was paid for and that was delivered whole is charged for
\* good: the row is there when the client hears of it, and "deleting a conversation
\* must not erase what it cost" (models.py:83).  Generations that were cut off,
\* abandoned or not saved have no row.
DeliveredIsCharged == \A r \in paid : Delivered(r) => r \in usage

\* "Text pieces as they arrive, then one closing event (...) After the first
\* piece a failure can only be reported inside the stream, as an error event"
\* (chat.py:107-111).
StreamsAreClosed ==
    \A r \in Requests : pc[r] = "over" /\ text[r] => closing[r] # "none"

=============================================================================
