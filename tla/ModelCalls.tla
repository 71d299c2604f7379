----------------------------- MODULE ModelCalls -----------------------------
(***************************************************************************)
(* Calls to the model: ChatService.complete, stream_reply and              *)
(* _provider_stream of app/services/chat.py, the providers of app/llm and  *)
(* record_llm_call of app/observability/calls.py.                          *)
(*                                                                         *)
(* Calls of one process share the semaphore that caps provider calls in    *)
(* flight.  A call holds a slot while the provider works on an attempt,    *)
(* not while it waits to retry; a stream holds its slot until its last     *)
(* piece, also while the client does not read.  One step of the model is   *)
(* what runs between two awaits of the event loop.                         *)
(*                                                                         *)
(* Abstracted: texts, usage numbers and delays.  A provider answers, fails *)
(* or times out whenever it likes.  asyncio.Semaphore (Python 3.12) is     *)
(* modelled with its queue of futures, because a call can be cancelled     *)
(* while it queues, before or after it was woken.                          *)
(***************************************************************************)
EXTENDS Integers, FiniteSets, Sequences, SequencesExt

CONSTANTS
    Calls,
    Streams,        \* the calls made by stream_reply; the others are made by complete()
    MaxConcurrency, \* llm_max_concurrency
    Attempts,       \* llm_max_retries + 1
    MaxPieces       \* bound on the pieces of a stream

ASSUME CallsAssumption == IsFiniteSet(Calls) /\ Streams \subseteq Calls
ASSUME LimitsAssumption ==
    /\ MaxConcurrency \in Nat \ {0}
    /\ Attempts \in Nat \ {0}
    /\ MaxPieces \in Nat \ {0}

VARIABLES
    stage,   \* where each call stands
    attempt, \* attempts of a call the provider was asked for
    value,   \* Semaphore._value
    waiters, \* Semaphore._waiters: calls, first come first
    future,  \* the future of a call in waiters
    pieces,  \* chunks a stream got from the provider
    origin,  \* the attempts whose text a stream handed to the client
    records  \* record_llm_call, times per call

vars == <<stage, attempt, value, waiters, future, pieces, origin, records>>

\* "calling": the provider was asked and nothing came back yet; "reading": a
\* stream awaits a later chunk; "yielded": it waits for the client to take a
\* piece; "closing": it closes the provider's stream, the client is gone.
SlotStages == {"calling", "reading", "yielded", "closing"}
\* "storing": the text is complete and goes to the cache, the slot is free.
Waiting == {"queued", "backoff", "storing"}
\* ok, failed (LLMError), interrupted (GeneratorExit), cancelled (CancelledError),
\* raised (any other exception), refused (the prompt does not fit the model)
Ended == {"ok", "failed", "interrupted", "cancelled", "raised", "refused"}
Stages == {"new"} \cup SlotStages \cup Waiting \cup Ended

\* A future waits, was given a slot, was cancelled while it waited, or was given
\* a slot after which its task was cancelled.
Futures == {"none", "pending", "woken", "cancelled", "revoked"}

TypeOK ==
    /\ stage \in [Calls -> Stages]
    /\ attempt \in [Calls -> 0 .. Attempts]
    /\ value \in 0 .. MaxConcurrency
    /\ waiters \in Seq(Calls)
    /\ future \in [Calls -> Futures]
    /\ pieces \in [Calls -> 0 .. MaxPieces]
    /\ origin \in [Calls -> SUBSET (1 .. Attempts)]
    /\ records \in [Calls -> Nat]

Init ==
    /\ stage = [c \in Calls |-> "new"]
    /\ attempt = [c \in Calls |-> 0]
    /\ value = MaxConcurrency
    /\ waiters = <<>>
    /\ future = [c \in Calls |-> "none"]
    /\ pieces = [c \in Calls |-> 0]
    /\ origin = [c \in Calls |-> {}]
    /\ records = [c \in Calls |-> 0]

Goto(c, s) == stage' = [stage EXCEPT ![c] = s]

----------------------------------------------------------------------------
(* asyncio.Semaphore                                                       *)

Pending(f) == {c \in Calls : f[c] = "pending"}

\* Semaphore.locked(): a newcomer must not overtake those who wait.
Locked == value = 0 \/ \E c \in Calls : future[c] \in {"pending", "woken", "revoked"}

\* c came before d.
Before(c, d) ==
    \E i, j \in DOMAIN waiters : i < j /\ waiters[i] = c /\ waiters[j] = d

\* release(): one slot more, for the first pending waiter if there is one.
Release ==
    \/ /\ Pending(future) = {}
       /\ value' = value + 1
       /\ UNCHANGED future
    \/ \E c \in Pending(future) :
       /\ \A d \in Pending(future) \ {c} : Before(c, d)
       /\ future' = [future EXCEPT ![c] = "woken"]
       /\ UNCHANGED value

\* The end of acquire(): _wake_up_next, as often as there is a free slot and
\* somebody pending; the free slots go to those who wait longest.
WakeAll(free, f) ==
    \E woken \in SUBSET Pending(f) :
        /\ Cardinality(woken) <= free
        /\ Cardinality(woken) = free \/ woken = Pending(f)
        /\ \A c \in woken : \A d \in Pending(f) \ woken : Before(c, d)
        /\ value' = free - Cardinality(woken)
        /\ future' = [c \in Calls |-> IF c \in woken THEN "woken" ELSE f[c]]

\* Mutant of LeaveQueue: acquire() is left without waking anybody.
LeaveQueueSilently(c, freed) ==
    /\ \E i \in DOMAIN waiters : waiters[i] = c /\ waiters' = RemoveAt(waiters, i)
    /\ value' = value + freed
    /\ future' = [future EXCEPT ![c] = "none"]

\* A call leaves acquire() after it waited.
LeaveQueue(c, freed) ==
    /\ \E i \in DOMAIN waiters : waiters[i] = c /\ waiters' = RemoveAt(waiters, i)
    /\ WakeAll(value + freed, [future EXCEPT ![c] = "none"])

----------------------------------------------------------------------------
(* Getting a slot                                                          *)

\* ContextBudget.check refuses the prompt before a slot is taken.
Refuse(c) ==
    /\ stage[c] = "new"
    /\ Goto(c, "refused")
    /\ UNCHANGED <<attempt, value, waiters, future, pieces, origin, records>>

Ask(c) ==
    /\ Goto(c, "calling")
    /\ attempt' = [attempt EXCEPT ![c] = @ + 1]

\* async with self._semaphore, at the first attempt and after each backoff.
Enter(c) ==
    /\ stage[c] \in {"new", "backoff"}
    /\ ~Locked
    /\ value' = value - 1
    /\ Ask(c)
    /\ UNCHANGED <<waiters, future, pieces, origin, records>>

Queue(c) ==
    /\ stage[c] \in {"new", "backoff"}
    /\ Locked
    /\ waiters' = Append(waiters, c)
    /\ future' = [future EXCEPT ![c] = "pending"]
    /\ Goto(c, "queued")
    /\ UNCHANGED <<attempt, value, pieces, origin, records>>

\* The task of a woken call runs.
Resume(c) ==
    /\ future[c] = "woken"
    /\ LeaveQueue(c, 0)
    /\ Ask(c)
    /\ UNCHANGED <<pieces, origin, records>>

\* The task of a cancelled call runs.  If it had been woken, it gives the slot back.
Withdraw(c) ==
    /\ future[c] \in {"cancelled", "revoked"}
    /\ LeaveQueue(c, IF future[c] = "revoked" THEN 1 ELSE 0)
    /\ Goto(c, "cancelled")
    /\ UNCHANGED <<attempt, pieces, origin, records>>

----------------------------------------------------------------------------
(* What the provider does                                                  *)

\* How a call ends when it gives up its slot: with or without a line in the log.
EndWith(c, s) ==
    /\ Goto(c, s)
    /\ Release
    /\ records' = [records EXCEPT ![c] = @ + (IF s \in {"ok", "failed"} THEN 1 ELSE 0)]
    /\ UNCHANGED <<attempt, waiters, pieces, origin>>

\* complete(): the provider answers.
Reply(c) ==
    /\ c \notin Streams
    /\ stage[c] = "calling"
    /\ EndWith(c, "ok")

\* Mutant of Retry: every failed attempt is recorded.
RetryRecorded(c) ==
    /\ stage[c] = "calling"
    /\ attempt[c] < Attempts
    /\ Goto(c, "backoff")
    /\ Release
    /\ records' = [records EXCEPT ![c] = @ + 1]
    /\ UNCHANGED <<attempt, waiters, pieces, origin>>

\* An error that a retry can help, before the first piece: back off, outside the slot.
Retry(c) ==
    /\ stage[c] = "calling"
    /\ attempt[c] < Attempts
    /\ Goto(c, "backoff")
    /\ Release
    /\ UNCHANGED <<attempt, waiters, pieces, origin, records>>

\* An error no retry can help, or the last attempt.
Fail(c) ==
    /\ stage[c] = "calling"
    /\ EndWith(c, "failed")

\* A chunk of a stream.  Text goes to the client; the first chunk, with or
\* without text, ends the retries.
Chunk(c) ==
    /\ c \in Streams
    /\ stage[c] \in {"calling", "reading"}
    /\ pieces[c] < MaxPieces
    /\ pieces' = [pieces EXCEPT ![c] = @ + 1]
    /\ \/ Goto(c, "yielded") /\ origin' = [origin EXCEPT ![c] = @ \cup {attempt[c]}]
       \/ Goto(c, "reading") /\ UNCHANGED origin
    /\ UNCHANGED <<attempt, value, waiters, future, records>>

\* The stream ends with text.  A cacheable reply is stored before the call is recorded.
End(c) ==
    /\ stage[c] = "reading"
    /\ origin[c] # {}
    /\ \/ EndWith(c, "ok")
       \/ /\ Goto(c, "storing")
          /\ Release
          /\ UNCHANGED <<attempt, waiters, pieces, origin, records>>

Store(c) ==
    /\ stage[c] = "storing"
    /\ Goto(c, "ok")
    /\ records' = [records EXCEPT ![c] = @ + 1]
    /\ UNCHANGED <<attempt, value, waiters, future, pieces, origin>>

\* Mutant of Break: a broken stream is tried again.
BreakAndRetry(c) ==
    /\ stage[c] = "reading"
    /\ Goto(c, IF attempt[c] < Attempts THEN "backoff" ELSE "failed")
    /\ Release
    /\ UNCHANGED <<attempt, waiters, pieces, origin, records>>

\* The stream breaks, goes silent, or ends without text: an LLMError after the
\* first chunk is never retried.
Break(c) ==
    /\ stage[c] = "reading"
    /\ EndWith(c, "failed")

\* An exception that is no LLMError: nothing catches it, nothing is recorded.
Raise(c) ==
    /\ stage[c] \in {"calling", "reading"}
    /\ EndWith(c, "raised")

----------------------------------------------------------------------------
(* What the client and the server do                                       *)

\* The client takes the piece, the stream goes on.
Pull(c) ==
    /\ stage[c] = "yielded"
    /\ Goto(c, "reading")
    /\ UNCHANGED <<attempt, value, waiters, future, pieces, origin, records>>

\* The client goes while a piece waits for it: GeneratorExit.
Leave(c) ==
    /\ stage[c] = "yielded"
    /\ Goto(c, "closing")
    /\ records' = [records EXCEPT ![c] = @ + 1]
    /\ UNCHANGED <<attempt, value, waiters, future, pieces, origin>>

\* Mutant of Closed: the provider's stream is never closed, its slot never freed.
ClosedByNobody(c) ==
    /\ stage[c] = "closing"
    /\ Goto(c, "interrupted")
    /\ UNCHANGED <<attempt, value, waiters, future, pieces, origin, records>>

\* The provider's stream is closed, the slot is free.
Closed(c) ==
    /\ stage[c] = "closing"
    /\ Goto(c, "interrupted")
    /\ Release
    /\ UNCHANGED <<attempt, waiters, pieces, origin, records>>

\* CancelledError at an await: the client of a stream disconnects while the
\* next chunk is awaited, or the server shuts down.
CancelQueued(c) ==
    /\ future[c] \in {"pending", "woken"}
    /\ future' = [future EXCEPT ![c] = IF @ = "pending" THEN "cancelled" ELSE "revoked"]
    /\ UNCHANGED <<stage, attempt, value, waiters, pieces, origin, records>>

CancelUnslotted(c) ==
    /\ stage[c] \in {"backoff", "storing"}
    /\ Goto(c, "cancelled")
    /\ UNCHANGED <<attempt, value, waiters, future, pieces, origin, records>>

\* Mutant of CancelSlotted: a cancelled call keeps its slot for ever.
CancelSlottedHoldingOn(c) ==
    /\ stage[c] \in {"calling", "reading"}
    /\ Goto(c, "cancelled")
    /\ UNCHANGED <<attempt, value, waiters, future, pieces, origin, records>>

CancelSlotted(c) ==
    /\ stage[c] \in {"calling", "reading"}
    /\ EndWith(c, "cancelled")

----------------------------------------------------------------------------

Scheduler(c) == Enter(c) \/ Queue(c) \/ Resume(c) \/ Withdraw(c) \/ Store(c) \/ Closed(c)
Provider(c) == Reply(c) \/ Retry(c) \/ Fail(c) \/ Chunk(c) \/ End(c) \/ Break(c) \/ Raise(c)
Client(c) == Pull(c) \/ Leave(c)
Cancel(c) == CancelQueued(c) \/ CancelUnslotted(c) \/ CancelSlotted(c)

Next == \E c \in Calls : Refuse(c) \/ Scheduler(c) \/ Provider(c) \/ Client(c) \/ Cancel(c)

Spec == Init /\ [][Next]_vars

\* The event loop runs what is ready, backoffs end, the timeout per attempt and
\* per piece makes every provider answer or fail; clients read or go away.
FairSpec ==
    /\ Spec
    /\ \A c \in Calls :
         /\ WF_vars(Scheduler(c))
         /\ WF_vars(Provider(c))
         /\ WF_vars(Client(c))

----------------------------------------------------------------------------
(* Properties                                                              *)

\* Calls the provider works for, and calls a slot is reserved for.
Holders == {c \in Calls : stage[c] \in SlotStages}
Reserved == {c \in Calls : future[c] \in {"woken", "revoked"}}

\* Every slot is free, held by one call, or reserved for one waiter: none is lost
\* or given twice, whatever fails, is cancelled, retries or disconnects; so at
\* most llm_max_concurrency calls are in flight (chat.py:62-63).
SlotsConserved == value + Cardinality(Holders) + Cardinality(Reserved) = MaxConcurrency

\* No lost wakeup: when a slot is free and somebody waits for one, a task in the
\* queue is about to run and passes the slot on.
NoLostWakeup ==
    value > 0 /\ Pending(future) # {} =>
        \E c \in Calls : future[c] \in {"woken", "cancelled", "revoked"}

\* "Starting over would send it twice" (chat.py:281): all the text that a client
\* gets comes from one attempt, and after text no further attempt is made.
NoTextTwice ==
    \A c \in Calls : origin[c] # {} => origin[c] = {attempt[c]}

\* record_llm_call (calls.py:26) counts a call once, when it has ended: never per
\* attempt, and never both as interrupted and as finished.
RecordedAtMostOnce ==
    \A c \in Calls :
        /\ records[c] <= 1
        /\ stage[c] \in {"ok", "failed", "interrupted"} => records[c] = 1

\* "One line per model interaction" (calls.py:26): a stream that delivered text
\* and lost its client (chat.py:177) leaves a line, status "interrupted".
LostStreamsAreRecorded ==
    \A c \in Calls :
        origin[c] # {} /\ stage[c] \in {"interrupted", "cancelled"} => records[c] = 1

\* Every call comes to an end: nobody is starved of a slot by retries, streams
\* and cancellations of others.
EveryCallEnds == \A c \in Calls : stage[c] # "new" ~> stage[c] \in Ended

=============================================================================
