--------------------------- MODULE Service_proofs ---------------------------
(* Theorems about Service for all calls, clients, processes and limits.     *)
(* What the idempotency store does is cited from Idempotency_proofs, of     *)
(* which IP is the instance that belongs to this front.                     *)
EXTENDS Service, FiniteSetTheorems, NaturalsInduction, WellFoundedInduction, TLAPS

IP == INSTANCE Idempotency_proofs WITH
    Keys <- {r.key : r \in Requests},
    Fingerprints <- {r.fp : r \in Requests},
    Losable <- {"in_progress", "done"}

StoreKeys == {r.key : r \in Requests}

----------------------------------------------------------------------------
(* The store behind the front                                              *)

\* A call with a key is one request of the store.
LEMMA RequestFacts ==
  /\ \A c \in Keyed : /\ RequestOf(c) \in Requests /\ RequestOf(c).proc = c.proc
                      /\ c.endpoint \in {"chat", "structured"} /\ ~Unprocessable(c)
                      /\ RequestOf(c).key \in StoreKeys
  /\ \A c, d \in Calls : RequestOf(c) = RequestOf(d) => c = d
<1>1. ASSUME NEW c \in Keyed
      PROVE  /\ c \in Calls /\ RequestOf(c) \in Requests
             /\ c.endpoint \in {"chat", "structured"} /\ ~Unprocessable(c)
  BY DEF Keyed, Requests, Unprocessable
<1>2. \A c : RequestOf(c).id = c.id /\ RequestOf(c).proc = c.proc
  BY DEF RequestOf
<1>3. \A c \in Keyed : RequestOf(c).key \in StoreKeys
  BY <1>1 DEF StoreKeys
<1>4. \A c, d \in Calls : RequestOf(c) = RequestOf(d) => c = d
  BY <1>2, CallsAssumption
<1> QED
  BY <1>1, <1>2, <1>3, <1>4

\* The assumptions of the store hold of what the front gives it.
LEMMA StoreAssumptions ==
  /\ IP!RequestsAssumption /\ IP!TimesAssumption /\ IP!BoundsAssumption
  /\ IP!NoneAssumption
<1>1. \A r \in Requests : r.proc \in Processes
  BY CallsAssumption DEF Requests, Keyed, RequestOf
<1>2. IP!RequestsAssumption
  BY <1>1 DEF IP!RequestsAssumption
<1>3. IP!NoneAssumption
  BY StoreAssumption DEF IP!NoneAssumption, IP!Entries, Idem!Entries
<1> QED
  BY <1>2, <1>3, StoreAssumption
  DEF IP!TimesAssumption, IP!BoundsAssumption

\* The two instances of the store are one.
LEMMA SameRequestSteps ==
  ASSUME NEW r
  PROVE  (Idem!Progress(r) => IP!Progress(r)) /\ (Idem!Failure(r) => IP!Failure(r))
<1> USE DEF Idem!Goto, IP!Goto, Idem!SetNX, IP!SetNX, Idem!Marker, IP!Marker,
            Idem!Stored, IP!Stored, Idem!Command, IP!Command, Idem!Fault, IP!Fault,
            Idem!Trip, IP!Trip, Idem!Verdict, IP!Verdict, Idem!BeginStages, IP!BeginStages
<1>1. Idem!Progress(r) => IP!Progress(r)
  BY DEF Idem!Progress, IP!Progress, Idem!BeginUnprotected, IP!BeginUnprotected,
         Idem!Begin, IP!Begin, Idem!TakeKey, IP!TakeKey, Idem!KeyTaken, IP!KeyTaken,
         Idem!ReadNothing, IP!ReadNothing, Idem!ReadEntry, IP!ReadEntry,
         Idem!ActionReturns, IP!ActionReturns, Idem!ActionRaises, IP!ActionRaises,
         Idem!Complete, IP!Complete, Idem!Abort, IP!Abort
<1>2. Idem!Failure(r) => IP!Failure(r)
  BY DEF Idem!Failure, IP!Failure, Idem!BeginFails, IP!BeginFails, Idem!CompleteFails,
         IP!CompleteFails, Idem!AbortFails, IP!AbortFails, Idem!Cancelled, IP!Cancelled
<1> QED
  BY <1>1, <1>2

\* The store of the front and the one of the proofs are the same: crash, loss, time,
\* start and types.
LEMMA SameOtherSteps ==
  /\ \A p : Idem!Crash(p) => IP!Crash(p)
  /\ \A lost : Idem!Lose(lost) => IP!Lose(lost)
  /\ Idem!Tick => IP!Tick
  /\ Idem!Init => IP!Init
  /\ Idem!TypeOK <=> IP!TypeOK
<1>1. ASSUME NEW p
      PROVE  Idem!Crash(p) => IP!Crash(p)
  BY DEF Idem!Crash, IP!Crash, Idem!Fault, IP!Fault, Idem!BeginStages, IP!BeginStages,
         Idem!RunStages, IP!RunStages
<1>2. ASSUME NEW lost
      PROVE  Idem!Lose(lost) => IP!Lose(lost)
  BY DEF Idem!Lose, IP!Lose
<1>3. Idem!Tick => IP!Tick
  BY DEF Idem!Tick, IP!Tick, Idem!Holds, IP!Holds, Idem!RunStages, IP!RunStages,
         Idem!Aged, IP!Aged
<1>4. Idem!Init => IP!Init
  BY DEF Idem!Init, IP!Init
<1>5. Idem!TypeOK <=> IP!TypeOK
  BY DEF Idem!TypeOK, IP!TypeOK, Idem!Entries, IP!Entries, Idem!Stages, IP!Stages,
         Idem!BeginStages, IP!BeginStages, Idem!RunStages, IP!RunStages, Idem!Finished,
         IP!Finished
<1> QED
  BY <1>1, <1>2, <1>3, <1>4, <1>5

\* What a failure of the limiter changes of the variables of the store.
OnlyAFault ==
    /\ faults' \in Nat /\ faults' <= MaxFaults
    /\ UNCHANGED <<entry, pc, outcome, served, age, cooldown, effects, losses>>

\* The steps of one call within the front.
FrontStep(c) ==
    \/ Arrive(c) \/ Reject(c) \/ Admit(c) \/ Refuse(c) \/ LimiterFails(c) \/ Judge(c)
    \/ KeyedAnswer(c) \/ PlainReturns(c) \/ PlainRaises(c)
    \/ FirstEvent(c) \/ StreamRaises(c) \/ StreamEnds(c) \/ Interrupted(c)

\* What the front does besides leaves the store alone, or counts a fault.
LEMMA FrontStoreStep ==
  ASSUME IP!TypeOK, NEW c \in Calls, FrontStep(c)
  PROVE  UNCHANGED IP!vars \/ OnlyAFault
<1>1. CASE LimiterFails(c)
  BY <1>1, StoreAssumption DEF LimiterFails, Idem!Fault, OnlyAFault, IP!TypeOK
<1>2. CASE ~LimiterFails(c)
  BY <1>2 DEF FrontStep, Arrive, Reject, Admit, Refuse, Judge, KeyedAnswer, PlainReturns,
              PlainRaises, FirstEvent, StreamRaises, StreamEnds, Interrupted, store, IP!vars
<1> QED
  BY <1>1, <1>2

\* A step of a call with a key is a step of its request in the store.
LEMMA KeyedStoreStep ==
  ASSUME NEW c \in Calls, KeyedStep(c)
  PROVE  IP!Next /\ (IP!Progress(RequestOf(c)) \/ IP!Failure(RequestOf(c)))
  BY SameRequestSteps, RequestFacts DEF KeyedStep, IP!Next

\* Every step of the service is one of the store, or none that it notices but
\* for a fault more.
LEMMA StoreStep ==
  ASSUME IP!TypeOK, [Next]_vars
  PROVE  [IP!Next]_(IP!vars) \/ OnlyAFault
<1>1. ASSUME NEW p \in Processes, Crash(p)
      PROVE  IP!Next
  BY <1>1, SameOtherSteps DEF Crash, IP!Next
<1>2. ASSUME Outside
      PROVE  IP!Next
  <2>1. ASSUME NEW k \in DOMAIN entry, Idem!Lose({k})
        PROVE  IP!Next
    <3>1. {k} \in SUBSET StoreKeys /\ IP!Lose({k})
      BY <2>1, SameOtherSteps DEF IP!TypeOK, StoreKeys
    <3> QED
      BY <3>1 DEF IP!Next, StoreKeys
  <2> QED
    BY <1>2, <2>1, SameOtherSteps DEF Outside, IP!Next
<1>3. ASSUME UNCHANGED vars
      PROVE  UNCHANGED IP!vars
  BY <1>3 DEF vars, store, IP!vars
<1> QED
  BY <1>1, <1>2, <1>3, FrontStoreStep, KeyedStoreStep DEF Next, FrontStep

\* The store keeps its invariant behind the front.
LEMMA StoreInvStep ==
  ASSUME IP!ReplayInv, [Next]_vars
  PROVE  IP!ReplayInv'
<1>1. IP!TypeOK
  BY DEF IP!ReplayInv
<1>2. CASE [IP!Next]_(IP!vars)
  BY <1>2, StoreAssumptions, IP!ReplayInvStep
<1>3. CASE OnlyAFault
  <2>1. IP!TypeOK'
    BY <1>1, <1>3 DEF OnlyAFault, IP!TypeOK
  <2>2. IP!BodiesFit'
    BY <1>3 DEF OnlyAFault, IP!ReplayInv, IP!BodiesFit
  <2>3. IP!ReplayIsTheSameRequest'
    BY <1>3 DEF OnlyAFault, IP!ReplayInv, IP!ReplayIsTheSameRequest
  <2> QED
    BY <2>1, <2>2, <2>3 DEF IP!ReplayInv
<1> QED
  BY <1>1, <1>2, <1>3, StoreStep

----------------------------------------------------------------------------
(* Where a call stands, what it was sent and what it has done              *)

KeyedInv(c) ==
    LET r == RequestOf(c) IN
      /\ stage[c] \in {"new", "turned", "limit"} => pc[r] = "new"
      /\ pc[r] \in IP!Uncommitted => c \notin committed
      /\ pc[r] \in {"complete", "ok"} => c \in committed
      /\ \A k \in StoreKeys : r \in effects[k] => c \in committed
      /\ stage[c] = "done" => pc[r] \in {"new"} \cup IP!Finished
      /\ stage[c] = "done" /\ pc[r] = "ok" => sent[c] = 200
      /\ stage[c] = "done" /\ pc[r] = "gone" => sent[c] = None

CallInv(c) ==
    /\ lines[c] = IF stage[c] # "done" THEN <<>>
                                      ELSE <<IF sent[c] = None THEN 500 ELSE sent[c]>>
    /\ stage[c] \in {"new", "turned", "limit", "handler"} => sent[c] = None
    /\ stage[c] \in {"new", "turned", "limit"} => c \notin committed
    /\ stage[c] = "handler" /\ c \notin Keyed => c \notin committed
    /\ stage[c] = "turned" => Turned(c)
    /\ stage[c] = "limit" => MayUse(c) /\ CostsTheModel(c)
    /\ stage[c] = "streaming" => sent[c] = 200 /\ c.endpoint = "stream"
    /\ stage[c] = "gone" /\ c.endpoint # "stream" => sent[c] = None
    /\ sent[c] \in 400..499 /\ c \in committed => c.endpoint = "structured" /\ sent[c] = 400
    /\ sent[c] \in {200, 201} /\ c.endpoint # "stream" => c \in committed \/ IsReplay(c)
    /\ c \in Keyed => KeyedInv(c)

\* What the steps of other calls leave of a call.
Keeps(c) ==
    /\ stage'[c] = stage[c] /\ sent'[c] = sent[c] /\ lines'[c] = lines[c]
    /\ c \in committed' <=> c \in committed
    /\ c \in Keyed =>
         /\ pc'[RequestOf(c)] = pc[RequestOf(c)]
         /\ \A k \in StoreKeys : RequestOf(c) \in effects'[k] => RequestOf(c) \in effects[k]

\* A call that nothing happens to stands where it stood.
LEMMA CallKept ==
  ASSUME NEW c, CallInv(c), Keeps(c)
  PROVE  CallInv(c)'
<1>1. ASSUME c \in Keyed
      PROVE  KeyedInv(c)'
  <2> DEFINE r == RequestOf(c)
  <2>1. KeyedInv(c) /\ stage'[c] = stage[c] /\ sent'[c] = sent[c] /\ pc'[r] = pc[r]
        /\ (c \in committed' <=> c \in committed)
    BY <1>1 DEF CallInv, Keeps
  <2>2. \A k \in StoreKeys : r \in effects'[k] => c \in committed'
    BY <1>1, <2>1 DEF Keeps, KeyedInv
  <2> HIDE DEF r
  <2> QED
    BY <2>1, <2>2 DEF KeyedInv, r
<1>2. IsReplay(c) => IsReplay(c)'
  BY DEF Keeps, IsReplay
<1> QED
  BY <1>1, <1>2 DEF CallInv, Keeps

FrontTypes ==
    /\ stage \in [Calls -> Stages]
    /\ sent \in [Calls -> Statuses \cup {None}]
    /\ lines \in [Calls -> Seq(Statuses)]
    /\ inflight \in [Processes -> Int]
    /\ counted \in [Clients -> SUBSET Calls]
    /\ committed \subseteq Calls

\* A step of the front leaves the other calls alone.
LEMMA FrontOthers ==
  ASSUME FrontTypes, NEW d \in Calls, FrontStep(d), NEW c \in Calls, c # d
  PROVE  Keeps(c)
<1>1. stage'[c] = stage[c] /\ sent'[c] = sent[c] /\ lines'[c] = lines[c]
  BY DEF FrontTypes, FrontStep, Arrive, Reject, Admit, Refuse, LimiterFails, Judge,
         KeyedAnswer, LeaveUnanswered, PlainReturns, PlainRaises, FirstEvent,
         StreamRaises, StreamEnds, Interrupted, Answer, Leave
<1>2. c \in committed' <=> c \in committed
  BY DEF FrontStep, Arrive, Reject, Admit, Refuse, LimiterFails, Judge, KeyedAnswer,
         PlainReturns, PlainRaises, FirstEvent, StreamRaises, StreamEnds, Interrupted
<1>3. pc' = pc /\ effects' = effects
  BY DEF FrontStep, Arrive, Reject, Admit, Refuse, LimiterFails, Judge, KeyedAnswer,
         PlainReturns, PlainRaises, FirstEvent, StreamRaises, StreamEnds, Interrupted, store
<1> QED
  BY <1>1, <1>2, <1>3 DEF Keeps

\* A call that is answered in the handler or before, with a 4xx only when it has
\* done nothing, or paid for an analysis that grew too long.
LEMMA Answered ==
  ASSUME FrontTypes, NEW c \in Calls, CallInv(c), NEW status \in Statuses, Answer(c, status),
         UNCHANGED <<pc, effects>>,
         stage[c] \in {"turned", "limit", "handler"},
         status \in 400..499 /\ c \in committed' => c.endpoint = "structured" /\ status = 400,
         status \in {200, 201} /\ c.endpoint # "stream" => c \in committed' \/ IsReplay(c),
         c \in Keyed => /\ committed' = committed
                        /\ pc[RequestOf(c)] \in {"new"} \cup IP!Finished
                        /\ pc[RequestOf(c)] = "ok" => status = 200
                        /\ pc[RequestOf(c)] # "gone"
  PROVE  CallInv(c)'
<1>1. /\ stage'[c] = "done" /\ sent'[c] = status /\ lines'[c] = Append(lines[c], status)
  BY DEF Answer, Leave, FrontTypes
<1>2. lines[c] = <<>>
  BY DEF CallInv
<1>3. Statuses \subseteq Nat /\ status # None
  BY StoreAssumption DEF Statuses
<1>4. lines'[c] = <<status>>
  BY <1>1, <1>2
<1>5. IsReplay(c) => IsReplay(c)'
  BY DEF IsReplay
<1>6. c \in Keyed => KeyedInv(c)'
  BY <1>1 DEF CallInv, KeyedInv
<1> QED
  BY <1>1, <1>3, <1>4, <1>5, <1>6 DEF CallInv

\* An error is never answered with 200 or 201.
LEMMA StatusType ==
  \A kind \in ErrorKinds : StatusOf(kind) \in Statuses \ {200, 201}
  BY DEF ErrorKinds, StatusOf, Statuses

\* What is raised after a commit is answered with no 4xx, but for the overflow of
\* an analysis.
LEMMA AfterCommit ==
  ASSUME NEW c, NEW kind \in RaisedAfterCommit(c.endpoint), StatusOf(kind) \in 400..499
  PROVE  c.endpoint = "structured" /\ StatusOf(kind) = 400
<1>1. CASE c.endpoint = "structured"
  <2>1. kind \in {"overflow", "structured", "database", "llm_timeout", "llm", "other"}
    BY <1>1 DEF RaisedAfterCommit, RaisedBy
  <2> QED
    BY <1>1, <2>1 DEF StatusOf
<1>2. CASE c.endpoint # "structured"
  BY <1>2 DEF RaisedAfterCommit, StatusOf
<1> QED
  BY <1>1, <1>2

\* What an action raises is an error; after its commit, one that may come then.
LEMMA RaisedType ==
  \A c : /\ Raised(c) \subseteq ErrorKinds
         /\ c \in committed => Raised(c) \subseteq RaisedAfterCommit(c.endpoint)
  BY FrontAssumption DEF Raised

\* What a step of the front does for its own call.
LEMMA FrontOwn ==
  ASSUME FrontTypes, NEW c \in Calls, CallInv(c), FrontStep(c)
  PROVE  CallInv(c)'
<1>0. UNCHANGED <<pc, effects, served>>
  BY DEF FrontStep, Arrive, Reject, Admit, Refuse, LimiterFails, Judge, KeyedAnswer,
         PlainReturns, PlainRaises, FirstEvent, StreamRaises, StreamEnds, Interrupted, store
<1> None \notin Nat /\ 400..499 \subseteq Nat
  BY StoreAssumption
<1>1. ASSUME Arrive(c) \/ Admit(c) \/ LimiterFails(c)
      PROVE  CallInv(c)'
  <2>1. /\ stage[c] \in {"new", "limit"} /\ stage'[c] \in {"turned", "limit", "handler"}
        /\ stage'[c] \in {"turned", "limit"} => stage[c] = "new"
        /\ stage'[c] = "turned" => Turned(c)
        /\ stage'[c] = "limit" => MayUse(c) /\ CostsTheModel(c)
        /\ UNCHANGED <<sent, lines, committed>>
    BY <1>1 DEF Arrive, Admit, LimiterFails, FrontTypes, Turned
  <2>2. c \in Keyed => KeyedInv(c)'
    BY <1>0, <2>1 DEF CallInv, KeyedInv
  <2> QED
    BY <2>1, <2>2 DEF CallInv
<1>2. ASSUME Reject(c)
      PROVE  CallInv(c)'
  <2>1. stage[c] = "turned" /\ Answer(c, Refusal(c)) /\ committed' = committed
    BY <1>2 DEF Reject
  <2>2. /\ c \notin committed /\ (c \in Keyed => pc[RequestOf(c)] = "new")
        /\ Turned(c)
    BY <2>1 DEF CallInv, KeyedInv
  <2>3. Refusal(c) \in {422, 401, 403}
    BY <2>2 DEF Refusal, Turned
  <2> QED
    BY <1>0, <2>1, <2>2, <2>3, Answered DEF Statuses
<1>3. ASSUME Refuse(c)
      PROVE  CallInv(c)'
  <2>1. stage[c] = "limit" /\ Answer(c, 429) /\ committed' = committed
    BY <1>3 DEF Refuse
  <2>2. c \notin committed /\ (c \in Keyed => pc[RequestOf(c)] = "new")
    BY <2>1 DEF CallInv, KeyedInv
  <2> QED
    BY <1>0, <2>1, <2>2, Answered DEF Statuses
<1>4. ASSUME Judge(c)
      PROVE  CallInv(c)'
  <2>1. /\ stage[c] = "handler" /\ committed' = committed
        /\ Answer(c, IF Unprocessable(c) THEN 422 ELSE 400)
        /\ c \notin Keyed
    BY <1>4, RequestFacts DEF Judge, Unsupported
  <2>2. c \notin committed
    BY <2>1 DEF CallInv
  <2> QED
    BY <1>0, <2>1, <2>2, Answered DEF Statuses
<1>5. ASSUME KeyedAnswer(c)
      PROVE  CallInv(c)'
  <2> DEFINE end == pc[RequestOf(c)]
  <2>1. stage[c] = "handler" /\ c \in Keyed /\ committed' = committed
    BY <1>5 DEF KeyedAnswer
  <2>2. KeyedInv(c)
    BY <2>1 DEF CallInv
  <2>3. CASE end = "ok" /\ Answer(c, 200)
    BY <1>0, <2>1, <2>2, <2>3, Answered DEF Statuses, KeyedInv, IP!Finished
  <2>4. CASE end = "replay" /\ Answer(c, 200)
    BY <1>0, <2>1, <2>2, <2>4, Answered DEF Statuses, KeyedInv, IP!Finished, IsReplay
  <2>5. CASE end = "conflict" /\ Answer(c, 409)
    <3>1. c \notin committed
      BY <2>2, <2>5 DEF KeyedInv, IP!Uncommitted
    <3> QED
      BY <1>0, <2>1, <2>5, <3>1, Answered DEF Statuses, IP!Finished
  <2>6. CASE end = "reuse" /\ Answer(c, 422)
    <3>1. c \notin committed
      BY <2>2, <2>6 DEF KeyedInv, IP!Uncommitted
    <3> QED
      BY <1>0, <2>1, <2>6, <3>1, Answered DEF Statuses, IP!Finished
  <2>7. ASSUME end = "error", NEW kind \in Raised(c), Answer(c, StatusOf(kind))
        PROVE  CallInv(c)'
    <3>1. StatusOf(kind) \in Statuses \ {200, 201}
      BY StatusType, RaisedType
    <3>2. StatusOf(kind) \in 400..499 /\ c \in committed =>
            c.endpoint = "structured" /\ StatusOf(kind) = 400
      BY RaisedType, AfterCommit
    <3> QED
      BY <1>0, <2>1, <2>7, <3>1, <3>2, Answered DEF IP!Finished
  <2>8. CASE end \in {"error", "gone"} /\ LeaveUnanswered(c)
    <3>0. lines[c] = <<>> /\ sent[c] = None
      BY <2>1 DEF CallInv
    <3>1. stage'[c] = "done" /\ sent'[c] = None /\ lines'[c] = <<500>>
      BY <2>8, <3>0 DEF LeaveUnanswered, Leave, FrontTypes
    <3>2. KeyedInv(c)'
      BY <1>0, <2>1, <2>2, <2>8, <3>1 DEF KeyedInv, IP!Finished
    <3>3. sent'[c] \notin 400..499 /\ sent'[c] \notin {200, 201}
      BY <3>1
    <3>4. lines'[c] = <<IF sent'[c] = None THEN 500 ELSE sent'[c]>>
      BY <3>1
    <3> QED
      BY <2>1, <3>1, <3>2, <3>3, <3>4 DEF CallInv
  <2> QED
    BY <1>5, <2>3, <2>4, <2>5, <2>6, <2>7, <2>8 DEF KeyedAnswer
<1>6. ASSUME PlainReturns(c)
      PROVE  CallInv(c)'
  <2>1. /\ stage[c] = "handler" /\ c \notin Keyed /\ c \in committed'
        /\ Answer(c, IF c.endpoint = "create" THEN 201 ELSE 200)
    BY <1>6 DEF PlainReturns, Plain
  <2>2. c \notin committed
    BY <2>1 DEF CallInv
  <2>3. PICK status \in {200, 201} : Answer(c, status)
    BY <2>1
  <2> QED
    BY <1>0, <2>1, <2>2, <2>3, Answered DEF Statuses
<1>7. ASSUME PlainRaises(c)
      PROVE  CallInv(c)'
  <2>1. PICK kind \in Raised(c) :
           /\ Answer(c, StatusOf(kind))
           /\ c \in committed' => c \in committed \/ kind \in RaisedAfterCommit(c.endpoint)
    BY <1>7 DEF PlainRaises
  <2>2. stage[c] = "handler" /\ c \notin Keyed /\ c \notin committed
    BY <1>7 DEF PlainRaises, Plain, CallInv
  <2>3. StatusOf(kind) \in Statuses \ {200, 201}
    BY StatusType, RaisedType
  <2>4. StatusOf(kind) \in 400..499 /\ c \in committed' =>
          c.endpoint = "structured" /\ StatusOf(kind) = 400
    BY <2>1, <2>2, AfterCommit
  <2> QED
    BY <1>0, <2>1, <2>2, <2>3, <2>4, Answered
<1>8. ASSUME FirstEvent(c)
      PROVE  CallInv(c)'
  <2>1. /\ stage[c] = "handler" /\ stage'[c] = "streaming" /\ sent'[c] = 200
        /\ c.endpoint = "stream" /\ UNCHANGED <<lines, committed>>
    BY <1>8 DEF FirstEvent, Streamed, FrontTypes
  <2> QED
    BY <2>1, RequestFacts DEF CallInv
<1>9. ASSUME StreamRaises(c)
      PROVE  CallInv(c)'
  <2>1. PICK kind \in Raised(c) : Answer(c, StatusOf(kind))
    BY <1>9 DEF StreamRaises
  <2>2. /\ stage[c] = "handler" /\ c \notin Keyed /\ c \notin committed
        /\ committed' = committed
    BY <1>9, RequestFacts DEF StreamRaises, Streamed, CallInv
  <2>3. StatusOf(kind) \in Statuses \ {200, 201}
    BY StatusType, RaisedType
  <2> QED
    BY <1>0, <2>1, <2>2, <2>3, Answered
<1>10. ASSUME StreamEnds(c)
       PROVE  CallInv(c)'
  <2>1. /\ stage[c] = "streaming" /\ sent[c] = 200 /\ c.endpoint = "stream"
        /\ lines[c] = <<>>
    BY <1>10 DEF StreamEnds, CallInv
  <2>2. stage'[c] = "done" /\ sent'[c] = 200 /\ lines'[c] = <<200>>
    BY <1>10, <2>1 DEF StreamEnds, Leave, FrontTypes
  <2> QED
    BY <2>1, <2>2, RequestFacts DEF CallInv
<1>11. ASSUME Interrupted(c)
       PROVE  CallInv(c)'
  <2>1. stage[c] = "handler" /\ c \notin Keyed
    BY <1>11, RequestFacts DEF Interrupted, Plain, Streamed
  <2>2. lines[c] = <<>> /\ sent[c] = None
    BY <2>1 DEF CallInv
  <2>3. stage'[c] = "done" /\ sent'[c] = None /\ lines'[c] = <<500>>
    BY <1>11, <2>2 DEF Interrupted, LeaveUnanswered, Leave, FrontTypes
  <2>4. sent'[c] \notin 400..499 /\ sent'[c] \notin {200, 201}
    BY <2>3
  <2>5. lines'[c] = <<IF sent'[c] = None THEN 500 ELSE sent'[c]>>
    BY <2>3
  <2> QED
    BY <2>1, <2>3, <2>4, <2>5 DEF CallInv
<1> QED
  BY <1>1, <1>2, <1>3, <1>4, <1>5, <1>6, <1>7, <1>8, <1>9, <1>10, <1>11 DEF FrontStep

\* A step of the store for one call.
LEMMA KeyedCalls ==
  ASSUME FrontTypes, IP!TypeOK, IP!TypeOK', NEW d \in Calls, KeyedStep(d),
         NEW c \in Calls, CallInv(c)
  PROVE  CallInv(c)'
<1> DEFINE r == RequestOf(d)
<1>1. /\ d \in Keyed /\ stage[d] = "handler" /\ UNCHANGED front
      /\ committed' = IF \E k \in DOMAIN effects' : r \in effects'[k]
                         THEN committed \cup {d} ELSE committed
  BY DEF KeyedStep
<1>2. r \in Requests /\ r.key \in StoreKeys /\ (IP!Progress(r) \/ IP!Failure(r))
  BY <1>1, RequestFacts, KeyedStoreStep
<1>3. /\ pc[r] \notin IP!Finished /\ pc'[r] # "new"
      /\ effects' = effects \/ effects' = [effects EXCEPT ![r.key] = @ \cup {r}]
      /\ pc'[r] \in IP!Uncommitted => effects' = effects /\ pc[r] \in IP!Uncommitted
      /\ pc'[r] \in {"complete", "ok"} => pc[r] = "complete" \/ r \in effects'[r.key]
  BY <1>2, StoreAssumptions, IP!OwnStep
<1>4. DOMAIN effects = StoreKeys /\ DOMAIN effects' = StoreKeys
  BY DEF IP!TypeOK, StoreKeys
<1> HIDE DEF r
<1>5. CASE c # d
  <2>1. ASSUME c \in Keyed
        PROVE  /\ pc'[RequestOf(c)] = pc[RequestOf(c)]
               /\ \A k \in StoreKeys : RequestOf(c) \in effects'[k] => RequestOf(c) \in effects[k]
    <3>1. RequestOf(c) \in Requests /\ RequestOf(c) # r
      BY <1>5, <2>1, RequestFacts DEF r
    <3>2. pc'[RequestOf(c)] = pc[RequestOf(c)]
      BY <1>2, <3>1, StoreAssumptions, IP!OthersStay
    <3> QED
      BY <1>3, <1>4, <3>1, <3>2
  <2>2. Keeps(c)
    BY <1>1, <1>5, <2>1 DEF Keeps, front
  <2> QED
    BY <2>2, CallKept
<1>6. CASE c = d
  <2>1. KeyedInv(d)
    BY <1>1, <1>6 DEF CallInv
  <2>2. pc'[r] \in IP!Uncommitted => d \notin committed'
    <3> SUFFICES ASSUME pc'[r] \in IP!Uncommitted
                 PROVE  d \notin committed'
      OBVIOUS
    <3>1. effects' = effects /\ d \notin committed
      BY <1>3, <2>1 DEF KeyedInv, r
    <3>2. \A k \in StoreKeys : r \notin effects[k]
      BY <2>1, <3>1 DEF KeyedInv, r
    <3> QED
      BY <1>1, <1>4, <3>1, <3>2
  <2>3. pc'[r] \in {"complete", "ok"} => d \in committed'
    BY <1>1, <1>2, <1>3, <1>4, <2>1 DEF KeyedInv, r
  <2>4. \A k \in StoreKeys : r \in effects'[k] => d \in committed'
    BY <1>1, <1>4
  <2>5. stage'[d] = "handler" /\ sent'[d] = sent[d] /\ lines'[d] = lines[d]
    BY <1>1 DEF front
  <2>6. KeyedInv(d)'
    BY <2>2, <2>3, <2>4, <2>5 DEF KeyedInv, r
  <2>7. sent'[d] = None /\ lines'[d] = <<>>
    BY <1>1, <1>6, <2>5 DEF CallInv
  <2>8. None \notin 400..499 /\ None \notin {200, 201}
    BY StoreAssumption
  <2>9. CallInv(d)'
    BY <1>1, <2>5, <2>6, <2>7, <2>8 DEF CallInv
  <2> QED
    BY <1>6, <2>9
<1> QED
  BY <1>5, <1>6

\* A crash cuts off the calls of its process, and leaves the others where they stood.
LEMMA CrashCalls ==
  ASSUME FrontTypes, IP!TypeOK, NEW p \in Processes, Crash(p), NEW c \in Calls, CallInv(c)
  PROVE  CallInv(c)'
<1>1. /\ stage'[c] = IF c.proc = p /\ stage[c] \in InFlight THEN "gone" ELSE stage[c]
      /\ UNCHANGED <<sent, lines, committed>>
  BY DEF Crash, FrontTypes
<1>2. IP!Crash(p)
  BY SameOtherSteps DEF Crash
<1>3. c \in Keyed => (IsReplay(c) => IsReplay(c)') /\ KeyedInv(c)'
  <2> SUFFICES ASSUME c \in Keyed
               PROVE  (IsReplay(c) => IsReplay(c)') /\ KeyedInv(c)'
    OBVIOUS
  <2> DEFINE r == RequestOf(c)
  <2>1. r \in Requests /\ KeyedInv(c)
    BY RequestFacts DEF CallInv
  <2>2. /\ effects' = effects
        /\ pc'[r] = pc[r] \/ (pc'[r] = "gone" /\ pc[r] \in IP!BeginStages \cup IP!RunStages)
    BY <1>2, <2>1 DEF IP!Crash
  <2>3. IsReplay(c) => IsReplay(c)'
    BY <2>2 DEF IsReplay, IP!BeginStages, IP!RunStages
  <2>4. KeyedInv(c)'
    BY <1>1, <2>1, <2>2
    DEF KeyedInv, IP!Uncommitted, IP!BeginStages, IP!RunStages, IP!Finished
  <2> QED
    BY <2>3, <2>4
<1>4. IsReplay(c) => IsReplay(c)'
  BY <1>3 DEF IsReplay
<1>5. lines'[c] = IF stage'[c] # "done" THEN <<>>
                     ELSE <<IF sent'[c] = None THEN 500 ELSE sent'[c]>>
  <2>1. lines[c] = IF stage[c] # "done" THEN <<>>
                      ELSE <<IF sent[c] = None THEN 500 ELSE sent[c]>>
    BY DEF CallInv
  <2>2. (stage'[c] = "done") <=> (stage[c] = "done")
    BY <1>1 DEF InFlight
  <2> QED
    BY <1>1, <2>1, <2>2
<1>6. /\ stage[c] \in {"turned", "limit", "handler"} => sent[c] = None
      /\ stage[c] = "streaming" => c.endpoint = "stream"
  BY DEF CallInv
<1>7. CASE stage'[c] = stage[c]
  BY <1>1, <1>3, <1>4, <1>7 DEF CallInv
<1>8. CASE stage'[c] = "gone" /\ stage[c] \in InFlight
  BY <1>1, <1>3, <1>4, <1>5, <1>6, <1>8 DEF CallInv, InFlight
<1> QED
  BY <1>1, <1>7, <1>8

\* Losses and time in Redis change no call.
LEMMA OutsideCalls ==
  ASSUME IP!TypeOK, Outside, NEW c \in Calls, CallInv(c)
  PROVE  CallInv(c)'
<1>1. IP!Tick \/ \E k \in DOMAIN entry : IP!Lose({k})
  BY SameOtherSteps DEF Outside
<1>2. pc' = pc /\ \A k \in StoreKeys : effects'[k] \subseteq effects[k]
  <2>1. CASE IP!Tick
    <3>1. \A k \in StoreKeys : effects'[k] \in {{}, effects[k]}
      BY <2>1 DEF IP!Tick, StoreKeys
    <3> QED
      BY <2>1, <3>1 DEF IP!Tick
  <2>2. ASSUME NEW k, IP!Lose({k})
        PROVE  pc' = pc /\ \A x \in StoreKeys : effects'[x] \subseteq effects[x]
    <3>1. \A x \in StoreKeys : effects'[x] \in {{}, effects[x]}
      BY <2>2 DEF IP!Lose, StoreKeys
    <3> QED
      BY <2>2, <3>1 DEF IP!Lose
  <2> QED
    BY <1>1, <2>1, <2>2
<1>3. Keeps(c)
  BY <1>2 DEF Outside, Keeps, front
<1> QED
  BY <1>3, CallKept

\* Every step keeps what is said of every call.
LEMMA CallStep ==
  ASSUME FrontTypes, IP!TypeOK, IP!TypeOK', [Next]_vars, NEW c \in Calls, CallInv(c)
  PROVE  CallInv(c)'
<1>1. ASSUME NEW d \in Calls, FrontStep(d)
      PROVE  CallInv(c)'
  BY <1>1, FrontOwn, FrontOthers, CallKept
<1>2. ASSUME UNCHANGED vars
      PROVE  CallInv(c)'
  <2>1. Keeps(c)
    BY <1>2 DEF vars, front, store, Keeps
  <2> QED
    BY <2>1, CallKept
<1> QED
  BY <1>1, <1>2, KeyedCalls, CrashCalls, OutsideCalls DEF Next, FrontStep

----------------------------------------------------------------------------
(* Types of the front                                                      *)

\* Leaving with an answer leaves the front well typed.
LEMMA AnswerTypes ==
  ASSUME FrontTypes, NEW c \in Calls, NEW status \in Statuses, Leave(c, status),
         sent' = sent \/ sent' = [sent EXCEPT ![c] = status],
         committed' \subseteq committed \cup {c}
  PROVE  FrontTypes'
<1>1. c.proc \in Processes
  BY CallsAssumption
<1>2. stage' \in [Calls -> Stages] /\ sent' \in [Calls -> Statuses \cup {None}]
  BY DEF FrontTypes, Leave, Stages
<1>3. lines' \in [Calls -> Seq(Statuses)]
  <2>1. Append(lines[c], status) \in Seq(Statuses)
    BY DEF FrontTypes
  <2> QED
    BY <2>1 DEF FrontTypes, Leave
<1>4. inflight' \in [Processes -> Int] /\ counted' \in [Clients -> SUBSET Calls]
  BY <1>1 DEF FrontTypes, Leave
<1> QED
  BY <1>2, <1>3, <1>4 DEF FrontTypes

\* An answer of the front has one of the statuses, 429 only by the limiter.
LEMMA FrontAnswer ==
  ASSUME NEW c \in Calls, CallInv(c), FrontStep(c),
         ~(Arrive(c) \/ Admit(c) \/ LimiterFails(c) \/ FirstEvent(c))
  PROVE  /\ stage[c] \in InFlight /\ committed' \subseteq committed \cup {c}
         /\ \E status \in Statuses :
              /\ Leave(c, status)
              /\ sent' = sent \/ sent' = [sent EXCEPT ![c] = status]
              /\ status = 429 => Refuse(c) \/ sent' = sent
<1> DEFINE Left == \E status \in Statuses :
                     /\ Leave(c, status)
                     /\ sent' = sent \/ sent' = [sent EXCEPT ![c] = status]
                     /\ status = 429 => Refuse(c) \/ sent' = sent
<1>0. ASSUME NEW status \in Statuses, Answer(c, status), status # 429
      PROVE  Left
  BY <1>0 DEF Answer
<1> HIDE DEF Left
<1> SUFFICES stage[c] \in InFlight /\ committed' \subseteq committed \cup {c} /\ Left
  BY DEF Left
<1> USE DEF Statuses, InFlight
<1>1. CASE Reject(c)
  <2>1. Turned(c)
    BY <1>1 DEF Reject, CallInv
  <2>2. Refusal(c) \in {422, 401, 403}
    BY <2>1 DEF Refusal, Turned
  <2> QED
    BY <1>0, <1>1, <2>2 DEF Reject
<1>2. CASE Refuse(c)
  BY <1>2 DEF Refuse, Answer, Left
<1>3. CASE Judge(c)
  <2>1. PICK status \in {422, 400} : Answer(c, status)
    BY <1>3 DEF Judge
  <2> QED
    BY <1>0, <1>3, <2>1 DEF Judge
<1>4. CASE KeyedAnswer(c)
  <2>1. ASSUME NEW kind \in Raised(c), Answer(c, StatusOf(kind))
        PROVE  \E status \in Statuses \ {429} : Answer(c, status)
    BY <2>1, RaisedType DEF ErrorKinds, StatusOf
  <2>2. (\E status \in Statuses \ {429} : Answer(c, status)) \/ LeaveUnanswered(c)
    BY <1>4, <2>1 DEF KeyedAnswer
  <2> QED
    <3>1. LeaveUnanswered(c) => Left
      BY DEF LeaveUnanswered, Left
    <3> QED
      BY <1>0, <1>4, <2>2, <3>1 DEF KeyedAnswer
<1>5. CASE PlainReturns(c)
  <2>1. PICK status \in {200, 201} : Answer(c, status)
    BY <1>5 DEF PlainReturns
  <2> QED
    BY <1>0, <1>5, <2>1 DEF PlainReturns, Plain
<1>6. CASE PlainRaises(c) \/ StreamRaises(c)
  <2>1. PICK kind \in Raised(c) : Answer(c, StatusOf(kind))
    BY <1>6 DEF PlainRaises, StreamRaises
  <2>2. StatusOf(kind) \in Statuses \ {429}
    BY RaisedType DEF ErrorKinds, StatusOf
  <2>3. stage[c] = "handler" /\ committed' \subseteq committed \cup {c}
    BY <1>6 DEF PlainRaises, StreamRaises, Plain, Streamed
  <2> QED
    BY <1>0, <2>1, <2>2, <2>3
<1>7. CASE StreamEnds(c)
  <2>1. sent[c] = 200
    BY <1>7 DEF StreamEnds, CallInv
  <2> QED
    BY <1>7, <2>1 DEF StreamEnds, Left
<1>8. CASE Interrupted(c)
  <2>1. stage[c] = "handler" /\ committed' \subseteq committed \cup {c}
    BY <1>8 DEF Interrupted, Plain, Streamed
  <2> QED
    BY <1>8, <2>1 DEF Interrupted, LeaveUnanswered, Left
<1> QED
  BY <1>1, <1>2, <1>3, <1>4, <1>5, <1>6, <1>7, <1>8 DEF FrontStep

\* No step leaves the types of the front.
LEMMA FrontTypesStep ==
  ASSUME FrontTypes, \A c \in Calls : CallInv(c), [Next]_vars
  PROVE  FrontTypes'
<1>1. ASSUME NEW c \in Calls, FrontStep(c),
             ~(Arrive(c) \/ Admit(c) \/ LimiterFails(c) \/ FirstEvent(c))
      PROVE  FrontTypes'
  BY <1>1, FrontAnswer, AnswerTypes
<1>2. ASSUME NEW c \in Calls, Arrive(c)
      PROVE  FrontTypes'
  BY <1>2, CallsAssumption DEF Arrive, FrontTypes, Stages, InFlight
<1>3. ASSUME NEW c \in Calls, Admit(c) \/ LimiterFails(c)
      PROVE  FrontTypes'
  <2>1. counted' \in [Clients -> SUBSET Calls]
    BY <1>3 DEF Admit, LimiterFails, FrontTypes
  <2> QED
    BY <1>3, <2>1 DEF Admit, LimiterFails, FrontTypes, Stages, InFlight
<1>4. ASSUME NEW c \in Calls, FirstEvent(c)
      PROVE  FrontTypes'
  BY <1>4 DEF FirstEvent, FrontTypes, Stages, InFlight, Statuses
<1>5. ASSUME NEW c \in Calls, KeyedStep(c)
      PROVE  FrontTypes'
  BY <1>5 DEF KeyedStep, front, FrontTypes
<1>6. ASSUME NEW p \in Processes, Crash(p)
      PROVE  FrontTypes'
  BY <1>6 DEF Crash, FrontTypes, Stages
<1>7. ASSUME Outside \/ UNCHANGED vars
      PROVE  FrontTypes'
  BY <1>7 DEF Outside, vars, front, FrontTypes
<1> QED
  BY <1>1, <1>2, <1>3, <1>4, <1>5, <1>6, <1>7 DEF Next, FrontStep

----------------------------------------------------------------------------
(* Stored responses are those of calls that committed                      *)

Responses ==
    /\ \A k \in StoreKeys :
         entry[k] # None /\ entry[k].state = "done" =>
           \A d \in Keyed : RequestOf(d) = entry[k].body => d \in committed
    /\ \A c \in Keyed :
         IsReplay(c) =>
           \A d \in Keyed : RequestOf(d) = served[RequestOf(c)] =>
             d \in committed /\ pc[RequestOf(d)] \in {"ok", "gone"}

\* Nothing that was committed is taken back.
LEMMA CommittedStays == [Next]_vars => committed \subseteq committed'
<1>1. \A c \in Calls : FrontStep(c) \/ KeyedStep(c) => committed \subseteq committed'
  BY DEF FrontStep, Arrive, Reject, Admit, Refuse, LimiterFails, Judge, KeyedAnswer,
         PlainReturns, PlainRaises, FirstEvent, StreamRaises, StreamEnds, Interrupted, KeyedStep
<1> QED
  BY <1>1 DEF Next, FrontStep, Crash, Outside, vars

\* A response that is stored after a step is one of a call that committed.
LEMMA EntriesStep ==
  ASSUME IP!ReplayInv, Responses, \A c \in Calls : CallInv(c), [Next]_vars,
         NEW k \in StoreKeys, entry'[k] # None, entry'[k].state = "done",
         NEW d \in Keyed, RequestOf(d) = entry'[k].body
  PROVE  d \in committed'
<1>1. IP!TypeOK
  BY DEF IP!ReplayInv
<1>2. CASE entry[k] # None /\ entry[k].state = "done" /\ entry[k].body = entry'[k].body
  BY <1>2, CommittedStays DEF Responses
<1>3. CASE entry'[k] = entry[k]
  BY <1>2, <1>3
<1>4. CASE entry'[k] = IP!Aged(entry[k])
  <2>1. entry[k] \in IP!Entries
    BY <1>1, <1>4 DEF IP!TypeOK, StoreKeys, IP!Aged
  <2>2. entry[k].state = entry'[k].state /\ entry[k].body = entry'[k].body
    BY <1>4, <2>1 DEF IP!Aged, IP!Entries
  <2> QED
    BY <1>2, <1>4, <2>1, <2>2 DEF IP!Aged
<1>5. ASSUME NEW r \in Requests, IP!Writes(r, k)
      PROVE  d \in committed'
  <2>1. entry'[k] = IP!Stored(r) /\ pc[r] = "complete"
    BY <1>5 DEF IP!Writes, IP!Marker
  <2>2. r = RequestOf(d)
    BY <2>1 DEF IP!Stored
  <2>3. d \in Calls /\ KeyedInv(d)
    BY DEF CallInv, Keyed
  <2> QED
    BY <2>1, <2>2, <2>3, CommittedStays DEF KeyedInv
<1>6. CASE OnlyAFault
  BY <1>3, <1>6 DEF OnlyAFault
<1>7. CASE [IP!Next]_(IP!vars)
  <2>1. \/ entry'[k] = entry[k] \/ entry'[k] = IP!Aged(entry[k])
        \/ \E r \in Requests : IP!Writes(r, k)
    BY <1>1, <1>7, StoreAssumptions, IP!EntryStep DEF StoreKeys
  <2> QED
    BY <1>3, <1>4, <1>5, <2>1
<1> QED
  BY <1>1, <1>6, <1>7, StoreStep

\* Every step keeps stored responses and replays those of calls that committed.
LEMMA ResponsesStep ==
  ASSUME IP!ReplayInv, Responses, \A c \in Calls : CallInv(c), [Next]_vars
  PROVE  Responses'
<1>1. IP!TypeOK /\ IP!ReplayInv'
  BY StoreInvStep DEF IP!ReplayInv
<1>2. ASSUME NEW c \in Keyed, IsReplay(c)',
             NEW d \in Keyed, RequestOf(d) = served'[RequestOf(c)]
      PROVE  d \in committed' /\ pc'[RequestOf(d)] \in {"ok", "gone"}
  <2> DEFINE r == RequestOf(c)
             q == RequestOf(d)
  <2>1. r \in Requests /\ q \in Requests /\ r.key \in StoreKeys /\ pc'[r] = "replay"
    BY <1>2, RequestFacts DEF IsReplay
  <2> HIDE DEF r, q
  <2>2. CASE OnlyAFault
    <3>1. IsReplay(c) /\ q = served[r]
      BY <1>2, <2>2 DEF OnlyAFault, IsReplay, r, q
    <3> QED
      BY <2>2, <3>1, CommittedStays DEF OnlyAFault, Responses, r, q
  <2>3. CASE [IP!Next]_(IP!vars) /\ pc[r] = "replay"
    <3>1. served'[r] = served[r]
      BY <1>1, <2>1, <2>3, StoreAssumptions, IP!FinishedStay DEF IP!Finished
    <3>2. IsReplay(c) /\ q = served[r]
      BY <1>2, <2>3, <3>1 DEF IsReplay, r, q
    <3>3. d \in committed /\ pc[q] \in {"ok", "gone"}
      BY <3>2 DEF Responses, r, q
    <3>4. pc'[q] = pc[q]
      BY <1>1, <2>1, <2>3, <3>3, StoreAssumptions, IP!FinishedStay DEF IP!Finished
    <3> QED
      BY <3>3, <3>4, CommittedStays DEF q
  <2>4. CASE [IP!Next]_(IP!vars) /\ pc[r] # "replay"
    <3>1. entry[r.key] # None /\ entry[r.key].state = "done" /\ q = entry[r.key].body
      BY <1>1, <1>2, <2>1, <2>4, StoreAssumptions, IP!ReplayStep DEF r, q
    <3>2. pc[q] \in {"ok", "gone"}
      BY <2>1, <3>1 DEF IP!ReplayInv, IP!BodiesFit, StoreKeys
    <3>3. pc'[q] = pc[q]
      BY <1>1, <2>1, <2>4, <3>2, StoreAssumptions, IP!FinishedStay DEF IP!Finished
    <3>4. d \in committed
      BY <2>1, <3>1 DEF Responses, q
    <3> QED
      BY <3>2, <3>3, <3>4, CommittedStays DEF q
  <2> QED
    BY <1>1, <2>2, <2>3, <2>4, StoreStep
<1> QED
  BY <1>2, EntriesStep DEF Responses

----------------------------------------------------------------------------
(* The gauge                                                               *)

Here(p) == {c \in Calls : c.proc = p /\ stage[c] \in InFlight}

Gauge == \A p \in Processes : inflight[p] = Cardinality(Here(p))

\* The calls of a process in flight can be counted.
LEMMA HereFinite == \A p : IsFiniteSet(Here(p))
  BY CallsAssumption, FS_Subset DEF Here

\* A step that lets one call in, or out, or neither.
LEMMA GaugeIn ==
  ASSUME FrontTypes, Gauge, NEW c \in Calls, stage[c] \notin InFlight,
         NEW to \in InFlight, stage' = [stage EXCEPT ![c] = to],
         inflight' = [inflight EXCEPT ![c.proc] = @ + 1]
  PROVE  Gauge'
<1> SUFFICES ASSUME NEW p \in Processes
             PROVE  inflight'[p] = Cardinality(Here(p)')
  BY DEF Gauge
<1>1. Here(p)' = IF c.proc = p THEN Here(p) \cup {c} ELSE Here(p)
  BY DEF Here, FrontTypes
<1>2. c \notin Here(p)
  BY DEF Here
<1>3. Cardinality(Here(p) \cup {c}) = Cardinality(Here(p)) + 1
  BY <1>2, HereFinite, FS_AddElement
<1> QED
  BY <1>1, <1>3 DEF Gauge, FrontTypes

\* A call that leaves takes one from the gauge of its process.
LEMMA GaugeOut ==
  ASSUME FrontTypes, Gauge, NEW c \in Calls, stage[c] \in InFlight, NEW status,
         Leave(c, status)
  PROVE  Gauge'
<1> SUFFICES ASSUME NEW p \in Processes
             PROVE  inflight'[p] = Cardinality(Here(p)')
  BY DEF Gauge
<1>1. Here(p)' = IF c.proc = p THEN Here(p) \ {c} ELSE Here(p)
  BY DEF Here, FrontTypes, Leave, InFlight
<1>2. c.proc = p => c \in Here(p)
  BY DEF Here
<1>3. c.proc = p => Cardinality(Here(p) \ {c}) = Cardinality(Here(p)) - 1
  BY <1>2, HereFinite, FS_RemoveElement
<1> QED
  BY <1>1, <1>3 DEF Gauge, FrontTypes, Leave

\* Where nobody comes or leaves, the gauge stays right.
LEMMA GaugeSame ==
  ASSUME Gauge, inflight' = inflight,
         \A c \in Calls : stage'[c] \in InFlight <=> stage[c] \in InFlight
  PROVE  Gauge'
<1>1. \A p : Here(p)' = Here(p)
  BY DEF Here
<1> QED
  BY <1>1 DEF Gauge

\* A crash sets the gauge of its process to zero, and nobody is in flight there.
LEMMA GaugeCrash ==
  ASSUME FrontTypes, Gauge, NEW q \in Processes, Crash(q)
  PROVE  Gauge'
<1> SUFFICES ASSUME NEW p \in Processes
             PROVE  inflight'[p] = Cardinality(Here(p)')
  BY DEF Gauge
<1>1. Here(p)' = IF p = q THEN {} ELSE Here(p)
  BY DEF Here, FrontTypes, Crash, InFlight
<1> QED
  BY <1>1, FS_EmptySet DEF Gauge, FrontTypes, Crash

\* Every step keeps the gauges at the number of calls in flight.
LEMMA GaugeStep ==
  ASSUME FrontTypes, Gauge, \A c \in Calls : CallInv(c), [Next]_vars
  PROVE  Gauge'
<1>1. ASSUME NEW c \in Calls, Arrive(c)
      PROVE  Gauge'
  <2>1. PICK to \in InFlight : stage' = [stage EXCEPT ![c] = to]
    BY <1>1 DEF Arrive, InFlight
  <2>2. stage[c] \notin InFlight /\ inflight' = [inflight EXCEPT ![c.proc] = @ + 1]
    BY <1>1 DEF Arrive, InFlight
  <2> QED
    BY <2>1, <2>2, GaugeIn
<1>2. ASSUME NEW c \in Calls, Admit(c) \/ LimiterFails(c) \/ FirstEvent(c)
      PROVE  Gauge'
  <2>1. stage[c] \in InFlight /\ stage'[c] \in InFlight /\ inflight' = inflight
        /\ \A d \in Calls : d # c => stage'[d] = stage[d]
    BY <1>2 DEF Admit, LimiterFails, FirstEvent, Streamed, InFlight, FrontTypes
  <2> QED
    BY <2>1, GaugeSame
<1>3. ASSUME NEW c \in Calls, FrontStep(c),
             ~(Arrive(c) \/ Admit(c) \/ LimiterFails(c) \/ FirstEvent(c))
      PROVE  Gauge'
  BY <1>3, FrontAnswer, GaugeOut
<1>4. ASSUME (\E c \in Calls : KeyedStep(c)) \/ Outside \/ UNCHANGED vars
      PROVE  Gauge'
  BY <1>4, GaugeSame DEF KeyedStep, Outside, vars, front
<1> QED
  BY <1>1, <1>2, <1>3, <1>4, GaugeCrash DEF Next, FrontStep

----------------------------------------------------------------------------
(* The allowance                                                           *)

\* Who may use an endpoint is one of the clients: the last of the entries that
\* match is an entry.
LEMMA MayUseType == \A c : MayUse(c) => Client(c) \in Clients
<1> SUFFICES ASSUME NEW c, MayUse(c)
             PROVE  Client(c) \in Clients
  OBVIOUS
<1> DEFINE n == Len(ApiKeys)
           found == {i \in DOMAIN ApiKeys : ApiKeys[i].token = c.token}
           after == {n - i : i \in found}
<1>1. found # {}
  BY DEF MayUse, Authenticate
<1>2. n \in Nat /\ found \subseteq 1..n
  BY KeysAssumption
<1> HIDE DEF n, found
<1>3. after \in SUBSET Nat /\ after # {}
  <2>1. \A i \in found : n - i \in Nat
    BY <1>2
  <2> QED
    BY <1>1, <2>1, Zenon
<1>4. PICK m \in after : \A k \in after : ~ (<<k, m>> \in OpToRel(<, Nat))
  <2> HIDE DEF after
  <2> QED
    BY <1>3, WFMin, NatLessThanWellFounded, Zenon
<1>5. PICK last \in found : m = n - last
  BY <1>4, Zenon
<1>6. ASSUME NEW i \in found
      PROVE  last >= i
  <2>1. n - i \in after
    BY Zenon
  <2>2. ~ (n - i < m)
    BY <1>3, <1>4, <2>1 DEF OpToRel
  <2> QED
    BY <1>2, <1>5, <2>2
<1>7. \A i \in found : last >= i
  BY <1>6
<1>8. Max(found) \in found
  BY <1>5, <1>7 DEF Max
<1>9. Client(c) = ApiKeys[Max(found)].client
  BY <1>1 DEF Client, Authenticate, found
<1> QED
  BY <1>8, <1>9 DEF Clients, found

Early == {"new", "turned", "limit"}

Allowance ==
    /\ \A x \in Clients : \A c \in counted[x] :
         Client(c) = x /\ MayUse(c) /\ CostsTheModel(c) /\ stage[c] \notin Early
    /\ \A c \in Calls : sent[c] = 429 =>
         Client(c) \in Clients /\ Cardinality(counted[Client(c)] \ {c}) >= Limit

\* Who is refused has made the calls itself.
LEMMA AllowanceHolds == Allowance => AllowanceIsTheClients
  BY DEF Allowance, AllowanceIsTheClients

\* A window only grows, by calls that pass the limiter; no call comes back to it.
LEMMA CountedStep ==
  ASSUME FrontTypes, [Next]_vars
  PROVE  /\ \A c \in Calls : stage[c] \notin Early => stage'[c] \notin Early
         /\ \A x \in Clients :
              /\ counted[x] \subseteq counted'[x]
              /\ \A c \in counted'[x] \ counted[x] :
                   Client(c) = x /\ stage[c] = "limit" /\ stage'[c] = "handler"
<1>0. DOMAIN counted = Clients /\ DOMAIN stage = Calls
  BY DEF FrontTypes
<1>1. ASSUME NEW d \in Calls, Admit(d) \/ LimiterFails(d)
      PROVE  /\ stage[d] = "limit" /\ stage' = [stage EXCEPT ![d] = "handler"]
             /\ \A x \in Clients :
                  counted'[x] = counted[x] \/ (x = Client(d) /\ counted'[x] = counted[x] \cup {d})
  <2>1. CASE Admit(d)
    BY <1>0, <2>1 DEF Admit
  <2>2. CASE LimiterFails(d)
    <3> DEFINE more == IF Cardinality(counted[Client(d)]) < Limit
                       THEN counted[Client(d)] \cup {d} ELSE counted[Client(d)]
    <3>1. counted' = counted \/ counted' = [counted EXCEPT ![Client(d)] = more]
      BY <2>2 DEF LimiterFails
    <3>2. more \in {counted[Client(d)], counted[Client(d)] \cup {d}}
      OBVIOUS
    <3> HIDE DEF more
    <3>3. ASSUME NEW x \in Clients
          PROVE  counted'[x] = counted[x] \/ (x = Client(d) /\ counted'[x] = counted[x] \cup {d})
      BY <1>0, <3>1, <3>2
    <3> QED
      BY <2>2, <3>3 DEF LimiterFails
  <2> QED
    BY <1>1, <2>1, <2>2
<1>2. ASSUME NEW d \in Calls, FrontStep(d), ~(Admit(d) \/ LimiterFails(d))
      PROVE  /\ counted' = counted
             /\ \A c \in Calls : stage[c] \notin Early => stage'[c] \notin Early
  <2>1. CASE Arrive(d)
    BY <1>0, <2>1 DEF Arrive, Early
  <2>2. CASE FirstEvent(d)
    BY <1>0, <2>2 DEF FirstEvent, Early
  <2>3. ASSUME NEW status, Leave(d, status)
        PROVE  counted' = counted /\ \A c \in Calls : stage[c] \notin Early => stage'[c] \notin Early
    BY <1>0, <2>3 DEF Leave, Early
  <2>4. Arrive(d) \/ FirstEvent(d) \/ \E status : Leave(d, status)
    BY <1>2 DEF FrontStep, Reject, Refuse, Judge, KeyedAnswer, LeaveUnanswered, PlainReturns,
                PlainRaises, StreamRaises, StreamEnds, Interrupted, Answer
  <2> QED
    BY <2>1, <2>2, <2>3, <2>4
<1>3. ASSUME (\E d \in Calls : KeyedStep(d)) \/ Outside \/ UNCHANGED vars
      PROVE  counted' = counted /\ stage' = stage
  BY <1>3 DEF KeyedStep, Outside, vars, front
<1>4. ASSUME NEW p \in Processes, Crash(p)
      PROVE  counted' = counted /\ \A c \in Calls : stage[c] \notin Early => stage'[c] \notin Early
  BY <1>4 DEF Crash, Early
<1>5. ASSUME NEW d \in Calls, Admit(d) \/ LimiterFails(d)
      PROVE  /\ \A c \in Calls : stage[c] \notin Early => stage'[c] \notin Early
             /\ \A x \in Clients :
                  /\ counted[x] \subseteq counted'[x]
                  /\ \A c \in counted'[x] \ counted[x] :
                       Client(c) = x /\ stage[c] = "limit" /\ stage'[c] = "handler"
  <2>1. stage'[d] = "handler" /\ stage[d] = "limit" /\ \A c \in Calls : c # d => stage'[c] = stage[c]
    BY <1>0, <1>1, <1>5
  <2>2. \A c \in Calls : stage[c] \notin Early => stage'[c] \notin Early
    BY <2>1 DEF Early
  <2>3. ASSUME NEW x \in Clients
        PROVE  /\ counted[x] \subseteq counted'[x]
               /\ \A c \in counted'[x] \ counted[x] : Client(c) = x /\ c = d
    BY <1>1, <1>5
  <2> QED
    BY <2>1, <2>2, <2>3
<1>6. CASE \E d \in Calls : Admit(d) \/ LimiterFails(d)
  BY <1>5, <1>6
<1>7. CASE ~ \E d \in Calls : Admit(d) \/ LimiterFails(d)
  <2>1. counted' = counted /\ \A c \in Calls : stage[c] \notin Early => stage'[c] \notin Early
    BY <1>2, <1>3, <1>4, <1>7 DEF Next, FrontStep
  <2> QED
    BY <2>1
<1> QED
  BY <1>6, <1>7

\* Every step counts a call that has passed its gates, once.
LEMMA AllowanceStep ==
  ASSUME FrontTypes, FrontTypes', Allowance, \A c \in Calls : CallInv(c), [Next]_vars
  PROVE  Allowance'
<1>1. ASSUME NEW x \in Clients, NEW c \in counted'[x]
      PROVE  Client(c) = x /\ MayUse(c) /\ CostsTheModel(c) /\ stage'[c] \notin Early
  <2>1. c \in Calls
    BY <1>1 DEF FrontTypes
  <2>2. CASE c \in counted[x]
    BY <2>1, <2>2, CountedStep DEF Allowance
  <2>3. CASE c \notin counted[x]
    <3>1. Client(c) = x /\ stage[c] = "limit" /\ stage'[c] = "handler"
      BY <2>3, CountedStep
    <3>2. MayUse(c) /\ CostsTheModel(c)
      BY <2>1, <3>1 DEF CallInv
    <3> QED
      BY <3>1, <3>2 DEF Early
  <2> QED
    BY <2>2, <2>3
<1>2. ASSUME NEW c \in Calls, sent'[c] = 429
      PROVE  Client(c) \in Clients /\ Cardinality(counted'[Client(c)] \ {c}) >= Limit
  <2>1. CASE sent[c] = 429
    <3>1. Client(c) \in Clients /\ Cardinality(counted[Client(c)] \ {c}) >= Limit
      BY <2>1 DEF Allowance
    <3>2. counted[Client(c)] \ {c} \subseteq counted'[Client(c)] \ {c}
      BY <3>1, CountedStep
    <3>3. IsFiniteSet(counted'[Client(c)] \ {c})
      BY <3>1, CallsAssumption, FS_Subset DEF FrontTypes
    <3>4. Cardinality(counted[Client(c)] \ {c}) <= Cardinality(counted'[Client(c)] \ {c})
      BY <3>2, <3>3, FS_Subset
    <3>5. /\ Cardinality(counted[Client(c)] \ {c}) \in Nat
          /\ Cardinality(counted'[Client(c)] \ {c}) \in Nat
      BY <3>2, <3>3, FS_Subset, FS_CardinalityType
    <3> QED
      BY <3>1, <3>4, <3>5, FrontAssumption
  <2>2. CASE sent[c] # 429
    <3>1. Refuse(c)
      <4>1. ASSUME NEW d \in Calls, FrontStep(d),
                   ~(Arrive(d) \/ Admit(d) \/ LimiterFails(d) \/ FirstEvent(d))
            PROVE  Refuse(c)
        <5>1. sent' # sent
          BY <1>2, <2>2
        <5>2. PICK status \in Statuses :
                 sent' = [sent EXCEPT ![d] = status] /\ (status = 429 => Refuse(d))
          BY <4>1, <5>1, FrontAnswer
        <5> QED
          BY <1>2, <2>2, <5>2 DEF FrontTypes
      <4>2. ASSUME NEW d \in Calls, Arrive(d) \/ Admit(d) \/ LimiterFails(d) \/ FirstEvent(d)
            PROVE  FALSE
        BY <1>2, <2>2, <4>2 DEF Arrive, Admit, LimiterFails, FirstEvent, FrontTypes
      <4>3. sent' # sent
        BY <1>2, <2>2
      <4> QED
        BY <4>1, <4>2, <4>3 DEF Next, FrontStep, KeyedStep, Outside, Crash, vars, front
    <3>2. /\ stage[c] = "limit" /\ Cardinality(counted[Client(c)]) >= Limit
          /\ counted' = counted
      BY <3>1 DEF Refuse, Window, Answer, Leave
    <3>3. Client(c) \in Clients
      BY <3>2, MayUseType DEF CallInv
    <3>4. c \notin counted[Client(c)]
      BY <3>2, <3>3 DEF Allowance, Early
    <3>5. counted'[Client(c)] \ {c} = counted[Client(c)]
      BY <3>2, <3>4
    <3> QED
      BY <3>2, <3>3, <3>5
  <2> QED
    BY <2>1, <2>2
<1> QED
  BY <1>1, <1>2 DEF Allowance

----------------------------------------------------------------------------
(* The invariant and the theorems                                          *)

ServiceInv ==
    /\ FrontTypes
    /\ IP!ReplayInv
    /\ \A c \in Calls : CallInv(c)
    /\ Responses
    /\ Gauge
    /\ Allowance

\* The service starts empty.
LEMMA ServiceInit == Init => ServiceInv
<1> SUFFICES ASSUME Init
             PROVE  ServiceInv
  OBVIOUS
<1>1. FrontTypes
  BY DEF Init, FrontTypes, Stages, Statuses
<1>2. IP!Init /\ IP!ReplayInv
  BY SameOtherSteps, StoreAssumptions, IP!ReplayInit DEF Init
<1>3. /\ \A r \in Requests : pc[r] = "new"
      /\ \A k \in StoreKeys : entry[k] = None /\ effects[k] = {}
  BY <1>2 DEF IP!Init, StoreKeys
<1>4. \A c \in Calls : ~IsReplay(c)
  BY <1>3, RequestFacts DEF IsReplay
<1>5. ASSUME NEW c \in Calls
      PROVE  CallInv(c)
  <2>1. stage[c] = "new" /\ sent[c] = None /\ lines[c] = <<>> /\ c \notin committed
    BY DEF Init
  <2>2. None \notin 400..499 /\ None \notin {200, 201}
    BY StoreAssumption
  <2>3. c \in Keyed => KeyedInv(c)
    BY <1>3, <2>1, RequestFacts DEF KeyedInv
  <2> QED
    BY <2>1, <2>2, <2>3 DEF CallInv
<1>6. Responses
  BY <1>3, <1>4 DEF Responses, Keyed
<1>7. Gauge
  <2>1. \A p : Here(p) = {}
    BY DEF Init, Here, InFlight
  <2> QED
    BY <2>1, FS_EmptySet DEF Init, Gauge
<1>8. Allowance
  BY StoreAssumption DEF Init, Allowance
<1> QED
  BY <1>1, <1>2, <1>5, <1>6, <1>7, <1>8 DEF ServiceInv

\* Every step, of the front or of the store, keeps the invariant.
LEMMA ServiceStep == ServiceInv /\ [Next]_vars => ServiceInv'
<1> SUFFICES ASSUME ServiceInv, [Next]_vars
             PROVE  ServiceInv'
  OBVIOUS
<1> USE DEF ServiceInv
<1>1. FrontTypes'
  BY FrontTypesStep
<1>2. IP!ReplayInv'
  BY StoreInvStep
<1>3. IP!TypeOK /\ IP!TypeOK'
  BY <1>2 DEF IP!ReplayInv
<1>4. \A c \in Calls : CallInv(c)'
  BY <1>3, CallStep
<1>5. Responses'
  BY ResponsesStep
<1>6. Gauge'
  BY GaugeStep
<1>7. Allowance'
  BY <1>1, AllowanceStep
<1> QED
  BY <1>1, <1>2, <1>4, <1>5, <1>6, <1>7

\* The invariant holds throughout.
LEMMA ServiceInvariant == Spec => []ServiceInv
  BY ServiceInit, ServiceStep, PTL DEF Spec

\* Type correctness of the front and of the store behind it.
THEOREM TypeCorrect == Spec => []TypeOK
<1>1. ServiceInv => TypeOK
  BY SameOtherSteps DEF ServiceInv, FrontTypes, IP!ReplayInv, TypeOK
<1> QED
  BY <1>1, ServiceInvariant, PTL

\* A stored response goes only to the client it was made for, who sent the same
\* body to the same endpoint under the same key, and was committed: for every
\* number of keys, clients and processes, whatever Redis loses.
THEOREM ReplaysStayCorrect == Spec => []ReplaysStayWithTheClient
<1>1. ServiceInv => ReplaysStayWithTheClient
  <2> SUFFICES ASSUME ServiceInv, NEW c \in Calls, IsReplay(c)
               PROVE  \E d \in Keyed :
                        /\ served[RequestOf(c)] = RequestOf(d)
                        /\ Client(d) = Client(c) /\ d.header = c.header
                        /\ d.endpoint = c.endpoint /\ d.body = c.body
                        /\ d \in committed /\ (sent[d] = 200 \/ sent[d] = None)
    BY DEF ReplaysStayWithTheClient
  <2> DEFINE r == RequestOf(c)
  <2>1. c \in Keyed /\ r \in Requests /\ pc[r] = "replay"
    BY RequestFacts DEF IsReplay
  <2>2. served[r] \in Requests /\ served[r].key = r.key /\ served[r].fp = r.fp
    BY <2>1 DEF ServiceInv, IP!ReplayInv, IP!ReplayIsTheSameRequest, IP!TypeOK
  <2>3. PICK d \in Keyed : served[r] = RequestOf(d)
    BY <2>2 DEF Requests
  <2>4. /\ Client(d) = Client(c) /\ d.header = c.header
        /\ d.endpoint = c.endpoint /\ d.body = c.body
    BY <2>2, <2>3 DEF RequestOf, RequestKey
  <2>5. d \in committed /\ pc[RequestOf(d)] \in {"ok", "gone"}
    BY <2>1, <2>3 DEF ServiceInv, Responses
  <2>6. sent[d] = 200 \/ sent[d] = None
    <3>1. d \in Calls /\ d.endpoint # "stream" /\ CallInv(d) /\ KeyedInv(d)
      BY RequestFacts DEF ServiceInv, CallInv, Keyed
    <3>2. stage[d] \in Stages
      BY <3>1 DEF ServiceInv, FrontTypes
    <3> QED
      BY <2>5, <3>1, <3>2 DEF CallInv, KeyedInv, Stages, InFlight
  <2> QED
    BY <2>3, <2>4, <2>5, <2>6
<1> QED
  BY <1>1, ServiceInvariant, PTL

\* A 2xx means that the action was done; a 4xx that nothing was stored, or that an
\* analysis which grew too long has been charged for.
THEOREM StatusesCorrect == Spec => []StatusesTellTheEffect
<1>1. ServiceInv => StatusesTellTheEffect
  <2> SUFFICES ASSUME ServiceInv, NEW c \in Calls
               PROVE  /\ sent[c] \in 400..499 /\ c \in committed =>
                           c.endpoint = "structured" /\ sent[c] = 400
                      /\ sent[c] \in {200, 201} /\ c.endpoint # "stream" =>
                           \/ c \in committed
                           \/ IsReplay(c) /\ \E d \in committed : served[RequestOf(c)] = RequestOf(d)
    BY DEF StatusesTellTheEffect
  <2>1. IsReplay(c) => \E d \in committed : served[RequestOf(c)] = RequestOf(d)
    <3> SUFFICES ASSUME IsReplay(c)
                 PROVE  \E d \in committed : served[RequestOf(c)] = RequestOf(d)
      OBVIOUS
    <3>1. c \in Keyed /\ RequestOf(c) \in Requests /\ pc[RequestOf(c)] = "replay"
      BY RequestFacts DEF IsReplay
    <3>2. served[RequestOf(c)] \in Requests
      BY <3>1 DEF ServiceInv, IP!ReplayInv, IP!ReplayIsTheSameRequest, IP!TypeOK
    <3>3. PICK d \in Keyed : served[RequestOf(c)] = RequestOf(d)
      BY <3>2 DEF Requests
    <3> QED
      BY <3>1, <3>3 DEF ServiceInv, Responses
  <2>2. CallInv(c)
    BY DEF ServiceInv
  <2>3. /\ sent[c] \in 400..499 /\ c \in committed => c.endpoint = "structured" /\ sent[c] = 400
        /\ sent[c] \in {200, 201} /\ c.endpoint # "stream" => c \in committed \/ IsReplay(c)
    BY <2>2 DEF CallInv
  <2> QED
    BY <2>1, <2>3
<1> QED
  BY <1>1, ServiceInvariant, PTL

\* One line for each request that ended, none for one that has not, and a gauge
\* that counts exactly those in the process.
THEOREM LinesCorrect == Spec => []LinesTellTheTruth
<1>1. ServiceInv => LinesTellTheTruth
  BY DEF ServiceInv, CallInv, Gauge, Here, LinesTellTheTruth
<1> QED
  BY <1>1, ServiceInvariant, PTL

\* Only a client's own calls use up its allowance, and only those it may make.
THEOREM AllowanceCorrect == Spec => []AllowanceIsTheClients
<1>1. ServiceInv => AllowanceIsTheClients
  BY AllowanceHolds DEF ServiceInv
<1> QED
  BY <1>1, ServiceInvariant, PTL

=============================================================================
