------------------------- MODULE Idempotency_proofs -------------------------
(* Theorems about Idempotency for all requests, keys and times.            *)
EXTENDS Idempotency, TLAPS

USE RequestsAssumption, TimesAssumption, BoundsAssumption, NoneAssumption

----------------------------------------------------------------------------
(* Types                                                                   *)

\* The marker that begin() writes is an entry of the store.
LEMMA MarkerType == \A r \in Requests : Marker(r) \in Entries
  BY DEF Marker, Entries

\* The response that complete() writes is an entry of the store.
LEMMA StoredType == \A r \in Requests : Stored(r) \in Entries
  BY DEF Stored, Entries

\* SET NX leaves entries, and nothing but entries, in the store.
LEMMA SetNXType ==
  ASSUME TypeOK, NEW r \in Requests
  PROVE  SetNX(r) \in [Keys -> Entries \cup {None}]
  BY MarkerType DEF SetNX, TypeOK

\* So does every command that a request may lose the answer to.
LEMMA CommandType ==
  ASSUME TypeOK, NEW r \in Requests, NEW stage
  PROVE  Command(stage, r) \in [Keys -> Entries \cup {None}]
<1>1. [entry EXCEPT ![r.key] = Stored(r)] \in [Keys -> Entries \cup {None}]
  BY StoredType DEF TypeOK
<1>2. [entry EXCEPT ![r.key] = None] \in [Keys -> Entries \cup {None}]
  BY DEF TypeOK
<1> QED
  BY <1>1, <1>2, SetNXType DEF Command, TypeOK

\* An entry that grows older is an entry, or gone.
LEMMA AgedType == \A e \in Entries \cup {None} : Aged(e) \in Entries \cup {None}
<1> SUFFICES ASSUME NEW e \in Entries, e.ttl # 1
             PROVE  [e EXCEPT !.ttl = @ - 1] \in Entries
  BY DEF Aged
<1>1. e.ttl \in Nat \ {0} /\ e.ttl - 1 \in Nat \ {0}
  BY DEF Entries
<1> QED
  BY <1>1 DEF Entries

\* The state right after start is well typed.
LEMMA TypeInit == Init => TypeOK
  BY DEF Init, TypeOK, Stages

\* No step, no failure and no crash leaves the types.
LEMMA TypeStep == TypeOK /\ [Next]_vars => TypeOK'
<1> SUFFICES ASSUME TypeOK, [Next]_vars
             PROVE  TypeOK'
  OBVIOUS
<1> USE DEF Stages, BeginStages, RunStages, Finished, Goto, Fault, Trip
<1>1. ASSUME NEW r \in Requests, BeginUnprotected(r)
      PROVE  TypeOK'
  BY <1>1 DEF BeginUnprotected, TypeOK
<1>2. ASSUME NEW r \in Requests, Begin(r)
      PROVE  TypeOK'
  BY <1>2 DEF Begin, TypeOK
<1>3. ASSUME NEW r \in Requests, TakeKey(r)
      PROVE  TypeOK'
  BY <1>3, SetNXType DEF TakeKey, TypeOK
<1>4. ASSUME NEW r \in Requests, KeyTaken(r)
      PROVE  TypeOK'
  BY <1>4 DEF KeyTaken, TypeOK
<1>5. ASSUME NEW r \in Requests, ReadNothing(r)
      PROVE  TypeOK'
  BY <1>5 DEF ReadNothing, TypeOK
<1>6. ASSUME NEW r \in Requests, ReadEntry(r)
      PROVE  TypeOK'
  <2>1. entry[r.key] \in Entries
    BY <1>6 DEF ReadEntry, TypeOK
  <2>2. Verdict(entry[r.key], r) \in {"reuse", "replay", "conflict"}
    BY DEF Verdict
  <2>3. entry[r.key].body \in Requests \cup {None}
    BY <2>1 DEF Entries
  <2> QED
    BY <1>6, <2>2, <2>3 DEF ReadEntry, TypeOK
<1>7. ASSUME NEW r \in Requests, BeginFails(r)
      PROVE  TypeOK'
  BY <1>7, CommandType DEF BeginFails, TypeOK
<1>8. ASSUME NEW r \in Requests, ActionReturns(r)
      PROVE  TypeOK'
  BY <1>8 DEF ActionReturns, TypeOK
<1>9. ASSUME NEW r \in Requests, ActionRaises(r)
      PROVE  TypeOK'
  BY <1>9 DEF ActionRaises, TypeOK
<1>10. ASSUME NEW r \in Requests, Complete(r)
       PROVE  TypeOK'
  BY <1>10, CommandType DEF Complete, TypeOK
<1>11. ASSUME NEW r \in Requests, CompleteFails(r)
       PROVE  TypeOK'
  BY <1>11, CommandType DEF CompleteFails, TypeOK
<1>12. ASSUME NEW r \in Requests, Abort(r)
       PROVE  TypeOK'
  BY <1>12, CommandType DEF Abort, TypeOK
<1>13. ASSUME NEW r \in Requests, AbortFails(r)
       PROVE  TypeOK'
  BY <1>13, CommandType DEF AbortFails, TypeOK
<1>14. ASSUME NEW r \in Requests, Cancelled(r)
       PROVE  TypeOK'
  BY <1>14, CommandType DEF Cancelled, TypeOK
<1>15. ASSUME NEW p \in Processes, Crash(p)
       PROVE  TypeOK'
  BY <1>15 DEF Crash, TypeOK
<1>16. ASSUME NEW lost \in SUBSET Keys, Lose(lost)
       PROVE  TypeOK'
  BY <1>16 DEF Lose, TypeOK
<1>17. CASE Tick
  <2>1. entry' \in [Keys -> Entries \cup {None}]
    BY <1>17, AgedType DEF Tick, TypeOK
  <2>2. age' \in [Requests -> Nat] /\ cooldown' \in [Processes -> Nat]
    BY <1>17 DEF Tick, TypeOK
  <2> QED
    BY <1>17, <2>1, <2>2 DEF Tick, TypeOK
<1>18. CASE UNCHANGED vars
  BY <1>18 DEF vars, TypeOK
<1> QED
  BY <1>1, <1>2, <1>3, <1>4, <1>5, <1>6, <1>7, <1>8, <1>9, <1>10, <1>11, <1>12,
     <1>13, <1>14, <1>15, <1>16, <1>17, <1>18 DEF Next, Progress, Failure

\* Every variable of the store keeps its type, whatever fails.
THEOREM TypeCorrect == Spec => []TypeOK
  BY TypeInit, TypeStep, PTL DEF Spec

----------------------------------------------------------------------------
(* Stored responses and replays                                            *)

\* A marker carries no response; a stored response belongs to a request with
\* that key and fingerprint whose handler is through with complete().
BodiesFit ==
    \A k \in Keys :
        entry[k] # None =>
            /\ entry[k].state = "in_progress" => entry[k].body = None
            /\ entry[k].state = "done" =>
                 /\ entry[k].body \in Requests
                 /\ entry[k].body.key = k
                 /\ entry[k].body.fp = entry[k].fp
                 /\ pc[entry[k].body] \in {"ok", "gone"}

ReplayInv == TypeOK /\ BodiesFit /\ ReplayIsTheSameRequest

\* What a command of r leaves under every key.
LEMMA CommandEffect ==
  ASSUME TypeOK, NEW r \in Requests, NEW stage, NEW k \in Keys
  PROVE  Command(stage, r)[k] \in
           {entry[k]} \cup
           (IF k = r.key
              THEN (IF stage \in {"set", "reset"} /\ entry[k] = None THEN {Marker(r)} ELSE {})
                   \cup (IF stage = "complete" THEN {Stored(r)} ELSE {})
                   \cup (IF stage = "abort" THEN {None} ELSE {})
              ELSE {})
  BY DEF Command, SetNX, TypeOK

\* The ways in which a request changes the entry of its key.
Writes(r, k) ==
    /\ k = r.key
    /\ \/ pc[r] \in {"set", "reset"} /\ entry[k] = None /\ entry'[k] = Marker(r)
       \/ pc[r] = "complete" /\ entry'[k] = Stored(r) /\ pc'[r] \in {"ok", "gone"}
       \/ pc[r] = "abort" /\ entry'[k] = None

\* An entry changes because a request writes it, Redis loses it, or it ages.
LEMMA EntryStep ==
  ASSUME TypeOK, [Next]_vars, NEW k \in Keys
  PROVE  \/ entry'[k] = entry[k]
         \/ entry'[k] = Aged(entry[k])
         \/ losses' # losses /\ entry'[k] = None
         \/ \E r \in Requests : Writes(r, k)
<1> USE DEF TypeOK, Writes, BeginStages, RunStages, Goto
<1>1. ASSUME NEW r \in Requests,
             \/ BeginUnprotected(r) \/ Begin(r) \/ KeyTaken(r) \/ ReadNothing(r)
             \/ ReadEntry(r) \/ ActionReturns(r) \/ ActionRaises(r)
      PROVE  entry' = entry
  BY <1>1 DEF BeginUnprotected, Begin, KeyTaken, ReadNothing, ReadEntry, ActionReturns,
              ActionRaises
<1>2. ASSUME NEW r \in Requests, TakeKey(r)
      PROVE  entry'[k] = entry[k] \/ Writes(r, k)
  BY <1>2 DEF TakeKey, SetNX
<1>3. ASSUME NEW r \in Requests, BeginFails(r)
      PROVE  entry'[k] = entry[k] \/ Writes(r, k)
  BY <1>3, CommandEffect DEF BeginFails
<1>4. ASSUME NEW r \in Requests, Complete(r) \/ CompleteFails(r)
      PROVE  entry'[k] = entry[k] \/ Writes(r, k)
  BY <1>4, CommandEffect DEF Complete, CompleteFails
<1>5. ASSUME NEW r \in Requests, Abort(r) \/ AbortFails(r)
      PROVE  entry'[k] = entry[k] \/ Writes(r, k)
  BY <1>5, CommandEffect DEF Abort, AbortFails
<1>6. ASSUME NEW r \in Requests, Cancelled(r)
      PROVE  entry'[k] = entry[k] \/ Writes(r, k)
  BY <1>6, CommandEffect DEF Cancelled
<1>7. ASSUME NEW p \in Processes, Crash(p)
      PROVE  entry' = entry
  BY <1>7 DEF Crash
<1>8. ASSUME NEW lost \in SUBSET Keys, Lose(lost)
      PROVE  entry'[k] = entry[k] \/ (losses' # losses /\ entry'[k] = None)
  BY <1>8 DEF Lose
<1>9. CASE Tick
  BY <1>9 DEF Tick
<1>10. CASE UNCHANGED vars
  BY <1>10 DEF vars
<1> QED
  BY <1>1, <1>2, <1>3, <1>4, <1>5, <1>6, <1>7, <1>8, <1>9, <1>10
  DEF Next, Progress, Failure

\* An answered request stays answered, with the same response.
LEMMA FinishedStay ==
  ASSUME TypeOK, [Next]_vars, NEW q \in Requests, pc[q] \in Finished
  PROVE  pc'[q] = pc[q] /\ served'[q] = served[q]
<1> USE DEF TypeOK, BeginStages, RunStages, Finished, Stages, Goto
<1>1. ASSUME NEW r \in Requests, Progress(r)
      PROVE  pc'[q] = pc[q] /\ served'[q] = served[q]
  BY <1>1 DEF Progress, BeginUnprotected, Begin, TakeKey, KeyTaken, ReadNothing, ReadEntry,
              ActionReturns, ActionRaises, Complete, Abort
<1>2. ASSUME NEW r \in Requests, Failure(r)
      PROVE  pc'[q] = pc[q] /\ served'[q] = served[q]
  BY <1>2 DEF Failure, BeginFails, CompleteFails, AbortFails, Cancelled
<1>3. ASSUME NEW p \in Processes, Crash(p)
      PROVE  pc'[q] = pc[q] /\ served'[q] = served[q]
  BY <1>3 DEF Crash
<1>4. ASSUME NEW lost \in SUBSET Keys, Lose(lost)
      PROVE  pc'[q] = pc[q] /\ served'[q] = served[q]
  BY <1>4 DEF Lose
<1>5. CASE Tick
  BY <1>5 DEF Tick
<1>6. CASE UNCHANGED vars
  BY <1>6 DEF vars
<1> QED
  BY <1>1, <1>2, <1>3, <1>4, <1>5, <1>6 DEF Next

\* Only a stored response with the fingerprint of the request is replayed.
LEMMA ReplayStep ==
  ASSUME TypeOK, [Next]_vars, NEW r \in Requests, pc'[r] = "replay", pc[r] # "replay"
  PROVE  /\ entry[r.key] # None
         /\ entry[r.key].state = "done"
         /\ entry[r.key].fp = r.fp
         /\ served'[r] = entry[r.key].body
<1> USE DEF TypeOK, BeginStages, RunStages, Finished, Stages, Goto
<1>1. ASSUME NEW q \in Requests, ReadEntry(q)
      PROVE  q = r /\ ReadEntry(r)
  BY <1>1 DEF ReadEntry
<1>2. ASSUME NEW q \in Requests,
             \/ BeginUnprotected(q) \/ Begin(q) \/ TakeKey(q) \/ KeyTaken(q)
             \/ ReadNothing(q) \/ ActionReturns(q) \/ ActionRaises(q)
             \/ Complete(q) \/ Abort(q) \/ Failure(q)
      PROVE  FALSE
  BY <1>2 DEF BeginUnprotected, Begin, TakeKey, KeyTaken, ReadNothing, ActionReturns,
              ActionRaises, Complete, Abort, Failure, BeginFails, CompleteFails,
              AbortFails, Cancelled
<1>3. ASSUME \/ \E p \in Processes : Crash(p)
             \/ \E lost \in SUBSET Keys : Lose(lost)
             \/ Tick
             \/ UNCHANGED vars
      PROVE  FALSE
  BY <1>3 DEF Crash, Lose, Tick, vars
<1>4. ReadEntry(r)
  BY <1>1, <1>2, <1>3 DEF Next, Progress
<1>5. Verdict(entry[r.key], r) = "replay"
  BY <1>4 DEF ReadEntry
<1>6. entry[r.key].fp = r.fp /\ entry[r.key].state = "done"
  BY <1>5 DEF Verdict
<1> QED
  BY <1>4, <1>5, <1>6 DEF ReadEntry

\* Every step keeps the body of a stored response that of its key's writer.
LEMMA BodiesFitStep == TypeOK /\ TypeOK' /\ BodiesFit /\ [Next]_vars => BodiesFit'
<1> SUFFICES ASSUME TypeOK, TypeOK', BodiesFit, [Next]_vars,
                    NEW k \in Keys, entry'[k] # None
             PROVE  /\ entry'[k].state = "in_progress" => entry'[k].body = None
                    /\ entry'[k].state = "done" =>
                         /\ entry'[k].body \in Requests
                         /\ entry'[k].body.key = k
                         /\ entry'[k].body.fp = entry'[k].fp
                         /\ pc'[entry'[k].body] \in {"ok", "gone"}
  BY DEF BodiesFit
<1>1. CASE entry'[k] = entry[k]
  BY <1>1, FinishedStay DEF BodiesFit, Finished
<1>2. CASE entry'[k] = Aged(entry[k])
  <2>1. /\ entry[k] # None
        /\ entry[k] \in Entries
        /\ entry'[k] = [entry[k] EXCEPT !.ttl = @ - 1]
    BY <1>2 DEF Aged, TypeOK
  <2>2. /\ entry'[k].state = entry[k].state
        /\ entry'[k].body = entry[k].body
        /\ entry'[k].fp = entry[k].fp
    BY <2>1 DEF Entries
  <2> QED
    BY <2>1, <2>2, FinishedStay DEF BodiesFit, Finished
<1>3. ASSUME NEW r \in Requests, Writes(r, k)
      PROVE  /\ entry'[k].state = "in_progress" => entry'[k].body = None
             /\ entry'[k].state = "done" =>
                  /\ entry'[k].body \in Requests
                  /\ entry'[k].body.key = k
                  /\ entry'[k].body.fp = entry'[k].fp
                  /\ pc'[entry'[k].body] \in {"ok", "gone"}
  BY <1>3 DEF Writes, Marker, Stored
<1> QED
  BY <1>1, <1>2, <1>3, EntryStep

\* ... and every step keeps replays what they were.
LEMMA ReplayInvStep == ReplayInv /\ [Next]_vars => ReplayInv'
<1> SUFFICES ASSUME ReplayInv, [Next]_vars
             PROVE  ReplayInv'
  OBVIOUS
<1>1. TypeOK /\ TypeOK' /\ BodiesFit /\ BodiesFit'
  BY TypeStep, BodiesFitStep DEF ReplayInv
<1>2. ASSUME NEW r \in Requests, pc'[r] = "replay"
      PROVE  /\ served'[r] # None
             /\ served'[r].key = r.key /\ served'[r].fp = r.fp
             /\ pc'[served'[r]] \in {"ok", "gone"}
  <2>1. CASE pc[r] = "replay"
    BY <1>1, <2>1, FinishedStay DEF ReplayInv, ReplayIsTheSameRequest, Finished, TypeOK
  <2>2. CASE pc[r] # "replay"
    <3>1. /\ served'[r] \in Requests
          /\ served'[r].key = r.key /\ served'[r].fp = r.fp
          /\ pc[served'[r]] \in {"ok", "gone"}
      BY <1>1, <1>2, <2>2, ReplayStep DEF BodiesFit
    <3> QED
      BY <1>1, <3>1, FinishedStay DEF Finished
  <2> QED
    BY <2>1, <2>2
<1> QED
  BY <1>1, <1>2 DEF ReplayInv, ReplayIsTheSameRequest

\* An empty store replays nothing.
LEMMA ReplayInit == Init => ReplayInv
  BY TypeInit DEF Init, ReplayInv, BodiesFit, ReplayIsTheSameRequest

\* A replay is always the stored response to the same body under the same key,
\* whatever Redis loses and however long runs take.
THEOREM ReplayCorrect == Spec => []ReplayIsTheSameRequest
<1>1. ReplayInv => ReplayIsTheSameRequest
  BY DEF ReplayInv
<1> QED
  BY <1>1, ReplayInit, ReplayInvStep, PTL DEF Spec

----------------------------------------------------------------------------
(* Mutual exclusion: the marker of a holder is in Redis, and it is his      *)

\* A holder's marker has as much time left as the holder has run short of
\* LockSeconds: with MarkerOutlastsRuns it cannot expire under him.
Held(r) ==
    /\ entry[r.key] # None
    /\ entry[r.key].state = "in_progress"
    /\ entry[r.key].ttl + age[r] = LockSeconds
    /\ age[r] <= MaxRun

Ownership ==
    /\ \A r \in Requests : pc[r] \in {"complete", "abort"} => outcome[r] = "proceed"
    /\ \A r \in Requests : Holds(r) => Held(r)
    /\ OneRunPerKey

\* At the start nobody holds a key.
LEMMA OwnershipInit == Init => Ownership
  BY DEF Init, Ownership, OneRunPerKey, Holds, RunStages

\* A request that is not acting keeps its stage, its outcome and its age.
LEMMA OthersStay ==
  ASSUME TypeOK, NEW r \in Requests, Progress(r) \/ Failure(r),
         NEW q \in Requests, q # r
  PROVE  pc'[q] = pc[q] /\ outcome'[q] = outcome[q] /\ age'[q] = age[q]
<1> USE DEF TypeOK, Goto
<1>1. CASE Progress(r)
  BY <1>1 DEF Progress, BeginUnprotected, Begin, TakeKey, KeyTaken, ReadNothing, ReadEntry,
              ActionReturns, ActionRaises, Complete, Abort
<1>2. CASE Failure(r)
  BY <1>2 DEF Failure, BeginFails, CompleteFails, AbortFails, Cancelled
<1> QED
  BY <1>1, <1>2

\* Where the action of a request cannot have committed.
Uncommitted == BeginStages \cup {"new", "running", "conflict", "reuse", "replay"}

\* A request that acts has not ended; only one that has committed stores its
\* response or is answered 200 with it.
LEMMA OwnStep ==
  ASSUME TypeOK, NEW r \in Requests, Progress(r) \/ Failure(r)
  PROVE  /\ pc[r] \notin Finished /\ pc'[r] # "new"
         /\ effects' = effects \/ effects' = [effects EXCEPT ![r.key] = @ \cup {r}]
         /\ pc'[r] \in Uncommitted => effects' = effects /\ pc[r] \in Uncommitted
         /\ pc'[r] \in {"complete", "ok"} => pc[r] = "complete" \/ r \in effects'[r.key]
<1> USE DEF TypeOK, Goto, BeginStages, RunStages, Finished, Stages, Uncommitted
<1>1. CASE Progress(r)
  <2>1. CASE ReadEntry(r)
    <3>1. Verdict(entry[r.key], r) \in {"reuse", "replay", "conflict"}
      BY DEF Verdict
    <3> QED
      BY <2>1, <3>1 DEF ReadEntry
  <2>2. CASE ~ReadEntry(r)
    BY <1>1, <2>2 DEF Progress, BeginUnprotected, Begin, TakeKey, KeyTaken, ReadNothing,
                      ActionReturns, ActionRaises, Complete, Abort
  <2> QED
    BY <2>1, <2>2
<1>2. CASE Failure(r)
  BY <1>2 DEF Failure, BeginFails, CompleteFails, AbortFails, Cancelled
<1> QED
  BY <1>1, <1>2

\* The acting request holds its key afterwards only if it just took it or goes
\* on towards complete() or abort().
LEMMA ActorStep ==
  ASSUME TypeOK, Ownership, NEW r \in Requests, Progress(r) \/ Failure(r)
  PROVE  /\ pc'[r] \in {"complete", "abort"} => outcome'[r] = "proceed"
         /\ Holds(r)' => \/ TakeKey(r)
                         \/ Holds(r) /\ entry' = entry /\ age' = age
<1> USE DEF TypeOK, Goto, BeginStages, RunStages, Finished, Stages, Holds, Ownership
<1>1. CASE Progress(r)
  <2>1. CASE ReadEntry(r)
    <3>1. Verdict(entry[r.key], r) \in {"reuse", "replay", "conflict"}
      BY DEF Verdict
    <3> QED
      BY <2>1, <3>1 DEF ReadEntry
  <2>2. CASE ~ReadEntry(r)
    BY <1>1, <2>2 DEF Progress, BeginUnprotected, Begin, TakeKey, KeyTaken, ReadNothing,
                      ActionReturns, ActionRaises, Complete, Abort
  <2> QED
    BY <2>1, <2>2
<1>2. CASE Failure(r)
  BY <1>2 DEF Failure, BeginFails, CompleteFails, AbortFails, Cancelled
<1> QED
  BY <1>1, <1>2

\* What one request does never touches the marker another one holds.
LEMMA OthersHeld ==
  ASSUME TypeOK, Ownership, NEW r \in Requests, Progress(r) \/ Failure(r),
         NEW q \in Requests, q # r, Holds(q)
  PROVE  entry'[q.key] = entry[q.key]
<1>1. entry[q.key] # None /\ q.key \in Keys
  BY DEF Ownership, Held
<1>2. ASSUME pc[r] \in {"complete", "abort"}
      PROVE  r.key # q.key
  BY <1>2 DEF Ownership, OneRunPerKey, Holds, RunStages
<1>3. CASE \/ BeginUnprotected(r) \/ Begin(r) \/ KeyTaken(r) \/ ReadNothing(r)
           \/ ReadEntry(r) \/ ActionReturns(r) \/ ActionRaises(r)
  BY <1>3 DEF BeginUnprotected, Begin, KeyTaken, ReadNothing, ReadEntry, ActionReturns,
              ActionRaises
<1>4. CASE TakeKey(r)
  BY <1>1, <1>4 DEF TakeKey, SetNX, TypeOK
<1>5. CASE BeginFails(r)
  BY <1>1, <1>5, CommandEffect DEF BeginFails, BeginStages
<1>6. CASE Complete(r) \/ CompleteFails(r) \/ Abort(r) \/ AbortFails(r)
  BY <1>1, <1>2, <1>6, CommandEffect DEF Complete, CompleteFails, Abort, AbortFails
<1>7. CASE Cancelled(r)
  BY <1>1, <1>2, <1>7, CommandEffect DEF Cancelled, BeginStages
<1> QED
  BY <1>3, <1>4, <1>5, <1>6, <1>7 DEF Progress, Failure

\* A step of a request keeps every holder's marker, and adds no second holder.
LEMMA OwnershipRequest ==
  ASSUME MarkerOutlastsRuns, TypeOK, Ownership,
         NEW r \in Requests, Progress(r) \/ Failure(r)
  PROVE  Ownership'
<1>1. ASSUME NEW q \in Requests, pc'[q] \in {"complete", "abort"}
      PROVE  outcome'[q] = "proceed"
  BY <1>1, OthersStay, ActorStep DEF Ownership
<1>2. ASSUME NEW q \in Requests, q # r, Holds(q)'
      PROVE  Holds(q)
  BY <1>2, OthersStay DEF Holds
<1>3. ASSUME NEW q \in Requests, Holds(q)'
      PROVE  Held(q)'
  <2>1. CASE q # r
    BY <1>2, <1>3, <2>1, OthersStay, OthersHeld DEF Ownership, Held
  <2>2. CASE q = r /\ TakeKey(r)
    BY <2>2, MarkerType DEF TakeKey, SetNX, Marker, Held, TypeOK
  <2>3. CASE q = r /\ Holds(r) /\ entry' = entry /\ age' = age
    BY <2>3 DEF Ownership, Held
  <2> QED
    BY <1>3, <2>1, <2>2, <2>3, ActorStep
<1>4. ASSUME NEW q \in Requests, q # r, Holds(q)', Holds(r)', q.key = r.key
      PROVE  FALSE
  <2>1. Holds(q) /\ entry[q.key] # None
    BY <1>2, <1>4 DEF Ownership, Held
  <2>2. ~TakeKey(r)
    BY <1>4, <2>1 DEF TakeKey
  <2> QED
    BY <1>4, <2>1, <2>2, ActorStep DEF Ownership, OneRunPerKey
<1>5. OneRunPerKey'
  <2>1. ASSUME NEW p \in Requests, NEW q \in Requests,
               Holds(p)', Holds(q)', p.key = q.key
        PROVE  p = q
    BY <1>2, <1>4, <2>1 DEF Ownership, OneRunPerKey
  <2> QED
    BY <2>1 DEF OneRunPerKey
<1> QED
  BY <1>1, <1>3, <1>5 DEF Ownership

\* Time does not take the marker away from a run that is within MaxRun.
LEMMA OwnershipTick ==
  ASSUME MarkerOutlastsRuns, TypeOK, Ownership, Tick
  PROVE  Ownership'
<1>1. \A q \in Requests : Holds(q)' <=> Holds(q)
  BY DEF Tick, Holds
<1>2. ASSUME NEW q \in Requests, Holds(q)
      PROVE  Held(q)'
  <2>1. /\ entry[q.key] \in Entries
        /\ entry[q.key].state = "in_progress"
        /\ entry[q.key].ttl \in Nat /\ age[q] \in Nat
        /\ entry[q.key].ttl + age[q] = LockSeconds
        /\ age[q] < MaxRun
    BY <1>2 DEF Ownership, Held, Tick, TypeOK, Entries
  <2>2. entry[q.key].ttl # 1
    BY <2>1 DEF MarkerOutlastsRuns
  <2>3. Aged(entry[q.key]) = [entry[q.key] EXCEPT !.ttl = @ - 1]
    BY <2>1, <2>2 DEF Aged
  <2>4. /\ Aged(entry[q.key]).state = "in_progress"
        /\ Aged(entry[q.key]).ttl = entry[q.key].ttl - 1
    BY <2>1, <2>3 DEF Entries
  <2>5. entry'[q.key] = Aged(entry[q.key]) /\ age'[q] = age[q] + 1
    BY <1>2 DEF Tick
  <2>6. Aged(entry[q.key]) # None
    BY <2>1, <2>2, <2>3, <2>4 DEF Entries
  <2> QED
    BY <2>1, <2>4, <2>5, <2>6 DEF Held
<1> QED
  BY <1>1, <1>2 DEF Ownership, OneRunPerKey, Tick

\* Every step, failure and crash keeps the marker with its holder.
LEMMA OwnershipStep ==
  ASSUME MarkerOutlastsRuns, TypeOK, Ownership, [Next]_vars
  PROVE  Ownership'
<1>1. ASSUME NEW p \in Processes, Crash(p)
      PROVE  Ownership'
  BY <1>1 DEF Crash, Ownership, OneRunPerKey, Holds, Held, RunStages, BeginStages, TypeOK
<1>2. ASSUME NEW lost \in SUBSET Keys, Lose(lost)
      PROVE  Ownership'
  <2>1. \A q \in Requests : Held(q) => q.key \notin lost
    BY <1>2 DEF Lose, Held, MarkerOutlastsRuns
  <2>2. \A q \in Requests : (Holds(q)' <=> Holds(q)) /\ (Held(q) => Held(q)')
    BY <1>2, <2>1 DEF Lose, Holds, Held
  <2> QED
    BY <1>2, <2>2 DEF Lose, Ownership, OneRunPerKey
<1>3. CASE UNCHANGED vars
  BY <1>3 DEF vars, Ownership, OneRunPerKey, Holds, Held
<1> QED
  BY <1>1, <1>2, <1>3, OwnershipRequest, OwnershipTick DEF Next

\* Of the requests that share a key at most one has taken it, under every
\* interleaving, failure and crash, if markers outlast runs.
THEOREM MutualExclusion ==
  ASSUME MarkerOutlastsRuns
  PROVE  Spec => []OneRunPerKey
<1>1. Init => TypeOK /\ Ownership
  BY TypeInit, OwnershipInit
<1>2. TypeOK /\ Ownership /\ [Next]_vars => (TypeOK /\ Ownership)'
  BY TypeStep, OwnershipStep
<1>3. Ownership => OneRunPerKey
  BY DEF Ownership
<1> QED
  BY <1>1, <1>2, <1>3, PTL DEF Spec

\* A stored response is neither replaced nor freed while it lives and Redis
\* keeps it.
THEOREM ResponsesStay ==
  ASSUME MarkerOutlastsRuns
  PROVE  Spec => StoredResponseIsStable
<1>1. Init => TypeOK /\ Ownership
  BY TypeInit, OwnershipInit
<1>2. TypeOK /\ Ownership /\ [Next]_vars => (TypeOK /\ Ownership)'
  BY TypeStep, OwnershipStep
<1>3. TypeOK /\ Ownership /\ [Next]_vars =>
        [losses' = losses =>
           \A k \in Keys :
             entry[k] # None /\ entry[k].state = "done" =>
                 entry'[k] \in {entry[k], Aged(entry[k])}]_vars
  <2> SUFFICES ASSUME TypeOK, Ownership, [Next]_vars, losses' = losses, NEW k \in Keys,
                      entry[k] # None, entry[k].state = "done"
               PROVE  entry'[k] \in {entry[k], Aged(entry[k])}
    OBVIOUS
  <2>1. ASSUME NEW r \in Requests, Writes(r, k)
        PROVE  FALSE
    BY <2>1 DEF Writes, Ownership, Held, Holds, RunStages
  <2> QED
    BY <2>1, EntryStep
<1> QED
  BY <1>1, <1>2, <1>3, PTL DEF Spec, StoredResponseIsStable

----------------------------------------------------------------------------
(* While nothing fails                                                     *)

\* Without a fault no process has a cooldown, so whoever runs its action took
\* its key.
Protected ==
    faults = 0 =>
        /\ \A p \in Processes : cooldown[p] = 0
        /\ \A r \in Requests : pc[r] \in RunStages => outcome[r] = "proceed"

\* Only a fault starts a cooldown, and only a cooldown or a fault lets a run go
\* without its key.
LEMMA ProtectedStep ==
  ASSUME TypeOK, Protected, [Next]_vars
  PROVE  Protected'
<1> USE DEF TypeOK, Protected, RunStages, BeginStages, Goto
<1>1. ASSUME NEW r \in Requests, Progress(r)
      PROVE  Protected'
  <2>1. CASE ReadEntry(r)
    <3>1. Verdict(entry[r.key], r) \in {"reuse", "replay", "conflict"}
      BY DEF Verdict
    <3> QED
      BY <2>1, <3>1 DEF ReadEntry
  <2>2. CASE ~ReadEntry(r)
    BY <1>1, <2>2, RequestsAssumption
    DEF Progress, BeginUnprotected, Begin, TakeKey, KeyTaken, ReadNothing, ActionReturns,
        ActionRaises, Complete, Abort
  <2> QED
    BY <2>1, <2>2
<1>2. ASSUME Fault
      PROVE  Protected'
  BY <1>2 DEF Fault
<1>3. ASSUME NEW lost \in SUBSET Keys, Lose(lost)
      PROVE  Protected'
  BY <1>3 DEF Lose
<1>4. CASE Tick
  BY <1>4 DEF Tick
<1>5. CASE UNCHANGED vars
  BY <1>5 DEF vars
<1> QED
  BY <1>1, <1>2, <1>3, <1>4, <1>5
  DEF Next, Failure, BeginFails, CompleteFails, AbortFails, Cancelled, Crash

\* Without a fault the one who set a marker is not gone before the marker is.
LEMMA RunnerStep ==
  ASSUME TypeOK, Protected, MarkerHasRunner, [Next]_vars
  PROVE  MarkerHasRunner'
<1> USE DEF TypeOK, RunStages, Goto
<1> SUFFICES ASSUME NEW k \in Keys, faults' = 0,
                    entry'[k] # None, entry'[k].state = "in_progress"
             PROVE  \E r \in Requests : Holds(r)' /\ r.key = k
  BY DEF MarkerHasRunner
<1>1. ASSUME NEW r \in Requests, Progress(r)
      PROVE  \E q \in Requests : Holds(q)' /\ q.key = k
  <2>0. faults = 0
    BY <1>1 DEF Progress, BeginUnprotected, Begin, TakeKey, KeyTaken, ReadNothing, ReadEntry,
                ActionReturns, ActionRaises, Complete, Abort
  <2>1. CASE TakeKey(r) /\ r.key = k
    BY <2>1 DEF TakeKey, Holds
  <2>2. CASE TakeKey(r) /\ r.key # k
    <3>1. entry'[k] = entry[k]
      BY <2>2 DEF TakeKey, SetNX
    <3>2. PICK q \in Requests : Holds(q) /\ q.key = k
      BY <2>0, <3>1 DEF MarkerHasRunner
    <3> QED
      BY <1>1, <2>2, <3>2, OthersStay DEF Holds
  <2>3. CASE Complete(r) \/ Abort(r)
    <3>1. r.key # k
      BY <2>3 DEF Complete, Abort, Command, Stored
    <3>2. entry'[k] = entry[k]
      BY <2>3, <3>1 DEF Complete, Abort, Command
    <3>3. PICK q \in Requests : Holds(q) /\ q.key = k
      BY <2>0, <3>2 DEF MarkerHasRunner
    <3> QED
      BY <1>1, <3>1, <3>3, OthersStay DEF Holds
  <2>4. CASE \/ BeginUnprotected(r) \/ Begin(r) \/ KeyTaken(r) \/ ReadNothing(r)
             \/ ReadEntry(r) \/ ActionReturns(r) \/ ActionRaises(r)
    <3>1. entry' = entry
      BY <2>4 DEF BeginUnprotected, Begin, KeyTaken, ReadNothing, ReadEntry, ActionReturns,
                  ActionRaises
    <3>2. PICK q \in Requests : Holds(q) /\ q.key = k
      BY <2>0, <3>1 DEF MarkerHasRunner
    <3>3. CASE q = r
      BY <2>4, <3>2, <3>3
      DEF BeginUnprotected, Begin, KeyTaken, ReadNothing, ReadEntry, ActionReturns,
          ActionRaises, Holds
    <3>4. CASE q # r
      BY <1>1, <3>2, <3>4, OthersStay DEF Holds
    <3> QED
      BY <3>2, <3>3, <3>4
  <2> QED
    BY <1>1, <2>1, <2>2, <2>3, <2>4 DEF Progress
<1>2. ~Fault
  BY DEF Fault
<1>3. ASSUME NEW lost \in SUBSET Keys, Lose(lost)
      PROVE  \E q \in Requests : Holds(q)' /\ q.key = k
  BY <1>3 DEF Lose, MarkerHasRunner, Holds
<1>4. CASE Tick
  <2>1. entry[k] # None /\ entry'[k] = Aged(entry[k]) /\ faults = 0
    BY <1>4 DEF Tick, Aged
  <2>2. entry[k] \in Entries /\ entry'[k] = [entry[k] EXCEPT !.ttl = @ - 1]
    BY <2>1 DEF Aged
  <2>3. entry[k].state = "in_progress"
    BY <2>2 DEF Entries
  <2> QED
    BY <1>4, <2>1, <2>3 DEF Tick, MarkerHasRunner, Holds
<1>5. CASE UNCHANGED vars
  BY <1>5 DEF vars, MarkerHasRunner, Holds
<1> QED
  BY <1>1, <1>2, <1>3, <1>4, <1>5
  DEF Next, Failure, BeginFails, CompleteFails, AbortFails, Cancelled, Crash

\* A 409 tells the truth while nothing fails: whatever the times and whatever
\* Redis loses, somebody runs under every marker.
THEOREM MarkersCorrect == Spec => []MarkerHasRunner
<1>1. Init => TypeOK /\ Protected /\ MarkerHasRunner
  BY TypeInit DEF Init, Protected, MarkerHasRunner, RunStages
<1>2. TypeOK /\ Protected /\ MarkerHasRunner /\ [Next]_vars
        => (TypeOK /\ Protected /\ MarkerHasRunner)'
  BY TypeStep, ProtectedStep, RunnerStep
<1> QED
  BY <1>1, <1>2, PTL DEF Spec

\* While nothing fails, who has returned stores its response next or has stored it.
Returned ==
    faults = 0 =>
        \A k \in Keys : \A q \in effects[k] :
            /\ q.key = k
            /\ pc[q] \in {"complete", "abort", "ok", "error"}
            /\ pc[q] = "ok" => entry[k] # None /\ entry[k].state = "done"

\* The effects of a key are counted anew only when its response is gone.
LEMMA ReturnedEnvironment ==
  ASSUME TypeOK, Returned, Tick \/ \E lost \in SUBSET Keys : Lose(lost)
  PROVE  Returned'
<1> USE DEF TypeOK
<1> SUFFICES ASSUME NEW k \in Keys, NEW q \in effects'[k], faults' = 0
             PROVE  /\ q \in effects[k] /\ pc'[q] = pc[q] /\ faults = 0
                    /\ entry[k] # None /\ entry[k].state = "done"
                         => entry'[k] # None /\ entry'[k].state = "done"
  BY DEF Returned
<1>1. /\ faults = 0 /\ pc' = pc
      /\ effects'[k] = {} \/ effects'[k] = effects[k]
  BY DEF Tick, Lose
<1>2. effects'[k] = effects[k] /\ q \in effects[k]
  BY <1>1
<1>3. ASSUME entry[k] # None, entry[k].state = "done"
      PROVE  entry'[k] # None /\ entry'[k].state = "done"
  <2>1. CASE Tick
    <3>1. Aged(entry[k]) # None /\ entry'[k] = Aged(entry[k])
      BY <1>2, <1>3, <2>1 DEF Tick
    <3>2. entry[k] \in Entries /\ entry'[k] = [entry[k] EXCEPT !.ttl = @ - 1]
      BY <1>3, <3>1 DEF Aged
    <3>3. entry'[k].state = "done"
      BY <1>3, <3>2 DEF Entries
    <3> QED
      BY <3>1, <3>3
  <2>2. ASSUME NEW lost \in SUBSET Keys, Lose(lost)
        PROVE  entry'[k] = entry[k]
    BY <1>2, <1>3, <2>2 DEF Lose
  <2> QED
    BY <1>3, <2>1, <2>2
<1> QED
  BY <1>1, <1>2, <1>3

\* Whoever holds a key finds that no action has returned under it, but its own.
LEMMA NobodyElse ==
  ASSUME TypeOK, Ownership, Returned, faults = 0, NEW r \in Requests, Holds(r),
         NEW q \in effects[r.key], pc[q] \in {"complete", "ok"}
  PROVE  q = r
<1>1. q \in Requests /\ q.key = r.key
  BY DEF Returned, TypeOK
<1>2. pc[q] = "complete"
  BY DEF Returned, Ownership, Held
<1>3. Holds(q)
  BY <1>1, <1>2 DEF Ownership, Holds, RunStages
<1> QED
  BY <1>1, <1>3 DEF Ownership, OneRunPerKey

\* A request keeps what is known of those that have committed, and adds itself at most.
LEMMA ReturnedRequest ==
  ASSUME TypeOK, Ownership, Protected, Returned, NEW r \in Requests, Progress(r)
  PROVE  Returned'
<1> USE DEF TypeOK, Goto
<1> SUFFICES ASSUME faults' = 0
             PROVE  Returned'
  BY DEF Returned
<1>0. faults = 0
  BY DEF Progress, BeginUnprotected, Begin, TakeKey, KeyTaken, ReadNothing, ReadEntry,
         ActionReturns, ActionRaises, Complete, Abort
<1>1. CASE ActionReturns(r) \/ ActionRaises(r)
  <2>1. Holds(r)
    BY <1>0, <1>1 DEF ActionReturns, ActionRaises, Protected, Holds, RunStages
  <2>2. /\ effects' \in {effects, [effects EXCEPT ![r.key] = @ \cup {r}]}
        /\ \E stage \in {"complete", "abort"} : pc' = [pc EXCEPT ![r] = stage]
        /\ entry' = entry
    BY <1>1, <2>1 DEF ActionReturns, ActionRaises, Holds
  <2>3. ASSUME NEW k \in Keys, NEW q \in effects'[k]
        PROVE  (q = r /\ k = r.key) \/ q \in effects[k]
    BY <2>2, <2>3, RequestsAssumption
  <2> QED
    BY <1>0, <2>2, <2>3 DEF Returned
<1>2. CASE TakeKey(r)
  <2>1. effects' = effects /\ pc[r] \in {"set", "reset"} /\ pc' = [pc EXCEPT ![r] = "running"]
    BY <1>2 DEF TakeKey
  <2>2. \A k \in Keys : entry[k] # None => entry'[k] = entry[k]
    BY <1>2 DEF TakeKey, SetNX
  <2>3. \A k \in Keys : \A q \in effects[k] : pc'[q] = pc[q]
    BY <1>0, <2>1 DEF Returned
  <2> QED
    BY <1>0, <2>1, <2>2, <2>3 DEF Returned
<1>3. CASE Complete(r)
  <2>1. /\ effects' = effects /\ pc' = [pc EXCEPT ![r] = "ok"]
        /\ entry' = [entry EXCEPT ![r.key] = Stored(r)]
    BY <1>3 DEF Complete, Command
  <2>2. entry'[r.key] # None /\ entry'[r.key].state = "done"
    BY <2>1, StoredType, RequestsAssumption DEF Stored
  <2>3. ASSUME NEW k \in Keys, NEW q \in effects[k]
        PROVE  /\ q.key = k /\ pc'[q] \in {"complete", "abort", "ok", "error"}
               /\ pc'[q] = "ok" => entry'[k] # None /\ entry'[k].state = "done"
    BY <1>0, <2>1, <2>2 DEF Returned
  <2> QED
    BY <2>1, <2>3 DEF Returned
<1>4. CASE Abort(r)
  <2>1. Holds(r) /\ pc[r] = "abort"
    BY <1>4 DEF Abort, Ownership, Holds, RunStages
  <2>2. \A q \in effects[r.key] : pc[q] # "ok"
    BY <1>0, <2>1, NobodyElse
  <2>3. /\ effects' = effects /\ pc' = [pc EXCEPT ![r] = "error"]
        /\ entry' = [entry EXCEPT ![r.key] = None]
    BY <1>4 DEF Abort, Command
  <2>4. ASSUME NEW k \in Keys, NEW q \in effects[k]
        PROVE  /\ q.key = k /\ pc'[q] \in {"complete", "abort", "ok", "error"}
               /\ pc'[q] = "ok" => entry'[k] # None /\ entry'[k].state = "done"
    BY <1>0, <2>2, <2>3 DEF Returned
  <2> QED
    BY <2>3, <2>4 DEF Returned
<1>5. CASE \/ BeginUnprotected(r) \/ Begin(r) \/ KeyTaken(r) \/ ReadNothing(r) \/ ReadEntry(r)
  <2>1. effects' = effects /\ entry' = entry /\ pc[r] \in {"new"} \cup BeginStages
    BY <1>5 DEF BeginUnprotected, Begin, KeyTaken, ReadNothing, ReadEntry, BeginStages
  <2>2. \A k \in Keys : \A q \in effects[k] : q # r
    BY <1>0, <2>1 DEF Returned, BeginStages
  <2>3. \A k \in Keys : \A q \in effects[k] : pc'[q] = pc[q]
    BY <2>2, OthersStay
  <2> QED
    BY <1>0, <2>1, <2>3 DEF Returned
<1> QED
  BY <1>1, <1>2, <1>3, <1>4, <1>5 DEF Progress

\* Every step keeps what is known of those that have committed.
LEMMA ReturnedStep ==
  ASSUME TypeOK, Ownership, Protected, Returned, [Next]_vars
  PROVE  Returned'
<1>1. ASSUME Fault
      PROVE  Returned'
  BY <1>1 DEF Fault, Returned, TypeOK
<1>2. CASE UNCHANGED vars
  BY <1>2 DEF vars, Returned
<1> QED
  BY <1>1, <1>2, ReturnedRequest, ReturnedEnvironment
  DEF Next, Failure, BeginFails, CompleteFails, AbortFails, Cancelled, Crash

\* Once an action has returned nothing more is committed under its key until the
\* response is gone, however many requests and retries there are and whether or not
\* those that raise have committed, if markers outlast runs and nothing fails.
THEOREM SuccessIsLast ==
  ASSUME MarkerOutlastsRuns
  PROVE  Spec => NothingAfterSuccess
<1> DEFINE I == TypeOK /\ Ownership /\ Protected /\ Returned
<1>1. Init => I
  BY TypeInit, OwnershipInit DEF Init, Protected, Returned, RunStages
<1>2. I /\ [Next]_vars => I'
  BY TypeStep, OwnershipStep, ProtectedStep, ReturnedStep
<1>3. I /\ [Next]_vars =>
        [faults' = 0 =>
           \A k \in Keys :
             (\E q \in effects[k] : pc[q] \in {"complete", "ok"})
                 => effects'[k] \subseteq effects[k]]_vars
  <2> SUFFICES ASSUME I, Next, faults' = 0, NEW k \in Keys,
                      NEW q \in effects[k], pc[q] \in {"complete", "ok"}
               PROVE  effects'[k] \subseteq effects[k]
    BY DEF vars
  <2> USE DEF TypeOK, Goto
  <2>1. ASSUME NEW r \in Requests, ActionReturns(r) \/ ActionRaises(r)
        PROVE  effects'[k] \subseteq effects[k]
    <3>1. faults = 0 /\ pc[r] = "running"
      BY <2>1 DEF ActionReturns, ActionRaises
    <3>2. Holds(r)
      BY <3>1 DEF Protected, Holds, RunStages
    <3>3. k # r.key
      BY <3>1, <3>2, NobodyElse
    <3> QED
      BY <2>1, <3>3 DEF ActionReturns, ActionRaises
  <2>2. ASSUME NEW r \in Requests,
               \/ BeginUnprotected(r) \/ Begin(r) \/ TakeKey(r) \/ KeyTaken(r) \/ ReadNothing(r)
               \/ ReadEntry(r) \/ Complete(r) \/ Abort(r)
        PROVE  effects' = effects
    BY <2>2 DEF BeginUnprotected, Begin, TakeKey, KeyTaken, ReadNothing, ReadEntry, Complete,
                Abort
  <2>3. ASSUME NEW r \in Requests, Failure(r)
        PROVE  effects' = effects
    BY <2>3 DEF Failure, BeginFails, CompleteFails, AbortFails, Cancelled
  <2>4. ASSUME NEW p \in Processes, Crash(p)
        PROVE  effects' = effects
    BY <2>4 DEF Crash
  <2>5. ASSUME Tick \/ \E lost \in SUBSET Keys : Lose(lost)
        PROVE  effects'[k] \subseteq effects[k]
    BY <2>5 DEF Tick, Lose
  <2> QED
    BY <2>1, <2>2, <2>3, <2>4, <2>5 DEF Next, Progress
<1> QED
  BY <1>1, <1>2, <1>3, PTL DEF Spec, NothingAfterSuccess

----------------------------------------------------------------------------
(* How long a key is blocked                                               *)

\* A marker keeps the key from being used.
Blocked(k) == entry[k] # None /\ entry[k].state = "in_progress"

\* No marker has longer to live than it was given.
LockInv == \A k \in Keys : Blocked(k) => entry[k].ttl <= LockSeconds

\* A marker that stays has a second less to live after each second, and is never
\* renewed.
BlocksRunDown ==
    \A k \in Keys :
        Blocked(k) /\ Blocked(k)' =>
            IF Tick THEN entry'[k].ttl = entry[k].ttl - 1 ELSE entry'[k] = entry[k]

\* What a step leaves of a marker.
LEMMA MarkerStep ==
  ASSUME TypeOK, [Next]_vars, NEW k \in Keys, Blocked(k)'
  PROVE  \/ Tick /\ entry'[k] = Aged(entry[k])
         \/ ~Tick /\ entry'[k] = entry[k]
         \/ entry[k] = None /\ \E r \in Requests : entry'[k] = Marker(r)
<1>1. CASE Tick
  BY <1>1 DEF Tick
<1>2. entry'[k] # None /\ entry'[k].state = "in_progress"
  BY DEF Blocked
<1>3. CASE ~Tick /\ (entry'[k] = entry[k] \/ (\E r \in Requests : Writes(r, k))
                       \/ (losses' # losses /\ entry'[k] = None))
  <2>1. ASSUME NEW r \in Requests, Writes(r, k)
        PROVE  entry[k] = None /\ entry'[k] = Marker(r)
    BY <1>2, <2>1 DEF Writes, Stored
  <2> QED
    BY <1>2, <1>3, <2>1
<1>4. ASSUME ~Tick, entry'[k] = Aged(entry[k]), entry'[k] # entry[k],
             losses' = losses \/ entry'[k] # None, \A r \in Requests : ~Writes(r, k)
      PROVE  FALSE
  <2> USE DEF TypeOK, Writes, BeginStages, RunStages, Goto
  <2>1. ASSUME NEW r \in Requests, Progress(r) PROVE FALSE
    BY <1>4, <2>1, CommandEffect DEF Progress, BeginUnprotected, Begin, TakeKey, SetNX, KeyTaken,
         ReadNothing, ReadEntry, ActionReturns, ActionRaises, Complete, Abort
  <2>2. ASSUME NEW r \in Requests, Failure(r) PROVE FALSE
    BY <1>4, <2>2, CommandEffect DEF Failure, BeginFails, CompleteFails, AbortFails, Cancelled
  <2>3. ASSUME NEW p \in Processes, Crash(p) PROVE FALSE
    BY <1>4, <2>3 DEF Crash
  <2>4. ASSUME NEW lost \in SUBSET Keys, Lose(lost) PROVE FALSE
    BY <1>4, <2>4 DEF Lose
  <2>5. CASE UNCHANGED vars
    BY <1>4, <2>5 DEF vars
  <2> QED
    BY <1>4, <2>1, <2>2, <2>3, <2>4, <2>5 DEF Next
<1> QED
  BY <1>1, <1>3, <1>4, EntryStep

\* A key is blocked for idempotency_lock_seconds and no longer, whatever fails,
\* crashes or is tried again (services/idempotency.py:76-77): its marker never has
\* more to live, loses a second with each second, and nobody renews it.
THEOREM BlocksAreShort == Spec => []LockInv /\ [][BlocksRunDown]_vars
<1>1. Init => LockInv
  BY DEF Init, LockInv, Blocked
<1>2. TypeOK /\ LockInv /\ [Next]_vars => LockInv'
  <2> SUFFICES ASSUME TypeOK, LockInv, [Next]_vars, NEW k \in Keys, Blocked(k)'
               PROVE  entry'[k].ttl <= LockSeconds
    BY DEF LockInv
  <2>1. CASE entry'[k] = Aged(entry[k])
    <3>1. entry[k] \in Entries /\ entry[k].state = "in_progress" /\ entry[k].ttl \in Nat
          /\ entry'[k].ttl = entry[k].ttl - 1
      BY <2>1 DEF TypeOK, Blocked, Aged, Entries
    <3> QED
      BY <3>1 DEF LockInv, Blocked
  <2>2. CASE entry'[k] = entry[k]
    BY <2>2 DEF LockInv, Blocked
  <2>3. ASSUME NEW r \in Requests, entry'[k] = Marker(r)
        PROVE  entry'[k].ttl <= LockSeconds
    BY <2>3 DEF Marker
  <2> QED
    BY <2>1, <2>2, <2>3, MarkerStep
<1>3. TypeOK /\ [Next]_vars => [BlocksRunDown]_vars
  <2> SUFFICES ASSUME TypeOK, [Next]_vars, NEW k \in Keys, Blocked(k), Blocked(k)'
               PROVE  IF Tick THEN entry'[k].ttl = entry[k].ttl - 1 ELSE entry'[k] = entry[k]
    BY DEF BlocksRunDown
  <2>1. CASE Tick
    BY <2>1 DEF Tick, TypeOK, Blocked, Aged, Entries
  <2>2. CASE ~Tick
    BY <2>2, MarkerStep DEF Blocked
  <2> QED
    BY <2>1, <2>2
<1> QED
  BY <1>1, <1>2, <1>3, TypeCorrect, PTL DEF Spec

----------------------------------------------------------------------------
(* Refinement of KeyedOnce                                                 *)

\* With one holder per key, the runner of a key is its holder.
RunnerIsHolder ==
    /\ Runner \in [Keys -> Requests \cup {None}]
    /\ \A r \in Requests : Holds(r) <=> Runner[r.key] = r
    /\ \A k \in Keys : Runner[k] # None => Runner[k].key = k

\* Runner is well defined: the one request that holds the key, if any.
LEMMA RunnerCorrect == OneRunPerKey => RunnerIsHolder
<1> SUFFICES ASSUME OneRunPerKey PROVE RunnerIsHolder
  OBVIOUS
<1>1. ASSUME NEW k \in Keys, NEW r \in Requests, Holds(r), r.key = k
      PROVE  Runner[k] = r
  BY <1>1 DEF Runner, OneRunPerKey
<1>2. ASSUME NEW k \in Keys, ~ \E r \in Requests : Holds(r) /\ r.key = k
      PROVE  Runner[k] = None
  BY <1>2 DEF Runner
<1>3. Runner \in [Keys -> Requests \cup {None}]
  BY <1>1, <1>2 DEF Runner
<1> QED
  BY <1>1, <1>2, <1>3 DEF RunnerIsHolder

\* The facts about a state, and about the next, that every step below uses.
Context == TypeOK /\ Ownership /\ BodiesFit /\ RunnerIsHolder

\* When no holder comes or goes the runners stay.
LEMMA SameRunner ==
  ASSUME Context, Context', \A q \in Requests : Holds(q)' <=> Holds(q)
  PROVE  Runner' = Runner
<1>1. \A k \in Keys : Runner'[k] = Runner[k]
  BY DEF Context, RunnerIsHolder
<1> QED
  BY <1>1 DEF Context, RunnerIsHolder

\* When the holder of a key goes, its key has no runner and the others stay.
LEMMA RunnerGoes ==
  ASSUME Context, Context', NEW r \in Requests, Holds(r), ~Holds(r)',
         \A q \in Requests : q # r => (Holds(q)' <=> Holds(q))
  PROVE  /\ Runner[r.key] = r
         /\ Runner' = [Runner EXCEPT ![r.key] = None]
<1>1. \A k \in Keys : Runner'[k] = IF k = r.key THEN None ELSE Runner[k]
  BY DEF Context, RunnerIsHolder
<1> QED
  BY <1>1 DEF Context, RunnerIsHolder

\* When a request becomes a holder its key had none before.
LEMMA RunnerComes ==
  ASSUME Context, Context', NEW r \in Requests, Runner[r.key] = None, Holds(r)',
         \A q \in Requests : q # r => (Holds(q)' <=> Holds(q))
  PROVE  Runner' = [Runner EXCEPT ![r.key] = r]
<1>1. \A k \in Keys : Runner'[k] = IF k = r.key THEN r ELSE Runner[k]
  BY DEF Context, RunnerIsHolder
<1> QED
  BY <1>1 DEF Context, RunnerIsHolder

\* A step of one request tells nothing about the holding of another.
LEMMA OtherHolders ==
  ASSUME TypeOK, NEW r \in Requests, Progress(r) \/ Failure(r),
         NEW q \in Requests, q # r
  PROVE  (Holds(q)' <=> Holds(q)) /\ Told'[q] = Told[q]
<1>1. pc'[q] = pc[q] /\ outcome'[q] = outcome[q]
  BY OthersStay
<1>2. served'[q] = served[q]
  <2>1. CASE Progress(r)
    BY <2>1 DEF TypeOK, Progress, BeginUnprotected, Begin, TakeKey, KeyTaken, ReadNothing,
                ReadEntry, ActionReturns, ActionRaises, Complete, Abort
  <2>2. CASE Failure(r)
    BY <2>2 DEF TypeOK, Failure, BeginFails, CompleteFails, AbortFails, Cancelled
  <2> QED
    BY <2>1, <2>2
<1> QED
  BY <1>1, <1>2 DEF Holds, Told

\* Only reading a stored response tells a request anything.
LEMMA SameTold ==
  ASSUME TypeOK, NEW r \in Requests, Progress(r) \/ Failure(r),
         pc'[r] # "replay", pc[r] # "replay"
  PROVE  Told' = Told
<1>1. \A q \in Requests : Told'[q] = Told[q]
  BY OtherHolders DEF Told
<1> QED
  BY <1>1 DEF Told

\* The response kept for each key depends on its entry alone.
LEMMA SameKept ==
  ASSUME Context, Context',
         \A k \in Keys : \/ entry'[k] = entry[k]
                         \/ entry[k] = None /\ entry'[k].state = "in_progress"
                         \/ entry[k].state = "in_progress" /\ entry'[k] = None
  PROVE  Kept' = Kept
<1>1. \A k \in Keys : Kept'[k] = Kept[k]
  BY DEF Context, BodiesFit, Kept
<1> QED
  BY <1>1 DEF Kept

\* Taking a key is Start of the promise.
LEMMA StartStep ==
  ASSUME Context, Context', NEW r \in Requests, TakeKey(r)
  PROVE  Promise!Start(r)
<1>1. Holds(r)' /\ ~Holds(r) /\ pc'[r] # "replay" /\ pc[r] # "replay"
  BY DEF TakeKey, Holds, Goto, RunStages, Context, TypeOK
<1>2. Runner[r.key] = None /\ Kept[r.key] = None
  BY DEF TakeKey, Context, RunnerIsHolder, Ownership, Held, Kept
<1>3. Progress(r)
  BY DEF Progress
<1>4. Runner' = [Runner EXCEPT ![r.key] = r]
  BY <1>1, <1>2, <1>3, OtherHolders, RunnerComes DEF Context
<1>5. Told' = Told
  BY <1>1, <1>3, SameTold DEF Context
<1>6. Kept' = Kept
  BY SameKept DEF TakeKey, SetNX, Marker, Context, TypeOK
<1> QED
  BY <1>2, <1>4, <1>5, <1>6 DEF Promise!Start

\* Reading an entry is Tell of the promise, or invisible.
LEMMA TellStep ==
  ASSUME Context, Context', NEW r \in Requests, ReadEntry(r)
  PROVE  Promise!Tell(r) \/ UNCHANGED <<Runner, Kept, Told>>
<1>1. Progress(r)
  BY DEF Progress
<1>2. Verdict(entry[r.key], r) \in {"reuse", "replay", "conflict"}
  BY DEF Verdict
<1>3. ~Holds(r) /\ ~Holds(r)' /\ pc[r] # "replay"
  BY <1>2 DEF ReadEntry, Holds, Goto, RunStages, Context, TypeOK
<1>4. Runner' = Runner
  BY <1>1, <1>3, OtherHolders, SameRunner DEF Context
<1>5. Kept' = Kept
  BY DEF ReadEntry, Kept
<1>6. CASE Verdict(entry[r.key], r) = "replay"
  <2>1. entry[r.key].state = "done" /\ entry[r.key].fp = r.fp
    BY <1>6 DEF Verdict
  <2>2. Kept[r.key] = entry[r.key].body /\ Kept[r.key] \in Requests /\ Kept[r.key].fp = r.fp
    BY <2>1 DEF ReadEntry, Kept, Context, BodiesFit
  <2>3. Told'[r] = Kept[r.key]
    BY <1>6, <2>2 DEF ReadEntry, Goto, Told, Context, TypeOK
  <2>4. \A q \in Requests : q # r => Told'[q] = Told[q]
    BY <1>1, OtherHolders DEF Context
  <2>5. Told' = [Told EXCEPT ![r] = Kept[r.key]]
    BY <2>3, <2>4 DEF Told
  <2> QED
    BY <1>4, <1>5, <2>2, <2>5 DEF Promise!Tell
<1>7. CASE Verdict(entry[r.key], r) # "replay"
  <2>1. pc'[r] # "replay"
    BY <1>7 DEF ReadEntry, Goto, Context, TypeOK
  <2>2. Told' = Told
    BY <1>1, <1>3, <2>1, SameTold DEF Context
  <2> QED
    BY <1>4, <1>5, <2>2
<1> QED
  BY <1>6, <1>7

\* A holder is through with its run: its response is kept, or it just stops.
LEMMA EndStep ==
  ASSUME Context, Context', NEW r \in Requests, pc[r] \in {"complete", "abort"},
         \/ Complete(r) \/ CompleteFails(r) \/ Abort(r) \/ AbortFails(r) \/ Cancelled(r)
  PROVE  Promise!Keep(r) \/ Promise!Stop({r.key})
<1>1. Progress(r) \/ Failure(r)
  BY DEF Progress, Failure
<1>2. Holds(r) /\ Held(r)
  BY DEF Context, Ownership, Holds, RunStages
<1>3. pc'[r] \in {"ok", "error", "gone"} /\ ~Holds(r)'
  BY DEF Complete, CompleteFails, Abort, AbortFails, Cancelled, Goto, Holds, RunStages,
         Context, TypeOK
<1>4. Runner[r.key] = r /\ Runner' = [Runner EXCEPT ![r.key] = None]
  BY <1>1, <1>2, <1>3, OtherHolders, RunnerGoes DEF Context
<1>5. Told' = Told
  BY <1>1, <1>3, SameTold DEF Context
<1>6. \/ entry' = entry
      \/ entry' = [entry EXCEPT ![r.key] = None]
      \/ entry' = [entry EXCEPT ![r.key] = Stored(r)]
  BY DEF Complete, CompleteFails, Abort, AbortFails, Cancelled, Command
<1>7. CASE entry' = entry \/ entry' = [entry EXCEPT ![r.key] = None]
  <2>1. Kept' = Kept
    BY <1>2, <1>7, SameKept DEF Held, Context, TypeOK
  <2>2. Runner' = [k \in Keys |-> IF k \in {r.key} THEN None ELSE Runner[k]]
    BY <1>4 DEF Context, RunnerIsHolder
  <2>3. {r.key} # {} /\ \A k \in {r.key} : Runner[k] # None
    BY <1>4
  <2>4. Promise!Stop({r.key})
    BY <1>5, <2>1, <2>2, <2>3 DEF Promise!Stop
  <2> QED
    BY <2>4
<1>8. CASE entry' = [entry EXCEPT ![r.key] = Stored(r)]
  <2>1. \A k \in Keys : Kept'[k] = IF k = r.key THEN r ELSE Kept[k]
    BY <1>8, StoredType DEF Kept, Stored, Context, TypeOK
  <2>2. Kept' = [Kept EXCEPT ![r.key] = r]
    BY <2>1 DEF Kept
  <2> QED
    BY <1>4, <1>5, <2>2 DEF Promise!Keep
<1> QED
  BY <1>6, <1>7, <1>8

\* Every other step of a request is invisible to the promise, or ends its run.
LEMMA OtherStep ==
  ASSUME Context, Context', NEW r \in Requests,
         \/ BeginUnprotected(r) \/ Begin(r) \/ KeyTaken(r) \/ ReadNothing(r)
         \/ BeginFails(r) \/ ActionReturns(r) \/ ActionRaises(r)
         \/ Cancelled(r) /\ pc[r] \in BeginStages
  PROVE  UNCHANGED <<Runner, Kept, Told>>
<1>1. Progress(r) \/ Failure(r)
  BY DEF Progress, Failure
<1>2. Holds(r)' <=> Holds(r)
  BY DEF BeginUnprotected, Begin, KeyTaken, ReadNothing, BeginFails, ActionReturns,
         ActionRaises, Cancelled, BeginStages, RunStages, Goto, Holds, Context, TypeOK
<1>3. pc'[r] # "replay" /\ pc[r] # "replay"
  BY DEF BeginUnprotected, Begin, KeyTaken, ReadNothing, BeginFails, ActionReturns,
         ActionRaises, Cancelled, BeginStages, RunStages, Goto, Context, TypeOK
<1>4. entry' = entry \/ entry' = SetNX(r)
  BY DEF BeginUnprotected, Begin, KeyTaken, ReadNothing, BeginFails, ActionReturns,
         ActionRaises, Cancelled, BeginStages, Command
<1>5. Kept' = Kept
  BY <1>4, SameKept DEF SetNX, Marker, Context, TypeOK
<1> QED
  BY <1>1, <1>2, <1>3, <1>5, OtherHolders, SameRunner, SameTold DEF Context

\* A crash stops the runs of its process: Stop of the promise.
LEMMA CrashStep ==
  ASSUME Context, Context', NEW p \in Processes, Crash(p)
  PROVE  \/ \E gone \in SUBSET Keys : Promise!Stop(gone)
         \/ UNCHANGED <<Runner, Kept, Told>>
<1> DEFINE gone == {k \in Keys : Runner[k] # None /\ Runner'[k] = None}
<1>1. \A q \in Requests : Holds(q)' => Holds(q)
  BY DEF Crash, Holds, RunStages, Context, TypeOK
<1>2. Kept' = Kept
  BY DEF Crash, Kept
<1>3. \A q \in Requests : Told'[q] = Told[q]
  BY DEF Crash, Told, BeginStages, RunStages, Context, TypeOK
<1>4. Told' = Told
  BY <1>3 DEF Told
<1>5. \A k \in Keys : Runner'[k] = IF k \in gone THEN None ELSE Runner[k]
  BY <1>1 DEF Context, RunnerIsHolder
<1>6. Runner' = [k \in Keys |-> IF k \in gone THEN None ELSE Runner[k]]
  BY <1>5 DEF Context, RunnerIsHolder
<1>7. CASE gone = {}
  BY <1>2, <1>4, <1>6, <1>7 DEF Context, RunnerIsHolder
<1>8. CASE gone # {}
  <2>1. \A k \in gone : Runner[k] # None
    OBVIOUS
  <2>2. Promise!Stop(gone)
    BY <1>2, <1>4, <1>6, <1>8, <2>1 DEF Promise!Stop
  <2> QED
    BY <2>2
<1> QED
  BY <1>7, <1>8

\* Time expires responses: Forget of the promise.
LEMMA TickStep ==
  ASSUME Context, Context', Tick
  PROVE  \/ \E old \in SUBSET Keys : Promise!Forget(old)
         \/ UNCHANGED <<Runner, Kept, Told>>
<1> DEFINE old == {k \in Keys : Kept[k] # None /\ Kept'[k] = None}
<1>1. Runner' = Runner
  <2>1. \A q \in Requests : Holds(q)' <=> Holds(q)
    BY DEF Tick, Holds
  <2> QED
    BY <2>1, SameRunner
<1>2. Told' = Told
  BY DEF Tick, Told
<1>3. ASSUME NEW k \in Keys
      PROVE  Kept'[k] = IF k \in old THEN None ELSE Kept[k]
  <2>1. CASE entry[k] = None
    BY <2>1 DEF Tick, Aged, Kept
  <2>2. CASE entry[k] # None /\ entry[k].ttl = 1
    BY <2>2 DEF Tick, Aged, Kept
  <2>3. CASE entry[k] # None /\ entry[k].ttl # 1
    <3>1. entry[k] \in Entries /\ entry'[k] = [entry[k] EXCEPT !.ttl = @ - 1]
      BY <2>3 DEF Tick, Aged, Context, TypeOK
    <3>2. entry'[k].body = entry[k].body
      BY <3>1 DEF Entries
    <3>3. entry[k].ttl - 1 \in Nat \ {0}
      BY <2>3, <3>1 DEF Entries
    <3>4. entry'[k] \in Entries
      BY <3>1, <3>3 DEF Entries
    <3> QED
      BY <2>3, <3>2, <3>4 DEF Kept
  <2> QED
    BY <2>1, <2>2, <2>3
<1>4. Kept' = [k \in Keys |-> IF k \in old THEN None ELSE Kept[k]]
  BY <1>3 DEF Kept
<1>5. CASE old = {}
  <2>1. Kept' = Kept
    BY <1>3, <1>5 DEF Kept
  <2> QED
    BY <1>1, <1>2, <2>1
<1>6. CASE old # {}
  <2>1. \A k \in old : Kept[k] # None
    OBVIOUS
  <2>2. Promise!Forget(old)
    BY <1>1, <1>2, <1>4, <1>6, <2>1 DEF Promise!Forget
  <2> QED
    BY <2>2
<1> QED
  BY <1>5, <1>6

\* Losing stored responses is forgetting them.
LEMMA LoseStep ==
  ASSUME Context, Context', NEW lost \in SUBSET Keys, Lose(lost)
  PROVE  \/ \E old \in SUBSET Keys : Promise!Forget(old)
         \/ UNCHANGED <<Runner, Kept, Told>>
<1> DEFINE old == {k \in lost : Kept[k] # None}
<1>1. Runner' = Runner
  <2>1. \A q \in Requests : Holds(q)' <=> Holds(q)
    BY DEF Lose, Holds
  <2> QED
    BY <2>1, SameRunner
<1>2. Told' = Told
  BY DEF Lose, Told
<1>3. \A k \in Keys : Kept'[k] = IF k \in old THEN None ELSE Kept[k]
  BY DEF Lose, Kept
<1>4. Kept' = [k \in Keys |-> IF k \in old THEN None ELSE Kept[k]]
  BY <1>3 DEF Kept
<1>5. CASE old = {}
  <2>1. Kept' = Kept
    BY <1>3, <1>5 DEF Kept
  <2> QED
    BY <1>1, <1>2, <2>1
<1>6. CASE old # {}
  <2>1. Promise!Forget(old)
    BY <1>1, <1>2, <1>4, <1>6 DEF Promise!Forget
  <2> QED
    BY <2>1
<1> QED
  BY <1>5, <1>6

\* Every step of the store and of run_idempotent is a step of the promise, or
\* none that it speaks of.
LEMMA PromiseStep ==
  ASSUME MarkerOutlastsRuns, Context, Context', [Next]_vars
  PROVE  [Promise!Next]_<<Runner, Kept, Told>>
<1>1. ASSUME NEW r \in Requests, Progress(r) \/ Failure(r)
      PROVE  Promise!Next \/ UNCHANGED <<Runner, Kept, Told>>
  <2>1. CASE TakeKey(r)
    BY <2>1, StartStep DEF Promise!Next
  <2>2. CASE ReadEntry(r)
    BY <2>2, TellStep DEF Promise!Next
  <2>3. CASE pc[r] \in {"complete", "abort"}
             /\ (\/ Complete(r) \/ CompleteFails(r) \/ Abort(r) \/ AbortFails(r)
                 \/ Cancelled(r))
    <3>1. {r.key} \in SUBSET Keys
      OBVIOUS
    <3> QED
      BY <2>3, <3>1, EndStep DEF Promise!Next
  <2>4. CASE \/ BeginUnprotected(r) \/ Begin(r) \/ KeyTaken(r) \/ ReadNothing(r)
             \/ BeginFails(r) \/ ActionReturns(r) \/ ActionRaises(r)
             \/ Cancelled(r) /\ pc[r] \in BeginStages
    BY <2>4, OtherStep
  <2> QED
    BY <1>1, <2>1, <2>2, <2>3, <2>4
    DEF Progress, Failure, Complete, CompleteFails, Abort, AbortFails, Cancelled
<1>2. ASSUME NEW p \in Processes, Crash(p)
      PROVE  Promise!Next \/ UNCHANGED <<Runner, Kept, Told>>
  BY <1>2, CrashStep DEF Promise!Next
<1>3. ASSUME NEW lost \in SUBSET Keys, Lose(lost)
      PROVE  Promise!Next \/ UNCHANGED <<Runner, Kept, Told>>
  BY <1>3, LoseStep DEF Promise!Next
<1>4. CASE Tick
  BY <1>4, TickStep DEF Promise!Next
<1>5. CASE UNCHANGED vars
  BY <1>5 DEF vars, Runner, Kept, Told, Holds
<1> QED
  BY <1>1, <1>2, <1>3, <1>4, <1>5 DEF Next

\* The state right after start is an initial state of the promise.
LEMMA PromiseInit == Init => Promise!Init
  BY DEF Init, Promise!Init, Runner, Kept, Told, Holds, RunStages

\* The store and run_idempotent implement KeyedOnce, if markers outlast runs.
THEOREM KeepsThePromise ==
  ASSUME MarkerOutlastsRuns
  PROVE  Spec => KeepsPromise
<1>1. Init => TypeOK /\ Ownership /\ BodiesFit /\ Promise!Init
  BY TypeInit, OwnershipInit, PromiseInit DEF Init, BodiesFit
<1>2. TypeOK /\ Ownership /\ BodiesFit /\ [Next]_vars => (TypeOK /\ Ownership /\ BodiesFit)'
  BY TypeStep, OwnershipStep, BodiesFitStep
<1>3. TypeOK /\ Ownership /\ BodiesFit => Context
  BY RunnerCorrect DEF Context, Ownership
<1>4. Context /\ Context' /\ [Next]_vars => [Promise!Next]_(Promise!vars)
  BY PromiseStep DEF Promise!vars
<1> QED
  BY <1>1, <1>2, <1>3, <1>4, PTL DEF Spec, KeepsPromise, Promise!Spec

============================================================================
