-------------------------- MODULE Readiness_proofs --------------------------
(* Theorems about Readiness for all dependencies, checks, timeouts and      *)
(* lifetimes of a report.                                                   *)
EXTENDS Readiness, SequenceTheorems, TLAPS

----------------------------------------------------------------------------
(* The queue                                                               *)

QueueOK == queue \in Seq(Checks) /\ IsInjective(queue)

\* What a step makes of the queue: one more at its end, or one less.
Enters(c) ==
    /\ QueueOK'
    /\ queue # <<>> => HasLock(Head(queue))'
    /\ \A d : Queued(d)' <=> Queued(d) \/ d = c

Leaves(c) ==
    /\ QueueOK'
    /\ \A d : Queued(d)' <=> Queued(d) /\ d # c

\* Append puts a check at the end of the queue.
LEMMA AppendEnters ==
  ASSUME QueueOK, NEW c \in Checks, ~Queued(c), queue' = Append(queue, c)
  PROVE  Enters(c)
<1>1. /\ queue' \in Seq(Checks) /\ Len(queue') = Len(queue) + 1
      /\ \A i \in 1 .. Len(queue) : queue'[i] = queue[i]
      /\ queue'[Len(queue) + 1] = c
  BY AppendProperties DEF QueueOK
<1>2. /\ Len(queue) \in Nat /\ DOMAIN queue = 1 .. Len(queue)
      /\ DOMAIN queue' = 1 .. Len(queue) + 1
  BY <1>1, LenProperties DEF QueueOK
<1>3. \A i \in 1 .. Len(queue) : queue[i] # c
  BY <1>2 DEF Queued
<1>4. IsInjective(queue')
  BY <1>1, <1>2, <1>3 DEF QueueOK, IsInjective
<1>5. \A d : Queued(d)' <=> Queued(d) \/ d = c
  BY <1>1, <1>2 DEF Queued
<1>6. queue # <<>> => HasLock(Head(queue))'
  BY <1>1, <1>2, EmptySeq DEF HasLock, QueueOK
<1> QED
  BY <1>1, <1>4, <1>5, <1>6 DEF Enters, QueueOK

\* RemoveAt takes one check out of the queue and leaves the others in their order.
LEMMA RemoveLeaves ==
  ASSUME QueueOK, NEW i \in DOMAIN queue, queue' = RemoveAt(queue, i)
  PROVE  Leaves(queue[i])
<1> DEFINE n == Len(queue)
           s == SubSeq(queue, 1, i - 1)
           t == SubSeq(queue, i + 1, n)
<1>1. n \in Nat /\ DOMAIN queue = 1 .. n /\ i \in 1 .. n /\ \A j \in 1 .. n : queue[j] \in Checks
  BY LenProperties DEF QueueOK
<1>2. /\ s \in Seq(Checks) /\ Len(s) = i - 1
      /\ \A j \in 1 .. i - 1 : s[j] = queue[j]
  <2>1. i - 1 \in Int /\ \A j \in 1 .. i - 1 : queue[j] \in Checks
    BY <1>1
  <2> QED
    BY <1>1, <2>1, SubSeqProperties
<1>3. /\ t \in Seq(Checks) /\ Len(t) = n - i
      /\ \A j \in 1 .. n - i : t[j] = queue[i + j]
  <2>1. i + 1 \in Int /\ n \in Int /\ \A j \in i + 1 .. n : queue[j] \in Checks
    BY <1>1
  <2>2. /\ t \in Seq(Checks) /\ Len(t) = IF i + 1 <= n THEN n - (i + 1) + 1 ELSE 0
        /\ \A j \in 1 .. n - (i + 1) + 1 : t[j] = queue[(i + 1) + j - 1]
    BY <2>1, SubSeqProperties
  <2> QED
    BY <1>1, <2>2
<1>4. queue' = s \o t
  BY DEF RemoveAt
<1> HIDE DEF n, s, t
<1>5. /\ queue' \in Seq(Checks) /\ Len(queue') = n - 1
      /\ \A j \in 1 .. n - 1 : queue'[j] = IF j < i THEN queue[j] ELSE queue[j + 1]
  <2>1. /\ s \o t \in Seq(Checks) /\ Len(s \o t) = Len(s) + Len(t)
        /\ \A j \in 1 .. Len(s) + Len(t) : (s \o t)[j] = IF j <= Len(s) THEN s[j] ELSE t[j - Len(s)]
    BY <1>2, <1>3, ConcatProperties
  <2>2. Len(s) + Len(t) = n - 1
    BY <1>1, <1>2, <1>3
  <2>3. ASSUME NEW j \in 1 .. n - 1
        PROVE  queue'[j] = IF j < i THEN queue[j] ELSE queue[j + 1]
    <3>1. CASE j < i
      BY <1>1, <1>2, <1>4, <2>1, <2>2, <3>1
    <3>2. CASE j >= i
      <4>1. j - (i - 1) \in 1 .. n - i /\ i + (j - (i - 1)) = j + 1
        BY <1>1, <3>2
      <4>2. t[j - (i - 1)] = queue[j + 1]
        BY <1>3, <4>1
      <4>3. (s \o t)[j] = t[j - (i - 1)]
        BY <1>1, <1>2, <2>1, <2>2, <3>2
      <4> QED
        BY <1>1, <1>4, <3>2, <4>2, <4>3
    <3> QED
      BY <1>1, <3>1, <3>2
  <2> QED
    BY <1>4, <2>1, <2>2, <2>3
<1>6. DOMAIN queue' = 1 .. n - 1
  BY <1>5, LenProperties
<1>7. IsInjective(queue')
  <2> SUFFICES ASSUME NEW a \in 1 .. n - 1, NEW b \in 1 .. n - 1, queue'[a] = queue'[b]
               PROVE  a = b
    BY <1>6 DEF IsInjective
  <2>1. PICK x \in 1 .. n : queue'[a] = queue[x] /\ x = IF a < i THEN a ELSE a + 1
    BY <1>1, <1>5
  <2>2. PICK y \in 1 .. n : queue'[b] = queue[y] /\ y = IF b < i THEN b ELSE b + 1
    BY <1>1, <1>5
  <2>3. x = y
    BY <1>1, <2>1, <2>2 DEF QueueOK, IsInjective
  <2> QED
    BY <1>1, <2>1, <2>2, <2>3
<1>8. ASSUME NEW d, Queued(d), d # queue[i]
      PROVE  Queued(d)'
  <2>1. PICK j \in 1 .. n : queue[j] = d
    BY <1>1, <1>8 DEF Queued
  <2>2. CASE j < i
    BY <1>1, <1>5, <1>6, <2>1, <2>2 DEF Queued
  <2>3. CASE j > i
    <3>1. j - 1 \in 1 .. n - 1 /\ queue'[j - 1] = d
      BY <1>1, <1>5, <2>1, <2>3
    <3> QED
      BY <1>6, <3>1 DEF Queued
  <2> QED
    BY <1>1, <1>8, <2>1, <2>2, <2>3
<1>9. ASSUME NEW d, Queued(d)'
      PROVE  Queued(d) /\ d # queue[i]
  BY <1>1, <1>5, <1>6, <1>9 DEF Queued, QueueOK, IsInjective
<1> QED
  BY <1>5, <1>7, <1>8, <1>9 DEF Leaves, QueueOK

\* Tail is RemoveAt the first place.
LEMMA TailLeaves ==
  ASSUME QueueOK, queue # <<>>, queue' = Tail(queue)
  PROVE  Leaves(Head(queue))
<1>1. /\ Len(queue) \in Nat \ {0} /\ DOMAIN queue = 1 .. Len(queue)
      /\ queue' \in Seq(Checks) /\ Len(queue') = Len(queue) - 1
      /\ \A j \in 1 .. Len(queue) - 1 : queue'[j] = queue[j + 1]
  BY LenProperties, EmptySeq, HeadTailProperties DEF QueueOK
<1>2. Head(queue) = queue[1] /\ DOMAIN queue' = 1 .. Len(queue) - 1
  BY <1>1, LenProperties
<1>3. IsInjective(queue')
  BY <1>1, <1>2 DEF QueueOK, IsInjective
<1>4. ASSUME NEW d, Queued(d), d # queue[1]
      PROVE  Queued(d)'
  <2>1. PICK j \in 2 .. Len(queue) : queue[j] = d
    BY <1>1, <1>4 DEF Queued
  <2>2. j - 1 \in 1 .. Len(queue) - 1 /\ queue'[j - 1] = d
    BY <1>1, <2>1
  <2> QED
    BY <1>2, <2>2 DEF Queued
<1>5. ASSUME NEW d, Queued(d)'
      PROVE  Queued(d) /\ d # queue[1]
  BY <1>1, <1>2, <1>5 DEF Queued, QueueOK, IsInjective
<1> QED
  BY <1>1, <1>2, <1>3, <1>4, <1>5 DEF Leaves, QueueOK

\* The check that has the lock is in the queue.
LEMMA HeadQueued ==
  ASSUME QueueOK, NEW c, HasLock(c)
  PROVE  Queued(c) /\ c \in Checks /\ c = Head(queue) /\ queue # <<>>
  BY LenProperties, EmptySeq, HeadTailProperties DEF HasLock, Queued, QueueOK

----------------------------------------------------------------------------
(* Types                                                                   *)

\* Ages are counted up to one more than the oldest answer may be.
LEMMA HorizonType == Horizon \in Nat /\ Horizon = CacheSeconds + TimeoutSeconds + 1
  BY TimesAssumption DEF Horizon

\* An age grows by one, up to the horizon.
LEMMA LaterType ==
  \A n \in 0 .. Horizon : Later(n) \in 0 .. Horizon /\ n <= Later(n) /\ Later(n) <= n + 1
  BY HorizonType DEF Later

\* A run starts without results.
LEMMA NoResultsType == NoResults \in [Dependencies -> {"pending", "ok", "failed"}]
  BY DEF NoResults

\* The probes are stopped.
LEMMA StopTypes ==
  ASSUME StopProbes
  PROVE  /\ result' \in [Dependencies -> {"pending", "ok", "failed"}]
         /\ elapsed' \in 0 .. TimeoutSeconds /\ probing' \in BOOLEAN
<1>1. result' \in [Dependencies -> {"pending", "ok", "failed"}]
  BY NoResultsType DEF StopProbes
<1>2. elapsed' \in 0 .. TimeoutSeconds
  BY TimesAssumption DEF StopProbes
<1> QED
  BY <1>1, <1>2 DEF StopProbes

\* The readiness service starts well typed.
LEMMA TypeInit == Init => TypeOK
<1> SUFFICES ASSUME Init
             PROVE  TypeOK
  OBVIOUS
<1>1. queue \in Seq(Checks) /\ IsInjective(queue)
  BY DEF Init, IsInjective
<1>2. /\ state \in [Dependencies -> {"up", "down", "hanging"}]
      /\ result \in [Dependencies -> {"pending", "ok", "failed"}]
  BY DEF Init, NoResults
<1>3. /\ upAgo \in [Dependencies -> 0 .. Horizon]
      /\ downAgo \in [Dependencies -> 0 .. Horizon]
      /\ runAgo \in 0 .. Horizon
  BY HorizonType DEF Init
<1>4. waited \in [Checks -> Nat] /\ elapsed \in 0 .. TimeoutSeconds /\ fresh \in 0 .. CacheSeconds
      /\ cancels \in 0 .. MaxCancels
  BY TimesAssumption DEF Init
<1> QED
  BY <1>1, <1>2, <1>3, <1>4 DEF Init, TypeOK

\* An answer takes the check at the head out of the queue, and is one of the right type.
LEMMA ReplyTypes ==
  ASSUME TypeOK, NEW c, HasLock(c), NEW report \in Reports, Reply(c, report)
  PROVE  /\ QueueOK' /\ Leaves(c)
         /\ answer' \in [status : {200, 503}, report : Reports]
         /\ waited' \in [Checks -> Nat]
<1>1. QueueOK
  BY DEF TypeOK, QueueOK
<1>2. c = Head(queue) /\ queue # <<>> /\ c \in Checks
  BY <1>1, HeadQueued
<1>3. Leaves(c) /\ QueueOK'
  BY <1>1, <1>2, TailLeaves DEF Reply, Leaves
<1> QED
  BY <1>2, <1>3 DEF Reply, Status, TypeOK

\* A cancellation takes its check out of the queue, wherever it stands.
LEMMA CancelTypes ==
  ASSUME TypeOK, NEW c, Cancel(c)
  PROVE  QueueOK' /\ Leaves(c) /\ Queued(c) /\ waited' \in [Checks -> Nat]
<1>1. QueueOK
  BY DEF TypeOK, QueueOK
<1>2. PICK i \in DOMAIN queue : queue[i] = c /\ queue' = RemoveAt(queue, i)
  BY DEF Cancel
<1>3. Leaves(c) /\ QueueOK' /\ Queued(c)
  BY <1>1, <1>2, RemoveLeaves DEF Leaves, Queued
<1> QED
  BY <1>3 DEF Cancel, TypeOK

\* The results of a run make a report.
LEMMA ReportType == [d \in Dependencies |-> result[d] = "ok"] \in Reports
  BY DEF Reports

\* No step leaves the types.
LEMMA TypeStep == TypeOK /\ [Next]_vars => TypeOK'
<1> SUFFICES ASSUME TypeOK, [Next]_vars
             PROVE  TypeOK'
  OBVIOUS
<1> USE DEF QueueOK
<1>1. ASSUME NEW c \in Checks, Arrive(c)
      PROVE  TypeOK'
  <2>1. QueueOK'
    BY <1>1, AppendEnters DEF Arrive, TypeOK, Enters
  <2> QED
    BY <1>1, <2>1 DEF Arrive, Silent, world, TypeOK
<1>2. ASSUME NEW c \in Checks, Cancel(c)
      PROVE  TypeOK'
  <2>1. /\ result' \in [Dependencies -> {"pending", "ok", "failed"}]
        /\ elapsed' \in 0 .. TimeoutSeconds /\ probing' \in BOOLEAN
    BY <1>2, StopTypes DEF Cancel, TypeOK
  <2>2. cancels' \in 0 .. MaxCancels
    BY <1>2, TimesAssumption DEF Cancel, TypeOK
  <2> QED
    BY <1>2, <2>1, <2>2, CancelTypes DEF Cancel, Silent, world, TypeOK
<1>3. ASSUME NEW c \in Checks, Serve(c)
      PROVE  TypeOK'
  <2>1. cached \in Reports
    BY <1>3 DEF Serve, Usable, TypeOK
  <2> QED
    BY <1>3, <2>1, ReplyTypes DEF Serve, world, TypeOK
<1>4. ASSUME NEW c \in Checks, Probe(c)
      PROVE  TypeOK'
  BY <1>4 DEF Probe, Silent, world, TypeOK
<1>5. ASSUME NEW c \in Checks, Complete(c)
      PROVE  TypeOK'
  <2> DEFINE report == [d \in Dependencies |-> result[d] = "ok"]
  <2>1. report \in Reports /\ HasLock(c) /\ Reply(c, report) /\ cached' = report
    BY <1>5, ReportType DEF Complete
  <2> HIDE DEF report
  <2>2. /\ result' \in [Dependencies -> {"pending", "ok", "failed"}]
        /\ elapsed' \in 0 .. TimeoutSeconds /\ probing' \in BOOLEAN
        /\ fresh' \in 0 .. CacheSeconds /\ runAgo' \in 0 .. Horizon
    <3>1. StopProbes /\ fresh' = CacheSeconds /\ runAgo' = 0
      BY <1>5 DEF Complete
    <3> QED
      BY <3>1, StopTypes, TimesAssumption, HorizonType
  <2>3. UNCHANGED <<world, cancels>>
    BY <1>5 DEF Complete
  <2> QED
    BY <2>1, <2>2, <2>3, ReplyTypes DEF world, TypeOK
<1>6. ASSUME NEW d \in Dependencies, Returns(d) \/ TimesOut(d)
      PROVE  TypeOK'
  <2>1. result' \in [Dependencies -> {"pending", "ok", "failed"}]
    BY <1>6 DEF Returns, TimesOut, TypeOK
  <2> QED
    BY <1>6, <2>1 DEF Returns, TimesOut, Silent, world, TypeOK
<1>7. ASSUME NEW d \in Dependencies, Change(d)
      PROVE  TypeOK'
  <2>1. /\ state' \in [Dependencies -> {"up", "down", "hanging"}]
        /\ upAgo' \in [Dependencies -> 0 .. Horizon]
        /\ downAgo' \in [Dependencies -> 0 .. Horizon]
    BY <1>7, HorizonType DEF Change, TypeOK
  <2> QED
    BY <1>7, <2>1 DEF Change, Silent, TypeOK
<1>8. ASSUME Tick
      PROVE  TypeOK'
  <2>1. elapsed' \in 0 .. TimeoutSeconds
    BY <1>8, TimesAssumption DEF Tick, Idle, TypeOK
  <2>2. fresh' \in 0 .. CacheSeconds
    BY <1>8, TimesAssumption DEF Tick, TypeOK
  <2>3. waited' \in [Checks -> Nat]
    BY <1>8 DEF Tick, TypeOK
  <2>4. /\ upAgo' \in [Dependencies -> 0 .. Horizon]
        /\ downAgo' \in [Dependencies -> 0 .. Horizon]
        /\ runAgo' \in 0 .. Horizon
    <3>1. 0 \in 0 .. Horizon
      BY HorizonType
    <3>2. \A d \in Dependencies : Later(upAgo[d]) \in 0 .. Horizon /\ Later(downAgo[d]) \in 0 .. Horizon
      BY LaterType DEF TypeOK
    <3>3. upAgo' \in [Dependencies -> 0 .. Horizon] /\ downAgo' \in [Dependencies -> 0 .. Horizon]
      BY <1>8, <3>1, <3>2, Zenon DEF Tick
    <3> QED
      BY <1>8, <3>3, LaterType DEF Tick, TypeOK
  <2> QED
    BY <1>8, <2>1, <2>2, <2>3, <2>4 DEF Tick, Silent, TypeOK
<1>9. CASE UNCHANGED vars
  BY <1>9 DEF vars, TypeOK
<1> QED
  BY <1>1, <1>2, <1>3, <1>4, <1>5, <1>6, <1>7, <1>8, <1>9 DEF Next, Step, Answer

\* Type correctness.
THEOREM TypeCorrect == Spec => []TypeOK
  BY TypeInit, TypeStep, PTL DEF Spec

----------------------------------------------------------------------------
(* What a report says and how old it is                                    *)

\* The counters of the past of each dependency.
Past ==
    \A d \in Dependencies :
        /\ state[d] = "up" => upAgo[d] = 0
        /\ state[d] # "up" => downAgo[d] = 0

\* What the probes have found so far, not before they were started.
Probed ==
    /\ ~probing => result = NoResults /\ elapsed = 0
    /\ \A d \in Dependencies :
        /\ result[d] = "ok" => upAgo[d] <= elapsed
        /\ result[d] = "failed" => downAgo[d] <= elapsed
        /\ result[d] = "pending" /\ elapsed > 0 => downAgo[d] = 0

\* The report was found at most one timeout before it was kept.
Kept ==
    Usable => \A d \in Dependencies :
                  /\ cached[d] => upAgo[d] <= TimeoutSeconds + CacheSeconds - fresh
                  /\ ~cached[d] => downAgo[d] <= TimeoutSeconds + CacheSeconds - fresh

\* The last complete run is as old as its report.
Spaced ==
    /\ cached = None => runAgo = Horizon
    /\ runAgo >= CacheSeconds - fresh

ReportInv == TypeOK /\ Past /\ Probed /\ Kept /\ Spaced

\* Steps of the checks alone leave the past of the dependencies and the report.
Keeps == UNCHANGED <<world, cached, fresh, runAgo>>

\* Where report and ages stay, what is known of them stays.
LEMMA KeepsReport ==
  ASSUME ReportInv, Keeps
  PROVE  Past' /\ Kept' /\ Spaced'
  BY DEF ReportInv, Keeps, world, Past, Kept, Spaced, Usable

\* Where probes and ages stay, what is known of the probes stays.
LEMMA KeepsProbes ==
  ASSUME ReportInv, UNCHANGED <<world, probing, result, elapsed>>
  PROVE  Probed'
  BY DEF ReportInv, Probed, world

\* Nothing is claimed of probes that were stopped.
LEMMA StopsProbes ==
  ASSUME ReportInv, StopProbes
  PROVE  Probed'
<1>1. ~probing' /\ result' = NoResults /\ elapsed' = 0
  BY DEF StopProbes
<1>2. \A d \in Dependencies : result'[d] = "pending"
  BY <1>1 DEF NoResults
<1> QED
  BY <1>1, <1>2 DEF Probed

\* There is neither report nor probe at the start.
LEMMA ReportInit == Init => ReportInv
<1> SUFFICES ASSUME Init
             PROVE  ReportInv
  OBVIOUS
<1>1. TypeOK
  BY TypeInit
<1>2. Past
  BY DEF Init, Past
<1>3. Probed
  <2>1. \A d \in Dependencies : result[d] = "pending"
    BY DEF Init, NoResults
  <2> QED
    BY <2>1 DEF Init, Probed
<1>4. Kept /\ Spaced
  BY HorizonType, TimesAssumption DEF Init, Kept, Spaced, Usable
<1> QED
  BY <1>1, <1>2, <1>3, <1>4 DEF ReportInv

\* A complete run keeps a report no older than its probes.
LEMMA CompleteReports ==
  ASSUME ReportInv, NEW c \in Checks, Complete(c)
  PROVE  Past' /\ Probed' /\ Kept' /\ Spaced'
<1>1. UNCHANGED world /\ StopProbes /\ RunIsComplete /\ fresh' = CacheSeconds /\ runAgo' = 0
  BY DEF Complete
<1>2. cached' = [d \in Dependencies |-> result[d] = "ok"]
  BY DEF Complete
<1>3. Past'
  BY <1>1 DEF ReportInv, Past, world
<1>4. Kept'
  <2> SUFFICES ASSUME NEW d \in Dependencies
               PROVE  /\ cached'[d] => upAgo'[d] <= TimeoutSeconds + CacheSeconds - fresh'
                      /\ ~cached'[d] => downAgo'[d] <= TimeoutSeconds + CacheSeconds - fresh'
    BY DEF Kept
  <2>1. TimeoutSeconds + CacheSeconds - fresh' = TimeoutSeconds
    BY <1>1, TimesAssumption
  <2>2. cached'[d] <=> result[d] = "ok"
    BY <1>2, Zenon
  <2>3. result[d] \in {"ok", "failed"}
    BY <1>1 DEF RunIsComplete, ReportInv, TypeOK
  <2>4. (result[d] = "ok" => upAgo[d] <= elapsed) /\ (result[d] = "failed" => downAgo[d] <= elapsed)
    BY DEF ReportInv, Probed
  <2>5. elapsed \in 0 .. TimeoutSeconds /\ upAgo[d] \in 0 .. Horizon /\ downAgo[d] \in 0 .. Horizon
    BY DEF ReportInv, TypeOK
  <2>6. upAgo' = upAgo /\ downAgo' = downAgo
    BY <1>1 DEF world
  <2> QED
    BY <2>1, <2>2, <2>3, <2>4, <2>5, <2>6, TimesAssumption, HorizonType
<1>5. Spaced'
  <2>1. cached' # None
    BY <1>2, ReportType, NoneAssumption
  <2> QED
    BY <1>1, <2>1, TimesAssumption DEF Spaced
<1> QED
  BY <1>1, <1>3, <1>4, <1>5, StopsProbes

\* A probe finds what the dependency is at that moment.
LEMMA AnswerReports ==
  ASSUME ReportInv, NEW d \in Dependencies, Returns(d) \/ TimesOut(d)
  PROVE  Probed'
<1>1. UNCHANGED <<world, probing, elapsed>> /\ probing
  BY DEF Returns, TimesOut
<1>2. elapsed \in 0 .. TimeoutSeconds /\ TimeoutSeconds > 0
  BY TimesAssumption DEF ReportInv, TypeOK
<1>3. ASSUME NEW e \in Dependencies
      PROVE  /\ result'[e] = "ok" => upAgo[e] <= elapsed
             /\ result'[e] = "failed" => downAgo[e] <= elapsed
             /\ result'[e] = "pending" /\ elapsed > 0 => downAgo[e] = 0
  <2>1. CASE e # d
    <3>1. result'[e] = result[e]
      BY <2>1 DEF Returns, TimesOut, ReportInv, TypeOK
    <3> QED
      BY <3>1 DEF ReportInv, Probed
  <2>2. CASE e = d /\ Returns(d)
    <3>1. result'[d] = IF state[d] = "up" THEN "ok" ELSE "failed"
      BY <2>2 DEF Returns, ReportInv, TypeOK
    <3>2. (state[d] = "up" => upAgo[d] = 0) /\ (state[d] # "up" => downAgo[d] = 0)
      BY DEF ReportInv, Past
    <3> QED
      BY <1>2, <2>2, <3>1, <3>2
  <2>3. CASE e = d /\ TimesOut(d)
    <3>1. result'[d] = "failed" /\ elapsed = TimeoutSeconds /\ result[d] = "pending"
      BY <2>3 DEF TimesOut, ReportInv, TypeOK
    <3>2. downAgo[d] = 0
      BY <1>2, <3>1 DEF ReportInv, Probed
    <3> QED
      BY <1>2, <2>3, <3>1, <3>2
  <2> QED
    BY <2>1, <2>2, <2>3
<1> QED
  BY <1>1, <1>3 DEF Probed, world

\* A dependency that changes starts its age anew.
LEMMA ChangeReports ==
  ASSUME ReportInv, NEW d \in Dependencies, Change(d)
  PROVE  Past' /\ Probed' /\ Kept' /\ Spaced'
<1>1. UNCHANGED <<probing, result, elapsed, cached, fresh, runAgo>>
  BY DEF Change
<1>2. PICK s \in {"up", "down", "hanging"} : s # state[d] /\ state' = [state EXCEPT ![d] = s]
  BY DEF Change
<1>3. \A e \in Dependencies : /\ e # d => /\ state'[e] = state[e]
                                         /\ upAgo'[e] = upAgo[e] /\ downAgo'[e] = downAgo[e]
                              /\ upAgo'[e] = IF e = d /\ s = "up" THEN 0 ELSE upAgo[e]
                              /\ downAgo'[e] = IF e = d /\ s # "up" THEN 0 ELSE downAgo[e]
  BY <1>2 DEF Change, ReportInv, TypeOK
<1>4. state'[d] = s
  BY <1>2 DEF ReportInv, TypeOK
<1>5. \A e \in Dependencies : /\ upAgo[e] \in 0 .. Horizon /\ upAgo'[e] \in 0 .. Horizon
                              /\ downAgo[e] \in 0 .. Horizon /\ downAgo'[e] \in 0 .. Horizon
                              /\ upAgo'[e] <= upAgo[e] /\ downAgo'[e] <= downAgo[e]
  BY <1>3, HorizonType DEF ReportInv, TypeOK
<1>6. /\ elapsed \in Nat /\ fresh \in 0 .. CacheSeconds /\ TimeoutSeconds \in Nat
      /\ CacheSeconds \in Nat
  BY TimesAssumption DEF ReportInv, TypeOK
<1>7. Past'
  <2> SUFFICES ASSUME NEW e \in Dependencies
               PROVE  /\ state'[e] = "up" => upAgo'[e] = 0
                      /\ state'[e] # "up" => downAgo'[e] = 0
    BY DEF Past
  <2>1. CASE e = d
    BY <1>3, <1>4, <2>1
  <2>2. CASE e # d
    BY <1>3, <2>2 DEF ReportInv, Past
  <2> QED
    BY <2>1, <2>2
<1>8. Probed'
  <2>1. ASSUME NEW e \in Dependencies
        PROVE  /\ result'[e] = "ok" => upAgo'[e] <= elapsed'
               /\ result'[e] = "failed" => downAgo'[e] <= elapsed'
               /\ result'[e] = "pending" /\ elapsed' > 0 => downAgo'[e] = 0
    <3>1. /\ result[e] = "ok" => upAgo[e] <= elapsed
          /\ result[e] = "failed" => downAgo[e] <= elapsed
          /\ result[e] = "pending" /\ elapsed > 0 => downAgo[e] = 0
      BY DEF ReportInv, Probed
    <3>2. result' = result /\ elapsed' = elapsed
      BY <1>1
    <3> QED
      BY <1>5, <1>6, <3>1, <3>2
  <2> QED
    BY <1>1, <2>1 DEF Probed, ReportInv
<1>9. Kept'
  <2> SUFFICES ASSUME Usable', NEW e \in Dependencies
               PROVE  /\ cached'[e] => upAgo'[e] <= TimeoutSeconds + CacheSeconds - fresh'
                      /\ ~cached'[e] => downAgo'[e] <= TimeoutSeconds + CacheSeconds - fresh'
    BY DEF Kept
  <2>1. cached' = cached /\ fresh' = fresh /\ Usable
    BY <1>1 DEF Usable
  <2>2. /\ cached[e] => upAgo[e] <= TimeoutSeconds + CacheSeconds - fresh
        /\ ~cached[e] => downAgo[e] <= TimeoutSeconds + CacheSeconds - fresh
    BY <2>1 DEF ReportInv, Kept
  <2> QED
    BY <1>5, <1>6, <2>1, <2>2
<1> QED
  BY <1>1, <1>7, <1>8, <1>9 DEF Spaced, ReportInv

\* After a second all ages are a second more, unless they are at the horizon.
LEMMA TickReports ==
  ASSUME ReportInv, Tick
  PROVE  Past' /\ Probed' /\ Kept' /\ Spaced'
<1>1. UNCHANGED <<state, probing, result, cached>> /\ Idle
      /\ elapsed' = (IF probing THEN elapsed + 1 ELSE elapsed)
      /\ fresh' = (IF fresh = 0 THEN 0 ELSE fresh - 1) /\ runAgo' = Later(runAgo)
  BY DEF Tick
<1>2. \A d \in Dependencies : /\ upAgo'[d] = IF state[d] = "up" THEN 0 ELSE Later(upAgo[d])
                              /\ downAgo'[d] = IF state[d] = "up" THEN Later(downAgo[d]) ELSE 0
  BY Zenon DEF Tick
<1>3. /\ elapsed \in 0 .. TimeoutSeconds /\ fresh \in 0 .. CacheSeconds /\ runAgo \in 0 .. Horizon
      /\ TimeoutSeconds \in Nat /\ CacheSeconds \in Nat
      /\ \A d \in Dependencies : upAgo[d] \in 0 .. Horizon /\ downAgo[d] \in 0 .. Horizon
  BY TimesAssumption DEF ReportInv, TypeOK
<1>4. \A d \in Dependencies : /\ upAgo'[d] \in Nat /\ upAgo'[d] <= upAgo[d] + 1
                              /\ downAgo'[d] \in Nat /\ downAgo'[d] <= downAgo[d] + 1
  <2>1. \A d \in Dependencies : /\ Later(upAgo[d]) \in 0 .. Horizon /\ Later(upAgo[d]) <= upAgo[d] + 1
                                /\ Later(downAgo[d]) \in 0 .. Horizon /\ Later(downAgo[d]) <= downAgo[d] + 1
    BY <1>3, LaterType
  <2> QED
    BY <1>2, <1>3, <2>1
<1>5. Past'
  BY <1>1, <1>2 DEF Past
<1>6. Probed'
  <2>1. CASE ~probing
    BY <1>1, <1>2, <2>1 DEF ReportInv, Probed, NoResults
  <2>2. CASE probing
    <3>1. ASSUME NEW d \in Dependencies
          PROVE  /\ result[d] = "ok" => upAgo'[d] <= elapsed + 1
                 /\ result[d] = "failed" => downAgo'[d] <= elapsed + 1
                 /\ result[d] = "pending" => downAgo'[d] = 0
      <4>1. /\ result[d] = "ok" => upAgo[d] <= elapsed
            /\ result[d] = "failed" => downAgo[d] <= elapsed
        BY DEF ReportInv, Probed
      <4>2. result[d] = "pending" => state[d] # "up"
        BY <1>1, <2>2 DEF Idle
      <4> QED
        BY <1>2, <1>3, <1>4, <4>1, <4>2
    <3> QED
      BY <1>1, <2>2, <3>1 DEF Probed
  <2> QED
    BY <2>1, <2>2
<1>7. Kept'
  <2> SUFFICES ASSUME Usable', NEW d \in Dependencies
               PROVE  /\ cached'[d] => upAgo'[d] <= TimeoutSeconds + CacheSeconds - fresh'
                      /\ ~cached'[d] => downAgo'[d] <= TimeoutSeconds + CacheSeconds - fresh'
    BY DEF Kept
  <2>1. cached' = cached /\ fresh' = fresh - 1 /\ Usable
    BY <1>1, <1>3 DEF Usable
  <2>2. /\ cached[d] => upAgo[d] <= TimeoutSeconds + CacheSeconds - fresh
        /\ ~cached[d] => downAgo[d] <= TimeoutSeconds + CacheSeconds - fresh
    BY <2>1 DEF ReportInv, Kept
  <2> QED
    BY <1>3, <1>4, <2>1, <2>2
<1>8. Spaced'
  <2>1. Later(runAgo) \in 0 .. Horizon /\ runAgo <= Later(runAgo)
    BY <1>3, LaterType
  <2>2. runAgo < Horizon => Later(runAgo) = runAgo + 1
    BY <1>3, HorizonType DEF Later
  <2>3. (cached = None => runAgo = Horizon) /\ runAgo >= CacheSeconds - fresh
    BY DEF ReportInv, Spaced
  <2>4. cached' = None => runAgo' = Horizon
    BY <1>1, <2>1, <2>3, HorizonType
  <2>5. runAgo' >= CacheSeconds - fresh'
    BY <1>1, <1>3, <2>1, <2>2, <2>3, HorizonType
  <2> QED
    BY <2>4, <2>5 DEF Spaced
<1> QED
  BY <1>5, <1>6, <1>7, <1>8

\* Every step keeps what is known of the ages.
LEMMA ReportStep == ReportInv /\ [Next]_vars => ReportInv'
<1> SUFFICES ASSUME ReportInv, [Next]_vars
             PROVE  ReportInv'
  OBVIOUS
<1>0. TypeOK'
  BY TypeStep DEF ReportInv
<1>1. ASSUME NEW c \in Checks, Arrive(c) \/ Serve(c)
      PROVE  Past' /\ Probed' /\ Kept' /\ Spaced'
  <2>1. Keeps /\ UNCHANGED <<world, probing, result, elapsed>>
    BY <1>1 DEF Arrive, Serve, Keeps
  <2> QED
    BY <2>1, KeepsReport, KeepsProbes
<1>2. ASSUME NEW c \in Checks, Cancel(c)
      PROVE  Past' /\ Probed' /\ Kept' /\ Spaced'
  <2>1. Keeps /\ (StopProbes \/ UNCHANGED <<world, probing, result, elapsed>>)
    BY <1>2 DEF Cancel, Keeps
  <2> QED
    BY <2>1, KeepsReport, KeepsProbes, StopsProbes
<1>3. ASSUME NEW c \in Checks, Probe(c)
      PROVE  Past' /\ Probed' /\ Kept' /\ Spaced'
  <2>1. Keeps /\ probing' /\ UNCHANGED <<world, result, elapsed>>
    BY <1>3 DEF Probe, Keeps
  <2>2. Probed'
    BY <2>1 DEF ReportInv, Probed, world
  <2> QED
    BY <2>1, <2>2, KeepsReport
<1>4. ASSUME NEW d \in Dependencies, Returns(d) \/ TimesOut(d)
      PROVE  Past' /\ Probed' /\ Kept' /\ Spaced'
  <2>1. Keeps
    BY <1>4 DEF Returns, TimesOut, Keeps
  <2> QED
    BY <1>4, <2>1, KeepsReport, AnswerReports
<1>5. CASE UNCHANGED vars
  <2>1. Keeps /\ UNCHANGED <<world, probing, result, elapsed>>
    BY <1>5 DEF vars, Keeps, world
  <2> QED
    BY <1>0, <2>1, KeepsReport, KeepsProbes DEF ReportInv
<1> QED
  BY <1>0, <1>1, <1>2, <1>3, <1>4, <1>5, CompleteReports, ChangeReports, TickReports
     DEF ReportInv, Next, Step, Answer

\* What the answers are based on is an invariant.
LEMMA ReportCorrect == Spec => []ReportInv
  BY ReportInit, ReportStep, PTL DEF Spec

\* An answer from results below the horizon was true below the horizon.
LEMMA ReplyRecent ==
  ASSUME ReportInv, NEW report \in Reports, answer' = [status |-> Status(report), report |-> report],
         \A d \in Dependencies : /\ report[d] => upAgo[d] < Horizon
                                 /\ ~report[d] => downAgo[d] < Horizon
  PROVE  IF answer'.status = 200
         THEN \A d \in Required : upAgo[d] < Horizon
         ELSE \E d \in Required : downAgo[d] < Horizon
  BY DependenciesAssumption DEF Status

\* An answer tells what was true at most CacheSeconds + TimeoutSeconds ago,
\* however many checks share the report.
THEOREM RecentCorrect == Spec => AnswersWereTrueRecently
<1>1. ReportInv /\ [Next]_vars => [Replied =>
         IF answer'.status = 200
         THEN \A d \in Required : upAgo[d] < Horizon
         ELSE \E d \in Required : downAgo[d] < Horizon]_vars
  <2> SUFFICES ASSUME ReportInv, [Next]_vars, ~UNCHANGED vars, Replied
               PROVE  IF answer'.status = 200
                      THEN \A d \in Required : upAgo[d] < Horizon
                      ELSE \E d \in Required : downAgo[d] < Horizon
    OBVIOUS
  <2>0. /\ elapsed \in 0 .. TimeoutSeconds /\ fresh \in 0 .. CacheSeconds
        /\ \A d \in Dependencies : upAgo[d] \in 0 .. Horizon /\ downAgo[d] \in 0 .. Horizon
    BY DEF ReportInv, TypeOK
  <2>1. ~Silent
    BY DEF Replied, Silent
  <2>2. \E c \in Checks : Serve(c) \/ Complete(c)
    BY <2>1 DEF Next, Step, Answer, Arrive, Cancel, Probe, Returns, TimesOut, Change, Tick
  <2>3. ASSUME NEW c \in Checks, Serve(c)
        PROVE  IF answer'.status = 200
               THEN \A d \in Required : upAgo[d] < Horizon
               ELSE \E d \in Required : downAgo[d] < Horizon
    <3>1. Usable /\ answer' = [status |-> Status(cached), report |-> cached]
      BY <2>3 DEF Serve, Reply
    <3>2. cached \in Reports
      BY <3>1 DEF Usable, ReportInv, TypeOK
    <3>3. \A d \in Dependencies :
              /\ cached[d] => upAgo[d] <= TimeoutSeconds + CacheSeconds - fresh
              /\ ~cached[d] => downAgo[d] <= TimeoutSeconds + CacheSeconds - fresh
      BY <3>1 DEF ReportInv, Kept
    <3>4. \A d \in Dependencies : (cached[d] => upAgo[d] < Horizon) /\ (~cached[d] => downAgo[d] < Horizon)
      BY <2>0, <3>3, HorizonType, TimesAssumption
    <3> QED
      BY <3>1, <3>2, <3>4, ReplyRecent
  <2>4. ASSUME NEW c \in Checks, Complete(c)
        PROVE  IF answer'.status = 200
               THEN \A d \in Required : upAgo[d] < Horizon
               ELSE \E d \in Required : downAgo[d] < Horizon
    <3> DEFINE report == [d \in Dependencies |-> result[d] = "ok"]
    <3>1. RunIsComplete /\ answer' = [status |-> Status(report), report |-> report]
      BY <2>4 DEF Complete, Reply
    <3>2. report \in Reports /\ \A d \in Dependencies : report[d] <=> result[d] = "ok"
      BY ReportType, Zenon
    <3>3. \A d \in Dependencies : /\ result[d] = "ok" => upAgo[d] <= elapsed
                                  /\ result[d] # "ok" => downAgo[d] <= elapsed
      BY <3>1 DEF RunIsComplete, ReportInv, Probed, TypeOK
    <3> HIDE DEF report
    <3>4. \A d \in Dependencies : (report[d] => upAgo[d] < Horizon) /\ (~report[d] => downAgo[d] < Horizon)
      BY <2>0, <3>2, <3>3, HorizonType, TimesAssumption
    <3> QED
      BY <3>1, <3>2, <3>4, ReplyRecent
  <2> QED
    BY <2>2, <2>3, <2>4
<1> QED
  BY <1>1, ReportCorrect, PTL DEF Spec, AnswersWereTrueRecently

\* Probes start only when the last complete run is CacheSeconds old.
THEOREM SpacedCorrect == Spec => ProbesAreSpaced
<1>1. ReportInv /\ [Next]_vars => [~probing /\ probing' => runAgo >= CacheSeconds]_vars
  <2> SUFFICES ASSUME ReportInv, [Next]_vars, ~probing, probing'
               PROVE  runAgo >= CacheSeconds
    OBVIOUS
  <2>1. \E c \in Checks : Probe(c)
    BY DEF Next, Step, Answer, Arrive, Serve, Complete, Cancel, StopProbes, Returns, TimesOut,
           Change, Tick, vars
  <2>2. cached = None \/ fresh = 0
    BY <2>1 DEF Probe, Usable, ReportInv, TypeOK
  <2>3. (cached = None => runAgo = Horizon) /\ runAgo >= CacheSeconds - fresh
    BY DEF ReportInv, Spaced
  <2> QED
    BY <2>2, <2>3, HorizonType, TimesAssumption DEF ReportInv, TypeOK
<1> QED
  BY <1>1, ReportCorrect, PTL DEF Spec, ProbesAreSpaced

----------------------------------------------------------------------------
(* How long a check waits                                                  *)

\* What the check at the head, or one of those behind it, may have waited since the
\* last cancellation: only probes take time, and with a usable report none are started.
Share == IF probing THEN elapsed ELSE IF Usable THEN TimeoutSeconds ELSE 0

Waits ==
    \A c \in Checks : /\ Queued(c) => waited[c] <= TimeoutSeconds * cancels + Share
                      /\ ~Queued(c) => waited[c] = 0

WaitInv == ReportInv /\ Waits

\* One timeout more.
LEMMA TimesNext == \A n \in Nat : /\ TimeoutSeconds * n \in Nat
                                 /\ TimeoutSeconds * (n + 1) = TimeoutSeconds * n + TimeoutSeconds
                                 /\ TimeoutSeconds * (1 + n) = TimeoutSeconds * n + TimeoutSeconds
  BY TimesAssumption

\* The share of a run in a wait is at most one timeout.
LEMMA ShareType ==
  ASSUME TypeOK
  PROVE  Share \in 0 .. TimeoutSeconds /\ cancels \in Nat /\ TimeoutSeconds * cancels \in Nat
<1>1. Share \in 0 .. TimeoutSeconds /\ cancels \in Nat
  BY TimesAssumption DEF TypeOK, Share
<1> QED
  BY <1>1, TimesNext

\* The checks that stay have waited no longer than before and may wait as long.
LEMMA StayersWait ==
  ASSUME TypeOK, TypeOK', Waits, cancels' = cancels, Share <= Share', UNCHANGED waited,
         \A c \in Checks : Queued(c) => Queued(c)'
  PROVE  Waits'
<1>1. ASSUME NEW c \in Checks
      PROVE  /\ Queued(c)' => waited'[c] <= TimeoutSeconds * cancels' + Share'
             /\ ~Queued(c)' => waited'[c] = 0
  <2>1. Share \in Nat /\ Share' \in Nat /\ TimeoutSeconds * cancels \in Nat /\ waited[c] \in Nat
    <3>1. Share' \in 0 .. TimeoutSeconds
      BY TimesAssumption DEF TypeOK, Share
    <3> QED
      BY <3>1, ShareType, TimesAssumption DEF TypeOK
  <2> QED
    BY <2>1 DEF Waits
<1> QED
  BY <1>1 DEF Waits

\* One check leaves; the bound of the others may grow.
LEMMA LeaverWaits ==
  ASSUME TypeOK, Waits, NEW c \in Checks, Leaves(c), waited' = [waited EXCEPT ![c] = 0],
         NEW bound \in Int, bound = TimeoutSeconds * cancels' + Share',
         TimeoutSeconds * cancels + Share <= bound
  PROVE  Waits'
<1>1. ASSUME NEW e \in Checks
      PROVE  /\ Queued(e)' => waited'[e] <= bound
             /\ ~Queued(e)' => waited'[e] = 0
  <2>1. Queued(e)' <=> Queued(e) /\ e # c
    BY DEF Leaves
  <2>2. waited'[e] = (IF e = c THEN 0 ELSE waited[e])
    BY DEF TypeOK
  <2>3. Share \in Nat /\ TimeoutSeconds * cancels \in Nat /\ waited[e] \in Nat
    BY ShareType DEF TypeOK
  <2> QED
    BY <2>1, <2>2, <2>3 DEF Waits
<1> QED
  BY <1>1 DEF Waits

\* Nobody waits at the start.
LEMMA WaitsInit == Init => WaitInv
<1> SUFFICES ASSUME Init
             PROVE  WaitInv
  OBVIOUS
<1>1. \A c \in Checks : ~Queued(c) /\ waited[c] = 0
  BY DEF Init, Queued
<1> QED
  BY <1>1, ReportInit DEF WaitInv, Waits

\* Every step keeps the bound on waits.
LEMMA WaitsStep ==
  ASSUME CacheSeconds > 0, WaitInv, [Next]_vars
  PROVE  WaitInv'
<1>0. TypeOK /\ TypeOK' /\ ReportInv /\ ReportInv' /\ Waits /\ QueueOK
  BY ReportStep, TypeStep DEF WaitInv, ReportInv, TypeOK, QueueOK
<1>1. Share \in 0 .. TimeoutSeconds /\ cancels \in Nat /\ TimeoutSeconds * cancels \in Nat
  BY <1>0, ShareType
<1>2. ASSUME NEW c \in Checks, Arrive(c)
      PROVE  Waits'
  <2>1. Enters(c)
    BY <1>0, <1>2, AppendEnters DEF Arrive
  <2>2. UNCHANGED <<waited, cancels, Share>>
    BY <1>2 DEF Arrive, Share, Usable
  <2>3. \A e \in Checks : Queued(e)' <=> Queued(e) \/ e = c
    BY <2>1 DEF Enters
  <2>4. Share <= Share'
    BY <1>1, <2>2
  <2> QED
    BY <1>0, <2>2, <2>3, <2>4, StayersWait
<1>3. ASSUME NEW c \in Checks, Cancel(c)
      PROVE  Waits'
  <2>1. Leaves(c) /\ cancels' = cancels + 1 /\ waited' = [waited EXCEPT ![c] = 0]
    BY <1>0, <1>3, CancelTypes DEF Cancel
  <2>2. TimeoutSeconds * cancels' = TimeoutSeconds * cancels + TimeoutSeconds
    BY <1>1, <2>1, TimesNext
  <2>3. Share' \in 0 .. TimeoutSeconds
    BY <1>0, TimesAssumption DEF TypeOK, Share
  <2>4. TimeoutSeconds * cancels + Share <= TimeoutSeconds * cancels' + Share'
    BY <1>1, <2>2, <2>3, TimesAssumption
  <2>5. TimeoutSeconds * cancels' + Share' \in Int
    BY <1>1, <2>2, <2>3, TimesAssumption
  <2> QED
    BY <1>0, <2>1, <2>4, <2>5, LeaverWaits
<1>4. ASSUME NEW c \in Checks, Serve(c) \/ Complete(c)
      PROVE  Waits'
  <2>1. /\ Leaves(c) /\ cancels' = cancels /\ waited' = [waited EXCEPT ![c] = 0]
        /\ ~probing' /\ Usable'
    <3>1. HasLock(c) /\ cancels' = cancels /\ queue' = Tail(queue)
          /\ waited' = [waited EXCEPT ![c] = 0]
      BY <1>4 DEF Serve, Complete, Reply
    <3>2. Leaves(c)
      BY <1>0, <3>1, HeadQueued, TailLeaves
    <3>3. CASE Serve(c)
      BY <3>1, <3>2, <3>3 DEF Serve, Usable
    <3>4. CASE Complete(c)
      <4>1. cached' \in Reports /\ fresh' = CacheSeconds /\ ~probing'
        BY <3>4, ReportType DEF Complete, StopProbes
      <4>2. cached' # None
        BY <4>1, NoneAssumption
      <4> QED
        BY <3>1, <3>2, <4>1, <4>2, TimesAssumption DEF Usable
    <3> QED
      BY <1>4, <3>3, <3>4
  <2>2. Share' = TimeoutSeconds
    BY <2>1 DEF Share
  <2>3. TimeoutSeconds * cancels + Share <= TimeoutSeconds * cancels' + Share'
    BY <1>1, <2>1, <2>2, TimesAssumption
  <2>4. TimeoutSeconds * cancels' + Share' \in Int
    BY <1>1, <2>1, <2>2, TimesAssumption
  <2> QED
    BY <1>0, <2>1, <2>3, <2>4, LeaverWaits
<1>5. ASSUME NEW c \in Checks, Probe(c)
      PROVE  Waits'
  <2>1. UNCHANGED <<queue, waited, cancels>> /\ Share = 0
    BY <1>5 DEF Probe, Share
  <2>2. Share' \in 0 .. TimeoutSeconds
    BY <1>0, TimesAssumption DEF TypeOK, Share
  <2> QED
    BY <1>0, <2>1, <2>2, StayersWait, TimesAssumption DEF Queued
<1>6. ASSUME NEW d \in Dependencies, Returns(d) \/ TimesOut(d) \/ Change(d)
      PROVE  Waits'
  <2>1. UNCHANGED <<queue, waited, cancels, Share>>
    BY <1>6 DEF Returns, TimesOut, Change, Share, Usable
  <2> QED
    BY <1>0, <1>1, <2>1, StayersWait DEF Queued
<1>7. ASSUME Tick
      PROVE  Waits'
  <2>1. UNCHANGED <<queue, probing, cancels>> /\ Idle
    BY <1>7 DEF Tick
  <2>2. \A c \in Checks : Queued(c)' <=> Queued(c)
    BY <2>1 DEF Queued
  <2>3. \A c \in Checks : waited'[c] = IF Queued(c) /\ waited[c] <= Patience THEN waited[c] + 1 ELSE waited[c]
    BY <1>7, Zenon DEF Tick
  <2>4. /\ probing => Share' = Share + 1
        /\ ~probing => \A c \in Checks : ~Queued(c)
    <3>1. probing => Share' = Share + 1
      BY <1>7, <2>1 DEF Tick, Share
    <3>2. ~probing => queue = <<>>
      BY <2>1 DEF Idle
    <3>3. queue = <<>> => \A c \in Checks : ~Queued(c)
      BY DEF Queued
    <3> QED
      BY <3>1, <3>2, <3>3
  <2> SUFFICES ASSUME NEW c \in Checks
               PROVE  /\ Queued(c)' => waited'[c] <= TimeoutSeconds * cancels' + Share'
                      /\ ~Queued(c)' => waited'[c] = 0
    BY DEF Waits
  <2>5. /\ Queued(c) => waited[c] <= TimeoutSeconds * cancels + Share
        /\ ~Queued(c) => waited[c] = 0
    BY <1>0 DEF Waits
  <2>6. waited[c] \in Nat /\ cancels' = cancels
    BY <1>0, <2>1 DEF TypeOK
  <2>7. CASE Queued(c)
    <3>1. waited'[c] <= waited[c] + 1 /\ waited'[c] \in Nat
      BY <2>3, <2>6
    <3> QED
      BY <1>1, <2>2, <2>4, <2>5, <2>6, <2>7, <3>1
  <2>8. CASE ~Queued(c)
    BY <2>2, <2>3, <2>5, <2>8
  <2> QED
    BY <2>7, <2>8
<1>8. ASSUME UNCHANGED vars
      PROVE  Waits'
  <2>1. UNCHANGED <<queue, waited, cancels, Share>>
    BY <1>8 DEF vars, Share, Usable
  <2>2. Share <= Share'
    BY <1>1, <2>1
  <2>3. \A c \in Checks : Queued(c) => Queued(c)'
    BY <2>1 DEF Queued
  <2> QED
    BY <1>0, <2>1, <2>2, <2>3, StayersWait
<1> QED
  BY <1>0, <1>2, <1>3, <1>4, <1>5, <1>6, <1>7, <1>8 DEF WaitInv, Next, Step, Answer

\* Wherever it stands in the queue a check waits for one timeout, plus one for every
\* check that is cancelled, when reports are kept at all.
THEOREM InTimeCorrect ==
  ASSUME CacheSeconds > 0
  PROVE  Spec => []AnsweredInTime
<1>1. WaitInv => AnsweredInTime
  <2> SUFFICES ASSUME WaitInv, NEW c \in Checks, Queued(c)
               PROVE  waited[c] <= TimeoutSeconds * (1 + cancels)
    BY DEF AnsweredInTime
  <2>1. Share \in 0 .. TimeoutSeconds /\ cancels \in Nat /\ TimeoutSeconds * cancels \in Nat
        /\ waited[c] \in Nat
    BY ShareType DEF WaitInv, ReportInv, TypeOK
  <2>2. waited[c] <= TimeoutSeconds * cancels + Share
    BY DEF WaitInv, Waits
  <2>3. TimeoutSeconds * (1 + cancels) = TimeoutSeconds * cancels + TimeoutSeconds
    BY <2>1, TimesNext
  <2> QED
    BY <2>1, <2>2, <2>3, TimesAssumption
<1>2. WaitInv /\ [Next]_vars => WaitInv'
  BY WaitsStep
<1> QED
  BY <1>1, <1>2, WaitsInit, PTL DEF Spec

=============================================================================
