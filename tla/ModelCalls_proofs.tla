------------------------- MODULE ModelCalls_proofs -------------------------
(* Theorems about ModelCalls for all finite sets of calls and all limits.  *)
EXTENDS ModelCalls, FiniteSetTheorems, SequenceTheorems, TLAPS

USE CallsAssumption, LimitsAssumption

----------------------------------------------------------------------------
(* Counting slots                                                          *)

HoldersOf(s) == {c \in Calls : s[c] \in SlotStages}
ReservedOf(f) == {c \in Calls : f[c] \in {"woken", "revoked"}}

\* Every set of calls is finite and has a size.
LEMMA SubsetsAreFinite ==
  \A S \in SUBSET Calls : IsFiniteSet(S) /\ Cardinality(S) \in Nat
  BY FS_Subset, FS_CardinalityType

\* A call that starts to hold a slot, one that stops, and one that does neither.
LEMMA HolderAdded ==
  ASSUME NEW s \in [Calls -> Stages], NEW c \in Calls, NEW t \in SlotStages,
         s[c] \notin SlotStages
  PROVE  Cardinality(HoldersOf([s EXCEPT ![c] = t])) = Cardinality(HoldersOf(s)) + 1
<1>1. HoldersOf([s EXCEPT ![c] = t]) = HoldersOf(s) \cup {c}
  BY DEF HoldersOf
<1>2. c \notin HoldersOf(s) /\ IsFiniteSet(HoldersOf(s))
  BY SubsetsAreFinite DEF HoldersOf
<1>3. Cardinality(HoldersOf(s) \cup {c}) = Cardinality(HoldersOf(s)) + 1
  BY <1>2, FS_AddElement
<1> QED
  BY <1>1, <1>3

\* A call that stops to hold a slot makes the holders one fewer.
LEMMA HolderRemoved ==
  ASSUME NEW s \in [Calls -> Stages], NEW c \in Calls, NEW t \in Stages \ SlotStages,
         s[c] \in SlotStages
  PROVE  Cardinality(HoldersOf([s EXCEPT ![c] = t])) = Cardinality(HoldersOf(s)) - 1
<1>1. HoldersOf([s EXCEPT ![c] = t]) = HoldersOf(s) \ {c}
  BY DEF HoldersOf
<1>2. c \in HoldersOf(s) /\ IsFiniteSet(HoldersOf(s))
  BY SubsetsAreFinite DEF HoldersOf
<1>3. Cardinality(HoldersOf(s) \ {c}) = Cardinality(HoldersOf(s)) - 1
  BY <1>2, FS_RemoveElement
<1> QED
  BY <1>1, <1>3

\* A call that moves between stages of the same kind changes no holder.
LEMMA HolderKept ==
  ASSUME NEW s \in [Calls -> Stages], NEW c \in Calls, NEW t \in Stages,
         s[c] \in SlotStages <=> t \in SlotStages
  PROVE  HoldersOf([s EXCEPT ![c] = t]) = HoldersOf(s)
  BY DEF HoldersOf

\* What waking at the end of acquire() does: no slot is lost, and either the free
\* slots or the pending waiters are used up.
LEMMA WakeAllEffect ==
  ASSUME NEW free \in Nat, NEW f \in [Calls -> Futures], WakeAll(free, f)
  PROVE  /\ value' \in Nat
         /\ future' \in [Calls -> Futures]
         /\ \A c \in Calls : future'[c] = "none" <=> f[c] = "none"
         /\ value' + Cardinality(ReservedOf(future')) = free + Cardinality(ReservedOf(f))
         /\ value' > 0 => Pending(future') = {}
<1>1. PICK woken \in SUBSET Pending(f) :
        /\ Cardinality(woken) <= free
        /\ Cardinality(woken) = free \/ woken = Pending(f)
        /\ value' = free - Cardinality(woken)
        /\ future' = [c \in Calls |-> IF c \in woken THEN "woken" ELSE f[c]]
  BY DEF WakeAll
<1>2. woken \in SUBSET Calls /\ IsFiniteSet(woken) /\ Cardinality(woken) \in Nat
  BY SubsetsAreFinite DEF Pending
<1>3. value' \in Nat
  BY <1>1, <1>2
<1>4. future' \in [Calls -> Futures]
  BY <1>1 DEF Futures
<1>5. \A c \in Calls : future'[c] = "none" <=> f[c] = "none"
  BY <1>1 DEF Pending
<1>6. value' + Cardinality(ReservedOf(future')) = free + Cardinality(ReservedOf(f))
  <2>1. ReservedOf(future') = ReservedOf(f) \cup woken
    BY <1>1 DEF ReservedOf, Pending
  <2>2. ReservedOf(f) \cap woken = {}
    BY <1>1 DEF ReservedOf, Pending
  <2>3. IsFiniteSet(ReservedOf(f)) /\ Cardinality(ReservedOf(f)) \in Nat
    BY SubsetsAreFinite DEF ReservedOf
  <2>4. Cardinality(ReservedOf(f) \cup woken)
          = Cardinality(ReservedOf(f)) + Cardinality(woken) - Cardinality({})
    BY <1>2, <2>2, <2>3, FS_Union
  <2>5. Cardinality({}) = 0
    BY FS_EmptySet
  <2>6. value' = free - Cardinality(woken)
    BY <1>1
  <2>7. Cardinality(ReservedOf(future')) = Cardinality(ReservedOf(f)) + Cardinality(woken)
    BY <1>2, <2>1, <2>3, <2>4, <2>5
  <2> QED
    BY <1>2, <2>3, <2>6, <2>7
<1>7. value' > 0 => Pending(future') = {}
  <2>1. value' > 0 => woken = Pending(f)
    BY <1>1, <1>2
  <2> QED
    BY <1>1, <2>1 DEF Pending
<1> QED
  BY <1>3, <1>4, <1>5, <1>6, <1>7

\* release() frees one slot, or passes it on to a waiter.
LEMMA ReleaseEffect ==
  ASSUME TypeOK, Release
  PROVE  /\ value' \in Nat
         /\ future' \in [Calls -> Futures]
         /\ \A c \in Calls : future'[c] = "none" <=> future[c] = "none"
         /\ value' + Cardinality(ReservedOf(future'))
              = value + Cardinality(ReservedOf(future)) + 1
         /\ Pending(future') = {} \/ \E c \in Calls : future'[c] = "woken"
<1>0. /\ value \in Nat
      /\ future \in [Calls -> Futures]
      /\ IsFiniteSet(ReservedOf(future)) /\ Cardinality(ReservedOf(future)) \in Nat
  BY SubsetsAreFinite DEF TypeOK, ReservedOf
<1>1. CASE Pending(future) = {} /\ value' = value + 1 /\ UNCHANGED future
  BY <1>0, <1>1
<1>2. CASE \E c \in Pending(future) :
             future' = [future EXCEPT ![c] = "woken"] /\ UNCHANGED value
  <2>1. PICK c \in Pending(future) :
             future' = [future EXCEPT ![c] = "woken"] /\ UNCHANGED value
    BY <1>2
  <2>2. c \in Calls /\ c \notin ReservedOf(future) /\ future'[c] = "woken"
    BY <1>0, <2>1 DEF Pending, ReservedOf
  <2>3. ReservedOf(future') = ReservedOf(future) \cup {c}
    BY <1>0, <2>1, <2>2 DEF ReservedOf
  <2>4. Cardinality(ReservedOf(future')) = Cardinality(ReservedOf(future)) + 1
    BY <1>0, <2>2, <2>3, FS_AddElement
  <2>5. future' \in [Calls -> Futures]
    BY <1>0, <2>1 DEF Futures
  <2>6. \A d \in Calls : future'[d] = "none" <=> future[d] = "none"
    BY <1>0, <2>1 DEF Pending
  <2> QED
    BY <1>0, <2>1, <2>2, <2>4, <2>5, <2>6
<1> QED
  BY <1>1, <1>2 DEF Release

----------------------------------------------------------------------------
(* The inductive invariant                                                 *)

\* A call has a future in the semaphore's queue exactly while it queues.
FutureFits == \A c \in Calls : future[c] # "none" <=> stage[c] = "queued"

SlotInv == TypeOK /\ FutureFits /\ SlotsConserved /\ NoLostWakeup

\* What a step has to establish anew, value's upper bound left out.
SlotGoal ==
    /\ value \in Nat
    /\ future \in [Calls -> Futures]
    /\ FutureFits
    /\ SlotsConserved
    /\ NoLostWakeup

\* At the start all slots are free.
LEMMA SlotInit == Init => SlotInv
<1> SUFFICES ASSUME Init PROVE SlotInv
  OBVIOUS
<1>1. TypeOK
  BY DEF Init, TypeOK, Stages, Futures
<1>2. FutureFits /\ NoLostWakeup
  BY DEF Init, FutureFits, NoLostWakeup, Pending
<1>3. Holders = {} /\ Reserved = {}
  BY DEF Init, Holders, Reserved, SlotStages
<1>4. SlotsConserved
  BY <1>3, FS_EmptySet DEF Init, SlotsConserved
<1> QED
  BY <1>1, <1>2, <1>4 DEF SlotInv

\* A call that held a slot gives it up: the steps that end with Release.
LEMMA ReleaseStep ==
  ASSUME SlotInv, NEW c \in Calls, NEW t \in Stages \ SlotStages, t # "queued",
         stage[c] \in SlotStages, Goto(c, t), Release
  PROVE  SlotGoal'
<1>1. stage \in [Calls -> Stages] /\ stage' = [stage EXCEPT ![c] = t]
  BY DEF SlotInv, TypeOK, Goto
<1>2. Cardinality(HoldersOf(stage')) = Cardinality(HoldersOf(stage)) - 1
  BY <1>1, HolderRemoved
<1>3. /\ value' \in Nat
      /\ future' \in [Calls -> Futures]
      /\ \A d \in Calls : future'[d] = "none" <=> future[d] = "none"
      /\ value' + Cardinality(ReservedOf(future'))
           = value + Cardinality(ReservedOf(future)) + 1
      /\ Pending(future') = {} \/ \E d \in Calls : future'[d] = "woken"
  BY ReleaseEffect DEF SlotInv
<1>4. FutureFits'
  <2>1. stage[c] # "queued"
    BY DEF SlotStages
  <2>2. ASSUME NEW d \in Calls
        PROVE  future'[d] # "none" <=> stage'[d] = "queued"
    <3>1. stage'[d] = "queued" <=> stage[d] = "queued"
      BY <1>1, <2>1
    <3> QED
      BY <3>1, <1>3 DEF SlotInv, FutureFits
  <2> QED
    BY <2>2 DEF FutureFits
<1>5. SlotsConserved'
  <2>1. value + Cardinality(HoldersOf(stage)) + Cardinality(ReservedOf(future)) = MaxConcurrency
    BY DEF SlotInv, SlotsConserved, Holders, Reserved, HoldersOf, ReservedOf
  <2>2. /\ Cardinality(HoldersOf(stage)) \in Nat
        /\ Cardinality(ReservedOf(future)) \in Nat
        /\ Cardinality(ReservedOf(future')) \in Nat
        /\ value \in Nat
    BY SubsetsAreFinite DEF HoldersOf, ReservedOf, SlotInv, TypeOK
  <2>3. value' + Cardinality(HoldersOf(stage')) + Cardinality(ReservedOf(future')) = MaxConcurrency
    BY <1>2, <1>3, <2>1, <2>2
  <2> QED
    BY <2>3 DEF SlotsConserved, Holders, Reserved, HoldersOf, ReservedOf
<1>6. NoLostWakeup'
  BY <1>3 DEF NoLostWakeup
<1> QED
  BY <1>3, <1>4, <1>5, <1>6 DEF SlotGoal

\* A step that moves a call and leaves the semaphore alone.
LEMMA QuietStep ==
  ASSUME SlotInv, NEW c \in Calls, NEW t \in Stages, t # "queued", stage[c] # "queued",
         stage[c] \in SlotStages <=> t \in SlotStages,
         Goto(c, t), UNCHANGED <<value, future>>
  PROVE  SlotGoal'
<1>1. stage \in [Calls -> Stages] /\ stage' = [stage EXCEPT ![c] = t]
  BY DEF SlotInv, TypeOK, Goto
<1>2. HoldersOf(stage') = HoldersOf(stage)
  BY <1>1, HolderKept
<1>3. SlotsConserved'
  BY <1>2 DEF SlotInv, SlotsConserved, Holders, Reserved, HoldersOf
<1>4. FutureFits'
  BY <1>1 DEF SlotInv, FutureFits
<1>5. NoLostWakeup'
  BY DEF SlotInv, NoLostWakeup
<1> QED
  BY <1>3, <1>4, <1>5 DEF SlotGoal, SlotInv, TypeOK

\* acquire() with a free slot and nobody before it takes that slot.
LEMMA EnterStep ==
  ASSUME SlotInv, NEW c \in Calls, Enter(c)
  PROVE  SlotGoal'
<1>1. /\ stage \in [Calls -> Stages] /\ stage' = [stage EXCEPT ![c] = "calling"]
      /\ stage[c] \in {"new", "backoff"}
      /\ value \in Nat /\ value # 0 /\ value' = value - 1
      /\ UNCHANGED future
      /\ \A d \in Calls : future[d] # "pending"
  BY DEF SlotInv, TypeOK, Enter, Ask, Goto, Locked
<1>2. Cardinality(HoldersOf(stage')) = Cardinality(HoldersOf(stage)) + 1
  BY <1>1, HolderAdded DEF SlotStages
<1>3. SlotsConserved'
  <2>1. value + Cardinality(HoldersOf(stage)) + Cardinality(Reserved) = MaxConcurrency
    BY DEF SlotInv, SlotsConserved, Holders, HoldersOf
  <2>2. Cardinality(HoldersOf(stage)) \in Nat /\ Cardinality(Reserved) \in Nat
    BY SubsetsAreFinite DEF HoldersOf, Reserved
  <2>3. Reserved' = Reserved
    BY <1>1 DEF Reserved
  <2>4. value' + Cardinality(HoldersOf(stage')) + Cardinality(Reserved') = MaxConcurrency
    BY <1>1, <1>2, <2>1, <2>2, <2>3
  <2> QED
    BY <2>4 DEF SlotsConserved, Holders, HoldersOf
<1>4. FutureFits'
  BY <1>1 DEF SlotInv, FutureFits
<1>5. NoLostWakeup'
  BY <1>1 DEF NoLostWakeup, Pending
<1> QED
  BY <1>1, <1>3, <1>4, <1>5 DEF SlotGoal, SlotInv, TypeOK

\* acquire() that has to wait takes no slot.
LEMMA QueueStep ==
  ASSUME SlotInv, NEW c \in Calls, Queue(c)
  PROVE  SlotGoal'
<1>1. /\ stage \in [Calls -> Stages] /\ stage' = [stage EXCEPT ![c] = "queued"]
      /\ stage[c] \in {"new", "backoff"}
      /\ future \in [Calls -> Futures] /\ future' = [future EXCEPT ![c] = "pending"]
      /\ UNCHANGED value /\ Locked
      /\ future[c] = "none"
      /\ value \in Nat
  BY DEF SlotInv, TypeOK, Queue, Goto, FutureFits
<1>2. HoldersOf(stage') = HoldersOf(stage)
  BY <1>1, HolderKept DEF SlotStages, Stages, Waiting
<1>3. Reserved' = Reserved
  BY <1>1 DEF Reserved
<1>4. SlotsConserved'
  BY <1>1, <1>2, <1>3 DEF SlotInv, SlotsConserved, Holders, HoldersOf
<1>5. FutureFits'
  BY <1>1 DEF SlotInv, FutureFits
<1>6. NoLostWakeup'
  <2> SUFFICES ASSUME value' > 0
               PROVE  \E d \in Calls : future'[d] \in {"woken", "cancelled", "revoked"}
    BY DEF NoLostWakeup
  <2>1. PICK d \in Calls : future[d] \in {"pending", "woken", "revoked"}
    BY <1>1 DEF Locked
  <2>2. \E e \in Calls : future[e] \in {"woken", "cancelled", "revoked"}
    BY <1>1, <2>1 DEF SlotInv, NoLostWakeup, Pending
  <2> QED
    BY <1>1, <2>2
<1>7. future' \in [Calls -> Futures]
  BY <1>1 DEF Futures
<1> QED
  BY <1>1, <1>4, <1>5, <1>6, <1>7 DEF SlotGoal

\* A woken waiter turns the slot reserved for it into one it holds.
LEMMA ResumeStep ==
  ASSUME SlotInv, NEW c \in Calls, Resume(c)
  PROVE  SlotGoal'
<1> DEFINE f == [future EXCEPT ![c] = "none"]
<1>1. /\ stage \in [Calls -> Stages] /\ stage' = [stage EXCEPT ![c] = "calling"]
      /\ future \in [Calls -> Futures] /\ future[c] = "woken"
      /\ stage[c] = "queued"
      /\ value \in Nat
      /\ WakeAll(value, f)
  <2>1. stage \in [Calls -> Stages] /\ future \in [Calls -> Futures] /\ value \in Nat
    BY DEF SlotInv, TypeOK
  <2>2. future[c] = "woken" /\ LeaveQueue(c, 0) /\ Ask(c)
    BY DEF Resume
  <2>3. stage[c] = "queued"
    BY <2>2 DEF SlotInv, FutureFits
  <2>4. stage' = [stage EXCEPT ![c] = "calling"]
    BY <2>2 DEF Ask, Goto
  <2>5. WakeAll(value + 0, f) /\ value + 0 = value
    BY <2>1, <2>2 DEF LeaveQueue
  <2> QED
    BY <2>1, <2>2, <2>3, <2>4, <2>5
<1>2. f \in [Calls -> Futures]
  BY <1>1 DEF Futures
<1>3. /\ value' \in Nat
      /\ future' \in [Calls -> Futures]
      /\ \A d \in Calls : future'[d] = "none" <=> f[d] = "none"
      /\ value' + Cardinality(ReservedOf(future')) = value + Cardinality(ReservedOf(f))
      /\ value' > 0 => Pending(future') = {}
  <2> HIDE DEF f
  <2> QED
    BY <1>1, <1>2, WakeAllEffect
<1>4. Cardinality(HoldersOf(stage')) = Cardinality(HoldersOf(stage)) + 1
  BY <1>1, HolderAdded DEF SlotStages
<1>5. Cardinality(ReservedOf(f)) = Cardinality(ReservedOf(future)) - 1
  <2>1. ReservedOf(f) = ReservedOf(future) \ {c} /\ c \in ReservedOf(future)
    BY <1>1 DEF ReservedOf
  <2>2. IsFiniteSet(ReservedOf(future))
    BY SubsetsAreFinite DEF ReservedOf
  <2> QED
    BY <2>1, <2>2, FS_RemoveElement
<1>6. SlotsConserved'
  <2>1. value + Cardinality(HoldersOf(stage)) + Cardinality(ReservedOf(future)) = MaxConcurrency
    BY DEF SlotInv, SlotsConserved, Holders, Reserved, HoldersOf, ReservedOf
  <2>2. /\ Cardinality(HoldersOf(stage)) \in Nat
        /\ Cardinality(ReservedOf(future)) \in Nat
        /\ Cardinality(ReservedOf(future')) \in Nat
    BY SubsetsAreFinite DEF HoldersOf, ReservedOf
  <2>3. value' + Cardinality(HoldersOf(stage')) + Cardinality(ReservedOf(future')) = MaxConcurrency
    <3> HIDE DEF f
    <3> QED
      BY <1>1, <1>3, <1>4, <1>5, <2>1, <2>2
  <2> QED
    BY <2>3 DEF SlotsConserved, Holders, Reserved, HoldersOf, ReservedOf
<1>7. FutureFits'
  BY <1>1, <1>3 DEF SlotInv, FutureFits
<1>8. NoLostWakeup'
  BY <1>3 DEF NoLostWakeup
<1> QED
  BY <1>3, <1>6, <1>7, <1>8 DEF SlotGoal

\* A cancelled waiter gives the slot reserved for it back, and wakes another.
LEMMA WithdrawStep ==
  ASSUME SlotInv, NEW c \in Calls, Withdraw(c)
  PROVE  SlotGoal'
<1> DEFINE f == [future EXCEPT ![c] = "none"]
           freed == IF future[c] = "revoked" THEN 1 ELSE 0
<1>1. /\ stage \in [Calls -> Stages] /\ stage' = [stage EXCEPT ![c] = "cancelled"]
      /\ future \in [Calls -> Futures] /\ future[c] \in {"cancelled", "revoked"}
      /\ stage[c] = "queued"
      /\ value \in Nat
      /\ WakeAll(value + freed, f)
  BY DEF SlotInv, TypeOK, Withdraw, Goto, LeaveQueue, FutureFits
<1>2. f \in [Calls -> Futures] /\ freed \in Nat
  BY <1>1 DEF Futures
<1>3. /\ value' \in Nat
      /\ future' \in [Calls -> Futures]
      /\ \A d \in Calls : future'[d] = "none" <=> f[d] = "none"
      /\ value' + Cardinality(ReservedOf(future')) = value + freed + Cardinality(ReservedOf(f))
      /\ value' > 0 => Pending(future') = {}
  <2>1. value + freed \in Nat
    BY <1>1, <1>2
  <2> HIDE DEF f, freed
  <2> QED
    BY <1>1, <1>2, <2>1, WakeAllEffect
<1>4. HoldersOf(stage') = HoldersOf(stage)
  BY <1>1, HolderKept DEF SlotStages, Stages, Ended
<1>5. freed + Cardinality(ReservedOf(f)) = Cardinality(ReservedOf(future))
  <2>1. IsFiniteSet(ReservedOf(future)) /\ Cardinality(ReservedOf(future)) \in Nat
    BY SubsetsAreFinite DEF ReservedOf
  <2>2. ReservedOf(f) = ReservedOf(future) \ {c}
    BY <1>1 DEF ReservedOf
  <2>3. c \in ReservedOf(future) <=> future[c] = "revoked"
    BY <1>1 DEF ReservedOf
  <2>4. Cardinality(ReservedOf(future) \ {c})
          = IF c \in ReservedOf(future) THEN Cardinality(ReservedOf(future)) - 1
                                        ELSE Cardinality(ReservedOf(future))
    BY <2>1, FS_RemoveElement
  <2>5. freed = IF c \in ReservedOf(future) THEN 1 ELSE 0
    BY <2>3
  <2> HIDE DEF f, freed
  <2> QED
    BY <2>1, <2>2, <2>4, <2>5
<1>6. SlotsConserved'
  <2>1. value + Cardinality(HoldersOf(stage)) + Cardinality(ReservedOf(future)) = MaxConcurrency
    BY DEF SlotInv, SlotsConserved, Holders, Reserved, HoldersOf, ReservedOf
  <2>2. /\ Cardinality(HoldersOf(stage)) \in Nat
        /\ Cardinality(ReservedOf(f)) \in Nat
        /\ Cardinality(ReservedOf(future')) \in Nat
    BY SubsetsAreFinite DEF HoldersOf, ReservedOf
  <2>3. value' + Cardinality(HoldersOf(stage')) + Cardinality(ReservedOf(future')) = MaxConcurrency
    <3> HIDE DEF f, freed
    <3> QED
      BY <1>1, <1>2, <1>3, <1>4, <1>5, <2>1, <2>2
  <2> QED
    BY <2>3 DEF SlotsConserved, Holders, Reserved, HoldersOf, ReservedOf
<1>7. FutureFits'
  BY <1>1, <1>3 DEF SlotInv, FutureFits
<1>8. NoLostWakeup'
  BY <1>3 DEF NoLostWakeup
<1> QED
  BY <1>3, <1>6, <1>7, <1>8 DEF SlotGoal

\* The cancellation of a waiter alone moves no slot.
LEMMA CancelQueuedStep ==
  ASSUME SlotInv, NEW c \in Calls, CancelQueued(c)
  PROVE  SlotGoal'
<1>1. /\ future \in [Calls -> Futures] /\ future[c] \in {"pending", "woken"}
      /\ future' = [future EXCEPT ![c] = IF @ = "pending" THEN "cancelled" ELSE "revoked"]
      /\ UNCHANGED <<stage, value>>
      /\ value \in Nat
  BY DEF SlotInv, TypeOK, CancelQueued
<1>2. future'[c] \in {"cancelled", "revoked"}
  BY <1>1
<1>3. Reserved' = Reserved
  BY <1>1 DEF Reserved
<1>4. SlotsConserved'
  BY <1>1, <1>3 DEF SlotInv, SlotsConserved, Holders
<1>5. FutureFits' /\ future' \in [Calls -> Futures]
  BY <1>1 DEF SlotInv, FutureFits, Futures
<1>6. NoLostWakeup'
  BY <1>2 DEF NoLostWakeup
<1> QED
  BY <1>1, <1>4, <1>5, <1>6 DEF SlotGoal

\* Every step conserves the slots and leaves no wakeup undone.
LEMMA SlotStep == SlotInv /\ [Next]_vars => SlotGoal'
<1> SUFFICES ASSUME SlotInv, [Next]_vars
             PROVE  SlotGoal'
  OBVIOUS
<1> USE DEF Stages, SlotStages, Waiting, Ended
<1>1. ASSUME NEW c \in Calls, Refuse(c) PROVE SlotGoal'
  BY <1>1, QuietStep DEF Refuse
<1>2. ASSUME NEW c \in Calls, Scheduler(c) PROVE SlotGoal'
  <2>1. CASE Store(c)
    BY <2>1, QuietStep DEF Store
  <2>2. CASE Closed(c)
    BY <2>2, ReleaseStep DEF Closed
  <2> QED
    BY <1>2, <2>1, <2>2, EnterStep, QueueStep, ResumeStep, WithdrawStep DEF Scheduler
<1>3. ASSUME NEW c \in Calls, Provider(c) PROVE SlotGoal'
  <2>1. CASE Reply(c)
    BY <2>1, ReleaseStep DEF Reply, EndWith
  <2>2. CASE Retry(c)
    BY <2>2, ReleaseStep DEF Retry
  <2>3. CASE Fail(c)
    BY <2>3, ReleaseStep DEF Fail, EndWith
  <2>4. CASE Chunk(c)
    BY <2>4, QuietStep DEF Chunk
  <2>5. CASE End(c)
    BY <2>5, ReleaseStep DEF End, EndWith
  <2>6. CASE Break(c)
    BY <2>6, ReleaseStep DEF Break, EndWith
  <2>7. CASE Raise(c)
    BY <2>7, ReleaseStep DEF Raise, EndWith
  <2> QED
    BY <1>3, <2>1, <2>2, <2>3, <2>4, <2>5, <2>6, <2>7 DEF Provider
<1>4. ASSUME NEW c \in Calls, Client(c) PROVE SlotGoal'
  BY <1>4, QuietStep DEF Client, Pull, Leave
<1>5. ASSUME NEW c \in Calls, Cancel(c) PROVE SlotGoal'
  <2>1. CASE CancelUnslotted(c)
    BY <2>1, QuietStep DEF CancelUnslotted
  <2>2. CASE CancelSlotted(c)
    BY <2>2, ReleaseStep DEF CancelSlotted, EndWith
  <2> QED
    BY <1>5, <2>1, <2>2, CancelQueuedStep DEF Cancel
<1>6. CASE UNCHANGED vars
  BY <1>6 DEF vars, SlotInv, SlotGoal, TypeOK, FutureFits, SlotsConserved, NoLostWakeup,
              Holders, Reserved, Pending
<1> QED
  BY <1>1, <1>2, <1>3, <1>4, <1>5, <1>6 DEF Next

\* Slots that add up leave the free ones between 0 and llm_max_concurrency.
LEMMA HeadRoom ==
  ASSUME SlotGoal
  PROVE  value \in 0 .. MaxConcurrency
<1>1. Cardinality(Holders) \in Nat /\ Cardinality(Reserved) \in Nat
  BY SubsetsAreFinite DEF Holders, Reserved
<1> QED
  BY <1>1 DEF SlotGoal, SlotsConserved

\* The other variables.
OtherTypes ==
    /\ stage \in [Calls -> Stages]
    /\ attempt \in [Calls -> 0 .. Attempts]
    /\ waiters \in Seq(Calls)
    /\ pieces \in [Calls -> 0 .. MaxPieces]
    /\ origin \in [Calls -> SUBSET (1 .. Attempts)]
    /\ records \in [Calls -> Nat]

\* A call that asks the provider has attempts left, one that waits for the
\* provider has made an attempt.
AttemptsLeft ==
    \A c \in Calls :
        /\ stage[c] \in {"new", "queued", "backoff"} => attempt[c] < Attempts
        /\ stage[c] \in SlotStages => attempt[c] > 0

\* A queue without one of its waiters is a queue.
LEMMA RemovalType ==
  ASSUME NEW s \in Seq(Calls), NEW i \in DOMAIN s
  PROVE  RemoveAt(s, i) \in Seq(Calls)
  BY DEF RemoveAt

\* No step leaves the types, or uses more attempts than there are.
LEMMA TypeStep == SlotInv /\ AttemptsLeft /\ [Next]_vars => OtherTypes' /\ AttemptsLeft'
<1> SUFFICES ASSUME SlotInv, AttemptsLeft, [Next]_vars
             PROVE  OtherTypes' /\ AttemptsLeft'
  OBVIOUS
<1>0. OtherTypes
  BY DEF SlotInv, TypeOK, OtherTypes
<1> USE DEF Stages, SlotStages, Waiting, Ended, Goto
<1>1. ASSUME NEW c \in Calls, Refuse(c) PROVE OtherTypes' /\ AttemptsLeft'
  BY <1>0, <1>1 DEF Refuse, OtherTypes, AttemptsLeft
<1>2. ASSUME NEW c \in Calls, Scheduler(c) PROVE OtherTypes' /\ AttemptsLeft'
  <2>1. CASE Enter(c)
    <3>1. attempt[c] \in 0 .. Attempts /\ attempt[c] < Attempts
      BY <1>0, <2>1 DEF Enter, OtherTypes, AttemptsLeft
    <3>2. attempt[c] + 1 \in 0 .. Attempts /\ attempt[c] + 1 > 0
      BY <3>1, LimitsAssumption
    <3>3. /\ stage' = [stage EXCEPT ![c] = "calling"]
          /\ attempt' = [attempt EXCEPT ![c] = attempt[c] + 1]
          /\ UNCHANGED <<waiters, pieces, origin, records>>
      BY <2>1 DEF Enter, Ask
    <3> QED
      BY <1>0, <3>2, <3>3 DEF OtherTypes, AttemptsLeft
  <2>2. CASE Queue(c)
    <3>1. /\ stage' = [stage EXCEPT ![c] = "queued"]
          /\ stage[c] \in {"new", "backoff"}
          /\ waiters' = Append(waiters, c)
          /\ UNCHANGED <<attempt, pieces, origin, records>>
      BY <2>2 DEF Queue
    <3>2. waiters' \in Seq(Calls)
      BY <1>0, <3>1 DEF OtherTypes
    <3> QED
      BY <1>0, <3>1, <3>2 DEF OtherTypes, AttemptsLeft
  <2>3. CASE Resume(c)
    <3>1. stage[c] = "queued" /\ waiters' \in Seq(Calls)
      BY <1>0, <2>3, RemovalType DEF Resume, LeaveQueue, SlotInv, FutureFits, OtherTypes
    <3> QED
      BY <1>0, <2>3, <3>1 DEF Resume, Ask, OtherTypes, AttemptsLeft
  <2>4. CASE Withdraw(c)
    <3>1. waiters' \in Seq(Calls)
      BY <1>0, <2>4, RemovalType DEF Withdraw, LeaveQueue, OtherTypes
    <3> QED
      BY <1>0, <2>4, <3>1 DEF Withdraw, OtherTypes, AttemptsLeft
  <2>5. CASE Store(c)
    BY <1>0, <2>5 DEF Store, OtherTypes, AttemptsLeft
  <2>6. CASE Closed(c)
    BY <1>0, <2>6 DEF Closed, OtherTypes, AttemptsLeft
  <2> QED
    BY <1>2, <2>1, <2>2, <2>3, <2>4, <2>5, <2>6 DEF Scheduler
<1>3. ASSUME NEW c \in Calls, Provider(c) PROVE OtherTypes' /\ AttemptsLeft'
  <2>1. ASSUME NEW t \in {"ok", "failed", "raised"}, EndWith(c, t)
        PROVE  OtherTypes' /\ AttemptsLeft'
    BY <1>0, <2>1 DEF EndWith, OtherTypes, AttemptsLeft
  <2>2. CASE Retry(c)
    BY <1>0, <2>2 DEF Retry, OtherTypes, AttemptsLeft
  <2>3. CASE Chunk(c)
    <3>1. attempt[c] \in 1 .. Attempts
      BY <1>0, <2>3 DEF Chunk, OtherTypes, AttemptsLeft
    <3>2. pieces' \in [Calls -> 0 .. MaxPieces]
      BY <1>0, <2>3 DEF Chunk, OtherTypes
    <3>3. origin' \in [Calls -> SUBSET (1 .. Attempts)]
      <4>1. origin \in [Calls -> SUBSET (1 .. Attempts)]
        BY <1>0 DEF OtherTypes
      <4>2. origin[c] \cup {attempt[c]} \in SUBSET (1 .. Attempts)
        BY <3>1, <4>1
      <4>3. origin' = origin \/ origin' = [origin EXCEPT ![c] = origin[c] \cup {attempt[c]}]
        BY <2>3 DEF Chunk
      <4> QED
        BY <4>1, <4>2, <4>3
    <3>4. PICK t \in {"yielded", "reading"} : stage' = [stage EXCEPT ![c] = t]
      BY <2>3 DEF Chunk
    <3>5. stage' \in [Calls -> Stages]
      BY <1>0, <3>4 DEF OtherTypes
    <3>6. AttemptsLeft'
      BY <1>0, <2>3, <3>1, <3>4 DEF Chunk, OtherTypes, AttemptsLeft
    <3> QED
      BY <1>0, <2>3, <3>2, <3>3, <3>5, <3>6 DEF Chunk, OtherTypes
  <2>4. CASE End(c)
    BY <1>0, <2>1, <2>4 DEF End, OtherTypes, AttemptsLeft
  <2> QED
    BY <1>3, <2>1, <2>2, <2>3, <2>4 DEF Provider, Reply, Fail, Break, Raise
<1>4. ASSUME NEW c \in Calls, Client(c) PROVE OtherTypes' /\ AttemptsLeft'
  <2>1. CASE Pull(c)
    BY <1>0, <2>1 DEF Pull, OtherTypes, AttemptsLeft
  <2>2. CASE Leave(c)
    BY <1>0, <2>2 DEF Leave, OtherTypes, AttemptsLeft
  <2> QED
    BY <1>4, <2>1, <2>2 DEF Client
<1>5. ASSUME NEW c \in Calls, Cancel(c) PROVE OtherTypes' /\ AttemptsLeft'
  <2>1. CASE CancelQueued(c)
    BY <1>0, <2>1 DEF CancelQueued, OtherTypes, AttemptsLeft
  <2>2. CASE CancelUnslotted(c)
    BY <1>0, <2>2 DEF CancelUnslotted, OtherTypes, AttemptsLeft
  <2>3. CASE CancelSlotted(c)
    BY <1>0, <2>3 DEF CancelSlotted, EndWith, OtherTypes, AttemptsLeft
  <2> QED
    BY <1>5, <2>1, <2>2, <2>3 DEF Cancel
<1>6. CASE UNCHANGED vars
  BY <1>0, <1>6 DEF vars, OtherTypes, AttemptsLeft
<1> QED
  BY <1>1, <1>2, <1>3, <1>4, <1>5, <1>6 DEF Next

IInv == SlotInv /\ AttemptsLeft

\* The inductive invariant holds in every reachable state, for any number of
\* calls, slots and retries.
THEOREM Invariance == Spec => []IInv
<1>1. Init => IInv
  BY SlotInit DEF IInv, Init, AttemptsLeft, SlotStages
<1>2. IInv /\ [Next]_vars => IInv'
  <2> SUFFICES ASSUME IInv, [Next]_vars PROVE IInv'
    OBVIOUS
  <2>1. SlotGoal' /\ OtherTypes' /\ AttemptsLeft'
    BY SlotStep, TypeStep DEF IInv
  <2>2. (value \in 0 .. MaxConcurrency)'
    BY <2>1, HeadRoom, PTL
  <2> QED
    BY <2>1, <2>2 DEF IInv, SlotInv, SlotGoal, OtherTypes, TypeOK
<1> QED
  BY <1>1, <1>2, PTL DEF Spec

\* The types of ModelCalls.
THEOREM TypeCorrect == Spec => []TypeOK
  BY Invariance, PTL DEF IInv, SlotInv

\* No slot of the semaphore is lost or given twice, however many calls queue,
\* retry, stream, fail and are cancelled (chat.py:285-307, 526-536).
THEOREM NoSlotIsLost == Spec => []SlotsConserved
  BY Invariance, PTL DEF IInv, SlotInv

\* A free slot never waits for a queue that nobody is going to wake.
THEOREM WakeupsArrive == Spec => []NoLostWakeup
  BY Invariance, PTL DEF IInv, SlotInv

----------------------------------------------------------------------------
(* Text and records                                                        *)

\* Text has been handed out only by calls past their last retry.
TextInv ==
    \A c \in Calls :
        origin[c] # {} => /\ origin[c] = {attempt[c]}
                          /\ stage[c] \notin {"new", "queued", "backoff", "calling"}

\* The calls that have been recorded, once each.
RecordInv ==
    \A c \in Calls :
        records[c] = IF stage[c] \in {"ok", "failed", "interrupted", "closing"} THEN 1 ELSE 0

\* Every step keeps the text of a stream that of its last attempt.
LEMMA TextStep == IInv /\ TextInv /\ [Next]_vars => TextInv'
<1> SUFFICES ASSUME IInv, TextInv, [Next]_vars PROVE TextInv'
  OBVIOUS
<1>0. OtherTypes
  BY DEF IInv, SlotInv, TypeOK, OtherTypes
<1> USE DEF Goto, OtherTypes
<1>1. ASSUME NEW c \in Calls, Refuse(c) PROVE TextInv'
  BY <1>0, <1>1 DEF Refuse, TextInv
<1>2. ASSUME NEW c \in Calls, Scheduler(c) PROVE TextInv'
  <2>1. CASE Resume(c)
    <3>1. stage[c] = "queued"
      BY <2>1 DEF Resume, IInv, SlotInv, FutureFits
    <3> QED
      BY <1>0, <2>1, <3>1 DEF Resume, Ask, TextInv
  <2> QED
    BY <1>0, <1>2, <2>1 DEF Scheduler, Enter, Queue, Withdraw, Store, Closed, Ask, TextInv
<1>3. ASSUME NEW c \in Calls, Provider(c) PROVE TextInv'
  <2>1. CASE Chunk(c)
    <3>1. /\ attempt' = attempt
          /\ stage'[c] \in {"yielded", "reading"}
          /\ \A d \in Calls : d # c => stage'[d] = stage[d] /\ origin'[d] = origin[d]
          /\ origin'[c] \in {origin[c], origin[c] \cup {attempt[c]}}
      BY <1>0, <2>1 DEF Chunk
    <3>2. origin[c] = {} \/ origin[c] = {attempt[c]}
      BY DEF TextInv
    <3>3. origin'[c] = {} \/ origin'[c] = {attempt'[c]}
      BY <3>1, <3>2
    <3> QED
      BY <3>1, <3>3 DEF TextInv
  <2> QED
    BY <1>0, <1>3, <2>1 DEF Provider, Reply, Retry, Fail, End, Break, Raise, EndWith, TextInv
<1>4. ASSUME NEW c \in Calls, Client(c) PROVE TextInv'
  BY <1>0, <1>4 DEF Client, Pull, Leave, TextInv
<1>5. ASSUME NEW c \in Calls, Cancel(c) PROVE TextInv'
  BY <1>0, <1>5 DEF Cancel, CancelQueued, CancelUnslotted, CancelSlotted, EndWith, TextInv
<1>6. CASE UNCHANGED vars
  BY <1>6 DEF vars, TextInv
<1> QED
  BY <1>1, <1>2, <1>3, <1>4, <1>5, <1>6 DEF Next

\* Retries never repeat text that a client already has (chat.py:281-282).
THEOREM TextComesOnce == Spec => []NoTextTwice
<1>1. Init => TextInv
  BY DEF Init, TextInv
<1>2. TextInv => NoTextTwice
  BY DEF TextInv, NoTextTwice
<1> QED
  BY <1>1, <1>2, TextStep, Invariance, PTL DEF Spec

\* Every step keeps the records of a call at one, and at one when it has ended.
LEMMA RecordStep == IInv /\ RecordInv /\ [Next]_vars => RecordInv'
<1> SUFFICES ASSUME IInv, RecordInv, [Next]_vars PROVE RecordInv'
  OBVIOUS
<1>0. OtherTypes
  BY DEF IInv, SlotInv, TypeOK, OtherTypes
<1> USE DEF Goto, OtherTypes
<1>1. ASSUME NEW c \in Calls, Refuse(c) PROVE RecordInv'
  BY <1>0, <1>1 DEF Refuse, RecordInv
<1>2. ASSUME NEW c \in Calls, Scheduler(c) PROVE RecordInv'
  <2>1. ASSUME Resume(c) \/ Withdraw(c) PROVE RecordInv'
    <3>1. stage[c] = "queued"
      BY <2>1 DEF Resume, Withdraw, IInv, SlotInv, FutureFits
    <3> QED
      BY <1>0, <2>1, <3>1 DEF Resume, Withdraw, Ask, RecordInv
  <2> QED
    BY <1>0, <1>2, <2>1 DEF Scheduler, Enter, Queue, Store, Closed, Ask, RecordInv
<1>3. ASSUME NEW c \in Calls, Provider(c) PROVE RecordInv'
  <2>1. ASSUME NEW t \in {"ok", "failed", "raised"}, stage[c] \in {"calling", "reading"},
               EndWith(c, t)
        PROVE  RecordInv'
    BY <1>0, <2>1 DEF EndWith, RecordInv
  <2>2. CASE Retry(c) \/ Chunk(c)
    BY <1>0, <2>2 DEF Retry, Chunk, RecordInv
  <2>3. CASE End(c)
    BY <1>0, <2>1, <2>3 DEF End, RecordInv
  <2> QED
    BY <1>3, <2>1, <2>2, <2>3 DEF Provider, Reply, Fail, Break, Raise
<1>4. ASSUME NEW c \in Calls, Client(c) PROVE RecordInv'
  BY <1>0, <1>4 DEF Client, Pull, Leave, RecordInv
<1>5. ASSUME NEW c \in Calls, Cancel(c) PROVE RecordInv'
  BY <1>0, <1>5 DEF Cancel, CancelQueued, CancelUnslotted, CancelSlotted, EndWith, RecordInv
<1>6. CASE UNCHANGED vars
  BY <1>6 DEF vars, RecordInv
<1> QED
  BY <1>1, <1>2, <1>3, <1>4, <1>5, <1>6 DEF Next

\* A call is recorded when it ends, and once (calls.py:12-60).
THEOREM RecordsAreSingle == Spec => []RecordedAtMostOnce
<1>1. Init => RecordInv
  BY DEF Init, RecordInv
<1>2. RecordInv => RecordedAtMostOnce
  BY DEF RecordInv, RecordedAtMostOnce
<1> QED
  BY <1>1, <1>2, RecordStep, Invariance, PTL DEF Spec

----------------------------------------------------------------------------
(* The queue of the semaphore                                              *)

\* The queue holds the calls that wait for a slot, each once.
QueueFits ==
    /\ \A c \in Calls : stage[c] = "queued" <=> \E i \in DOMAIN waiters : waiters[i] = c
    /\ \A i, j \in DOMAIN waiters : waiters[i] = waiters[j] => i = j

\* Nobody in the queue w has been given a slot before somebody ahead.
Ordered(w, f) ==
    \A i, j \in DOMAIN w :
        i < j /\ f[w[i]] = "pending" => f[w[j]] \notin {"woken", "revoked"}

\* Slots are given in the order in which they were asked for: while a call waits,
\* none that came later has one reserved.
FirstComeFirstServed == Ordered(waiters, future)

QueueInv == QueueFits /\ FirstComeFirstServed

\* What RemoveAt leaves of a sequence, place by place.
LEMMA RemovalPlaces ==
  ASSUME NEW s \in Seq(Calls), NEW i \in DOMAIN s
  PROVE  /\ DOMAIN RemoveAt(s, i) = 1 .. (Len(s) - 1)
         /\ \A j \in 1 .. (Len(s) - 1) :
              RemoveAt(s, i)[j] = IF j < i THEN s[j] ELSE s[j + 1]
<1> DEFINE head == SubSeq(s, 1, i - 1)
           tail == SubSeq(s, i + 1, Len(s))
<1>1. i \in 1 .. Len(s) /\ Len(s) \in Nat
  OBVIOUS
<1>2. /\ head \in Seq(Calls) /\ Len(head) = i - 1
      /\ \A j \in 1 .. (i - 1) : head[j] = s[j]
  BY <1>1
<1>3. /\ tail \in Seq(Calls) /\ Len(tail) = Len(s) - i
      /\ \A j \in 1 .. (Len(s) - i) : tail[j] = s[i + j]
  BY <1>1
<1> HIDE DEF head, tail
<1>4. /\ head \o tail \in Seq(Calls) /\ Len(head \o tail) = Len(s) - 1
      /\ \A j \in 1 .. (Len(s) - 1) :
           (head \o tail)[j] = IF j <= i - 1 THEN head[j] ELSE tail[j - (i - 1)]
  <2>1. Len(head) + Len(tail) = Len(s) - 1
    BY <1>1, <1>2, <1>3
  <2>2. /\ head \o tail \in Seq(Calls) /\ Len(head \o tail) = Len(head) + Len(tail)
        /\ \A j \in 1 .. Len(head) + Len(tail) :
             (head \o tail)[j] = IF j <= Len(head) THEN head[j] ELSE tail[j - Len(head)]
    BY <1>2, <1>3, ConcatProperties
  <2> QED
    BY <1>2, <2>1, <2>2
<1>5. ASSUME NEW j \in 1 .. (Len(s) - 1)
      PROVE  (head \o tail)[j] = IF j < i THEN s[j] ELSE s[j + 1]
  <2>1. CASE j < i
    <3>1. j \in 1 .. (i - 1) /\ j <= i - 1
      BY <1>1, <2>1
    <3>2. (head \o tail)[j] = IF j <= i - 1 THEN head[j] ELSE tail[j - (i - 1)]
      BY <1>4
    <3>3. (head \o tail)[j] = s[j]
      BY <1>2, <3>1, <3>2
    <3> QED
      BY <2>1, <3>3
  <2>2. CASE j >= i
    <3>1. j - (i - 1) \in 1 .. (Len(s) - i) /\ i + (j - (i - 1)) = j + 1
      BY <1>1, <2>2
    <3>2. tail[j - (i - 1)] = s[j + 1]
      BY <1>3, <3>1
    <3>3. (head \o tail)[j] = IF j <= i - 1 THEN head[j] ELSE tail[j - (i - 1)]
      BY <1>4
    <3>4. ~(j < i) /\ ~(j <= i - 1)
      BY <1>1, <2>2
    <3>5. (head \o tail)[j] = tail[j - (i - 1)]
      BY <3>3, <3>4
    <3> QED
      BY <3>2, <3>4, <3>5
  <2>3. j < i \/ j >= i
    BY <1>1
  <2> QED
    BY <2>1, <2>2, <2>3
<1>6. RemoveAt(s, i) = head \o tail
  BY DEF RemoveAt, head, tail
<1>7. DOMAIN (head \o tail) = 1 .. (Len(s) - 1)
  BY <1>4
<1> QED
  BY <1>5, <1>6, <1>7

\* Waking those who came first keeps the order.
LEMMA WakeInOrder ==
  ASSUME NEW f, NEW g, NEW woken, QueueFits, waiters \in Seq(Calls),
         Ordered(waiters, f),
         \A c \in woken : \A d \in Pending(f) \ woken : Before(c, d),
         \A c \in Calls : g[c] = IF c \in woken THEN "woken" ELSE f[c]
  PROVE  Ordered(waiters, g)
<1> SUFFICES ASSUME NEW i \in DOMAIN waiters, NEW j \in DOMAIN waiters, i < j,
                    g[waiters[i]] = "pending", g[waiters[j]] \in {"woken", "revoked"}
             PROVE  FALSE
  BY DEF Ordered
<1>1. waiters[i] \in Calls /\ waiters[j] \in Calls
  OBVIOUS
<1>2. waiters[i] \in Pending(f) \ woken
  BY <1>1 DEF Pending
<1>3. waiters[j] \in woken
  BY <1>1, <1>2 DEF Ordered, Pending
<1>4. PICK a, b \in DOMAIN waiters :
        a < b /\ waiters[a] = waiters[j] /\ waiters[b] = waiters[i]
  BY <1>2, <1>3 DEF Before
<1>5. a = j /\ b = i
  BY <1>4 DEF QueueFits
<1> QED
  BY <1>4, <1>5

\* release() wakes the first who waits.
LEMMA ReleaseInOrder ==
  ASSUME IInv, QueueInv, Release
  PROVE  Ordered(waiters, future')
<1>1. /\ waiters \in Seq(Calls) /\ future \in [Calls -> Futures]
      /\ QueueFits /\ Ordered(waiters, future)
  BY DEF IInv, SlotInv, TypeOK, QueueInv, FirstComeFirstServed
<1>2. CASE UNCHANGED future
  BY <1>1, <1>2
<1>3. ASSUME NEW c \in Pending(future),
             \A d \in Pending(future) \ {c} : Before(c, d),
             future' = [future EXCEPT ![c] = "woken"]
      PROVE  Ordered(waiters, future')
  <2>1. \A d \in Calls : future'[d] = IF d \in {c} THEN "woken" ELSE future[d]
    BY <1>1, <1>3
  <2>2. \A b \in {c} : \A d \in Pending(future) \ {c} : Before(b, d)
    BY <1>3
  <2> QED
    BY <1>1, <2>1, <2>2, WakeInOrder
<1> QED
  BY <1>2, <1>3 DEF Release

\* A step that leaves the queue as it is, and wakes in order if it wakes.
LEMMA QueueStays ==
  ASSUME IInv, QueueInv, UNCHANGED waiters, Ordered(waiters, future'),
         NEW c \in Calls, NEW t \in Stages, Goto(c, t), (stage[c] = "queued") <=> (t = "queued")
  PROVE  QueueInv'
<1>1. stage \in [Calls -> Stages]
  BY DEF IInv, SlotInv, TypeOK
<1>2. \A d \in Calls : stage'[d] = "queued" <=> stage[d] = "queued"
  BY <1>1 DEF Goto
<1> QED
  BY <1>2 DEF QueueInv, QueueFits, FirstComeFirstServed, Ordered

\* A call that leaves acquire() leaves the others in their order.
LEMMA QueueLeft ==
  ASSUME IInv, QueueInv, NEW c \in Calls, NEW freed, LeaveQueue(c, freed),
         NEW t \in Stages \ {"queued"}, Goto(c, t)
  PROVE  QueueInv'
<1> DEFINE f == [future EXCEPT ![c] = "none"]
<1>1. /\ waiters \in Seq(Calls) /\ future \in [Calls -> Futures]
      /\ stage \in [Calls -> Stages]
      /\ QueueFits /\ Ordered(waiters, future)
  BY DEF IInv, SlotInv, TypeOK, QueueInv, FirstComeFirstServed
<1>2. PICK i \in DOMAIN waiters : waiters[i] = c /\ waiters' = RemoveAt(waiters, i)
  BY DEF LeaveQueue
<1>3. PICK woken \in SUBSET Pending(f) :
        /\ \A b \in woken : \A d \in Pending(f) \ woken : Before(b, d)
        /\ future' = [b \in Calls |-> IF b \in woken THEN "woken" ELSE f[b]]
  BY DEF LeaveQueue, WakeAll
<1>4. Ordered(waiters, f)
  BY <1>1 DEF Ordered
<1>5. \A b \in Calls : future'[b] = IF b \in woken THEN "woken" ELSE f[b]
  BY <1>3
<1> HIDE DEF f
<1>6. Ordered(waiters, future')
  BY <1>1, <1>3, <1>4, <1>5, WakeInOrder
<1>7. /\ DOMAIN waiters' = 1 .. (Len(waiters) - 1)
      /\ \A j \in 1 .. (Len(waiters) - 1) :
           waiters'[j] = IF j < i THEN waiters[j] ELSE waiters[j + 1]
  BY <1>1, <1>2, RemovalPlaces
<1> DEFINE old(j) == IF j < i THEN j ELSE j + 1
<1>8. /\ i \in Int /\ Len(waiters) \in Int /\ DOMAIN waiters = 1 .. Len(waiters)
      /\ 1 <= i /\ i <= Len(waiters)
  BY <1>1
<1>9. \A j \in DOMAIN waiters' :
        old(j) \in DOMAIN waiters /\ old(j) # i /\ waiters'[j] = waiters[old(j)]
  BY <1>7, <1>8
<1>10. \A j, k \in DOMAIN waiters' : (j < k => old(j) < old(k)) /\ (old(j) = old(k) => j = k)
  BY <1>7, <1>8
<1>11. \A k \in DOMAIN waiters : k # i => \E j \in DOMAIN waiters' : old(j) = k
  <2> SUFFICES ASSUME NEW k \in DOMAIN waiters, k # i
               PROVE  \E j \in DOMAIN waiters' : old(j) = k
    OBVIOUS
  <2>1. CASE k < i
    <3>1. k \in DOMAIN waiters' /\ old(k) = k
      BY <1>7, <1>8, <2>1
    <3> QED
      BY <3>1
  <2>2. CASE k > i
    <3>1. k - 1 \in DOMAIN waiters' /\ old(k - 1) = k
      BY <1>7, <1>8, <2>2
    <3> QED
      BY <3>1
  <2> QED
    BY <1>8, <2>1, <2>2
<1> HIDE DEF old
<1>12. FirstComeFirstServed'
  BY <1>6, <1>9, <1>10 DEF FirstComeFirstServed, Ordered
<1>13. \A j, k \in DOMAIN waiters' : waiters'[j] = waiters'[k] => j = k
  BY <1>1, <1>9, <1>10 DEF QueueFits
<1>14. ASSUME NEW d \in Calls
       PROVE  stage'[d] = "queued" <=> \E j \in DOMAIN waiters' : waiters'[j] = d
  <2>1. CASE d = c
    <3>1. stage'[d] # "queued"
      BY <1>1, <2>1 DEF Goto
    <3>2. \A j \in DOMAIN waiters' : waiters'[j] # c
      BY <1>1, <1>2, <1>9 DEF QueueFits
    <3> QED
      BY <2>1, <3>1, <3>2
  <2>2. CASE d # c
    <3>1. stage'[d] = stage[d]
      BY <1>1, <2>2 DEF Goto
    <3>2. (\E k \in DOMAIN waiters : waiters[k] = d)
            <=> \E j \in DOMAIN waiters' : waiters'[j] = d
      BY <1>2, <1>9, <1>11, <2>2
    <3> QED
      BY <1>1, <3>1, <3>2 DEF QueueFits
  <2> QED
    BY <2>1, <2>2
<1> QED
  BY <1>12, <1>13, <1>14 DEF QueueInv, QueueFits

\* A newcomer is the last.
LEMMA QueueJoined ==
  ASSUME IInv, QueueInv, NEW c \in Calls, Queue(c)
  PROVE  QueueInv'
<1>1. /\ waiters \in Seq(Calls) /\ future \in [Calls -> Futures]
      /\ stage \in [Calls -> Stages]
      /\ QueueFits /\ Ordered(waiters, future)
  BY DEF IInv, SlotInv, TypeOK, QueueInv, FirstComeFirstServed
<1>2. /\ stage[c] \in {"new", "backoff"}
      /\ waiters' = Append(waiters, c)
      /\ future' = [future EXCEPT ![c] = "pending"]
      /\ stage' = [stage EXCEPT ![c] = "queued"]
  BY DEF Queue, Goto
<1>3. \A i \in DOMAIN waiters : waiters[i] # c
  BY <1>1, <1>2 DEF QueueFits
<1> DEFINE n == Len(waiters) + 1
<1>4. /\ DOMAIN waiters = 1 .. (n - 1) /\ DOMAIN waiters' = 1 .. n /\ n \in Nat
      /\ waiters'[n] = c /\ \A i \in 1 .. (n - 1) : waiters'[i] = waiters[i]
  BY <1>1, <1>2
<1>5. \A i \in DOMAIN waiters' : i = n \/ i \in DOMAIN waiters
  BY <1>4
<1>6. n \in DOMAIN waiters' /\ \A i \in DOMAIN waiters : i \in DOMAIN waiters' /\ i < n
  BY <1>4
<1>7. \A i \in DOMAIN waiters : waiters[i] \in Calls /\ future'[waiters[i]] = future[waiters[i]]
  BY <1>1, <1>2, <1>3
<1> HIDE DEF n
<1>8. \A i, j \in DOMAIN waiters' : waiters'[i] = waiters'[j] => i = j
  BY <1>1, <1>3, <1>4, <1>5 DEF QueueFits
<1>9. \A d \in Calls : stage'[d] = "queued" <=> \E i \in DOMAIN waiters' : waiters'[i] = d
  BY <1>1, <1>2, <1>3, <1>4, <1>5, <1>6 DEF QueueFits
<1>10. FirstComeFirstServed'
  <2> SUFFICES ASSUME NEW i \in DOMAIN waiters', NEW j \in DOMAIN waiters', i < j,
                      future'[waiters'[i]] = "pending"
               PROVE  future'[waiters'[j]] \notin {"woken", "revoked"}
    BY DEF FirstComeFirstServed, Ordered
  <2>1. CASE j = n
    BY <1>1, <1>2, <1>4, <2>1
  <2>2. CASE j \in DOMAIN waiters
    <3>1. i \in DOMAIN waiters
      BY <1>4, <1>5, <2>2
    <3> QED
      BY <1>1, <1>4, <1>7, <2>2, <3>1 DEF Ordered
  <2> QED
    BY <1>5, <2>1, <2>2
<1> QED
  BY <1>8, <1>9, <1>10 DEF QueueInv, QueueFits

\* The cancellation of a waiter gives nobody a slot.
LEMMA QueueCancelled ==
  ASSUME IInv, QueueInv, NEW c \in Calls, CancelQueued(c)
  PROVE  QueueInv'
<1>1. /\ waiters \in Seq(Calls) /\ future \in [Calls -> Futures]
      /\ UNCHANGED <<stage, waiters>>
      /\ future' = [future EXCEPT ![c] = IF @ = "pending" THEN "cancelled" ELSE "revoked"]
      /\ future[c] \in {"pending", "woken"}
  BY DEF IInv, SlotInv, TypeOK, CancelQueued
<1>2. \A d \in Calls : /\ future'[d] = "pending" => future[d] = "pending"
                       /\ future'[d] \in {"woken", "revoked"} => future[d] \in {"woken", "revoked"}
  BY <1>1
<1>3. \A i \in DOMAIN waiters : waiters[i] \in Calls
  BY <1>1
<1> QED
  BY <1>1, <1>2, <1>3 DEF QueueInv, QueueFits, FirstComeFirstServed, Ordered

\* Every step keeps the queue and its order.
LEMMA QueueInvStep == IInv /\ QueueInv /\ [Next]_vars => QueueInv'
<1> SUFFICES ASSUME IInv, QueueInv, [Next]_vars PROVE QueueInv'
  OBVIOUS
<1> USE DEF Stages, SlotStages, Waiting, Ended
<1>0. Ordered(waiters, future) /\ FutureFits
  BY DEF QueueInv, FirstComeFirstServed, IInv, SlotInv
<1>1. ASSUME NEW c \in Calls, NEW t \in Stages \ {"queued"}, stage[c] # "queued",
             Goto(c, t), UNCHANGED waiters, Release \/ UNCHANGED future
      PROVE  QueueInv'
  BY <1>0, <1>1, ReleaseInOrder, QueueStays
<1>2. ASSUME NEW c \in Calls, Refuse(c) \/ Client(c) PROVE QueueInv'
  BY <1>1, <1>2 DEF Refuse, Client, Pull, Leave
<1>3. ASSUME NEW c \in Calls, Scheduler(c) PROVE QueueInv'
  <2>1. CASE Enter(c)
    BY <1>1, <2>1 DEF Enter, Ask
  <2>2. CASE Resume(c)
    BY <2>2, QueueLeft DEF Resume, Ask
  <2>3. CASE Withdraw(c)
    BY <2>3, QueueLeft DEF Withdraw
  <2>4. CASE Store(c) \/ Closed(c)
    BY <1>1, <2>4 DEF Store, Closed
  <2> QED
    BY <1>3, <2>1, <2>2, <2>3, <2>4, QueueJoined DEF Scheduler
<1>4. ASSUME NEW c \in Calls, Provider(c) PROVE QueueInv'
  BY <1>1, <1>4 DEF Provider, Reply, Retry, Fail, Chunk, End, Break, Raise, EndWith
<1>5. ASSUME NEW c \in Calls, Cancel(c) PROVE QueueInv'
  BY <1>1, <1>5, QueueCancelled DEF Cancel, CancelUnslotted, CancelSlotted, EndWith
<1>6. CASE UNCHANGED vars
  BY <1>6 DEF vars, QueueInv, QueueFits, FirstComeFirstServed, Ordered
<1> QED
  BY <1>2, <1>3, <1>4, <1>5, <1>6 DEF Next

\* No call is overtaken in the queue for a slot, whatever is cancelled, retried or
\* released meanwhile (chat.py:285, 526: async with self._semaphore).
THEOREM OrderIsKept == Spec => []FirstComeFirstServed
<1>1. Init => QueueInv
  BY DEF Init, QueueInv, QueueFits, FirstComeFirstServed, Ordered
<1>2. QueueInv => FirstComeFirstServed
  BY DEF QueueInv
<1> QED
  BY <1>1, <1>2, QueueInvStep, Invariance, PTL DEF Spec

\* While somebody waits for a slot, somebody else works, or is about to run.
SomebodyGoesOn ==
    Pending(future) # {} =>
        \/ Holders # {}
        \/ \E c \in Calls : future[c] \in {"woken", "cancelled", "revoked"}

\* Calls never wait for each other only.
THEOREM NobodyWaitsInVain == Spec => []SomebodyGoesOn
<1>1. IInv => SomebodyGoesOn
  <2> SUFFICES ASSUME IInv, Pending(future) # {}, Holders = {},
                      \A c \in Calls : future[c] \notin {"woken", "cancelled", "revoked"}
               PROVE  FALSE
    BY DEF SomebodyGoesOn
  <2>1. Reserved = {}
    BY DEF Reserved
  <2>2. Cardinality(Holders) = 0 /\ Cardinality(Reserved) = 0
    BY <2>1, FS_EmptySet
  <2>3. value = MaxConcurrency
    BY <2>2 DEF IInv, SlotInv, SlotsConserved, TypeOK
  <2> QED
    BY <2>3 DEF IInv, SlotInv, NoLostWakeup
<1> QED
  BY <1>1, Invariance, PTL

----------------------------------------------------------------------------
(* How long a call can go on                                               *)

\* What is left for a call at stage s with future f, its attempt and its pieces
\* being what they are.
Rest(s, f) ==
    IF s \in Ended THEN 0
    ELSE IF s = "queued" THEN IF f \in {"cancelled", "revoked"} THEN 4
                              ELSE IF f = "woken" THEN 5 ELSE 6
    ELSE IF s \in {"calling", "reading"} THEN 8
    ELSE IF s = "yielded" THEN 9 ELSE 7

Left(c) == Rest(stage[c], future[c])

Same(c) == attempt'[c] = attempt[c] /\ pieces'[c] = pieces[c] /\ Left(c)' = Left(c)

\* A call has done one of its steps.  They are finitely many: attempts and pieces
\* only grow, and TypeOK bounds them.
Further(c) ==
    \/ attempt'[c] > attempt[c]
    \/ attempt'[c] = attempt[c] /\ pieces'[c] > pieces[c]
    \/ attempt'[c] = attempt[c] /\ pieces'[c] = pieces[c] /\ Left(c)' < Left(c)

\* Every step brings a call further, and none back.
StepCounts ==
    /\ \A c \in Calls : Same(c) \/ Further(c)
    /\ \E c \in Calls : Further(c)

\* The values of Rest.
LEMMA RestIs ==
  /\ \A f : /\ Rest("calling", f) = 8 /\ Rest("reading", f) = 8 /\ Rest("yielded", f) = 9
            /\ \A s \in {"new", "backoff", "storing", "closing"} : Rest(s, f) = 7
            /\ \A s \in Ended : Rest(s, f) = 0
            /\ \A s \in Stages \ Ended : Rest(s, f) >= 4
  /\ Rest("queued", "pending") = 6 /\ Rest("queued", "woken") = 5
  /\ Rest("queued", "cancelled") = 4 /\ Rest("queued", "revoked") = 4
<1>1. \A s \in {"calling", "reading", "yielded", "new", "backoff", "storing", "closing", "queued"} :
         s \notin Ended
  BY DEF Ended
<1>2. ASSUME NEW f
      PROVE  /\ Rest("calling", f) = 8 /\ Rest("reading", f) = 8 /\ Rest("yielded", f) = 9
             /\ \A s \in {"new", "backoff", "storing", "closing"} : Rest(s, f) = 7
  BY <1>1 DEF Rest
<1>3. \A f : \A s \in Ended : Rest(s, f) = 0
  BY DEF Rest
<1>4. \A f : \A s \in Stages \ Ended : Rest(s, f) >= 4
  BY DEF Rest
<1>5. /\ Rest("queued", "pending") = 6 /\ Rest("queued", "woken") = 5
      /\ Rest("queued", "cancelled") = 4 /\ Rest("queued", "revoked") = 4
  BY <1>1 DEF Rest
<1> QED
  BY <1>2, <1>3, <1>4, <1>5

\* A slot that is passed on only wakes calls that wait.
LEMMA OnlyWakes ==
  ASSUME IInv, Release \/ UNCHANGED future, NEW d \in Calls
  PROVE  future'[d] = future[d] \/ (future[d] = "pending" /\ future'[d] = "woken")
<1>1. future \in [Calls -> Futures]
  BY DEF IInv, SlotInv, TypeOK
<1> QED
  BY <1>1 DEF Release, Pending

\* So does one that is left in the queue, apart from the call that leaves it.
LEMMA OnlyWakesOthers ==
  ASSUME IInv, NEW c \in Calls, NEW freed, LeaveQueue(c, freed), NEW d \in Calls \ {c}
  PROVE  future'[d] = future[d] \/ (future[d] = "pending" /\ future'[d] = "woken")
<1>1. future \in [Calls -> Futures]
  BY DEF IInv, SlotInv, TypeOK
<1> QED
  BY <1>1 DEF LeaveQueue, WakeAll, Pending

\* A call that is only woken, or left alone, goes no step back.
LEMMA OthersCount ==
  ASSUME NEW d \in Calls, stage'[d] = stage[d],
         attempt'[d] = attempt[d], pieces'[d] = pieces[d],
         future'[d] = future[d] \/ (future[d] = "pending" /\ future'[d] = "woken")
  PROVE  Same(d) \/ Further(d)
<1>1. CASE future'[d] = future[d]
  BY <1>1 DEF Same, Left
<1>2. CASE stage[d] = "queued" /\ future[d] = "pending" /\ future'[d] = "woken"
  <2>1. Left(d) = 6 /\ Left(d)' = 5
    BY <1>2, RestIs DEF Left
  <2> QED
    BY <2>1 DEF Further
<1>3. CASE stage[d] # "queued"
  <2>1. Left(d)' = Left(d)
    BY <1>3 DEF Left, Rest
  <2> QED
    BY <2>1 DEF Same
<1> QED
  BY <1>1, <1>2, <1>3

\* If the call that takes a step gets further, the step counts.
LEMMA ActorCounts ==
  ASSUME IInv, NEW c \in Calls, Further(c),
         \A d \in Calls \ {c} :
           /\ stage'[d] = stage[d] /\ attempt'[d] = attempt[d] /\ pieces'[d] = pieces[d]
           /\ future'[d] = future[d] \/ (future[d] = "pending" /\ future'[d] = "woken")
  PROVE  StepCounts
  BY OthersCount DEF StepCounts

\* A call that goes to a stage with less before it.
LEMMA StageCounts ==
  ASSUME IInv, NEW c \in Calls, NEW t \in Stages \ {"queued"}, Goto(c, t),
         UNCHANGED <<attempt, pieces>>, Release \/ UNCHANGED future,
         Rest(t, future'[c]) < Left(c)
  PROVE  StepCounts
<1>1. stage \in [Calls -> Stages]
  BY DEF IInv, SlotInv, TypeOK
<1>2. stage'[c] = t /\ \A d \in Calls \ {c} : stage'[d] = stage[d]
  BY <1>1 DEF Goto
<1>3. Left(c)' < Left(c)
  BY <1>2 DEF Left
<1> QED
  BY <1>2, <1>3, OnlyWakes, ActorCounts DEF Further

\* A call that ends.
LEMMA EndCounts ==
  ASSUME IInv, NEW c \in Calls, NEW t \in Ended, Goto(c, t), stage[c] \notin Ended,
         UNCHANGED <<attempt, pieces>>, Release \/ UNCHANGED future
  PROVE  StepCounts
<1>1. stage[c] \in Stages /\ future[c] \in Futures
  BY DEF IInv, SlotInv, TypeOK
<1>2. Left(c) >= 4 /\ Left(c) \in Nat
  BY <1>1, RestIs DEF Left, Rest
<1>3. Rest(t, future'[c]) = 0 /\ t \in Stages \ {"queued"}
  BY RestIs DEF Stages, Ended
<1>4. Rest(t, future'[c]) < Left(c)
  BY <1>2, <1>3
<1> QED
  BY <1>3, <1>4, StageCounts

\* A call that makes an attempt.
LEMMA AttemptCounts ==
  ASSUME IInv, NEW c \in Calls, Ask(c), UNCHANGED pieces,
         \A d \in Calls \ {c} :
           future'[d] = future[d] \/ (future[d] = "pending" /\ future'[d] = "woken")
  PROVE  StepCounts
<1>1. stage \in [Calls -> Stages] /\ attempt \in [Calls -> 0 .. Attempts]
  BY DEF IInv, SlotInv, TypeOK
<1>2. /\ attempt'[c] = attempt[c] + 1
      /\ \A d \in Calls \ {c} : stage'[d] = stage[d] /\ attempt'[d] = attempt[d]
  BY <1>1 DEF Ask, Goto
<1>3. Further(c)
  BY <1>1, <1>2 DEF Further
<1> QED
  BY <1>2, <1>3, ActorCounts

\* Every step of the model counts.
LEMMA EveryStep == IInv /\ Next => StepCounts
<1> SUFFICES ASSUME IInv, NEW c \in Calls,
                    Refuse(c) \/ Scheduler(c) \/ Provider(c) \/ Client(c) \/ Cancel(c)
             PROVE  StepCounts
  BY DEF Next
<1>0. /\ stage \in [Calls -> Stages] /\ future \in [Calls -> Futures]
      /\ pieces \in [Calls -> 0 .. MaxPieces] /\ FutureFits
  BY DEF IInv, SlotInv, TypeOK
<1>1. \A t \in {"ok", "failed", "interrupted", "cancelled", "raised", "refused"} : t \in Ended
  BY DEF Ended
<1>2. \A t \in {"new", "calling", "reading", "yielded", "closing", "queued", "backoff", "storing"} :
         t \notin Ended /\ t \in Stages
  BY DEF Ended, Stages, SlotStages, Waiting
<1>3. CASE Refuse(c)
  BY <1>1, <1>2, <1>3, EndCounts DEF Refuse
<1>4. CASE Enter(c) \/ Resume(c)
  <2>1. UNCHANGED future \/ LeaveQueue(c, 0)
    BY <1>4 DEF Enter, Resume
  <2> QED
    BY <1>4, <2>1, OnlyWakesOthers, AttemptCounts DEF Enter, Resume
<1>5. CASE Queue(c)
  <2>1. /\ stage[c] \in {"new", "backoff"}
        /\ stage' = [stage EXCEPT ![c] = "queued"]
        /\ future' = [future EXCEPT ![c] = "pending"]
        /\ UNCHANGED <<attempt, pieces>>
    BY <1>5 DEF Queue, Goto
  <2>2. stage'[c] = "queued" /\ future'[c] = "pending"
    BY <1>0, <2>1
  <2>3. Left(c) = 7 /\ Left(c)' = 6
    BY <2>1, <2>2, RestIs DEF Left
  <2> QED
    BY <1>0, <2>1, <2>3, ActorCounts DEF Further
<1>6. CASE Withdraw(c)
  <2>1. stage[c] = "queued" /\ future[c] \in {"cancelled", "revoked"}
    BY <1>0, <1>6 DEF Withdraw, FutureFits
  <2>2. /\ stage' = [stage EXCEPT ![c] = "cancelled"] /\ UNCHANGED <<attempt, pieces>>
        /\ LeaveQueue(c, IF future[c] = "revoked" THEN 1 ELSE 0)
    BY <1>6 DEF Withdraw, Goto
  <2>3. stage'[c] = "cancelled"
    BY <1>0, <2>2
  <2>4. Left(c) = 4 /\ Left(c)' = 0
    BY <2>1, <2>3, <1>1, RestIs DEF Left
  <2> QED
    BY <1>0, <2>2, <2>4, OnlyWakesOthers, ActorCounts DEF Further
<1>7. CASE Store(c) \/ Closed(c)
  BY <1>1, <1>2, <1>7, EndCounts DEF Store, Closed
<1>8. ASSUME NEW t \in Ended, stage[c] \in {"calling", "reading"}, EndWith(c, t)
      PROVE  StepCounts
  BY <1>2, <1>8, EndCounts DEF EndWith
<1>9. CASE Retry(c)
  <2>1. stage[c] = "calling" /\ Rest("backoff", future'[c]) = 7 /\ Left(c) = 8
    BY <1>9, RestIs DEF Retry, Left
  <2> QED
    BY <1>2, <1>9, <2>1, StageCounts DEF Retry
<1>10. CASE Chunk(c)
  <2>1. pieces'[c] > pieces[c] /\ \A d \in Calls \ {c} : pieces'[d] = pieces[d]
    BY <1>0, <1>10 DEF Chunk
  <2>2. \A d \in Calls \ {c} : stage'[d] = stage[d]
    BY <1>0, <1>10 DEF Chunk, Goto
  <2>3. UNCHANGED <<attempt, future>>
    BY <1>10 DEF Chunk
  <2>4. Further(c)
    BY <2>1, <2>3 DEF Further
  <2> QED
    BY <2>1, <2>2, <2>3, <2>4, ActorCounts
<1>11. CASE End(c)
  <2>1. CASE EndWith(c, "ok")
    BY <1>1, <1>8, <1>11, <2>1 DEF End
  <2>2. CASE Goto(c, "storing") /\ Release /\ UNCHANGED <<attempt, pieces>>
    <3>1. stage[c] = "reading" /\ Rest("storing", future'[c]) = 7 /\ Left(c) = 8
      BY <1>11, RestIs DEF End, Left
    <3> QED
      BY <1>2, <2>2, <3>1, StageCounts
  <2> QED
    BY <1>11, <2>1, <2>2 DEF End
<1>12. CASE Pull(c)
  <2>1. stage[c] = "yielded" /\ Rest("reading", future'[c]) = 8 /\ Left(c) = 9
    BY <1>12, RestIs DEF Pull, Left
  <2> QED
    BY <1>2, <1>12, <2>1, StageCounts DEF Pull
<1>13. CASE Leave(c)
  <2>1. stage[c] = "yielded" /\ Rest("closing", future'[c]) = 7 /\ Left(c) = 9
    BY <1>13, RestIs DEF Leave, Left
  <2> QED
    BY <1>2, <1>13, <2>1, StageCounts DEF Leave
<1>14. CASE CancelQueued(c)
  <2>1. /\ future[c] \in {"pending", "woken"} /\ UNCHANGED <<stage, attempt, pieces>>
        /\ future' = [future EXCEPT ![c] = IF future[c] = "pending" THEN "cancelled" ELSE "revoked"]
        /\ stage[c] = "queued"
    BY <1>0, <1>14 DEF CancelQueued, FutureFits
  <2>2. future'[c] \in {"cancelled", "revoked"} /\ stage'[c] = "queued"
    BY <1>0, <2>1
  <2>3. Left(c) \in {5, 6} /\ Left(c)' = 4
    BY <2>1, <2>2, RestIs DEF Left
  <2> QED
    BY <1>0, <2>1, <2>3, ActorCounts DEF Further
<1>15. CASE CancelUnslotted(c)
  BY <1>1, <1>2, <1>15, EndCounts DEF CancelUnslotted
<1>16. CASE CancelSlotted(c)
  BY <1>1, <1>8, <1>16 DEF CancelSlotted
<1>17. CASE Reply(c) \/ Fail(c) \/ Break(c) \/ Raise(c)
  BY <1>1, <1>8, <1>17 DEF Reply, Fail, Break, Raise
<1> QED
  BY <1>3, <1>4, <1>5, <1>6, <1>7, <1>9, <1>10, <1>11, <1>12, <1>13, <1>14, <1>15, <1>16, <1>17
  DEF Scheduler, Provider, Client, Cancel

\* However calls are retried, queued again, streamed and cancelled, every step is one
\* of the finitely many that the calls have before them: nothing goes on for ever.
THEOREM EveryStepCounts == Spec => [][StepCounts]_vars
<1>1. IInv /\ [Next]_vars => [StepCounts]_vars
  BY EveryStep
<1> QED
  BY <1>1, Invariance, PTL DEF Spec

=============================================================================
