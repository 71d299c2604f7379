-------------------------- MODULE RateLimit_proofs --------------------------
(* Theorems about RateLimit for all limits, windows and clients.           *)
EXTENDS RateLimit, FiniteSetTheorems, WellFoundedInduction, TLAPS

USE HandlersAssumption, LimitAssumption, TimesAssumption, BoundsAssumption

\* The window in milliseconds is a positive number.
LEMMA WindowMsType == WindowMs \in Nat /\ WindowMs > 0
<1>1. \A m, n \in Nat : m > 0 /\ n > 0 => m * n \in Nat /\ m * n > 0
  OBVIOUS
<1> QED
  BY <1>1 DEF WindowMs

----------------------------------------------------------------------------
(* The reset of a refused request                                          *)

\* ZREMRANGEBYSCORE leaves some of the members there were.
LEMMA RecentType ==
  ASSUME TypeOK, NEW c \in Clients
  PROVE  Recent(c) \subseteq window[c] /\ Recent(c) \subseteq Members
  BY DEF Recent, TypeOK

\* Rounding up to whole seconds never falls short.
LEMMA CeilCovers ==
  ASSUME NEW reset \in Int, NEW s \in Nat \ {0}
  PROVE  /\ (reset + s - 1) \div s \in Int
         /\ ((reset + s - 1) \div s) * s >= reset
<1> DEFINE q == (reset + s - 1) \div s
           m == (reset + s - 1) % s
<1>1. q \in Int /\ m \in 0 .. s - 1 /\ reset + s - 1 = s * q + m
  BY Z3
<1> QED
  BY <1>1

\* A set of times has an earliest one: the oldest member ZRANGE 0 0 returns.
LEMMA NatHasLeast ==
  ASSUME NEW S \in SUBSET Nat, S # {}
  PROVE  \E t \in S : \A u \in S : t <= u
<1>1. PICK t \in S : \A u \in S : ~ (<<u, t>> \in OpToRel(<, Nat))
  BY WFMin, NatLessThanWellFounded, Zenon
<1>2. \A u \in S : ~ (u < t)
  BY <1>1 DEF OpToRel
<1> QED
  BY <1>2

\* A refused client is told to come back when the oldest member has left.
LEMMA ResetCovers ==
  ASSUME TypeOK, NEW c \in Clients, Recent(c) # {}
  PROVE  /\ ResetSeconds(c) \in Nat
         /\ \E m \in Recent(c) : now + ResetSeconds(c) * SecondMs >= m.at + WindowMs
<1> DEFINE ats    == {m.at : m \in Recent(c)}
           oldest == CHOOSE t \in ats : \A m \in Recent(c) : t <= m.at
           reset  == oldest + WindowMs - now
           ceil   == (reset + SecondMs - 1) \div SecondMs
<1>1. ats \in SUBSET Nat /\ ats # {}
  BY RecentType DEF Members, Times
<1>2. PICK t \in ats : \A u \in ats : t <= u
  BY <1>1, NatHasLeast
<1>3. oldest \in ats /\ \A m \in Recent(c) : oldest <= m.at
  BY <1>2
<1>4. reset \in Int
  <2> HIDE DEF oldest
  <2>1. oldest \in Int
    BY <1>1, <1>3
  <2>2. now \in Int
    BY DEF TypeOK, Times
  <2> QED
    BY <2>1, <2>2, WindowMsType
<1>5. ceil \in Int /\ ceil * SecondMs >= reset
  BY <1>4, CeilCovers
<1>6. PICK m \in Recent(c) : oldest = m.at
  BY <1>3
<1> HIDE DEF oldest, reset, ceil
<1>7. ResetSeconds(c) = IF ceil < 1 THEN 1 ELSE ceil
  BY DEF ResetSeconds, oldest, ats, reset, ceil
<1>8. ResetSeconds(c) \in Nat /\ ResetSeconds(c) >= ceil
  BY <1>5, <1>7
<1>9. ResetSeconds(c) * SecondMs >= ceil * SecondMs
  <2>1. \A x, y \in Int, s \in Nat : x >= y => x * s >= y * s
    BY Z3
  <2> QED
    BY <1>5, <1>8, <2>1
<1>10. ResetSeconds(c) * SecondMs \in Int /\ ceil * SecondMs \in Int
  BY <1>5, <1>8
<1>11. now + ResetSeconds(c) * SecondMs >= m.at + WindowMs
  <2>1. m.at \in Int /\ now \in Int /\ WindowMs \in Int
    BY <1>6, WindowMsType, RecentType DEF Members, Times, TypeOK
  <2>2. reset = m.at + WindowMs - now
    BY <1>6 DEF reset
  <2> HIDE DEF WindowMs
  <2> QED
    BY <1>5, <1>9, <1>10, <2>1, <2>2
<1> QED
  BY <1>8, <1>11

----------------------------------------------------------------------------
(* Types                                                                   *)

\* A client at its limit has members to wait for.
LEMMA RefusedHasMembers ==
  ASSUME TypeOK, NEW c \in Clients, Cardinality(Recent(c)) >= Limit
  PROVE  Recent(c) # {}
  BY FS_EmptySet

\* What the script adds is a member.
LEMMA MemberType == TypeOK => \A n \in Nonces : Member(n) \in Members
  BY DEF Member, Members, TypeOK

\* The script leaves members in every window and a time in every expiry.
LEMMA ScriptType ==
  ASSUME TypeOK, NEW c \in Clients, Unheard(c)
  PROVE  /\ window' \in [Clients -> SUBSET Members]
         /\ expires' \in [Clients -> Nat]
         /\ granted' \in [Clients -> SUBSET Members]
         /\ promised' \in [Clients -> Nat]
<1>1. CASE Admit(c)
  <2>1. now + WindowMs \in Nat
    BY WindowMsType DEF TypeOK, Times
  <2> QED
    BY <1>1, <2>1, RecentType, MemberType
    DEF Admit, KeyLifetime, Member, TypeOK
<1>2. CASE Refuse(c) /\ UNCHANGED promised
  BY <1>2, RecentType DEF Refuse, TypeOK
<1>3. CASE UNCHANGED <<window, expires, granted, promised>>
  BY <1>3 DEF TypeOK
<1> QED
  BY <1>1, <1>2, <1>3 DEF Unheard

\* The state right after start is well typed.
LEMMA TypeInit == Init => TypeOK
  BY DEF Init, TypeOK, Times

\* No step, no lost answer and no loss of data leaves the types.
LEMMA TypeStep == TypeOK /\ [Next]_vars => TypeOK'
<1> SUFFICES ASSUME TypeOK, [Next]_vars
             PROVE  TypeOK'
  OBVIOUS
<1> USE DEF Finish, Fault
<1>1. ASSUME NEW h \in Handlers, Skip(h) \/ Send(h)
      PROVE  TypeOK'
  BY <1>1 DEF Skip, Send, TypeOK
<1>2. ASSUME NEW h \in Handlers, Admitted(h)
      PROVE  TypeOK'
  BY <1>2, ScriptType DEF Admitted, Unheard, TypeOK
<1>3. ASSUME NEW h \in Handlers, Rejected(h)
      PROVE  TypeOK'
  <2>1. now + ResetSeconds(h.client) * SecondMs \in Nat
    <3>1. ResetSeconds(h.client) \in Nat
      BY <1>3, RefusedHasMembers, ResetCovers DEF Rejected, Refuse
    <3>2. \A x, y, z \in Nat : x + y * z \in Nat
      OBVIOUS
    <3> QED
      BY <3>1, <3>2 DEF TypeOK, Times
  <2>2. promised' \in [Clients -> Nat]
    BY <1>3, <2>1 DEF Rejected, TypeOK
  <2> QED
    BY <1>3, <2>2, RecentType DEF Rejected, Refuse, TypeOK
<1>4. ASSUME NEW h \in Handlers, Fails(h)
      PROVE  TypeOK'
  BY <1>4, ScriptType DEF Fails, TypeOK, Times
<1>5. ASSUME NEW h \in Handlers, Cancelled(h)
      PROVE  TypeOK'
  BY <1>5, ScriptType DEF Cancelled, TypeOK
<1>6. ASSUME NEW c \in Clients, Lose(c)
      PROVE  TypeOK'
  BY <1>6 DEF Lose, TypeOK
<1>7. CASE Tick
  BY <1>7 DEF Tick, TypeOK, Times
<1>8. CASE UNCHANGED vars
  BY <1>8 DEF vars, TypeOK
<1> QED
  BY <1>1, <1>2, <1>3, <1>4, <1>5, <1>6, <1>7, <1>8 DEF Next

\* Every variable of the limiter keeps its type, whatever fails or is lost.
THEOREM TypeCorrect == Spec => []TypeOK
  BY TypeInit, TypeStep, PTL DEF Spec

----------------------------------------------------------------------------
(* The sorted set holds exactly the admissions of the last window          *)

\* Every admission of the last window is counted, and will be until it leaves it.
KeptFor(c) ==
    /\ \A m \in granted[c] : m \in window[c] /\ m.at + WindowMs <= expires[c]
    /\ Cardinality(granted[c]) <= Limit

\* What counts was admitted, and nothing else; what Redis loses no longer counts.
CountedFor(c) ==
    /\ \A m \in granted[c] : now - WindowMs < m.at /\ m.at <= now
    /\ \A m \in window[c] : m.at > now - WindowMs => m \in granted[c]
    /\ IsFiniteSet(granted[c])
    /\ losses = 0 => KeptFor(c)

Counted == \A c \in Clients : CountedFor(c)

\* What the script counts was granted within the window.
LEMMA RecentIsBacked ==
  ASSUME NEW c \in Clients, CountedFor(c)
  PROVE  Recent(c) \subseteq granted[c]
  BY DEF Recent, CountedFor

\* While Redis has lost nothing, it is all that was granted.
LEMMA RecentIsGranted ==
  ASSUME TypeOK, NEW c \in Clients, CountedFor(c), losses = 0
  PROVE  Recent(c) = granted[c]
<1>1. ASSUME NEW m \in granted[c]
      PROVE  m \in window[c] /\ m.at > now - WindowMs /\ ~(expires[c] <= now)
  <2>1. m.at \in Int /\ now \in Int /\ expires[c] \in Int
    BY DEF TypeOK, Members, Times
  <2>2. m \in window[c] /\ now - WindowMs < m.at /\ m.at + WindowMs <= expires[c]
    BY DEF CountedFor, KeptFor
  <2> QED
    BY <2>1, <2>2, WindowMsType
<1> QED
  BY <1>1, RecentIsBacked DEF Recent

\* An admission below the limit is counted until its window is over.
LEMMA CountedAdmit ==
  ASSUME TypeOK, Counted, NEW c \in Clients, Admit(c), now' = now, losses' = losses
  PROVE  Counted'
<1>1. PICK n \in Nonces :
        /\ window' = [window EXCEPT ![c] = Recent(c) \cup {Member(n)}]
        /\ granted' = [granted EXCEPT ![c] = @ \cup {[at |-> now, nonce |-> n]}]
  BY DEF Admit
<1>2. Recent(c) \subseteq granted[c]
  BY RecentIsBacked DEF Counted
<1>3. Member(n).at = now /\ now \in Int /\ WindowMs \in Int /\ WindowMs > 0
  BY WindowMsType DEF Member, TypeOK, Times
<1>4. /\ window'[c] = Recent(c) \cup {Member(n)}
      /\ granted'[c] = granted[c] \cup {Member(n)}
      /\ expires'[c] = now + WindowMs
  BY <1>1 DEF Admit, KeyLifetime, Member, TypeOK
<1>5. ASSUME NEW m \in granted'[c]
      PROVE  m.at \in Int /\ now - WindowMs < m.at /\ m.at <= now
  <2>1. CASE m = Member(n)
    BY <1>3, <2>1
  <2>2. CASE m \in granted[c]
    BY <2>2 DEF Counted, CountedFor, TypeOK, Members, Times
  <2> QED
    BY <1>4, <1>5, <2>1, <2>2
<1>6. \A m \in window'[c] : m \in granted'[c]
  BY <1>2, <1>4
<1>7. /\ IsFiniteSet(granted[c]) /\ IsFiniteSet(granted'[c])
      /\ Cardinality(granted'[c]) \in {Cardinality(granted[c]), Cardinality(granted[c]) + 1}
  <2>1. IsFiniteSet(granted[c])
    BY DEF Counted, CountedFor
  <2>2. /\ IsFiniteSet(granted[c] \cup {Member(n)})
        /\ Cardinality(granted[c] \cup {Member(n)}) =
             IF Member(n) \in granted[c] THEN Cardinality(granted[c])
                                         ELSE Cardinality(granted[c]) + 1
    BY <2>1, FS_AddElement
  <2> QED
    BY <1>4, <2>1, <2>2
<1>8. ASSUME losses = 0
      PROVE  KeptFor(c)'
  <2>1. Recent(c) = granted[c]
    BY <1>8, RecentIsGranted DEF Counted
  <2>2. \A m \in granted'[c] : m \in window'[c] /\ m.at + WindowMs <= expires'[c]
    BY <1>3, <1>4, <1>5, <2>1
  <2>3. Cardinality(granted[c]) \in Nat /\ Cardinality(granted[c]) < Limit
    BY <1>7, <2>1, FS_CardinalityType DEF Admit
  <2> QED
    BY <1>7, <2>2, <2>3, LimitAssumption DEF KeptFor
<1>9. CountedFor(c)'
  BY <1>5, <1>6, <1>7, <1>8 DEF CountedFor
<1>10. ASSUME NEW d \in Clients, d # c
       PROVE  CountedFor(d)'
  BY <1>1, <1>10 DEF Admit, Counted, CountedFor, KeptFor, TypeOK
<1> QED
  BY <1>9, <1>10 DEF Counted

\* A refusal keeps the grants, and of the window what counts.
LEMMA CountedRefuse ==
  ASSUME TypeOK, Counted, NEW c \in Clients, Refuse(c), now' = now, losses' = losses
  PROVE  Counted'
<1>1. /\ window'[c] = Recent(c)
      /\ \A d \in Clients : d # c => window'[d] = window[d]
      /\ granted' = granted /\ expires' = expires
  BY DEF Refuse, TypeOK
<1>2. Recent(c) \subseteq granted[c]
  BY RecentIsBacked DEF Counted
<1>3. losses = 0 => Recent(c) = granted[c]
  BY RecentIsGranted DEF Counted
<1>4. CountedFor(c)'
  BY <1>1, <1>2, <1>3 DEF Counted, CountedFor, KeptFor
<1>5. ASSUME NEW d \in Clients, d # c
      PROVE  CountedFor(d)'
  BY <1>1, <1>5 DEF Counted, CountedFor, KeptFor
<1> QED
  BY <1>4, <1>5 DEF Counted

\* What Redis loses no longer counts; from then on admissions may be forgotten.
LEMMA CountedLose ==
  ASSUME TypeOK, Counted, NEW c \in Clients, Lose(c)
  PROVE  Counted'
<1>1. losses' # 0
  BY DEF Lose, TypeOK
<1>2. \A d \in Clients : window'[d] \subseteq window[d]
  BY DEF Lose, TypeOK
<1> QED
  BY <1>1, <1>2 DEF Counted, CountedFor, Lose

\* So does time: the key expires when its last member is out of the window.
LEMMA CountedTick ==
  ASSUME TypeOK, Counted, Tick
  PROVE  Counted'
<1> SUFFICES ASSUME NEW c \in Clients
             PROVE  CountedFor(c)'
  BY DEF Counted
<1>1. granted'[c] = {m \in granted[c] : m.at > now' - WindowMs}
  BY DEF Tick
<1>2. /\ IsFiniteSet(granted[c]) /\ IsFiniteSet(granted'[c])
      /\ Cardinality(granted'[c]) <= Cardinality(granted[c])
  BY <1>1, FS_Subset DEF Counted, CountedFor
<1>3. ASSUME NEW m \in granted'[c]
      PROVE  now' - WindowMs < m.at /\ m.at <= now'
  <2>1. m \in granted[c] /\ m.at > now' - WindowMs
    BY <1>1
  <2>2. m.at \in Int /\ now \in Int
    BY <2>1 DEF TypeOK, Members, Times
  <2> QED
    BY <2>1, <2>2, WindowMsType DEF Tick, Counted, CountedFor
<1>4. ASSUME NEW m \in window'[c], m.at > now' - WindowMs
      PROVE  m \in granted'[c]
  <2>1. m \in window[c] /\ m.at \in Int /\ now \in Int /\ now' = now + 1
    BY DEF Tick, TypeOK, Members, Times
  <2>2. m.at > now - WindowMs
    BY <1>4, <2>1, WindowMsType
  <2> QED
    BY <1>1, <1>4, <2>1, <2>2 DEF Counted, CountedFor
<1>5. ASSUME losses' = 0
      PROVE  KeptFor(c)'
  <2>1. KeptFor(c)
    BY <1>5 DEF Tick, Counted, CountedFor
  <2>2. Cardinality(granted[c]) \in Nat /\ Cardinality(granted'[c]) \in Nat
    BY <1>2, FS_CardinalityType
  <2>3. Cardinality(granted'[c]) <= Limit
    BY <1>2, <2>1, <2>2, LimitAssumption DEF KeptFor
  <2> QED
    BY <1>1, <2>1, <2>3 DEF KeptFor, Tick
<1> QED
  BY <1>2, <1>3, <1>4, <1>5 DEF CountedFor

\* No step, no failure and no loss breaks the count.
LEMMA CountedStep == TypeOK /\ Counted /\ [Next]_vars => Counted'
<1> SUFFICES ASSUME TypeOK, Counted, [Next]_vars
             PROVE  Counted'
  OBVIOUS
<1>1. ASSUME UNCHANGED <<now, window, expires, granted, losses>>
      PROVE  Counted'
  BY <1>1 DEF Counted, CountedFor, KeptFor
<1>2. ASSUME NEW c \in Clients, Unheard(c), now' = now, losses' = losses
      PROVE  Counted'
  BY <1>1, <1>2, CountedAdmit, CountedRefuse DEF Unheard
<1>3. ASSUME NEW h \in Handlers,
             Skip(h) \/ Send(h) \/ Admitted(h) \/ Rejected(h) \/ Fails(h) \/ Cancelled(h)
      PROVE  Counted'
  <2>1. h.client \in Clients
    BY HandlersAssumption
  <2> QED
    BY <1>1, <1>2, <1>3, <2>1, CountedAdmit, CountedRefuse
    DEF Skip, Send, Admitted, Rejected, Fails, Cancelled
<1>4. CASE UNCHANGED vars
  BY <1>1, <1>4 DEF vars
<1> QED
  BY <1>3, <1>4, CountedLose, CountedTick DEF Next

\* At the start nothing counts.
LEMMA CountedInit == Init => Counted
<1> SUFFICES ASSUME Init PROVE Counted
  OBVIOUS
<1>1. IsFiniteSet({}) /\ Cardinality({}) = 0
  BY FS_EmptySet
<1> QED
  BY <1>1, LimitAssumption DEF Init, Counted, CountedFor, KeptFor

\* No client is admitted more than Limit times within any window, however many
\* processes ask, fail and give up, as long as Redis has kept its data.
THEOREM LimitHolds == Spec => []WithinLimit
<1>1. TypeOK /\ Counted /\ [Next]_vars => (TypeOK /\ Counted)'
  BY TypeStep, CountedStep
<1>2. Counted => WithinLimit
  BY DEF Counted, CountedFor, KeptFor, WithinLimit
<1> QED
  BY <1>1, <1>2, TypeInit, CountedInit, PTL DEF Spec

----------------------------------------------------------------------------
(* Retry-After                                                             *)

\* The members of the sorted set that still count at a later time.
LeftAt(c, t) == {m \in window[c] : m.at > t - WindowMs}

\* The set never outgrows the limit, and it shrinks below it by the time promised.
PromiseFor(c) ==
    /\ IsFiniteSet(window[c])
    /\ Cardinality(window[c]) <= Limit
    /\ promised[c] # 0 => Cardinality(LeftAt(c, promised[c])) < Limit

Promises == \A c \in Clients : PromiseFor(c)

\* A smaller sorted set keeps what was promised.
LEMMA SmallerKeeps ==
  ASSUME TypeOK, NEW c \in Clients, PromiseFor(c),
         window'[c] \subseteq window[c], promised'[c] = promised[c]
  PROVE  PromiseFor(c)'
<1>1. IsFiniteSet(window'[c]) /\ Cardinality(window'[c]) <= Cardinality(window[c])
  BY FS_Subset DEF PromiseFor
<1>2. Cardinality(window[c]) \in Nat /\ Cardinality(window'[c]) \in Nat
  BY <1>1, FS_CardinalityType DEF PromiseFor
<1>3. LeftAt(c, promised[c]) \subseteq window[c] /\ LeftAt(c, promised[c])' \subseteq LeftAt(c, promised[c])
  BY DEF LeftAt
<1>4. IsFiniteSet(LeftAt(c, promised[c]))
  BY <1>3, FS_Subset DEF PromiseFor
<1>5. /\ IsFiniteSet(LeftAt(c, promised[c])')
      /\ Cardinality(LeftAt(c, promised[c])') <= Cardinality(LeftAt(c, promised[c]))
  BY <1>3, <1>4, FS_Subset
<1>6. /\ Cardinality(LeftAt(c, promised[c])) \in Nat
      /\ Cardinality(LeftAt(c, promised[c])') \in Nat
  BY <1>4, <1>5, FS_CardinalityType
<1> HIDE DEF LeftAt
<1> QED
  BY <1>1, <1>2, <1>5, <1>6 DEF PromiseFor

\* An admission does not break the promise made by an earlier Retry-After.
LEMMA PromiseAdmit ==
  ASSUME TypeOK, NEW c \in Clients, PromiseFor(c), Admit(c)
  PROVE  PromiseFor(c)'
<1>1. PICK n \in Nonces : window' = [window EXCEPT ![c] = Recent(c) \cup {Member(n)}]
  BY DEF Admit
<1>2. window'[c] = Recent(c) \cup {Member(n)} /\ promised'[c] = 0
  BY <1>1 DEF Admit, TypeOK
<1>3. IsFiniteSet(Recent(c)) /\ Cardinality(Recent(c)) < Limit
  BY RecentType, FS_Subset DEF Admit, PromiseFor
<1>4. Cardinality(Recent(c)) \in Nat
  BY <1>3, FS_CardinalityType
<1>5. /\ IsFiniteSet(Recent(c) \cup {Member(n)})
      /\ Cardinality(Recent(c) \cup {Member(n)}) \in
           {Cardinality(Recent(c)), Cardinality(Recent(c)) + 1}
  BY <1>3, FS_AddElement
<1> QED
  BY <1>2, <1>3, <1>4, <1>5 DEF PromiseFor

\* By the promised time the oldest member has left.
LEMMA PromiseRejected ==
  ASSUME TypeOK, NEW h \in Handlers, PromiseFor(h.client), Rejected(h)
  PROVE  PromiseFor(h.client)'
<1> DEFINE c == h.client
           retry == now + ResetSeconds(c) * SecondMs
<1>1. window'[c] = Recent(c) /\ Recent(c) \subseteq window[c] /\ Recent(c) # {}
  BY RecentType, RefusedHasMembers DEF Rejected, Refuse, TypeOK
<1>2. promised'[c] = promised[c] \/ promised'[c] = retry
  BY DEF Rejected, TypeOK
<1>3. CASE promised'[c] = promised[c]
  BY <1>1, <1>3, SmallerKeeps
<1>4. CASE promised'[c] = retry
  <2>1. PICK m \in Recent(c) : retry >= m.at + WindowMs
    BY <1>1, ResetCovers
  <2>2. retry \in Nat
    <3>1. ResetSeconds(c) \in Nat
      BY <1>1, ResetCovers
    <3>2. \A x, y, z \in Nat : x + y * z \in Nat
      OBVIOUS
    <3> QED
      BY <3>1, <3>2 DEF TypeOK, Times
  <2>3. m.at \in Int
    BY <2>1, RecentType DEF Members, Times
  <2> HIDE DEF retry
  <2>4. ~(m.at > retry - WindowMs)
    BY <2>1, <2>2, <2>3, WindowMsType
  <2>5. LeftAt(c, promised[c])' \subseteq window'[c] \ {m}
    BY <1>4, <2>4 DEF LeftAt
  <2>6. /\ IsFiniteSet(window'[c])
        /\ Cardinality(window'[c]) <= Cardinality(window[c])
        /\ Cardinality(window[c]) \in Nat /\ Cardinality(window'[c]) \in Nat
    BY <1>1, FS_Subset, FS_CardinalityType DEF PromiseFor
  <2>7. /\ IsFiniteSet(window'[c] \ {m})
        /\ Cardinality(window'[c] \ {m}) = Cardinality(window'[c]) - 1
    BY <1>1, <2>1, <2>6, FS_RemoveElement
  <2>8. /\ Cardinality(LeftAt(c, promised[c])') <= Cardinality(window'[c] \ {m})
        /\ IsFiniteSet(LeftAt(c, promised[c])')
    BY <2>5, <2>7, FS_Subset
  <2>9. Cardinality(LeftAt(c, promised[c])') \in Nat
    BY <2>8, FS_CardinalityType
  <2>10. Cardinality(window[c]) <= Limit
    BY DEF PromiseFor
  <2> HIDE DEF LeftAt
  <2> QED
    BY <2>6, <2>7, <2>8, <2>9, <2>10 DEF PromiseFor
<1> QED
  BY <1>2, <1>3, <1>4

\* No step breaks a promise made by an earlier Retry-After.
LEMMA PromiseStep ==
  ASSUME TypeOK, Promises, [Next]_vars
  PROVE  Promises'
<1>1. ASSUME NEW c \in Clients, Unheard(c), NEW d \in Clients
      PROVE  PromiseFor(d)'
  <2>1. CASE Admit(c) /\ d = c
    BY <2>1, PromiseAdmit DEF Promises
  <2>2. CASE Admit(c) /\ d # c
    BY <2>2, SmallerKeeps DEF Admit, Promises, TypeOK
  <2>3. CASE Refuse(c) /\ UNCHANGED promised
    BY <2>3, SmallerKeeps, RecentType DEF Refuse, Promises, TypeOK
  <2>4. CASE UNCHANGED <<window, expires, granted, promised>>
    BY <2>4, SmallerKeeps DEF Promises
  <2> QED
    BY <1>1, <2>1, <2>2, <2>3, <2>4 DEF Unheard
<1>2. ASSUME NEW h \in Handlers, Rejected(h), NEW d \in Clients
      PROVE  PromiseFor(d)'
  <2>1. CASE d = h.client
    BY <1>2, <2>1, PromiseRejected DEF Promises
  <2>2. CASE d # h.client
    BY <1>2, <2>2, SmallerKeeps DEF Rejected, Refuse, Promises, TypeOK
  <2> QED
    BY <2>1, <2>2
<1>3. ASSUME NEW h \in Handlers,
             Skip(h) \/ Send(h) \/ Admitted(h) \/ Fails(h) \/ Cancelled(h),
             NEW d \in Clients
      PROVE  PromiseFor(d)'
  <2>1. Unheard(h.client)
    BY <1>3 DEF Skip, Send, Admitted, Fails, Cancelled, Unheard
  <2> QED
    BY <1>1, <2>1
<1>4. ASSUME NEW c \in Clients, Lose(c), NEW d \in Clients
      PROVE  PromiseFor(d)'
  BY <1>4, SmallerKeeps DEF Lose, Promises, TypeOK
<1>5. ASSUME Tick \/ UNCHANGED vars, NEW d \in Clients
      PROVE  PromiseFor(d)'
  BY <1>5, SmallerKeeps DEF Tick, vars, Promises
<1> QED
  BY <1>2, <1>3, <1>4, <1>5 DEF Next, Promises

\* A client that comes back when Retry-After says so is admitted, whatever
\* failed, was cancelled or got lost meanwhile.
THEOREM RetryAfterHolds == Spec => []RetryAfterIsEnough
<1>1. Init => TypeOK /\ Promises
  BY TypeInit, FS_EmptySet DEF Init, Promises, PromiseFor
<1>2. TypeOK /\ Promises /\ [Next]_vars => (TypeOK /\ Promises)'
  BY TypeStep, PromiseStep
<1>3. TypeOK /\ Promises => RetryAfterIsEnough
  <2> SUFFICES ASSUME TypeOK, Promises, NEW c \in Clients,
                      promised[c] # 0, now >= promised[c]
               PROVE  Cardinality(Recent(c)) < Limit
    BY DEF RetryAfterIsEnough
  <2>1. PromiseFor(c) /\ Cardinality(LeftAt(c, promised[c])) < Limit
    BY DEF Promises, PromiseFor
  <2>2. \A m \in window[c] : m.at > now - WindowMs => m.at > promised[c] - WindowMs
    BY WindowMsType DEF TypeOK, Members, Times
  <2>3. Recent(c) \subseteq LeftAt(c, promised[c]) /\ LeftAt(c, promised[c]) \subseteq window[c]
    BY <2>2 DEF Recent, LeftAt
  <2>4. IsFiniteSet(LeftAt(c, promised[c]))
    BY <2>1, <2>3, FS_Subset DEF PromiseFor
  <2>5. /\ IsFiniteSet(Recent(c))
        /\ Cardinality(Recent(c)) <= Cardinality(LeftAt(c, promised[c]))
    BY <2>3, <2>4, FS_Subset
  <2> QED
    BY <2>1, <2>4, <2>5, FS_CardinalityType
<1> QED
  BY <1>1, <1>2, <1>3, PTL DEF Spec

\* Nobody below the limit is refused: what is not an admission of the last window
\* is not counted.
THEOREM RefusalsAreDue == Spec => NoUndueRefusal
<1>1. TypeOK /\ Counted /\ [Next]_vars => (TypeOK /\ Counted)'
  BY TypeStep, CountedStep
<1>2. ASSUME TypeOK, Counted, NEW h \in Handlers, Rejected(h)
      PROVE  Cardinality(granted[h.client]) >= Limit
  <2>1. h.client \in Clients
    BY HandlersAssumption
  <2>2. Recent(h.client) \subseteq granted[h.client] /\ IsFiniteSet(granted[h.client])
    BY <1>2, <2>1, RecentIsBacked DEF Counted, CountedFor
  <2>3. /\ IsFiniteSet(Recent(h.client))
        /\ Cardinality(Recent(h.client)) <= Cardinality(granted[h.client])
    BY <2>2, FS_Subset
  <2>4. Cardinality(Recent(h.client)) \in Nat /\ Cardinality(granted[h.client]) \in Nat
    BY <2>2, <2>3, FS_CardinalityType
  <2>5. Cardinality(Recent(h.client)) >= Limit
    BY <1>2 DEF Rejected, Refuse
  <2> QED
    BY <2>3, <2>4, <2>5, LimitAssumption
<1>3. TypeOK /\ Counted /\ [Next]_vars =>
        [\A h \in Handlers :
           Rejected(h) => Cardinality(granted[h.client]) >= Limit]_vars
  BY <1>2
<1> QED
  BY <1>1, <1>3, TypeInit, CountedInit, PTL DEF Spec, NoUndueRefusal

============================================================================
