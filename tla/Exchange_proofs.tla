--------------------------- MODULE Exchange_proofs ---------------------------
(* Theorems about Exchange for all requests, clients, prompts and           *)
(* conversations.                                                           *)
EXTENDS Exchange, TLAPS

----------------------------------------------------------------------------
(* Types                                                                   *)

\* The key that a request asks the cache for is one of its keys.
LEMMA KeyType == \A r \in Requests : CacheKey(r) \in Keys
  BY RequestsAssumption DEF CacheKey, Keys

\* What the model gives, complete or cut off, is a reply.
LEMMA FreshType ==
  \A r \in Requests : \A finished, valid \in BOOLEAN : Fresh(r, finished, valid) \in Replies
  BY DEF Fresh, Replies

\* What a transaction leaves: nothing, or one exchange, in a conversation of the
\* client or one that it opens.
Stored(r, c) ==
    /\ Target(r, c)
    /\ owner' = IF r.conv = None THEN [owner EXCEPT ![c] = r.owner] ELSE owner
    /\ rows' = rows \cup {[req |-> r, conv |-> c, cached |-> reply[r].cached]}
    /\ usage' = usage \cup UsageRow(r)

\* The transaction stores the exchange in one conversation.
LEMMA PersistIsStored ==
  \A r : Persist(r) <=> \E c \in Conversations : Stored(r, c)
  BY DEF Persist, Stored

\* A transaction leaves the tables well typed.
LEMMA DbType ==
  ASSUME TypeOK, NEW r \in Requests, reply[r] # None, Persist(r) \/ UNCHANGED db
  PROVE  /\ owner' \in [Conversations -> Owners \cup {None, Deleted}]
         /\ rows' \subseteq Exchanges
         /\ usage' \subseteq Requests
<1>1. CASE UNCHANGED db
  BY <1>1 DEF TypeOK, db
<1>2. ASSUME NEW c \in Conversations, Stored(r, c)
      PROVE  /\ owner' \in [Conversations -> Owners \cup {None, Deleted}]
             /\ rows' \subseteq Exchanges
             /\ usage' \subseteq Requests
  <2>1. reply[r] \in Replies /\ r.owner \in Owners
    BY RequestsAssumption DEF TypeOK
  <2>2. [req |-> r, conv |-> c, cached |-> reply[r].cached] \in Exchanges
    BY <2>1 DEF Replies, Exchanges
  <2>3. owner' \in [Conversations -> Owners \cup {None, Deleted}]
    BY <1>2, <2>1 DEF Stored, TypeOK
  <2>4. UsageRow(r) \subseteq Requests
    BY DEF UsageRow
  <2> QED
    BY <1>2, <2>2, <2>3, <2>4 DEF Stored, TypeOK
<1> QED
  BY <1>1, <1>2, PersistIsStored

\* The service starts well typed.
LEMMA TypeInit == Init => TypeOK
<1> SUFFICES ASSUME Init
             PROVE  TypeOK
  OBVIOUS
<1>1. /\ owner \in [Conversations -> Owners \cup {None, Deleted}]
      /\ rows \subseteq Exchanges /\ usage \subseteq Requests /\ paid \subseteq Requests
      /\ cache \in [Keys -> Replies \cup {None, Unreadable}]
      /\ bypass \in BOOLEAN
  BY DEF Init
<1>2. /\ pc \in [Requests -> {"new", "over", "gone"} \cup Active]
      /\ reply \in [Requests -> Replies \cup {None}]
  BY DEF Init
<1>3. /\ text \in [Requests -> BOOLEAN]
      /\ status \in [Requests -> {"none", "ok", "notfound", "error"}]
      /\ closing \in [Requests -> {"none", "done", "error", "storage"}]
  BY DEF Init
<1> QED
  BY <1>1, <1>2, <1>3 DEF TypeOK

\* A transaction is only begun with a reply.
HasReply == \A r \in Requests : pc[r] \in {"put", "save"} => reply[r] # None

\* A request that goes on to the transaction has a reply.
LEMMA HasReplyStep ==
  ASSUME TypeOK, HasReply, [Next]_vars
  PROVE  HasReply'
<1> USE DEF TypeOK, HasReply, Goto, Active
<1>1. ASSUME NEW q \in Requests, Progress(q) \/ Gone(q),
             NEW r \in Requests, pc'[r] \in {"put", "save"}
      PROVE  reply'[r] # None
  <2>1. ASSUME Generated(q)
        PROVE  reply'[r] # None
    <3>1. PICK finished, valid \in BOOLEAN :
             /\ reply' = [reply EXCEPT ![q] = Fresh(q, finished, valid)]
             /\ \E s : pc' = [pc EXCEPT ![q] = s]
      BY <2>1 DEF Generated
    <3>2. Fresh(q, finished, valid) # None
      BY FreshType, NoneAssumption
    <3> QED
      BY <1>1, <3>1, <3>2
  <2>2. CASE Generate(q) \/ StreamEnds(q)
    BY <2>1, <2>2 DEF Generate, StreamEnds
  <2>3. CASE Hit(q)
    <3>1. CacheKey(q) \in Keys /\ cache[CacheKey(q)] \in Replies
      BY <2>3, KeyType DEF Hit
    <3>2. [cache[CacheKey(q)] EXCEPT !.cached = TRUE] \in Replies
      BY <3>1 DEF Replies
    <3> QED
      BY <1>1, <2>3, <3>2, NoneAssumption DEF Hit
  <2>4. CASE Start(q) \/ NotFound(q) \/ Refused(q) \/ Miss(q) \/ LookupFails(q)
             \/ FirstPiece(q) \/ StreamRaises(q) \/ ModelFails(q)
    BY <1>1, <2>4 DEF Start, NotFound, Refused, Miss, LookupFails, FirstPiece,
                      StreamRaises, ModelFails, Fail, Cut, Answer
  <2>5. CASE Put(q) \/ PutFails(q) \/ Save(q) \/ SaveFails(q) \/ Gone(q)
    BY <1>1, <2>5 DEF Put, PutFails, Save, SaveFails, Gone, Answer
  <2> QED
    BY <1>1, <2>2, <2>3, <2>4, <2>5 DEF Progress
<1>2. ASSUME UNCHANGED <<pc, reply>>
      PROVE  HasReply'
  BY <1>2
<1> QED
  BY <1>1, <1>2 DEF Next, Open, Delete, Expire, Damage, CooldownEnds, vars

\* No step leaves the types, a transaction included: there is a reply to store.
LEMMA TypeStep ==
  ASSUME TypeOK, HasReply, [Next]_vars
  PROVE  TypeOK'
<1> USE DEF Goto, Active
<1>1. ASSUME NEW r \in Requests, Progress(r) \/ Gone(r)
      PROVE  TypeOK'
  <2>1. CASE Start(r) \/ NotFound(r) \/ Refused(r) \/ Miss(r) \/ LookupFails(r)
    BY <2>1 DEF TypeOK, Start, NotFound, Refused, Miss, LookupFails, Answer, db, kv, sent
  <2>2. CASE Hit(r)
    <3>1. CacheKey(r) \in Keys /\ cache[CacheKey(r)] \in Replies
      BY <2>2, KeyType DEF Hit, TypeOK
    <3>2. [cache[CacheKey(r)] EXCEPT !.cached = TRUE] \in Replies
      BY <3>1 DEF Replies
    <3>3. reply' \in [Requests -> Replies \cup {None}]
      BY <2>2, <3>2 DEF Hit, TypeOK
    <3> QED
      BY <2>2, <3>3 DEF TypeOK, Hit, Deliver, db, kv, sent
  <2>3. CASE Generate(r) \/ StreamEnds(r)
    <3>1. PICK finished, valid \in BOOLEAN :
             /\ reply' = [reply EXCEPT ![r] = Fresh(r, finished, valid)]
             /\ \E s \in {"put", "save"} : pc' = [pc EXCEPT ![r] = s]
      BY <2>3 DEF Generate, StreamEnds, Generated
    <3>2. reply' \in [Requests -> Replies \cup {None}]
      BY <3>1, FreshType DEF TypeOK
    <3> QED
      BY <2>3, <3>1, <3>2 DEF TypeOK, Generate, StreamEnds, db, kv, sent
  <2>4. CASE FirstPiece(r) \/ StreamRaises(r) \/ ModelFails(r)
    BY <2>4 DEF TypeOK, FirstPiece, StreamRaises, ModelFails, Deliver, Fail, Cut, Answer,
                db, kv, sent
  <2>5. ASSUME pc[r] = "put"
        PROVE  [cache EXCEPT ![CacheKey(r)] = reply[r]] \in [Keys -> Replies \cup {None, Unreadable}]
    BY <2>5, KeyType DEF TypeOK
  <2>6. CASE Put(r) \/ PutFails(r)
    BY <2>5, <2>6 DEF TypeOK, Put, PutFails, db, sent
  <2>7. CASE Save(r) \/ SaveFails(r)
    <3>1. /\ owner' \in [Conversations -> Owners \cup {None, Deleted}]
          /\ rows' \subseteq Exchanges
          /\ usage' \subseteq Requests
      BY <2>7, DbType DEF HasReply, Save, SaveFails
    <3> QED
      BY <2>7, <3>1 DEF TypeOK, Save, SaveFails, Answer, kv
  <2>8. CASE Gone(r)
    <3>1. /\ owner' \in [Conversations -> Owners \cup {None, Deleted}]
          /\ rows' \subseteq Exchanges
          /\ usage' \subseteq Requests
      <4>1. CASE pc[r] = "save"
        BY <2>8, <4>1, DbType DEF HasReply, Gone
      <4>2. CASE pc[r] # "save"
        BY <2>8, <4>2 DEF Gone, db, TypeOK
      <4> QED
        BY <4>1, <4>2
    <3>2. cache' \in [Keys -> Replies \cup {None, Unreadable}]
      BY <2>5, <2>8 DEF Gone, TypeOK
    <3> QED
      BY <2>8, <3>1, <3>2 DEF TypeOK, Gone, sent
  <2> QED
    BY <1>1, <2>1, <2>2, <2>3, <2>4, <2>6, <2>7, <2>8 DEF Progress
<1>2. ASSUME NEW o \in Owners, Open(o)
      PROVE  TypeOK'
  BY <1>2 DEF TypeOK, Open, kv, sent
<1>3. ASSUME NEW c \in Conversations, Delete(c)
      PROVE  TypeOK'
  BY <1>3 DEF TypeOK, Delete, kv, sent
<1>4. ASSUME NEW k \in Keys, Expire(k) \/ Damage(k)
      PROVE  TypeOK'
  BY <1>4 DEF TypeOK, Expire, Damage, db, sent
<1>5. ASSUME CooldownEnds \/ UNCHANGED vars
      PROVE  TypeOK'
  BY <1>5 DEF TypeOK, CooldownEnds, vars, db, sent
<1> QED
  BY <1>1, <1>2, <1>3, <1>4, <1>5 DEF Next

\* Type correctness.
THEOREM TypeCorrect == Spec => []TypeOK
<1>1. Init => TypeOK /\ HasReply
  BY TypeInit DEF Init, HasReply
<1>2. (TypeOK /\ HasReply) /\ [Next]_vars => (TypeOK /\ HasReply)'
  BY TypeStep, HasReplyStep
<1> QED
  BY <1>1, <1>2, PTL DEF Spec

----------------------------------------------------------------------------
(* The cache                                                               *)

Fits(k, entry) == entry.by.owner = k[1] /\ entry.by.prompt = k[2] /\ entry.finished

\* Every entry fits its key, every reply that was taken from the cache fits its
\* request, and what is about to be put there is the request's own.
CacheInv ==
    /\ \A k \in Keys : cache[k] \in Replies => Fits(k, cache[k])
    /\ CachedRepliesFit
    /\ \A r \in Requests : pc[r] = "put" =>
         reply[r].by = r /\ reply[r].finished /\ ~reply[r].cached

\* What was generated for a request fits the key of that request.
LEMMA OwnReplyFits ==
  ASSUME NEW r \in Requests, reply[r].by = r, reply[r].finished
  PROVE  Fits(CacheKey(r), reply[r])
  BY DEF Fits, CacheKey

\* Whoever writes the cache writes under the key of its own request.
LEMMA CacheStep ==
  ASSUME TypeOK, CacheInv, [Next]_vars
  PROVE  CacheInv'
<1>1. ASSUME NEW k \in Keys, cache'[k] \in Replies
      PROVE  Fits(k, cache'[k])
  <2>1. CASE cache'[k] = cache[k]
    BY <1>1, <2>1 DEF CacheInv
  <2>2. CASE cache'[k] # cache[k]
    <3>1. PICK r \in Requests : pc[r] = "put" /\ cache' = [cache EXCEPT ![CacheKey(r)] = reply[r]]
      <4>1. ASSUME NEW e \in Keys, Expire(e) \/ Damage(e)
            PROVE  FALSE
        BY <1>1, <2>2, <4>1, NoneAssumption DEF Expire, Damage, TypeOK
      <4> QED
        BY <2>2, <4>1 DEF Next, Progress, Gone, Start, NotFound, Refused, Miss, Hit,
           LookupFails, Generate, FirstPiece, StreamEnds, StreamRaises, ModelFails, Put,
           PutFails, Save, SaveFails, Open, Delete, CooldownEnds, vars, kv
    <3>2. k = CacheKey(r) /\ cache'[k] = reply[r]
      BY <2>2, <3>1 DEF TypeOK
    <3> QED
      BY <3>1, <3>2, OwnReplyFits DEF CacheInv
  <2> QED
    BY <2>1, <2>2
<1>2. ASSUME NEW r \in Requests
      PROVE  /\ reply'[r] # None /\ reply'[r].cached =>
                  /\ reply'[r].by.owner = r.owner
                  /\ reply'[r].by.prompt = r.prompt
                  /\ reply'[r].finished
             /\ pc'[r] = "put" =>
                  reply'[r].by = r /\ reply'[r].finished /\ ~reply'[r].cached
  <2> DEFINE Goal == /\ reply'[r] # None /\ reply'[r].cached =>
                          /\ reply'[r].by.owner = r.owner
                          /\ reply'[r].by.prompt = r.prompt
                          /\ reply'[r].finished
                     /\ pc'[r] = "put" =>
                          reply'[r].by = r /\ reply'[r].finished /\ ~reply'[r].cached
  <2>1. CASE reply'[r] = reply[r] /\ (pc'[r] = "put" => pc[r] = "put")
    BY <2>1 DEF CacheInv, CachedRepliesFit
  <2>2. ASSUME Generated(r)
        PROVE  Goal
    <3>1. PICK finished, valid \in BOOLEAN :
             /\ reply' = [reply EXCEPT ![r] = Fresh(r, finished, valid)]
             /\ pc' = [pc EXCEPT ![r] = IF Keeps(r, finished) /\ ~bypass THEN "put" ELSE "save"]
      BY <2>2 DEF Generated, Goto
    <3>2. reply'[r] = Fresh(r, finished, valid) /\ (pc'[r] = "put" => finished)
      BY <3>1 DEF TypeOK, Keeps
    <3> QED
      BY <3>2 DEF Fresh
  <2>3. ASSUME Hit(r)
        PROVE  Goal
    <3> DEFINE k == CacheKey(r)
    <3>1. k \in Keys /\ cache[k] \in Replies /\ Fits(k, cache[k]) /\ k[1] = r.owner /\ k[2] = r.prompt
      BY <2>3, KeyType DEF Hit, CacheInv, CacheKey, TypeOK
    <3>2. cache[k] \in Replies /\ pc'[r] = "save" /\ reply'[r] = [cache[k] EXCEPT !.cached = TRUE]
      BY <2>3, <3>1 DEF Hit, TypeOK, Goto
    <3> HIDE DEF k
    <3>3. /\ reply'[r].by = cache[k].by /\ reply'[r].finished = cache[k].finished
      BY <3>2 DEF Replies
    <3> QED
      BY <3>1, <3>2, <3>3 DEF Fits
  <2>4. ASSUME NEW q \in Requests, Progress(q) \/ Gone(q),
               ~(q = r /\ (Generate(r) \/ StreamEnds(r) \/ Hit(r)))
        PROVE  reply'[r] = reply[r] /\ (pc'[r] = "put" => pc[r] = "put")
    <3>1. CASE q # r
      BY <2>4, <3>1 DEF Progress, Gone, Start, NotFound, Refused, Miss, Hit,
         LookupFails, Generate, FirstPiece, StreamEnds, StreamRaises, ModelFails, Put,
         PutFails, Save, SaveFails, Goto, Answer, Cut, Fail, Generated, TypeOK
    <3>2. CASE q = r
      BY <2>4, <3>2 DEF Progress, Gone, Start, NotFound, Refused, Miss,
         LookupFails, FirstPiece, StreamRaises, ModelFails, Put,
         PutFails, Save, SaveFails, Goto, Answer, Cut, Fail, TypeOK
    <3> QED
      BY <3>1, <3>2
  <2>5. CASE UNCHANGED <<reply, pc>>
    BY <2>1, <2>5
  <2> QED
    BY <2>1, <2>2, <2>3, <2>4, <2>5
    DEF Next, Progress, Generate, StreamEnds, Open, Delete, Expire, Damage, CooldownEnds, vars
<1> QED
  BY <1>1, <1>2 DEF CacheInv, CachedRepliesFit

\* What comes out of the cache was generated for the same client and the same
\* prompt, and the model finished it.
THEOREM CachedRepliesCorrect == Spec => []CachedRepliesFit
<1>1. Init => TypeOK /\ HasReply /\ CacheInv
  BY TypeInit, NoneAssumption DEF Init, HasReply, CacheInv, CachedRepliesFit
<1>2. (TypeOK /\ HasReply /\ CacheInv) /\ [Next]_vars => (TypeOK /\ HasReply /\ CacheInv)'
  BY TypeStep, HasReplyStep, CacheStep
<1>3. CacheInv => CachedRepliesFit
  BY DEF CacheInv
<1> QED
  BY <1>1, <1>2, <1>3, PTL DEF Spec

----------------------------------------------------------------------------
(* The database                                                            *)

Absent(r) == r \notin usage /\ \A x \in rows : x.req # r
IsStored(r) == \E x \in rows : x.req = r
SomeDeleted == \E c \in Conversations : owner[c] = Deleted

\* What holds of a request wherever it stands.
Standing(r) ==
    /\ pc[r] = "new" => r \notin paid
    /\ pc[r] \in {"reading", "put"} => r \in paid
    /\ pc[r] = "save" => reply[r].cached \/ r \in paid
    /\ pc[r] \in Active /\ r.conv # None => owner[r.conv] \in {r.owner, Deleted}
    /\ text[r] => r.streamed
    /\ pc[r] \in Active \cup {"new"} =>
         closing[r] = "none" /\ status[r] # "notfound" /\ Absent(r)
    /\ closing[r] = "error" \/ status[r] = "notfound" => Absent(r)
    /\ status[r] = "notfound" => r \notin paid
    /\ Delivered(r) => IsStored(r) \/ SomeDeleted

\* A conversation is opened once and deleted once.
OwnersMove ==
    \A c \in Conversations :
        \/ owner'[c] = owner[c]
        \/ owner[c] = None /\ owner'[c] \in Owners
        \/ owner[c] \in Owners /\ owner'[c] = Deleted

\* What a step of somebody else leaves of a request.
Stays(r) ==
    /\ pc'[r] = pc[r] /\ reply'[r] = reply[r] /\ text'[r] = text[r]
    /\ status'[r] = status[r] /\ closing'[r] = closing[r]
    /\ r \in paid' <=> r \in paid
    /\ OwnersMove
    /\ Absent(r) => Absent(r)'
    /\ IsStored(r) => (IsStored(r) \/ SomeDeleted)'

\* A conversation that belonged to a client still does, unless it is deleted.
LEMMA OwnersFacts ==
  ASSUME OwnersMove
  PROVE  /\ SomeDeleted => SomeDeleted'
         /\ \A r \in Requests : r.conv # None /\ owner[r.conv] \in {r.owner, Deleted}
                               => owner'[r.conv] \in {r.owner, Deleted}
<1>1. SomeDeleted => SomeDeleted'
  BY NoneAssumption DEF OwnersMove, SomeDeleted
<1>2. ASSUME NEW r \in Requests, r.conv # None, owner[r.conv] \in {r.owner, Deleted}
      PROVE  owner'[r.conv] \in {r.owner, Deleted}
  BY <1>2, RequestsAssumption, NoneAssumption DEF OwnersMove
<1> QED
  BY <1>1, <1>2

\* A request that takes no step stands where it stood.
LEMMA StandingStays ==
  ASSUME NEW r \in Requests, Standing(r), Stays(r)
  PROVE  Standing(r)'
<1>1. OwnersMove
  BY DEF Stays
<1>2. pc'[r] \in Active /\ r.conv # None => owner'[r.conv] \in {r.owner, Deleted}
  BY <1>1, OwnersFacts DEF Standing, Stays
<1>3. Delivered(r)' => (IsStored(r) \/ SomeDeleted)'
  BY <1>1, OwnersFacts DEF Standing, Stays, Delivered
<1>4. /\ pc'[r] \in Active \cup {"new"} =>
           closing'[r] = "none" /\ status'[r] # "notfound" /\ Absent(r)'
      /\ closing'[r] = "error" \/ status'[r] = "notfound" => Absent(r)'
  BY DEF Standing, Stays
<1> QED
  BY <1>2, <1>3, <1>4 DEF Standing, Stays

\* The ledger and the ownership of what is stored.
Books == LedgerMatchesExchanges /\ OwnConversationsOnly

\* What a transaction does to the database.
LEMMA StoredStep ==
  ASSUME TypeOK, Books, NEW r \in Requests, Standing(r), pc[r] = "save",
         NEW c \in Conversations, Stored(r, c), paid' = paid
  PROVE  /\ Books' /\ OwnersMove /\ IsStored(r)'
         /\ \A q \in Requests : q # r =>
              (Absent(q) => Absent(q)') /\ (IsStored(q) => IsStored(q)')
<1> DEFINE new == [req |-> r, conv |-> c, cached |-> reply[r].cached]
<1>1. rows' = rows \cup {new} /\ usage' = usage \cup UsageRow(r) /\ Target(r, c)
  BY DEF Stored
<1>2. new.req = r /\ new.conv = c /\ new.cached = reply[r].cached
  OBVIOUS
<1> HIDE DEF new
<1>3. r.owner \in Owners /\ Absent(r)
  BY RequestsAssumption DEF Standing, Active
<1>4. \A x \in rows : x.req \in Requests /\ x.conv \in Conversations /\ owner[x.conv] = x.req.owner
  BY DEF TypeOK, Exchanges, Books, OwnConversationsOnly
<1>5. UsageRow(r) = IF reply[r].cached THEN {} ELSE {r}
  BY DEF UsageRow
<1>6. OwnersMove /\ owner'[c] = r.owner
  <2>1. CASE r.conv = None
    BY <1>1, <1>3, <2>1 DEF Stored, Target, OwnersMove, TypeOK
  <2>2. CASE r.conv # None
    BY <1>1, <1>3, <2>2, NoneAssumption DEF Stored, Target, OwnersMove, Standing, Active
  <2> QED
    BY <2>1, <2>2
<1>7. \A x \in rows : owner'[x.conv] = x.req.owner
  <2> SUFFICES ASSUME NEW x \in rows
               PROVE  owner'[x.conv] = owner[x.conv]
    BY <1>4
  <2>1. owner[x.conv] \in Owners /\ x.conv \in Conversations
    BY <1>4, RequestsAssumption
  <2>2. CASE r.conv = None
    BY <1>1, <2>1, <2>2, NoneAssumption DEF Stored, Target, TypeOK
  <2>3. CASE r.conv # None
    BY <2>3 DEF Stored
  <2> QED
    BY <2>2, <2>3
<1>8. OwnConversationsOnly'
  BY <1>1, <1>2, <1>6, <1>7 DEF OwnConversationsOnly
<1>9. LedgerMatchesExchanges'
  <2>1. \A x \in rows : x.req \in usage' <=> ~x.cached
    BY <1>1, <1>3, <1>5 DEF Books, LedgerMatchesExchanges, Absent
  <2>2. new.req \in usage' <=> ~new.cached
    BY <1>1, <1>2, <1>3, <1>5 DEF Absent
  <2>3. usage' \subseteq paid'
    BY <1>1, <1>5 DEF Books, LedgerMatchesExchanges, Standing
  <2> QED
    BY <1>1, <2>1, <2>2, <2>3 DEF LedgerMatchesExchanges
<1>10. \A q \in Requests : q # r => (Absent(q) => Absent(q)') /\ (IsStored(q) => IsStored(q)')
  BY <1>1, <1>2, <1>5 DEF Absent, IsStored
<1>11. IsStored(r)'
  BY <1>1, <1>2 DEF IsStored
<1> QED
  BY <1>6, <1>8, <1>9, <1>10, <1>11 DEF Books

\* A step of a request: what it does to the database, or that it does nothing.
LEMMA DbStep ==
  ASSUME TypeOK, Books, NEW r \in Requests, Standing(r), Progress(r) \/ Gone(r)
  PROVE  \/ pc[r] = "save" /\ \E c \in Conversations : Stored(r, c)
         \/ UNCHANGED db
  BY PersistIsStored
  DEF Progress, Gone, Start, NotFound, Refused, Miss, Hit, LookupFails, Generate, FirstPiece,
      StreamEnds, StreamRaises, ModelFails, Put, PutFails, Save, SaveFails

\* Only the model costs, and only the request that asks it.
LEMMA PaidStep ==
  ASSUME NEW r \in Requests, Progress(r) \/ Gone(r)
  PROVE  /\ paid \subseteq paid' /\ paid' \subseteq paid \cup {r}
         /\ pc[r] = "save" => paid' = paid
  BY DEF Progress, Gone, Start, NotFound, Refused, Miss, Hit, LookupFails, Generate, FirstPiece,
         StreamEnds, StreamRaises, ModelFails, Put, PutFails, Save, SaveFails

\* Every step keeps the ledger and the owners: nothing is stored twice, or elsewhere.
LEMMA BooksStep ==
  ASSUME TypeOK, Books, \A r \in Requests : Standing(r), [Next]_vars
  PROVE  Books' /\ OwnersMove
<1>1. ASSUME NEW r \in Requests, Progress(r) \/ Gone(r)
      PROVE  Books' /\ OwnersMove
  <2>1. CASE UNCHANGED db
    BY <1>1, <2>1, PaidStep DEF db, Books, LedgerMatchesExchanges, OwnConversationsOnly, OwnersMove
  <2>2. CASE pc[r] = "save" /\ \E c \in Conversations : Stored(r, c)
    BY <1>1, <2>2, PaidStep, StoredStep
  <2> QED
    BY <1>1, <2>1, <2>2, DbStep
<1>2. ASSUME NEW o \in Owners, Open(o)
      PROVE  Books' /\ OwnersMove
  <2>1. PICK c \in Conversations : owner[c] = None /\ owner' = [owner EXCEPT ![c] = o]
    BY <1>2 DEF Open
  <2>2. \A x \in rows : x.conv # c /\ x.conv \in Conversations
    BY <2>1, RequestsAssumption, NoneAssumption DEF Books, OwnConversationsOnly, TypeOK, Exchanges
  <2> QED
    BY <1>2, <2>1, <2>2 DEF Open, TypeOK, Books, LedgerMatchesExchanges, OwnConversationsOnly, OwnersMove
<1>3. ASSUME NEW c \in Conversations, Delete(c)
      PROVE  Books' /\ OwnersMove
  <2>1. \A x \in rows' : x \in rows /\ x.conv # c /\ x.conv \in Conversations
    BY <1>3 DEF Delete, TypeOK, Exchanges
  <2> QED
    BY <1>3, <2>1 DEF Delete, TypeOK, Books, LedgerMatchesExchanges, OwnConversationsOnly, OwnersMove
<1>4. ASSUME UNCHANGED <<db, paid>>
      PROVE  Books' /\ OwnersMove
  BY <1>4 DEF db, Books, LedgerMatchesExchanges, OwnConversationsOnly, OwnersMove
<1> QED
  BY <1>1, <1>2, <1>3, <1>4 DEF Next, Expire, Damage, CooldownEnds, vars, db

\* What others do leaves a request alone, and does not undo what it has stored.
LEMMA OthersStay ==
  ASSUME TypeOK, Books, \A q \in Requests : Standing(q), [Next]_vars,
         NEW r \in Requests, ~(Progress(r) \/ Gone(r))
  PROVE  Stays(r)
<1>1. OwnersMove
  BY BooksStep
<1>2. ASSUME NEW q \in Requests, Progress(q) \/ Gone(q), q # r
      PROVE  Stays(r)
  <2>1. /\ pc'[r] = pc[r] /\ reply'[r] = reply[r] /\ text'[r] = text[r]
        /\ status'[r] = status[r] /\ closing'[r] = closing[r]
    BY <1>2 DEF Progress, Gone, Start, NotFound, Refused, Miss, Hit, LookupFails, Generate,
       FirstPiece, StreamEnds, StreamRaises, ModelFails, Put, PutFails, Save, SaveFails,
       Goto, Answer, Cut, Fail, Generated, Deliver, sent, TypeOK
  <2>2. r \in paid' <=> r \in paid
    BY <1>2, PaidStep
  <2>3. (Absent(r) => Absent(r)') /\ (IsStored(r) => IsStored(r)')
    <3>1. CASE UNCHANGED db
      BY <3>1 DEF db, Absent, IsStored
    <3>2. CASE pc[q] = "save" /\ \E c \in Conversations : Stored(q, c)
      BY <1>2, <3>2, PaidStep, StoredStep
    <3> QED
      BY <1>2, <3>1, <3>2, DbStep
  <2> QED
    BY <1>1, <2>1, <2>2, <2>3 DEF Stays
<1>3. ASSUME NEW c \in Conversations, Delete(c)
      PROVE  Stays(r)
  <2>1. rows' \subseteq rows /\ usage' = usage /\ owner'[c] = Deleted
    BY <1>3 DEF Delete, TypeOK
  <2> QED
    BY <1>1, <1>3, <2>1 DEF Delete, Stays, Absent, IsStored, SomeDeleted, sent
<1>4. ASSUME UNCHANGED <<rows, usage, pc, reply, sent, paid>>
      PROVE  Stays(r)
  BY <1>1, <1>4 DEF Stays, Absent, IsStored, sent
<1> QED
  BY <1>2, <1>3, <1>4 DEF Next, Open, Expire, Damage, CooldownEnds, vars, db, sent

\* A step of the request itself that leaves the database alone.
LEMMA StandingBefore ==
  ASSUME TypeOK, NEW r \in Requests, Standing(r),
         \/ Start(r) \/ NotFound(r) \/ Refused(r) \/ Miss(r) \/ Hit(r) \/ LookupFails(r)
         \/ Generate(r) \/ FirstPiece(r) \/ StreamEnds(r) \/ StreamRaises(r) \/ ModelFails(r)
         \/ Put(r) \/ PutFails(r)
  PROVE  Standing(r)'
<1>0. UNCHANGED db /\ (Absent(r) => Absent(r)') /\ (IsStored(r) => IsStored(r)')
      /\ (SomeDeleted => SomeDeleted')
  BY DEF Start, NotFound, Refused, Miss, Hit, LookupFails, Generate, FirstPiece, StreamEnds,
         StreamRaises, ModelFails, Put, PutFails, db, Absent, IsStored, SomeDeleted
<1>1. owner' = owner
  BY <1>0 DEF db
<1> USE DEF TypeOK, Goto
<1>2. CASE Start(r)
  <2>1. /\ pc[r] = "new" /\ pc'[r] \in {"lookup", "generate"} /\ MayUse(r)
        /\ UNCHANGED <<reply, text, status, closing, paid>>
    BY <1>2 DEF Start, sent
  <2> QED
    BY <1>0, <1>1, <2>1 DEF Standing, Delivered, Active, MayUse
<1>3. CASE NotFound(r) \/ Refused(r)
  <2>1. /\ pc[r] = "new" /\ pc'[r] = "over" /\ status'[r] \in {"notfound", "error"}
        /\ UNCHANGED <<reply, text, closing, paid>>
    BY <1>3 DEF NotFound, Refused, Answer
  <2> QED
    BY <1>0, <1>1, <2>1 DEF Standing, Delivered, Active
<1>4. CASE Miss(r) \/ LookupFails(r)
  <2>1. /\ pc[r] = "lookup" /\ pc'[r] = "generate"
        /\ UNCHANGED <<reply, text, status, closing, paid>>
    BY <1>4 DEF Miss, LookupFails, sent
  <2> QED
    BY <1>0, <1>1, <2>1 DEF Standing, Delivered, Active
<1>5. CASE Hit(r)
  <2>1. cache[CacheKey(r)] \in Replies
    BY <1>5, KeyType DEF Hit
  <2>2. [cache[CacheKey(r)] EXCEPT !.cached = TRUE].cached
    BY <2>1 DEF Replies
  <2>3. /\ pc[r] = "lookup" /\ pc'[r] = "save" /\ reply'[r].cached
        /\ text'[r] => text[r] \/ r.streamed
        /\ status'[r] \in {status[r], "ok"}
        /\ UNCHANGED <<closing, paid>>
    BY <1>5, <2>2 DEF Hit, Deliver, sent
  <2> QED
    BY <1>0, <1>1, <2>3 DEF Standing, Delivered, Active
<1>6. CASE Generate(r) \/ StreamEnds(r)
  <2>1. /\ pc[r] \in {"generate", "reading"} /\ pc'[r] \in {"put", "save"} /\ r \in paid'
        /\ UNCHANGED <<text, status, closing>>
    BY <1>6 DEF Generate, StreamEnds, Generated, sent, Standing
  <2> QED
    BY <1>0, <1>1, <2>1 DEF Standing, Delivered, Active
<1>7. CASE FirstPiece(r)
  <2>1. /\ pc[r] = "generate" /\ pc'[r] = "reading" /\ r \in paid' /\ r.streamed
        /\ status'[r] = "ok"
        /\ UNCHANGED <<reply, closing>>
    BY <1>7 DEF FirstPiece, Deliver
  <2> QED
    BY <1>0, <1>1, <2>1 DEF Standing, Delivered, Active
<1>8. CASE StreamRaises(r) \/ ModelFails(r)
  <2>1. /\ pc[r] \in {"generate", "reading"} /\ pc'[r] = "over"
        /\ UNCHANGED <<text, reply, paid>>
        /\ closing'[r] \in {closing[r], "error"} /\ status'[r] \in {status[r], "error"}
        /\ status'[r] # "error" => text[r]
    BY <1>8 DEF StreamRaises, ModelFails, Fail, Cut, Answer, sent
  <2> QED
    BY <1>0, <1>1, <2>1 DEF Standing, Delivered, Active
<1>9. CASE Put(r) \/ PutFails(r)
  <2>1. /\ pc[r] = "put" /\ pc'[r] = "save"
        /\ UNCHANGED <<reply, text, status, closing, paid>>
    BY <1>9 DEF Put, PutFails, sent
  <2> QED
    BY <1>0, <1>1, <2>1 DEF Standing, Delivered, Active
<1> QED
  BY <1>2, <1>3, <1>4, <1>5, <1>6, <1>7, <1>8, <1>9

\* The transaction, and whatever ends a request early.
LEMMA StandingAfter ==
  ASSUME TypeOK, Books, NEW r \in Requests, Standing(r), Save(r) \/ SaveFails(r) \/ Gone(r)
  PROVE  Standing(r)'
<1> USE DEF TypeOK, Goto
<1>1. CASE Save(r)
  <2>1. IsStored(r)'
    <3>1. pc[r] = "save" /\ (\E c \in Conversations : Stored(r, c)) /\ paid' = paid
      BY <1>1, PersistIsStored DEF Save
    <3> QED
      BY <3>1, StoredStep
  <2>2. /\ pc[r] = "save" /\ pc'[r] = "over"
        /\ closing'[r] # "error" /\ status'[r] # "notfound"
        /\ text' = text
    BY <1>1 DEF Save, Answer, Standing, Active
  <2> QED
    BY <2>1, <2>2 DEF Standing, Delivered, Active
<1>2. CASE SaveFails(r)
  <2>1. /\ pc[r] = "save" /\ pc'[r] = "over"
        /\ closing'[r] \in {"none", "storage"} /\ status'[r] # "notfound"
        /\ ~r.streamed => status'[r] = "error"
        /\ text' = text
    BY <1>2 DEF SaveFails, Answer, Standing, Active
  <2> QED
    BY <2>1 DEF Standing, Delivered, Active
<1>3. CASE Gone(r)
  <2>1. /\ pc[r] \in Active /\ pc'[r] = "gone"
        /\ UNCHANGED <<text, status, closing>>
    BY <1>3 DEF Gone, sent
  <2>2. closing'[r] = "none" /\ status'[r] # "notfound" /\ (text'[r] => r.streamed)
    BY <2>1 DEF Standing
  <2> QED
    BY <2>1, <2>2 DEF Standing, Delivered, Active
<1> QED
  BY <1>1, <1>2, <1>3

\* Every step leaves what each stage of a request says of the database true.
LEMMA StandingStep ==
  ASSUME TypeOK, Books, \A q \in Requests : Standing(q), [Next]_vars, NEW r \in Requests
  PROVE  Standing(r)'
<1>1. CASE Progress(r) \/ Gone(r)
  BY <1>1, StandingBefore, StandingAfter DEF Progress
<1>2. CASE ~(Progress(r) \/ Gone(r))
  BY <1>2, OthersStay, StandingStays
<1> QED
  BY <1>1, <1>2

ExchangeInv == TypeOK /\ HasReply /\ Books /\ \A r \in Requests : Standing(r)

\* The invariant holds throughout.
LEMMA ExchangeInvariant == Spec => []ExchangeInv
<1>1. Init => ExchangeInv
  <2> SUFFICES ASSUME Init
               PROVE  ExchangeInv
    OBVIOUS
  <2>1. Books
    BY DEF Init, Books, LedgerMatchesExchanges, OwnConversationsOnly
  <2>2. \A r \in Requests : Standing(r)
    BY DEF Init, Standing, Delivered, Absent, Active
  <2>3. HasReply
    BY DEF Init, HasReply
  <2> QED
    BY <2>1, <2>2, <2>3, TypeInit DEF ExchangeInv
<1>2. ExchangeInv /\ [Next]_vars => ExchangeInv'
  BY TypeStep, HasReplyStep, BooksStep, StandingStep DEF ExchangeInv
<1> QED
  BY <1>1, <1>2, PTL DEF Spec

\* A client's exchanges are only ever found in conversations of its own.
THEOREM OwnershipCorrect == Spec => []OwnConversationsOnly
<1>1. ExchangeInv => OwnConversationsOnly
  BY DEF ExchangeInv, Books
<1> QED
  BY <1>1, ExchangeInvariant, PTL

\* The ledger charges a stored exchange exactly when the model was called for it.
THEOREM LedgerCorrect == Spec => []LedgerMatchesExchanges
<1>1. ExchangeInv => LedgerMatchesExchanges
  BY DEF ExchangeInv, Books
<1> QED
  BY <1>1, ExchangeInvariant, PTL

\* What a client was told is true of the database.
THEOREM AnswersCorrect == Spec => []AnswersAreTrue
<1>1. ExchangeInv => AnswersAreTrue
  BY DEF ExchangeInv, Standing, Absent, IsStored, SomeDeleted, AnswersAreTrue
<1> QED
  BY <1>1, ExchangeInvariant, PTL

----------------------------------------------------------------------------
(* The charge                                                              *)

\* A reply that was paid for is no cached one, and delivered only with its row.
Charged(r) ==
    /\ pc[r] \in {"new", "lookup"} => r \notin paid
    /\ pc[r] \in {"put", "save"} /\ r \in paid => ~reply[r].cached
    /\ r \in paid /\ Delivered(r) => r \in usage

\* No step takes a usage row away, whoever takes it.
LEMMA UsageGrows == [Next]_vars => usage \subseteq usage'
<1>1. ASSUME NEW r \in Requests, Progress(r) \/ Gone(r)
      PROVE  usage \subseteq usage'
  BY <1>1 DEF Progress, Gone, Start, NotFound, Refused, Miss, Hit, LookupFails, Generate,
              FirstPiece, StreamEnds, StreamRaises, ModelFails, Put, PutFails, Save, SaveFails,
              Persist, db
<1> QED
  BY <1>1 DEF Next, Open, Delete, Expire, Damage, CooldownEnds, vars, db

\* Up to the transaction nothing is delivered, and a paid reply is a fresh one.
LEMMA ChargedBefore ==
  ASSUME TypeOK, NEW r \in Requests, Standing(r), Charged(r),
         \/ Start(r) \/ NotFound(r) \/ Refused(r) \/ Miss(r) \/ Hit(r) \/ LookupFails(r)
         \/ Generate(r) \/ FirstPiece(r) \/ StreamEnds(r) \/ StreamRaises(r) \/ ModelFails(r)
         \/ Put(r) \/ PutFails(r)
  PROVE  Charged(r)'
<1> USE DEF TypeOK, Goto
<1>1. CASE Start(r) \/ NotFound(r) \/ Refused(r) \/ Miss(r) \/ Hit(r) \/ LookupFails(r)
  <2>1. r \notin paid'
    BY <1>1 DEF Start, NotFound, Refused, Miss, Hit, LookupFails, Charged
  <2> QED
    BY <2>1 DEF Charged
<1>2. CASE Generate(r) \/ StreamEnds(r)
  <2>1. /\ ~reply'[r].cached /\ pc'[r] \in {"put", "save"} /\ closing'[r] = "none"
    BY <1>2 DEF Generate, StreamEnds, Generated, Fresh, sent, Standing, Active
  <2> QED
    BY <2>1 DEF Charged, Delivered
<1>3. CASE FirstPiece(r)
  <2>1. pc'[r] = "reading" /\ closing'[r] = "none"
    BY <1>3 DEF FirstPiece, Deliver, Standing, Active
  <2> QED
    BY <2>1 DEF Charged, Delivered
<1>4. CASE StreamRaises(r) \/ ModelFails(r)
  <2>1. /\ pc'[r] = "over" /\ closing'[r] # "done"
        /\ ~r.streamed => status'[r] = "error"
    BY <1>4 DEF StreamRaises, ModelFails, Fail, Cut, Answer, sent, Standing, Active
  <2> QED
    BY <2>1 DEF Charged, Delivered
<1>5. CASE Put(r) \/ PutFails(r)
  <2>1. /\ pc[r] = "put" /\ pc'[r] = "save" /\ closing'[r] = "none"
        /\ UNCHANGED <<reply, paid>>
    BY <1>5 DEF Put, PutFails, sent, Standing, Active
  <2> QED
    BY <2>1 DEF Charged, Delivered
<1> QED
  BY <1>1, <1>2, <1>3, <1>4, <1>5

\* The transaction writes the row before the client hears of it; a request that
\* fails or goes then has nothing delivered.
LEMMA ChargedAfter ==
  ASSUME TypeOK, NEW r \in Requests, Standing(r), Charged(r),
         Save(r) \/ SaveFails(r) \/ Gone(r)
  PROVE  Charged(r)'
<1> USE DEF TypeOK, Goto
<1>1. CASE Save(r)
  <2>1. /\ pc[r] = "save" /\ pc'[r] = "over" /\ UNCHANGED <<reply, paid>>
        /\ usage' = usage \cup UsageRow(r)
    BY <1>1 DEF Save, Persist, Answer
  <2>2. r \in paid' => r \in usage'
    BY <2>1 DEF Charged, UsageRow
  <2> QED
    BY <2>1, <2>2 DEF Charged
<1>2. CASE SaveFails(r)
  <2>1. /\ pc'[r] = "over" /\ closing'[r] # "done"
        /\ ~r.streamed => status'[r] = "error"
    BY <1>2 DEF SaveFails, Answer, Standing, Active
  <2> QED
    BY <2>1 DEF Charged, Delivered
<1>3. CASE Gone(r)
  <2>1. pc'[r] = "gone" /\ closing'[r] = "none"
    BY <1>3 DEF Gone, sent, Standing
  <2> QED
    BY <2>1 DEF Charged, Delivered
<1> QED
  BY <1>1, <1>2, <1>3

\* Every step keeps delivered replies charged, those of other requests too.
LEMMA ChargedStep ==
  ASSUME ExchangeInv, [Next]_vars, NEW r \in Requests, Charged(r)
  PROVE  Charged(r)'
<1>1. TypeOK /\ Books /\ \A q \in Requests : Standing(q)
  BY DEF ExchangeInv
<1>2. CASE Progress(r) \/ Gone(r)
  BY <1>1, <1>2, ChargedBefore, ChargedAfter DEF Progress
<1>3. CASE ~(Progress(r) \/ Gone(r))
  <2>1. Stays(r)
    BY <1>1, <1>3, OthersStay
  <2> QED
    BY <2>1, UsageGrows DEF Stays, Charged, Delivered
<1> QED
  BY <1>2, <1>3

\* A reply that the model was paid for and that was delivered whole has its row in
\* the ledger, whatever is deleted afterwards.
THEOREM ChargesCorrect == Spec => []DeliveredIsCharged
<1>1. Init => \A r \in Requests : Charged(r)
  BY DEF Init, Charged
<1>2. ExchangeInv /\ (\A r \in Requests : Charged(r)) /\ [Next]_vars
        => (\A r \in Requests : Charged(r))'
  BY ChargedStep
<1>3. TypeOK /\ (\A r \in Requests : Charged(r)) => DeliveredIsCharged
  BY DEF TypeOK, Charged, DeliveredIsCharged
<1>4. ExchangeInv => TypeOK
  BY DEF ExchangeInv
<1> QED
  BY <1>1, <1>2, <1>3, <1>4, ExchangeInvariant, PTL DEF Spec

=============================================================================
