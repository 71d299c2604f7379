------------------------------ MODULE Records ------------------------------
(***************************************************************************)
(* What is written to the database and read back from it: the transactions *)
(* of ChatService._persist_exchange and of the analysis ledger with the    *)
(* rows in the order of messages.seq, app/services/conversations.py and    *)
(* app/api/conversations.py, app/services/usage.py and app/api/usage.py,   *)
(* over app/db/repository.py and app/db/models.py.                         *)
(*                                                                         *)
(* A step inserts one row, commits or reads: PostgreSQL runs transactions  *)
(* concurrently (READ COMMITTED), and a sequence hands out its numbers     *)
(* when a row is inserted, not when it is committed, and never takes one   *)
(* back.                                                                   *)
(*                                                                         *)
(* Abstracted: a message is the role it has in an exchange; what comes     *)
(* before the transaction is module Exchange.  Days are the unit of time.  *)
(***************************************************************************)
EXTENDS Billing, FiniteSets, SequencesExt

CONSTANTS
    Works,         \* records [id, owner, conv, kind, model, input, output] that write rows
    Reads,         \* records [id, client, admin, conv]: GET .../messages
    Reports,       \* records [id, days]: GET /v1/usage, GET /v1/usage/cost
    Clients,
    Conversations, \* the ids of conversations
    Present,       \* the owner of each conversation at the start; Nobody: from before
                   \* owners were recorded, None: not there yet
    Models,
    Tariffs,       \* a sequence: the price list of each process, one after the other
    Rate,          \* usd_to_rub, in hundredths
    Days,          \* the days at which the clock may stand: a bound on time
    None, Nobody, Deleted

Prices == [input : Nat, output : Nat]
Kinds == {"fresh", "cached", "analysis", "rejected"}

ASSUME WorksAssumption ==
    \A w \in Works :
        /\ w.owner \in Clients /\ w.conv \in Conversations \cup {None}
        /\ w.kind \in Kinds /\ w.model \in Models
        /\ w.input \in Nat /\ w.output \in Nat
ASSUME ReadsAssumption ==
    \A r \in Reads : r.client \in Clients /\ r.admin \in BOOLEAN /\ r.conv \in Conversations
ASSUME ReportsAssumption == \A p \in Reports : p.days \in 1..365
ASSUME TariffsAssumption ==
    /\ Tariffs \in Seq([Models -> Prices \cup {None}]) /\ Tariffs # <<>>
    /\ Rate \in Nat /\ Days \subseteq Nat /\ 0 \in Days
ASSUME NamesAssumption ==
    /\ Present \in [Conversations -> Clients \cup {None, Nobody}]
    /\ None # Nobody /\ None # Deleted /\ Nobody # Deleted
    /\ {None, Nobody, Deleted} \cap Clients = {}
    /\ None \notin Conversations /\ None \notin Prices /\ None \notin Nat

VARIABLES
    owner,    \* the owner of each conversation; Nobody: NULL
    messages, \* the committed rows of messages
    usage,    \* the committed rows of usage_logs
    seq,      \* the last number messages.seq was given
    tariff,   \* the price list of the running process
    today,
    stage,    \* where the transaction of each work stands
    draft,    \* its conversation, and the rows it has inserted and not committed
    earlier,  \* history: the works acknowledged before a transaction began
    reading,  \* the reads that have passed the check and not made the list
    due,      \* history: the works of the conversation acknowledged before a read began
    spent     \* history: what was spent, at which time, at the exact price

vars == <<owner, messages, usage, seq, tariff, today, stage, draft, earlier,
          reading, due, spent>>

rows == <<owner, messages, usage, spent>>
writers == <<seq, stage, draft, earlier>>
readers == <<reading, due>>

IsChat(w) == w.kind \in {"fresh", "cached"}

Messages == [work : Works, conv : Conversations, role : {"user", "assistant"}, seq : Nat]
Charges == [work : Works, cost : Nat \cup {None}, at : Nat]
Drafts == [conv : Conversations \cup {None}, rows : SUBSET Messages, charges : SUBSET Charges]

NoDraft == [conv |-> None, rows |-> {}, charges |-> {}]
Open == {"asked", "answered"}

\* What is left of a transaction that was committed: the id in the answer.
Told(w) == [NoDraft EXCEPT !.conv = draft[w].conv]

TypeOK ==
    /\ owner \in [Conversations -> Clients \cup {None, Nobody, Deleted}]
    /\ messages \subseteq Messages
    /\ usage \subseteq Charges
    /\ seq \in Nat
    /\ tariff \in DOMAIN Tariffs
    /\ today \in Days
    /\ stage \in [Works -> {"new", "stored", "lost"} \cup Open]
    /\ draft \in [Works -> Drafts]
    /\ \A w \in Works : stage[w] \in Open => draft[w].conv \in Conversations
    /\ earlier \in [Works -> SUBSET Works]
    /\ reading \subseteq Reads
    /\ due \in [Reads -> SUBSET Works]
    /\ spent \subseteq [work : Works, exact : Nat \cup {None}, at : Nat]

Init ==
    /\ owner = Present
    /\ messages = {} /\ usage = {} /\ spent = {}
    /\ seq = 0
    /\ tariff = 1
    /\ today = 0
    /\ stage = [w \in Works |-> "new"]
    /\ draft = [w \in Works |-> NoDraft]
    /\ earlier = [w \in Works |-> {}]
    /\ reading = {}
    /\ due = [r \in Reads |-> {}]

Exists(c) == owner[c] \notin {None, Deleted}
Unused(c) == owner[c] = None /\ \A w \in Works : draft[w].conv # c
Locked(c) == \E w \in Works : stage[w] \in Open /\ draft[w].conv = c
Acknowledged == {w \in Works : stage[w] = "stored"}

----------------------------------------------------------------------------
(* Writing: one transaction per exchange, one per analysis                 *)

Row(w, c, role, n) == [work |-> w, conv |-> c, role |-> role, seq |-> n]

\* The conversation of the exchange: a new one, or the one that was named and
\* found to be the client's own before the model was called.
Target(w, c) ==
    IF w.conv = None THEN Unused(c)
                     ELSE c = w.conv /\ owner[c] = w.owner

\* Mutant of Question: the question is committed before the reply is inserted.
QuestionCommitted(w) ==
    /\ stage[w] = "new" /\ IsChat(w)
    /\ \E c \in Conversations :
         /\ Target(w, c) /\ w.conv # None
         /\ draft' = [draft EXCEPT ![w] = [NoDraft EXCEPT !.conv = c]]
         /\ messages' = messages \cup {Row(w, c, "user", seq + 1)}
    /\ seq' = seq + 1
    /\ stage' = [stage EXCEPT ![w] = "asked"]
    /\ earlier' = [earlier EXCEPT ![w] = Acknowledged]
    /\ UNCHANGED <<owner, usage, spent, tariff, today, readers>>

\* INSERT of the conversation, if it is new, and of the question.
Question(w) ==
    /\ stage[w] = "new" /\ IsChat(w)
    /\ \E c \in Conversations :
         /\ Target(w, c)
         /\ draft' = [draft EXCEPT ![w] = [NoDraft EXCEPT !.conv = c,
                                               !.rows = {Row(w, c, "user", seq + 1)}]]
    /\ seq' = seq + 1
    /\ stage' = [stage EXCEPT ![w] = "asked"]
    /\ earlier' = [earlier EXCEPT ![w] = Acknowledged]
    /\ UNCHANGED <<rows, tariff, today, readers>>

\* PriceList.cost_usd with the prices in force, None for a model without a price.
Cost(w) ==
    LET price == Tariffs[tariff][w.model]
    IN  IF price = None THEN None ELSE StoredCost(price, w.input, w.output)

Charge(w) == [work |-> w, cost |-> Cost(w), at |-> today]

\* INSERT of the reply, and of the usage row unless the reply was cached.
Answer(w) ==
    /\ stage[w] = "asked"
    /\ draft' = [draft EXCEPT
                   ![w].rows = @ \cup {Row(w, draft[w].conv, "assistant", seq + 1)},
                   ![w].charges = IF w.kind = "cached" THEN {} ELSE {Charge(w)}]
    /\ seq' = seq + 1
    /\ stage' = [stage EXCEPT ![w] = "answered"]
    /\ UNCHANGED <<rows, earlier, tariff, today, readers>>

Exact(w) ==
    LET price == Tariffs[tariff][w.model]
    IN  IF price = None THEN None ELSE ExactCost(price, w.input, w.output)

\* COMMIT publishes the rows of the transaction all at once.
Publish(w) ==
    /\ owner' = IF IsChat(w) /\ w.conv = None THEN [owner EXCEPT ![draft[w].conv] = w.owner]
                                              ELSE owner
    /\ messages' = messages \cup draft[w].rows
    /\ usage' = usage \cup draft[w].charges
    /\ spent' = spent \cup {[work |-> u.work, exact |-> Exact(w), at |-> u.at] :
                              u \in draft[w].charges}

\* Mutant of Commit: the session is closed without a commit.
CommitForgotten(w) ==
    /\ stage[w] = "answered"
    /\ stage' = [stage EXCEPT ![w] = "stored"]
    /\ draft' = [draft EXCEPT ![w] = Told(w)]
    /\ UNCHANGED <<rows, seq, earlier, tariff, today, readers>>

Commit(w) ==
    /\ stage[w] = "answered"
    /\ Publish(w)
    /\ stage' = [stage EXCEPT ![w] = "stored"]
    /\ draft' = [draft EXCEPT ![w] = Told(w)]
    /\ UNCHANGED <<seq, earlier, tariff, today, readers>>

\* A statement fails or the request is cancelled, and everything is rolled back;
\* or the COMMIT was done and its answer was lost.  The numbers are not given back.
Abandon(w) ==
    /\ stage[w] \in Open
    /\ \/ UNCHANGED rows
       \/ stage[w] = "answered" /\ Publish(w)
    /\ stage' = [stage EXCEPT ![w] = "lost"]
    /\ draft' = [draft EXCEPT ![w] = NoDraft]
    /\ UNCHANGED <<seq, earlier, tariff, today, readers>>

\* The only row of an analysis, be it a success or a failure: a transaction of
\* one statement, which is done or not.
Account(w) ==
    /\ stage[w] = "new" /\ ~IsChat(w)
    /\ \/ /\ usage' = usage \cup {Charge(w)}
          /\ spent' = spent \cup {[work |-> w, exact |-> Exact(w), at |-> today]}
          /\ stage' = [stage EXCEPT ![w] = "stored"]
       \/ /\ stage' = [stage EXCEPT ![w] = "lost"]
          /\ UNCHANGED <<usage, spent>>
    /\ UNCHANGED <<owner, messages, seq, draft, earlier, tariff, today, readers>>

\* POST /v1/conversations
Create(o) ==
    /\ \E c \in Conversations :
         /\ Unused(c)
         /\ owner' = [owner EXCEPT ![c] = o]
    /\ UNCHANGED <<messages, usage, spent, writers, tariff, today, readers>>

\* Mutant of Delete: ON DELETE CASCADE on usage_logs too.
DeleteWithCosts(c) ==
    /\ Exists(c)
    /\ ~Locked(c)
    /\ owner' = [owner EXCEPT ![c] = Deleted]
    /\ messages' = {m \in messages : m.conv # c}
    /\ usage' = {u \in usage : \A m \in messages : m.conv = c => m.work # u.work}
    /\ UNCHANGED <<spent, writers, tariff, today, readers>>

\* An operator deletes a conversation.  Its messages go with it (ON DELETE
\* CASCADE), what it cost does not (ON DELETE SET NULL).  An open transaction
\* that refers to it locks it.
Delete(c) ==
    /\ Exists(c)
    /\ ~Locked(c)
    /\ owner' = [owner EXCEPT ![c] = Deleted]
    /\ messages' = {m \in messages : m.conv # c}
    /\ UNCHANGED <<usage, spent, writers, tariff, today, readers>>

----------------------------------------------------------------------------
(* Reading a conversation                                                  *)

\* Mutant of MayRead: a conversation without an owner belongs to everybody.
MayReadUnowned(r) == Exists(r.conv) /\ (r.admin \/ owner[r.conv] \in {r.client, Nobody})

\* conversations.get: "Not yours is reported as not found (...) An admin may
\* read any conversation".
MayRead(r) == Exists(r.conv) /\ (r.admin \/ owner[r.conv] = r.client)

Has(c) == {m \in messages : m.conv = c}

\* The first SELECT of list_messages, the only one of GET /v1/conversations/{id}.
Check(r) ==
    /\ r \notin reading
    /\ MayRead(r)
    /\ reading' = reading \cup {r}
    /\ due' = [due EXCEPT ![r] = {w \in Acknowledged : draft[w].conv = r.conv}]
    /\ UNCHANGED <<rows, writers, tariff, today>>

\* The rows of ms in the order in which they come before one another.
Arranged(ms, Before(_, _)) ==
    [i \in 1..Cardinality(ms) |->
        CHOOSE m \in ms : Cardinality({x \in ms : Before(x, m)}) = i - 1]

\* Mutant of InOrder: the newest message comes first.
NewestFirst(ms) == Arranged(ms, LAMBDA x, y : x.seq > y.seq)

\* ORDER BY seq
InOrder(ms) == Arranged(ms, LAMBDA x, y : x.seq < y.seq)

\* The second SELECT, with a snapshot of its own: what it gives now.
Listing(c) == InOrder(Has(c))

\* It is answered, or the reader is gone.
List(r) ==
    /\ r \in reading
    /\ reading' = reading \ {r}
    /\ due' = [due EXCEPT ![r] = {}]
    /\ UNCHANGED <<rows, writers, tariff, today>>

----------------------------------------------------------------------------
(* Reporting                                                               *)

\* created_at >= now - days
InWindow(p) == {u \in usage : u.at >= today - p.days}

Priced(us) == {u \in us : u.cost # None}

\* A row of GROUP BY model, with the columns of ModelUsage and ModelCost.
OfModel(us) ==
    LET cost == SumFunction([u \in Priced(us) |-> u.cost]) IN
      [requests |-> Cardinality(us),
       failed   |-> Cardinality({u \in us : u.work.kind = "rejected"}),
       tokens   |-> SumFunction([u \in us |-> u.work.input + u.work.output]),
       cost     |-> cost,
       rub      |-> Rub(cost, Rate),
       unpriced |-> Cardinality(us \ Priced(us))]

ByModel(us) == [m \in {u.work.model : u \in us} |-> OfModel({u \in us : u.work.model = m})]

\* usage_report and cost_report: totals are summed over the models.
ReportOf(p) ==
    LET table == ByModel(InWindow(p))
        used  == DOMAIN table
        cost  == SumFunction([m \in used |-> table[m].cost])
    IN  [byModel   |-> table,
         requests  |-> SumFunction([m \in used |-> table[m].requests]),
         failed    |-> SumFunction([m \in used |-> table[m].failed]),
         tokens    |-> SumFunction([m \in used |-> table[m].tokens]),
         cost      |-> cost,
         rub       |-> Rub(cost, Rate),
         daily     |-> DailyAverage(cost, p.days),
         projected |-> Projected(cost, p.days),
         unpriced  |-> SumFunction([m \in used |-> table[m].unpriced])]

----------------------------------------------------------------------------
(* Everything else                                                         *)

\* The process is restarted with other prices: what it was doing is lost.
Restart ==
    /\ tariff < Len(Tariffs)
    /\ tariff' = tariff + 1
    /\ stage' = [w \in Works |-> IF stage[w] \in Open THEN "lost" ELSE stage[w]]
    /\ draft' = [w \in Works |-> IF stage[w] \in Open THEN NoDraft ELSE draft[w]]
    /\ reading' = {}
    /\ due' = [r \in Reads |-> {}]
    /\ UNCHANGED <<rows, seq, earlier, today>>

DaysPass ==
    /\ today' \in {d \in Days : d > today}
    /\ UNCHANGED <<rows, writers, tariff, readers>>

Next ==
    \/ \E w \in Works : Question(w) \/ Answer(w) \/ Account(w) \/ Commit(w) \/ Abandon(w)
    \/ \E o \in Clients : Create(o)
    \/ \E c \in Conversations : Delete(c)
    \/ \E r \in Reads : Check(r) \/ List(r)
    \/ Restart \/ DaysPass

Spec == Init /\ [][Next]_vars

----------------------------------------------------------------------------
(* Properties                                                              *)

Listed(c) == {m.work : m \in Has(c)}

\* "A half-written exchange is worse than none" (chat.py:388-389): whatever is
\* written, rolled back and deleted meanwhile, a list shows both messages of an
\* exchange or none, the question before the reply.
ListsHoldWholeExchanges ==
    \A c \in Conversations :
      LET list == Listing(c)
      IN  \A w \in Listed(c) : \E i, j \in DOMAIN list :
            /\ i < j
            /\ list[i].work = w /\ list[i].role = "user"
            /\ list[j].work = w /\ list[j].role = "assistant"

\* "Insertion order, assigned by the database" (models.py:49-51): an exchange
\* that was acknowledged before another began to be stored comes before it,
\* although numbers are handed out before the commit and several transactions
\* draw them at the same time.
ListsAreChronological ==
    \A c \in Conversations :
      LET list == Listing(c)
      IN  \A i, j \in DOMAIN list : list[i].work \in earlier[list[j].work] => i < j

\* A client that was told its exchange is stored finds it in the list it asks
\* for afterwards, unless the conversation is deleted meanwhile.
ListsAreComplete ==
    \A r \in reading : due[r] \subseteq Listed(r.conv) \/ owner[r.conv] = Deleted

\* A conversation is shown to its owner and to an admin, everybody else is told
\* that it does not exist, and one without an owner is for an admin only
\* (conversations.py:19-20, models.py:31-32), even if it came into being, was
\* filled or was deleted while it was being read.
ReadersSeeTheirOwn ==
    \A r \in reading : ~r.admin =>
        /\ owner[r.conv] \in {r.client, Deleted}
        /\ \A w \in Listed(r.conv) : w.owner = r.client

Abs(n) == IF n < 0 THEN -n ELSE n

\* A report tells every request of its window with what it cost at the prices
\* in force when it was made, to half a unit of the ledger each: "a later tariff
\* change must not rewrite what past requests cost" (models.py:97-98), "deleting
\* a conversation must not erase what it cost" (models.py:83), "an unknown cost
\* is not a zero cost" (pricing.py:21).  Its figures agree with each other up to
\* their rounding: the projection is the daily average over 30 days to within 15
\* units, the rouble total the sum over the models to half a unit for each.
ReportsTellTheSpending ==
    \A p \in Reports :
      LET R      == ReportOf(p)
          inside == {s \in spent : s.at >= today - p.days}
          priced == {s \in inside : s.exact # None}
          exact  == SumFunction([s \in priced |-> s.exact])
          rubs   == SumFunction([m \in DOMAIN R.byModel |-> R.byModel[m].rub])
      IN  /\ R.requests = Cardinality(inside)
          /\ R.unpriced = Cardinality(inside \ priced)
          /\ R.failed = Cardinality({s \in inside : s.work.kind = "rejected"})
          /\ R.tokens = SumFunction([s \in inside |-> s.work.input + s.work.output])
          /\ Abs(10 * R.cost - exact) <= 5 * Cardinality(priced)
          /\ Abs(p.days * R.projected - DaysPerMonth * R.cost) <= 15 * p.days
          /\ 2 * Abs(R.rub - rubs) <= Cardinality(DOMAIN R.byModel) + 1

============================================================================
