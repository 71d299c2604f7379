--------------------------- MODULE Analysis_proofs ---------------------------
(* Theorems about Analysis for all requests, numbers of attempts and        *)
(* tokens.                                                                  *)
EXTENDS Analysis, TLAPS

----------------------------------------------------------------------------
(* Types                                                                   *)

Spending == [attempts : 0 .. Attempts, tokens : Nat]
Counts == [verdicts : [Verdicts -> Nat], tokens : Nat]

\* What of a request a step of it may leave behind.
StageOf(r) ==
    /\ stage[r] \in {"new", "calling"} =>
         /\ spent[r].attempts < Attempts
         /\ cause[r] = None /\ row[r] = None
    /\ stage[r] = "saving" => spent[r].attempts > 0 /\ row[r] = None

\* The model's output is spent as it is delivered.
Booked(r) ==
    /\ spent[r].attempts = Generations(r)
    /\ spent[r].tokens = outputs[r].tokens
    /\ spent[r].attempts = 0 => spent[r].tokens = 0

\* What the model's verdicts say of the stage, the cause and the row.
Judged(r) ==
    LET n == outputs[r].verdicts IN
      /\ stage[r] \in {"new", "calling"} => n["valid"] = 0 /\ n["truncated"] = 0
      /\ stage[r] = "saving" => (cause[r] = None <=> n["valid"] = 1)
      /\ row[r] # None =>
           /\ row[r].attempts = spent[r].attempts
           /\ row[r].tokens = spent[r].tokens
           /\ row[r].status = "success" <=> n["valid"] = 1
           /\ row[r].status = "success" <=> cause[r] = None
      /\ stage[r] = "over" /\ cause[r] # None => answer[r] = cause[r]
      /\ stage[r] = "over" /\ answer[r] = "ok" => row[r] # None /\ cause[r] = None

AnalysisInv == TypeOK /\ \A r \in Requests : StageOf(r) /\ Booked(r) /\ Judged(r)

\* A generation is attempted at least once.
LEMMA AttemptsType == Attempts \in Nat \ {0}
  BY BoundsAssumption DEF Attempts

\* Nothing is spent, booked or judged before the first call.
LEMMA AnalysisInit == Init => AnalysisInv
<1> SUFFICES ASSUME Init
             PROVE  AnalysisInv
  OBVIOUS
<1>1. TypeOK
  BY AttemptsType DEF Init, TypeOK
<1>2. ASSUME NEW r \in Requests
      PROVE  StageOf(r) /\ Booked(r) /\ Judged(r)
  <2>1. \A v \in Verdicts : outputs[r].verdicts[v] = 0
    BY DEF Init
  <2>2. Generations(r) = 0
    BY <2>1 DEF Generations, Verdicts
  <2> QED
    BY <2>1, <2>2, AttemptsType DEF Init, StageOf, Booked, Judged, Verdicts
<1> QED
  BY <1>1, <1>2 DEF AnalysisInv

\* What a generation adds to what was spent and to what was delivered.
LEMMA GenerationStep ==
  ASSUME TypeOK, NEW r \in Requests, StageOf(r), Booked(r), Judged(r), stage[r] = "calling",
         NEW v \in Verdicts, NEW tokens \in 1 .. MaxTokens,
         Spend(r, tokens), Delivered(r, v, tokens)
  PROVE  /\ spent' \in [Requests -> Spending] /\ outputs' \in [Requests -> Counts]
         /\ Booked(r)' /\ spent'[r].attempts = spent[r].attempts + 1
         /\ \A w \in Verdicts : outputs'[r].verdicts[w] =
              outputs[r].verdicts[w] + (IF w = v THEN 1 ELSE 0)
         /\ \A q \in Requests : q # r => spent'[q] = spent[q] /\ outputs'[q] = outputs[q]
<1>0. tokens \in Nat
  BY BoundsAssumption
<1>1. /\ spent[r] \in Spending /\ outputs[r] \in Counts /\ spent[r].attempts < Attempts
  BY DEF TypeOK, StageOf, Spending, Counts
<1>2. /\ spent'[r] = [attempts |-> spent[r].attempts + 1, tokens |-> spent[r].tokens + tokens]
      /\ outputs'[r].verdicts = [outputs[r].verdicts EXCEPT ![v] = @ + 1]
      /\ outputs'[r].tokens = outputs[r].tokens + tokens
      /\ outputs' \in [Requests -> Counts]
  <2>1. spent'[r] = [attempts |-> spent[r].attempts + 1, tokens |-> spent[r].tokens + tokens]
    BY DEF Spend, TypeOK
  <2>2. outputs \in [Requests -> Counts]
    BY DEF TypeOK, Counts
  <2>3. /\ outputs'[r].verdicts = [outputs[r].verdicts EXCEPT ![v] = @ + 1]
        /\ outputs'[r].tokens = outputs[r].tokens + tokens
        /\ outputs' \in [Requests -> Counts]
    BY <1>0, <2>2 DEF Delivered, Counts
  <2> QED
    BY <2>1, <2>3
<1>3. spent'[r] \in Spending
  BY <1>0, <1>1, <1>2, AttemptsType DEF Spending
<1>4. outputs'[r] \in Counts
  BY <1>2
<1>5. \A w \in Verdicts : outputs'[r].verdicts[w] =
         outputs[r].verdicts[w] + (IF w = v THEN 1 ELSE 0)
  BY <1>1, <1>2 DEF Counts
<1>6. Booked(r)'
  <2>1. \A w \in Verdicts : outputs[r].verdicts[w] \in Nat
    BY <1>1 DEF Counts
  <2>2. Generations(r)' = Generations(r) + 1
    BY <1>5, <2>1 DEF Generations, Verdicts
  <2> QED
    BY <1>0, <1>1, <1>2, <2>2 DEF Booked, Spending, Counts
<1>7. spent' \in [Requests -> Spending] /\ outputs' \in [Requests -> Counts]
  BY <1>3, <1>4 DEF Spend, Delivered, TypeOK, Spending, Counts
<1>8. \A q \in Requests : q # r => spent'[q] = spent[q] /\ outputs'[q] = outputs[q]
  BY DEF Spend, Delivered, TypeOK
<1> QED
  BY <1>1, <1>2, <1>5, <1>6, <1>7, <1>8 DEF Spending

\* The steps that deliver an output.
LEMMA DeliveryStep ==
  ASSUME TypeOK, NEW r \in Requests, StageOf(r), Booked(r), Judged(r),
         Accept(r) \/ AskAgain(r) \/ Reject(r) \/ FeedbackFails(r)
  PROVE  TypeOK' /\ StageOf(r)' /\ Booked(r)' /\ Judged(r)'
<1>1. PICK v \in Verdicts, tokens \in 1 .. MaxTokens :
         /\ stage[r] = "calling" /\ Spend(r, tokens) /\ Delivered(r, v, tokens)
         /\ row' = row /\ answer' = answer
         /\ \/ v = "valid" /\ stage'[r] = "saving" /\ cause' = cause
            \/ Recoverable(v) /\ ~LastAttempt(r) /\ stage' = stage /\ cause' = cause
            \/ v # "valid" /\ stage'[r] = "saving" /\ \E e \in Errors : cause' = [cause EXCEPT ![r] = e]
         /\ stage' = stage \/ stage' = [stage EXCEPT ![r] = "saving"]
  BY DEF Accept, AskAgain, Reject, FeedbackFails, Goto, Recoverable, Verdicts, Errors, TypeOK
<1>2. /\ spent' \in [Requests -> Spending] /\ outputs' \in [Requests -> Counts]
      /\ Booked(r)' /\ spent'[r].attempts = spent[r].attempts + 1
      /\ \A w \in Verdicts : outputs'[r].verdicts[w] =
           outputs[r].verdicts[w] + (IF w = v THEN 1 ELSE 0)
  BY <1>1, GenerationStep
<1>3. TypeOK'
  <2>1. stage' \in [Requests -> {"new", "calling", "saving", "over", "gone"}]
    BY <1>1 DEF TypeOK
  <2>2. cause' \in [Requests -> Errors \cup {None}]
    BY <1>1 DEF TypeOK
  <2>3. row' \in [Requests -> Rows \cup {None}] /\ answer' \in [Requests -> Errors \cup {"ok", None}]
    BY <1>1 DEF TypeOK
  <2> QED
    BY <1>2, <2>1, <2>2, <2>3 DEF TypeOK, Spending, Counts
<1>4. /\ spent[r].attempts \in Nat /\ spent[r].attempts < Attempts
      /\ cause[r] = None /\ row[r] = None
      /\ outputs[r].verdicts["valid"] = 0 /\ outputs[r].verdicts["truncated"] = 0
  BY <1>1 DEF TypeOK, StageOf, Judged
<1>5. StageOf(r)'
  <2>1. row'[r] = None /\ spent'[r].attempts > 0
    BY <1>1, <1>2, <1>4
  <2>2. CASE stage' = stage
    <3>1. spent[r].attempts + 1 # Attempts /\ cause' = cause
      BY <1>1, <2>2 DEF LastAttempt, TypeOK
    <3>2. spent'[r].attempts < Attempts
      BY <1>2, <1>4, <3>1, AttemptsType
    <3> QED
      BY <1>1, <1>4, <2>1, <2>2, <3>1, <3>2 DEF StageOf
  <2>3. CASE stage'[r] = "saving"
    BY <2>1, <2>3 DEF StageOf
  <2> QED
    BY <1>1, <2>2, <2>3 DEF TypeOK
<1>6. Judged(r)'
  <2>1. row'[r] = None
    BY <1>1, <1>4
  <2>2. /\ outputs'[r].verdicts["valid"] = (IF v = "valid" THEN 1 ELSE 0)
        /\ outputs'[r].verdicts["truncated"] = (IF v = "truncated" THEN 1 ELSE 0)
    BY <1>2, <1>4 DEF Verdicts
  <2>3. stage'[r] \in {"calling", "saving"} /\ (stage'[r] = "calling" => v \notin {"valid", "truncated"})
    BY <1>1 DEF Recoverable, TypeOK
  <2>4. stage'[r] = "saving" => (cause'[r] = None <=> v = "valid")
    BY <1>1, <1>4, NoneAssumption DEF TypeOK
  <2> QED
    BY <2>1, <2>2, <2>3, <2>4 DEF Judged
<1> QED
  BY <1>2, <1>3, <1>5, <1>6

\* The steps that do not.
LEMMA OtherStep ==
  ASSUME TypeOK, NEW r \in Requests, StageOf(r), Booked(r), Judged(r),
         Begin(r) \/ CallFails(r) \/ Save(r) \/ SaveFails(r) \/ Gone(r)
  PROVE  TypeOK' /\ StageOf(r)' /\ Booked(r)' /\ Judged(r)'
<1>0. spent' = spent /\ outputs' = outputs
  BY DEF Begin, CallFails, Save, SaveFails, Gone
<1>1. Booked(r)'
  BY <1>0 DEF Booked, Generations
<1>2. CASE Begin(r)
  BY <1>0, <1>1, <1>2 DEF Begin, Goto, TypeOK, StageOf, Judged
<1>3. CASE CallFails(r)
  <2>1. PICK e \in {"llm", "overflow"} :
           /\ cause' = [cause EXCEPT ![r] = e]
           /\ IF spent[r].attempts = 0 THEN Tell(r, e) ELSE Goto(r, "saving") /\ UNCHANGED answer
    BY <1>3 DEF CallFails
  <2>2. e \in Errors /\ e # None /\ e # "ok"
    BY NoneAssumption DEF Errors
  <2>3. TypeOK'
    <3>1. cause' \in [Requests -> Errors \cup {None}] /\ row' = row
      BY <1>3, <2>1, <2>2 DEF CallFails, TypeOK
    <3>2. /\ stage' \in [Requests -> {"new", "calling", "saving", "over", "gone"}]
          /\ answer' \in [Requests -> Errors \cup {"ok", None}]
      BY <2>1, <2>2 DEF Tell, Goto, TypeOK
    <3> QED
      BY <1>0, <3>1, <3>2 DEF TypeOK
  <2>4. stage[r] = "calling" /\ row' = row /\ row[r] = None /\ outputs[r].verdicts["valid"] = 0
    BY <1>3 DEF CallFails, StageOf, Judged
  <2>5. cause'[r] = e
    BY <2>1 DEF TypeOK
  <2>6. \/ stage'[r] = "over" /\ answer'[r] = e
        \/ stage'[r] = "saving" /\ spent[r].attempts # 0
    BY <2>1 DEF Tell, Goto, TypeOK
  <2>7. StageOf(r)'
    BY <1>0, <2>4, <2>6 DEF StageOf, TypeOK
  <2>8. Judged(r)'
    BY <1>0, <2>2, <2>4, <2>5, <2>6 DEF Judged
  <2> QED
    BY <1>1, <2>3, <2>7, <2>8
<1>4. CASE Save(r) \/ SaveFails(r) \/ (Gone(r) /\ stage[r] = "saving")
  <2>1. /\ stage[r] = "saving" /\ cause' = cause /\ (Saved(r) \/ row' = row)
        /\ stage' = [stage EXCEPT ![r] = "over"] \/ stage' = [stage EXCEPT ![r] = "gone"]
        /\ \/ answer' = answer /\ stage'[r] = "gone"
           \/ answer' = [answer EXCEPT ![r] = IF cause[r] = None THEN "ok" ELSE cause[r]] /\ Saved(r)
           \/ answer' = [answer EXCEPT ![r] = IF cause[r] = None THEN "storage" ELSE cause[r]]
    BY <1>4 DEF Save, SaveFails, Gone, Tell, Goto, TypeOK
  <2>2. spent[r].attempts \in 1 .. Attempts /\ spent[r].tokens \in Nat /\ row[r] = None
    BY <2>1, AttemptsType DEF StageOf, TypeOK
  <2>3. Row(r) \in Rows /\ Row(r) # None
    BY <2>2, NoneAssumption DEF Row, Rows
  <2>4. row' \in [Requests -> Rows \cup {None}]
    BY <2>1, <2>3 DEF Saved, TypeOK
  <2>5. answer' \in [Requests -> Errors \cup {"ok", None}]
    <3>1. /\ cause[r] # None => cause[r] \in Errors
          /\ "storage" \in Errors
      BY DEF TypeOK, Errors
    <3> QED
      BY <2>1, <3>1 DEF TypeOK
  <2>6. TypeOK'
    BY <1>0, <2>1, <2>4, <2>5 DEF TypeOK
  <2>7. StageOf(r)'
    BY <2>1 DEF StageOf, TypeOK
  <2>8. row'[r] \in {None, Row(r)} /\ (Saved(r) => row'[r] = Row(r))
    BY <2>1, <2>2 DEF Saved, TypeOK
  <2>9. cause[r] = None <=> outputs[r].verdicts["valid"] = 1
    BY <2>1 DEF Judged
  <2>10. stage'[r] = "over" /\ cause[r] # None => answer'[r] = cause[r]
    BY <2>1 DEF TypeOK
  <2>11. stage'[r] = "over" /\ answer'[r] = "ok" => row'[r] # None /\ cause[r] = None
    <3>1. cause[r] # None => cause[r] # "ok"
      BY DEF TypeOK, Errors, Verdicts
    <3> QED
      BY <2>1, <2>3, <2>8, <3>1 DEF TypeOK
  <2>12. stage'[r] \in {"over", "gone"}
    BY <2>1 DEF TypeOK
  <2>13. row'[r] # None => /\ row'[r].attempts = spent[r].attempts
                           /\ row'[r].tokens = spent[r].tokens
                           /\ row'[r].status = IF cause[r] = None THEN "success" ELSE "failed"
    BY <2>8 DEF Row
  <2>14. Judged(r)'
    BY <1>0, <2>1, <2>9, <2>10, <2>11, <2>12, <2>13 DEF Judged
  <2> QED
    BY <1>1, <2>6, <2>7, <2>14
<1>5. CASE Gone(r) /\ stage[r] = "calling"
  BY <1>0, <1>1, <1>5 DEF Gone, Goto, TypeOK, StageOf, Judged
<1> QED
  BY <1>2, <1>3, <1>4, <1>5 DEF Gone

----------------------------------------------------------------------------
(* The invariant and the theorems                                          *)

Step(r) == Begin(r) \/ Generation(r) \/ Save(r) \/ SaveFails(r) \/ Gone(r)

\* The step of an analysis keeps what relates its stage, its spending and its outputs.
LEMMA OwnStep ==
  ASSUME TypeOK, NEW r \in Requests, StageOf(r), Booked(r), Judged(r), Step(r)
  PROVE  TypeOK' /\ StageOf(r)' /\ Booked(r)' /\ Judged(r)'
  BY DeliveryStep, OtherStep DEF Step, Generation

\* A request leaves the others alone.
LEMMA OthersStay ==
  ASSUME TypeOK, NEW r \in Requests, Step(r), NEW q \in Requests, q # r
  PROVE  /\ stage'[q] = stage[q] /\ spent'[q] = spent[q] /\ cause'[q] = cause[q]
         /\ row'[q] = row[q] /\ answer'[q] = answer[q] /\ outputs'[q] = outputs[q]
  BY DEF Step, Generation, Begin, Accept, AskAgain, Reject, FeedbackFails, CallFails, Save,
         SaveFails, Gone, Saved, Tell, Goto, Spend, Delivered, TypeOK

\* Every step keeps the invariant: an analysis touches nothing of another one.
LEMMA AnalysisStep == AnalysisInv /\ [Next]_vars => AnalysisInv'
<1> SUFFICES ASSUME AnalysisInv, [Next]_vars
             PROVE  AnalysisInv'
  OBVIOUS
<1>1. CASE UNCHANGED vars
  BY <1>1 DEF vars, AnalysisInv, TypeOK, StageOf, Booked, Judged, Generations
<1>2. ASSUME NEW r \in Requests, Step(r)
      PROVE  AnalysisInv'
  <2>1. TypeOK' /\ StageOf(r)' /\ Booked(r)' /\ Judged(r)'
    BY <1>2, OwnStep DEF AnalysisInv
  <2>2. ASSUME NEW q \in Requests, q # r
        PROVE  StageOf(q)' /\ Booked(q)' /\ Judged(q)'
    <3>1. StageOf(q) /\ Booked(q) /\ Judged(q)
      BY DEF AnalysisInv
    <3>2. /\ stage'[q] = stage[q] /\ spent'[q] = spent[q] /\ cause'[q] = cause[q]
          /\ row'[q] = row[q] /\ answer'[q] = answer[q] /\ outputs'[q] = outputs[q]
      BY <1>2, <2>2, OthersStay DEF AnalysisInv
    <3> QED
      BY <3>1, <3>2 DEF StageOf, Booked, Judged, Generations
  <2> QED
    BY <2>1, <2>2 DEF AnalysisInv
<1> QED
  BY <1>1, <1>2 DEF Next, Step

\* The invariant holds throughout.
LEMMA AnalysisInvariant == Spec => []AnalysisInv
  BY AnalysisInit, AnalysisStep, PTL DEF Spec

\* Type correctness.
THEOREM TypeCorrect == Spec => []TypeOK
<1>1. AnalysisInv => TypeOK
  BY DEF AnalysisInv
<1> QED
  BY <1>1, AnalysisInvariant, PTL

\* A row of the ledger accounts for all that the model delivered.
THEOREM RowsCorrect == Spec => []RowsTellTheSpending
<1>1. AnalysisInv => RowsTellTheSpending
  BY DEF AnalysisInv, Booked, Judged, RowsTellTheSpending
<1> QED
  BY <1>1, AnalysisInvariant, PTL

\* The client is told the cause, and "ok" only of what is in the ledger.
THEOREM CausesCorrect == Spec => []ClientsSeeTheCause
<1>1. AnalysisInv => ClientsSeeTheCause
  BY DEF AnalysisInv, Judged, ClientsSeeTheCause
<1> QED
  BY <1>1, AnalysisInvariant, PTL

\* The model is never asked in vain, for every number of retries.
THEOREM GenerationsCorrect == Spec => []NoUselessGeneration
<1>1. ASSUME AnalysisInv, NEW r \in Requests
      PROVE  /\ Generations(r) <= Attempts
             /\ outputs[r].verdicts["valid"] + outputs[r].verdicts["truncated"] > 0
                  => stage[r] # "calling"
  <2>1. spent[r].attempts \in 0 .. Attempts /\ spent[r].attempts = Generations(r)
    BY <1>1 DEF AnalysisInv, TypeOK, Booked
  <2> QED
    BY <1>1, <2>1, AttemptsType DEF AnalysisInv, Judged
<1>2. AnalysisInv => NoUselessGeneration
  BY <1>1 DEF NoUselessGeneration
<1> QED
  BY <1>2, AnalysisInvariant, PTL

\* An analysis that was answered and had generations has its row, unless the
\* database failed.
THEOREM PaidCorrect == Spec => PaidMeansRecorded
<1>1. ASSUME AnalysisInv, AnalysisInv', Next,
             NEW r \in Requests, stage[r] # "over", stage'[r] = "over", ~SaveFails(r),
             outputs'[r].tokens > 0
      PROVE  row'[r] # None
  <2>1. PICK q \in Requests : Step(q)
    BY <1>1 DEF Next, Step
  <2>2. q = r
    BY <1>1, <2>1, OthersStay DEF AnalysisInv
  <2>3. Save(r) \/ CallFails(r)
    BY <1>1, <2>1, <2>2
    DEF Step, Generation, Begin, Accept, AskAgain, Reject, FeedbackFails, Gone, Goto,
        AnalysisInv, TypeOK
  <2>4. CASE Save(r)
    <3>1. stage[r] = "saving" /\ row'[r] = Row(r)
      BY <1>1, <2>4 DEF Save, Saved, AnalysisInv, TypeOK
    <3>2. spent[r].attempts \in 1 .. Attempts /\ spent[r].tokens \in Nat
      BY <1>1, <3>1, AttemptsType DEF AnalysisInv, StageOf, TypeOK
    <3>3. Row(r) \in Rows
      BY <3>2 DEF Row, Rows
    <3> QED
      BY <3>1, <3>3, NoneAssumption
  <2>5. CASE CallFails(r)
    <3>1. spent[r].attempts = 0
      BY <1>1, <2>5 DEF CallFails, Goto, AnalysisInv, TypeOK
    <3>2. outputs'[r].tokens = 0
      BY <1>1, <2>5, <3>1 DEF CallFails, AnalysisInv, Booked
    <3> QED
      BY <1>1, <3>2
  <2> QED
    BY <2>3, <2>4, <2>5
<1>2. AnalysisInv /\ AnalysisInv' /\ [Next]_vars =>
        [\A r \in Requests :
           stage[r] # "over" /\ stage'[r] = "over" /\ ~SaveFails(r) /\ outputs'[r].tokens > 0
             => row'[r] # None]_vars
  BY <1>1
<1> QED
  BY <1>2, AnalysisInvariant, PTL DEF Spec, PaidMeansRecorded

=============================================================================
