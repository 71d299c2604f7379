------------------------------ MODULE Analysis ------------------------------
(***************************************************************************)
(* Structured analysis, POST /v1/chat/structured: AnalysisService of       *)
(* app/services/analysis.py with the verdicts of app/llm/structured.py.    *)
(*                                                                         *)
(* The model is asked again while its output is rejected for a reason that *)
(* asking again can help; then one row of usage_logs says what was spent.  *)
(* A request can be cancelled at every await, and the database can fail.   *)
(*                                                                         *)
(* Abstracted: what the model wrote is its verdict, its tokens are a small *)
(* number.  ChatService.complete, with its own retries, is one step        *)
(* (module ModelCalls).                                                    *)
(***************************************************************************)
EXTENDS Integers, FiniteSets

CONSTANTS
    Requests,
    OutputRetries, \* structured_max_retries
    MaxTokens,     \* bound on the tokens of one generation
    None           \* no row, no answer

ASSUME BoundsAssumption == OutputRetries \in Nat /\ MaxTokens \in Nat \ {0}

Attempts == OutputRetries + 1

\* What parse_output makes of an output, and _parse before it.
Verdicts == {"valid", "truncated", "invalid_json", "schema_mismatch"}

\* What goes wrong: a verdict, an LLMError, a prompt that does not fit the model,
\* any other exception, or the ledger cannot be written.
Errors == (Verdicts \ {"valid"}) \cup {"llm", "overflow", "raised", "storage"}

Rows == [status : {"success", "failed"}, attempts : 1 .. Attempts, tokens : Nat]

ASSUME NoneAssumption == None \notin Rows /\ None \notin Errors

VARIABLES
    stage,   \* "calling": complete() is awaited; "saving": commit() is
    spent,   \* _Spent: attempts and tokens
    cause,   \* the exception that _generate raised, or None
    row,     \* the row in usage_logs
    answer,  \* "ok", or the error the client was told
    outputs  \* what the model delivered: the number of generations of each verdict, and tokens

vars == <<stage, spent, cause, row, answer, outputs>>

TypeOK ==
    /\ stage \in [Requests -> {"new", "calling", "saving", "over", "gone"}]
    /\ spent \in [Requests -> [attempts : 0 .. Attempts, tokens : Nat]]
    /\ cause \in [Requests -> Errors \cup {None}]
    /\ row \in [Requests -> Rows \cup {None}]
    /\ answer \in [Requests -> Errors \cup {"ok", None}]
    /\ outputs \in [Requests -> [verdicts : [Verdicts -> Nat], tokens : Nat]]

Init ==
    /\ stage = [r \in Requests |-> "new"]
    /\ spent = [r \in Requests |-> [attempts |-> 0, tokens |-> 0]]
    /\ cause = [r \in Requests |-> None]
    /\ row = [r \in Requests |-> None]
    /\ answer = [r \in Requests |-> None]
    /\ outputs = [r \in Requests |-> [verdicts |-> [v \in Verdicts |-> 0], tokens |-> 0]]

Goto(r, s) == stage' = [stage EXCEPT ![r] = s]
Tell(r, what) == Goto(r, "over") /\ answer' = [answer EXCEPT ![r] = what]

----------------------------------------------------------------------------
(* _generate                                                               *)

Begin(r) ==
    /\ stage[r] = "new"
    /\ Goto(r, "calling")
    /\ UNCHANGED <<spent, cause, row, answer, outputs>>

\* Mutant of Spend: only the last generation is counted.
SpendLastOnly(r, tokens) ==
    spent' = [spent EXCEPT ![r] = [attempts |-> @.attempts + 1, tokens |-> tokens]]

Spend(r, tokens) ==
    spent' = [spent EXCEPT ![r] = [attempts |-> @.attempts + 1, tokens |-> @.tokens + tokens]]

\* Mutant of Recoverable: every rejected output is asked for again.
RecoverableAlways(v) == v # "valid"

\* StructuredOutputError.recoverable: the same limit would cut the next answer too.
Recoverable(v) == v \in {"invalid_json", "schema_mismatch"}

\* The attempt now being made is the last one.
LastAttempt(r) == spent[r].attempts + 1 = Attempts

Delivered(r, v, tokens) ==
    outputs' = [outputs EXCEPT ![r].verdicts[v] = @ + 1, ![r].tokens = @ + tokens]

\* The model delivers a valid output: the row of the success is written.
Accept(r) ==
    /\ stage[r] = "calling"
    /\ \E tokens \in 1 .. MaxTokens : Spend(r, tokens) /\ Delivered(r, "valid", tokens)
    /\ Goto(r, "saving")
    /\ UNCHANGED <<cause, row, answer>>

\* ... an output that asking again can help.
AskAgain(r) ==
    /\ stage[r] = "calling"
    /\ ~LastAttempt(r)
    /\ \E v \in Verdicts, tokens \in 1 .. MaxTokens :
         Recoverable(v) /\ Spend(r, tokens) /\ Delivered(r, v, tokens)
    /\ UNCHANGED <<stage, cause, row, answer>>

\* ... an output it cannot help, or that of the last attempt.
Reject(r) ==
    /\ stage[r] = "calling"
    /\ \E v \in Verdicts \ {"valid"}, tokens \in 1 .. MaxTokens :
         /\ ~Recoverable(v) \/ LastAttempt(r)
         /\ Spend(r, tokens) /\ Delivered(r, v, tokens)
         /\ cause' = [cause EXCEPT ![r] = v]
    /\ Goto(r, "saving")
    /\ UNCHANGED <<row, answer>>

\* ... an output that cannot be shown to it again: the output, or the feedback on
\* it, is no Message (too long).
FeedbackFails(r) ==
    /\ stage[r] = "calling"
    /\ ~LastAttempt(r)
    /\ \E v \in Verdicts, tokens \in 1 .. MaxTokens :
         Recoverable(v) /\ Spend(r, tokens) /\ Delivered(r, v, tokens)
    /\ cause' = [cause EXCEPT ![r] = "raised"]
    /\ Goto(r, "saving")
    /\ UNCHANGED <<row, answer>>

\* Mutant of CallFails: there is nothing to record when a call fails.
CallFailsUnrecorded(r) ==
    /\ stage[r] = "calling"
    /\ \E e \in {"llm", "overflow"} :
         cause' = [cause EXCEPT ![r] = e] /\ Tell(r, e)
    /\ UNCHANGED <<spent, row, outputs>>

\* complete() raises: the model cannot be reached, or the messages, which grow
\* with every attempt, do not fit it.  The row is written only if an earlier
\* generation has to be accounted for (_record_failure).
CallFails(r) ==
    /\ stage[r] = "calling"
    /\ \E e \in {"llm", "overflow"} :
         /\ cause' = [cause EXCEPT ![r] = e]
         /\ IF spent[r].attempts = 0 THEN Tell(r, e) ELSE Goto(r, "saving") /\ UNCHANGED answer
    /\ UNCHANGED <<spent, row, outputs>>

----------------------------------------------------------------------------
(* _record_usage and _record_failure                                       *)

Row(r) == [status   |-> IF cause[r] = None THEN "success" ELSE "failed",
           attempts |-> spent[r].attempts,
           tokens   |-> spent[r].tokens]

Saved(r) == row' = [row EXCEPT ![r] = Row(r)]

Save(r) ==
    /\ stage[r] = "saving"
    /\ Saved(r)
    /\ Tell(r, IF cause[r] = None THEN "ok" ELSE cause[r])
    /\ UNCHANGED <<spent, cause, outputs>>

\* Mutant of SaveFails: the ledger's error takes the place of the model's.
SaveFailsLoudly(r) ==
    /\ stage[r] = "saving"
    /\ Saved(r) \/ UNCHANGED row
    /\ Tell(r, "storage")
    /\ UNCHANGED <<spent, cause, outputs>>

\* The commit fails, or its answer is lost.  After an error that is only logged;
\* after a success it is the answer.
SaveFails(r) ==
    /\ stage[r] = "saving"
    /\ Saved(r) \/ UNCHANGED row
    /\ Tell(r, IF cause[r] = None THEN "storage" ELSE cause[r])
    /\ UNCHANGED <<spent, cause, outputs>>

\* CancelledError is no Exception: nothing is recorded; or the process dies.
Gone(r) ==
    /\ stage[r] \in {"calling", "saving"}
    /\ Goto(r, "gone")
    /\ IF stage[r] = "saving" THEN Saved(r) \/ UNCHANGED row ELSE UNCHANGED row
    /\ UNCHANGED <<spent, cause, answer, outputs>>

Generation(r) == Accept(r) \/ AskAgain(r) \/ Reject(r) \/ FeedbackFails(r) \/ CallFails(r)

Next == \E r \in Requests : Begin(r) \/ Generation(r) \/ Save(r) \/ SaveFails(r) \/ Gone(r)

Spec == Init /\ [][Next]_vars

----------------------------------------------------------------------------
(* Properties                                                              *)

\* The generations the model delivered.
Generations(r) == LET n == outputs[r].verdicts IN
    n["valid"] + n["truncated"] + n["invalid_json"] + n["schema_mismatch"]

\* A row of the ledger accounts for all that the model delivered to the request,
\* rejected generations and those before a failed call included: no token and no
\* attempt is left out or counted twice, and only an accepted output is a success.
RowsTellTheSpending ==
    \A r \in Requests : row[r] # None =>
        /\ row[r].attempts = Generations(r)
        /\ row[r].tokens = outputs[r].tokens
        /\ row[r].status = "success" <=> outputs[r].verdicts["valid"] = 1

\* What the client is told is why the analysis failed, even if the ledger cannot
\* be written (analysis.py:134-135), and "ok" means that an output was accepted and
\* accounted for.
ClientsSeeTheCause ==
    \A r \in Requests : stage[r] = "over" =>
        /\ cause[r] # None => answer[r] = cause[r]
        /\ answer[r] = "ok" => row[r] # None /\ row[r].status = "success"

\* "Rejected generations were paid for" (analysis.py:56-57): an analysis that was
\* answered without storage trouble and had generations has its row.  Storage
\* trouble is what SaveFails stands for, so this is a property of the other steps.
PaidMeansRecorded ==
    [][\A r \in Requests :
         stage[r] # "over" /\ stage'[r] = "over" /\ ~SaveFails(r) /\ outputs'[r].tokens > 0
           => row'[r] # None]_vars

\* The model is asked at most structured_max_retries + 1 times, never again after
\* an output that asking again cannot help ("retrying only burns tokens",
\* structured.py:27), and never after it delivered a valid one.
NoUselessGeneration ==
    \A r \in Requests :
        LET n == outputs[r].verdicts IN
          /\ Generations(r) <= Attempts
          /\ n["valid"] + n["truncated"] > 0 => stage[r] # "calling"

=============================================================================
