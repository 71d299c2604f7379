--------------------------- MODULE ContextBudget ---------------------------
(***************************************************************************)
(* Fitting a conversation into the model's context window: ContextBudget   *)
(* of app/services/context.py, which generate_reply and stream_reply call  *)
(* before the model, and complete() for every call.                        *)
(*                                                                         *)
(* The loop of fit() is a state machine, one step per round: it drops the  *)
(* oldest message that may be dropped until check() is content.  It is     *)
(* compared with a definition of the result that does not drop one by one. *)
(*                                                                         *)
(* Abstracted: a message is its role and the length of its content.        *)
(* prompt is the messages of the request; the Fit... names are not those of *)
(* Records, so that Records_proofs can extend both.                         *)
(***************************************************************************)
EXTENDS Integers, Sequences, FiniteSets, FiniteSetsExt, Functions

CONSTANTS
    Lengths,      \* lengths of contents, in characters
    MaxMessages,  \* bound on the messages of a request
    Limits,       \* context windows, in tokens
    MaxTokens,    \* the max_tokens a request may ask for
    Strategies    \* SUBSET {"reject", "truncate_oldest"}: context_overflow_strategy

ASSUME LengthsAssumption == Lengths \subseteq Nat \ {0}
ASSUME LimitsAssumption == Limits \subseteq Nat /\ MaxTokens \subseteq Nat \ {0}
ASSUME BoundsAssumption == MaxMessages \in Nat \ {0}
ASSUME StrategiesAssumption == Strategies \subseteq {"reject", "truncate_oldest"}

ChatMessages == [role : {"system", "user", "assistant"}, length : Lengths]

\* ChatRequest: at least one message of the user.
Prompts ==
    {s \in UNION {[1 .. n -> ChatMessages] : n \in 1 .. MaxMessages} :
        \E i \in DOMAIN s : s[i].role = "user"}

VARIABLES
    prompt, limit, maxTokens, strategy, \* the request and the settings: never changed
    kept,    \* the indices of the messages still in
    dropped, \* how many were dropped
    outcome  \* "fitting", "fits", or "overflow": ContextOverflowError

fitVars == <<prompt, limit, maxTokens, strategy, kept, dropped, outcome>>
request == <<prompt, limit, maxTokens, strategy>>

FitTypeOK ==
    /\ prompt \in Prompts
    /\ limit \in Limits /\ maxTokens \in MaxTokens /\ strategy \in Strategies
    /\ kept \subseteq DOMAIN prompt
    /\ dropped \in 0 .. MaxMessages
    /\ outcome \in {"fitting", "fits", "overflow"}

FitInit ==
    /\ prompt \in Prompts
    /\ limit \in Limits /\ maxTokens \in MaxTokens /\ strategy \in Strategies
    /\ kept = DOMAIN prompt
    /\ dropped = 0
    /\ outcome = "fitting"

----------------------------------------------------------------------------
(* estimate and check                                                      *)

PerMessageTokens == 8
BaseTokens == 10

\* math.ceil(length / 2.5)
ContentTokens(length) == (2 * length + 4) \div 5

Estimate(indices) ==
    BaseTokens + SumFunction([i \in indices |->
                                PerMessageTokens + ContentTokens(prompt[i].length)])

\* ContextBudget.check: the answer needs room too.
Fits(indices) == Estimate(indices) + maxTokens <= limit

----------------------------------------------------------------------------
(* fit                                                                     *)

LastUser == Max({i \in DOMAIN prompt : prompt[i].role = "user"})

\* Mutant of Droppable: the question may be dropped as well.
DroppableQuestion == {i \in DOMAIN prompt : prompt[i].role # "system"}

\* Neither instructions nor the question itself.
Droppable == {i \in DOMAIN prompt : prompt[i].role # "system" /\ i # LastUser}

\* Mutant of Oldest: the newest turn goes first.
Newest(indices) == Max(indices)

\* droppable.pop(0)
Oldest(indices) == Min(indices)

Accept ==
    /\ outcome = "fitting"
    /\ Fits(kept)
    /\ outcome' = "fits"
    /\ UNCHANGED <<request, kept, dropped>>

\* Mutant of DropOldest: a dropped message is counted twice.
DropCountedTwice ==
    /\ outcome = "fitting" /\ strategy = "truncate_oldest"
    /\ ~Fits(kept)
    /\ Droppable \cap kept # {}
    /\ kept' = kept \ {Oldest(Droppable \cap kept)}
    /\ dropped' = dropped + 2
    /\ UNCHANGED <<request, outcome>>

DropOldest ==
    /\ outcome = "fitting" /\ strategy = "truncate_oldest"
    /\ ~Fits(kept)
    /\ Droppable \cap kept # {}
    /\ kept' = kept \ {Oldest(Droppable \cap kept)}
    /\ dropped' = dropped + 1
    /\ UNCHANGED <<request, outcome>>

\* "reject", or even the essentials do not fit.
Overflow ==
    /\ outcome = "fitting"
    /\ ~Fits(kept)
    /\ strategy = "reject" \/ Droppable \cap kept = {}
    /\ outcome' = "overflow"
    /\ UNCHANGED <<request, kept, dropped>>

FitNext == Accept \/ DropOldest \/ Overflow

FitSpec == FitInit /\ [][FitNext]_fitVars

----------------------------------------------------------------------------
(* Properties                                                              *)

\* The system messages and the last message of the user.
Essentials == {i \in DOMAIN prompt : prompt[i].role = "system"} \cup {LastUser}

\* What is left of the conversation when its n oldest droppable messages go.
Without(n) ==
    {i \in DOMAIN prompt :
        i \in Droppable => Cardinality({j \in Droppable : j < i}) >= n}

\* The fewest messages to drop are dropped, the oldest first, and a conversation is
\* refused only if no number of dropped messages makes it fit ("truncating further
\* would change the task", context.py:72); "reject" drops nothing.
DropsTheLeast ==
    LET enough == {n \in 0 .. Cardinality(Droppable) : Fits(Without(n))} IN
      /\ outcome = "fits" =>
            kept = Without(IF strategy = "reject" THEN 0 ELSE Min(enough))
      /\ outcome = "overflow" =>
            IF strategy = "reject" THEN ~Fits(Without(0)) ELSE enough = {}

\* The model is never asked without the instructions and the question, and what
\* the response says was dropped (dropped_messages) is what the model did not see.
EssentialsAreKept ==
    /\ Essentials \subseteq kept
    /\ dropped = Cardinality(DOMAIN prompt \ kept)

=============================================================================
