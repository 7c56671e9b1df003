-------------------------------- MODULE LLMCalls -------------------------------
(* Calls of a language model through the layers of a client: the daily budget is *)
(* looked up first, then the call queues for a slot of its provider, keeps the   *)
(* slot over all attempts, and at last its tokens are added to the day's usage.  *)
EXTENDS Naturals, Sequences, FiniteSets, SequencesExt

CONSTANTS Clients,      \* callers, each with one call in progress at most
          DailyLimit,   \* dailyLimit, in tokens
          MaxTokens,    \* most tokens one answer costs
          Concurrency,  \* slots of the provider's gate
          MaxRetries,   \* attempts after the first
          MaxUsage      \* bound of the model: no new call from there on

ASSUME LLMAssumption ==
  /\ IsFiniteSet(Clients)
  /\ DailyLimit \in Nat \ {0} /\ MaxTokens \in Nat \ {0}
  /\ Concurrency \in Nat \ {0} /\ MaxRetries \in Nat /\ MaxUsage \in Nat

VARIABLES usage,     \* tokens recorded today
          lowUsage,  \* those of calls that the budget let through
          llmCalls,  \* where each caller's call is
          slotQueue  \* callers that wait for a slot, first come first

llmVars == <<usage, lowUsage, llmCalls, slotQueue>>

LLMCall(at, high, attempt) == [at |-> at, high |-> high, attempt |-> attempt]
NoCall == LLMCall("idle", FALSE, 0)

LLMInit ==
  /\ usage = 0 /\ lowUsage = 0
  /\ llmCalls = [c \in Clients |-> NoCall]
  /\ slotQueue = <<>>

Inside   == {c \in Clients : llmCalls[c].at = "attempting"}
InFlight == {c \in Clients : llmCalls[c].at # "idle" /\ ~llmCalls[c].high}

-----------------------------------------------------------------------------
\* Mutant of WithinBudget: the budget is not looked at.
WithinBudgetAlways(high) == TRUE

\* CompleteWithPriority looks the budget up before the call may have to wait; a
\* refused call changes nothing. "high" is a call the budget does not hold: of
\* high priority, or one whose lookup failed, which proceeds anyway.
WithinBudget(high) == high \/ usage < DailyLimit

BeginCall(c, high) ==
  /\ usage < MaxUsage
  /\ llmCalls[c] = NoCall
  /\ WithinBudget(high)
  /\ llmCalls' = [llmCalls EXCEPT ![c] = LLMCall("queued", high, 0)]
  /\ slotQueue' = Append(slotQueue, c)
  /\ UNCHANGED <<usage, lowUsage>>

SlotFree == Cardinality(Inside) < Concurrency

TakeSlot(c) ==
  /\ slotQueue # <<>> /\ Head(slotQueue) = c
  /\ llmCalls[c].at = "queued"
  /\ SlotFree
  /\ slotQueue' = Tail(slotQueue)
  /\ llmCalls' = [llmCalls EXCEPT ![c].at = "attempting"]
  /\ UNCHANGED <<usage, lowUsage>>

\* The caller's context ends while it waits for a slot, an answer or a retry.
GiveUpCall(c) ==
  /\ \/ llmCalls[c].at = "attempting" /\ UNCHANGED slotQueue
     \/ /\ llmCalls[c].at = "queued"
        /\ \E n \in DOMAIN slotQueue :
             slotQueue[n] = c /\ slotQueue' = RemoveAt(slotQueue, n)
  /\ llmCalls' = [llmCalls EXCEPT ![c] = NoCall]
  /\ UNCHANGED <<usage, lowUsage>>

\* Mutant of MayRetry: an off-by-one at the last attempt.
MayRetryOnceMore(c) == llmCalls[c].attempt <= MaxRetries

MayRetry(c) == llmCalls[c].attempt < MaxRetries

\* A failed attempt is repeated in the same slot, up to MaxRetries times.
AttemptFails(c) ==
  /\ llmCalls[c].at = "attempting"
  /\ llmCalls' = [llmCalls EXCEPT ![c] =
       IF MayRetry(c) THEN LLMCall("attempting", llmCalls[c].high, llmCalls[c].attempt + 1)
                      ELSE NoCall]
  /\ UNCHANGED <<usage, lowUsage, slotQueue>>

\* An answer frees the slot; only then are its tokens recorded.
Answered(c) ==
  /\ llmCalls[c].at = "attempting"
  /\ llmCalls' = [llmCalls EXCEPT ![c].at = "answered"]
  /\ UNCHANGED <<usage, lowUsage, slotQueue>>

\* A record that fails is only logged, like one of no tokens.
RecordUsage(c, tokens) ==
  /\ llmCalls[c].at = "answered"
  /\ usage' = usage + tokens
  /\ lowUsage' = IF llmCalls[c].high THEN lowUsage ELSE lowUsage + tokens
  /\ llmCalls' = [llmCalls EXCEPT ![c] = NoCall]
  /\ UNCHANGED slotQueue

\* Usage is kept by date: a call may be admitted on one day and recorded on the next.
Midnight ==
  /\ usage > 0
  /\ usage' = 0 /\ lowUsage' = 0
  /\ UNCHANGED <<llmCalls, slotQueue>>

LLMNext ==
  \/ \E c \in Clients :
       \/ \E high \in BOOLEAN : BeginCall(c, high)
       \/ TakeSlot(c) \/ GiveUpCall(c) \/ AttemptFails(c) \/ Answered(c)
       \/ \E tokens \in 0 .. MaxTokens : RecordUsage(c, tokens)
  \/ Midnight

\* A call that began goes on; nobody is bound to call or to give up.
LLMFairness ==
  \A c \in Clients :
    /\ WF_llmVars(TakeSlot(c))
    /\ WF_llmVars(AttemptFails(c) \/ Answered(c))
    /\ WF_llmVars(\E tokens \in 0 .. MaxTokens : RecordUsage(c, tokens))

LLMSpec == LLMInit /\ [][LLMNext]_llmVars /\ LLMFairness

-----------------------------------------------------------------------------
LLMTypeOK ==
  /\ usage \in Nat /\ lowUsage \in Nat
  /\ llmCalls \in [Clients -> [at : {"idle", "queued", "attempting", "answered"},
                               high : BOOLEAN, attempt : 0 .. MaxRetries]]
  /\ slotQueue \in Seq(Clients)

\* The budget is soft, but not arbitrarily so: what the calls it let
\* through use in a day goes past the limit by less than one answer per caller,
\* even when midnight comes between the check and the record
\* (internal/insight/llm/budget.go:84-107: check, queue, call, record).
OvershootBounded == lowUsage < DailyLimit + Cardinality(Clients) * MaxTokens

\* The argument behind it: a call that was admitted is counted beforehand.
OvershootAccounted ==
  /\ lowUsage <= usage
  /\ lowUsage + Cardinality(InFlight) * MaxTokens
       < DailyLimit + Cardinality(Clients) * MaxTokens

\* Every call ends, also behind callers that retry in their slot
\* (internal/insight/llm/semaphore.go:66-72, retry.go:37-67).
CallsEnd == \A c \in Clients : llmCalls[c].at = "queued" ~> llmCalls[c].at = "idle"
=============================================================================
