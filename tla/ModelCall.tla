------------------------------ MODULE ModelCall ------------------------------
(***************************************************************************)
(* Calls of a language model under a token budget.  Callers, each a thread,*)
(* go through run_llm_adapter_flow (adapters/_llm_adapter_base.py; the     *)
(* crawl planner does the same) or, the Extractors, through                *)
(* SchemaExtractionRuntime.extract (processing/schema_extraction_runtime.  *)
(* py).  They share one OutboxBackedBudget (adapters/budget).  Each sends  *)
(* through a provider adapter (openai_responses_v2.py and                  *)
(* anthropic_messages.py, alike in control).  The raw bytes an adapter     *)
(* keeps of its last answer are left out.                                  *)
(*                                                                         *)
(* The budget has four caps of one shape (input, output and all tokens,    *)
(* cost); the model has one, on an amount.                                 *)
(***************************************************************************)
EXTENDS Naturals, FiniteSetsExt

CONSTANTS
    Caller, Extractors,     \* threads; those that extract
    Cap,                    \* the cap of the TokenBudget
    Estimates,              \* what DefaultUsageEstimator may say of a request
    MaxUsage,               \* most that one answer is billed for
    MaxAttempts,            \* max_attempts of the adapter
    MaxCalls                \* bound: calls of a caller

ASSUME ModelCallAssumption ==
    /\ IsFiniteSet(Caller) /\ Extractors \subseteq Caller
    /\ Cap \in Nat /\ Estimates \subseteq Nat \ {0}
    /\ MaxUsage \in Nat \ {0} /\ MaxAttempts \in Nat \ {0} /\ MaxCalls \in Nat

VARIABLES
    pc,         \* caller -> where it is
    calls,      \* caller -> calls begun
    attempt,    \* caller -> attempt of _post_with_retry
    usage,      \* caller -> usage of the answer in hand
    parsed,     \* caller -> does parsed_output hold what the caller asked for?
    total,      \* the advisory total of the budget
    recorded,   \* amount in the usage events of the outbox
    billed      \* history: amount of all answers whose usage was read

callVars == <<pc, calls, attempt, usage, parsed>>
vars == <<callVars, total, recorded, billed>>

Amount == 0 .. MaxUsage

Init ==
    /\ pc = [c \in Caller |-> "idle"]
    /\ calls = [c \in Caller |-> 0]
    /\ attempt = [c \in Caller |-> 0]
    /\ usage = [c \in Caller |-> 0]
    /\ parsed = [c \in Caller |-> FALSE]
    /\ total = 0 /\ recorded = 0 /\ billed = 0

(* Return or raise: what was in the frame is gone.                         *)
Leave(c) ==
    /\ pc' = [pc EXCEPT ![c] = "idle"]
    /\ attempt' = [attempt EXCEPT ![c] = 0]
    /\ usage' = [usage EXCEPT ![c] = 0]
    /\ parsed' = [parsed EXCEPT ![c] = FALSE]

-----------------------------------------------------------------------------
(* estimate_charge, then complete up to the first post.  A refusal raises  *)
(* and leaves no trace.                                                    *)
WithinCap_Ignored(amount) == TRUE
WithinCap(amount) == amount <= Cap

Estimate(c) ==
    /\ pc[c] = "idle" /\ calls[c] < MaxCalls
    /\ \E est \in Estimates : WithinCap(total + est)
    /\ pc' = [pc EXCEPT ![c] = "post"]
    /\ calls' = [calls EXCEPT ![c] = @ + 1]
    /\ attempt' = [attempt EXCEPT ![c] = 1]
    /\ UNCHANGED <<usage, parsed, total, recorded, billed>>

(* A timeout, a connection error, 429 or 5xx: the request is sent again    *)
(* until max_attempts.                                                     *)
RetryableFailure(c) ==
    /\ pc[c] = "post"
    /\ IF attempt[c] < MaxAttempts
       THEN attempt' = [attempt EXCEPT ![c] = @ + 1] /\ UNCHANGED <<pc, usage, parsed>>
       ELSE Leave(c)
    /\ UNCHANGED <<calls, total, recorded, billed>>

(* Another transport error, another status, or a success whose body is no  *)
(* JSON object.                                                            *)
FatalFailure(c) ==
    /\ pc[c] = "post"
    /\ Leave(c)
    /\ UNCHANGED <<calls, total, recorded, billed>>

(* A success with a readable body.  complete raises when the usage block   *)
(* is malformed and, after the usage was read, when a text that should be  *)
(* a JSON object is none.                                                  *)
Answer(c) ==
    /\ pc[c] = "post"
    /\ \/ Leave(c) /\ UNCHANGED billed
       \/ \E u \in Amount :
            /\ billed' = billed + u
            /\ \/ Leave(c)
               \/ /\ usage' = [usage EXCEPT ![c] = u]
                  /\ \E p \in BOOLEAN : parsed' = [parsed EXCEPT ![c] = p]
                  /\ pc' = [pc EXCEPT ![c] = "persist"]
                  /\ UNCHANGED attempt
    /\ UNCHANGED <<calls, total, recorded>>

(* _persist_if_allowed may fail, and so may the validator of the response  *)
(* built after it.  An extractor validates the output before it charges; a *)
(* caller of the other flow charges first.                                 *)
ReadyToCharge(c) == c \in Extractors => parsed[c]

Persist(c) ==
    /\ pc[c] = "persist"
    /\ \/ Leave(c)
       \/ /\ ReadyToCharge(c)
          /\ pc' = [pc EXCEPT ![c] = "charge"]
          /\ UNCHANGED <<attempt, usage, parsed>>
    /\ UNCHANGED <<calls, total, recorded, billed>>

-----------------------------------------------------------------------------
(* charge, first half: the event is persisted and its outbox record        *)
(* appended.  Either may raise, and so may the lookup of the price.        *)
ChargeRecord(c) ==
    /\ pc[c] = "charge"
    /\ recorded' = recorded + usage[c]
    /\ pc' = [pc EXCEPT ![c] = "total"]
    /\ UNCHANGED <<calls, attempt, usage, parsed, total, billed>>

(* Mutant: a charge that fails, at the cap or before, is made again.       *)
ChargeFails_Again(c) ==
    /\ pc[c] \in {"charge", "total"}
    /\ pc' = [pc EXCEPT ![c] = "charge"]
    /\ UNCHANGED <<calls, attempt, usage, parsed, total, recorded, billed>>
ChargeFails(c) ==
    /\ pc[c] = "charge"
    /\ Leave(c)
    /\ UNCHANGED <<calls, total, recorded, billed>>

(* charge, second half, under the lock.  Beyond the cap it raises; whether *)
(* it does, or a missing raw_response_ref raises after it, or the caller   *)
(* has its answer, nothing else changes.                                   *)
ChargeTotal(c) ==
    /\ pc[c] = "total"
    /\ total' = total + usage[c]
    /\ Leave(c)
    /\ UNCHANGED <<calls, recorded, billed>>

(* Mutant: the total first, then the record, which may fail.               *)
Charge_TotalFirst(c) ==
    \/ /\ pc[c] = "charge"
       /\ total' = total + usage[c]
       /\ pc' = [pc EXCEPT ![c] = "total"]
       /\ UNCHANGED <<calls, attempt, usage, parsed, recorded, billed>>
    \/ /\ pc[c] = "total"
       /\ recorded' \in {recorded + usage[c], recorded}
       /\ Leave(c)
       /\ UNCHANGED <<calls, total, billed>>
Charge(c) == ChargeRecord(c) \/ ChargeFails(c) \/ ChargeTotal(c)

Step(c) ==
    \/ Estimate(c) \/ RetryableFailure(c) \/ FatalFailure(c)
    \/ Answer(c) \/ Persist(c) \/ Charge(c)

Next == \E c \in Caller : Step(c)

Spec == Init /\ [][Next]_vars

-----------------------------------------------------------------------------
Pcs == {"idle", "post", "persist", "charge", "total"}
TypeOK ==
    /\ pc \in [Caller -> Pcs]
    /\ calls \in [Caller -> Nat] /\ attempt \in [Caller -> Nat]
    /\ usage \in [Caller -> Amount] /\ parsed \in [Caller -> BOOLEAN]
    /\ total \in Nat /\ recorded \in Nat /\ billed \in Nat

InFlight == {c \in Caller : pc[c] /= "idle"}

(* estimate_charge looks at the total before the call and charge adds to it*)
(* after, so callers overtake each other; still the cap is exceeded by no  *)
(* more than one answer for every caller.                                  *)
OvershootBounded == total <= Cap + MaxUsage * Cardinality(Caller)

(* What callers in the given places hold.                                  *)
Sum(f, S) == MapThenSumSet(LAMBDA c : f[c], S)
Held(places) == Sum(usage, {c \in Caller : pc[c] \in places})

(* The outbox is the source of truth: the advisory total is what it holds, *)
(* less the charges between append_outbox and the lock.  No failure lets   *)
(* the total count a usage that was not persisted.                         *)
TotalFollowsOutbox == recorded = total + Held({"total"})

(* No answer is charged twice: the usage events, with the answers on their *)
(* way to one, never come to more than the providers reported, whatever is *)
(* sent again and whichever step of charge raises (_post_with_retry,       *)
(* charge).                                                                *)
NoneChargedTwice == recorded + Held({"persist", "charge"}) <= billed

(* Every answer whose usage was read has a usage event, or its call is     *)
(* still on the way to one: also an answer that is malformed otherwise.    *)
EveryAnswerMetered == billed = recorded + Held({"persist", "charge"})
=============================================================================
