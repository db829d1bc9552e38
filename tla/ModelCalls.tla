----------------------------- MODULE ModelCalls -----------------------------
(***************************************************************************)
(* The circuit breaker of the model endpoints of one stage                 *)
(* (core/llm_circuit_breaker.py) and the agent runner that goes through it *)
(* (services/agents/llm_agent.py).  A call tries at most three endpoints:  *)
(* the breaker selects one, the model is asked (the three output methods   *)
(* are one attempt), the outcome is recorded, and a failure selects again  *)
(* with the tried endpoints excluded.  The lock of the breaker makes       *)
(* select_endpoint and record_call atomic, and nothing else: the model is  *)
(* asked between the two.                                                  *)
(*                                                                         *)
(* The breaker of the primary opens after OpenAfter failures in a row and  *)
(* lets one probe through once the cooldown has passed.  A fallback opens  *)
(* after FallbackOpenAfter failures and has no cooldown of its own.        *)
(***************************************************************************)
EXTENDS Naturals, FiniteSets

CONSTANTS Calls,              \* the agent runs that share the process
          OpenAfter,          \* consecutive_failures_to_open
          FallbackOpenAfter   \* fallback_consecutive_failures_to_open

ASSUME ModelCallsAssumption ==
    /\ OpenAfter \in Nat \ {0}
    /\ FallbackOpenAfter \in Nat \ {0}

VARIABLES breaker,   \* endpoint -> [state, failures]
          probe,     \* half_open_probe_pending of the primary
          cooled,    \* the cooldown of the primary has passed since opened_at
          call       \* run -> [at, endpoint, tried]

callVars == <<breaker, probe, cooled, call>>

Endpoint     == {"primary", "fallback_a", "fallback_b"}
BreakerState == {"closed", "open", "half_open"}

Threshold(e) == IF e = "primary" THEN OpenAfter ELSE FallbackOpenAfter

At(c, p) == call[c].at = p

(***************************************************************************)
(* select_endpoint.                                                        *)
(***************************************************************************)

\* The first endpoint of a list that satisfies a test, or a last resort.
FirstFallback(S, otherwise) ==
    IF "fallback_a" \in S THEN "fallback_a"
    ELSE IF "fallback_b" \in S THEN "fallback_b" ELSE otherwise

PickFallback(excluded) ==
    LET left == {"fallback_a", "fallback_b"} \ excluded
    IN  FirstFallback({e \in left : breaker[e].state # "open"},
                      FirstFallback(left, "primary"))

Reopens == breaker["primary"].state = "open" /\ cooled

PrimaryState == IF Reopens THEN "half_open" ELSE breaker["primary"].state

ProbeWaits == probe \/ Reopens

Probing(excluded) ==
    "primary" \notin excluded /\ PrimaryState = "half_open" /\ ProbeWaits

Selected(excluded) ==
    IF \/ "primary" \notin excluded /\ PrimaryState = "closed"
       \/ Probing(excluded)
    THEN "primary"
    ELSE PickFallback(excluded)

(***************************************************************************)
(* record_call.                                                            *)
(***************************************************************************)
Closed == [state |-> "closed", failures |-> 0]

\* Mutant of Failed: a probe that fails leaves the breaker half-open.
FailedProbeForgotten(e, n) ==
    LET b == breaker[e] IN
    [state    |-> IF b.state = "closed" /\ n >= Threshold(e) THEN "open" ELSE b.state,
     failures |-> n]

Failed(e, n) ==
    LET b == breaker[e] IN
    [state    |-> IF b.state = "half_open" \/ (b.state = "closed" /\ n >= Threshold(e))
                  THEN "open" ELSE b.state,
     failures |-> n]

RecordSuccess(e) ==
    /\ breaker' = [breaker EXCEPT ![e] = Closed]
    /\ probe'   = IF e = "primary" THEN FALSE ELSE probe
    /\ UNCHANGED cooled

\* Past the threshold the count of failures no longer matters and is capped.
RecordFailure(e) ==
    LET n == IF breaker[e].failures < Threshold(e)
             THEN breaker[e].failures + 1 ELSE breaker[e].failures
    IN  /\ breaker' = [breaker EXCEPT ![e] = Failed(e, n)]
        /\ probe'   = IF e = "primary" /\ breaker[e].state = "half_open"
                      THEN FALSE ELSE probe
        /\ cooled'  = IF e = "primary" /\ breaker[e].state # Failed(e, n).state
                      THEN FALSE ELSE cooled

(***************************************************************************)
(* run_llm_agent.                                                          *)
(***************************************************************************)
Idle == [at |-> "idle", endpoint |-> "primary", tried |-> {}]

\* The prompt is rendered before the first endpoint is selected.
Begin(c) ==
    /\ At(c, "idle")
    /\ call' = [call EXCEPT ![c].at = "select"]
    /\ UNCHANGED <<breaker, probe, cooled>>

Select(c) ==
    /\ At(c, "select") /\ Cardinality(call[c].tried) < 3
    /\ LET e == Selected(call[c].tried) IN
       /\ breaker' = [breaker EXCEPT !["primary"].state = PrimaryState]
       /\ probe'   = (ProbeWaits /\ ~Probing(call[c].tried))
       /\ call'    = [call EXCEPT ![c] =
                        IF e \in @.tried THEN Idle
                        ELSE [at |-> "invoke", endpoint |-> e, tried |-> @.tried \cup {e}]]
       /\ UNCHANGED cooled

\* Every endpoint was tried: the run reports a failure and returns nothing.
GiveUp(c) ==
    /\ At(c, "select") /\ Cardinality(call[c].tried) = 3
    /\ call' = [call EXCEPT ![c] = Idle]
    /\ UNCHANGED <<breaker, probe, cooled>>

Succeed(c) ==
    /\ At(c, "invoke")
    /\ RecordSuccess(call[c].endpoint)
    /\ call' = [call EXCEPT ![c] = Idle]

\* No model could be built, or all three output methods failed.
Fail(c) ==
    /\ At(c, "invoke")
    /\ RecordFailure(call[c].endpoint)
    /\ call' = [call EXCEPT ![c].at = "select"]

Cooldown ==
    /\ breaker["primary"].state = "open" /\ ~cooled
    /\ cooled' = TRUE
    /\ UNCHANGED <<breaker, probe, call>>

Init ==
    /\ breaker = [e \in Endpoint |-> Closed]
    /\ probe   = FALSE
    /\ cooled  = FALSE
    /\ call    = [c \in Calls |-> Idle]

Next ==
    \/ \E c \in Calls : Begin(c) \/ Select(c) \/ GiveUp(c) \/ Succeed(c) \/ Fail(c)
    \/ Cooldown

\* A run goes on to its end, the model answers in the end, and time passes.
Fairness ==
    /\ \A c \in Calls : WF_callVars(Select(c) \/ GiveUp(c) \/ Succeed(c) \/ Fail(c))
    /\ WF_callVars(Cooldown)

Spec == Init /\ [][Next]_callVars /\ Fairness

(***************************************************************************)
(* Properties.                                                             *)
(***************************************************************************)

\* The variables keep their types, and a run never asks an endpoint twice.
TypeOK ==
    /\ breaker \in [Endpoint -> [state : BreakerState, failures : Nat]]
    /\ probe \in BOOLEAN /\ cooled \in BOOLEAN
    /\ call \in [Calls -> [at : {"idle", "select", "invoke"}, endpoint : Endpoint,
                           tried : SUBSET Endpoint]]

\* A half-open primary is never forgotten: either its probe is still to be
\* handed out or a run is asking the primary right now.  Nothing but the end of
\* such a run takes the breaker out of half_open, so a probe that was handed out
\* and not recorded would send every later call to a fallback for good.
HalfOpenIsProbed ==
    breaker["primary"].state = "half_open" =>
        probe \/ \E c \in Calls : At(c, "invoke") /\ call[c].endpoint = "primary"

=============================================================================
