----------------------------- MODULE ServicesProofs -----------------------------
(***************************************************************************)
(* Theorems about the services, for any number of calls, processes,        *)
(* requests, dispatches and streams, and any bounds: ModelCalls by itself, *)
(* and MCServices, whose parts share no variable: each has an invariant    *)
(* its own steps keep, and the steps of the others leave it alone.         *)
(***************************************************************************)
EXTENDS MCServices, TLAPS

(* What the assumptions give every section. *)
LEMMA ServiceNumbers ==
  /\ FlagWrites \in Nat /\ TableWrites \in Nat /\ MaxTokens \in Nat
  /\ TokenEvents \in Nat /\ StatusEvents \in Nat /\ Chapters \in Nat \ {0}
  BY ServicesAssumption

(***************************************************************************)
(* ModelCalls.                                                             *)
(***************************************************************************)
\* HalfOpenIsProbed speaks of who is asking, so it needs the types of the calls.
ProbeInv == TypeOK /\ HalfOpenIsProbed

-----------------------------------------------------------------------------
(* The parts of a selection.                                               *)

\* A selection yields an endpoint, and the primary's state is a state.
LEMMA SelectionTypes ==
  ASSUME TypeOK, NEW excluded \in SUBSET Endpoint
  PROVE  Selected(excluded) \in Endpoint /\ PrimaryState \in BreakerState
<1>1. PickFallback(excluded) \in Endpoint
  BY DEF PickFallback, FirstFallback, Endpoint
<1>2. Selected(excluded) \in Endpoint
  BY <1>1 DEF Selected, Endpoint
<1>3. PrimaryState \in BreakerState
  BY DEF PrimaryState, TypeOK, Endpoint, BreakerState
<1> QED BY <1>2, <1>3

\* A probe that a selection takes goes to the primary, which was not tried.
LEMMA ProbeGoesToPrimary ==
  ASSUME NEW excluded, Probing(excluded)
  PROVE  Selected(excluded) = "primary" /\ "primary" \notin excluded
  BY DEF Selected, Probing

\* A failure that is recorded leaves no breaker half-open, and a state with a count.
LEMMA FailedClosesHalfOpen ==
  ASSUME TypeOK, NEW e \in Endpoint, NEW n \in Nat
  PROVE  /\ Failed(e, n).state \in {"closed", "open"}
         /\ Failed(e, n) \in [state : BreakerState, failures : Nat]
<1>1. breaker[e].state \in BreakerState
  BY DEF TypeOK
<1> QED BY <1>1 DEF Failed, BreakerState

-----------------------------------------------------------------------------
(* One lemma per step.                                                     *)

LEMMA InvInit == Init => ProbeInv
<1> SUFFICES ASSUME Init PROVE ProbeInv
  OBVIOUS
<1>1. breaker \in [Endpoint -> [state : BreakerState, failures : Nat]]
  BY DEF Init, Closed, BreakerState
<1>2. call \in [Calls -> [at : {"idle", "select", "invoke"}, endpoint : Endpoint,
                          tried : SUBSET Endpoint]]
  BY DEF Init, Idle, Endpoint
<1>3. HalfOpenIsProbed
  BY DEF Init, HalfOpenIsProbed, Closed, Endpoint
<1> QED BY <1>1, <1>2, <1>3 DEF Init, ProbeInv, TypeOK

\* A run that starts or gives up is not asking anybody.
LEMMA QuietStep ==
  ASSUME ProbeInv, NEW c \in Calls, Begin(c) \/ GiveUp(c)
  PROVE  ProbeInv'
<1>1. TypeOK'
  BY DEF ProbeInv, TypeOK, Begin, GiveUp, Idle, Endpoint
<1>2. HalfOpenIsProbed'
  <2>1. ~At(c, "invoke") /\ \A d \in Calls : d # c => call'[d] = call[d]
    BY DEF Begin, GiveUp, At, ProbeInv, TypeOK
  <2> QED BY <2>1 DEF ProbeInv, HalfOpenIsProbed, Begin, GiveUp, At
<1> QED BY <1>1, <1>2 DEF ProbeInv

\* If the selection hands the probe out, this run is asking the primary; if not,
\* it is as it was.
LEMMA SelectStep ==
  ASSUME ProbeInv, NEW c \in Calls, Select(c)
  PROVE  ProbeInv'
<1> DEFINE tried == call[c].tried
           e == Selected(tried)
<1>1. tried \in SUBSET Endpoint /\ ~At(c, "invoke")
  BY DEF ProbeInv, TypeOK, Select, At
<1>2. e \in Endpoint /\ PrimaryState \in BreakerState
  BY <1>1, SelectionTypes DEF ProbeInv
<1>3. /\ breaker' = [breaker EXCEPT !["primary"].state = PrimaryState]
      /\ probe' = (ProbeWaits /\ ~Probing(tried))
      /\ cooled' = cooled
      /\ call' = [call EXCEPT ![c] = IF e \in tried THEN Idle
                    ELSE [at |-> "invoke", endpoint |-> e, tried |-> tried \cup {e}]]
  BY DEF Select
<1>4. TypeOK'
  <2>1. breaker' \in [Endpoint -> [state : BreakerState, failures : Nat]]
    BY <1>2, <1>3 DEF ProbeInv, TypeOK
  <2>2. call' \in [Calls -> [at : {"idle", "select", "invoke"}, endpoint : Endpoint,
                             tried : SUBSET Endpoint]]
    BY <1>1, <1>2, <1>3 DEF ProbeInv, TypeOK, Idle, Endpoint
  <2>3. probe' \in BOOLEAN
    BY <1>3
  <2> QED BY <1>3, <2>1, <2>2, <2>3 DEF ProbeInv, TypeOK
<1>5. ASSUME breaker'["primary"].state = "half_open"
      PROVE  probe' \/ \E d \in Calls : At(d, "invoke")' /\ call'[d].endpoint = "primary"
  <2>1. PrimaryState = "half_open"
    BY <1>3, <1>5 DEF ProbeInv, TypeOK, Endpoint
  <2>2. CASE Probing(tried)
    BY <1>3, <2>2, ProbeGoesToPrimary DEF At, ProbeInv, TypeOK
  <2>3. CASE ~Probing(tried) /\ ProbeWaits
    BY <1>3, <2>3
  <2>4. CASE ~ProbeWaits
    <3>1. breaker["primary"].state = "half_open" /\ ~probe
      BY <2>1, <2>4 DEF PrimaryState, ProbeWaits
    <3>2. PICK d \in Calls : At(d, "invoke") /\ call[d].endpoint = "primary"
      BY <3>1 DEF ProbeInv, HalfOpenIsProbed
    <3>3. d # c /\ call'[d] = call[d]
      BY <1>1, <1>3, <3>2 DEF ProbeInv, TypeOK
    <3> QED BY <3>2, <3>3 DEF At
  <2> QED BY <2>2, <2>3, <2>4
<1> QED BY <1>4, <1>5 DEF ProbeInv, HalfOpenIsProbed

\* Whatever is recorded of the primary, it is not half-open afterwards; and a
\* run that asked a fallback was not the probe.
LEMMA RecordStep ==
  ASSUME ProbeInv, NEW c \in Calls, Succeed(c) \/ Fail(c)
  PROVE  ProbeInv'
<1> DEFINE e == call[c].endpoint
<1>1. e \in Endpoint /\ At(c, "invoke")
  BY DEF ProbeInv, TypeOK, Succeed, Fail
<1>2. \A d \in Calls : d # c => call'[d] = call[d]
  BY DEF Succeed, Fail, ProbeInv, TypeOK
<1>3. call' \in [Calls -> [at : {"idle", "select", "invoke"}, endpoint : Endpoint,
                           tried : SUBSET Endpoint]]
  BY DEF Succeed, Fail, ProbeInv, TypeOK, Idle, Endpoint
<1>4. /\ breaker' \in [Endpoint -> [state : BreakerState, failures : Nat]]
      /\ probe' \in BOOLEAN /\ cooled' \in BOOLEAN
      /\ breaker'[e].state # "half_open"
      /\ \A d \in Endpoint : d # e => breaker'[d] = breaker[d]
      /\ e # "primary" => probe' = probe
  <2>1. CASE Succeed(c)
    BY <1>1, <2>1 DEF Succeed, RecordSuccess, Closed, ProbeInv, TypeOK, BreakerState
  <2>2. CASE Fail(c)
    <3> DEFINE n == IF breaker[e].failures < Threshold(e)
                    THEN breaker[e].failures + 1 ELSE breaker[e].failures
    <3>1. n \in Nat
      BY <1>1, ModelCallsAssumption DEF ProbeInv, TypeOK, Threshold
    <3>2. /\ breaker' = [breaker EXCEPT ![e] = Failed(e, n)]
          /\ probe' = IF e = "primary" /\ breaker[e].state = "half_open"
                      THEN FALSE ELSE probe
          /\ cooled' = IF e = "primary" /\ breaker[e].state # Failed(e, n).state
                       THEN FALSE ELSE cooled
      BY <2>2 DEF Fail, RecordFailure
    <3>3. /\ Failed(e, n).state # "half_open"
          /\ Failed(e, n) \in [state : BreakerState, failures : Nat]
      BY <1>1, <3>1, FailedClosesHalfOpen DEF ProbeInv
    <3> HIDE DEF n
    <3>4. breaker' \in [Endpoint -> [state : BreakerState, failures : Nat]]
      BY <1>1, <3>2, <3>3 DEF ProbeInv, TypeOK
    <3>5. breaker'[e] = Failed(e, n) /\ \A d \in Endpoint : d # e => breaker'[d] = breaker[d]
      BY <1>1, <3>2 DEF ProbeInv, TypeOK
    <3> QED BY <3>2, <3>3, <3>4, <3>5 DEF ProbeInv, TypeOK
  <2> QED BY <2>1, <2>2
<1>5. HalfOpenIsProbed'
  BY <1>1, <1>2, <1>4 DEF ProbeInv, HalfOpenIsProbed, At, Endpoint
<1> QED BY <1>3, <1>4, <1>5 DEF ProbeInv, TypeOK

LEMMA InvNext == ProbeInv /\ [Next]_callVars => ProbeInv'
<1> SUFFICES ASSUME ProbeInv, [Next]_callVars PROVE ProbeInv'
  OBVIOUS
<1>1. CASE \E c \in Calls : Begin(c) \/ GiveUp(c)
  BY <1>1, QuietStep
<1>2. CASE \E c \in Calls : Select(c)
  BY <1>2, SelectStep
<1>3. CASE \E c \in Calls : Succeed(c) \/ Fail(c)
  BY <1>3, RecordStep
<1>4. CASE Cooldown
  BY <1>4 DEF Cooldown, ProbeInv, TypeOK, HalfOpenIsProbed, At
<1>5. CASE UNCHANGED callVars
  BY <1>5 DEF callVars, ProbeInv, TypeOK, HalfOpenIsProbed, At
<1> QED BY <1>1, <1>2, <1>3, <1>4, <1>5 DEF Next

(***************************************************************************)
(* TokenAccounting.                                                        *)
(***************************************************************************)
Session == [at: {"unused", "sent", "begun", "run", "charge", "settle", "left"},
            count: 0..MaxTokens, outcome: {"completed", "failed", "cancelled", "paused"}]
TokenRow == [status: {"queued", "held", "paused", "completed", "failed", "cancelled"},
             owner: Dispatches \cup {"nobody"}, total: 0..MaxTokens]

\* The types of what is counted, and the property, which is inductive with them.
TokenInv ==
  /\ used \in 0..MaxTokens
  /\ task \in TokenRow
  /\ session \in [Dispatches -> Session]
  /\ ledger \in [Dispatches -> 0..MaxTokens]
  /\ NothingIsInvented

\* A session goes on with its count or another one that was used.
SessionGoes(d, s) ==
  /\ session' = [session EXCEPT ![d] = s]
  /\ s \in Session /\ s.count <= used'

LEMMA TokensKeep ==
  ASSUME TokenInv, NEW d \in Dispatches, NEW s, SessionGoes(d, s),
         used' \in 0..MaxTokens, used <= used',
         task' \in TokenRow, task'.total <= used',
         ledger' \in [Dispatches -> 0..MaxTokens],
         \A e \in Dispatches : ledger'[e] <= used'
  PROVE  TokenInv'
<1>1. session' \in [Dispatches -> Session]
  BY DEF TokenInv, SessionGoes
<1>2. \A e \in Dispatches : session'[e].count <= used'
  <2>1. ASSUME NEW e \in Dispatches, e # d PROVE session'[e].count <= used'
    <3>1. session'[e] = session[e] /\ session[e] \in Session /\ session[e].count <= used
      BY <2>1 DEF TokenInv, SessionGoes, NothingIsInvented, TA!NothingIsInvented
    <3> QED BY <3>1, ServiceNumbers DEF Session, TokenInv
  <2>2. session'[d].count <= used'
    BY DEF TokenInv, SessionGoes
  <2> QED BY <2>1, <2>2
<1> QED BY <1>1, <1>2 DEF TokenInv, NothingIsInvented, TA!NothingIsInvented

\* The row is written by a request or a tick.
LEMMA RowKeeps ==
  ASSUME TokenInv, UNCHANGED <<used, session, ledger>>, task' \in TokenRow, task'.total <= used
  PROVE  TokenInv'
  BY DEF TokenInv, NothingIsInvented, TA!NothingIsInvented

LEMMA TokenFields ==
  ASSUME TokenInv, NEW d \in Dispatches
  PROVE  /\ task \in TokenRow /\ task.total \in 0..MaxTokens /\ task.total <= used
         /\ used \in 0..MaxTokens /\ used \in Nat
         /\ session[d] \in Session /\ session[d].count \in 0..MaxTokens /\ session[d].count <= used
         /\ ledger \in [Dispatches -> 0..MaxTokens] /\ \A e \in Dispatches : ledger[e] <= used
  BY ServiceNumbers DEF TokenInv, TokenRow, Session, NothingIsInvented, TA!NothingIsInvented

\* Steps that change nothing but where a session is.
LEMMA SessionMoves ==
  ASSUME TokenInv, NEW d \in Dispatches,
         \/ TA!Crash(d) \/ TA!BeginSession(d) \/ TA!Activate(d) \/ TA!CallModel(d)
         \/ TA!Finish(d) \/ TA!ChargeFails(d)
  PROVE  TokenInv'
<1>0. /\ task \in TokenRow /\ task.total \in 0..MaxTokens /\ task.total <= used
      /\ used \in 0..MaxTokens /\ used \in Nat /\ 0 \in 0..MaxTokens
      /\ session[d] \in Session /\ session[d].count \in 0..MaxTokens /\ session[d].count <= used
      /\ ledger \in [Dispatches -> 0..MaxTokens] /\ \A e \in Dispatches : ledger[e] <= used
  BY TokenFields, ServiceNumbers
<1>1. \E s : /\ SessionGoes(d, s)
             /\ used' \in 0..MaxTokens /\ used <= used'
  <2>1. CASE TA!Crash(d)
    <3>1. session' = [session EXCEPT ![d] = [@ EXCEPT !.at = "sent", !.count = 0]] /\ used' = used
      BY <2>1 DEF TA!Crash
    <3>2. PICK s : s = [session[d] EXCEPT !.at = "sent", !.count = 0]
      OBVIOUS
    <3>3. s \in Session /\ s.count = 0
      BY <3>2, <1>0 DEF Session
    <3>4. session' = [session EXCEPT ![d] = s]
      BY <3>1, <3>2 DEF TokenInv
    <3>5. SessionGoes(d, s)
      <4>1. used' = used /\ 0 <= used
        BY <1>0, <3>1
      <4> QED BY <3>3, <3>4, <4>1 DEF SessionGoes
    <3> QED BY <1>0, <3>1, <3>5
  <2>2. CASE TA!BeginSession(d)
    <3>1. session' = [session EXCEPT ![d].at = "begun", ![d].count = task.total] /\ used' = used
      BY <2>2 DEF TA!BeginSession
    <3>2. PICK s : s = [session[d] EXCEPT !.at = "begun", !.count = task.total]
      OBVIOUS
    <3>3. s \in Session /\ s.count = task.total
      BY <3>2, <1>0 DEF Session
    <3>4. session' = [session EXCEPT ![d] = s]
      BY <3>1, <3>2 DEF TokenInv
    <3>5. SessionGoes(d, s)
      BY <1>0, <3>1, <3>3, <3>4 DEF SessionGoes
    <3> QED BY <1>0, <3>1, <3>5
  <2>3. CASE TA!Activate(d) \/ TA!Finish(d) \/ TA!ChargeFails(d)
    <3>1. PICK at \in {"left", "run", "charge", "settle"}, o \in {"completed", "failed", "paused", "cancelled", session[d].outcome} :
            session' = [session EXCEPT ![d].at = at, ![d].outcome = o] /\ used' = used
      <4>1. session[d].outcome = session[d].outcome /\ session \in [Dispatches -> Session] /\ session[d] \in Session
        BY <1>0 DEF TokenInv
      <4>2. ASSUME NEW at PROVE [session EXCEPT ![d].at = at] = [session EXCEPT ![d].at = at, ![d].outcome = session[d].outcome]
        BY <4>1 DEF Session
      <4> QED BY <2>3, <4>1, <4>2 DEF TA!Activate, TA!Finish, TA!ChargeFails, TA!Goto, TA!Leaves, TA!Stop
    <3>2. PICK s : s = [session[d] EXCEPT !.at = at, !.outcome = o]
      OBVIOUS
    <3>3. s \in Session /\ s.count = session[d].count
      BY <3>2, <1>0 DEF Session
    <3>4. session' = [session EXCEPT ![d] = s]
      BY <3>1, <3>2 DEF TokenInv
    <3>5. SessionGoes(d, s)
      BY <1>0, <3>1, <3>3, <3>4 DEF SessionGoes
    <3> QED BY <1>0, <3>1, <3>5
  <2>4. CASE TA!CallModel(d)
    <3>1. session' = [session EXCEPT ![d].count = @ + 1] /\ used' = used + 1 /\ used < MaxTokens
      BY <2>4 DEF TA!CallModel
    <3>2. PICK s : s = [session[d] EXCEPT !.count = @ + 1]
      OBVIOUS
    <3>3. session[d].count + 1 \in 0..MaxTokens /\ session[d].count + 1 <= used'
      BY <1>0, <3>1, ServiceNumbers
    <3>4. s \in Session /\ s.count = session[d].count + 1
      BY <1>0, <3>2, <3>3 DEF Session
    <3>5. session' = [session EXCEPT ![d] = s]
      BY <3>1, <3>2 DEF TokenInv
    <3>6. SessionGoes(d, s)
      BY <3>3, <3>4, <3>5 DEF SessionGoes
    <3> QED BY <1>0, <3>1, <3>6, ServiceNumbers
  <2> QED BY <2>1, <2>2, <2>3, <2>4
<1>2. UNCHANGED <<task, ledger>>
  BY DEF TA!Crash, TA!BeginSession, TA!Activate, TA!CallModel, TA!Finish, TA!ChargeFails
<1>3. PICK s : SessionGoes(d, s) /\ used' \in 0..MaxTokens /\ used <= used'
  BY <1>1
<1>4. /\ task' \in TokenRow /\ task'.total <= used'
      /\ ledger' \in [Dispatches -> 0..MaxTokens] /\ \A e \in Dispatches : ledger'[e] <= used'
  BY <1>0, <1>2, <1>3, ServiceNumbers
<1> QED BY <1>3, <1>4, TokensKeep

\* A session goes to a place and keeps its count and outcome, or takes another.
LEMMA SessionPlaced ==
  ASSUME TokenInv, NEW d \in Dispatches, NEW at \in {"sent", "left", "settle"},
         session' = [session EXCEPT ![d].at = at], used' = used
  PROVE  \E s : SessionGoes(d, s)
<1>1. session \in [Dispatches -> Session] /\ session[d] \in Session /\ session[d].count <= used
  BY TokenFields DEF TokenInv
<1>2. PICK s : s = [session[d] EXCEPT !.at = at]
  OBVIOUS
<1>3. s \in Session /\ s.count = session[d].count /\ session' = [session EXCEPT ![d] = s]
  BY <1>1, <1>2 DEF Session
<1>4. SessionGoes(d, s)
  BY <1>1, <1>3 DEF SessionGoes
<1> QED BY <1>4

\* The end of an execution says what its session counted.
LEMMA CountIsWritten ==
  ASSUME TokenInv, NEW d \in Dispatches, TA!Charge(d) \/ TA!Settle(d) \/ TA!Report(d) \/ TA!Dispatch(d)
  PROVE  TokenInv'
<1>0. /\ task \in TokenRow /\ task.total \in 0..MaxTokens /\ task.total <= used
      /\ used \in 0..MaxTokens /\ used \in Nat
      /\ session[d] \in Session /\ session[d].count \in 0..MaxTokens /\ session[d].count <= used
      /\ ledger \in [Dispatches -> 0..MaxTokens] /\ \A e \in Dispatches : ledger[e] <= used
  BY TokenFields
<1>1. CASE TA!Charge(d)
  <2>1. /\ task' = [task EXCEPT !.total = session[d].count]
        /\ ledger' = [ledger EXCEPT ![d] = session[d].count] \/ ledger' = ledger
        /\ session' = [session EXCEPT ![d].at = "settle"] /\ used' = used
    BY <1>1 DEF TA!Charge, TA!Goto
  <2>2. task' \in TokenRow /\ task'.total = session[d].count
    BY <1>0, <2>1 DEF TokenRow
  <2>3. ledger' \in [Dispatches -> 0..MaxTokens] /\ \A e \in Dispatches : ledger'[e] <= used
    BY <1>0, <2>1
  <2>4. PICK s : SessionGoes(d, s)
    BY <2>1, SessionPlaced
  <2> QED BY <1>0, <2>1, <2>2, <2>3, <2>4, TokensKeep
<1>2. CASE TA!Settle(d)
  <2>1. /\ \/ task' = [status |-> session[d].outcome, owner |-> "nobody", total |-> session[d].count]
           \/ task' = task
        /\ session' = [session EXCEPT ![d].at = "left"] /\ used' = used /\ ledger' = ledger
    BY <1>2 DEF TA!Settle, TA!Goto, TA!Nobody
  <2>2. task' \in TokenRow /\ task'.total <= used
    <3>1. session[d].outcome \in {"completed", "failed", "cancelled", "paused"}
      BY <1>0 DEF Session
    <3> QED BY <1>0, <2>1, <3>1 DEF TokenRow
  <2>3. PICK s : SessionGoes(d, s)
    BY <2>1, SessionPlaced
  <2> QED BY <1>0, <2>1, <2>2, <2>3, TokensKeep
<1>3. CASE TA!Dispatch(d)
  <2>1. /\ task' = [task EXCEPT !.status = "held", !.owner = d]
        /\ session' = [session EXCEPT ![d].at = "sent"] /\ used' = used /\ ledger' = ledger
    BY <1>3 DEF TA!Dispatch, TA!Goto
  <2>2. task' \in TokenRow /\ task'.total = task.total
    BY <1>0, <2>1 DEF TokenRow
  <2>3. PICK s : SessionGoes(d, s)
    BY <2>1, SessionPlaced
  <2> QED BY <1>0, <2>1, <2>2, <2>3, TokensKeep
<1>4. CASE TA!Report(d)
  <2>1. used' = used /\ ledger' = ledger
    BY <1>4 DEF TA!Report
  <2>2. CASE session' = [session EXCEPT ![d].at = "left"] /\ task' = task
    <3>1. PICK s : SessionGoes(d, s)
      BY <2>1, <2>2, SessionPlaced
    <3> QED BY <1>0, <2>1, <2>2, <3>1, TokensKeep
  <2>3. CASE /\ session' = [session EXCEPT ![d].at = "charge", ![d].outcome = task.status]
             /\ task.status \in {"paused", "cancelled"} /\ task' = task
    <3>1. PICK s : s = [session[d] EXCEPT !.at = "charge", !.outcome = task.status]
      OBVIOUS
    <3>2. s \in Session /\ s.count = session[d].count /\ session' = [session EXCEPT ![d] = s]
      BY <1>0, <2>3, <3>1 DEF Session, TokenInv
    <3>3. SessionGoes(d, s)
      BY <1>0, <2>1, <3>2 DEF SessionGoes
    <3> QED BY <1>0, <2>1, <2>3, <3>3, TokensKeep
  <2>4. CASE task' = [task EXCEPT !.total = TA!Max2(@, session[d].count)] /\ session' = session
    <3>1. TA!Max2(task.total, session[d].count) \in {task.total, session[d].count}
      BY DEF TA!Max2
    <3>2. task' \in TokenRow /\ task'.total <= used
      BY <1>0, <2>4, <3>1 DEF TokenRow
    <3> QED BY <2>1, <2>4, <3>2, RowKeeps
  <2> QED BY <1>4, <2>2, <2>3, <2>4 DEF TA!Report, TA!Goto, TA!Leaves, TA!Stop
<1> QED BY <1>1, <1>2, <1>3, <1>4

LEMMA RequestsKeep ==
  ASSUME TokenInv, TA!Reclaim \/ TA!Resume \/ \E to \in TA!Stop : TA!StopRequest(to)
  PROVE  TokenInv'
<1>1. task \in TokenRow /\ task.total <= used
  BY DEF TokenInv, NothingIsInvented, TA!NothingIsInvented
<1>2. \E st \in {"queued", "paused", "cancelled"} :
        task' = [task EXCEPT !.status = st, !.owner = "nobody"]
  BY DEF TA!Reclaim, TA!Resume, TA!StopRequest, TA!Stop, TA!Nobody
<1>3. task' \in TokenRow /\ task'.total = task.total
  BY <1>1, <1>2 DEF TokenRow
<1>4. UNCHANGED <<used, session, ledger>>
  BY DEF TA!Reclaim, TA!Resume, TA!StopRequest
<1> QED BY <1>1, <1>3, <1>4, RowKeeps

LEMMA FirstTokens == TA!Init => TokenInv
  BY ServiceNumbers DEF TA!Init, TA!Nobody, TokenInv, TokenRow, Session, NothingIsInvented, TA!NothingIsInvented

LEMMA TokenStep == TokenInv /\ [ServicesNext]_servicesVars => TokenInv'
<1>1. [ServicesNext]_servicesVars => TokensNext \/ UNCHANGED tokenVars
  BY DEF ServicesNext, CallsNext, CallsMove, FlagNext, FlagMoves, SettingsNext, SettingsMove,
         StatusNext, StatusMoves, servicesVars
<1>2. TokenInv /\ TokensNext => TokenInv'
  BY SessionMoves, CountIsWritten, RequestsKeep DEF TokensNext
<1>3. TokenInv /\ UNCHANGED tokenVars => TokenInv'
  BY DEF TokenInv, NothingIsInvented, TA!NothingIsInvented, tokenVars
<1> QED BY <1>1, <1>2, <1>3

(***************************************************************************)
(* StatusMirror.                                                           *)
(***************************************************************************)
StatusRow == [status: SM!LiveStatus, next: 1..(Chapters + 1), last: 0..Chapters]
Snapshot == [status: SM!LiveStatus, chapter: 0..(Chapters + 1), done: BOOLEAN] \cup {SM!Absent}
Publishing == [at: {"idle", "refresh", "write"}, shot: Snapshot]
Author == [at: {"none", "begin", "work", "set", "stopping", "lost"} \cup SM!NonLive,
           stage: {"prewrite", "write", "stored", "done", "moved", "review"},
           chapter: 1..Chapters, verdict: {"failed", "cancelled", "paused"}]
Shown == [at: {"poll", "merge", "closed"}, row: StatusRow, run: SM!LiveStatus, chapter: 1..(Chapters + 1)]

\* Of a book that has the texts 1..n: where its row stands, ...
RowOk(r, n) ==
  /\ r \in StatusRow /\ r.next <= n + 1 /\ r.last <= n
  /\ r.status = "completed" => n = Chapters

\* ... what a snapshot may say, ...
ShotOk(l, n) == l \in Snapshot /\ l.chapter <= n + 1

\* ... where its worker is, ...
AuthorOk(a, n) ==
  /\ a \in Author /\ a.chapter <= n + 1
  /\ a.stage \in {"stored", "done", "moved"} => a.chapter <= n
  /\ a.stage = "review" \/ a.at = "completed" => n = Chapters

\* ... and what a stream has read and shows.
StreamOk(x, n) == x \in Shown /\ RowOk(x.row, n) /\ x.chapter <= n + 1

StatusInv ==
  /\ stored \in 0..Chapters
  /\ RowOk(row, stored) /\ ShotOk(live, stored) /\ AuthorOk(author, stored)
  /\ publisher \in [Publishers -> Publishing]
  /\ \A p \in Publishers : ShotOk(publisher[p].shot, stored)
  /\ stream \in [Streams -> Shown]
  /\ \A s \in Streams : StreamOk(stream[s], stored)

-----------------------------------------------------------------------------
LEMMA StatusNames ==
  /\ SM!LiveStatus = {"queued", "running", "paused", "completed", "failed", "cancelled"}
  /\ SM!NonLive = {"completed", "failed", "cancelled", "paused"}
  /\ SM!Terminal = {"completed", "failed", "cancelled"} /\ SM!Stop = {"paused", "cancelled"}
  /\ SM!Absent \in Snapshot /\ SM!Absent.chapter = 0 /\ SM!Absent.status = "absent"
  /\ \A l \in Snapshot : /\ l.chapter \in 0..(Chapters + 1)
                         /\ l # SM!Absent => l.status \in SM!LiveStatus
<1>1. /\ SM!LiveStatus = {"queued", "running", "paused", "completed", "failed", "cancelled"}
      /\ SM!NonLive = {"completed", "failed", "cancelled", "paused"}
      /\ SM!Terminal = {"completed", "failed", "cancelled"} /\ SM!Stop = {"paused", "cancelled"}
  BY DEF SM!LiveStatus, SM!NonLive, SM!Terminal, SM!Stop
<1>2. SM!Absent = [status |-> "absent", chapter |-> 0, done |-> FALSE] /\ SM!Absent \in Snapshot
  BY DEF SM!Absent, Snapshot
<1>3. ASSUME NEW l \in Snapshot
      PROVE  l.chapter \in 0..(Chapters + 1) /\ (l # SM!Absent => l.status \in SM!LiveStatus)
  <2>1. CASE l = SM!Absent
    BY <1>2, <2>1, ServiceNumbers
  <2>2. CASE l # SM!Absent
    BY <2>2, ServiceNumbers DEF Snapshot
  <2> QED BY <2>1, <2>2
<1> QED BY <1>1, <1>2, <1>3

\* What holds of n texts holds of more.
LEMMA MoreTexts ==
  ASSUME NEW n \in 0..Chapters, NEW m \in 0..Chapters, n <= m
  PROVE  /\ \A r : RowOk(r, n) => RowOk(r, m)
         /\ \A l : ShotOk(l, n) => ShotOk(l, m)
         /\ \A x : StreamOk(x, n) => StreamOk(x, m)
<1>1. ASSUME NEW r, RowOk(r, n) PROVE RowOk(r, m)
  <2>1. r.next \in 1..(Chapters + 1) /\ r.last \in 0..Chapters
    BY <1>1 DEF RowOk, StatusRow
  <2> QED BY <1>1, <2>1, ServiceNumbers DEF RowOk
<1>2. ASSUME NEW l, ShotOk(l, n) PROVE ShotOk(l, m)
  <2>1. l.chapter \in 0..(Chapters + 1)
    BY <1>2, StatusNames DEF ShotOk
  <2> QED BY <1>2, <2>1, ServiceNumbers DEF ShotOk
<1>3. ASSUME NEW x, StreamOk(x, n) PROVE StreamOk(x, m)
  <2>1. x.chapter \in 1..(Chapters + 1)
    BY <1>3 DEF StreamOk, Shown
  <2> QED BY <1>1, <1>3, <2>1, ServiceNumbers DEF StreamOk
<1> QED BY <1>1, <1>2, <1>3

\* The chapter a row shows has its text or is the next one.
LEMMA RowShows ==
  ASSUME NEW n \in 0..Chapters, NEW r, RowOk(r, n)
  PROVE  /\ SM!RowChapter(r) \in 1..Chapters /\ SM!RowChapter(r) <= n + 1
         /\ r.next > Chapters => n = Chapters
         /\ \A l \in SM!SnapshotsOf(r) : ShotOk(l, n) /\ l # SM!Absent /\ l.status = r.status
<1>1. r.next \in 1..(Chapters + 1) /\ r.status \in SM!LiveStatus /\ r.next <= n + 1
  BY DEF RowOk, StatusRow
<1>2. /\ SM!RowChapter(r) \in 1..Chapters /\ SM!RowChapter(r) <= n + 1
      /\ r.next > Chapters => n = Chapters
  BY <1>1, ServiceNumbers DEF RowOk, SM!RowChapter
<1>3. PICK ch : ch = SM!RowChapter(r) /\ ch \in 0..(Chapters + 1) /\ ch <= n + 1
  BY <1>2, ServiceNumbers
<1>4. ASSUME NEW l \in SM!SnapshotsOf(r)
      PROVE  ShotOk(l, n) /\ l # SM!Absent /\ l.status = r.status
  <2>1. PICK d \in BOOLEAN : l = [status |-> r.status, chapter |-> ch, done |-> d]
    BY <1>3, <1>4 DEF SM!SnapshotsOf
  <2>2. l \in Snapshot /\ l.chapter = ch /\ l.status = r.status
    BY <1>1, <1>3, <2>1 DEF Snapshot
  <2> QED BY <1>1, <1>3, <2>2, StatusNames DEF ShotOk
<1> QED BY <1>2, <1>4

LEMMA MergeShows ==
  ASSUME NEW n \in 0..Chapters, NEW r, RowOk(r, n), NEW l, ShotOk(l, n), l # SM!Absent
  PROVE  /\ SM!Merged(r, l).chapter \in 1..(Chapters + 1) /\ SM!Merged(r, l).chapter <= n + 1
         /\ SM!Merged(r, l).run \in SM!LiveStatus
<1>1. PICK ch : ch = SM!RowChapter(r)
  OBVIOUS
<1>2. ch \in 1..(Chapters + 1) /\ ch <= n + 1 /\ r.status \in SM!LiveStatus
  BY <1>1, RowShows, ServiceNumbers DEF RowOk, StatusRow
<1>3. l.chapter \in 0..(Chapters + 1) /\ l.chapter <= n + 1 /\ l.status \in SM!LiveStatus
  BY StatusNames DEF ShotOk
<1>4. PICK shows : shows = SM!LiveChapter(r, l)
  OBVIOUS
<1>5. shows = ch \/ (shows = l.chapter /\ l.chapter # 0)
  BY <1>1, <1>4 DEF SM!LiveChapter
<1>6. shows \in 1..(Chapters + 1) /\ shows <= n + 1
  BY <1>2, <1>3, <1>5, ServiceNumbers
<1>7. SM!Merged(r, l) = IF r.status \in SM!NonLive
                        THEN [status |-> r.status, run |-> r.status, chapter |-> ch]
                        ELSE [status |-> r.status, run |-> l.status, chapter |-> shows]
  BY <1>1, <1>4 DEF SM!Merged
<1> HIDE DEF SM!Merged
<1> QED BY <1>2, <1>3, <1>6, <1>7

LEMMA GoneIs ==
  ASSUME NEW at \in {"none", "lost", "begin"} \cup SM!NonLive, NEW n \in 0..Chapters,
         at = "completed" => n = Chapters
  PROVE  AuthorOk(SM!Gone(at), n)
<1>1. PICK a : a = [at |-> at, stage |-> "prewrite", chapter |-> 1, verdict |-> "failed"]
  OBVIOUS
<1>2. a \in Author /\ a.at = at /\ a.stage = "prewrite" /\ a.chapter = 1
  BY <1>1, StatusNames, ServiceNumbers DEF Author
<1>3. AuthorOk(a, n)
  BY <1>2, ServiceNumbers DEF AuthorOk
<1> QED BY <1>1, <1>3 DEF SM!Gone

-----------------------------------------------------------------------------
LEMMA StatusFields ==
  ASSUME StatusInv
  PROVE  /\ stored \in 0..Chapters /\ stored <= stored
         /\ row \in StatusRow /\ row.next \in 1..(Chapters + 1) /\ row.last \in 0..Chapters
         /\ row.status \in SM!LiveStatus /\ row.next <= stored + 1 /\ row.last <= stored
         /\ author \in Author /\ author.chapter \in 1..Chapters /\ author.chapter <= stored + 1
         /\ author.verdict \in {"failed", "cancelled", "paused"}
  BY ServiceNumbers DEF StatusInv, RowOk, StatusRow, AuthorOk, Author

\* The texts, the row, the key, the worker and the publishers go on; the streams stay.
LEMMA StatusGoes ==
  ASSUME StatusInv, stored' \in 0..Chapters, stored <= stored',
         RowOk(row', stored'), ShotOk(live', stored'), AuthorOk(author', stored'),
         publisher' \in [Publishers -> Publishing],
         \A p \in Publishers : ShotOk(publisher'[p].shot, stored') \/ publisher'[p].shot = publisher[p].shot,
         UNCHANGED stream
  PROVE  StatusInv'
<1>1. PICK n, m : n = stored /\ m = stored' /\ n \in 0..Chapters /\ m \in 0..Chapters /\ n <= m
  BY DEF StatusInv
<1>2. /\ \A l : ShotOk(l, n) => ShotOk(l, m)
      /\ \A x : StreamOk(x, n) => StreamOk(x, m)
  BY <1>1, MoreTexts
<1>3. \A s \in Streams : StreamOk(stream'[s], m)
  BY <1>1, <1>2 DEF StatusInv
<1>4. \A p \in Publishers : ShotOk(publisher'[p].shot, m)
  BY <1>1, <1>2 DEF StatusInv
<1> QED BY <1>1, <1>3, <1>4 DEF StatusInv

\* A step of the worker: its own fields, perhaps the texts, the row and the key.
LEMMA WorkerGoes ==
  ASSUME StatusInv, UNCHANGED <<publisher, stream>>,
         stored' \in 0..Chapters, stored <= stored',
         NEW a, author' = a, AuthorOk(a, stored'),
         RowOk(row', stored'), live' = live \/ ShotOk(live', stored')
  PROVE  StatusInv'
<1>1. ShotOk(live', stored')
  BY MoreTexts DEF StatusInv
<1> QED BY <1>1, StatusGoes DEF StatusInv

\* A request, a tick: the status of the row, and a publisher that refreshes.
LEMMA RequestKeeps ==
  ASSUME StatusInv, NEW p \in Publishers,
         SM!Pause(p) \/ SM!Resume(p) \/ SM!Cancel(p) \/ SM!Reclaim(p)
  PROVE  StatusInv'
<1>1. PICK st \in {"queued", "paused", "cancelled"} : row' = [row EXCEPT !.status = st]
  BY DEF SM!Pause, SM!Resume, SM!Cancel, SM!Reclaim, SM!Commits
<1>2. row' \in StatusRow /\ row'.next = row.next /\ row'.last = row.last /\ row'.status # "completed"
  BY <1>1, StatusFields, StatusNames DEF StatusRow
<1>3. RowOk(row', stored)
  BY <1>2, StatusFields DEF RowOk
<1>4. publisher' = [publisher EXCEPT ![p].at = "refresh"]
  BY DEF SM!Pause, SM!Resume, SM!Cancel, SM!Reclaim, SM!Commits
<1>5. /\ publisher' \in [Publishers -> Publishing]
      /\ \A q \in Publishers : publisher'[q].shot = publisher[q].shot
  BY <1>4 DEF StatusInv, Publishing
<1>6. author' = author \/ author' = SM!Gone("none")
  BY DEF SM!Pause, SM!Resume, SM!Cancel, SM!Reclaim
<1>7. AuthorOk(author', stored)
  BY <1>6, GoneIs DEF StatusInv
<1>8. UNCHANGED <<stored, live, stream>>
  BY DEF SM!Pause, SM!Resume, SM!Cancel, SM!Reclaim
<1> QED BY <1>3, <1>5, <1>7, <1>8, StatusFields, StatusGoes DEF StatusInv

LEMMA PublisherKeeps ==
  ASSUME StatusInv, NEW p \in Publishers, SM!RefreshRow(p) \/ SM!WriteSnapshot(p)
  PROVE  StatusInv'
<1>1. UNCHANGED <<stored, row, author, stream>> /\ live' \in {live, publisher[p].shot}
  BY DEF SM!RefreshRow, SM!WriteSnapshot
<1>2. PICK x \in Publishing : ShotOk(x.shot, stored) /\ publisher' = [publisher EXCEPT ![p] = x]
  <2>1. CASE SM!RefreshRow(p)
    <3>1. PICK shot \in SM!SnapshotsOf(row) :
            publisher' = [publisher EXCEPT ![p] = [at |-> "write", shot |-> shot]]
      BY <2>1 DEF SM!RefreshRow
    <3>2. ShotOk(shot, stored)
      BY <3>1, RowShows DEF StatusInv
    <3>3. [at |-> "write", shot |-> shot] \in Publishing
      BY <3>2 DEF Publishing, ShotOk
    <3> QED BY <3>1, <3>2, <3>3
  <2>2. CASE SM!WriteSnapshot(p)
    <3>1. PICK x : x = SM!Idle
      OBVIOUS
    <3>2. x = [at |-> "idle", shot |-> SM!Absent]
      BY <3>1 DEF SM!Idle
    <3>3. x \in Publishing /\ x.shot = SM!Absent
      BY <3>2, StatusNames DEF Publishing
    <3>4. ShotOk(x.shot, stored)
      BY <3>3, StatusNames, StatusFields, ServiceNumbers DEF ShotOk
    <3> QED BY <2>2, <3>1, <3>3, <3>4 DEF SM!WriteSnapshot
  <2> QED BY <2>1, <2>2
<1>3. /\ publisher' \in [Publishers -> Publishing]
      /\ \A q \in Publishers : publisher'[q].shot \in {x.shot, publisher[q].shot}
  BY <1>2 DEF StatusInv
<1> QED BY <1>1, <1>2, <1>3, StatusFields, StatusGoes DEF StatusInv

LEMMA StreamKeeps ==
  ASSUME StatusInv, NEW s \in Streams, SM!ReadRow(s) \/ SM!Emit(s)
  PROVE  StatusInv'
<1>1. UNCHANGED <<stored, row, live, publisher, author>>
  BY DEF SM!ReadRow, SM!Emit
<1>2. PICK n : n = stored /\ n \in 0..Chapters
  BY StatusFields
<1>3. StreamOk(stream[s], n) /\ stream[s] \in Shown /\ RowOk(row, n) /\ ShotOk(live, n)
  BY <1>2 DEF StatusInv
<1>4. \E x : StreamOk(x, n) /\ stream' = [stream EXCEPT ![s] = x]
  <2>1. CASE SM!ReadRow(s)
    <3>1. PICK x : x = [stream[s] EXCEPT !.at = "merge", !.row = row]
      OBVIOUS
    <3>2. stream' = [stream EXCEPT ![s] = x]
      BY <2>1, <3>1 DEF SM!ReadRow, StatusInv
    <3>3. x \in Shown /\ x.row = row /\ x.chapter = stream[s].chapter
      BY <1>3, <3>1, StatusFields DEF Shown
    <3> QED BY <1>3, <3>2, <3>3 DEF StreamOk
  <2>2. CASE SM!Emit(s)
    <3>1. PICK l \in SM!SnapshotsOf(row) \cup ({live} \ {SM!Absent}) :
            LET e == SM!Merged(stream[s].row, l) IN
            stream' = [stream EXCEPT ![s] =
                        [at |-> IF e.status \in SM!NonLive THEN "closed" ELSE "poll",
                         row |-> SM!NewRow, run |-> e.run, chapter |-> e.chapter]]
      BY <2>2 DEF SM!Emit
    <3>2. ShotOk(l, n) /\ l # SM!Absent
      BY <1>2, <1>3, <3>1, RowShows
    <3>3. RowOk(stream[s].row, n)
      BY <1>3 DEF StreamOk
    <3>4. PICK e, new : e = SM!Merged(stream[s].row, l) /\ new = SM!NewRow
      OBVIOUS
    <3>5. /\ e.chapter \in 1..(Chapters + 1) /\ e.chapter <= n + 1 /\ e.run \in SM!LiveStatus
      BY <1>2, <3>2, <3>3, <3>4, MergeShows
    <3>6. new \in StatusRow /\ RowOk(new, n)
      <4>1. new = [status |-> "queued", next |-> 1, last |-> 0]
        BY <3>4 DEF SM!NewRow
      <4>2. new \in StatusRow /\ new.next = 1 /\ new.last = 0 /\ new.status = "queued"
        BY <4>1, StatusNames, ServiceNumbers DEF StatusRow
      <4> QED BY <1>2, <4>2, ServiceNumbers DEF RowOk
    <3>7. PICK x : /\ x = [at |-> IF e.status \in SM!NonLive THEN "closed" ELSE "poll",
                           row |-> new, run |-> e.run, chapter |-> e.chapter]
                   /\ stream' = [stream EXCEPT ![s] = x]
      BY <3>1, <3>4
    <3>8. x \in Shown /\ x.row = new /\ x.chapter = e.chapter
      BY <3>5, <3>6, <3>7 DEF Shown
    <3> QED BY <3>5, <3>6, <3>7, <3>8 DEF StreamOk
  <2> QED BY <2>1, <2>2
<1>5. stream' \in [Streams -> Shown] /\ \A t \in Streams : StreamOk(stream'[t], n)
  BY <1>2, <1>4 DEF StatusInv, StreamOk
<1> QED BY <1>1, <1>2, <1>5 DEF StatusInv

-----------------------------------------------------------------------------
(* The steps of the worker.                                                *)

\* The worker is somewhere else, or at another stage that needs no more texts.
LEMMA AuthorMoves ==
  ASSUME StatusInv,
         NEW at \in {"begin", "work", "set", "stopping"},
         NEW stage \in {"prewrite", "write", "stored", "done", "moved", "review"},
         NEW v \in {"failed", "cancelled", "paused"},
         author' = [author EXCEPT !.at = at, !.stage = stage, !.verdict = v],
         stage \in {"stored", "done", "moved"} => author.chapter <= stored',
         stage = "review" => stored' = Chapters,
         stored' \in 0..Chapters, stored <= stored',
         UNCHANGED <<publisher, stream>>,
         RowOk(row', stored'), live' = live \/ ShotOk(live', stored')
  PROVE  StatusInv'
<1>1. PICK a, m : a = [author EXCEPT !.at = at, !.stage = stage, !.verdict = v] /\ m = stored'
  OBVIOUS
<1>2. a \in Author /\ a.at = at /\ a.stage = stage /\ a.chapter = author.chapter
  BY <1>1, StatusFields DEF Author
<1>3. author.chapter <= m + 1
  BY <1>1, StatusFields, ServiceNumbers
<1>4. AuthorOk(a, m)
  BY <1>1, <1>2, <1>3 DEF AuthorOk
<1> QED BY <1>1, <1>4, WorkerGoes

\* Where the worker is, and what it says it would stop with.
LEMMA AuthorIs ==
  ASSUME StatusInv
  PROVE  /\ author.stage \in {"prewrite", "write", "stored", "done", "moved", "review"}
         /\ author.stage \in {"stored", "done", "moved"} => author.chapter <= stored
         /\ author.stage = "review" \/ author.at = "completed" => stored = Chapters
         /\ \A at : [author EXCEPT !.at = at]
                    = [author EXCEPT !.at = at, !.stage = author.stage, !.verdict = author.verdict]
         /\ \A at, v : [author EXCEPT !.at = at, !.verdict = v]
                       = [author EXCEPT !.at = at, !.stage = author.stage, !.verdict = v]
         /\ \A stage : [author EXCEPT !.stage = stage]
                       = [author EXCEPT !.at = author.at, !.stage = stage, !.verdict = author.verdict]
         /\ \A at, stage : [author EXCEPT !.at = at, !.stage = stage]
                           = [author EXCEPT !.at = at, !.stage = stage, !.verdict = author.verdict]
  BY DEF StatusInv, AuthorOk, Author

LEMMA StopsKeeps ==
  ASSUME StatusInv, SM!Stops, UNCHANGED <<stored, row, live, publisher, stream>>
  PROVE  StatusInv'
<1>1. PICK v \in {"failed", "cancelled", "paused"} : author' = [author EXCEPT !.at = "stopping", !.verdict = v]
  BY StatusNames DEF SM!Stops
<1>2. author' = [author EXCEPT !.at = "stopping", !.stage = author.stage, !.verdict = v]
  BY <1>1, AuthorIs
<1> QED BY <1>2, AuthorIs, StatusFields, AuthorMoves DEF StatusInv

LEMMA SameTextsKeeps ==
  ASSUME StatusInv,
         SM!Begin \/ SM!Callback \/ SM!Plan \/ SM!SetStatus \/ SM!Rerun
  PROVE  StatusInv'
<1>1. UNCHANGED <<stored, row, publisher, stream>>
  BY DEF SM!Begin, SM!Callback, SM!Plan, SM!SetStatus, SM!Rerun
<1>2. CASE SM!Begin \/ SM!Callback
  <2>1. UNCHANGED live /\ (SM!Stops \/ author' = [author EXCEPT !.at = "set"])
    BY <1>2 DEF SM!Begin, SM!Callback, SM!Goto
  <2>2. CASE author' = [author EXCEPT !.at = "set"]
    <3>1. author' = [author EXCEPT !.at = "set", !.stage = author.stage, !.verdict = author.verdict]
      BY <2>2, AuthorIs
    <3> QED BY <1>1, <2>1, <3>1, AuthorIs, StatusFields, AuthorMoves DEF StatusInv
  <2> QED BY <1>1, <2>1, <2>2, StopsKeeps
<1>3. CASE SM!Plan \/ SM!Rerun
  <2>1. UNCHANGED live /\ author.at = "work" /\ author' = [author EXCEPT !.stage = "write"]
    BY <1>3 DEF SM!Plan, SM!Rerun, SM!Reaches
  <2>2. author' = [author EXCEPT !.at = "work", !.stage = "write", !.verdict = author.verdict]
    BY <2>1, AuthorIs
  <2> QED BY <1>1, <2>1, <2>2, StatusFields, AuthorMoves DEF StatusInv
<1>4. CASE SM!SetStatus
  <2>1. author' = [author EXCEPT !.at = "work", !.stage = author.stage, !.verdict = author.verdict]
    BY <1>4, AuthorIs DEF SM!SetStatus, SM!Goto
  <2>2. PICK c \in {0, author.chapter} :
          live' = live \/ live' = [status |-> "running", chapter |-> c, done |-> author.stage = "done"]
    BY <1>4 DEF SM!SetStatus, SM!Published
  <2>3. live' = live \/ ShotOk(live', stored)
    <3>1. PICK l : /\ l = [status |-> "running", chapter |-> c, done |-> author.stage = "done"]
                   /\ live' = live \/ live' = l
      BY <2>2
    <3>2. c \in 0..(Chapters + 1) /\ c <= stored + 1
      BY StatusFields, ServiceNumbers
    <3>3. l \in Snapshot /\ l.chapter = c
      BY <3>1, <3>2, StatusNames DEF Snapshot
    <3> QED BY <3>1, <3>2, <3>3 DEF ShotOk
  <2> QED BY <1>1, <2>1, <2>3, AuthorIs, StatusFields, AuthorMoves DEF StatusInv
<1> QED BY <1>2, <1>3, <1>4

LEMMA StoreChapterKeeps ==
  ASSUME StatusInv, SM!StoreChapter
  PROVE  StatusInv'
<1>1. /\ author.at = "work" /\ UNCHANGED <<row, live, publisher, stream>>
      /\ stored' = IF author.chapter > stored THEN author.chapter ELSE stored
      /\ author' = [author EXCEPT !.stage = "stored"]
  BY DEF SM!StoreChapter, SM!Reaches
<1>2. stored' \in 0..Chapters /\ stored <= stored' /\ author.chapter <= stored'
  BY <1>1, StatusFields, ServiceNumbers
<1>3. author' = [author EXCEPT !.at = "work", !.stage = "stored", !.verdict = author.verdict]
  BY <1>1, AuthorIs
<1>4. RowOk(row', stored')
  BY <1>1, <1>2, StatusFields, MoreTexts DEF StatusInv
<1> QED BY <1>1, <1>2, <1>3, <1>4, StatusFields, AuthorMoves

LEMMA ChapterDoneKeeps ==
  ASSUME StatusInv, SM!ChapterDone
  PROVE  StatusInv'
<1>1. UNCHANGED <<stored, live, publisher, stream>> /\ author.stage = "stored" /\ author.chapter <= stored
  BY AuthorIs DEF SM!ChapterDone
<1>2. CASE SM!Stops /\ UNCHANGED row
  BY <1>1, <1>2, StopsKeeps
<1>3. CASE /\ author' = [author EXCEPT !.at = "set", !.stage = "done"]
           /\ row' = row \/ row' = [row EXCEPT !.last = IF author.chapter > @ THEN author.chapter ELSE @]
  <2>1. PICK k \in {author.chapter, row.last} : row' = [row EXCEPT !.last = k]
    <3>1. row = [row EXCEPT !.last = row.last]
      BY StatusFields DEF StatusRow
    <3> QED BY <1>3, <3>1
  <2>2. k \in 0..Chapters /\ k <= stored
    BY <1>1, StatusFields, ServiceNumbers
  <2>3. row' \in StatusRow /\ row'.next = row.next /\ row'.last = k /\ row'.status = row.status
    BY <2>1, <2>2, StatusFields DEF StatusRow
  <2>4. RowOk(row', stored)
    BY <2>2, <2>3 DEF RowOk, StatusInv
  <2>5. author' = [author EXCEPT !.at = "set", !.stage = "done", !.verdict = author.verdict]
    BY <1>3, AuthorIs
  <2> QED BY <1>1, <2>4, <2>5, StatusFields, AuthorMoves
<1> QED BY <1>2, <1>3 DEF SM!ChapterDone

\* Another position, no further than the chapter after the last text.
LEMMA CursorMoves ==
  ASSUME StatusInv, NEW k \in 1..(Chapters + 1), k <= stored + 1
  PROVE  RowOk([row EXCEPT !.next = k], stored)
<1>1. PICK r : r = [row EXCEPT !.next = k]
  OBVIOUS
<1>2. r \in StatusRow /\ r.next = k /\ r.last = row.last /\ r.status = row.status
  BY <1>1, StatusFields DEF StatusRow
<1>3. RowOk(r, stored)
  BY <1>2 DEF RowOk, StatusInv
<1> QED BY <1>1, <1>3

LEMMA MoveCursorKeeps ==
  ASSUME StatusInv, SM!MoveCursor
  PROVE  StatusInv'
<1>1. /\ UNCHANGED <<stored, live, publisher, stream>> /\ author.at = "work" /\ author.chapter <= stored
      /\ author' = [author EXCEPT !.stage = "moved"]
      /\ row' = row \/ row' = [row EXCEPT !.next = author.chapter + 1]
  BY AuthorIs DEF SM!MoveCursor, SM!Reaches
<1>2. author' = [author EXCEPT !.at = "work", !.stage = "moved", !.verdict = author.verdict]
  BY <1>1, AuthorIs
<1>3. RowOk(row', stored)
  <2>1. author.chapter + 1 \in 1..(Chapters + 1) /\ author.chapter + 1 <= stored + 1
    BY <1>1, StatusFields, ServiceNumbers
  <2> QED BY <1>1, <2>1, CursorMoves DEF StatusInv
<1> QED BY <1>1, <1>2, <1>3, StatusFields, AuthorMoves

LEMMA OtherChapterKeeps ==
  ASSUME StatusInv, SM!NextChapter \/ SM!Dispatch \/ SM!Closure
  PROVE  StatusInv'
<1>1. UNCHANGED <<stored, publisher, stream>>
  BY DEF SM!NextChapter, SM!Dispatch, SM!Closure
<1>2. CASE SM!NextChapter
  <2>1. /\ UNCHANGED <<row, live>> /\ author.stage = "moved" /\ author.chapter < Chapters
        /\ author' = [author EXCEPT !.stage = "write", !.chapter = @ + 1]
        /\ author.at = "work" /\ author.chapter <= stored
    BY <1>2, AuthorIs DEF SM!NextChapter
  <2>2. author.chapter + 1 \in 1..Chapters /\ author.chapter + 1 <= stored + 1
    BY <2>1, StatusFields, ServiceNumbers
  <2>3. PICK a : a = [author EXCEPT !.stage = "write", !.chapter = @ + 1]
    OBVIOUS
  <2>4. a \in Author /\ a.at = "work" /\ a.stage = "write" /\ a.chapter = author.chapter + 1
    BY <2>1, <2>2, <2>3, StatusFields DEF Author
  <2>5. AuthorOk(a, stored)
    BY <2>2, <2>4 DEF AuthorOk
  <2> QED BY <1>1, <2>1, <2>3, <2>5, StatusFields, WorkerGoes DEF StatusInv
<1>3. PICK ch, stage : ch = SM!RowChapter(row) /\ stage = IF row.next > Chapters THEN "review" ELSE "prewrite"
  OBVIOUS
<1>4. /\ ch \in 1..Chapters /\ ch <= stored + 1 /\ (stage = "review" => stored = Chapters)
      /\ stage \in {"review", "prewrite"}
  BY <1>3, StatusFields, RowShows DEF StatusInv
<1>5. CASE SM!Dispatch
  <2>1. /\ row.status = "queued" /\ row' = [row EXCEPT !.status = "running"]
        /\ live' = live \/ live' \in SM!SnapshotsOf(row')
        /\ author' = [SM!Gone("begin") EXCEPT !.stage = stage, !.chapter = ch]
    BY <1>3, <1>5 DEF SM!Dispatch
  <2>2. row' \in StatusRow /\ row'.next = row.next /\ row'.last = row.last /\ row'.status = "running"
    BY <2>1, StatusFields, StatusNames DEF StatusRow
  <2>3. RowOk(row', stored)
    BY <2>2, StatusFields DEF RowOk
  <2>4. live' = live \/ ShotOk(live', stored)
    BY <2>1, <2>3, StatusFields, RowShows
  <2>5. PICK a : a = [at |-> "begin", stage |-> stage, chapter |-> ch, verdict |-> "failed"] /\ author' = a
    BY <2>1 DEF SM!Gone
  <2>6. a \in Author /\ a.at = "begin" /\ a.stage = stage /\ a.chapter = ch
    BY <1>4, <2>5 DEF Author
  <2>7. AuthorOk(a, stored)
    BY <1>4, <2>6 DEF AuthorOk
  <2> QED BY <1>1, <2>3, <2>4, <2>5, <2>7, StatusFields, WorkerGoes
<1>6. CASE SM!Closure
  <2>1. /\ UNCHANGED live /\ author.stage = "moved" /\ author.chapter = Chapters
        /\ author.at = "work" /\ author.chapter <= stored
        /\ \/ row' = [row EXCEPT !.next = Chapters + 1] /\ author' = [author EXCEPT !.stage = "review"]
           \/ UNCHANGED row /\ author' = [author EXCEPT !.stage = stage, !.chapter = ch]
    BY <1>3, <1>6, AuthorIs DEF SM!Closure, SM!Reaches
  <2>2. stored = Chapters
    BY <2>1, StatusFields, ServiceNumbers
  <2>3. CASE row' = [row EXCEPT !.next = Chapters + 1] /\ author' = [author EXCEPT !.stage = "review"]
    <3>1. RowOk(row', stored)
      BY <2>2, <2>3, CursorMoves, ServiceNumbers
    <3>2. author' = [author EXCEPT !.at = "work", !.stage = "review", !.verdict = author.verdict]
      BY <2>1, <2>3, AuthorIs
    <3> QED BY <1>1, <2>1, <2>2, <3>1, <3>2, StatusFields, AuthorMoves
  <2>4. CASE UNCHANGED row /\ author' = [author EXCEPT !.stage = stage, !.chapter = ch]
    <3>1. PICK a : a = [author EXCEPT !.stage = stage, !.chapter = ch]
      OBVIOUS
    <3>2. a \in Author /\ a.at = "work" /\ a.stage = stage /\ a.chapter = ch
      BY <1>4, <2>1, <3>1, StatusFields DEF Author
    <3>3. AuthorOk(a, stored)
      BY <1>4, <3>2 DEF AuthorOk
    <3> QED BY <1>1, <2>1, <2>4, <3>1, <3>3, StatusFields, WorkerGoes DEF StatusInv
  <2> QED BY <2>1, <2>3, <2>4
<1> QED BY <1>2, <1>5, <1>6

LEMMA LeavesKeeps ==
  ASSUME StatusInv, SM!Crash \/ SM!Announce \/ SM!Finalize
  PROVE  StatusInv'
<1>1. UNCHANGED <<stored, publisher, stream>>
  BY DEF SM!Crash, SM!Announce, SM!Finalize
<1>2. CASE SM!Crash
  <2>1. UNCHANGED <<row, live>> /\ author' = SM!Gone("lost")
    BY <1>2 DEF SM!Crash
  <2>2. AuthorOk(SM!Gone("lost"), stored)
    BY StatusFields, GoneIs
  <2> QED BY <1>1, <2>1, <2>2, StatusFields, WorkerGoes DEF StatusInv
<1>3. CASE SM!Announce
  <2>1. PICK v \in SM!Verdict :
          /\ author' = SM!Gone(v) /\ UNCHANGED row
          /\ \/ live' = live
             \/ \E c \in SM!LastAnd(v) : live' = [status |-> v, chapter |-> c, done |-> FALSE]
    BY <1>3 DEF SM!Announce
  <2>2. v \in SM!NonLive /\ (v = "completed" => stored = Chapters)
    BY <2>1, AuthorIs, StatusFields, StatusNames DEF SM!Verdict
  <2>3. AuthorOk(SM!Gone(v), stored)
    BY <2>2, StatusFields, GoneIs
  <2>4. ASSUME NEW c \in SM!LastAnd(v) PROVE ShotOk([status |-> v, chapter |-> c, done |-> FALSE], stored)
    <3>1. c \in 0..(Chapters + 1) /\ c <= stored + 1
      <4>1. c = 0 \/ c = row.last + 1 \/ (c = Chapters /\ v = "completed")
        BY <2>4 DEF SM!LastAnd
      <4> QED BY <2>2, <4>1, StatusFields, ServiceNumbers
    <3>2. PICK l : l = [status |-> v, chapter |-> c, done |-> FALSE]
      OBVIOUS
    <3>3. l \in Snapshot /\ l.chapter = c
      BY <2>2, <3>1, <3>2, StatusNames DEF Snapshot
    <3> QED BY <3>1, <3>2, <3>3 DEF ShotOk
  <2>5. live' = live \/ ShotOk(live', stored)
    BY <2>1, <2>4
  <2> QED BY <1>1, <2>1, <2>3, <2>5, StatusFields, WorkerGoes DEF StatusInv
<1>4. CASE SM!Finalize
  <2>1. /\ author.at \in SM!NonLive /\ UNCHANGED live /\ author' = SM!Gone("none")
        /\ row' = IF row.status = "running" THEN [row EXCEPT !.status = author.at] ELSE row
    BY <1>4 DEF SM!Finalize
  <2>2. /\ row' \in StatusRow /\ row'.next = row.next /\ row'.last = row.last
        /\ row'.status = "completed" => row.status = "completed" \/ author.at = "completed"
    BY <2>1, StatusFields, StatusNames DEF StatusRow
  <2>3. RowOk(row', stored)
    BY <2>2, AuthorIs, StatusFields DEF RowOk, StatusInv
  <2>4. AuthorOk(SM!Gone("none"), stored)
    BY StatusFields, GoneIs
  <2> QED BY <1>1, <2>1, <2>3, <2>4, StatusFields, WorkerGoes
<1> QED BY <1>2, <1>3, <1>4

-----------------------------------------------------------------------------
LEMMA FirstStatus ==
  ASSUME SM!Init PROVE StatusInv
<1>1. PICK r, i : r = SM!NewRow /\ i = SM!Idle
  OBVIOUS
<1>2. r = [status |-> "queued", next |-> 1, last |-> 0] /\ i = [at |-> "idle", shot |-> SM!Absent]
  BY <1>1 DEF SM!NewRow, SM!Idle
<1>3. r \in StatusRow /\ RowOk(r, 0)
  <2>1. r \in StatusRow /\ r.next = 1 /\ r.last = 0 /\ r.status = "queued"
    BY <1>2, StatusNames, ServiceNumbers DEF StatusRow
  <2> QED BY <2>1 DEF RowOk
<1>4. ShotOk(SM!Absent, 0) /\ i \in Publishing /\ i.shot = SM!Absent
  BY <1>2, StatusNames DEF ShotOk, Publishing
<1>5. AuthorOk(SM!Gone("none"), 0)
  BY GoneIs, ServiceNumbers
<1>6. PICK x : x = [at |-> "poll", row |-> r, run |-> "queued", chapter |-> 1]
  OBVIOUS
<1>7. x \in Shown /\ x.row = r /\ x.chapter = 1
  BY <1>3, <1>6, StatusNames, ServiceNumbers DEF Shown
<1>8. StreamOk(x, 0)
  BY <1>3, <1>7 DEF StreamOk
<1>9. /\ stored = 0 /\ row = r /\ live = SM!Absent /\ author = SM!Gone("none")
      /\ publisher = [p \in Publishers |-> i] /\ stream = [s \in Streams |-> x]
  BY <1>1, <1>6 DEF SM!Init
<1> QED BY <1>3, <1>4, <1>5, <1>7, <1>8, <1>9, ServiceNumbers DEF StatusInv

LEMMA StatusStep ==
  ASSUME StatusInv, [ServicesNext]_servicesVars PROVE StatusInv'
<1>1. CASE UNCHANGED statusVars
  BY <1>1 DEF statusVars, StatusInv
<1>2. CASE StatusNext
  BY <1>2, RequestKeeps, PublisherKeeps, StreamKeeps, SameTextsKeeps, StoreChapterKeeps,
     ChapterDoneKeeps, MoveCursorKeeps, OtherChapterKeeps, LeavesKeeps DEF StatusNext
<1> QED BY <1>1, <1>2 DEF ServicesNext, servicesVars, CallsNext, CallsMove, FlagNext, FlagMoves,
           SettingsNext, SettingsMove, TokensNext, TokensMove

LEMMA StatusTyped ==
  ASSUME StatusInv, events \in 0..StatusEvents PROVE SM!TypeOK
<1>1. row \in [status : SM!LiveStatus, next : 1..(Chapters + 1), last : 0..Chapters] /\ stored \in 0..Chapters
  BY StatusFields DEF StatusRow
<1>2. live \in [status : SM!LiveStatus, chapter : 0..(Chapters + 1), done : BOOLEAN] \cup {SM!Absent}
  BY DEF StatusInv, ShotOk, Snapshot
<1>3. author \in [at : {"none", "begin", "work", "set", "stopping", "lost"} \cup SM!NonLive,
                  stage : {"prewrite", "write", "stored", "done", "moved", "review"},
                  chapter : SM!Chapter, verdict : SM!NonLive]
  BY StatusFields, StatusNames DEF Author, SM!Chapter
<1>4. \A p \in Publishers : publisher[p].at \in {"idle", "refresh", "write"}
  BY DEF StatusInv, Publishing
<1>5. \A s \in Streams : stream[s].at \in {"poll", "merge", "closed"}
  BY DEF StatusInv, Shown
<1> QED BY <1>1, <1>2, <1>3, <1>4, <1>5 DEF SM!TypeOK

LEMMA StatusShows ==
  ASSUME StatusInv PROVE ShowsReachedChapter
<1>1. SUFFICES ASSUME NEW s \in Streams PROVE stream[s].chapter \in 1..(stored + 1)
  BY DEF ShowsReachedChapter, SM!ShowsReachedChapter
<1>2. stream[s].chapter \in 1..(Chapters + 1) /\ stream[s].chapter <= stored + 1
  BY DEF StatusInv, StreamOk, Shown
<1> QED BY <1>2, StatusFields, ServiceNumbers

(***************************************************************************)
(* FlagRollout.                                                            *)
(***************************************************************************)
PhaseNames == {"baseline", "canary_10", "canary_50", "full", "stable"}
Percents == {0, 10, 50, 100}
Evaluation == [at : {"idle", "decided", "set"}, next : PhaseNames,
               seen : [phase : PhaseNames, pct : Percents],
               verdict : {"promote", "hold", "rollback"}, pct : Percents]

LEMMA PhasesAre ==
  /\ FR!Phase = PhaseNames
  /\ \A p \in PhaseNames : FR!NextPhase(p) \in PhaseNames /\ FR!Percent(p) \in Percents
  /\ FR!NoEvaluation \in Evaluation /\ FR!RegistryState \in FR!FlagState
<1>1. FR!Phase = PhaseNames
  <2>1. /\ FR!Phases[1] = "baseline" /\ FR!Phases[2] = "canary_10" /\ FR!Phases[3] = "canary_50"
        /\ FR!Phases[4] = "full" /\ FR!Phases[5] = "stable"
    BY DEF FR!Phases
  <2>2. \A i : i \in 1..5 <=> i = 1 \/ i = 2 \/ i = 3 \/ i = 4 \/ i = 5
    OBVIOUS
  <2> HIDE DEF FR!Phases
  <2>3. \A p : p \in FR!Phase <=> \E i \in 1..5 : FR!Phases[i] = p
    BY DEF FR!Phase
  <2>4. \A p : p \in FR!Phase <=> p \in PhaseNames
    BY <2>1, <2>2, <2>3 DEF PhaseNames
  <2> QED BY <2>4
<1>2. ASSUME NEW p \in PhaseNames PROVE FR!Percent(p) \in Percents
  BY DEF FR!Percent, Percents
<1>3. ASSUME NEW p \in PhaseNames PROVE FR!NextPhase(p) \in PhaseNames
  <2>1. CASE p = "stable"
    BY <1>3, <2>1 DEF FR!NextPhase
  <2>2. CASE p # "stable"
    <3>1. \E i \in 1..4 : FR!Phases[i] = p
      <4>1. /\ FR!Phases[1] = "baseline" /\ FR!Phases[2] = "canary_10" /\ FR!Phases[3] = "canary_50"
            /\ FR!Phases[4] = "full"
        BY DEF FR!Phases
      <4>2. 1 \in 1..4 /\ 2 \in 1..4 /\ 3 \in 1..4 /\ 4 \in 1..4
        OBVIOUS
      <4> HIDE DEF FR!Phases
      <4> QED BY <1>3, <2>2, <4>1, <4>2 DEF PhaseNames
    <3>2. PICK i \in 1..4 : FR!Phases[i] = p
      BY <3>1
    <3>3. FR!Phases[i + 1] \in FR!Phase
      <4>1. i + 1 \in 1..5
        OBVIOUS
      <4> QED BY <4>1 DEF FR!Phase
    <3>4. \E q \in FR!Phase : \E j \in 1..4 : FR!Phases[j] = p /\ FR!Phases[j + 1] = q
      BY <3>2, <3>3
    <3>5. (CHOOSE q \in FR!Phase : \E j \in 1..4 : FR!Phases[j] = p /\ FR!Phases[j + 1] = q) \in FR!Phase
      BY <3>4
    <3> QED BY <1>1, <2>2, <3>5 DEF FR!NextPhase
  <2> QED BY <2>1, <2>2
<1>4. FR!NoEvaluation \in Evaluation
  BY DEF FR!NoEvaluation, Evaluation, PhaseNames, Percents
<1>5. FR!RegistryState \in FR!FlagState
  BY DEF FR!RegistryState, FR!Off, FR!FlagState
<1> QED BY <1>1, <1>2, <1>3, <1>4, <1>5

\* An evaluation decides for a phase and a percentage of the table.
LEMMA DecisionTyped ==
  ASSUME NEW seen \in [phase : PhaseNames, pct : Percents], NEW sli
  PROVE  FR!Decision(seen, sli) \in Evaluation
<1>1. PICK v : v = FR!Verdict(seen.phase, sli)
  OBVIOUS
<1>2. v \in {"promote", "hold", "rollback"}
  BY <1>1 DEF FR!Verdict
<1>3. PICK p : p = CASE v = "rollback" -> "baseline"
                     [] v = "promote"  -> FR!NextPhase(seen.phase)
                     [] OTHER          -> seen.phase
  OBVIOUS
<1>4. p \in PhaseNames
  <2>1. seen.phase \in PhaseNames /\ FR!NextPhase(seen.phase) \in PhaseNames /\ "baseline" \in PhaseNames
    BY PhasesAre DEF PhaseNames
  <2> QED BY <1>2, <1>3, <2>1
<1>5. PICK pct : pct = IF v = "hold" /\ seen.phase # "stable" THEN seen.pct ELSE FR!Percent(p)
  OBVIOUS
<1>6. pct \in Percents
  BY <1>4, <1>5, PhasesAre
<1>7. FR!Decision(seen, sli) = [at |-> "decided", seen |-> seen, next |-> p, verdict |-> v, pct |-> pct]
  BY <1>1, <1>3, <1>5 DEF FR!Decision
<1> QED BY <1>2, <1>4, <1>6, <1>7 DEF Evaluation

FlagInv ==
  /\ promotion \in [phase : PhaseNames, pct : Percents]
  /\ flag \in [enabled : BOOLEAN, pct : Percents] /\ flagWrites \in 0..FlagWrites /\ sync \in BOOLEAN
  /\ watch \in [Watchers -> Evaluation]
  /\ flagCache \in [value : FR!FlagState, fresh : BOOLEAN]
  /\ reader \in [FlagReaders -> [at : {"idle", "loaded"}, loaded : FR!FlagState]]

LEMMA FlagTyped == FlagInv => FR!TypeOK
  BY PhasesAre DEF FlagInv, FR!TypeOK, Evaluation, Percents, FR!FlagState

LEMMA FirstFlag ==
  ASSUME FR!Init PROVE FlagInv
<1>1. FR!NoEvaluation \in Evaluation /\ FR!RegistryState \in FR!FlagState
  BY PhasesAre
<1>2. FR!FlagState = [enabled : BOOLEAN, pct : Percents]
  BY DEF FR!FlagState, Percents
<1> HIDE DEF FR!NoEvaluation, FR!RegistryState, FR!FlagState
<1>3. promotion \in [phase : PhaseNames, pct : Percents]
  BY DEF FR!Init, PhaseNames, Percents
<1>4. watch \in [Watchers -> Evaluation]
  BY <1>1 DEF FR!Init
<1>5. flagWrites \in 0..FlagWrites /\ sync \in BOOLEAN
  <2>1. flagWrites = 0 /\ sync = FALSE
    BY DEF FR!Init
  <2>2. flagWrites \in 0..FlagWrites
    BY <2>1, ServiceNumbers
  <2>3. sync \in BOOLEAN
    BY <2>1, Zenon
  <2> QED BY <2>2, <2>3
<1>8. flag \in FR!FlagState /\ flagCache \in [value : FR!FlagState, fresh : BOOLEAN]
  BY <1>1 DEF FR!Init
<1>9. reader \in [FlagReaders -> [at : {"idle", "loaded"}, loaded : FR!FlagState]]
  BY <1>1 DEF FR!Init
<1> QED BY <1>2, <1>3, <1>4, <1>5, <1>8, <1>9 DEF FlagInv

\* set_flag keeps the types, of the flag, of the writes and of the cache.
LEMMA SetFlagTyped ==
  ASSUME FlagInv, NEW f \in FR!FlagState, FR!SetFlag(f)
  PROVE  /\ flag' \in FR!FlagState /\ flagWrites' \in 0..FlagWrites
         /\ flagCache' \in [value : FR!FlagState, fresh : BOOLEAN]
<1>1. flag' = f /\ flagWrites < FlagWrites /\ flagWrites' = flagWrites + 1
  BY DEF FR!SetFlag
<1>2. flagWrites' \in 0..FlagWrites
  BY <1>1, ServiceNumbers DEF FlagInv
<1>3. flagCache' = flagCache \/ flagCache' = [flagCache EXCEPT !.fresh = FALSE]
  BY DEF FR!SetFlag, FR!Stale
<1>4. flagCache' \in [value : FR!FlagState, fresh : BOOLEAN]
  BY <1>3 DEF FlagInv
<1> QED BY <1>1, <1>2, <1>4

LEMMA WatchStep ==
  ASSUME FlagInv, NEW w \in Watchers,
         FR!Evaluate(w) \/ FR!CommitDecision(w) \/ FR!PushToFlag(w) \/ FR!PushFails(w)
  PROVE  FlagInv'
<1>0. FR!FlagState = [enabled : BOOLEAN, pct : Percents]
  BY DEF FR!FlagState, Percents
<1>1. CASE FR!Evaluate(w)
  <2>1. PICK sli : watch' = [watch EXCEPT ![w] = FR!Decision(promotion, sli)]
    BY <1>1 DEF FR!Evaluate
  <2>2. FR!Decision(promotion, sli) \in Evaluation
    BY DecisionTyped DEF FlagInv
  <2> HIDE DEF FR!Decision
  <2> QED BY <1>1, <2>1, <2>2 DEF FR!Evaluate, FlagInv
<1>2. CASE FR!CommitDecision(w)
  <2>1. watch[w] \in Evaluation
    BY DEF FlagInv
  <2>2. promotion' \in [phase : PhaseNames, pct : Percents]
    BY <1>2, <2>1 DEF FR!CommitDecision, FlagInv, Evaluation
  <2>3. PICK d : d = [watch[w] EXCEPT !.at = "set"]
    OBVIOUS
  <2>4. d \in Evaluation
    BY <2>1, <2>3 DEF Evaluation
  <2>5. watch' \in [Watchers -> Evaluation]
    BY <1>2, <2>3, <2>4, PhasesAre DEF FR!CommitDecision, FlagInv
  <2> QED BY <1>2, <2>2, <2>5 DEF FR!CommitDecision, FlagInv
<1>3. CASE FR!PushToFlag(w) \/ FR!PushFails(w)
  <2>1. watch' = [watch EXCEPT ![w] = FR!NoEvaluation]
    BY <1>3 DEF FR!PushToFlag, FR!PushFails
  <2>2. watch' \in [Watchers -> Evaluation]
    BY <2>1, PhasesAre DEF FlagInv
  <2>3. CASE FR!PushFails(w)
    BY <2>2, <2>3 DEF FR!PushFails, FlagInv
  <2>4. CASE FR!PushToFlag(w)
    <3>1. PICK f : f = [enabled |-> watch[w].pct > 0, pct |-> watch[w].pct]
      OBVIOUS
    <3>2. f \in FR!FlagState
      BY <1>0, <3>1 DEF FlagInv, Evaluation, Percents
    <3>3. FR!SetFlag(f) /\ UNCHANGED <<promotion, sync, reader>>
      BY <2>4, <3>1 DEF FR!PushToFlag
    <3> QED BY <1>0, <2>2, <3>2, <3>3, SetFlagTyped DEF FlagInv
  <2> QED BY <1>3, <2>3, <2>4
<1> QED BY <1>1, <1>2, <1>3

LEMMA FlagStep ==
  ASSUME FlagInv, [ServicesNext]_servicesVars PROVE FlagInv'
<1>0. FR!FlagState = [enabled : BOOLEAN, pct : Percents]
  BY DEF FR!FlagState, Percents
<1>1. CASE UNCHANGED flagVars
  BY <1>1 DEF flagVars, FlagInv
<1>2. CASE \E w \in Watchers : FR!Evaluate(w) \/ FR!CommitDecision(w) \/ FR!PushToFlag(w) \/ FR!PushFails(w)
  BY <1>2, WatchStep
<1>3. CASE FR!SyncReads
  BY <1>3 DEF FR!SyncReads, FlagInv
<1>4. CASE FR!SyncWrites
  <2>1. FR!SetFlag(FR!RegistryState) /\ sync' = FALSE /\ UNCHANGED <<promotion, watch, reader>>
    BY <1>4 DEF FR!SyncWrites
  <2> QED BY <1>0, <2>1, PhasesAre, SetFlagTyped DEF FlagInv
<1>5. CASE \E r \in FlagReaders : FR!Load(r) \/ FR!Store(r)
  <2>1. PICK r \in FlagReaders : FR!Load(r) \/ FR!Store(r)
    BY <1>5
  <2>2. flag \in FR!FlagState /\ reader[r] \in [at : {"idle", "loaded"}, loaded : FR!FlagState]
    BY <1>0 DEF FlagInv
  <2> HIDE DEF FR!FlagState
  <2>3. CASE FR!Load(r)
    <3>1. reader' \in [FlagReaders -> [at : {"idle", "loaded"}, loaded : FR!FlagState]]
      BY <2>2, <2>3 DEF FR!Load, FlagInv
    <3> QED BY <2>3, <3>1 DEF FR!Load, FlagInv
  <2>4. CASE FR!Store(r)
    <3>1. flagCache' \in [value : FR!FlagState, fresh : BOOLEAN]
      BY <2>2, <2>4 DEF FR!Store
    <3>2. reader' \in [FlagReaders -> [at : {"idle", "loaded"}, loaded : FR!FlagState]]
      BY <2>2, <2>4 DEF FR!Store, FlagInv
    <3> QED BY <2>4, <3>1, <3>2 DEF FR!Store, FlagInv
  <2> QED BY <2>1, <2>3, <2>4
<1>6. CASE FR!Expire
  BY <1>6 DEF FR!Expire, FR!Stale, FlagInv
<1>7. CASE FlagNext
  BY <1>2, <1>3, <1>4, <1>5, <1>6, <1>7 DEF FlagNext
<1> QED BY <1>1, <1>7 DEF ServicesNext, servicesVars, CallsNext, CallsMove, StatusNext, StatusMoves,
           SettingsNext, SettingsMove, TokensNext, TokensMove

(***************************************************************************)
(* RuntimeSettings.                                                        *)
(***************************************************************************)
Values == 0..(TableWrites + 1)
OneCache == [value : Values, fresh : BOOLEAN]
BothCaches == [{"models", "overrides"} -> OneCache]
AdminAt == {"clear_models_time", "clear_models_value", "clear_overrides_time",
            "clear_overrides_value", "idle"}
Reading == [at : {"idle", "store", "stamp", "use"}, kind : {"models", "overrides"},
            value : Values, failed : BOOLEAN]

SettingsInv ==
  /\ table \in [{"models", "overrides"} -> 0..TableWrites] /\ tableWrites \in 0..TableWrites
  /\ settings \in [RS!Process -> BothCaches]
  /\ admin \in [Admins -> AdminAt]
  /\ thread \in [RS!Thread -> Reading]

LEMMA SettingsNames ==
  /\ RS!Kind = {"models", "overrides"} /\ RS!Write = 0..TableWrites
  /\ RS!Write \cup {RS!None} = Values /\ RS!None \in Values
  /\ {RS!Steps[i] : i \in 1..5} = AdminAt /\ RS!Steps[1] \in AdminAt
  /\ \A t \in RS!Thread : RS!HomeOf(t) \in RS!Process
  /\ "api" \in RS!Process
<1>1. RS!Kind = {"models", "overrides"} /\ RS!Write = 0..TableWrites
  BY DEF RS!Kind, RS!Write
<1>2. RS!Write \cup {RS!None} = Values /\ RS!None \in Values
  BY ServiceNumbers DEF RS!Write, RS!None, Values
<1>3. /\ RS!Steps[1] = "clear_models_time" /\ RS!Steps[2] = "clear_models_value"
      /\ RS!Steps[3] = "clear_overrides_time" /\ RS!Steps[4] = "clear_overrides_value"
      /\ RS!Steps[5] = "idle"
  BY DEF RS!Steps
<1>4. \A i : i \in 1..5 <=> i = 1 \/ i = 2 \/ i = 3 \/ i = 4 \/ i = 5
  OBVIOUS
<1>5. {RS!Steps[i] : i \in 1..5} = AdminAt
  <2> HIDE DEF RS!Steps
  <2>1. \A p : p \in {RS!Steps[i] : i \in 1..5} <=> \E i \in 1..5 : RS!Steps[i] = p
    OBVIOUS
  <2>2. \A p : p \in {RS!Steps[i] : i \in 1..5} <=> p \in AdminAt
    BY <1>3, <1>4, <2>1 DEF AdminAt
  <2> QED BY <2>2
<1>6. \A t \in RS!Thread : RS!HomeOf(t) \in RS!Process
  BY DEF RS!Thread, RS!HomeOf, RS!Process
<1>7. "api" \in RS!Process
  BY DEF RS!Process
<1> QED BY <1>1, <1>2, <1>3, <1>5, <1>6, <1>7 DEF AdminAt

LEMMA SettingsTyped == SettingsInv => RS!TypeOK
<1> SUFFICES ASSUME SettingsInv PROVE RS!TypeOK
  OBVIOUS
<1>1. /\ RS!Kind = {"models", "overrides"} /\ RS!Write = 0..TableWrites
      /\ RS!Write \cup {RS!None} = Values /\ {RS!Steps[i] : i \in 1..5} = AdminAt
  BY SettingsNames
<1> HIDE DEF RS!Kind, RS!Write, RS!None, RS!Steps
<1>2. /\ table \in [RS!Kind -> RS!Write] /\ tableWrites \in RS!Write
      /\ settings \in [RS!Process -> [RS!Kind -> [value : RS!Write \cup {RS!None}, fresh : BOOLEAN]]]
      /\ admin \in [Admins -> {RS!Steps[i] : i \in 1..5}]
      /\ thread \in [RS!Thread -> [at : {"idle", "store", "stamp", "use"}, kind : RS!Kind,
                                   value : RS!Write \cup {RS!None}, failed : BOOLEAN]]
  BY <1>1 DEF SettingsInv, BothCaches, OneCache, Reading
<1> QED BY <1>2 DEF RS!TypeOK

LEMMA FirstSettings == RS!Init => SettingsInv
<1> SUFFICES ASSUME RS!Init PROVE SettingsInv
  OBVIOUS
<1>1. RS!None \in Values /\ RS!Kind = {"models", "overrides"} /\ 0 \in 0..TableWrites
  BY SettingsNames, ServiceNumbers
<1> HIDE DEF RS!None, RS!Kind
<1> QED BY <1>1 DEF RS!Init, SettingsInv, BothCaches, OneCache, AdminAt, Reading

\* After the step that clears one thing comes the step that clears the next.
LEMMA AfterTyped ==
  ASSUME NEW step \in {RS!Steps[i] : i \in 1..4} PROVE RS!After(step) \in AdminAt
<1>1. PICK i \in 1..4 : RS!Steps[i] = step
  OBVIOUS
<1>2. (CHOOSE j \in 1..4 : RS!Steps[j] = step) \in 1..4
  BY <1>1
<1>3. PICK j : j = CHOOSE k \in 1..4 : RS!Steps[k] = step
  OBVIOUS
<1>4. j + 1 \in 1..5
  BY <1>2, <1>3
<1>5. RS!After(step) = RS!Steps[j + 1]
  BY <1>3 DEF RS!After
<1>6. RS!Steps[j + 1] \in {RS!Steps[k] : k \in 1..5}
  BY <1>4
<1> QED BY <1>5, <1>6, SettingsNames

\* One of the two caches of a process is written, its value or its time.
LEMMA CacheWritten ==
  ASSUME SettingsInv, NEW p \in RS!Process, NEW k \in {"models", "overrides"},
         \/ \E b \in BOOLEAN : settings' = [settings EXCEPT ![p][k].fresh = b]
         \/ \E v \in Values : settings' = [settings EXCEPT ![p][k].value = v]
  PROVE  settings' \in [RS!Process -> BothCaches]
<1>1. settings[p] \in BothCaches /\ settings[p][k] \in OneCache
  BY DEF SettingsInv, BothCaches
<1>2. PICK x \in OneCache : settings' = [settings EXCEPT ![p][k] = x]
  <2>1. CASE \E b \in BOOLEAN : settings' = [settings EXCEPT ![p][k].fresh = b]
    <3>1. PICK b \in BOOLEAN : settings' = [settings EXCEPT ![p][k].fresh = b]
      BY <2>1
    <3>2. PICK x : x = [settings[p][k] EXCEPT !.fresh = b]
      OBVIOUS
    <3>3. x \in OneCache
      BY <1>1, <3>2 DEF OneCache
    <3> QED BY <3>1, <3>2, <3>3
  <2>2. CASE \E v \in Values : settings' = [settings EXCEPT ![p][k].value = v]
    <3>1. PICK v \in Values : settings' = [settings EXCEPT ![p][k].value = v]
      BY <2>2
    <3>2. PICK x : x = [settings[p][k] EXCEPT !.value = v]
      OBVIOUS
    <3>3. x \in OneCache
      BY <1>1, <3>2 DEF OneCache
    <3> QED BY <3>1, <3>2, <3>3
  <2> QED BY <2>1, <2>2
<1>3. PICK c : c = [settings[p] EXCEPT ![k] = x]
  OBVIOUS
<1>4. c \in BothCaches /\ settings' = [settings EXCEPT ![p] = c]
  BY <1>1, <1>2, <1>3 DEF BothCaches
<1> QED BY <1>4 DEF SettingsInv

LEMMA AdminStep ==
  ASSUME SettingsInv, NEW a \in Admins, (\E k \in RS!Kind : RS!Put(a, k)) \/ RS!Invalidate(a)
  PROVE  SettingsInv'
<1>1. CASE \E k \in RS!Kind : RS!Put(a, k)
  <2>1. PICK k \in RS!Kind : RS!Put(a, k)
    BY <1>1
  <2>2. tableWrites < TableWrites /\ tableWrites' = tableWrites + 1
    BY <2>1 DEF RS!Put
  <2>3. PICK v \in {tableWrites + 1, 0} : table' = [table EXCEPT ![k] = v]
    BY <2>1 DEF RS!Put
  <2>4. tableWrites' \in 0..TableWrites /\ v \in 0..TableWrites
    BY <2>2, <2>3, ServiceNumbers DEF SettingsInv
  <2>5. table' \in [{"models", "overrides"} -> 0..TableWrites]
    BY <2>3, <2>4 DEF SettingsInv
  <2>6. admin' = [admin EXCEPT ![a] = "clear_models_time"]
    BY <2>1 DEF RS!Put, RS!Steps
  <2>7. admin' \in [Admins -> AdminAt]
    BY <2>6 DEF SettingsInv, AdminAt
  <2> QED BY <2>1, <2>4, <2>5, <2>7 DEF RS!Put, SettingsInv
<1>2. CASE RS!Invalidate(a)
  <2>1. /\ admin[a] \in {RS!Steps[i] : i \in 1..4}
        /\ settings' = [settings EXCEPT !["api"] = RS!Cleared(@, admin[a])]
        /\ admin' = [admin EXCEPT ![a] = RS!After(@)]
        /\ UNCHANGED <<table, tableWrites, thread>>
    BY <1>2 DEF RS!Invalidate
  <2>2. admin' \in [Admins -> AdminAt]
    BY <2>1, AfterTyped DEF SettingsInv
  <2>3. admin[a] \in {"clear_models_time", "clear_models_value", "clear_overrides_time", "clear_overrides_value"}
    <3>1. PICK i \in 1..4 : admin[a] = RS!Steps[i]
      BY <2>1
    <3>2. i = 1 \/ i = 2 \/ i = 3 \/ i = 4
      OBVIOUS
    <3> QED BY <3>1, <3>2 DEF RS!Steps
  <2>4. \E k \in {"models", "overrides"} :
           \/ settings' = [settings EXCEPT !["api"][k].fresh = FALSE]
           \/ settings' = [settings EXCEPT !["api"][k].value = RS!None]
    <3> HIDE DEF RS!None
    <3>1. \/ RS!Cleared(settings["api"], admin[a]) = [settings["api"] EXCEPT !["models"].fresh = FALSE]
          \/ RS!Cleared(settings["api"], admin[a]) = [settings["api"] EXCEPT !["models"].value = RS!None]
          \/ RS!Cleared(settings["api"], admin[a]) = [settings["api"] EXCEPT !["overrides"].fresh = FALSE]
          \/ RS!Cleared(settings["api"], admin[a]) = [settings["api"] EXCEPT !["overrides"].value = RS!None]
      BY <2>3 DEF RS!Cleared
    <3> QED BY <2>1, <3>1
  <2>5. settings' \in [RS!Process -> BothCaches]
    BY <2>4, CacheWritten, SettingsNames
  <2> QED BY <2>1, <2>2, <2>5 DEF SettingsInv
<1> QED BY <1>1, <1>2

LEMMA ThreadStep ==
  ASSUME SettingsInv, NEW t \in RS!Thread,
         \/ \E k \in RS!Kind : RS!CheckCache(t, k)
         \/ RS!StoreValue(t) \/ RS!StoreTime(t) \/ RS!Use(t)
  PROVE  SettingsInv'
<1>0. thread[t] \in Reading /\ RS!HomeOf(t) \in RS!Process /\ RS!None \in Values
  BY SettingsNames DEF SettingsInv
<1> HIDE DEF RS!None
<1>1. CASE \E k \in RS!Kind : RS!CheckCache(t, k)
  <2>1. PICK k \in RS!Kind : RS!CheckCache(t, k)
    BY <1>1
  <2>2. PICK x \in {[at |-> "use", kind |-> k, value |-> RS!None, failed |-> FALSE],
                    [at |-> "store", kind |-> k, value |-> table[k], failed |-> FALSE]} :
          thread' = [thread EXCEPT ![t] = x]
    BY <2>1 DEF RS!CheckCache
  <2>3. k \in {"models", "overrides"} /\ table[k] \in Values
    <3>1. k \in {"models", "overrides"} /\ table[k] \in 0..TableWrites
      BY SettingsNames DEF SettingsInv
    <3> QED BY <3>1, ServiceNumbers DEF Values
  <2>4. x \in Reading
    <3>1. /\ [at |-> "use", kind |-> k, value |-> RS!None, failed |-> FALSE] \in Reading
          /\ [at |-> "store", kind |-> k, value |-> table[k], failed |-> FALSE] \in Reading
      BY <1>0, <2>3 DEF Reading
    <3> QED BY <2>2, <3>1
  <2>5. thread' \in [RS!Thread -> Reading]
    BY <2>2, <2>4 DEF SettingsInv
  <2> QED BY <2>1, <2>5 DEF RS!CheckCache, SettingsInv
<1>2. ASSUME NEW at \in {"stamp", "use"}, thread' = [thread EXCEPT ![t].at = at]
      PROVE  thread' \in [RS!Thread -> Reading]
  <2>1. PICK x : x = [thread[t] EXCEPT !.at = at]
    OBVIOUS
  <2>2. x \in Reading /\ thread' = [thread EXCEPT ![t] = x]
    BY <1>0, <1>2, <2>1 DEF Reading
  <2> QED BY <2>2 DEF SettingsInv
<1>3. CASE RS!StoreValue(t) \/ RS!StoreTime(t)
  <2>1. thread' \in [RS!Thread -> Reading]
    BY <1>2, <1>3 DEF RS!StoreValue, RS!StoreTime
  <2>2. thread[t].kind \in {"models", "overrides"} /\ thread[t].value \in Values
    BY <1>0 DEF Reading
  <2>3. \/ settings' = [settings EXCEPT ![RS!HomeOf(t)][thread[t].kind].value = thread[t].value]
        \/ settings' = [settings EXCEPT ![RS!HomeOf(t)][thread[t].kind].fresh = TRUE]
    BY <1>3 DEF RS!StoreValue, RS!StoreTime
  <2>4. settings' \in [RS!Process -> BothCaches]
    BY <1>0, <2>2, <2>3, CacheWritten
  <2> QED BY <1>3, <2>1, <2>4 DEF RS!StoreValue, RS!StoreTime, SettingsInv
<1>4. CASE RS!Use(t)
  <2>1. PICK x : /\ x = [at |-> "idle", kind |-> "models", value |-> RS!None,
                         failed |-> thread[t].kind = "models" /\ RS!Used(t) = RS!None]
                 /\ thread' = [thread EXCEPT ![t] = x]
    BY <1>4 DEF RS!Use
  <2>2. (thread[t].kind = "models" /\ RS!Used(t) = RS!None) \in BOOLEAN
    OBVIOUS
  <2>3. x \in Reading
    BY <1>0, <2>1, <2>2 DEF Reading
  <2>4. thread' \in [RS!Thread -> Reading]
    BY <2>1, <2>3 DEF SettingsInv
  <2> QED BY <1>4, <2>4 DEF RS!Use, SettingsInv
<1> QED BY <1>1, <1>3, <1>4

LEMMA SettingsStep ==
  ASSUME SettingsInv, [ServicesNext]_servicesVars PROVE SettingsInv'
<1>1. CASE UNCHANGED tableVars
  BY <1>1 DEF tableVars, SettingsInv
<1>2. CASE \E p \in RS!Process, k \in RS!Kind : RS!Expire(p, k)
  <2>1. PICK p \in RS!Process, k \in RS!Kind : RS!Expire(p, k)
    BY <1>2
  <2>2. settings' = [settings EXCEPT ![p][k].fresh = FALSE]
    BY <2>1 DEF RS!Expire
  <2>3. k \in {"models", "overrides"}
    BY SettingsNames
  <2>4. settings' \in [RS!Process -> BothCaches]
    BY <2>2, <2>3, CacheWritten
  <2> QED BY <2>1, <2>4 DEF RS!Expire, SettingsInv
<1>3. CASE SettingsNext
  BY <1>2, <1>3, AdminStep, ThreadStep DEF SettingsNext
<1> QED BY <1>1, <1>3 DEF ServicesNext, servicesVars, CallsNext, CallsMove, FlagNext, FlagMoves,
           StatusNext, StatusMoves, TokensNext, TokensMove

(***************************************************************************)
(* The events, which the bound of the part that moves limits.              *)
(***************************************************************************)
EventsInv ==
  /\ part = "TokenAccounting" => events \in 0..TokenEvents
  /\ part = "StatusMirror" => events \in 0..StatusEvents

LEMMA EventsStep ==
  ASSUME EventsInv, [ServicesNext]_servicesVars PROVE EventsInv'
<1>1. CASE UNCHANGED <<part, events>>
  BY <1>1 DEF EventsInv
<1>2. CASE TokensNext
  <2>1. part' = part /\ part = "TokenAccounting"
    BY <1>2 DEF TokensNext, TokensMove, Only, Turn
  <2>2. events' = events \/ TA!Event
    BY <1>2 DEF TokensNext, TA!Dispatch, TA!Crash, TA!BeginSession, TA!Activate, TA!CallModel, TA!Report,
       TA!Finish, TA!Charge, TA!ChargeFails, TA!Settle, TA!Reclaim, TA!Resume, TA!StopRequest
  <2>3. events' \in 0..TokenEvents
    BY <2>1, <2>2, ServiceNumbers DEF EventsInv, TA!Event
  <2> QED BY <2>1, <2>3 DEF EventsInv
<1>3. CASE StatusNext
  <2>1. part' = part /\ part = "StatusMirror"
    BY <1>3 DEF StatusNext, StatusMoves, Only, Turn
  <2>2. events' = events \/ SM!Event
    <3>1. ASSUME NEW p \in Publishers,
                 SM!Pause(p) \/ SM!Resume(p) \/ SM!Cancel(p) \/ SM!Reclaim(p) \/ SM!RefreshRow(p) \/ SM!WriteSnapshot(p)
          PROVE  events' = events \/ SM!Event
      BY <3>1 DEF SM!Pause, SM!Resume, SM!Cancel, SM!Reclaim, SM!RefreshRow, SM!WriteSnapshot
    <3>2. ASSUME SM!Dispatch \/ SM!Crash \/ SM!WorkerNext
          PROVE  events' = events \/ SM!Event
      BY <3>2 DEF SM!Dispatch, SM!Crash, SM!WorkerNext, SM!Begin, SM!Callback, SM!Plan, SM!StoreChapter,
         SM!ChapterDone, SM!SetStatus, SM!MoveCursor, SM!Rerun, SM!NextChapter, SM!Closure, SM!Announce, SM!Finalize
    <3>3. ASSUME NEW s \in Streams, SM!ReadRow(s) \/ SM!Emit(s) PROVE events' = events \/ SM!Event
      BY <3>3 DEF SM!ReadRow, SM!Emit
    <3> QED BY <1>3, <3>1, <3>2, <3>3 DEF StatusNext, SM!WorkerNext
  <2>3. events' \in 0..StatusEvents
    BY <2>1, <2>2, ServiceNumbers DEF EventsInv, SM!Event
  <2> QED BY <2>1, <2>3 DEF EventsInv
<1> QED BY <1>1, <1>2, <1>3 DEF ServicesNext, servicesVars, CallsNext, CallsMove, FlagNext, FlagMoves,
           SettingsNext, SettingsMove, Only

(***************************************************************************)
(* The theorems.                                                           *)
(***************************************************************************)
\* The breakers and the calls keep their types (core/llm_circuit_breaker.py).
THEOREM BreakerTypes == Spec => []TypeOK
<1>1. Spec => []ProbeInv
  BY InvInit, InvNext, PTL DEF Spec
<1>2. ProbeInv => TypeOK
  BY DEF ProbeInv
<1> QED BY <1>1, <1>2, PTL

\* The probe of a half-open primary is never lost, however many calls of the
\* process select, fail and succeed at once (select_endpoint, record_call).
THEOREM ProbeIsKept == Spec => []HalfOpenIsProbed
<1>1. Spec => []ProbeInv
  BY InvInit, InvNext, PTL DEF Spec
<1>2. ProbeInv => HalfOpenIsProbed
  BY DEF ProbeInv
<1> QED BY <1>1, <1>2, PTL

\* The calls in the composition.
LEMMA CallsStep ==
  ASSUME ProbeInv, [ServicesNext]_servicesVars PROVE ProbeInv'
<1>1. CASE CallsNext
  <2>1. [Next]_callVars
    BY <1>1 DEF CallsNext, Next
  <2> QED BY <2>1, InvNext
<1>2. CASE UNCHANGED callVars
  BY <1>2, InvNext
<1> QED BY <1>1, <1>2 DEF ServicesNext, servicesVars, FlagNext, FlagMoves, SettingsNext, SettingsMove,
           TokensNext, TokensMove, StatusNext, StatusMoves

LEMMA FirstEvents == ServicesInit => EventsInv
  BY ServiceNumbers DEF ServicesInit, EventsInv, TA!Init, SM!Init

LEMMA TokensTyped ==
  ASSUME TokenInv, events \in 0..TokenEvents PROVE TA!TypeOK
  BY DEF TokenInv, TokenRow, Session, TA!TypeOK, TA!Tokens, TA!Ended, TA!Nobody

\* The row, the ledger and the sessions never claim more tokens than the models
\* have used, however dispatches overlap, crash and start from the total of the
\* row (core/llm_usage.py, tasks/generation.py).
THEOREM TokensAreUsed == ServicesSpec => []NothingIsInvented
<1>1. ServicesInit => TokenInv
  BY FirstTokens DEF ServicesInit
<1>2. TokenInv => NothingIsInvented
  BY DEF TokenInv
<1> QED BY <1>1, <1>2, TokenStep, PTL DEF ServicesSpec

\* A stream shows a chapter that has its text or the one that is written next,
\* whichever of the row and the key is newer, lost or written late, and whichever
\* of the writes that follow a chapter fail (status_snapshot.py, tasks/generation.py).
THEOREM StreamsShowReached == ServicesSpec => []ShowsReachedChapter
<1>1. ServicesInit => StatusInv
  BY FirstStatus DEF ServicesInit
<1>2. StatusInv => ShowsReachedChapter
  BY StatusShows
<1> QED BY <1>1, <1>2, StatusStep, PTL DEF ServicesSpec

\* Every variable of the services keeps its type.
THEOREM ServiceTypes == ServicesSpec => []ServicesTypeOK
<1> DEFINE All == ProbeInv /\ FlagInv /\ SettingsInv /\ TokenInv /\ StatusInv /\ EventsInv
<1>1. ServicesInit => All
  BY InvInit, FirstFlag, FirstSettings, FirstTokens, FirstStatus, FirstEvents DEF ServicesInit
<1>2. All /\ [ServicesNext]_servicesVars => All'
  BY CallsStep, FlagStep, SettingsStep, TokenStep, StatusStep, EventsStep
<1>3. All => ServicesTypeOK
  <2>1. All => TypeOK /\ FR!TypeOK /\ RS!TypeOK
    BY FlagTyped, SettingsTyped DEF ProbeInv
  <2>2. All => (part = "TokenAccounting" => TA!TypeOK)
    BY TokensTyped DEF EventsInv
  <2>3. All => (part = "StatusMirror" => SM!TypeOK)
    BY StatusTyped DEF EventsInv
  <2> QED BY <2>1, <2>2, <2>3 DEF ServicesTypeOK
<1> HIDE DEF All
<1> QED BY <1>1, <1>2, <1>3, PTL DEF ServicesSpec

=================================================================================
