--------------------------- MODULE TokenAccounting ---------------------------
(***************************************************************************)
(* The tokens of one generation task: what its worker's usage session      *)
(* counts (core/llm_usage.py), what the row of the task says, and what the *)
(* user is charged in the ledger (services/quota.py, tasks/generation.py). *)
(*                                                                         *)
(* A dispatch starts its session at the total of the row, so that a task   *)
(* that is resumed goes on counting.  Progress raises the total of the row *)
(* to the session's; the end of the execution overwrites it and writes the *)
(* ledger row of the dispatch, whatever happened to the task meanwhile.    *)
(* The protocol of the row is that of CreationScheduler, with its windows  *)
(* left out and its dispatches, takeovers and stops kept.                  *)
(***************************************************************************)
EXTENDS Naturals

CONSTANTS Dispatches,   \* worker_task_id values: one per dispatch
          MaxTokens,    \* bound: tokens used in all
          MaxEvents     \* bound: requests of the user and faults

VARIABLES used,     \* billable tokens the models really used for the task
          task,     \* the row: [status, owner, total]
          worker,   \* dispatch -> [at, count, outcome]
          ledger,   \* dispatch -> billable tokens of its ledger row, 0 if it has none
          events

accountVars == <<used, task, worker, ledger, events>>

Nobody == "nobody"
Ended  == {"completed", "failed", "cancelled"}
Stop   == {"paused", "cancelled"}
Tokens == 0..MaxTokens

Max2(a, b) == IF a < b THEN b ELSE a

At(d, p)   == worker[d].at = p
Goto(d, p) == worker' = [worker EXCEPT ![d].at = p]
Leaves(d, outcome) ==
    worker' = [worker EXCEPT ![d].at = "charge", ![d].outcome = outcome]

Superseded(d) == task.owner \notin {Nobody, d}

Event == events < MaxEvents /\ events' = events + 1

(***************************************************************************)
(* The queue.                                                              *)
(***************************************************************************)
Dispatch(d) ==
    /\ task.status = "queued" /\ At(d, "unused")
    /\ task' = [task EXCEPT !.status = "held", !.owner = d]
    /\ Goto(d, "sent")
    /\ UNCHANGED <<used, ledger, events>>

\* A lease ran out: of a worker that is gone or of one that lives.
Reclaim ==
    /\ Event /\ task.status = "held"
    /\ task' = [task EXCEPT !.status = "queued", !.owner = Nobody]
    /\ UNCHANGED <<used, worker, ledger>>

StopRequest(to) ==
    /\ Event /\ task.status \in {"queued", "held", "paused"} \ {to}
    /\ task' = [task EXCEPT !.status = to, !.owner = Nobody]
    /\ UNCHANGED <<used, worker, ledger>>

Resume ==
    /\ Event /\ task.status \in {"paused", "failed"}
    /\ task' = [task EXCEPT !.status = "queued", !.owner = Nobody]
    /\ UNCHANGED <<used, worker, ledger>>

\* The process is lost and the message is delivered again.
Crash(d) ==
    /\ Event /\ worker[d].at \in {"begun", "run", "charge", "settle"}
    /\ worker' = [worker EXCEPT ![d] = [@ EXCEPT !.at = "sent", !.count = 0]]
    /\ UNCHANGED <<used, task, ledger>>

(***************************************************************************)
(* submit_book_generation_task, as far as it counts tokens.                *)
(***************************************************************************)

\* _load_prior_tokens and begin_usage_session, before the task is activated.
BeginSession(d) ==
    /\ At(d, "sent")
    /\ worker' = [worker EXCEPT ![d].at = "begun", ![d].count = task.total]
    /\ UNCHANGED <<used, task, ledger, events>>

\* A worker that another one took over from leaves without a trace; one whose row
\* was stopped, or is no longer its own, goes to the final block at once.
Activate(d) ==
    /\ At(d, "begun")
    /\ CASE Superseded(d)                             -> Goto(d, "left")
         [] ~Superseded(d) /\ task.status \in Stop     -> Leaves(d, task.status)
         [] task.owner = d /\ task.status = "held"     -> Goto(d, "run")
         [] OTHER                                     -> Leaves(d, "failed")
    /\ UNCHANGED <<used, task, ledger, events>>

\* A tracked call: the session counts what the response says it used.
CallModel(d) ==
    /\ At(d, "run") /\ used < MaxTokens
    /\ used' = used + 1
    /\ worker' = [worker EXCEPT ![d].count = @ + 1]
    /\ UNCHANGED <<task, ledger, events>>

\* The progress callback: ownership, stop requests, then the total.
Report(d) ==
    /\ At(d, "run")
    /\ \/ Superseded(d) /\ Goto(d, "left") /\ UNCHANGED task
       \/ ~Superseded(d) /\ task.status \in Stop /\ Leaves(d, task.status) /\ UNCHANGED task
       \/ /\ ~Superseded(d) /\ task.status \notin Stop
          /\ task' = [task EXCEPT !.total = Max2(@, worker[d].count)]
          /\ UNCHANGED worker
    /\ UNCHANGED <<used, ledger, events>>

\* The book is written, or an error ends the execution: no check in between.
Finish(d) ==
    /\ At(d, "run")
    /\ \E outcome \in {"completed", "failed"} : Leaves(d, outcome)
    /\ UNCHANGED <<used, task, ledger, events>>

\* Mutant of Charge: the total of the row is taken for the tokens of earlier
\* dispatches and added to the session's, which begins with it.
ChargeOnTop(d) ==
    /\ At(d, "charge")
    /\ LET sum == task.total + worker[d].count
           all == IF sum < MaxTokens THEN sum ELSE MaxTokens
       IN  /\ task' = [task EXCEPT !.total = all]
           /\ ledger' = IF task.owner = d THEN [ledger EXCEPT ![d] = all] ELSE ledger
    /\ Goto(d, "settle")
    /\ UNCHANGED <<used, events>>

\* The final block: the total of the row is the session's, and the ledger row of
\* the dispatch says the same if the task row is still bound to it.
Charge(d) ==
    /\ At(d, "charge")
    /\ task' = [task EXCEPT !.total = worker[d].count]
    /\ ledger' = IF task.owner = d THEN [ledger EXCEPT ![d] = worker[d].count] ELSE ledger
    /\ Goto(d, "settle")
    /\ UNCHANGED <<used, events>>

\* That transaction fails, which is only logged.
ChargeFails(d) ==
    /\ At(d, "charge") /\ Event
    /\ Goto(d, "settle")
    /\ UNCHANGED <<used, task, ledger>>

\* finalize_task takes a result for a row that is dispatching or running.
Settle(d) ==
    /\ At(d, "settle")
    /\ task' = IF task.status = "held"
               THEN [status |-> worker[d].outcome, owner |-> Nobody, total |-> worker[d].count]
               ELSE task
    /\ Goto(d, "left")
    /\ UNCHANGED <<used, ledger, events>>

Init ==
    /\ used   = 0
    /\ task   = [status |-> "queued", owner |-> Nobody, total |-> 0]
    /\ worker = [d \in Dispatches |-> [at |-> "unused", count |-> 0, outcome |-> "failed"]]
    /\ ledger = [d \in Dispatches |-> 0]
    /\ events = 0

Next ==
    \/ \E d \in Dispatches : \/ Dispatch(d) \/ Crash(d) \/ BeginSession(d) \/ Activate(d)
                             \/ CallModel(d) \/ Report(d) \/ Finish(d)
                             \/ Charge(d) \/ ChargeFails(d) \/ Settle(d)
    \/ Reclaim \/ Resume
    \/ \E to \in Stop : StopRequest(to)

Spec == Init /\ [][Next]_accountVars

(***************************************************************************)
(* Properties.                                                             *)
(***************************************************************************)

\* The variables keep their types.
TypeOK ==
    /\ used \in Tokens /\ events \in 0..MaxEvents
    /\ task \in [status : {"queued", "held", "paused"} \cup Ended,
                 owner : Dispatches \cup {Nobody}, total : Tokens]
    /\ worker \in [Dispatches -> [at : {"unused", "sent", "begun", "run", "charge", "settle",
                                        "left"},
                                  count : Tokens, outcome : Ended \cup {"paused"}]]
    /\ ledger \in [Dispatches -> Tokens]

\* However dispatches overlap, crash and begin again from the total of the row,
\* neither the row nor any row of the ledger ever claims more tokens than the
\* models have used: the base of a session is never counted twice in it.
NothingIsInvented ==
    /\ task.total <= used
    /\ \A d \in Dispatches : ledger[d] <= used /\ worker[d].count <= used

=============================================================================
