----------------------------- MODULE FlagRollout -----------------------------
(***************************************************************************)
(* The rollout of one feature flag: the watchdog that moves the flag from  *)
(* phase to phase (services/cv/promotion_engine.py, tasks/cv_watchdog.py), *)
(* the copy of the flag in the settings table and the cache a process      *)
(* reads it through (core/feature_flags.py), and the task that pushes the  *)
(* registry file over that copy (tasks/feature_flags.py).                  *)
(*                                                                         *)
(* An evaluation reads the row of the flag, decides on the indicators of   *)
(* the moment, commits the row, and only then writes the flag in another   *)
(* transaction, which may fail and is not tried again.  The committed row  *)
(* holds only the columns the evaluation changed.                          *)
(*                                                                         *)
(* The beat schedule of workers/celery_app.py starts neither task: the     *)
(* module says what they do when they are started, in any order.           *)
(***************************************************************************)
EXTENDS Naturals

CONSTANTS Watchers,    \* evaluations that may overlap
          Readers,     \* threads of the process that owns the cache
          MaxWrites    \* bound: writes of the flag

VARIABLES row,       \* the promotion row: [phase, pct]
          flag,      \* the copy in the settings table: [enabled, pct]
          writes,    \* writes of the flag so far
          watch,     \* evaluation -> [at, seen, next, pct, verdict]
          sync,      \* the registry task is between its read and its write
          cache,     \* [value, fresh] of the reading process
          reader     \* thread -> [at, loaded]

rolloutVars == <<row, flag, writes, watch, sync, cache, reader>>

Phases == <<"baseline", "canary_10", "canary_50", "full", "stable">>
Phase  == {Phases[i] : i \in 1..5}
Percent(phase) ==
    CASE phase = "baseline"  -> 0
      [] phase = "canary_10" -> 10
      [] phase = "canary_50" -> 50
      [] OTHER               -> 100

NextPhase(phase) ==
    IF phase = "stable" THEN phase
    ELSE CHOOSE q \in Phase : \E i \in 1..4 : Phases[i] = phase /\ Phases[i + 1] = q

Off == [enabled |-> FALSE, pct |-> 0]

\* What presets/flags/registry.yaml says of every flag.
RegistryState == Off

\* The indicators of the events of the flag's agents: enough samples and few
\* failures, too many failures or too fast a burn, or neither.
Indicators == {"healthy", "failing", "unclear"}

(***************************************************************************)
(* evaluate_flag.                                                          *)
(***************************************************************************)
Verdict(phase, sli) ==
    CASE sli = "failing"                       -> "rollback"
      [] sli = "healthy" /\ phase # "stable"   -> "promote"
      [] OTHER                                 -> "hold"

Decision(seen, sli) ==
    LET v == Verdict(seen.phase, sli)
        p == CASE v = "rollback" -> "baseline"
               [] v = "promote"  -> NextPhase(seen.phase)
               [] OTHER          -> seen.phase
    IN  [at |-> "decided", seen |-> seen, next |-> p, verdict |-> v,
         pct |-> IF v = "hold" /\ seen.phase # "stable" THEN seen.pct ELSE Percent(p)]

NoEvaluation ==
    [at |-> "idle", seen |-> [phase |-> "baseline", pct |-> 0], next |-> "baseline",
     verdict |-> "hold", pct |-> 0]

Evaluate(w) ==
    /\ watch[w].at = "idle"
    /\ \E sli \in Indicators : watch' = [watch EXCEPT ![w] = Decision(row, sli)]
    /\ UNCHANGED <<row, flag, writes, sync, cache, reader>>

\* The commit writes the columns whose value differs from the one that was read.
CommitDecision(w) ==
    /\ watch[w].at = "decided"
    /\ LET d == watch[w] IN
       /\ row' = [phase |-> IF d.next # d.seen.phase THEN d.next ELSE row.phase,
                  pct   |-> IF d.pct # d.seen.pct THEN d.pct ELSE row.pct]
       /\ watch' = [watch EXCEPT ![w] = IF d.verdict = "hold" THEN NoEvaluation
                                        ELSE [d EXCEPT !.at = "set"]]
    /\ UNCHANGED <<flag, writes, sync, cache, reader>>

(***************************************************************************)
(* set_flag, by the watchdog and by the registry task: it invalidates the  *)
(* cache of the process it runs in, which may be another one.              *)
(***************************************************************************)
Stale(c) == [c EXCEPT !.fresh = FALSE]

SetFlag(f) ==
    /\ writes < MaxWrites
    /\ writes' = writes + 1
    /\ flag' = f
    /\ cache' \in {cache, Stale(cache)}

PushToFlag(w) ==
    /\ watch[w].at = "set"
    /\ SetFlag([enabled |-> watch[w].pct > 0, pct |-> watch[w].pct])
    /\ watch' = [watch EXCEPT ![w] = NoEvaluation]
    /\ UNCHANGED <<row, sync, reader>>

\* The write of the flag fails: the row keeps the phase the flag never got.
PushFails(w) ==
    /\ watch[w].at = "set"
    /\ watch' = [watch EXCEPT ![w] = NoEvaluation]
    /\ UNCHANGED <<row, flag, writes, sync, cache, reader>>

\* apply_flag_state_from_yaml: the registry differs from the copy that was read.
SyncReads ==
    /\ ~sync /\ flag # RegistryState
    /\ sync' = TRUE
    /\ UNCHANGED <<row, flag, writes, watch, cache, reader>>

SyncWrites ==
    /\ sync
    /\ sync' = FALSE
    /\ SetFlag(RegistryState)
    /\ UNCHANGED <<row, watch, reader>>

(***************************************************************************)
(* _read_all.                                                             *)
(***************************************************************************)

\* The cache has expired: the thread reads the table, outside the lock.
Load(r) ==
    /\ reader[r].at = "idle" /\ ~cache.fresh
    /\ reader' = [reader EXCEPT ![r] = [at |-> "loaded", loaded |-> flag]]
    /\ UNCHANGED <<row, flag, writes, watch, sync, cache>>

\* Mutant of Expire: a cache that was filled is only emptied by a write.
NeverExpires == FALSE /\ UNCHANGED rolloutVars

\* What was loaded becomes the cache, with the time of now.
Store(r) ==
    /\ reader[r].at = "loaded"
    /\ cache' = [value |-> reader[r].loaded, fresh |-> TRUE]
    /\ reader' = [reader EXCEPT ![r].at = "idle"]
    /\ UNCHANGED <<row, flag, writes, watch, sync>>

\* Five seconds have passed since the cache was stored.
Expire ==
    /\ cache.fresh
    /\ cache' = Stale(cache)
    /\ UNCHANGED <<row, flag, writes, watch, sync, reader>>

Init ==
    /\ row    = [phase |-> "baseline", pct |-> 0]
    /\ flag   = RegistryState
    /\ writes = 0
    /\ watch  = [w \in Watchers |-> NoEvaluation]
    /\ sync   = FALSE
    /\ cache  = [value |-> RegistryState, fresh |-> FALSE]
    /\ reader = [r \in Readers |-> [at |-> "idle", loaded |-> RegistryState]]

Next ==
    \/ \E w \in Watchers : Evaluate(w) \/ CommitDecision(w) \/ PushToFlag(w) \/ PushFails(w)
    \/ SyncReads \/ SyncWrites
    \/ \E r \in Readers : Load(r) \/ Store(r)
    \/ Expire

\* Time passes, and a thread that has loaded the table goes on.
Fairness == WF_rolloutVars(Expire) /\ \A r \in Readers : WF_rolloutVars(Store(r))

Spec == Init /\ [][Next]_rolloutVars /\ Fairness

(***************************************************************************)
(* Properties.                                                             *)
(***************************************************************************)

\* The variables keep their types.
FlagState == [enabled : BOOLEAN, pct : {0, 10, 50, 100}]

TypeOK ==
    /\ row \in [phase : Phase, pct : {0, 10, 50, 100}]
    /\ flag \in FlagState /\ writes \in 0..MaxWrites /\ sync \in BOOLEAN
    /\ watch \in [Watchers -> [at : {"idle", "decided", "set"}, next : Phase,
                               seen : [phase : Phase, pct : {0, 10, 50, 100}],
                               verdict : {"promote", "hold", "rollback"},
                               pct : {0, 10, 50, 100}]]
    /\ cache \in [value : FlagState, fresh : BOOLEAN]
    /\ reader \in [Readers -> [at : {"idle", "loaded"}, loaded : FlagState]]

\* Once the flag is no longer written, a process ends up reading what the table
\* says, whatever was loaded before a write and stored after it: the cache a
\* slow load fills with an old value lives one lifetime more, not for ever.
ReadersCatchUp == <>[](cache.fresh => cache.value = flag)

=============================================================================
