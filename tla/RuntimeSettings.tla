--------------------------- MODULE RuntimeSettings ---------------------------
(***************************************************************************)
(* The system settings: the rows an administrator writes                   *)
(* (api/routes/admin.py, system_settings/repository.py) and the caches of  *)
(* each process they are read through (system_settings/runtime.py).  There *)
(* is one cache for the model connections and one for the overrides of the *)
(* scheduler.  A cache has no lock: threads of a process check it, load    *)
(* it, store its value and its time, and use it in separate steps, and the *)
(* API clears both in four assignments after it has committed a write.     *)
(* The workers' caches are never cleared, they only expire.                *)
(*                                                                         *)
(* A value is the number of the write that made it; 0 is the environment.  *)
(***************************************************************************)
EXTENDS Naturals

CONSTANTS Admins,      \* requests of administrators that may overlap
          ApiReaders,  \* threads of the API that read a setting
          Workers,     \* worker processes, one thread each
          MaxWrites    \* bound: requests that write a setting

VARIABLES table,    \* [models, overrides] of system_runtime_settings
          writes,   \* requests that have written
          cache,    \* process, kind -> [value, fresh]
          admin,    \* request -> where it is
          thread    \* thread -> [at, kind, value, failed]

settingsVars == <<table, writes, cache, admin, thread>>

Kind    == {"models", "overrides"}
Process == {"api"} \cup Workers
Thread  == ApiReaders \cup Workers
HomeOf(t) == IF t \in Workers THEN t ELSE "api"

Write == 0..MaxWrites
None  == MaxWrites + 1

(***************************************************************************)
(* The requests that write.                                                *)
(***************************************************************************)
Steps == <<"clear_models_time", "clear_models_value", "clear_overrides_time",
           "clear_overrides_value", "idle">>
After(step) == Steps[(CHOOSE i \in 1..4 : Steps[i] = step) + 1]

\* replace_model_settings merges the secrets and writes both rows;
\* set_runtime_overrides writes the values that pass the rules, and deletes the
\* rows of those that are null.  Then the transaction commits.
Put(a, kind) ==
    /\ admin[a] = "idle" /\ writes < MaxWrites
    /\ writes' = writes + 1
    /\ \E v \in {writes + 1} \cup (IF kind = "overrides" THEN {0} ELSE {}) :
          table' = [table EXCEPT ![kind] = v]
    /\ admin' = [admin EXCEPT ![a] = Steps[1]]
    /\ UNCHANGED <<cache, thread>>

\* invalidate_caches of the API process, one assignment after the other.
Cleared(c, step) ==
    CASE step = "clear_models_time"     -> [c EXCEPT !.models.fresh = FALSE]
      [] step = "clear_models_value"    -> [c EXCEPT !.models.value = None]
      [] step = "clear_overrides_time"  -> [c EXCEPT !.overrides.fresh = FALSE]
      [] step = "clear_overrides_value" -> [c EXCEPT !.overrides.value = None]

Invalidate(a) ==
    /\ admin[a] \in {Steps[i] : i \in 1..4}
    /\ cache' = [cache EXCEPT !["api"] = Cleared(@, admin[a])]
    /\ admin' = [admin EXCEPT ![a] = After(@)]
    /\ UNCHANGED <<table, writes, thread>>

(***************************************************************************)
(* get_effective_model_config, get_effective_runtime_setting.              *)
(***************************************************************************)
CacheOf(t, kind) == cache[HomeOf(t)][kind]
Reads(t, at) == thread[t].at = at

Hit(t, kind) == CacheOf(t, kind).fresh /\ CacheOf(t, kind).value # None

CheckCache(t, kind) ==
    /\ Reads(t, "idle")
    /\ thread' = [thread EXCEPT ![t] =
                    IF Hit(t, kind)
                    THEN [at |-> "use", kind |-> kind, value |-> None, failed |-> FALSE]
                    ELSE [at |-> "store", kind |-> kind, value |-> table[kind],
                          failed |-> FALSE]]
    /\ UNCHANGED <<table, writes, cache, admin>>

StoreValue(t) ==
    /\ Reads(t, "store")
    /\ cache' = [cache EXCEPT ![HomeOf(t)][thread[t].kind].value = thread[t].value]
    /\ thread' = [thread EXCEPT ![t].at = "stamp"]
    /\ UNCHANGED <<table, writes, admin>>

StoreTime(t) ==
    /\ Reads(t, "stamp")
    /\ cache' = [cache EXCEPT ![HomeOf(t)][thread[t].kind].fresh = TRUE]
    /\ thread' = [thread EXCEPT ![t].at = "use"]
    /\ UNCHANGED <<table, writes, admin>>

\* The models are the copy that was loaded or is cached, the overrides always
\* what the cache holds now, and nothing if it was cleared since the check: the
\* reader of an override then takes the environment, that of the models fails.
Used(t) ==
    IF thread[t].kind = "models" /\ thread[t].value # None THEN thread[t].value
    ELSE CacheOf(t, thread[t].kind).value

Use(t) ==
    /\ Reads(t, "use")
    /\ thread' = [thread EXCEPT ![t] = [at |-> "idle", kind |-> "models", value |-> None,
                                        failed |-> @.kind = "models" /\ Used(t) = None]]
    /\ UNCHANGED <<table, writes, cache, admin>>

\* Mutant of Expire: a cache is good until it is cleared.
ExpireInApi(p, kind) ==
    /\ p = "api" /\ cache[p][kind].fresh
    /\ cache' = [cache EXCEPT ![p][kind].fresh = FALSE]
    /\ UNCHANGED <<table, writes, admin, thread>>

\* Five seconds after its time.
Expire(p, kind) ==
    /\ cache[p][kind].fresh
    /\ cache' = [cache EXCEPT ![p][kind].fresh = FALSE]
    /\ UNCHANGED <<table, writes, admin, thread>>

Init ==
    /\ table  = [k \in Kind |-> 0]
    /\ writes = 0
    /\ cache  = [p \in Process |-> [k \in Kind |-> [value |-> None, fresh |-> FALSE]]]
    /\ admin  = [a \in Admins |-> "idle"]
    /\ thread = [t \in Thread |-> [at |-> "idle", kind |-> "models", value |-> None,
                                failed |-> FALSE]]

Next ==
    \/ \E a \in Admins : (\E k \in Kind : Put(a, k)) \/ Invalidate(a)
    \/ \E t \in Thread : \/ \E k \in Kind : CheckCache(t, k)
                         \/ StoreValue(t) \/ StoreTime(t) \/ Use(t)
    \/ \E p \in Process, k \in Kind : Expire(p, k)

\* A thread that has begun goes on, and time passes.
Fairness ==
    /\ \A t \in Thread : WF_settingsVars(StoreValue(t) \/ StoreTime(t) \/ Use(t))
    /\ \A p \in Process, k \in Kind : WF_settingsVars(Expire(p, k))

Spec == Init /\ [][Next]_settingsVars /\ Fairness

(***************************************************************************)
(* Properties.                                                             *)
(***************************************************************************)

\* The variables keep their types.
TypeOK ==
    /\ table \in [Kind -> Write] /\ writes \in Write
    /\ cache \in [Process -> [Kind -> [value : Write \cup {None}, fresh : BOOLEAN]]]
    /\ admin \in [Admins -> {Steps[i] : i \in 1..5}]
    /\ thread \in [Thread -> [at : {"idle", "store", "stamp", "use"}, kind : Kind,
                              value : Write \cup {None}, failed : BOOLEAN]]

\* Once the settings are no longer written, every process ends up with what the
\* table says, although a value loaded before a write may be stored after the
\* caches were cleared, and the workers' caches are never cleared at all.
SettingsCatchUp ==
    <>[](\A p \in Process, k \in Kind :
            cache[p][k].fresh /\ cache[p][k].value # None => cache[p][k].value = table[k])

=============================================================================
