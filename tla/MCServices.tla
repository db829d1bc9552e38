----------------------------- MODULE MCServices -----------------------------
(***************************************************************************)
(* The services that run beside the long tasks, checked side by side: they *)
(* share no variable, and part says which of them moves in a behaviour     *)
(* while the others stay at their initial states.  What is checked is what *)
(* a run of each module on its own would check.                            *)
(***************************************************************************)
EXTENDS ModelCalls

CONSTANTS
  Parts,        \* names of the modules that move
  Watchers, FlagReaders, FlagWrites,              \* FlagRollout
  Admins, ApiReaders, Workers, TableWrites,       \* RuntimeSettings
  Dispatches, MaxTokens, TokenEvents,             \* TokenAccounting
  Publishers, Streams, Chapters, StatusEvents     \* StatusMirror

ASSUME ServicesAssumption ==
  /\ {FlagWrites, TableWrites, MaxTokens, TokenEvents, StatusEvents} \subseteq Nat
  /\ Chapters \in Nat \ {0}

VARIABLES
  part,
  promotion, flag, flagWrites, watch, sync, flagCache, reader,
  table, tableWrites, settings, admin, thread,
  used, task, session, ledger,
  stored, row, live, publisher, author, stream,
  events        \* of the modules that bound their events, of which one moves

FR == INSTANCE FlagRollout WITH Readers <- FlagReaders, MaxWrites <- FlagWrites, row <- promotion,
        writes <- flagWrites, cache <- flagCache
RS == INSTANCE RuntimeSettings WITH MaxWrites <- TableWrites, writes <- tableWrites, cache <- settings
TA == INSTANCE TokenAccounting WITH MaxEvents <- TokenEvents, worker <- session
SM == INSTANCE StatusMirror WITH MaxEvents <- StatusEvents, worker <- author

flagVars    == <<promotion, flag, flagWrites, watch, sync, flagCache, reader>>
tableVars   == <<table, tableWrites, settings, admin, thread>>
tokenVars   == <<used, task, session, ledger>>
statusVars  == <<stored, row, live, publisher, author, stream>>

servicesVars == <<part, callVars, flagVars, tableVars, tokenVars,
                  statusVars, events>>

ServicesInit ==
  /\ part \in Parts
  /\ Init /\ FR!Init /\ RS!Init /\ TA!Init /\ SM!Init

(***************************************************************************)
(* The part whose turn it is, and what stays.                              *)
(***************************************************************************)
Turn(p) == part = p
Only(p) == Turn(p) /\ UNCHANGED part

CallsMove == Only("ModelCalls") /\
  UNCHANGED <<flagVars, tableVars, tokenVars, statusVars, events>>
FlagMoves == Only("FlagRollout") /\
  UNCHANGED <<callVars, tableVars, tokenVars, statusVars, events>>
SettingsMove == Only("RuntimeSettings") /\
  UNCHANGED <<callVars, flagVars, tokenVars, statusVars, events>>
TokensMove == Only("TokenAccounting") /\
  UNCHANGED <<callVars, flagVars, tableVars, statusVars>>
StatusMoves == Only("StatusMirror") /\
  UNCHANGED <<callVars, flagVars, tableVars, tokenVars>>

CallsNext ==
  \/ \E c \in Calls : \/ (CallsMove /\ Begin(c))   \/ (CallsMove /\ Select(c))
                      \/ (CallsMove /\ GiveUp(c))  \/ (CallsMove /\ Succeed(c))
                      \/ (CallsMove /\ Fail(c))
  \/ (CallsMove /\ Cooldown)

FlagNext ==
  \/ \E w \in Watchers : \/ (FlagMoves /\ FR!Evaluate(w))   \/ (FlagMoves /\ FR!CommitDecision(w))
                         \/ (FlagMoves /\ FR!PushToFlag(w)) \/ (FlagMoves /\ FR!PushFails(w))
  \/ (FlagMoves /\ FR!SyncReads) \/ (FlagMoves /\ FR!SyncWrites) \/ (FlagMoves /\ FR!Expire)
  \/ \E r \in FlagReaders : (FlagMoves /\ FR!Load(r)) \/ (FlagMoves /\ FR!Store(r))

SettingsNext ==
  \/ \E a \in Admins : \/ \E k \in RS!Kind : (SettingsMove /\ RS!Put(a, k))
                       \/ (SettingsMove /\ RS!Invalidate(a))
  \/ \E t \in RS!Thread : \/ \E k \in RS!Kind : (SettingsMove /\ RS!CheckCache(t, k))
                          \/ (SettingsMove /\ RS!StoreValue(t))
                          \/ (SettingsMove /\ RS!StoreTime(t)) \/ (SettingsMove /\ RS!Use(t))
  \/ \E p \in RS!Process, k \in RS!Kind : (SettingsMove /\ RS!Expire(p, k))

TokensNext ==
  \/ \E d \in Dispatches :
       \/ (TokensMove /\ TA!Dispatch(d))     \/ (TokensMove /\ TA!Crash(d))
       \/ (TokensMove /\ TA!BeginSession(d)) \/ (TokensMove /\ TA!Activate(d))
       \/ (TokensMove /\ TA!CallModel(d))    \/ (TokensMove /\ TA!Report(d))
       \/ (TokensMove /\ TA!Finish(d))       \/ (TokensMove /\ TA!Charge(d))
       \/ (TokensMove /\ TA!ChargeFails(d))  \/ (TokensMove /\ TA!Settle(d))
  \/ (TokensMove /\ TA!Reclaim) \/ (TokensMove /\ TA!Resume)
  \/ \E to \in TA!Stop : (TokensMove /\ TA!StopRequest(to))

StatusNext ==
  \/ \E p \in Publishers :
       \/ (StatusMoves /\ SM!Pause(p))      \/ (StatusMoves /\ SM!Resume(p))
       \/ (StatusMoves /\ SM!Cancel(p))     \/ (StatusMoves /\ SM!Reclaim(p))
       \/ (StatusMoves /\ SM!RefreshRow(p)) \/ (StatusMoves /\ SM!WriteSnapshot(p))
  \/ (StatusMoves /\ SM!Dispatch)    \/ (StatusMoves /\ SM!Begin)    \/ (StatusMoves /\ SM!Callback)
  \/ (StatusMoves /\ SM!Plan)        \/ (StatusMoves /\ SM!StoreChapter)
  \/ (StatusMoves /\ SM!ChapterDone) \/ (StatusMoves /\ SM!SetStatus)  \/ (StatusMoves /\ SM!MoveCursor)
  \/ (StatusMoves /\ SM!Rerun)       \/ (StatusMoves /\ SM!NextChapter) \/ (StatusMoves /\ SM!Closure)
  \/ (StatusMoves /\ SM!Crash)       \/ (StatusMoves /\ SM!Announce) \/ (StatusMoves /\ SM!Finalize)
  \/ \E s \in Streams : (StatusMoves /\ SM!ReadRow(s)) \/ (StatusMoves /\ SM!Emit(s))

ServicesNext ==
  \/ CallsNext \/ FlagNext \/ SettingsNext \/ TokensNext
  \/ StatusNext

\* The fairness of each module, for the part that moves.
ServicesFairness ==
  /\ WF_flagVars(Turn("FlagRollout") /\ FR!Expire)
  /\ \A r \in FlagReaders : WF_flagVars(Turn("FlagRollout") /\ FR!Store(r))
  /\ \A t \in RS!Thread :
       WF_tableVars(Turn("RuntimeSettings") /\ (RS!StoreValue(t) \/ RS!StoreTime(t) \/ RS!Use(t)))
  /\ \A p \in RS!Process, k \in RS!Kind :
       WF_tableVars(Turn("RuntimeSettings") /\ RS!Expire(p, k))
  /\ WF_statusVars(Turn("StatusMirror") /\ (SM!Dispatch \/ SM!WorkerNext))
  /\ \A p \in Publishers :
       WF_statusVars(Turn("StatusMirror") /\ (SM!Reclaim(p) \/ SM!RefreshRow(p) \/ SM!WriteSnapshot(p)))
  /\ \A s \in Streams : WF_statusVars(Turn("StatusMirror") /\ (SM!ReadRow(s) \/ SM!Emit(s)))

ServicesSpec == ServicesInit /\ [][ServicesNext]_servicesVars /\ ServicesFairness

(***************************************************************************)
(* The properties of the modules, under the names they have there.         *)
(***************************************************************************)

\* The variables of the module that moves keep their types.
ServicesTypeOK ==
  /\ TypeOK /\ FR!TypeOK /\ RS!TypeOK
  /\ part = "TokenAccounting" => TA!TypeOK
  /\ part = "StatusMirror" => SM!TypeOK

\* A process ends up reading the flag the table holds (feature_flags.py).
ReadersCatchUp == FR!ReadersCatchUp

\* Every process ends up with the settings the table holds (system_settings/runtime.py).
SettingsCatchUp == RS!SettingsCatchUp

\* No row ever claims more tokens than the models have used (core/llm_usage.py).
NothingIsInvented == TA!NothingIsInvented

\* A stream shows a chapter that has its text, or the next one (status_snapshot.py).
ShowsReachedChapter == SM!ShowsReachedChapter

\* The reader of a task that keeps running comes to see it run (status_snapshot.py).
RunningIsShown == SM!RunningIsShown
=============================================================================
