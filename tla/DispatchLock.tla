----------------------------- MODULE DispatchLock -----------------------------
(***************************************************************************)
(* The dispatch of one user's queue, statement by statement: what          *)
(* CreationScheduler has as the single action Reserve.  API requests,      *)
(* executors that have finished and both ticks dispatch for the same user  *)
(* at once, each in a transaction of its own.  What keeps them apart is    *)
(* the lock on the user's quota row, which the first of them has to make.  *)
(*                                                                         *)
(* A session that has loaded the quota keeps what it loaded, although it   *)
(* selects the row again with the lock: a dispatcher goes by the limit of  *)
(* before its wait.                                                        *)
(***************************************************************************)
EXTENDS Naturals, FiniteSets

CONSTANTS
  Line,           \* the user's tasks, by queue_seq
  Unaffordable,   \* those whose novel is over its budget
  Dispatchers,    \* transactions that dispatch for the user
  NoOne,
  HasAccount,     \* there is a users row to lock the quota of
  DefaultLimit,   \* creation_default_max_concurrent_tasks
  Limits,         \* what an administrator may set
  DispatchBatch   \* CREATION_MAX_DISPATCH_BATCH

ASSUME LockAssumption ==
  /\ Line \subseteq Nat /\ IsFiniteSet(Line)
  /\ NoOne \notin Dispatchers /\ HasAccount \in BOOLEAN
  /\ DefaultLimit \in Nat \ {0} /\ Limits \subseteq Nat \ {0} /\ DispatchBatch \in Nat \ {0}

VARIABLES
  row,          \* creation_tasks.status, as far as the queue sees it
  quota,        \* user_quotas: is it there, and max_concurrent_tasks
  lockedBy,     \* the transaction that has the quota row locked or inserted
  dispatcher    \* what each transaction has read and picked

lockVars == <<row, quota, lockedBy, dispatcher>>

RowStatus == {"absent", "queued", "held", "stopped", "over"}
AnyLimit == Limits \cup {DefaultLimit}

IdleDispatcher == [at |-> "idle", limit |-> DefaultLimit, room |-> 0, batch |-> {}]

Transaction == [at: {"idle", "insert", "wait", "locked", "counted", "picked"},
                limit: AnyLimit, room: Nat, batch: SUBSET Line]

LockTypeOK ==
  /\ row \in [Line -> RowStatus]
  /\ quota \in [row: {"absent", "uncommitted", "committed"}, limit: AnyLimit]
  /\ lockedBy \in Dispatchers \cup {NoOne}
  /\ dispatcher \in [Dispatchers -> Transaction]

LockInit ==
  /\ row = [t \in Line |-> "absent"]
  /\ quota = [row |-> "absent", limit |-> DefaultLimit]
  /\ lockedBy = NoOne
  /\ dispatcher = [d \in Dispatchers |-> IdleDispatcher]

Waits == {t \in Line : row[t] = "queued"}
Holds == {t \in Line : row[t] = "held"}

Is(d, at) == dispatcher[d].at = at
Becomes(d, at) == dispatcher' = [dispatcher EXCEPT ![d].at = at]
BecomesWith(d, at, limit) ==
  dispatcher' = [dispatcher EXCEPT ![d].at = at, ![d].limit = limit]

-------------------------------------------------------------------------------
(* acquire_user_dispatch_lock.                                             *)

\* ensure_user_quota reads the row; a user without an account locks nothing.
AskForQuota(d) ==
  /\ Is(d, "idle")
  /\ IF ~HasAccount THEN BecomesWith(d, "locked", DefaultLimit)
     ELSE IF quota.row = "committed" THEN BecomesWith(d, "wait", quota.limit)
     ELSE Becomes(d, "insert")
  /\ UNCHANGED <<row, quota, lockedBy>>

\* The insert waits for that of another transaction on the same user.
InsertQuota(d) ==
  /\ Is(d, "insert") /\ quota.row = "absent"
  /\ quota' = [row |-> "uncommitted", limit |-> DefaultLimit]
  /\ lockedBy' = d
  /\ BecomesWith(d, "locked", DefaultLimit)
  /\ UNCHANGED row

\* IntegrityError: the row of the other one is read.
InsertLost(d) ==
  /\ Is(d, "insert") /\ quota.row = "committed"
  /\ BecomesWith(d, "wait", quota.limit)
  /\ UNCHANGED <<row, quota, lockedBy>>

\* Mutant of LockQuota: a database that knows no row locks.
LockNothing(d) ==
  /\ Is(d, "wait")
  /\ Becomes(d, "locked")
  /\ UNCHANGED <<row, quota, lockedBy>>

\* SELECT ... FOR UPDATE of the quota row.
LockQuota(d) ==
  /\ Is(d, "wait") /\ lockedBy = NoOne
  /\ lockedBy' = d
  /\ Becomes(d, "locked")
  /\ UNCHANGED <<row, quota>>

-------------------------------------------------------------------------------
(* _reserve_dispatch_batch.                                                *)

Smaller(m, n) == IF m < n THEN m ELSE n

\* count_user_running_slots
CountSlots(d) ==
  /\ Is(d, "locked")
  /\ LET used == Cardinality(Holds)
         free == IF used < dispatcher[d].limit THEN dispatcher[d].limit - used ELSE 0 IN
       dispatcher' = [dispatcher EXCEPT ![d].at = "counted", ![d].room = Smaller(free, DispatchBatch)]
  /\ UNCHANGED <<row, quota, lockedBy>>

RowLocks == UNION {dispatcher[d].batch : d \in Dispatchers}

\* The first in line, locked; it waits for rows that another dispatcher has locked.
FirstInLine(batch, room) ==
  /\ Cardinality(batch) = Smaller(room, Cardinality(Waits))
  /\ \A t \in batch, x \in Waits \ batch : t < x

\* With a task over budget in the batch, transition_task_status raises: all that
\* is left to the transaction is Rollback.
PickBatch(d) ==
  /\ Is(d, "counted")
  /\ \E batch \in SUBSET Waits :
       /\ FirstInLine(batch, dispatcher[d].room)
       /\ batch \cap (RowLocks \cup Unaffordable) = {}
       /\ dispatcher' = [dispatcher EXCEPT ![d].at = "picked", ![d].batch = batch]
  /\ UNCHANGED <<row, quota, lockedBy>>

Release(d) ==
  /\ lockedBy' = IF lockedBy = d THEN NoOne ELSE lockedBy
  /\ dispatcher' = [dispatcher EXCEPT ![d] = IdleDispatcher]

\* _prepare_worker_task_dispatch refuses a task with a bad payload, which fails;
\* publishing follows the commit.
CommitBatch(d) ==
  /\ Is(d, "picked")
  /\ \E bad \in SUBSET dispatcher[d].batch :
       row' = [t \in Line |-> IF t \in bad THEN "stopped"
                              ELSE IF t \in dispatcher[d].batch THEN "held" ELSE row[t]]
  /\ quota' = IF lockedBy = d THEN [quota EXCEPT !.row = "committed"] ELSE quota
  /\ Release(d)

\* The transaction fails, or its process is lost: what it inserted is gone.
Rollback(d) ==
  /\ ~Is(d, "idle")
  /\ quota' = IF lockedBy = d /\ quota.row = "uncommitted"
              THEN [quota EXCEPT !.row = "absent"] ELSE quota
  /\ Release(d)
  /\ UNCHANGED row

-------------------------------------------------------------------------------
(* Everybody else, in one step each: what CreationScheduler has of them.   *)

\* One that reads a row before a dispatcher locks it and writes it later takes
\* the slot away again.
Others(t, from, to) ==
  /\ row[t] \in from /\ t \notin RowLocks
  /\ row' \in {[row EXCEPT ![t] = s] : s \in to}
  /\ UNCHANGED <<quota, lockedBy, dispatcher>>

SubmitTask(t) == Others(t, {"absent"}, {"queued"})
ResumeTask(t) == Others(t, {"stopped"}, {"queued"})
StopTask(t) == Others(t, {"queued"}, {"stopped", "over"})
\* It ends, is stopped, is reclaimed, or its message could not be published.
LeaveSlot(t) == Others(t, {"held"}, {"queued", "stopped", "over"})

\* update_user_quota waits for the lock, and makes the row if there is none.
SetLimit(l) ==
  /\ HasAccount /\ lockedBy = NoOne
  /\ quota' = [row |-> "committed", limit |-> l]
  /\ UNCHANGED <<row, lockedBy, dispatcher>>

LockNext ==
  \/ \E d \in Dispatchers :
       \/ AskForQuota(d) \/ InsertQuota(d) \/ InsertLost(d) \/ LockQuota(d)
       \/ CountSlots(d) \/ PickBatch(d) \/ CommitBatch(d) \/ Rollback(d)
  \/ \E t \in Line : SubmitTask(t) \/ ResumeTask(t) \/ StopTask(t) \/ LeaveSlot(t)
  \/ \E l \in Limits : SetLimit(l)

LockSpec == LockInit /\ [][LockNext]_lockVars

-------------------------------------------------------------------------------
\* However many dispatch for a user at once, and whoever of them makes the quota
\* row or dies with it, a batch that is about to be committed fits the limit its
\* dispatcher read together with all that holds a slot by then: the slots it
\* counted are still those that are taken (lock_user_quota_row).
BatchFits ==
  \A d \in Dispatchers : dispatcher[d].batch # {} =>
    Cardinality(Holds) + Cardinality(dispatcher[d].batch) <= dispatcher[d].limit
===============================================================================
