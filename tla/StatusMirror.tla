----------------------------- MODULE StatusMirror -----------------------------
(***************************************************************************)
(* The status of a generation task as its reader sees it.  The row of the  *)
(* task says where it stands; its worker and whoever changes the row       *)
(* publish snapshots under a Redis key, after the transaction and with     *)
(* nothing that orders them (services/generation/status_snapshot.py,       *)
(* tasks/generation.py, api/routes/generation.py).  A stream of events     *)
(* polls: it reads the row, then the key, and merges the two: of a row     *)
(* that is paused or ended nothing is taken from Redis.                    *)
(*                                                                         *)
(* Only one worker at a time is modelled; a lost one is replaced.          *)
(***************************************************************************)
EXTENDS Naturals

CONSTANTS Publishers,   \* requests and ticks that publish what they committed
          Streams,      \* readers of the events
          Chapters,     \* chapters of the book
          MaxEvents     \* bound: requests, reruns, faults and lost writes

VARIABLES stored,      \* the chapters 1..stored have a text
          row,         \* creation_tasks: [status, next, last]: next_chapter of the runtime
                       \* state, and the last chapter that has a checkpoint
          live,        \* the Redis key: [status, chapter, done], or absent
          publisher,   \* [at, shot]: a request between its commit and its write
          worker,      \* [at, stage, chapter, verdict]
          stream,      \* [at, row, run, chapter]: what it has read, and what it shows
          events

mirrorVars == <<stored, row, live, publisher, worker, stream, events>>

Terminal == {"completed", "failed", "cancelled"}
NonLive  == Terminal \cup {"paused"}
Stop     == {"paused", "cancelled"}
Chapter  == 1..Chapters

Event == events < MaxEvents /\ events' = events + 1

NewRow == [status |-> "queued", next |-> 1, last |-> 0]

(***************************************************************************)
(* build_generation_snapshot.                                              *)
(***************************************************************************)
Absent == [status |-> "absent", chapter |-> 0, done |-> FALSE]
Idle   == [at |-> "idle", shot |-> Absent]

\* Mutant of RowChapter: the chapter after the last one.
RowChapterPastEnd(r) == IF r.status = "completed" THEN Chapters ELSE r.next

\* creation_task_display_totals: the next chapter, the last one at the end.
RowChapter(r) == IF r.status = "completed" \/ r.next > Chapters THEN Chapters ELSE r.next

\* The phase of a row is not kept here: it is chapter_done, or not.
SnapshotsOf(r) == [status : {r.status}, chapter : {RowChapter(r)}, done : BOOLEAN]

\* resolve_live_chapter_display: a snapshot without a chapter shows that of the row.
LiveChapter(r, l) ==
    IF l.chapter = 0 \/ (l.done /\ RowChapter(r) > l.chapter) THEN RowChapter(r) ELSE l.chapter

\* build_generation_snapshot with a payload.
Merged(r, l) ==
    IF r.status \in NonLive
    THEN [status |-> r.status, run |-> r.status, chapter |-> RowChapter(r)]
    ELSE [status |-> r.status, run |-> l.status, chapter |-> LiveChapter(r, l)]

(***************************************************************************)
(* Requests of the user, the dispatcher and the recovery tick: a commit,   *)
(* then a snapshot of the row as it is after a refresh, then the write.    *)
(***************************************************************************)
\* What a worker knew is gone with it.
Gone(at) == [at |-> at, stage |-> "prewrite", chapter |-> 1, verdict |-> "failed"]

Commits(p, r) ==
    /\ publisher[p].at = "idle"
    /\ row' = r
    /\ publisher' = [publisher EXCEPT ![p].at = "refresh"]

Pause(p) ==
    /\ Event /\ row.status \in {"queued", "running"}
    /\ Commits(p, [row EXCEPT !.status = "paused"])
    /\ UNCHANGED <<stored, live, worker, stream>>

\* Resume of a paused task, or retry of a failed one.
Resume(p) ==
    /\ Event /\ row.status \in {"paused", "failed"}
    /\ Commits(p, [row EXCEPT !.status = "queued"])
    /\ UNCHANGED <<stored, live, worker, stream>>

Cancel(p) ==
    /\ Event /\ row.status \notin Terminal
    /\ Commits(p, [row EXCEPT !.status = "cancelled"])
    /\ UNCHANGED <<stored, live, worker, stream>>

\* The dispatcher publishes before it sends the message that starts the worker.
Dispatch ==
    /\ row.status = "queued" /\ worker.at = "none"
    /\ row' = [row EXCEPT !.status = "running"]
    /\ \/ live' \in SnapshotsOf(row') /\ UNCHANGED events
       \/ Event /\ UNCHANGED live
    /\ worker' = [Gone("begin") EXCEPT !.stage = IF row.next > Chapters THEN "review" ELSE "prewrite",
                                       !.chapter = RowChapter(row)]
    /\ UNCHANGED <<stored, publisher, stream>>

\* Its lease ran out: the task is queued again.
Reclaim(p) ==
    /\ row.status = "running" /\ worker.at = "lost"
    /\ Commits(p, [row EXCEPT !.status = "queued"])
    /\ worker' = Gone("none")
    /\ UNCHANGED <<stored, live, stream, events>>

RefreshRow(p) ==
    /\ publisher[p].at = "refresh"
    /\ \E shot \in SnapshotsOf(row) : publisher' = [publisher EXCEPT ![p] = [at |-> "write", shot |-> shot]]
    /\ UNCHANGED <<stored, row, live, worker, stream, events>>

\* A write of Redis may be lost, silently.
WriteSnapshot(p) ==
    /\ publisher[p].at = "write"
    /\ \/ live' = publisher[p].shot /\ UNCHANGED events
       \/ Event /\ UNCHANGED live
    /\ publisher' = [publisher EXCEPT ![p] = Idle]
    /\ UNCHANGED <<stored, row, worker, stream>>

(***************************************************************************)
(* The worker: its first announcement, then a callback at every step.      *)
(***************************************************************************)
Goto(at) == worker' = [worker EXCEPT !.at = at]
Reaches(stage) == worker' = [worker EXCEPT !.stage = stage]

\* The activation and the callbacks ask for the row; what they find ends the work.
Stops ==
    worker' = [worker EXCEPT !.at = "stopping",
                             !.verdict = IF row.status \in Stop THEN row.status ELSE "failed"]

Begin ==
    /\ worker.at = "begin"
    /\ IF row.status = "running" THEN Goto("set") ELSE Stops
    /\ UNCHANGED <<stored, row, live, publisher, stream, events>>

\* A callback of progress: of a step of the planning, of a chapter or of the review.
Callback ==
    /\ worker.at = "work" /\ worker.stage \in {"prewrite", "write", "review"}
    /\ IF row.status \in Stop THEN Stops ELSE Goto("set")
    /\ UNCHANGED <<stored, row, live, publisher, stream, events>>

\* The planning is done.
Plan ==
    /\ worker.at = "work" /\ worker.stage = "prewrite"
    /\ Reaches("write")
    /\ UNCHANGED <<stored, row, live, publisher, stream, events>>

\* The transaction of node_finalize; no chapter is blocked here.
StoreChapter ==
    /\ worker.at = "work" /\ worker.stage = "write"
    /\ stored' = IF worker.chapter > stored THEN worker.chapter ELSE stored
    /\ Reaches("stored")
    /\ UNCHANGED <<row, live, publisher, stream, events>>

\* The callback of chapter_done, which writes the checkpoint first: a failure is
\* logged, and forgotten.
ChapterDone ==
    /\ worker.at = "work" /\ worker.stage = "stored"
    /\ IF row.status \in Stop
       THEN Stops /\ UNCHANGED <<row, events>>
       ELSE /\ worker' = [worker EXCEPT !.at = "set", !.stage = "done"]
            /\ \/ /\ row' = [row EXCEPT !.last = IF worker.chapter > @ THEN worker.chapter ELSE @]
                  /\ UNCHANGED events
               \/ Event /\ UNCHANGED row
    /\ UNCHANGED <<stored, live, publisher, stream>>

\* What a callback publishes: no chapter while the book is planned, save for the
\* first announcement.
Published == IF worker.stage = "prewrite" THEN {0, worker.chapter} ELSE {worker.chapter}

\* Mutant of SetStatus: only the end of a chapter is published.
SetStatusAtEnd ==
    /\ worker.at = "set"
    /\ live' = IF worker.stage = "done"
               THEN [status |-> "running", chapter |-> worker.chapter, done |-> TRUE]
               ELSE live
    /\ Goto("work")
    /\ UNCHANGED <<stored, row, publisher, stream, events>>

SetStatus ==
    /\ worker.at = "set"
    /\ \/ /\ \E c \in Published :
                live' = [status |-> "running", chapter |-> c, done |-> worker.stage = "done"]
          /\ UNCHANGED events
       \/ Event /\ UNCHANGED live
    /\ Goto("work")
    /\ UNCHANGED <<stored, row, publisher, stream>>

\* persist_resume_runtime_state, which may fail and is forgotten: after the callback
\* of the chapter, and only within its segment.
MoveCursor ==
    /\ worker.at = "work" /\ worker.stage = "done"
    /\ \/ /\ row' = IF worker.chapter < Chapters THEN [row EXCEPT !.next = worker.chapter + 1] ELSE row
          /\ UNCHANGED events
       \/ Event /\ UNCHANGED row
    /\ Reaches("moved")
    /\ UNCHANGED <<stored, live, publisher, stream>>

\* node_rollback_rerun: once for a chapter in the code, as often as events allow here.
Rerun ==
    /\ worker.at = "work" /\ worker.stage = "moved" /\ Event
    /\ Reaches("write")
    /\ UNCHANGED <<stored, row, live, publisher, stream>>

NextChapter ==
    /\ worker.at = "work" /\ worker.stage = "moved" /\ worker.chapter < Chapters
    /\ worker' = [worker EXCEPT !.stage = "write", !.chapter = @ + 1]
    /\ UNCHANGED <<stored, row, live, publisher, stream, events>>

\* The gate of the closure leaves the book for its review; if its write fails, the
\* book goes on where the row says.
Closure ==
    /\ worker.at = "work" /\ worker.stage = "moved" /\ worker.chapter = Chapters
    /\ \/ /\ row' = [row EXCEPT !.next = Chapters + 1]
          /\ Reaches("review") /\ UNCHANGED events
       \/ /\ Event /\ UNCHANGED row
          /\ worker' = [worker EXCEPT !.stage = IF row.next > Chapters THEN "review" ELSE "prewrite",
                                      !.chapter = RowChapter(row)]
    /\ UNCHANGED <<stored, live, publisher, stream>>

Crash ==
    /\ Event /\ worker.at \notin {"none", "lost"}
    /\ worker' = Gone("lost")
    /\ UNCHANGED <<stored, row, live, publisher, stream>>

\* The final block publishes its verdict before it is committed to the row,
\* which takes it only if it is running, and then syncs the novel's key.
Verdict == IF worker.at = "stopping" THEN {worker.verdict}
           ELSE IF worker.at = "work"
                THEN {"failed"} \cup (IF worker.stage = "review" THEN {"completed"} ELSE {})
                ELSE {}

\* Mutant of LastAnd: the chapter after the one the worker is at.
LastAndCurrent(v) ==
    IF v = "completed" THEN {Chapters}
    ELSE IF v \in {"failed", "paused"} THEN {0, worker.chapter + 1}
    ELSE {0}

\* The chapter that goes with it: the one after the last that has a checkpoint, if
\* there is one and it can be read.
LastAnd(v) ==
    IF v = "completed" THEN {Chapters}
    ELSE IF v \in {"failed", "paused"} /\ row.last # 0 THEN {0, row.last + 1}
    ELSE {0}

Announce ==
    /\ \E v \in Verdict :
          /\ worker' = Gone(v)
          /\ \/ /\ \E c \in LastAnd(v) : live' = [status |-> v, chapter |-> c, done |-> FALSE]
                /\ UNCHANGED events
             \/ Event /\ UNCHANGED live
    /\ UNCHANGED <<stored, row, publisher, stream>>

Finalize ==
    /\ worker.at \in NonLive
    /\ row' = IF row.status = "running" THEN [row EXCEPT !.status = worker.at] ELSE row
    /\ worker' = Gone("none")
    /\ UNCHANGED <<stored, live, publisher, stream, events>>

(***************************************************************************)
(* stream_generation_progress.                                             *)
(***************************************************************************)
ReadRow(s) ==
    /\ stream[s].at = "poll"
    /\ stream' = [stream EXCEPT ![s].at = "merge", ![s].row = row]
    /\ UNCHANGED <<stored, row, live, publisher, worker, events>>

\* read_generation_cache: if Redis does not answer or has nothing under the key, the
\* row is read again.  Of the row nothing is kept until the next poll (expire_all).
Emit(s) ==
    /\ stream[s].at = "merge"
    /\ \E l \in SnapshotsOf(row) \cup ({live} \ {Absent}) :
          LET e == Merged(stream[s].row, l) IN
          /\ stream' = [stream EXCEPT ![s] =
                          [at |-> IF e.status \in NonLive THEN "closed" ELSE "poll",
                           row |-> NewRow, run |-> e.run, chapter |-> e.chapter]]
          /\ IF l = live \/ live = Absent THEN UNCHANGED events ELSE Event
    /\ UNCHANGED <<stored, row, live, publisher, worker>>

Init ==
    /\ stored    = 0
    /\ row       = NewRow
    /\ live      = Absent
    /\ publisher = [p \in Publishers |-> Idle]
    /\ worker    = Gone("none")
    /\ stream    = [s \in Streams |-> [at |-> "poll", row |-> NewRow, run |-> "queued", chapter |-> 1]]
    /\ events    = 0

WorkerNext == Begin \/ Callback \/ Plan \/ StoreChapter \/ ChapterDone \/ SetStatus \/ MoveCursor
              \/ Rerun \/ NextChapter \/ Closure \/ Announce \/ Finalize

Next ==
    \/ \E p \in Publishers : \/ Pause(p) \/ Resume(p) \/ Cancel(p) \/ Reclaim(p)
                             \/ RefreshRow(p) \/ WriteSnapshot(p)
    \/ Dispatch \/ WorkerNext \/ Crash
    \/ \E s \in Streams : ReadRow(s) \/ Emit(s)

\* The ticks run, a request that has committed goes on, the worker works, and
\* the stream polls every half second, so that it sees a state that stays.
Fairness ==
    /\ WF_mirrorVars(Dispatch \/ WorkerNext)
    /\ \A p \in Publishers : WF_mirrorVars(Reclaim(p) \/ RefreshRow(p) \/ WriteSnapshot(p))
    /\ \A s \in Streams : WF_mirrorVars(ReadRow(s) \/ Emit(s))

Spec == Init /\ [][Next]_mirrorVars /\ Fairness

(***************************************************************************)
(* Properties.                                                             *)
(***************************************************************************)

\* The variables keep their types.
LiveStatus == {"queued", "running", "paused"} \cup Terminal

TypeOK ==
    /\ stored \in 0..Chapters
    /\ row \in [status : LiveStatus, next : 1..(Chapters + 1), last : 0..Chapters]
    /\ live \in [status : LiveStatus, chapter : 0..(Chapters + 1), done : BOOLEAN] \cup {Absent}
    /\ \A p \in Publishers : publisher[p].at \in {"idle", "refresh", "write"}
    /\ worker \in [at : {"none", "begin", "work", "set", "stopping", "lost"} \cup NonLive,
                   stage : {"prewrite", "write", "stored", "done", "moved", "review"},
                   chapter : Chapter, verdict : NonLive]
    /\ \A s \in Streams : stream[s].at \in {"poll", "merge", "closed"}
    /\ events \in 0..MaxEvents

\* A stream shows a chapter that has its text or the one that is written next, and
\* never none: whichever of the row and the key is newer, lost, or written late by a
\* request, and whichever of the writes after a chapter fail
\* (resolve_live_chapter_display, the final block of submit_book_generation_task).
ShowsReachedChapter == \A s \in Streams : stream[s].chapter \in 1..(stored + 1)

\* What a late request, a former worker or a lost write left under the key does
\* not last: a reader of a task that keeps running comes to see it run.
RunningIsShown ==
    \A s \in Streams :
        (row.status = "running")
            ~> (row.status # "running" \/ stream[s].at = "closed" \/ stream[s].run = "running")

=============================================================================
