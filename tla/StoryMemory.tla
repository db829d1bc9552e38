----------------------------- MODULE StoryMemory -----------------------------
(***************************************************************************)
(* What the book remembers of its chapters, and what the writer of a       *)
(* chapter is shown of it.  A chapter is committed with its summary, its   *)
(* entries in the story bible, its progression memory, its report, and the *)
(* foreshadowing it plants or pays off; load_context reads them back for   *)
(* the chapters that follow.  ChapterDraft has the loops of the graph      *)
(* around it: here a draft is one step.                                    *)
(*                                                                         *)
(* A text is a number, and what is remembered of it is that number.        *)
(***************************************************************************)
EXTENDS Naturals

CONSTANTS
  Chapters,     \* the segment is 1..Chapters
  Plant,        \* the chapter whose outline plants the foreshadowing
  Payoff,       \* the one whose outline pays it off
  MaxTexts,     \* bound on drafts
  MaxEvents     \* bound on crashes and on writes of the cursor that fail

VARIABLES
  stored,       \* chapter_versions.content: 0 for none and for a blocked chapter
  summary,      \* chapter_summaries: at most one row for a chapter
  told,         \* story_events and story_facts: rows <<chapter, text>>
  reported,     \* quality_reports of chapters: rows <<chapter, text>>
  advanced,     \* novel_memory chapter_advancement and chapter_transition
  thread,       \* the row of story_foreshadows: planted by an outline or, by its
                \* evidence, found in a text; or resolved
  counted,      \* what the report of the volume counts
  basis,        \* of each chapter, the ending its writer was shown
  work,         \* the execution of the graph
  cursor,       \* next_chapter of the runtime state
  texts, events

memory == <<stored, summary, told, reported, advanced, thread, counted, basis>>
vars == <<memory, work, cursor, texts, events>>

Chapter == 1..Chapters
NoThread == [state |-> "none", planted |-> 0]
NothingFound == [promoted |-> FALSE, plants |-> FALSE, resolves |-> FALSE]
NothingShown == [ending |-> 0, recalled |-> {}, open |-> FALSE]
Idle == [at |-> "off", chapter |-> 1, text |-> 0, shown |-> NothingShown, found |-> NothingFound,
         rerun |-> FALSE, tail |-> FALSE]

TypeOK ==
  /\ {stored, summary, advanced, basis} \subseteq [Chapter -> 0..MaxTexts]
  /\ {told, reported} \subseteq SUBSET (Chapter \X (1..MaxTexts))
  /\ thread \in [state: {"none", "planted", "found", "resolved"}, planted: 0..Chapters]
  /\ counted \subseteq 1..MaxTexts
  /\ work \in [at: {"off", "load", "write", "extract", "commit", "committed", "done", "closure", "end"},
               chapter: 1..(Chapters + 1), text: 0..MaxTexts,
               shown: [ending: 0..MaxTexts, recalled: SUBSET (1..MaxTexts), open: BOOLEAN],
               found: [promoted: BOOLEAN, plants: BOOLEAN, resolves: BOOLEAN], rerun: BOOLEAN, tail: BOOLEAN]
  /\ cursor \in Chapter /\ texts \in 0..MaxTexts /\ events \in 0..MaxEvents

Init ==
  /\ stored = [c \in Chapter |-> 0]
  /\ summary = stored /\ advanced = stored /\ basis = stored
  /\ told = {} /\ reported = {} /\ counted = {}
  /\ thread = NoThread
  /\ work = Idle
  /\ cursor = 1 /\ texts = 0 /\ events = 0

Now == work.chapter
Event == events < MaxEvents /\ events' = events + 1

\* delete_memories_from_chapter, of both types.
Forgotten(from) == [c \in Chapter |-> IF c >= from THEN 0 ELSE advanced[c]]

-----------------------------------------------------------------------------
(* The context of a chapter.                                               *)

\* _get_last_chapter_ending: a blocked chapter has none.
Ending(c) == IF c = 1 THEN 0 ELSE stored[c - 1]

\* get_summaries_before, without the limits that only make the window smaller.
SummariesBefore(c) == {summary[x] : x \in 1..(c - 1)}

\* The facts and events of _build_story_bible_context: of replaced texts, too.
ToldBefore(c) == {row[2] : row \in {r \in told : r[1] < c}}

\* list_recent_advancements and get_previous_transition
AdvancedBefore(c) == {advanced[x] : x \in 1..(c - 1)}

\* unresolved_foreshadows of get_chapter_constraints
ThreadIsOpen(c) == thread.state \in {"planted", "found"} /\ thread.planted < c

\* build_chapter_context
Shown(c) ==
  [ending   |-> Ending(c),
   recalled |-> (SummariesBefore(c) \cup ToldBefore(c) \cup AdvancedBefore(c)) \ {0},
   open     |-> ThreadIsOpen(c)]

\* The rollback of the progression memory before an execution, which begins at
\* the cursor.
Start ==
  /\ work.at = "off"
  /\ advanced' = Forgotten(cursor)
  /\ work' = [Idle EXCEPT !.at = "load", !.chapter = cursor]
  /\ UNCHANGED <<stored, summary, told, reported, thread, counted, basis, cursor, texts, events>>

\* node_load_context
LoadContext ==
  /\ work.at = "load"
  /\ work' = [work EXCEPT !.at = "write", !.rerun = FALSE, !.shown = Shown(Now)]
  /\ UNCHANGED <<memory, cursor, texts, events>>

-----------------------------------------------------------------------------
(* The writing of a chapter.                                               *)

\* From node_writer to the finalizer's text.
WriteDraft ==
  /\ work.at = "write" /\ texts < MaxTexts
  /\ texts' = texts + 1
  /\ work' = [work EXCEPT !.at = "extract", !.text = texts + 1]
  /\ UNCHANGED <<memory, cursor, events>>

\* node_rollback_rerun: once for each chapter, instead of the finalizer or after the
\* whole of it; the context is not loaded again.
Rerun ==
  /\ work.at \in {"extract", "done"} /\ ~work.rerun
  /\ advanced' = Forgotten(Now)
  /\ work' = [work EXCEPT !.at = "write", !.rerun = TRUE]
  /\ UNCHANGED <<stored, summary, told, reported, thread, counted, basis, cursor, texts, events>>

\* The five extractions that node_finalize asks of models before its transaction.
\* One that fails finds nothing; the progression memory is kept if it is promoted.
Extract ==
  /\ work.at = "extract"
  /\ \E promoted, plants, resolves \in BOOLEAN :
       work' = [work EXCEPT !.at = "commit",
                            !.found = [promoted |-> promoted, plants |-> plants, resolves |-> resolves]]
  /\ UNCHANGED <<memory, cursor, texts, events>>

\* Mutant of Onward: a chapter that has a text is not written again.
OnwardSkipping ==
  [work EXCEPT !.at = IF Now = Chapters \/ stored[Now + 1] # 0 THEN "closure" ELSE "load",
               !.chapter = @ + 1, !.text = 0, !.shown = NothingShown]

\* After the last chapter, the gate of the closure.
Onward == [work EXCEPT !.at = IF Now = Chapters THEN "closure" ELSE "load",
                       !.chapter = @ + 1, !.text = 0, !.shown = NothingShown]

\* node_save_blocked, instead of a draft: the summary of an earlier text stays, and
\* so do the report of the volume and the cursor.
Blocked ==
  /\ work.at = "write" /\ ~work.rerun
  /\ stored' = [stored EXCEPT ![Now] = 0]
  /\ work' = Onward
  /\ UNCHANGED <<summary, told, reported, advanced, thread, counted, basis, cursor, texts, events>>

-----------------------------------------------------------------------------
(* The commit of a chapter.                                                *)

\* upsert_foreshadow, for what the outline plants and then for what it pays off: a
\* row keeps its planted_chapter, and a payoff without a row makes one.
ThreadAfter(c) ==
  LET first == IF thread.planted # 0 THEN thread.planted
               ELSE IF c = Plant \/ c = 1 THEN c ELSE c - 1
  IN  IF c = Payoff THEN [state |-> "resolved", planted |-> first]
      ELSE IF c = Plant THEN [state |-> "planted", planted |-> first]
      ELSE thread

\* upsert_foreshadow, for what the extraction found planted in chapter c: the state
\* of the row is overwritten, also if it was resolved.
ThreadFound(c, row) ==
  IF work.found.plants
  THEN [state |-> "found", planted |-> IF row.planted = 0 THEN c ELSE row.planted]
  ELSE row

\* resolve_foreshadow, for what the extraction found: a row that is there.
ThreadResolved(row) ==
  IF work.found.resolves /\ row.state # "none" THEN [row EXCEPT !.state = "resolved"] ELSE row

\* add_summary: the row of the chapter is replaced.
SummaryAdded(c, t) == summary' = [summary EXCEPT ![c] = t]

\* add_event, add_fact: another row, whatever rows there are.
RowAdded(c, t) == told' = told \cup {<<c, t>>}

\* What was found in the text, and what its outline plants and pays off; what the
\* extraction found planted, and then what it found resolved, follow in the same
\* transaction.
StoryBibleHandler(c, t) ==
  /\ RowAdded(c, t)
  /\ thread' = ThreadResolved(ThreadFound(c, ThreadAfter(c)))

\* _upsert_memory: the row of the chapter is replaced, or made.
Upserted(c, t) == [advanced EXCEPT ![c] = t]

\* If nothing of the text is promoted, the entry of an earlier text that was not
\* rolled back stays.
ProgressionHandler(c, t) ==
  advanced' = IF work.found.promoted THEN Upserted(c, t) ELSE advanced

QualityReportHandler(c, t) == reported' = reported \cup {<<c, t>>}

\* At the end of the volume, the chapter reports it has by then.
VolumeReport(c) == counted' = IF c = Chapters THEN {row[2] : row \in reported'} ELSE counted

\* Mutant of LongformArtifacts: the handler of the story bible is not required.
LongformArtifactsOptional(c, t) ==
  /\ StoryBibleHandler(c, t) \/ UNCHANGED <<told, thread>>
  /\ ProgressionHandler(c, t)
  /\ QualityReportHandler(c, t)
  /\ VolumeReport(c)

\* The handlers of chapter.finalized: all are required.
LongformArtifacts(c, t) ==
  /\ StoryBibleHandler(c, t)
  /\ ProgressionHandler(c, t)
  /\ QualityReportHandler(c, t)
  /\ VolumeReport(c)

\* The transaction of node_finalize.
Commit ==
  /\ work.at = "commit"
  /\ stored' = [stored EXCEPT ![Now] = work.text]
  /\ SummaryAdded(Now, work.text)
  /\ LongformArtifacts(Now, work.text)
  /\ basis' = [basis EXCEPT ![Now] = work.shown.ending]
  /\ work' = [work EXCEPT !.at = "committed", !.found = NothingFound]
  /\ UNCHANGED <<cursor, texts, events>>

\* The rest of node_finalize: the runtime state gets the next chapter of the segment,
\* or its write fails and is forgotten.
MoveCursor ==
  /\ work.at = "committed"
  /\ \/ cursor' = (IF Now < Chapters THEN Now + 1 ELSE cursor) /\ UNCHANGED events
     \/ Event /\ UNCHANGED cursor
  /\ work' = [work EXCEPT !.at = "done"]
  /\ UNCHANGED <<memory, texts>>

\* node_advance_chapter
ChapterDone ==
  /\ work.at = "done"
  /\ work' = Onward
  /\ UNCHANGED <<memory, cursor, texts, events>>

\* node_tail_rewrite: two chapters back, once.
TailRewrite ==
  LET rewind == IF Chapters > 2 THEN Chapters - 1 ELSE 1 IN
  /\ work.at = "closure" /\ ~work.tail
  /\ \/ cursor' = rewind /\ UNCHANGED events
     \/ Event /\ UNCHANGED cursor
  /\ advanced' = Forgotten(rewind)
  /\ work' = [work EXCEPT !.at = "load", !.chapter = rewind, !.tail = TRUE]
  /\ UNCHANGED <<stored, summary, told, reported, thread, counted, basis, texts>>

SegmentEnds ==
  /\ work.at = "closure"
  /\ work' = [Idle EXCEPT !.at = "end"]
  /\ UNCHANGED <<memory, cursor, texts, events>>

\* The process is lost, or a handler of the transaction raises: nothing of the
\* chapter in hand is kept, and a recovery starts again at the cursor.
Crash ==
  /\ work.at \notin {"off", "end"} /\ Event
  /\ work' = Idle
  /\ UNCHANGED <<memory, cursor, texts>>

Next ==
  \/ Start \/ LoadContext \/ WriteDraft \/ Rerun \/ Blocked \/ Extract \/ Commit \/ MoveCursor
  \/ ChapterDone \/ TailRewrite \/ SegmentEnds \/ Crash

Spec == Init /\ [][Next]_vars

-----------------------------------------------------------------------------
(* Properties.                                                             *)

\* A chapter that has a text has the summary, the report and the entries of that very text,
\* and no progression memory of another; and whatever a writer is shown or the
\* tables hold of a text, that text was committed in the chapter it is told of
\* (node_finalize, chapter_commit.py, rollback_progression_range).
CommittedTogether ==
  /\ \A c \in Chapter :
       /\ stored[c] # 0 => /\ summary[c] = stored[c]
                           /\ <<c, stored[c]>> \in told \cap reported
                           /\ advanced[c] \in {0, stored[c]}
       /\ {summary[c], advanced[c]} \ {0} \subseteq {row[2] : row \in {r \in told : r[1] = c}}
  /\ work.shown.recalled \subseteq ToldBefore(Now)

\* A segment that is over hangs together, whatever was rerun, rewritten or written
\* again after a crash: each chapter was written after the ending its predecessor
\* has now, what a chapter pays off is not left open by the outline that planted it
\* (only a text in which it is found planted again opens it), and the report of the
\* volume counts every text that stayed (load_context, tail_rewrite, chapter_commit.py).
SegmentHangsTogether ==
  work.at = "end" =>
    /\ \A c \in Chapter : stored[c] # 0 => basis[c] = Ending(c)
    /\ stored[Payoff] # 0 => thread.state # "planted"
    /\ stored[Chapters] # 0 => {stored[c] : c \in Chapter} \ {0} \subseteq counted
=============================================================================
