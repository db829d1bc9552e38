------------------------- MODULE StoryboardVersions -------------------------
(***************************************************************************)
(* The versions of a storyboard project after their generation: the shots, *)
(* the character cards and their older copy (the character prompts), which *)
(* version is the default and which the final one, and the export jobs of  *)
(* the final version.                                                      *)
(*                                                                         *)
(* Content is a set of values that stand for "this text, and no other"; of *)
(* a card, for what its prompt says, too.                                  *)
(***************************************************************************)
EXTENDS Naturals, FiniteSets

CONSTANTS
  Versions,     \* ids of storyboard_versions rows of one project
  Made,         \* the sets of them that may have been made
  Legacy,       \* those drawn by run_storyboard_pipeline
  Exports,      \* storyboard_exports rows
  Content,      \* texts of shots, cards and prompts
  Finalizers,   \* finalize requests between their read and their commit
  Editors,      \* card updates between their reads and their commit
  MaxEvents     \* bound on the writes of content after the generation, and on faults

VARIABLES
  status,     \* storyboard_versions.status
  shots, cards, prompts,
  missing,    \* quality_report_json.missing_identity_fields_count > 0
  default, final,
  finalizer,  \* finalize requests: the version, and the flags it had loaded
  editor,     \* card updates: the new text, and what was loaded of card and prompt
  export,     \* storyboard_exports
  message,    \* messages of run_storyboard_export in the broker
  rendering,  \* executions past the checks, before their commit
  events

content == <<shots, cards, prompts>>
flags == <<default, final, finalizer>>
jobs == <<export, message, rendering>>
vars == <<status, shots, cards, prompts, missing, default, final, finalizer, editor,
          export, message, rendering, events>>

Text == Content \cup {"none"}
Table == {"card", "prompt"}
NoEdit == [version |-> "none"]
CardEdit == [version: Versions, text: Content, card: Content,
             prompt: Text \cup {"unread"}, replaced: SUBSET Table]
NoRequest == [version |-> "none", final |-> {}, default |-> FALSE]
ExportStatus == {"absent", "uncommitted", "queued", "running", "completed", "failed"}

TypeOK ==
  /\ status \in [Versions -> {"absent", "generating", "completed", "failed"}]
  /\ shots \in [Versions -> Text]
  /\ cards \in [Versions -> Text]
  /\ prompts \in [Versions -> Text]
  /\ missing \in [Versions -> BOOLEAN]
  /\ default \subseteq Versions
  /\ final \subseteq Versions
  /\ finalizer \in [Finalizers -> [version: Versions \cup {"none"},
                                  final: SUBSET Versions, default: BOOLEAN]]
  /\ editor \in [Editors -> CardEdit \cup {NoEdit}]
  /\ export \in [Exports -> [status: ExportStatus, version: Versions \cup {"none"}]]
  /\ message \in [Exports -> 0..MaxEvents + 1]
  /\ rendering \in [Exports -> 0..MaxEvents + 1]
  /\ events \in 0..MaxEvents

Init ==
  /\ \E made \in Made :
       status = [v \in Versions |-> IF v \in made THEN "generating" ELSE "absent"]
  /\ shots = [v \in Versions |-> "none"]
  /\ cards = [v \in Versions |-> "none"]
  /\ prompts = [v \in Versions |-> "none"]
  /\ missing = [v \in Versions |-> FALSE]
  /\ default = {}
  /\ final = {}
  /\ finalizer = [q \in Finalizers |-> NoRequest]
  /\ editor = [d \in Editors |-> NoEdit]
  /\ export = [e \in Exports |-> [status |-> "absent", version |-> "none"]]
  /\ message = [e \in Exports |-> 0]
  /\ rendering = [e \in Exports |-> 0]
  /\ events = 0

Event == events < MaxEvents /\ events' = events + 1

-----------------------------------------------------------------------------
(* Generation.                                                             *)

\* The rows of v in these tables are deleted, and others take their place: an
\* update that had loaded them will not find them.
Replaces(v, tables) ==
  editor' = [d \in Editors |->
    IF editor[d] = NoEdit \/ editor[d].version # v THEN editor[d]
    ELSE [editor[d] EXCEPT !.replaced =
            @ \cup {x \in tables : x = "prompt" => editor[d].prompt # "unread"}]]

\* Mutant of PersistCards: only the new table is written.
PersistNewCards(v, c) ==
  /\ cards' = [cards EXCEPT ![v] = c]
  /\ UNCHANGED prompts
  /\ Replaces(v, {"card"})

\* persist_character_cards replaces both tables.
PersistCards(v, c) ==
  /\ cards' = [cards EXCEPT ![v] = c]
  /\ prompts' = [prompts EXCEPT ![v] = c]
  /\ Replaces(v, Table)

\* A lane is drawn once, and again by a process that was redelivered, superseded
\* or resumed.  A session that ends the version does not write a status, or a
\* report, that is the one it had loaded.
Again(v) == IF status[v] = "generating" THEN UNCHANGED events ELSE Event
EndsAs(v, s, m) ==
  /\ status' \in {[status EXCEPT ![v] = s]} \cup IF status[v] = "generating" THEN {} ELSE {status}
  /\ missing' \in {[missing EXCEPT ![v] = m]} \cup IF status[v] = "generating" THEN {} ELSE {missing}

\* run_storyboard_lane: shots, cards, prompts and status in one commit.
DrawLane(v) ==
  \E s \in Content, c \in Text :
    /\ v \notin Legacy /\ Again(v)
    /\ shots' = [shots EXCEPT ![v] = s]
    /\ PersistCards(v, c)
    /\ EndsAs(v, "completed", FALSE)
    /\ UNCHANGED <<flags, jobs>>

\* A gate closes on the version.  That for the style keeps the report of a lane's
\* version; that for the identities writes it, and comes when the pipeline has
\* composed new prompts, as far as the profiles are complete.
GateFails(v) ==
  /\ Again(v)
  /\ \E s \in Content : shots' = [shots EXCEPT ![v] = s]
  /\ \/ /\ EndsAs(v, "failed", v \notin Legacy /\ missing[v])
        /\ UNCHANGED <<prompts, editor>>
     \/ /\ EndsAs(v, "failed", TRUE)
        /\ \/ UNCHANGED <<prompts, editor>>
           \/ /\ v \in Legacy
              /\ \E c \in Text : prompts' = [prompts EXCEPT ![v] = c]
              /\ Replaces(v, {"prompt"})
  /\ UNCHANGED <<cards, flags, jobs>>

\* run_storyboard_pipeline composes prompts and no cards.  A task that is
\* resumed goes over the versions it had completed, too, final or not.
DrawLegacy(v) ==
  \E s \in Content, c \in Content :
    /\ v \in Legacy /\ Event
    /\ shots' = [shots EXCEPT ![v] = s]
    /\ prompts' = [prompts EXCEPT ![v] = c]
    /\ Replaces(v, {"prompt"})
    /\ EndsAs(v, "completed", FALSE)
    /\ UNCHANGED <<cards, flags, jobs>>

\* The end of a run (refresh_run_status) or of the pipeline.
SetDefaultVersion(v) ==
  /\ status[v] = "completed"
  /\ default' = {v}
  /\ UNCHANGED <<status, content, missing, final, finalizer, editor, jobs, events>>

-----------------------------------------------------------------------------
(* Editing.                                                                *)

\* GET of the cards of a version that has prompts only.
BackfillCards(v) ==
  /\ cards[v] = "none" /\ prompts[v] # "none"
  /\ PersistCards(v, prompts[v])
  /\ UNCHANGED <<status, shots, missing, flags, jobs, events>>

Editable(v) == v \notin final

\* One card, and the prompt of the same character if there is one.
UpdateCard(v) ==
  \E c \in Content :
    /\ Editable(v) /\ cards[v] # "none"
    /\ cards' = [cards EXCEPT ![v] = c]
    /\ prompts' = [prompts EXCEPT ![v] = IF prompts[v] = "none" THEN "none" ELSE c]
    /\ Event
    /\ UNCHANGED <<status, shots, missing, flags, editor, jobs>>

\* The same while others commit: the card is loaded, then the prompt, and only
\* the columns that differ from what was loaded are written.  An update of a row
\* that was deleted meanwhile fails, and with it the whole transaction.
ReadCard(d, v) ==
  \E c \in Content :
    /\ editor[d] = NoEdit
    /\ Editable(v) /\ cards[v] # "none"
    /\ editor' = [editor EXCEPT ![d] = [version |-> v, text |-> c, card |-> cards[v],
                                        prompt |-> "unread", replaced |-> {}]]
    /\ Event
    /\ UNCHANGED <<status, content, missing, flags, jobs>>

ReadPrompt(d) ==
  /\ editor[d] # NoEdit /\ editor[d].prompt = "unread"
  /\ editor' = [editor EXCEPT ![d].prompt = prompts[editor[d].version]]
  /\ UNCHANGED <<status, content, missing, flags, jobs, events>>

Changed(e) == {x \in Table : e[x] \notin {e.text, "none"}}

CommitCard(d) ==
  LET e == editor[d]
      changes(x) == x \in Changed(e) /\ Changed(e) \cap e.replaced = {} IN
  /\ e # NoEdit /\ e.prompt # "unread"
  /\ cards' = IF changes("card") THEN [cards EXCEPT ![e.version] = e.text] ELSE cards
  /\ prompts' = IF changes("prompt") THEN [prompts EXCEPT ![e.version] = e.text] ELSE prompts
  /\ editor' = [editor EXCEPT ![d] = NoEdit]
  /\ UNCHANGED <<status, shots, missing, flags, jobs, events>>

\* characters/generate asks nothing of the version but that it exists.  The
\* prompts of the complete profiles take the place of the old ones; without any
\* profile the prompts stay.  The version is marked if one is incomplete.
RegenerateCharacters(v) ==
  /\ \/ \E c \in Text, m \in BOOLEAN :
          /\ PersistCards(v, c)
          /\ c = "none" => m
          /\ missing' = [missing EXCEPT ![v] = m]
     \/ PersistCards(v, prompts[v]) /\ missing' = [missing EXCEPT ![v] = TRUE]
  /\ Event
  /\ UNCHANGED <<status, shots, flags, jobs>>

\* Both routes that update a shot, and the one that optimizes all of them.
WriteShots(v) ==
  /\ Editable(v) /\ shots[v] # "none"
  /\ \E s \in Content : shots' = [shots EXCEPT ![v] = s]
  /\ Event
  /\ UNCHANGED <<status, cards, prompts, missing, flags, editor, jobs>>

-----------------------------------------------------------------------------
(* The default and the final version.                                      *)

ActivateVersion(v) ==
  /\ default' = {v}
  /\ UNCHANGED <<status, content, missing, final, finalizer, editor, jobs, events>>

MayFinalize(v) ==
  /\ status[v] = "completed"
  /\ cards[v] # "none" \/ prompts[v] # "none"
  /\ ~missing[v]

\* Only the flags that differ from the loaded ones are written: the versions that
\* were final lose the flag.  The default flags of the others stay.
Finalized(v, was) ==
  /\ final' = (final \ (was.final \ {v})) \cup ({v} \ was.final)
  /\ default' = IF was.default THEN default ELSE default \cup {v}
  /\ UNCHANGED <<status, content, missing, editor, jobs, events>>

Flags(v) == [version |-> v, final |-> final, default |-> v \in default]

FinalizeVersion(v) == MayFinalize(v) /\ Finalized(v, Flags(v)) /\ UNCHANGED finalizer

\* Two requests at once: each writes over what it read before the other's commit.
ReadFinalize(q, v) ==
  /\ finalizer[q] = NoRequest
  /\ MayFinalize(v)
  /\ finalizer' = [finalizer EXCEPT ![q] = Flags(v)]
  /\ UNCHANGED <<status, content, missing, default, final, editor, jobs, events>>

CommitFinalize(q) ==
  /\ finalizer[q] # NoRequest
  /\ Finalized(finalizer[q].version, finalizer[q])
  /\ finalizer' = [finalizer EXCEPT ![q] = NoRequest]

-----------------------------------------------------------------------------
(* Exports.                                                                *)

SetExport(e, s) == export' = [export EXCEPT ![e].status = s]
Unchanged == UNCHANGED <<status, content, missing, flags, editor>>

\* The message is sent before the commit of the row it names.
CreateExport(e) ==
  \E v \in final :
    /\ export[e].status = "absent"
    /\ ~missing[v]
    /\ export' = [export EXCEPT ![e] = [status |-> "uncommitted", version |-> v]]
    /\ message' = [message EXCEPT ![e] = 1]
    /\ Unchanged /\ UNCHANGED <<rendering, events>>

CommitExport(e) ==
  /\ export[e].status = "uncommitted"
  /\ SetExport(e, "queued")
  /\ Unchanged /\ UNCHANGED <<message, rendering, events>>

Taken(e) == message[e] > 0 /\ message' = [message EXCEPT ![e] = @ - 1]

\* The row is not there yet, or it is completed: the execution returns.
ExportReturns(e) ==
  /\ export[e].status \in {"uncommitted", "running", "completed"}
  /\ Taken(e)
  /\ Unchanged /\ UNCHANGED <<export, rendering, events>>

\* Mutant of ExportStarts: the row is committed as running before it is rendered.
ExportStartsCommitted(e) ==
  /\ export[e].status \in {"queued", "failed"}
  /\ Taken(e)
  /\ SetExport(e, "running")
  /\ rendering' = [rendering EXCEPT ![e] = @ + 1]
  /\ Unchanged /\ UNCHANGED events

\* "running" is flushed and committed only with the result, so that another
\* execution of the message never sees it.  A failed export starts again.
ExportStarts(e) ==
  /\ export[e].status \in {"queued", "failed"}
  /\ Taken(e)
  /\ IF export[e].version \in final
     THEN rendering' = [rendering EXCEPT ![e] = @ + 1] /\ UNCHANGED export
     ELSE SetExport(e, "failed") /\ UNCHANGED rendering
  /\ Unchanged /\ UNCHANGED events

Leaves(e) == rendering[e] > 0 /\ rendering' = [rendering EXCEPT ![e] = @ - 1]

ExportEnds(e) ==
  /\ Leaves(e)
  /\ SetExport(e, "completed") \/ SetExport(e, "failed")
  /\ Unchanged /\ UNCHANGED <<message, events>>

Redelivered(e) == message' = [message EXCEPT ![e] = @ + 1]

\* Acknowledged late: the message of a process that dies comes back, and that of
\* one slower than the visibility timeout.
ExportCrash(e) ==
  /\ Leaves(e) /\ Redelivered(e) /\ Event
  /\ Unchanged /\ UNCHANGED export

ExportRedelivered(e) ==
  /\ rendering[e] > 0 /\ Redelivered(e) /\ Event
  /\ Unchanged /\ UNCHANGED <<export, rendering>>

-----------------------------------------------------------------------------
VersionNext ==
  \E v \in {x \in Versions : status[x] # "absent"} :
    \/ DrawLane(v) \/ GateFails(v) \/ DrawLegacy(v) \/ SetDefaultVersion(v)
    \/ BackfillCards(v) \/ UpdateCard(v) \/ RegenerateCharacters(v) \/ WriteShots(v)
    \/ ActivateVersion(v) \/ FinalizeVersion(v)
    \/ \E q \in Finalizers : ReadFinalize(q, v)
    \/ \E d \in Editors : ReadCard(d, v)

ExportNext ==
  \E e \in Exports :
    \/ CreateExport(e) \/ CommitExport(e) \/ ExportReturns(e)
    \/ ExportStarts(e) \/ ExportEnds(e) \/ ExportCrash(e) \/ ExportRedelivered(e)

CommitNext ==
  \/ \E q \in Finalizers : CommitFinalize(q)
  \/ \E d \in Editors : ReadPrompt(d) \/ CommitCard(d)

Next == VersionNext \/ CommitNext \/ ExportNext

Spec == Init /\ [][Next]_vars

\* Steps of the API commit and those of the export worker end.
Fairness ==
  \A e \in Exports : /\ WF_vars(CommitExport(e))
                     /\ WF_vars(ExportReturns(e) \/ ExportStarts(e))
                     /\ WF_vars(ExportEnds(e))

FairSpec == Spec /\ Fairness

-----------------------------------------------------------------------------
\* The cards of a lane's version and their older copy go on saying the same:
\* exports read one table or the other.  Whoever draws, draws again, replaces or
\* edits (persist_character_cards, update_storyboard_character_card), only an
\* update that had loaded the card and the prompt in different states, with the
\* commit of another in between, parts them.
CardsStayMatched ==
  [][\A v \in Versions \ Legacy :
       cards[v] = prompts[v] =>
         \/ cards'[v] = prompts'[v]
         \/ \E d \in Editors : /\ CommitCard(d) /\ editor[d].version = v
                               /\ editor[d].card # editor[d].prompt]_vars

\* An export whose message was not taken before the commit of its row is rendered
\* or fails, whatever crashes and whatever is delivered again
\* (run_storyboard_export).
ExportSettles ==
  \A e \in Exports : (export[e].status = "queued" /\ message[e] > 0)
                       ~> export[e].status \in {"completed", "failed"}
=============================================================================
