---------------------- MODULE StoryboardVersionsProofs ----------------------
(* Theorems about StoryboardVersions: any number of versions, of exports,  *)
(* of finalize requests and of card updates at once, any contents and      *)
(* faults.                                                                 *)
EXTENDS StoryboardVersions, TLAPS

(***************************************************************************)
(* The inductive invariant.  A finalize request that was read is about a   *)
(* version.  An export has at most one message or execution, and one more  *)
(* for every fault; before it is made it has none.                         *)
(***************************************************************************)
RequestsName == \A q \in Finalizers : finalizer[q] # NoRequest => finalizer[q].version \in Versions

Copies(e) == message[e] + rendering[e]

CopiesAreCounted ==
  \A e \in Exports : /\ Copies(e) <= 1 + events
                     /\ export[e].status = "absent" => Copies(e) = 0

Bounded == MaxEvents \in Nat

VersionInv == Bounded /\ TypeOK /\ RequestsName /\ CopiesAreCounted

Request == [version: Versions \cup {"none"}, final: SUBSET Versions, default: BOOLEAN]
ExportRow == [status: ExportStatus, version: Versions \cup {"none"}]

\* TypeOK in four parts: content and its checks, the updates of cards, the two
\* flags and who writes them, the exports.
ContentTyped ==
  /\ status \in [Versions -> {"absent", "generating", "completed", "failed"}]
  /\ shots \in [Versions -> Text]
  /\ cards \in [Versions -> Text]
  /\ prompts \in [Versions -> Text]
  /\ missing \in [Versions -> BOOLEAN]

EditsTyped == editor \in [Editors -> CardEdit \cup {NoEdit}]

FlagsTyped ==
  /\ default \subseteq Versions
  /\ final \subseteq Versions
  /\ finalizer \in [Finalizers -> Request]

JobsTyped ==
  /\ Bounded
  /\ export \in [Exports -> ExportRow]
  /\ message \in [Exports -> Nat]
  /\ rendering \in [Exports -> Nat]
  /\ events \in 0..MaxEvents

FlagsInv == FlagsTyped /\ RequestsName
JobsInv == JobsTyped /\ CopiesAreCounted

LEMMA InParts ==
  /\ VersionInv <=> ContentTyped /\ EditsTyped /\ FlagsInv /\ JobsInv
  /\ VersionInv' <=> ContentTyped' /\ EditsTyped' /\ FlagsInv' /\ JobsInv'
<1>1. ASSUME Bounded, NEW m, NEW n, NEW k \in 0..MaxEvents
      PROVE  /\ m \in [Exports -> 0..MaxEvents + 1] => m \in [Exports -> Nat]
             /\ m \in [Exports -> Nat] /\ n \in [Exports -> Nat] /\ (\A e \in Exports : m[e] + n[e] <= 1 + k)
                  => m \in [Exports -> 0..MaxEvents + 1] /\ n \in [Exports -> 0..MaxEvents + 1]
  BY <1>1 DEF Bounded
<1> USE DEF VersionInv, TypeOK, ContentTyped, EditsTyped, FlagsInv, JobsInv, FlagsTyped, JobsTyped,
            CopiesAreCounted, Copies, Request, ExportRow
<1>2. VersionInv <=> ContentTyped /\ EditsTyped /\ FlagsInv /\ JobsInv
  BY <1>1
<1>3. VersionInv' <=> ContentTyped' /\ EditsTyped' /\ FlagsInv' /\ JobsInv'
  BY <1>1 DEF Bounded
<1> QED BY <1>2, <1>3

-----------------------------------------------------------------------------
(* The parts are kept.                                                     *)

LEMMA FirstVersions == Bounded /\ Init => VersionInv
<1> SUFFICES ASSUME Bounded, Init PROVE ContentTyped /\ EditsTyped /\ FlagsInv /\ JobsInv
  BY InParts
<1>1. ContentTyped
  BY DEF Init, ContentTyped, Text
<1>2. EditsTyped
  BY DEF Init, EditsTyped
<1>3. FlagsInv
  BY DEF Init, FlagsInv, FlagsTyped, RequestsName, NoRequest, Request
<1>4. JobsInv
  BY DEF Bounded, Init, JobsInv, JobsTyped, CopiesAreCounted, Copies, ExportRow, ExportStatus
<1> QED BY <1>1, <1>2, <1>3, <1>4

LEMMA ContentStays ==
  ASSUME ContentTyped, UNCHANGED <<status, content, missing>>
  PROVE  ContentTyped'
  BY DEF ContentTyped, content

LEMMA EditsStay ==
  ASSUME EditsTyped, UNCHANGED editor
  PROVE  EditsTyped'
  BY DEF EditsTyped

LEMMA FlagsStay ==
  ASSUME FlagsInv, UNCHANGED flags
  PROVE  FlagsInv'
  BY DEF FlagsInv, FlagsTyped, RequestsName, flags

\* One more event, if any, leaves the counts what they were.
LEMMA JobsStay ==
  ASSUME JobsInv, UNCHANGED jobs, Event \/ UNCHANGED events
  PROVE  JobsInv'
  BY DEF Bounded, JobsInv, JobsTyped, CopiesAreCounted, Copies, jobs, Event

\* What takes the place of the rows of a version marks the updates that had
\* loaded them.
LEMMA ReplacesKeeps ==
  ASSUME EditsTyped, NEW v \in Versions, NEW tables \in SUBSET Table, Replaces(v, tables)
  PROVE  EditsTyped'
<1>1. ASSUME NEW d \in Editors, editor[d] # NoEdit, NEW gone \in SUBSET Table
      PROVE  [editor[d] EXCEPT !.replaced = @ \cup gone] \in CardEdit
  <2>1. editor[d] \in CardEdit
    BY <1>1 DEF EditsTyped
  <2> QED BY <2>1 DEF CardEdit
<1>2. \A d \in Editors : {x \in tables : x = "prompt" => editor[d].prompt # "unread"} \in SUBSET Table
  OBVIOUS
<1> QED BY <1>1, <1>2 DEF Replaces, EditsTyped

LEMMA PersistKeeps ==
  ASSUME ContentTyped, EditsTyped, NEW v \in Versions, NEW c \in Text, PersistCards(v, c)
  PROVE  /\ EditsTyped'
         /\ cards' \in [Versions -> Text] /\ prompts' \in [Versions -> Text]
<1>1. Table \in SUBSET Table
  OBVIOUS
<1> QED BY <1>1, ReplacesKeeps DEF PersistCards, ContentTyped

LEMMA EndsTyped ==
  ASSUME ContentTyped, NEW v \in Versions, NEW s \in {"completed", "failed"}, NEW m \in BOOLEAN, EndsAs(v, s, m)
  PROVE  /\ status' \in [Versions -> {"absent", "generating", "completed", "failed"}]
         /\ missing' \in [Versions -> BOOLEAN]
<1>1. status' \in {[status EXCEPT ![v] = s], status} /\ missing' \in {[missing EXCEPT ![v] = m], missing}
  BY DEF EndsAs
<1> QED BY <1>1 DEF ContentTyped

Generates(v) == DrawLane(v) \/ GateFails(v) \/ DrawLegacy(v)
Edits(v) == BackfillCards(v) \/ UpdateCard(v) \/ RegenerateCharacters(v) \/ WriteShots(v)

LEMMA GeneratedContent ==
  ASSUME ContentTyped, EditsTyped, NEW v \in Versions, Generates(v)
  PROVE  ContentTyped' /\ EditsTyped'
<1> USE DEF ContentTyped, Text
<1>1. CASE DrawLane(v)
  <2>1. EndsAs(v, "completed", FALSE) /\ \E c \in Text : PersistCards(v, c)
    BY <1>1 DEF DrawLane
  <2>2. /\ status' \in [Versions -> {"absent", "generating", "completed", "failed"}]
        /\ missing' \in [Versions -> BOOLEAN]
    BY <2>1, EndsTyped
  <2>3. /\ EditsTyped'
        /\ cards' \in [Versions -> Text] /\ prompts' \in [Versions -> Text]
    BY <2>1, PersistKeeps
  <2> QED BY <2>2, <2>3, <1>1 DEF DrawLane
<1>2. CASE GateFails(v)
  <2>1. EndsAs(v, "failed", v \notin Legacy /\ missing[v]) \/ EndsAs(v, "failed", TRUE)
    BY <1>2 DEF GateFails
  <2>2. /\ status' \in [Versions -> {"absent", "generating", "completed", "failed"}]
        /\ missing' \in [Versions -> BOOLEAN]
    BY <2>1, EndsTyped
  <2>3. /\ UNCHANGED <<prompts, editor>> \/ (Replaces(v, {"prompt"}) /\ \E c \in Text : prompts' = [prompts EXCEPT ![v] = c])
        /\ UNCHANGED cards
        /\ \E s \in Content : shots' = [shots EXCEPT ![v] = s]
    BY <1>2 DEF GateFails
  <2>4. EditsTyped'
    BY <2>3, ReplacesKeeps, EditsStay DEF Table
  <2> QED BY <2>2, <2>3, <2>4
<1>3. CASE DrawLegacy(v)
  <2>1. EditsTyped'
    BY <1>3, ReplacesKeeps DEF DrawLegacy, Table
  <2>2. /\ status' \in [Versions -> {"absent", "generating", "completed", "failed"}]
        /\ missing' \in [Versions -> BOOLEAN]
    BY <1>3, EndsTyped DEF DrawLegacy
  <2> QED BY <2>1, <2>2, <1>3 DEF DrawLegacy
<1> QED BY <1>1, <1>2, <1>3 DEF Generates

LEMMA EditedContent ==
  ASSUME ContentTyped, EditsTyped, NEW v \in Versions, Edits(v)
  PROVE  ContentTyped' /\ EditsTyped'
<1> USE DEF ContentTyped, Text
<1>1. CASE BackfillCards(v)
  BY <1>1, PersistKeeps DEF BackfillCards
<1>2. CASE UpdateCard(v)
  BY <1>2, EditsStay DEF UpdateCard
<1>3. CASE RegenerateCharacters(v)
  <2>1. PICK c \in Text, m \in BOOLEAN : /\ PersistCards(v, c)
                                         /\ missing' = [missing EXCEPT ![v] = m]
                                         /\ UNCHANGED <<status, shots>>
    BY <1>3 DEF RegenerateCharacters
  <2> QED BY <2>1, PersistKeeps
<1>4. CASE WriteShots(v)
  BY <1>4, EditsStay DEF WriteShots
<1> QED BY <1>1, <1>2, <1>3, <1>4 DEF Edits

LEMMA CommittedCards ==
  ASSUME ContentTyped, EditsTyped, NEW d \in Editors, ReadPrompt(d) \/ CommitCard(d)
  PROVE  ContentTyped' /\ EditsTyped'
<1>1. editor[d] \in CardEdit
  BY DEF EditsTyped, ReadPrompt, CommitCard
<1>2. CASE ReadPrompt(d)
  <2>1. [editor[d] EXCEPT !.prompt = prompts[editor[d].version]] \in CardEdit
    BY <1>1 DEF CardEdit, ContentTyped
  <2>2. EditsTyped'
    BY <2>1, <1>2 DEF ReadPrompt, EditsTyped
  <2> QED BY <2>2, <1>2, ContentStays DEF ReadPrompt
<1>3. CASE CommitCard(d)
  <2>1. EditsTyped'
    BY <1>3 DEF CommitCard, EditsTyped
  <2>2. editor[d].version \in Versions /\ editor[d].text \in Text
    BY <1>1 DEF CardEdit, Text
  <2>3. /\ cards' = [cards EXCEPT ![editor[d].version] = editor[d].text] \/ cards' = cards
        /\ prompts' = [prompts EXCEPT ![editor[d].version] = editor[d].text] \/ prompts' = prompts
        /\ UNCHANGED <<status, shots, missing>>
    BY <1>3 DEF CommitCard
  <2> QED BY <2>1, <2>2, <2>3 DEF ContentTyped
<1> QED BY <1>2, <1>3

\* Whoever finalizes, a version gets the flag.
LEMMA FinalizedFlags ==
  ASSUME FlagsInv, NEW v \in Versions, NEW was \in Request, Finalized(v, was)
  PROVE  final' \subseteq Versions /\ default' \subseteq Versions
  BY DEF FlagsInv, FlagsTyped, Finalized

\* The one export that moves: its row, its messages and its executions.
ExportGoes(e, row, m, n) ==
  /\ export' = [export EXCEPT ![e] = row]
  /\ message' = [message EXCEPT ![e] = m]
  /\ rendering' = [rendering EXCEPT ![e] = n]

LEMMA ExportKeeps ==
  ASSUME JobsInv, NEW e \in Exports, NEW row \in ExportRow, NEW m \in Nat, NEW n \in Nat,
         ExportGoes(e, row, m, n),
         Event \/ UNCHANGED events, m + n <= 1 + events', row.status # "absent"
  PROVE  JobsInv'
<1>1. JobsTyped'
  BY DEF Bounded, ExportGoes, JobsInv, JobsTyped, Event
<1>2. events <= events'
  BY DEF Bounded, JobsInv, JobsTyped, Event
<1>3. ASSUME NEW d \in Exports
      PROVE  /\ message'[d] + rendering'[d] <= 1 + events'
             /\ export'[d].status = "absent" => message'[d] + rendering'[d] = 0
  <2>1. CASE d = e
    BY <2>1 DEF ExportGoes, JobsInv, JobsTyped
  <2>2. CASE d # e
    BY <2>2, <1>1, <1>2 DEF Bounded, ExportGoes, JobsInv, JobsTyped, CopiesAreCounted, Copies
  <2> QED BY <2>1, <2>2
<1> QED BY <1>1, <1>3 DEF JobsInv, CopiesAreCounted, Copies

-----------------------------------------------------------------------------
(* A step keeps the invariant.                                             *)

LEMMA VersionsKeep ==
  ASSUME VersionInv, NEW v \in Versions,
         \/ Generates(v) \/ SetDefaultVersion(v) \/ Edits(v) \/ ActivateVersion(v) \/ FinalizeVersion(v)
         \/ \E q \in Finalizers : ReadFinalize(q, v)
         \/ \E d \in Editors : ReadCard(d, v)
  PROVE  VersionInv'
<1> USE InParts
<1>1. CASE Generates(v)
  <2>1. UNCHANGED <<flags, jobs>> /\ (Event \/ UNCHANGED events)
    BY <1>1 DEF Generates, DrawLane, GateFails, DrawLegacy, Again
  <2> QED BY <2>1, <1>1, GeneratedContent, FlagsStay, JobsStay
<1>2. CASE Edits(v)
  <2>1. UNCHANGED <<flags, jobs>> /\ (Event \/ UNCHANGED events)
    BY <1>2 DEF Edits, BackfillCards, UpdateCard, RegenerateCharacters, WriteShots
  <2> QED BY <2>1, <1>2, EditedContent, FlagsStay, JobsStay
<1>3. CASE SetDefaultVersion(v) \/ ActivateVersion(v)
  <2>1. FlagsInv'
    BY <1>3 DEF SetDefaultVersion, ActivateVersion, FlagsInv, FlagsTyped, RequestsName
  <2> QED BY <2>1, <1>3, ContentStays, EditsStay, JobsStay DEF SetDefaultVersion, ActivateVersion
<1>4. CASE FinalizeVersion(v)
  <2>1. Flags(v) \in Request
    BY DEF Flags, Request, FlagsInv, FlagsTyped
  <2>2. FlagsInv'
    BY <2>1, <1>4, FinalizedFlags DEF FinalizeVersion, FlagsInv, FlagsTyped, RequestsName
  <2> QED BY <2>2, <1>4, ContentStays, EditsStay, JobsStay DEF FinalizeVersion, Finalized
<1>5. CASE \E q \in Finalizers : ReadFinalize(q, v)
  <2>1. FlagsInv'
    BY <1>5 DEF ReadFinalize, Flags, FlagsInv, FlagsTyped, RequestsName, Request
  <2> QED BY <2>1, <1>5, ContentStays, EditsStay, JobsStay DEF ReadFinalize
<1>6. CASE \E d \in Editors : ReadCard(d, v)
  <2>1. PICK d \in Editors, c \in Content :
           /\ cards[v] # "none"
           /\ editor' = [editor EXCEPT ![d] = [version |-> v, text |-> c, card |-> cards[v],
                                               prompt |-> "unread", replaced |-> {}]]
    BY <1>6 DEF ReadCard
  <2>2. EditsTyped'
    BY <2>1 DEF EditsTyped, CardEdit, ContentTyped, Text
  <2> QED BY <2>2, <1>6, ContentStays, FlagsStay, JobsStay DEF ReadCard
<1> QED BY <1>1, <1>2, <1>3, <1>4, <1>5, <1>6

LEMMA CommitCardKeeps ==
  ASSUME VersionInv, NEW d \in Editors, ReadPrompt(d) \/ CommitCard(d)
  PROVE  VersionInv'
<1>1. UNCHANGED <<flags, jobs, events>>
  BY DEF ReadPrompt, CommitCard
<1> QED BY <1>1, InParts, CommittedCards, FlagsStay, JobsStay

LEMMA CommitFinalizeKeeps ==
  ASSUME VersionInv, NEW q \in Finalizers, CommitFinalize(q)
  PROVE  VersionInv'
<1> USE InParts
<1>1. finalizer[q] \in Request /\ finalizer[q].version \in Versions
  BY DEF CommitFinalize, FlagsInv, FlagsTyped, RequestsName
<1>2. FlagsInv'
  <2>1. finalizer' \in [Finalizers -> Request]
    BY DEF CommitFinalize, FlagsInv, FlagsTyped, Request, NoRequest
  <2>2. RequestsName'
    BY DEF CommitFinalize, FlagsInv, FlagsTyped, RequestsName
  <2> QED BY <2>1, <2>2, <1>1, FinalizedFlags DEF CommitFinalize, FlagsInv, FlagsTyped
<1> QED BY <1>2, ContentStays, EditsStay, JobsStay DEF CommitFinalize, Finalized

LEMMA ExportsKeep ==
  ASSUME VersionInv, ExportNext
  PROVE  VersionInv'
<1> USE InParts
<1> PICK e \in Exports : \/ CreateExport(e) \/ CommitExport(e) \/ ExportReturns(e)
                         \/ ExportStarts(e) \/ ExportEnds(e) \/ ExportCrash(e) \/ ExportRedelivered(e)
  BY DEF ExportNext
<1>1. /\ export[e] \in ExportRow /\ message[e] \in Nat /\ rendering[e] \in Nat
      /\ message[e] + rendering[e] <= 1 + events
      /\ export[e].status = "absent" => message[e] = 0 /\ rendering[e] = 0
      /\ events \in Nat
  BY DEF JobsInv, JobsTyped, CopiesAreCounted, Copies
\* The row, the messages and the executions after the step.
<1>2. \E row \in ExportRow, m \in Nat, n \in Nat :
         /\ ExportGoes(e, row, m, n)
         /\ Event \/ UNCHANGED events
         /\ m + n <= 1 + events'
         /\ row.status # "absent"
  <2> DEFINE Marked(s) == [export[e] EXCEPT !.status = s]
  <2>1. ASSUME NEW s \in ExportStatus \ {"absent"}
        PROVE  Marked(s) \in ExportRow /\ Marked(s).status # "absent"
    BY <1>1 DEF ExportRow
  <2>2. ASSUME NEW s \in ExportStatus \ {"absent"}, NEW m, NEW n, SetExport(e, s),
               message' = [message EXCEPT ![e] = m], rendering' = [rendering EXCEPT ![e] = n]
        PROVE  ExportGoes(e, Marked(s), m, n)
    BY <2>2 DEF SetExport, ExportGoes, JobsInv, JobsTyped
  <2>3. ASSUME NEW m, NEW n, UNCHANGED export,
               message' = [message EXCEPT ![e] = m], rendering' = [rendering EXCEPT ![e] = n]
        PROVE  ExportGoes(e, export[e], m, n)
    BY <2>3 DEF ExportGoes, JobsInv, JobsTyped
  <2>4. /\ UNCHANGED message => message' = [message EXCEPT ![e] = message[e]]
        /\ UNCHANGED rendering => rendering' = [rendering EXCEPT ![e] = rendering[e]]
    BY DEF JobsInv, JobsTyped
  <2> HIDE DEF Marked
  <2>5. CASE CreateExport(e)
    <3>1. PICK v \in final : /\ export[e].status = "absent"
                             /\ export' = [export EXCEPT ![e] = [status |-> "uncommitted", version |-> v]]
                             /\ message' = [message EXCEPT ![e] = 1]
                             /\ UNCHANGED <<rendering, events>>
      BY <2>5 DEF CreateExport
    <3>2. [status |-> "uncommitted", version |-> v] \in ExportRow
      BY DEF ExportRow, ExportStatus, FlagsInv, FlagsTyped
    <3>3. ExportGoes(e, [status |-> "uncommitted", version |-> v], 1, rendering[e])
      BY <3>1, <2>4 DEF ExportGoes
    <3> QED BY <3>1, <3>2, <3>3, <1>1
  <2>6. CASE CommitExport(e)
    <3>1. ExportGoes(e, Marked("queued"), message[e], rendering[e])
      BY <2>6, <2>2, <2>4 DEF CommitExport, ExportStatus
    <3> QED BY <3>1, <2>6, <2>1, <1>1 DEF CommitExport, ExportStatus
  <2>7. CASE ExportReturns(e)
    <3>1. ExportGoes(e, export[e], message[e] - 1, rendering[e])
      BY <2>7, <2>3, <2>4 DEF ExportReturns, Taken
    <3> QED BY <3>1, <2>7, <1>1 DEF ExportReturns, Taken
  <2>8. CASE ExportStarts(e) /\ export[e].version \in final
    <3>1. ExportGoes(e, export[e], message[e] - 1, rendering[e] + 1)
      BY <2>8, <2>3 DEF ExportStarts, Taken
    <3> QED BY <3>1, <2>8, <1>1 DEF ExportStarts, Taken
  <2>9. CASE ExportStarts(e) /\ export[e].version \notin final
    <3>1. ExportGoes(e, Marked("failed"), message[e] - 1, rendering[e])
      BY <2>9, <2>2, <2>4 DEF ExportStarts, Taken, ExportStatus
    <3> QED BY <3>1, <2>9, <2>1, <1>1 DEF ExportStarts, Taken, ExportStatus
  <2>10. CASE ExportEnds(e)
    <3>1. PICK s \in {"completed", "failed"} : SetExport(e, s)
      BY <2>10 DEF ExportEnds
    <3>2. ExportGoes(e, Marked(s), message[e], rendering[e] - 1)
      BY <3>1, <2>10, <2>2, <2>4 DEF ExportEnds, Leaves, ExportStatus
    <3> QED BY <3>2, <2>10, <2>1, <1>1 DEF ExportEnds, Leaves, ExportStatus
  <2>11. CASE ExportCrash(e)
    <3>1. ExportGoes(e, export[e], message[e] + 1, rendering[e] - 1)
      BY <2>11, <2>3 DEF ExportCrash, Leaves, Redelivered
    <3> QED BY <3>1, <2>11, <1>1 DEF ExportCrash, Leaves, Event
  <2>12. CASE ExportRedelivered(e)
    <3>1. ExportGoes(e, export[e], message[e] + 1, rendering[e])
      BY <2>12, <2>3, <2>4 DEF ExportRedelivered, Redelivered
    <3> QED BY <3>1, <2>12, <1>1 DEF ExportRedelivered, Event
  <2> QED BY <2>5, <2>6, <2>7, <2>8, <2>9, <2>10, <2>11, <2>12
<1>3. JobsInv'
  BY <1>2, ExportKeeps
<1>4. UNCHANGED <<status, content, missing, editor, flags>>
  BY DEF CreateExport, CommitExport, ExportReturns, ExportStarts, ExportEnds, ExportCrash,
         ExportRedelivered, Unchanged
<1> QED BY <1>3, <1>4, ContentStays, EditsStay, FlagsStay

LEMMA VersionStep == VersionInv /\ [Next]_vars => VersionInv'
<1>1. VersionInv /\ VersionNext => VersionInv'
  BY VersionsKeep DEF VersionNext, Generates, Edits
<1>2. VersionInv /\ CommitNext => VersionInv'
  BY CommitFinalizeKeeps, CommitCardKeeps DEF CommitNext
<1>3. VersionInv /\ UNCHANGED vars => VersionInv'
  BY InParts, ContentStays, EditsStay, FlagsStay, JobsStay DEF vars, content, flags, jobs
<1> QED BY <1>1, <1>2, <1>3, ExportsKeep DEF Next

-----------------------------------------------------------------------------
(* Every variable keeps its type; an export never has more messages and     *)
(* executions than the one it was made with and one for each fault.         *)
THEOREM VersionTypes == ASSUME Bounded PROVE Spec => []TypeOK
<1>1. VersionInv => TypeOK
  BY DEF VersionInv
<1> QED BY <1>1, FirstVersions, VersionStep, PTL DEF Spec

-----------------------------------------------------------------------------
(* Cards and prompts of a version that is not a legacy one.                *)
Matched(v) == cards[v] = prompts[v]
Parting(v) == \E d \in Editors : /\ CommitCard(d) /\ editor[d].version = v
                                 /\ editor[d].card # editor[d].prompt

LEMMA StepsMatch ==
  ASSUME VersionInv, [Next]_vars, NEW v \in Versions \ Legacy, Matched(v)
  PROVE  Matched(v)' \/ Parting(v)
<1> USE InParts DEF Matched
<1>1. ASSUME NEW w \in Versions, Generates(w) PROVE Matched(v)'
  BY <1>1 DEF Generates, DrawLane, GateFails, DrawLegacy, PersistCards, ContentTyped
<1>2. ASSUME NEW w \in Versions, Edits(w) PROVE Matched(v)'
  <2>1. CASE RegenerateCharacters(w)
    <3>1. PICK c : PersistCards(w, c)
      BY <2>1 DEF RegenerateCharacters
    <3> QED BY <3>1 DEF PersistCards, ContentTyped
  <2>2. CASE BackfillCards(w) \/ UpdateCard(w) \/ WriteShots(w)
    BY <2>2 DEF BackfillCards, UpdateCard, WriteShots, PersistCards, ContentTyped
  <2> QED BY <1>2, <2>1, <2>2 DEF Edits
\* What an update had loaded equal it changes together, or not at all.
<1>3. ASSUME NEW d \in Editors, CommitCard(d), ~Parting(v) PROVE Matched(v)'
  <2>1. editor[d] \in CardEdit
    BY <1>3 DEF EditsTyped, CommitCard
  <2>2. CASE editor[d].version # v
    BY <2>1, <2>2, <1>3 DEF CommitCard, CardEdit, ContentTyped
  <2>3. CASE editor[d].version = v
    <3>1. editor[d].card = editor[d].prompt
      BY <2>3, <1>3 DEF Parting
    <3>2. "card" \in Changed(editor[d]) <=> "prompt" \in Changed(editor[d])
      BY <3>1, <2>1 DEF Changed, Table, CardEdit
    <3> QED BY <3>2, <2>1, <2>3, <1>3 DEF CommitCard, CardEdit, ContentTyped
  <2> QED BY <2>2, <2>3
<1>4. ASSUME UNCHANGED <<cards, prompts>> PROVE Matched(v)'
  BY <1>4
<1>5. ASSUME NEW w \in Versions,
             \/ SetDefaultVersion(w) \/ ActivateVersion(w) \/ FinalizeVersion(w)
             \/ \E q \in Finalizers : ReadFinalize(q, w)
             \/ \E d \in Editors : ReadCard(d, w)
      PROVE  UNCHANGED <<cards, prompts>>
  BY <1>5 DEF SetDefaultVersion, ActivateVersion, FinalizeVersion, Finalized, ReadFinalize, ReadCard, content
<1>6. ExportNext => UNCHANGED <<cards, prompts>>
  BY DEF ExportNext, CreateExport, CommitExport, ExportReturns, ExportStarts, ExportEnds, ExportCrash,
         ExportRedelivered, Unchanged, content
<1>7. (\E q \in Finalizers : CommitFinalize(q)) \/ (\E d \in Editors : ReadPrompt(d)) => UNCHANGED <<cards, prompts>>
  BY DEF CommitFinalize, Finalized, ReadPrompt, content
<1>8. UNCHANGED vars => UNCHANGED <<cards, prompts>>
  BY DEF vars, content
<1> QED BY <1>1, <1>2, <1>3, <1>4, <1>5, <1>6, <1>7, <1>8 DEF Next, VersionNext, CommitNext, Generates, Edits

(* The cards of a lane's version and their older copy go on saying the same, *)
(* whoever draws, draws again, fills in, edits or replaces them, and in     *)
(* which order (persist_character_cards, characters/generate); they part    *)
(* only by an update that had loaded them in different states               *)
(* (update_storyboard_character_card).                                      *)
THEOREM CardsAndPrompts == ASSUME Bounded PROVE Spec => CardsStayMatched
<1>1. VersionInv /\ [Next]_vars
        => [\A v \in Versions \ Legacy :
              cards[v] = prompts[v] =>
                \/ cards'[v] = prompts'[v]
                \/ \E d \in Editors : /\ CommitCard(d) /\ editor[d].version = v
                                      /\ editor[d].card # editor[d].prompt]_vars
  BY StepsMatch DEF Matched, Parting
<1> QED BY <1>1, FirstVersions, VersionStep, PTL DEF Spec, CardsStayMatched
=============================================================================
