----------------------------- MODULE ChapterProofs -----------------------------
(* Theorems about what happens to the chapters of a segment: its loops     *)
(* (ChapterDraft), its memory (StoryMemory) and its reviews (DraftReview), *)
(* for a segment of any length, any limits of retries and revisions, any   *)
(* number of texts and of faults, and whatever the models answer.          *)
EXTENDS MCChapter, FiniteSetTheorems, TLAPS

(***************************************************************************)
(* ChapterDraft.                                                           *)
(***************************************************************************)
GraphState == [chapter: 1..(Chapters + 1), revised: 0..MaxRevise, attempt: 0..MaxRetries,
               rerun: 0..1, review: Review, passed: BOOLEAN, tails: 0..MaxTails]

Typed ==
  /\ text \in [Chapter -> Nat]
  /\ status \in [Chapter -> {"none", "completed", "quality_blocked", "consistency_blocked"}]
  /\ memory \in [Chapter -> Nat]
  /\ transition \in [Chapter -> Nat]
  /\ arc \subseteq Chapter \X (Nat \ {0})
  /\ cursor \in 1..(Chapters + 1)
  /\ pc \in Node \cup {"off", "end"}
  /\ graph \in GraphState
  /\ faults \in 0..MaxFaults

\* Nothing is remembered of the chapters from one on.
Empty(of, from) == \A c \in Chapter : from <= c => of[c] = 0

\* What is remembered is of the text.
OfText(of) == \A c \in Chapter : of[c] \in {0, text[c]}

Merge(of) == {<<c, of[c]>> : c \in {x \in Chapter : of[x] # 0}}

\* On its way to the commit of a chapter, an execution has forgotten what there was
\* of it: the rollback at its start, of a rerun or of the tail has seen to that, and
\* the steps between do not add to it.  After the commit this holds of the next.
NothingAhead ==
  /\ pc \in Node \ {"done", "rerun", "closure"} =>
       Empty(memory, graph.chapter) /\ Empty(transition, graph.chapter)
  /\ pc = "done" => Empty(memory, graph.chapter + 1) /\ Empty(transition, graph.chapter + 1)

\* The counters are below their limits where they are raised.
Counters ==
  /\ pc \in Node \ {"closure"} => graph.chapter \in Chapter
  /\ pc = "outline" => graph.revised < MaxRevise
  /\ pc = "revise" => graph.attempt < MaxRetries
  /\ pc = "rerun" => graph.rerun = 0

Remembers == OfText(memory) /\ OfText(transition) /\ arc = Merge(memory)

DraftInv == Typed /\ Counters /\ NothingAhead /\ Remembers

-----------------------------------------------------------------------------
LEMMA Types == Typed <=> TypeOK
  BY DEF Typed, TypeOK, GraphState

LEMMA Numbers ==
  /\ Chapters \in Nat \ {0} /\ Chapter = 1..Chapters
  /\ MaxRetries \in Nat /\ MaxRevise \in Nat /\ MaxTails \in Nat /\ MaxFaults \in Nat
  BY DraftAssumption DEF Chapter

LEMMA NoGraphType == NoGraph \in GraphState
  BY Numbers DEF NoGraph, GraphState, Review

-----------------------------------------------------------------------------
(* Progression memory.                                                     *)

\* A rollback empties the chapters from one on, and keeps the others.
LEMMA ForgottenFacts ==
  ASSUME NEW of \in [Chapter -> Nat], NEW from \in Nat
  PROVE  /\ Forgotten(of, from) \in [Chapter -> Nat]
         /\ Empty(Forgotten(of, from), from)
         /\ \A c \in Chapter : Forgotten(of, from)[c] \in {0, of[c]}
  BY DEF Forgotten, Empty

\* What is rebuilt from the advancements is their merge.
LEMMA RebuiltIsMerge == \A of : Rebuilt(of) = Merge(of)
  BY DEF Rebuilt, Merged, Merge

\* The memory stays that of the text, and the book's the merge of the chapters'.
LEMMA RollbackStep ==
  ASSUME Typed, Remembers, NEW from \in Nat, Rollback(from)
  PROVE  /\ memory' \in [Chapter -> Nat] /\ transition' \in [Chapter -> Nat]
         /\ arc' \subseteq Chapter \X (Nat \ {0})
         /\ Empty(memory', from) /\ Empty(transition', from)
         /\ \A c \in Chapter : memory'[c] \in {0, text[c]} /\ transition'[c] \in {0, text[c]}
         /\ arc' = Merge(memory')
<1>1. memory' = Forgotten(memory, from) /\ transition' = Forgotten(transition, from)
  BY DEF Rollback
<1>2. /\ memory' \in [Chapter -> Nat] /\ transition' \in [Chapter -> Nat]
      /\ Empty(memory', from) /\ Empty(transition', from)
      /\ \A c \in Chapter : memory'[c] \in {0, memory[c]} /\ transition'[c] \in {0, transition[c]}
  BY <1>1, ForgottenFacts DEF Typed
<1>3. \A c \in Chapter : memory'[c] \in {0, text[c]} /\ transition'[c] \in {0, text[c]}
  BY <1>2 DEF Remembers, OfText
<1>4. arc' = Merge(memory')
  <2>1. CASE memory' = memory /\ transition' = transition
    BY <2>1 DEF Rollback, Remembers
  <2>2. CASE ~(memory' = memory /\ transition' = transition)
    BY <2>2, RebuiltIsMerge DEF Rollback
  <2> QED BY <2>1, <2>2
<1>5. arc' \subseteq Chapter \X (Nat \ {0})
  BY <1>2, <1>4 DEF Merge
<1> QED BY <1>2, <1>3, <1>4, <1>5

\* The values of a function on the chapters are finitely many.
LEMMA FiniteRange ==
  ASSUME NEW of \in [Chapter -> Nat]
  PROVE  IsFiniteSet({of[c] : c \in Chapter})
<1> DEFINE T == {of[c] : c \in Chapter}
<1>1. IsFiniteSet(Chapter)
  BY Numbers, FS_Interval
<1>2. of \in Surjection(Chapter, T)
  BY DEF Surjection
<1> HIDE DEF T
<1>3. IsFiniteSet(T)
  BY <1>1, <1>2, FS_Surjection
<1> QED BY <1>3 DEF T

\* There is always a text that is not in use.
LEMMA NewTextExists ==
  ASSUME Typed, Remembers
  PROVE  NewText \in Nat \ {0}
<1> DEFINE T == {text[c] : c \in Chapter}
           M == {memory[c] : c \in Chapter}
           R == {transition[c] : c \in Chapter}
           n == Cardinality(Used) + 1
<1>1. IsFiniteSet(T) /\ IsFiniteSet(M) /\ IsFiniteSet(R)
  BY FiniteRange DEF Typed
<1>2. Used \subseteq (T \cup M) \cup R
  <2> DEFINE Of(c) == {text[c], memory[c], transition[c]}
             U == UNION {Of(c) : c \in Chapter}
             P == {pair[2] : pair \in arc}
  <2>1. P \subseteq M
    BY DEF Remembers, Merge
  <2>2. \A c \in Chapter : Of(c) \subseteq (T \cup M) \cup R
    OBVIOUS
  <2>3. U \subseteq (T \cup M) \cup R
    BY <2>2
  <2>4. Used = U \cup P
    BY DEF Used
  <2> HIDE DEF T, M, R, U, P
  <2> QED BY <2>1, <2>3, <2>4
<1> HIDE DEF T, M, R
<1>3. IsFiniteSet((T \cup M) \cup R)
  BY <1>1, FS_Union
<1>4. IsFiniteSet(Used) /\ Cardinality(Used) \in Nat
  BY <1>2, <1>3, FS_Subset, FS_CardinalityType
<1>5. n \in Nat /\ IsFiniteSet(1..n) /\ Cardinality(1..n) = n
  BY <1>4, FS_Interval
<1>6. \E d \in 1..n : d \notin Used
  <2>1. SUFFICES ASSUME 1..n \in SUBSET Used PROVE FALSE
    OBVIOUS
  <2>2. Cardinality(1..n) <= Cardinality(Used)
    BY <1>4, <2>1, FS_Subset
  <2> QED BY <1>4, <1>5, <2>2
<1>7. NewText \in 1..n
  BY <1>6 DEF NewText
<1> QED BY <1>5, <1>7

-----------------------------------------------------------------------------
(* Steps that write no row.                                                *)

\* The graph goes on to a node before the commit of the same chapter.
LEMMA Forward ==
  ASSUME DraftInv, UNCHANGED <<rows, cursor, faults>>,
         pc \in Node \ {"done", "rerun", "closure"}, pc' \in Node \ {"done", "closure"},
         graph' \in GraphState, graph'.chapter = graph.chapter,
         pc' = "outline" => graph'.revised < MaxRevise,
         pc' = "revise" => graph'.attempt < MaxRetries,
         pc' = "rerun" => graph'.rerun = 0
  PROVE  DraftInv'
<1>1. Typed'
  BY DEF DraftInv, Typed, rows
<1>2. Counters'
  BY DEF DraftInv, Counters
<1>3. NothingAhead'
  BY DEF DraftInv, NothingAhead, Empty, rows
<1>4. Remembers'
  BY DEF DraftInv, Remembers, OfText, Merge, rows
<1> QED BY <1>1, <1>2, <1>3, <1>4 DEF DraftInv

\* The counters of the graph, one at a time.
LEMMA GraphFields ==
  ASSUME NEW g \in GraphState
  PROVE  /\ [g EXCEPT !.attempt = 0, !.rerun = 0, !.review = "low"] \in GraphState
         /\ g.revised < MaxRevise => [g EXCEPT !.revised = @ + 1] \in GraphState
         /\ g.attempt < MaxRetries => [g EXCEPT !.attempt = @ + 1] \in GraphState
         /\ \A r \in Review : [g EXCEPT !.review = r] \in GraphState
<1> USE Numbers DEF GraphState
<1>1. [g EXCEPT !.attempt = 0, !.rerun = 0, !.review = "low"] \in GraphState
  <2>1. "low" \in Review /\ 0 \in 0..MaxRetries /\ 0 \in 0..1
    BY DEF Review
  <2> QED BY <2>1
<1>2. ASSUME g.revised < MaxRevise PROVE [g EXCEPT !.revised = @ + 1] \in GraphState
  <2>1. g.revised + 1 \in 0..MaxRevise
    BY <1>2
  <2> QED BY <2>1
<1>3. ASSUME g.attempt < MaxRetries PROVE [g EXCEPT !.attempt = @ + 1] \in GraphState
  <2>1. g.attempt + 1 \in 0..MaxRetries
    BY <1>3
  <2> QED BY <2>1
<1>4. ASSUME NEW r \in Review PROVE [g EXCEPT !.review = r] \in GraphState
  OBVIOUS
<1> QED BY <1>1, <1>2, <1>3, <1>4

\* Loading, outline, gate of consistency, beats, writer, reviewers and revisions.
LEMMA DraftStep ==
  ASSUME DraftInv,
         \/ Load \/ RefineOutline \/ CheckConsistency \/ ReviseOutline \/ Beats \/ Write
         \/ ReviewDraft \/ CrossCheck \/ Revise
  PROVE  DraftInv'
<1>0. graph \in GraphState
  BY DEF DraftInv, Typed
<1>1. CASE Load
  <2>1. graph' \in GraphState /\ graph'.chapter = graph.chapter
    BY <1>0, <1>1, GraphFields DEF Load, GraphState
  <2>2. pc = "load" /\ pc' = "refine" /\ UNCHANGED <<rows, cursor, faults>>
    BY <1>1 DEF Load, Goto
  <2> QED BY <2>1, <2>2, Forward DEF Node
<1>2. CASE RefineOutline \/ Beats \/ Write
  <2>1. /\ pc \in {"refine", "beats", "write"} /\ pc' \in {"consistency", "write", "review"}
        /\ UNCHANGED <<rows, cursor, graph, faults>>
    BY <1>2 DEF RefineOutline, Beats, Write, Goto
  <2> QED BY <1>0, <2>1, Forward DEF Node
<1>3. CASE CheckConsistency
  <2>1. /\ pc = "consistency" /\ pc' \in {"beats", "outline", "blocked"}
        /\ pc' = "outline" => graph.revised < MaxRevise
        /\ UNCHANGED <<rows, cursor, graph, faults>>
    BY <1>3 DEF CheckConsistency, RouteConsistency, Goto
  <2> QED BY <1>0, <2>1, Forward DEF Node
<1>4. CASE ReviseOutline
  <2>1. graph.revised < MaxRevise
    BY <1>4 DEF ReviseOutline, DraftInv, Counters
  <2>2. graph' \in GraphState /\ graph'.chapter = graph.chapter
    BY <1>0, <1>4, <2>1, GraphFields DEF ReviseOutline, GraphState
  <2>3. pc = "outline" /\ pc' = "consistency" /\ UNCHANGED <<rows, cursor, faults>>
    BY <1>4 DEF ReviseOutline, Goto
  <2> QED BY <2>2, <2>3, Forward DEF Node
<1>5. CASE ReviewDraft
  <2>1. graph' \in GraphState /\ graph'.chapter = graph.chapter
    BY <1>0, <1>5, GraphFields DEF ReviewDraft, GraphState
  <2>2. pc = "review" /\ pc' = "check" /\ UNCHANGED <<rows, cursor, faults>>
    BY <1>5 DEF ReviewDraft, Goto
  <2> QED BY <2>1, <2>2, Forward DEF Node
<1>6. CASE CrossCheck
  <2>1. PICK r \in Review : graph' = [graph EXCEPT !.review = r] /\ pc' = RouteReview(r)
    BY <1>0, <1>6 DEF CrossCheck, Goto, Review, GraphState
  <2>2. /\ graph' \in GraphState
        /\ graph'.chapter = graph.chapter /\ graph'.attempt = graph.attempt
        /\ graph'.rerun = graph.rerun
    BY <1>0, <2>1, GraphFields DEF GraphState
  <2>3. graph.rerun \in 0..1
    BY <1>0 DEF GraphState
  <2>4. /\ pc' \in {"finalize", "revise", "rerun"}
        /\ pc' = "revise" => graph.attempt < MaxRetries
        /\ pc' = "rerun" => graph.rerun < 1
    BY <2>1 DEF RouteReview
  <2>5. pc' = "rerun" => graph.rerun = 0
    BY <2>3, <2>4
  <2>6. pc = "check" /\ UNCHANGED <<rows, cursor, faults>>
    BY <1>6 DEF CrossCheck
  <2> QED BY <2>2, <2>4, <2>5, <2>6, Forward DEF Node
<1>7. CASE Revise
  <2>1. graph.attempt < MaxRetries
    BY <1>7 DEF Revise, DraftInv, Counters
  <2>2. graph' \in GraphState /\ graph'.chapter = graph.chapter
    BY <1>0, <1>7, <2>1, GraphFields DEF Revise, GraphState
  <2>3. pc = "revise" /\ pc' = "write" /\ UNCHANGED <<rows, cursor, faults>>
    BY <1>7 DEF Revise, Goto
  <2> QED BY <2>2, <2>3, Forward DEF Node
<1> QED BY <1>1, <1>2, <1>3, <1>4, <1>5, <1>6, <1>7

\* The end of a segment or of a process, and the cursor.
LEMMA LeaveStep ==
  ASSUME DraftInv, SegmentEnds \/ Stops \/ ChapterDone
  PROVE  DraftInv'
<1>1. CASE SegmentEnds \/ Stops
  <2>1. /\ pc' \in {"off", "end"} /\ graph' = NoGraph /\ UNCHANGED <<rows, cursor>>
        /\ faults' = faults \/ Fault
    BY <1>1 DEF SegmentEnds, Stops, Goto
  <2>2. faults' \in 0..MaxFaults
    BY <2>1, Numbers DEF Fault, DraftInv, Typed
  <2>3. Typed'
    BY <2>1, <2>2, NoGraphType DEF DraftInv, Typed, rows
  <2>4. Counters' /\ NothingAhead'
    BY <2>1 DEF Counters, NothingAhead, Node
  <2>5. Remembers'
    BY <2>1 DEF DraftInv, Remembers, OfText, Merge, rows
  <2> QED BY <2>3, <2>4, <2>5 DEF DraftInv
<1>2. CASE ChapterDone
  <2>1. /\ pc = "done" /\ UNCHANGED rows
        /\ \/ cursor' = graph.chapter + 1 /\ UNCHANGED faults
           \/ Fault /\ UNCHANGED cursor
    BY <1>2 DEF ChapterDone, Now
  <2>2. graph.chapter \in Chapter /\ graph \in GraphState
    BY <2>1 DEF DraftInv, Counters, Typed, Node
  <2>3. cursor' \in 1..(Chapters + 1) /\ faults' \in 0..MaxFaults
    <3>1. cursor \in 1..(Chapters + 1) /\ faults \in 0..MaxFaults
      BY DEF DraftInv, Typed
    <3>2. graph.chapter + 1 \in 1..(Chapters + 1)
      BY <2>2, Numbers
    <3>3. CASE cursor' = graph.chapter + 1 /\ UNCHANGED faults
      BY <3>1, <3>2, <3>3
    <3>4. CASE Fault /\ UNCHANGED cursor
      BY <3>1, <3>4, Numbers DEF Fault
    <3> QED BY <2>1, <3>3, <3>4
  <2>4. Remembers'
    BY <2>1 DEF DraftInv, Remembers, OfText, Merge, rows
  <2>5. CASE RerunsCommitted
    <3>1. pc' = "rerun" /\ graph' = graph
      BY <1>2, <2>5 DEF ChapterDone, Goto
    <3>2. Typed'
      BY <2>1, <2>3, <3>1 DEF DraftInv, Typed, rows, Node
    <3>3. graph.rerun = 0
      BY <2>2, <2>5 DEF RerunsCommitted, GraphState
    <3>4. Counters' /\ NothingAhead'
      BY <2>2, <3>1, <3>3 DEF Counters, NothingAhead
    <3> QED BY <2>4, <3>2, <3>4 DEF DraftInv
  <2>6. CASE ~RerunsCommitted
    <3>1. /\ graph' = [graph EXCEPT !.chapter = @ + 1]
          /\ pc' = IF graph.chapter = Chapters THEN "closure" ELSE "load"
      BY <1>2, <2>6 DEF ChapterDone, Goto, Now
    <3>2. graph.chapter + 1 \in 1..(Chapters + 1)
      BY <2>2, Numbers
    <3>3. graph' \in GraphState /\ graph'.chapter = graph.chapter + 1
      BY <2>2, <3>1, <3>2 DEF GraphState
    <3>4. Typed'
      BY <2>1, <2>3, <3>1, <3>3 DEF DraftInv, Typed, rows, Node
    <3>5. Counters'
      BY <2>2, <3>1, <3>3, Numbers DEF Counters
    <3>6. NothingAhead'
      BY <2>1, <3>1, <3>3 DEF DraftInv, NothingAhead, Empty, rows
    <3> QED BY <2>4, <3>4, <3>5, <3>6 DEF DraftInv
  <2> QED BY <2>5, <2>6
<1> QED BY <1>1, <1>2

-----------------------------------------------------------------------------
(* Steps that write rows.                                                  *)

\* A rollback, after which the graph is at the first chapter that it emptied.
LEMMA RollbackLeadsOn ==
  ASSUME DraftInv, NEW from \in Chapter, Rollback(from),
         UNCHANGED <<text, status, faults>>, cursor' \in 1..(Chapters + 1),
         graph' \in GraphState, graph'.chapter = from, pc' \in {"load", "write"}
  PROVE  DraftInv'
<1>1. from \in Nat /\ Typed /\ Remembers
  BY Numbers DEF DraftInv
<1>2. /\ memory' \in [Chapter -> Nat] /\ transition' \in [Chapter -> Nat]
      /\ arc' \subseteq Chapter \X (Nat \ {0})
      /\ Empty(memory', from) /\ Empty(transition', from)
      /\ \A c \in Chapter : memory'[c] \in {0, text[c]} /\ transition'[c] \in {0, text[c]}
      /\ arc' = Merge(memory')
  BY <1>1, RollbackStep
<1>3. Typed'
  BY <1>1, <1>2 DEF Typed, Node
<1>4. Counters'
  BY DEF Counters
<1>5. NothingAhead'
  BY <1>2 DEF NothingAhead, Empty
<1>6. Remembers'
  BY <1>2 DEF Remembers, OfText, Merge
<1> QED BY <1>3, <1>4, <1>5, <1>6 DEF DraftInv

\* The start of an execution, a rerun of a chapter and a rewrite of the tail.
LEMMA RollbackSteps ==
  ASSUME DraftInv, Start \/ Rerun \/ TailRewrite
  PROVE  DraftInv'
<1>0. graph \in GraphState /\ cursor \in 1..(Chapters + 1)
  BY DEF DraftInv, Typed
<1>1. CASE Start
  <2>1. /\ cursor <= Chapters /\ Rollback(cursor) /\ pc' = "load"
        /\ graph' = [NoGraph EXCEPT !.chapter = cursor]
        /\ UNCHANGED <<text, status, cursor, faults>>
    BY <1>1 DEF Start, Goto
  <2>2. PICK from \in Chapter : from = cursor
    BY <1>0, <2>1, Numbers
  <2>3. graph' \in GraphState /\ graph'.chapter = from
    BY <1>0, <2>1, <2>2, NoGraphType DEF GraphState
  <2> QED BY <1>0, <2>1, <2>2, <2>3, RollbackLeadsOn
<1>2. CASE Rerun
  <2>1. /\ pc = "rerun" /\ Rollback(graph.chapter) /\ pc' = "write"
        /\ graph' = [graph EXCEPT !.rerun = @ + 1, !.attempt = 0, !.review = "low"]
        /\ UNCHANGED <<text, status, cursor, faults>>
    BY <1>2 DEF Rerun, Goto, Now
  <2>2. graph.rerun = 0 /\ graph.chapter \in Chapter
    BY <2>1 DEF DraftInv, Counters, Node
  <2>3. PICK from \in Chapter : from = graph.chapter
    BY <2>2
  <2>4. graph.rerun + 1 \in 0..1 /\ 0 \in 0..MaxRetries /\ "low" \in Review
    BY <2>2, Numbers DEF Review
  <2>5. graph' \in GraphState /\ graph'.chapter = from
    BY <1>0, <2>1, <2>3, <2>4 DEF GraphState
  <2> QED BY <1>0, <2>1, <2>3, <2>5, RollbackLeadsOn
<1>3. CASE TailRewrite
  <2>1. PICK from : from = IF Chapters > 2 THEN Chapters - 1 ELSE 1
    OBVIOUS
  <2>2. /\ graph.tails < MaxTails /\ cursor' = from /\ Rollback(from) /\ pc' = "load"
        /\ graph' = [graph EXCEPT !.chapter = from, !.tails = @ + 1]
        /\ UNCHANGED <<text, status, faults>>
    BY <1>3, <2>1 DEF TailRewrite, Goto
  <2>3. from \in Chapter /\ from \in 1..(Chapters + 1)
    BY <2>1, Numbers
  <2>4. graph.tails + 1 \in 0..MaxTails
    BY <1>0, <2>2, Numbers DEF GraphState
  <2>5. graph' \in GraphState /\ graph'.chapter = from
    BY <1>0, <2>2, <2>3, <2>4 DEF GraphState
  <2> QED BY <2>2, <2>3, <2>5, RollbackLeadsOn
<1> QED BY <1>1, <1>2, <1>3

\* A blocked chapter has no text, and nothing was remembered of it.
LEMMA BlockStep == ASSUME DraftInv, SaveBlocked PROVE DraftInv'
<1>1. /\ pc = "blocked" /\ UNCHANGED <<memory, transition, arc, cursor, faults>>
      /\ text' = [text EXCEPT ![graph.chapter] = 0]
      /\ status' = [status EXCEPT ![graph.chapter] = "consistency_blocked"]
      /\ graph' = [graph EXCEPT !.chapter = @ + 1]
      /\ pc' = IF graph.chapter = Chapters THEN "closure" ELSE "load"
  BY DEF SaveBlocked, Goto, Now
<1>2. PICK c \in Chapter : c = graph.chapter
  BY <1>1 DEF DraftInv, Counters, Node
<1>3. Typed /\ Remembers /\ Empty(memory, c) /\ Empty(transition, c)
  BY <1>1, <1>2 DEF DraftInv, NothingAhead, Node
<1>4. c + 1 \in 1..(Chapters + 1) /\ c <= c /\ (c # Chapters => c + 1 \in Chapter)
  BY Numbers
<1>5. graph' \in GraphState /\ graph'.chapter = c + 1
  BY <1>1, <1>2, <1>3, <1>4 DEF Typed, GraphState
<1>6. Typed'
  BY <1>1, <1>2, <1>3, <1>5 DEF Typed, Node
<1>7. Counters'
  BY <1>1, <1>2, <1>4, <1>5 DEF Counters
<1>8. NothingAhead'
  <2>1. \A d \in Chapter : c + 1 <= d => c <= d
    BY Numbers
  <2> QED BY <1>1, <1>3, <1>5, <2>1 DEF NothingAhead, Empty
<1>9. Remembers'
  <2>1. memory[c] = 0 /\ transition[c] = 0
    BY <1>3, <1>4 DEF Empty
  <2>2. \A d \in Chapter : d # c => text'[d] = text[d]
    BY <1>1, <1>2, <1>3 DEF Typed
  <2> QED BY <1>1, <1>3, <2>1, <2>2 DEF Remembers, OfText, Merge
<1> QED BY <1>6, <1>7, <1>8, <1>9 DEF DraftInv

\* What a commit remembers of a chapter of which nothing was remembered.
LEMMA RememberedFacts ==
  ASSUME NEW of \in [Chapter -> Nat], NEW d \in Nat, NEW promoted \in BOOLEAN,
         graph.chapter \in Chapter, Empty(of, graph.chapter), OfText(of), text \in [Chapter -> Nat]
  PROVE  /\ Remembered(of, d, promoted) \in [Chapter -> Nat]
         /\ \A c \in Chapter : c # graph.chapter => Remembered(of, d, promoted)[c] = of[c]
         /\ Remembered(of, d, promoted)[graph.chapter] = IF promoted THEN d ELSE 0
<1>1. of[graph.chapter] = 0
  BY Numbers DEF Empty
<1> QED BY <1>1 DEF Remembered, Now

\* The commit of a chapter: its text and what is remembered of it at once.
LEMMA FinalizeStep == ASSUME DraftInv, Finalize PROVE DraftInv'
<1>1. PICK promoted \in Promotion :
        Commit(NewText, promoted, IF Passed(graph.review) THEN "completed" ELSE "quality_blocked")
  BY DEF Finalize
<1>2. PICK d : d = NewText
  OBVIOUS
<1> DEFINE advancement == "advancement" \in promoted
           moved == "transition" \in promoted
<1>3. advancement \in BOOLEAN /\ moved \in BOOLEAN
  OBVIOUS
<1>4. /\ pc = "finalize" /\ pc' = "done" /\ UNCHANGED <<cursor, faults>>
      /\ graph' = [graph EXCEPT !.passed = Passed(graph.review), !.review = "low"]
  BY DEF Finalize, Goto
<1>5. PICK c \in Chapter : c = graph.chapter
  BY <1>4 DEF DraftInv, Counters, Node
<1>6. Typed /\ Remembers /\ Empty(memory, c) /\ Empty(transition, c)
  BY <1>4, <1>5 DEF DraftInv, NothingAhead, Node
<1>7. d \in Nat \ {0}
  BY <1>2, <1>6, NewTextExists
<1>8. /\ text' = [text EXCEPT ![c] = d]
      /\ status' \in [Chapter -> {"none", "completed", "quality_blocked", "consistency_blocked"}]
      /\ memory' = Remembered(memory, d, advancement)
      /\ transition' = Remembered(transition, d, moved)
      /\ arc' = IF advancement THEN arc \cup {<<c, d>>} ELSE arc
  BY <1>1, <1>2, <1>3, <1>5, <1>6 DEF Commit, Now, Merged, Typed
<1> HIDE DEF advancement, moved
<1>9. /\ memory' \in [Chapter -> Nat] /\ transition' \in [Chapter -> Nat]
      /\ \A x \in Chapter : x # c => memory'[x] = memory[x] /\ transition'[x] = transition[x]
      /\ memory'[c] = (IF advancement THEN d ELSE 0)
      /\ transition'[c] = (IF moved THEN d ELSE 0)
  <2>0. /\ graph.chapter \in Chapter /\ text \in [Chapter -> Nat] /\ d \in Nat
        /\ memory \in [Chapter -> Nat] /\ Empty(memory, graph.chapter) /\ OfText(memory)
        /\ transition \in [Chapter -> Nat] /\ Empty(transition, graph.chapter)
        /\ OfText(transition)
    BY <1>5, <1>6, <1>7 DEF Typed, Remembers
  <2>1. /\ memory' \in [Chapter -> Nat]
        /\ \A x \in Chapter : x # graph.chapter => memory'[x] = memory[x]
        /\ memory'[graph.chapter] = IF advancement THEN d ELSE 0
    BY <1>3, <1>8, <2>0, RememberedFacts
  <2>2. /\ transition' \in [Chapter -> Nat]
        /\ \A x \in Chapter : x # graph.chapter => transition'[x] = transition[x]
        /\ transition'[graph.chapter] = IF moved THEN d ELSE 0
    <3>1. transition' = Remembered(transition, d, moved)
      BY <1>8
    <3>2. /\ graph.chapter \in Chapter /\ text \in [Chapter -> Nat] /\ d \in Nat
          /\ transition \in [Chapter -> Nat] /\ Empty(transition, graph.chapter)
          /\ OfText(transition) /\ moved \in BOOLEAN
      BY <1>3, <2>0
    <3> QED BY <3>1, <3>2, RememberedFacts
  <2> QED BY <1>5, <2>1, <2>2
<1>10. graph' \in GraphState /\ graph'.chapter = c
  <2>1. "low" \in Review /\ Passed(graph.review) \in BOOLEAN
    BY DEF Review, Passed
  <2> QED BY <1>4, <1>5, <1>6, <2>1 DEF Typed, GraphState
<1>11. /\ text' \in [Chapter -> Nat] /\ text'[c] = d
       /\ \A x \in Chapter : x # c => text'[x] = text[x]
  BY <1>6, <1>7, <1>8 DEF Typed
<1>12. Typed'
  <2>1. arc' \subseteq Chapter \X (Nat \ {0})
    BY <1>6, <1>7, <1>8 DEF Typed
  <2> QED BY <1>4, <1>6, <1>8, <1>9, <1>10, <1>11, <2>1 DEF Typed, Node
<1>13. Counters'
  BY <1>4, <1>10 DEF Counters
<1>14. NothingAhead'
  <2>1. \A x \in Chapter : c + 1 <= x => c <= x /\ x # c
    BY Numbers
  <2>2. \A x \in Chapter : c + 1 <= x => memory'[x] = 0 /\ transition'[x] = 0
    BY <1>6, <1>9, <2>1 DEF Empty
  <2> QED BY <1>4, <1>10, <2>2 DEF NothingAhead, Empty, Node
<1>15. Remembers'
  <2>1. OfText(memory)' /\ OfText(transition)'
    BY <1>6, <1>9, <1>11 DEF Remembers, OfText
  <2>2. memory[c] = 0
    BY <1>6, Numbers DEF Empty
  <2>3. arc' = Merge(memory')
    <3>1. CASE advancement
      <4>1. Merge(memory') = Merge(memory) \cup {<<c, d>>}
        BY <1>7, <1>9, <2>2, <3>1 DEF Merge
      <4> QED BY <1>6, <1>8, <3>1, <4>1 DEF Remembers
    <3>2. CASE ~advancement
      <4>1. memory' = memory
        BY <1>6, <1>9, <2>2, <3>2 DEF Typed
      <4> QED BY <1>6, <1>8, <3>2, <4>1 DEF Remembers
    <3> QED BY <3>1, <3>2
  <2> QED BY <2>1, <2>3 DEF Remembers, Merge
<1> QED BY <1>12, <1>13, <1>14, <1>15 DEF DraftInv

-----------------------------------------------------------------------------
LEMMA InvInit == Init => DraftInv
<1> SUFFICES ASSUME Init PROVE DraftInv
  OBVIOUS
<1>1. Typed
  BY NoGraphType, Numbers DEF Init, Typed
<1>2. Counters /\ NothingAhead
  BY DEF Init, Counters, NothingAhead, Node
<1>3. Remembers
  BY DEF Init, Remembers, OfText, Merge
<1> QED BY <1>1, <1>2, <1>3 DEF DraftInv

LEMMA InvNext == DraftInv /\ [Next]_vars => DraftInv'
<1> SUFFICES ASSUME DraftInv, [Next]_vars PROVE DraftInv'
  OBVIOUS
<1>1. CASE Next
  BY <1>1, DraftStep, LeaveStep, RollbackSteps, BlockStep, FinalizeStep DEF Next, GraphNext
<1>2. CASE UNCHANGED vars
  BY <1>2 DEF vars, rows, DraftInv, Typed, Counters, NothingAhead, Remembers, Empty, OfText, Merge
<1> QED BY <1>1, <1>2

-----------------------------------------------------------------------------
\* The rows and the state of the graph keep their types, and no counter passes its
\* limit (GenerationState).
THEOREM DraftTypes == Spec => []TypeOK
<1>1. Spec => []DraftInv
  BY InvInit, InvNext, PTL DEF Spec
<1>2. DraftInv => TypeOK
  BY Types DEF DraftInv
<1> QED BY <1>1, <1>2, PTL

\* No memory of a text that was thrown away outlives a rerun, a rewrite of the tail,
\* a crash or a resume (rollback_progression_range).
THEOREM MemoryIsOfText == Spec => []MemoryFollowsText
<1>1. Spec => []DraftInv
  BY InvInit, InvNext, PTL DEF Spec
<1>2. DraftInv => MemoryFollowsText
  BY DEF DraftInv, Remembers, OfText, MemoryFollowsText
<1> QED BY <1>1, <1>2, PTL

\* The book's progression is always the merge of what its chapters advanced
\* (rebuild_progression_state).
THEOREM ArcIsMerge == Spec => []ArcFollowsMemory
<1>1. Spec => []DraftInv
  BY InvInit, InvNext, PTL DEF Spec
<1>2. DraftInv => ArcFollowsMemory
  BY DEF DraftInv, Remembers, Merge, ArcFollowsMemory
<1> QED BY <1>1, <1>2, PTL

-----------------------------------------------------------------------------
(***************************************************************************)
(* StoryMemory.                                                            *)
(***************************************************************************)
Texts == 0..MaxTexts
Row == Chapter \X (1..MaxTexts)
Thread == [state: {"none", "planted", "found", "resolved"}, planted: 0..Chapters]
Context == [ending: Texts, recalled: SUBSET (1..MaxTexts), open: BOOLEAN]
Finding == [promoted: BOOLEAN, plants: BOOLEAN, resolves: BOOLEAN]
Work == [at: {"off", "load", "write", "extract", "commit", "committed", "done", "closure", "end"},
         chapter: 1..(Chapters + 1), text: Texts, shown: Context, found: Finding,
         rerun: BOOLEAN, tail: BOOLEAN]

MemoryTyped ==
  /\ stored \in [Chapter -> Texts] /\ digest \in [Chapter -> Texts]
  /\ advanced \in [Chapter -> Texts] /\ basis \in [Chapter -> Texts]
  /\ told \subseteq Row /\ reported \subseteq Row
  /\ thread \in Thread
  /\ counted \subseteq 1..MaxTexts
  /\ work \in Work
  /\ resume \in Chapter /\ texts \in Texts /\ events \in 0..MaxEvents

Writes == {"write", "extract", "commit"}
Kept == {"committed", "done"}
Runs == {"load"} \cup Kept \cup Writes
Current == work.chapter

\* Where an execution is, and what it relies on there: the chapters ahead are not
\* remembered, the cursor is not past the next one, and the ending its writer was
\* shown is still that of the chapter before.
Places ==
  /\ work.at \in Runs => Current \in Chapter /\ resume <= Current + 1
  /\ work.at = "closure" => Current = Chapters + 1 /\ work.shown.recalled = {}
  /\ work.at \in {"load"} \cup Writes => \A c \in Chapter : Current <= c => advanced[c] = 0
  /\ work.at \in Kept => \A c \in Chapter : Current < c => advanced[c] = 0
  /\ work.at \in {"extract", "commit"} => work.text # 0
  /\ work.at \in Kept \cup Writes => work.shown.ending = SM!Ending(Current)

\* A chapter was written after the ending its predecessor has, and the thread it
\* pays off is not as an outline planted it.
Fits(c) ==
  stored[c] # 0 => /\ basis[c] = SM!Ending(c)
                   /\ c = Payoff => thread.state # "planted"

\* The chapters that no execution comes to again before the segment ends, unless
\* the tail is rewritten.
Behind(c) ==
  \/ work.at # "end" /\ c < resume
  \/ work.at \in Runs /\ c < Current
  \/ work.at \in Kept /\ c = Current
  \/ work.at \in {"closure", "end"}

\* The report of the volume counts what there is.
Reported ==
  stored[Chapters] # 0 => \A c \in Chapter : stored[c] # 0 => stored[c] \in counted

VolumeOver == work.at \in {"closure", "end"} \/ (work.at \in Kept /\ Current = Chapters)

Hangs ==
  /\ \A c \in Chapter : Behind(c) => Fits(c)
  /\ VolumeOver => Reported

\* The tables of a committed text.
Committed(c) == stored[c] # 0 => /\ digest[c] = stored[c]
                                 /\ <<c, stored[c]>> \in told \cap reported
                                 /\ advanced[c] \in {0, stored[c]}
IsTold(c, t) == t # 0 => <<c, t>> \in told

Together ==
  /\ \A c \in Chapter : Committed(c) /\ IsTold(c, digest[c]) /\ IsTold(c, advanced[c])
  /\ \A t \in work.shown.recalled : \E c \in Chapter : c < Current /\ <<c, t>> \in told

MemoryInv == MemoryTyped /\ Together /\ Places /\ Hangs

-----------------------------------------------------------------------------
LEMMA MemoryNumbers ==
  /\ Chapters \in Nat \ {0} /\ Chapter = 1..Chapters /\ SM!Chapter = 1..Chapters
  /\ MaxTexts \in Nat /\ MaxEvents \in Nat
  /\ Plant \in Chapter /\ Payoff \in Chapter /\ Plant <= Payoff
  /\ 0 \in Texts
  BY Numbers, ChapterAssumption DEF SM!Chapter, Texts

\* The texts that are told of a chapter, and of those before one.
LEMMA ToldOf ==
  ASSUME told \subseteq Row
  PROVE  /\ \A c, t : t \in {row[2] : row \in {r \in told : r[1] = c}} <=> <<c, t>> \in told
         /\ \A n, t : t \in SM!ToldBefore(n) <=> \E c \in Chapter : c < n /\ <<c, t>> \in told
<1>1. \A r \in told : r = <<r[1], r[2]>> /\ r[1] \in Chapter
  BY DEF Row
<1>2. \A c, t : <<c, t>>[1] = c /\ <<c, t>>[2] = t
  OBVIOUS
<1>3. ASSUME NEW c, NEW t
      PROVE  t \in {row[2] : row \in {r \in told : r[1] = c}} <=> <<c, t>> \in told
  BY <1>1, <1>2
<1>4. ASSUME NEW n, NEW t
      PROVE  t \in SM!ToldBefore(n) <=> \E c \in Chapter : c < n /\ <<c, t>> \in told
  BY <1>1, <1>2 DEF SM!ToldBefore
<1> QED BY <1>3, <1>4

LEMMA TogetherIsCommitted ==
  ASSUME MemoryTyped, Together
  PROVE  SM!CommittedTogether
<1>1. told \subseteq Row
  BY DEF MemoryTyped
<1>2. \A c \in Chapter :
       /\ stored[c] # 0 => /\ digest[c] = stored[c]
                           /\ <<c, stored[c]>> \in told \cap reported
                           /\ advanced[c] \in {0, stored[c]}
       /\ {digest[c], advanced[c]} \ {0} \subseteq {row[2] : row \in {r \in told : r[1] = c}}
  BY <1>1, ToldOf DEF Together, Committed, IsTold
<1>3. work.shown.recalled \subseteq SM!ToldBefore(Current)
  BY <1>1, ToldOf DEF Together
<1> QED BY <1>2, <1>3, MemoryNumbers DEF SM!CommittedTogether, SM!Now, Current

LEMMA HangsIsTogether ==
  ASSUME MemoryTyped, Hangs
  PROVE  SM!SegmentHangsTogether
<1> SUFFICES ASSUME work.at = "end"
             PROVE  /\ \A c \in Chapter : stored[c] # 0 => basis[c] = SM!Ending(c)
                    /\ stored[Payoff] # 0 => thread.state # "planted"
                    /\ stored[Chapters] # 0 => {stored[c] : c \in Chapter} \ {0} \subseteq counted
  BY MemoryNumbers DEF SM!SegmentHangsTogether
<1>1. \A c \in Chapter : Fits(c)
  BY DEF Hangs, Behind
<1>2. Reported
  BY DEF Hangs, VolumeOver, Kept
<1> QED BY <1>1, <1>2, MemoryNumbers DEF Fits, Reported

LEMMA NothingTypes == SM!NothingShown \in Context /\ SM!NothingFound \in Finding /\ SM!Idle \in Work
  BY MemoryNumbers DEF SM!NothingShown, SM!NothingFound, SM!Idle, Context, Finding, Work, Chapter

LEMMA NothingRecalled == SM!NothingShown.recalled = {} /\ SM!Idle.shown = SM!NothingShown
  BY DEF SM!NothingShown, SM!Idle

LEMMA FirstMemory == SM!Init => MemoryInv
<1> SUFFICES ASSUME SM!Init PROVE MemoryInv
  OBVIOUS
<1>1. MemoryTyped
  BY MemoryNumbers, NothingTypes DEF SM!Init, MemoryTyped, SM!NoThread, Thread
<1>2. work.at = "off" /\ work.shown.recalled = {}
  BY NothingRecalled DEF SM!Init, SM!Idle
<1>3. Together
  BY <1>2, MemoryNumbers DEF SM!Init, Together, Committed, IsTold
<1>4. Places
  BY <1>2 DEF Places, Runs, Kept, Writes
<1>5. Hangs
  BY <1>2, MemoryNumbers DEF SM!Init, Hangs, Behind, Runs, Kept, Writes, VolumeOver, Chapter
<1> QED BY <1>1, <1>3, <1>4, <1>5 DEF MemoryInv

LEMMA MemoryFields ==
  ASSUME MemoryInv
  PROVE  /\ work \in Work /\ Current \in 1..(Chapters + 1) /\ Current \in Nat
         /\ work.text \in Texts /\ work.shown \in Context /\ work.found \in Finding
         /\ texts \in Texts /\ events \in 0..MaxEvents /\ resume \in Chapter /\ resume \in Nat
         /\ told \subseteq Row /\ reported \subseteq Row
<1>1. /\ work \in Work /\ texts \in Texts /\ events \in 0..MaxEvents /\ resume \in Chapter
      /\ told \subseteq Row /\ reported \subseteq Row
  BY DEF MemoryInv, MemoryTyped
<1> QED BY <1>1, MemoryNumbers DEF Work, Current

-----------------------------------------------------------------------------
(* Steps that write no table but the progression memory.                   *)

\* What such a step does: the execution is at x now, and the memory of no chapter
\* is of another text than before.
Quiet(x) ==
  /\ UNCHANGED <<stored, digest, told, reported, thread, counted, basis>>
  /\ work' = x
  /\ advanced' \in [Chapter -> Texts]
  /\ \A c \in Chapter : advanced'[c] \in {0, advanced[c]}

LEMMA QuietTogether ==
  ASSUME MemoryInv, NEW x, Quiet(x),
         \A t \in x.shown.recalled : \E c \in Chapter : c < x.chapter /\ <<c, t>> \in told
  PROVE  Together'
  BY DEF MemoryInv, Quiet, Together, Committed, IsTold, Current

\* No chapter but those that fit is behind the execution.
LEMMA QuietHangs ==
  ASSUME MemoryInv, NEW x, Quiet(x),
         \A c \in Chapter : Behind(c)' => Behind(c),
         VolumeOver' => VolumeOver
  PROVE  Hangs'
<1>1. \A c \in Chapter : Fits(c) => Fits(c)'
  BY DEF Quiet, Fits, SM!Ending
<1>2. Reported => Reported'
  BY DEF Quiet, Reported
<1> QED BY <1>1, <1>2 DEF MemoryInv, Hangs

LEMMA Forgets ==
  ASSUME MemoryTyped, NEW n \in Nat, advanced' = SM!Forgotten(n)
  PROVE  /\ advanced' \in [Chapter -> Texts]
         /\ \A c \in Chapter : advanced'[c] \in {0, advanced[c]} /\ (n <= c => advanced'[c] = 0)
  BY MemoryNumbers DEF SM!Forgotten, MemoryTyped

LEMMA StartKeeps ==
  ASSUME MemoryInv, SM!Start
  PROVE  MemoryInv'
<1> DEFINE x == [SM!Idle EXCEPT !.at = "load", !.chapter = resume]
<1>1. resume \in Chapter /\ resume \in Nat /\ resume \in 1..(Chapters + 1)
  BY MemoryNumbers DEF MemoryInv, MemoryTyped
<1>2. x \in Work /\ x.at = "load" /\ x.chapter = resume /\ x.shown = SM!NothingShown
  BY <1>1, NothingTypes, NothingRecalled DEF Work
<1> HIDE DEF x
<1>3. work.at = "off" /\ work' = x /\ UNCHANGED <<resume, texts, events>>
  BY DEF SM!Start, x
<1>4. Quiet(x) /\ \A c \in Chapter : resume <= c => advanced'[c] = 0
  BY <1>1, Forgets DEF SM!Start, Quiet, x, MemoryInv
<1>5. MemoryTyped'
  BY <1>2, <1>3, <1>4 DEF MemoryInv, MemoryTyped, Quiet
<1>6. Together'
  BY <1>2, <1>4, QuietTogether, NothingRecalled
<1>7. Places'
  BY <1>1, <1>2, <1>3, <1>4, MemoryNumbers DEF Places, Runs, Kept, Writes, Current
<1>8. Hangs'
  BY <1>2, <1>3, <1>4, QuietHangs DEF Behind, VolumeOver, Runs, Kept, Writes, Current
<1> QED BY <1>5, <1>6, <1>7, <1>8 DEF MemoryInv

\* A writer is shown what is told of chapters before.
LEMMA ShownContext ==
  ASSUME MemoryInv, NEW c \in Chapter
  PROVE  /\ SM!Shown(c) \in Context
         /\ SM!Shown(c).ending = SM!Ending(c)
         /\ \A t \in SM!Shown(c).recalled : \E d \in Chapter : d < c /\ <<d, t>> \in told
<1> DEFINE R == (SM!SummariesBefore(c) \cup SM!ToldBefore(c) \cup SM!AdvancedBefore(c)) \ {0}
<1>1. \A t \in R : \E d \in Chapter : d < c /\ <<d, t>> \in told
  <2>1. SUFFICES ASSUME NEW t \in R PROVE \E d \in Chapter : d < c /\ <<d, t>> \in told
    OBVIOUS
  <2>2. CASE t \in SM!ToldBefore(c)
    BY <2>2, ToldOf DEF MemoryInv, MemoryTyped
  <2>3. CASE t \in SM!SummariesBefore(c)
    <3>1. PICK d \in 1..(c - 1) : t = digest[d]
      BY <2>3 DEF SM!SummariesBefore
    <3>2. d \in Chapter /\ d < c /\ t # 0
      BY <2>1, <3>1, MemoryNumbers
    <3>3. IsTold(d, digest[d])
      BY <3>2 DEF MemoryInv, Together
    <3> QED BY <3>1, <3>2, <3>3 DEF IsTold
  <2>4. CASE t \in SM!AdvancedBefore(c)
    <3>1. PICK d \in 1..(c - 1) : t = advanced[d]
      BY <2>4 DEF SM!AdvancedBefore
    <3>2. d \in Chapter /\ d < c /\ t # 0
      BY <2>1, <3>1, MemoryNumbers
    <3>3. IsTold(d, advanced[d])
      BY <3>2 DEF MemoryInv, Together
    <3> QED BY <3>1, <3>2, <3>3 DEF IsTold
  <2> QED BY <2>1, <2>2, <2>3, <2>4
<1>2. R \in SUBSET (1..MaxTexts)
  BY <1>1 DEF MemoryInv, MemoryTyped, Row
<1>3. SM!Ending(c) \in Texts
  BY MemoryNumbers DEF SM!Ending, MemoryInv, MemoryTyped
<1>4. SM!ThreadIsOpen(c) \in BOOLEAN
  BY DEF SM!ThreadIsOpen
<1> HIDE DEF R
<1>5. SM!Shown(c) = [ending |-> SM!Ending(c), recalled |-> R, open |-> SM!ThreadIsOpen(c)]
  BY DEF SM!Shown, R
<1>6. SM!Shown(c).ending = SM!Ending(c) /\ SM!Shown(c).recalled = R
  BY <1>5
<1>7. SM!Shown(c) \in Context
  BY <1>2, <1>3, <1>4, <1>5 DEF Context
<1> QED BY <1>1, <1>6, <1>7

LEMMA LoadContextKeeps ==
  ASSUME MemoryInv, SM!LoadContext
  PROVE  MemoryInv'
<1> DEFINE x == [work EXCEPT !.at = "write", !.rerun = FALSE, !.shown = SM!Shown(Current)]
<1>1. work.at = "load" /\ work \in Work /\ Current \in Chapter
  BY DEF SM!LoadContext, MemoryInv, MemoryTyped, Places, Runs, Kept
<1>2. PICK s : s = SM!Shown(Current)
  OBVIOUS
<1>3. /\ s \in Context /\ s.ending = SM!Ending(Current)
      /\ \A t \in s.recalled : \E d \in Chapter : d < Current /\ <<d, t>> \in told
  BY <1>1, <1>2, ShownContext
<1>4. x \in Work /\ x.at = "write" /\ x.chapter = Current /\ x.shown = s
  BY <1>1, <1>2, <1>3 DEF Work, Current
<1>5. work' = x /\ UNCHANGED <<advanced, resume, texts, events>>
  BY DEF SM!LoadContext, SM!memory, SM!Now, Current
<1> HIDE DEF x
<1>6. Quiet(x)
  BY <1>5 DEF SM!LoadContext, SM!memory, Quiet, MemoryInv, MemoryTyped
<1>7. MemoryTyped'
  BY <1>4, <1>5, <1>6 DEF MemoryInv, MemoryTyped, Quiet
<1>8. Together'
  BY <1>3, <1>4, <1>6, QuietTogether
<1>9. Places'
  <2>1. SM!Ending(Current)' = SM!Ending(Current)
    BY <1>4, <1>5, <1>6 DEF Quiet, SM!Ending, Current
  <2> QED BY <1>1, <1>3, <1>4, <1>5, <2>1, MemoryNumbers DEF MemoryInv, Places, Runs, Kept, Writes, Current
<1>10. Hangs'
  BY <1>1, <1>4, <1>5, <1>6, QuietHangs DEF Behind, VolumeOver, Runs, Kept, Writes, Current
<1> QED BY <1>7, <1>8, <1>9, <1>10 DEF MemoryInv

\* The steps between the context and the commit keep the context.
LEMMA WritingKeeps ==
  ASSUME MemoryInv, SM!WriteDraft \/ SM!Extract \/ SM!Rerun
  PROVE  MemoryInv'
<1>1. PICK x : work' = x
  OBVIOUS
<1>2. work \in Work /\ work.at \in {"done"} \cup Writes /\ Current \in Chapter
  BY DEF SM!WriteDraft, SM!Extract, SM!Rerun, MemoryInv, MemoryTyped, Places, Runs, Kept, Writes
<1>3. /\ x \in Work /\ x.at \in Writes /\ x.chapter = Current /\ x.shown = work.shown
      /\ x.at # "write" => x.text # 0
  <2>1. CASE SM!WriteDraft
    <3>1. texts < MaxTexts /\ x = [work EXCEPT !.at = "extract", !.text = texts + 1]
      BY <1>1, <2>1 DEF SM!WriteDraft
    <3>2. texts + 1 \in Texts /\ texts + 1 # 0
      BY <3>1, MemoryFields, MemoryNumbers DEF Texts
    <3> QED BY <1>2, <3>1, <3>2 DEF Work, Writes, Current
  <2>2. CASE SM!Extract
    <3>1. PICK p, q, r \in BOOLEAN :
            x = [work EXCEPT !.at = "commit", !.found = [promoted |-> p, plants |-> q, resolves |-> r]]
      BY <1>1, <2>2 DEF SM!Extract
    <3>2. [promoted |-> p, plants |-> q, resolves |-> r] \in Finding
      BY DEF Finding
    <3>3. work.text # 0
      BY <2>2 DEF SM!Extract, MemoryInv, Places
    <3> QED BY <1>2, <3>1, <3>2, <3>3 DEF Work, Writes, Current
  <2>3. CASE SM!Rerun
    <3>1. x = [work EXCEPT !.at = "write", !.rerun = TRUE]
      BY <1>1, <2>3 DEF SM!Rerun
    <3> QED BY <1>2, <3>1 DEF Work, Writes, Current
  <2> QED BY <2>1, <2>2, <2>3
<1>4. /\ UNCHANGED <<resume, events>> /\ texts' \in Texts
      /\ UNCHANGED <<stored, digest, told, reported, thread, counted, basis>>
      /\ advanced' = advanced \/ advanced' = SM!Forgotten(Current)
      /\ work.at = "done" => advanced' = SM!Forgotten(Current)
  <2>1. CASE SM!WriteDraft
    <3>1. texts < MaxTexts /\ texts' = texts + 1 /\ work.at = "write"
      BY <2>1 DEF SM!WriteDraft
    <3>2. texts' \in Texts
      BY <3>1, MemoryFields, MemoryNumbers DEF Texts
    <3> QED BY <2>1, <3>1, <3>2 DEF SM!WriteDraft, SM!memory
  <2>2. CASE SM!Extract
    BY <2>2, MemoryFields DEF SM!Extract, SM!memory
  <2>3. CASE SM!Rerun
    BY <2>3, MemoryFields DEF SM!Rerun, SM!Now, Current
  <2> QED BY <2>1, <2>2, <2>3
<1>5. Quiet(x) /\ \A c \in Chapter : Current <= c => advanced'[c] = 0
  <2>1. Current \in Nat
    BY <1>2, MemoryNumbers
  <2>2. CASE advanced' = SM!Forgotten(Current)
    BY <1>1, <1>4, <2>1, <2>2, Forgets DEF Quiet, MemoryInv
  <2>3. CASE advanced' = advanced /\ work.at # "done"
    BY <1>1, <1>2, <1>4, <2>3 DEF Quiet, MemoryInv, MemoryTyped, Places
  <2> QED BY <1>4, <2>2, <2>3
<1>6. MemoryTyped'
  BY <1>1, <1>3, <1>4, <1>5 DEF MemoryInv, MemoryTyped, Quiet
<1>7. Together'
  <2>1. \A t \in x.shown.recalled : \E c \in Chapter : c < x.chapter /\ <<c, t>> \in told
    BY <1>3 DEF MemoryInv, Together
  <2> QED BY <1>5, <2>1, QuietTogether
<1>8. Places'
  <2>1. SM!Ending(Current)' = SM!Ending(Current)
    BY <1>1, <1>3, <1>4 DEF SM!Ending, Current
  <2>2. work.shown.ending = SM!Ending(Current) /\ resume <= Current + 1
    BY <1>2 DEF MemoryInv, Places, Runs, Kept
  <2>3. /\ work'.at # "write" => work'.text # 0
        /\ work'.at \in Writes /\ work'.chapter = Current /\ work'.shown = work.shown /\ resume' = resume
    BY <1>1, <1>3, <1>4
  <2> HIDE DEF SM!Ending
  <2> QED BY <1>2, <1>5, <2>1, <2>2, <2>3, MemoryNumbers DEF Places, Runs, Kept, Writes, Current
<1>9. Hangs'
  <2>1. \A c \in Chapter : Behind(c)' => Behind(c)
    BY <1>1, <1>2, <1>3, <1>4 DEF Behind, Runs, Kept, Writes, Current
  <2>2. ~VolumeOver'
    BY <1>1, <1>3 DEF VolumeOver, Kept, Writes
  <2> QED BY <1>5, <2>1, <2>2, QuietHangs
<1> QED BY <1>6, <1>7, <1>8, <1>9 DEF MemoryInv

LEMMA TailRewriteKeeps ==
  ASSUME MemoryInv, SM!TailRewrite
  PROVE  MemoryInv'
<1>1. PICK n : n = IF Chapters > 2 THEN Chapters - 1 ELSE 1
  OBVIOUS
<1> DEFINE x == [work EXCEPT !.at = "load", !.chapter = n, !.tail = TRUE]
<1>2. /\ n \in Chapter /\ n \in Nat /\ n \in 1..(Chapters + 1)
      /\ \A c \in Chapter : c <= n + 1
  BY <1>1, MemoryNumbers
<1>3. /\ work.at = "closure" /\ work' = x /\ advanced' = SM!Forgotten(n)
      /\ resume' = n \/ resume' = resume
      /\ SM!Event \/ UNCHANGED events
      /\ UNCHANGED <<stored, digest, told, reported, thread, counted, basis, texts>>
  BY <1>1 DEF SM!TailRewrite
<1>4. x \in Work /\ x.at = "load" /\ x.chapter = n /\ x.shown = work.shown
  BY <1>2, MemoryFields DEF Work
<1>5. resume' \in Chapter /\ resume' <= n + 1 /\ events' \in 0..MaxEvents
  BY <1>2, <1>3, MemoryFields, MemoryNumbers DEF SM!Event
<1> HIDE DEF x
<1>6. Quiet(x) /\ \A c \in Chapter : n <= c => advanced'[c] = 0
  BY <1>2, <1>3, Forgets DEF Quiet, MemoryInv
<1>7. MemoryTyped'
  BY <1>3, <1>4, <1>5, <1>6 DEF MemoryInv, MemoryTyped, Quiet
<1>8. Together'
  <2>1. x.shown.recalled = {}
    BY <1>3, <1>4 DEF MemoryInv, Places
  <2> QED BY <1>6, <2>1, QuietTogether
<1>9. Places'
  BY <1>2, <1>3, <1>4, <1>5, <1>6 DEF Places, Runs, Kept, Writes, Current
<1>10. Hangs'
  BY <1>3, <1>4, <1>6, QuietHangs DEF Behind, VolumeOver, Kept, Writes
<1> QED BY <1>7, <1>8, <1>9, <1>10 DEF MemoryInv

LEMMA LeavingKeeps ==
  ASSUME MemoryInv, SM!SegmentEnds \/ SM!Crash
  PROVE  MemoryInv'
<1>1. PICK x : work' = x
  OBVIOUS
<1>2. /\ \/ x = [SM!Idle EXCEPT !.at = "end"] /\ work.at = "closure"
         \/ x = SM!Idle /\ work.at # "end"
      /\ SM!Event \/ UNCHANGED events
      /\ UNCHANGED <<stored, digest, told, reported, advanced, thread, counted, basis, resume, texts>>
  BY <1>1 DEF SM!SegmentEnds, SM!Crash, SM!memory
<1>3. /\ x \in Work /\ x.shown = SM!NothingShown
      /\ \/ x.at = "end" /\ work.at = "closure"
         \/ x.at = "off" /\ work.at # "end"
  BY <1>2, NothingTypes, NothingRecalled DEF Work, SM!Idle
<1>4. events' \in 0..MaxEvents
  BY <1>2, MemoryFields, MemoryNumbers DEF SM!Event
<1>5. Quiet(x)
  BY <1>1, <1>2 DEF Quiet, MemoryInv, MemoryTyped
<1>6. MemoryTyped'
  BY <1>1, <1>2, <1>3, <1>4 DEF MemoryInv, MemoryTyped
<1>7. Together'
  BY <1>3, <1>5, QuietTogether, NothingRecalled
<1>8. Places'
  BY <1>1, <1>3 DEF Places, Runs, Kept, Writes
<1>9. Hangs'
  BY <1>1, <1>2, <1>3, <1>5, QuietHangs DEF Behind, VolumeOver, Runs, Kept, Writes
<1> QED BY <1>6, <1>7, <1>8, <1>9 DEF MemoryInv

-----------------------------------------------------------------------------
(* The end of a chapter.                                                   *)

LEMMA GoesOnward ==
  ASSUME MemoryInv, Current \in Chapter
  PROVE  /\ SM!Onward \in Work /\ SM!Onward.chapter = Current + 1 /\ SM!Onward.shown.recalled = {}
         /\ SM!Onward.at = IF Current = Chapters THEN "closure" ELSE "load"
<1> DEFINE to == IF Current = Chapters THEN "closure" ELSE "load"
<1>1. PICK shown \in Context : shown = SM!NothingShown /\ shown.recalled = {}
  BY NothingTypes, NothingRecalled
<1>2. Current + 1 \in 1..(Chapters + 1)
  BY MemoryNumbers
<1>3. SM!Onward = [work EXCEPT !.at = to, !.chapter = @ + 1, !.text = 0, !.shown = shown]
  BY <1>1 DEF SM!Onward, SM!Now, Current
<1> QED BY <1>1, <1>2, <1>3, MemoryFields, MemoryNumbers DEF Work, Current

LEMMA BlockedKeeps ==
  ASSUME MemoryInv, SM!Blocked
  PROVE  MemoryInv'
<1>1. PICK n : n = Current
  OBVIOUS
<1>2. PICK x : x = SM!Onward
  OBVIOUS
<1>3. /\ work.at = "write" /\ work' = x /\ stored' = [stored EXCEPT ![n] = 0]
      /\ UNCHANGED <<digest, told, reported, advanced, thread, counted, basis, resume, texts, events>>
  BY <1>1, <1>2 DEF SM!Blocked, SM!Now, Current
<1>4. n \in Chapter /\ n \in Nat /\ n <= Chapters /\ resume <= n + 1 /\ resume \in Nat
  BY <1>1, <1>3, MemoryFields, MemoryNumbers DEF MemoryInv, Places, Runs, Kept, Writes
<1>5. /\ x \in Work /\ x.chapter = n + 1 /\ x.shown.recalled = {}
      /\ x.at = IF n = Chapters THEN "closure" ELSE "load"
  BY <1>1, <1>2, <1>4, GoesOnward
<1>6. \A c \in Chapter : stored'[c] = IF c = n THEN 0 ELSE stored[c]
  BY <1>3 DEF MemoryInv, MemoryTyped
<1>7. MemoryTyped'
  BY <1>3, <1>5, MemoryNumbers DEF MemoryInv, MemoryTyped
<1>8. Together'
  BY <1>3, <1>5, <1>6 DEF MemoryInv, Together, Committed, IsTold
<1>9. Places'
  <2>1. \A c \in Chapter : n <= c => advanced[c] = 0
    BY <1>1, <1>3 DEF MemoryInv, Places, Writes
  <2> QED BY <1>3, <1>4, <1>5, <2>1, MemoryNumbers DEF Places, Runs, Kept, Writes, Current
<1>10. Hangs'
  <2>1. ASSUME NEW c \in Chapter, Behind(c)' PROVE Fits(c)'
    <3>1. c <= n
      BY <1>3, <1>4, <1>5, <2>1, MemoryNumbers DEF Behind, Runs, Kept, Writes, Current
    <3>2. CASE c = n
      BY <1>6, <3>2 DEF Fits
    <3>3. CASE c < n
      <4>1. Fits(c)
        BY <1>1, <1>3, <3>3 DEF MemoryInv, Hangs, Behind, Runs, Kept, Writes
      <4>2. stored'[c] = stored[c] /\ (c # 1 => stored'[c - 1] = stored[c - 1])
        BY <1>4, <1>6, <3>3, MemoryNumbers
      <4> QED BY <1>3, <4>1, <4>2 DEF Fits, SM!Ending
    <3> QED BY <1>4, <3>1, <3>2, <3>3, MemoryNumbers
  <2>2. VolumeOver' => Reported'
    <3>1. CASE n = Chapters
      BY <1>6, <3>1, MemoryNumbers DEF Reported
    <3>2. CASE n # Chapters
      BY <1>3, <1>5, <3>2 DEF VolumeOver, Kept
    <3> QED BY <3>1, <3>2
  <2> QED BY <2>1, <2>2 DEF Hangs
<1> QED BY <1>7, <1>8, <1>9, <1>10 DEF MemoryInv

LEMMA MoveCursorKeeps ==
  ASSUME MemoryInv, SM!MoveCursor
  PROVE  MemoryInv'
<1>1. PICK n, x : n = Current /\ x = [work EXCEPT !.at = "done"]
  OBVIOUS
<1>2. /\ work.at = "committed" /\ work' = x
      /\ UNCHANGED <<stored, digest, told, reported, advanced, thread, counted, basis, texts>>
      /\ resume' = (IF n < Chapters THEN n + 1 ELSE resume) \/ resume' = resume
      /\ SM!Event \/ UNCHANGED events
  BY <1>1 DEF SM!MoveCursor, SM!memory, SM!Now, Current
<1>3. n \in Chapter /\ n \in Nat /\ n <= Chapters /\ resume <= n + 1 /\ resume \in Nat
  BY <1>1, <1>2, MemoryFields, MemoryNumbers DEF MemoryInv, Places, Runs, Kept, Writes
<1>4. x \in Work /\ x.at = "done" /\ x.chapter = n /\ x.shown = work.shown
  BY <1>1, MemoryFields DEF Work, Current
<1>5. resume' \in Chapter /\ resume' <= n + 1 /\ resume' \in Nat /\ events' \in 0..MaxEvents
  BY <1>2, <1>3, MemoryFields, MemoryNumbers DEF SM!Event
<1>6. Quiet(x)
  BY <1>2 DEF Quiet, MemoryInv, MemoryTyped
<1>7. MemoryTyped'
  BY <1>2, <1>4, <1>5 DEF MemoryInv, MemoryTyped
<1>8. Together'
  <2>1. \A t \in x.shown.recalled : \E c \in Chapter : c < x.chapter /\ <<c, t>> \in told
    BY <1>1, <1>4 DEF MemoryInv, Together
  <2> QED BY <1>6, <2>1, QuietTogether
<1>9. Places'
  <2>1. SM!Ending(Current)' = SM!Ending(Current)
    BY <1>1, <1>2, <1>4 DEF SM!Ending, Current
  <2>2. work.shown.ending = SM!Ending(Current) /\ \A c \in Chapter : n < c => advanced[c] = 0
    BY <1>1, <1>2 DEF MemoryInv, Places, Kept
  <2>3. work'.at = "done" /\ Current' = n /\ work'.shown = work.shown
    BY <1>2, <1>4 DEF Current
  <2> HIDE DEF SM!Ending
  <2> QED BY <1>2, <1>3, <1>5, <2>1, <2>2, <2>3 DEF Places, Runs, Kept, Writes
<1>10. Hangs'
  <2>1. ASSUME NEW c \in Chapter, Behind(c)' PROVE Behind(c)
    <3>1. c <= n
      BY <1>2, <1>3, <1>4, <1>5, <2>1, MemoryNumbers DEF Behind, Runs, Kept, Writes, Current
    <3> QED BY <1>1, <1>2, <1>3, <3>1, MemoryNumbers DEF Behind, Runs, Kept, Writes
  <2>2. VolumeOver' => VolumeOver
    BY <1>1, <1>2, <1>4 DEF VolumeOver, Kept, Current
  <2> QED BY <1>6, <2>1, <2>2, QuietHangs
<1> QED BY <1>7, <1>8, <1>9, <1>10 DEF MemoryInv

LEMMA ChapterDoneKeeps ==
  ASSUME MemoryInv, SM!ChapterDone
  PROVE  MemoryInv'
<1>1. PICK n : n = Current
  OBVIOUS
<1>2. PICK x : x = SM!Onward
  OBVIOUS
<1>3. /\ work.at = "done" /\ work' = x
      /\ UNCHANGED <<stored, digest, told, reported, advanced, thread, counted, basis, resume, texts, events>>
  BY <1>1, <1>2 DEF SM!ChapterDone, SM!memory, SM!Now, Current
<1>4. n \in Chapter /\ n \in Nat /\ n <= Chapters /\ resume <= n + 1 /\ resume \in Nat
  BY <1>1, <1>3, MemoryFields, MemoryNumbers DEF MemoryInv, Places, Runs, Kept, Writes
<1>5. /\ x \in Work /\ x.chapter = n + 1 /\ x.shown.recalled = {}
      /\ x.at = IF n = Chapters THEN "closure" ELSE "load"
  BY <1>1, <1>2, <1>4, GoesOnward
<1>6. Quiet(x)
  BY <1>3 DEF Quiet, MemoryInv, MemoryTyped
<1>7. MemoryTyped'
  BY <1>3, <1>5 DEF MemoryInv, MemoryTyped
<1>8. Together'
  BY <1>5, <1>6, QuietTogether
<1>9. Places'
  <2>1. \A c \in Chapter : n < c => advanced[c] = 0
    BY <1>1, <1>3 DEF MemoryInv, Places, Kept
  <2> QED BY <1>3, <1>4, <1>5, <2>1, MemoryNumbers DEF Places, Runs, Kept, Writes, Current
<1>10. Hangs'
  <2>1. ASSUME NEW c \in Chapter, Behind(c)' PROVE Behind(c)
    <3>1. c <= n
      BY <1>3, <1>4, <1>5, <2>1, MemoryNumbers DEF Behind, Runs, Kept, Writes, Current
    <3> QED BY <1>1, <1>3, <1>4, <3>1, MemoryNumbers DEF Behind, Runs, Kept, Writes
  <2>2. VolumeOver' => VolumeOver
    BY <1>1, <1>3, <1>5 DEF VolumeOver, Kept
  <2> QED BY <1>6, <2>1, <2>2, QuietHangs
<1> QED BY <1>7, <1>8, <1>9, <1>10 DEF MemoryInv

\* What a commit does to the thread.
LEMMA ThreadGoes ==
  ASSUME MemoryInv, NEW n \in Chapter,
         thread' = SM!ThreadResolved(SM!ThreadFound(n, SM!ThreadAfter(n)))
  PROVE  /\ thread' \in Thread
         /\ n = Payoff => thread'.state # "planted"
         /\ n # Plant /\ thread.state # "planted" => thread'.state # "planted"
<1> DEFINE first == IF thread.planted # 0 THEN thread.planted
                    ELSE IF n = Plant \/ n = 1 THEN n ELSE n - 1
<1>1. PICK row, next : row = SM!ThreadAfter(n) /\ next = SM!ThreadFound(n, row)
  OBVIOUS
<1>2. thread \in Thread /\ n \in 0..Chapters
  BY MemoryNumbers DEF MemoryInv, MemoryTyped
<1>3. first \in 0..Chapters
  BY <1>2, MemoryNumbers DEF Thread
<1>4. row = IF n = Payoff THEN [state |-> "resolved", planted |-> first]
            ELSE IF n = Plant THEN [state |-> "planted", planted |-> first]
            ELSE thread
  BY <1>1 DEF SM!ThreadAfter
<1> HIDE DEF first
<1>5. /\ row \in Thread
      /\ n = Payoff => row.state # "planted"
      /\ n # Plant /\ thread.state # "planted" => row.state # "planted"
  BY <1>2, <1>3, <1>4 DEF Thread
<1>6. next \in Thread /\ (row.state # "planted" => next.state # "planted")
  <2>1. row.planted \in 0..Chapters
    BY <1>5 DEF Thread
  <2>2. next = row \/ next = [state |-> "found", planted |-> IF row.planted = 0 THEN n ELSE row.planted]
    BY <1>1 DEF SM!ThreadFound
  <2> QED BY <1>2, <1>5, <2>1, <2>2 DEF Thread
<1>7. thread' = next \/ thread' = [next EXCEPT !.state = "resolved"]
  BY <1>1 DEF SM!ThreadResolved
<1>8. thread' \in Thread /\ (next.state # "planted" => thread'.state # "planted")
  BY <1>6, <1>7 DEF Thread
<1> QED BY <1>5, <1>6, <1>8

LEMMA CommitKeeps ==
  ASSUME MemoryInv, SM!Commit
  PROVE  MemoryInv'
<1>1. PICK n, t, x : n = Current /\ t = work.text /\ x = [work EXCEPT !.at = "committed", !.found = SM!NothingFound]
  OBVIOUS
<1>2. /\ work.at = "commit" /\ work' = x /\ UNCHANGED <<resume, texts, events>>
      /\ stored' = [stored EXCEPT ![n] = t]
      /\ digest' = [digest EXCEPT ![n] = t]
      /\ basis' = [basis EXCEPT ![n] = work.shown.ending]
      /\ told' = told \cup {<<n, t>>} /\ reported' = reported \cup {<<n, t>>}
      /\ thread' = SM!ThreadResolved(SM!ThreadFound(n, SM!ThreadAfter(n)))
      /\ advanced' = (IF work.found.promoted THEN [advanced EXCEPT ![n] = t] ELSE advanced)
      /\ counted' = (IF n = Chapters THEN {row[2] : row \in reported'} ELSE counted)
  BY <1>1
     DEF SM!Commit, SM!SummaryAdded, SM!LongformArtifacts, SM!StoryBibleHandler, SM!RowAdded,
         SM!ProgressionHandler, SM!Upserted, SM!QualityReportHandler, SM!VolumeReport, SM!Now, Current
<1>3. /\ n \in Chapter /\ n \in Nat /\ n <= Chapters /\ resume <= n + 1 /\ resume \in Nat
      /\ t \in 1..MaxTexts /\ t \in Texts /\ t # 0
      /\ advanced[n] = 0 /\ \A c \in Chapter : n < c => advanced[c] = 0
      /\ work.shown.ending = SM!Ending(n) /\ SM!Ending(n) \in Texts
  <2>1. t \in Texts /\ t # 0 /\ n \in Chapter /\ resume <= n + 1
    BY <1>1, <1>2, MemoryFields DEF MemoryInv, Places, Runs, Kept, Writes
  <2>2. \A c \in Chapter : n <= c => advanced[c] = 0
    BY <1>1, <1>2 DEF MemoryInv, Places, Writes
  <2>3. work.shown.ending = SM!Ending(n)
    BY <1>1, <1>2 DEF MemoryInv, Places, Writes
  <2>4. work.shown.ending \in Texts
    BY MemoryFields DEF Context
  <2> QED BY <2>1, <2>2, <2>3, <2>4, MemoryFields, MemoryNumbers DEF Texts
<1>4. x \in Work /\ x.at = "committed" /\ x.chapter = n /\ x.shown = work.shown
  BY <1>1, MemoryFields, NothingTypes DEF Work, Current
<1>5. \A c \in Chapter :
        /\ stored'[c] = IF c = n THEN t ELSE stored[c]
        /\ digest'[c] = IF c = n THEN t ELSE digest[c]
        /\ basis'[c] = IF c = n THEN SM!Ending(n) ELSE basis[c]
        /\ advanced'[c] = advanced[c] \/ (c = n /\ advanced'[c] = t)
  BY <1>2, <1>3 DEF MemoryInv, MemoryTyped
<1>6. MemoryTyped'
  <2>1. /\ stored' \in [Chapter -> Texts] /\ digest' \in [Chapter -> Texts]
        /\ advanced' \in [Chapter -> Texts] /\ basis' \in [Chapter -> Texts]
    BY <1>2, <1>3 DEF MemoryInv, MemoryTyped
  <2>2. told' \subseteq Row /\ reported' \subseteq Row
    BY <1>2, <1>3, MemoryFields DEF Row
  <2>3. counted' \subseteq 1..MaxTexts
    <3>1. \A row \in reported' : row[2] \in 1..MaxTexts
      BY <2>2 DEF Row
    <3> QED BY <1>2, <3>1 DEF MemoryInv, MemoryTyped
  <2>4. thread' \in Thread
    BY <1>2, <1>3, ThreadGoes
  <2> QED BY <1>2, <1>4, <2>1, <2>2, <2>3, <2>4, MemoryFields DEF MemoryTyped
<1>7. Together'
  <2>1. ASSUME NEW c \in Chapter PROVE (Committed(c) /\ IsTold(c, digest[c]) /\ IsTold(c, advanced[c]))'
    <3>1. Committed(c) /\ IsTold(c, digest[c]) /\ IsTold(c, advanced[c])
      BY DEF MemoryInv, Together
    <3>2. CASE c = n
      BY <1>2, <1>3, <1>5, <3>2 DEF Committed, IsTold
    <3>3. CASE c # n
      BY <1>2, <1>5, <3>1, <3>3 DEF Committed, IsTold
    <3> QED BY <3>2, <3>3
  <2>2. \A s \in work'.shown.recalled : \E c \in Chapter : c < Current' /\ <<c, s>> \in told'
    BY <1>1, <1>2, <1>4 DEF MemoryInv, Together, Current
  <2> QED BY <2>1, <2>2 DEF Together
<1>8. Places'
  <2>1. SM!Ending(n)' = SM!Ending(n)
    <3>1. n # 1 => stored'[n - 1] = stored[n - 1]
      BY <1>3, <1>5, MemoryNumbers
    <3> QED BY <3>1 DEF SM!Ending
  <2>2. SM!Ending(Current)' = SM!Ending(n)'
    BY <1>2, <1>4 DEF Current, SM!Ending
  <2>3. \A c \in Chapter : n < c => advanced'[c] = 0
    BY <1>3, <1>5, MemoryNumbers
  <2>4. work'.at = "committed" /\ Current' = n /\ resume' = resume /\ work'.shown.ending = SM!Ending(n)
    BY <1>2, <1>3, <1>4 DEF Current
  <2> HIDE DEF SM!Ending
  <2> QED BY <1>3, <2>1, <2>2, <2>3, <2>4 DEF Places, Runs, Kept, Writes
<1>9. Hangs'
  <2>1. ASSUME NEW c \in Chapter, Behind(c)' PROVE Fits(c)'
    <3>1. c <= n /\ c \in Nat
      BY <1>2, <1>3, <1>4, <2>1, MemoryNumbers DEF Behind, Runs, Kept, Writes, Current
    <3>2. SM!Ending(c)' = SM!Ending(c)
      <4>1. c # 1 => stored'[c - 1] = stored[c - 1]
        BY <1>3, <1>5, <3>1, MemoryNumbers
      <4> QED BY <4>1 DEF SM!Ending
    <3>3. CASE c = n
      BY <1>2, <1>3, <1>5, <3>2, <3>3, ThreadGoes DEF Fits
    <3>4. CASE c < n
      <4>1. Fits(c)
        BY <1>1, <1>2, <3>4 DEF MemoryInv, Hangs, Behind, Runs, Kept, Writes
      <4>2. c = Payoff => n # Plant
        BY <1>3, <3>1, <3>4, MemoryNumbers
      <4> QED BY <1>2, <1>3, <1>5, <3>2, <3>4, <4>1, <4>2, ThreadGoes DEF Fits
    <3> QED BY <1>3, <3>1, <3>3, <3>4
  <2>2. VolumeOver' => Reported'
    <3>1. SUFFICES ASSUME n = Chapters PROVE Reported'
      BY <1>2, <1>4 DEF VolumeOver, Kept, Current
    <3>2. ASSUME NEW c \in Chapter, stored'[c] # 0 PROVE stored'[c] \in counted'
      <4>1. <<c, stored'[c]>> \in reported'
        BY <1>7, <3>2 DEF Together, Committed
      <4>2. <<c, stored'[c]>>[2] = stored'[c]
        OBVIOUS
      <4> QED BY <1>2, <3>1, <4>1, <4>2
    <3> QED BY <3>2 DEF Reported
  <2> QED BY <2>1, <2>2 DEF Hangs
<1> QED BY <1>6, <1>7, <1>8, <1>9 DEF MemoryInv

LEMMA MemoryStays == MemoryInv /\ UNCHANGED memoryVars => MemoryInv'
<1> SUFFICES ASSUME MemoryInv, UNCHANGED memoryVars PROVE MemoryInv'
  OBVIOUS
<1> USE DEF memoryVars
<1>1. MemoryTyped'
  BY DEF MemoryInv, MemoryTyped
<1>2. Together'
  BY DEF MemoryInv, Together, Committed, IsTold, Current
<1>3. Places'
  BY DEF MemoryInv, Places, Current, SM!Ending
<1>4. Hangs'
  BY DEF MemoryInv, Hangs, Behind, Fits, SM!Ending, VolumeOver, Kept, Reported, Current
<1> QED BY <1>1, <1>2, <1>3, <1>4 DEF MemoryInv

\* A step of the whole is one of the memory's module, or leaves it alone.
LEMMA MemoryStep == MemoryInv /\ [ChapterNext]_chapterVars => MemoryInv'
<1>1. [ChapterNext]_chapterVars => SM!Next \/ UNCHANGED memoryVars
  BY DEF ChapterNext, LoopNext, LoopMoves, ReviewNext, ReviewMoves, MemoryNext, SM!Next, chapterVars
<1>2. MemoryInv /\ SM!Next => MemoryInv'
  BY StartKeeps, LoadContextKeeps, WritingKeeps, BlockedKeeps, CommitKeeps, MoveCursorKeeps,
     ChapterDoneKeeps, TailRewriteKeeps, LeavingKeeps
     DEF SM!Next
<1> QED BY <1>1, <1>2, MemoryStays

-----------------------------------------------------------------------------
\* A chapter that has a text has the summary, the entries, the report and no other
\* progression memory than that of this very text, and a writer is shown nothing
\* but what was committed in a chapter before, whatever is rerun, rewritten, blocked
\* or lost on the way (node_finalize, chapter_commit.py, rollback_progression_range).
THEOREM ChaptersAreCommitted == ChapterSpec => []CommittedTogether
<1>1. ChapterInit => MemoryInv
  BY FirstMemory DEF ChapterInit
<1>2. MemoryInv => CommittedTogether
  BY TogetherIsCommitted DEF MemoryInv, CommittedTogether
<1> QED BY <1>1, <1>2, MemoryStep, PTL DEF ChapterSpec

\* Every chapter of a segment that is over was written after the ending its
\* predecessor has, its payoff is not left open by the outline that planted it, and
\* the report of the volume counts every text that stayed (load_context, tail_rewrite, chapter_commit.py).
THEOREM SegmentsHangTogether == ChapterSpec => []SegmentHangsTogether
<1>1. ChapterInit => MemoryInv
  BY FirstMemory DEF ChapterInit
<1>2. MemoryInv => SegmentHangsTogether
  BY HangsIsTogether DEF MemoryInv, SegmentHangsTogether
<1> QED BY <1>1, <1>2, MemoryStep, PTL DEF ChapterSpec

-----------------------------------------------------------------------------
(***************************************************************************)
(* DraftReview.                                                            *)
(***************************************************************************)

\* What reviewers are sure of after so many calls of their own: each adds at most a
\* hundred, and one that was skipped thirty.
Doubts(p, calls) ==
  /\ {"confidence", "skipped"} \subseteq DOMAIN p
  /\ p.confidence \in Nat /\ p.skipped \in Nat
  /\ p.confidence + 70 * p.skipped <= 100 * calls

Calls == IF at = "write" THEN 0 ELSE IF at \in {"ask", "grade"} THEN asked.reviewer - 1 ELSE 4

ReviewInv ==
  /\ asked \in [reviewer: 1..5, attempt: Nat, try: Nat]
  /\ at = "write" => asked.reviewer = 1
  /\ at \in {"ask", "grade"} => asked.reviewer \in 1..4
  /\ mode = "separate" => Doubts(pack, Calls)

-----------------------------------------------------------------------------
\* What one verdict adds.
LEMMA Counts ==
  ASSUME NEW p, NEW calls \in Nat, Doubts(p, calls), NEW r, NEW v, NEW q,
         v.confidence \in 0..100, q = DR!Counted(p, r, v)
  PROVE  Doubts(q, calls + 1) /\ q.skipped = p.skipped
                              /\ q.confidence <= p.confidence + (IF v.confidence = 0 THEN 100 ELSE v.confidence)
<1> DEFINE sure == DR!Read(v.confidence, IF mode = "combined" \/ r = 1 THEN 60 ELSE 75)
<1>1. sure \in 0..100 /\ sure <= IF v.confidence = 0 THEN 100 ELSE v.confidence
  BY DEF DR!Read
<1> HIDE DEF sure
<1>2. /\ q.confidence = p.confidence + sure /\ q.skipped = p.skipped
      /\ {"confidence", "skipped"} \subseteq DOMAIN q
  BY DEF DR!Counted, Doubts, sure
<1> QED BY <1>1, <1>2 DEF Doubts

LEMMA FirstReview == DR!ReviewInit => ReviewInv
  BY DEF DR!ReviewInit, DR!FirstAsked, DR!NoPack, ReviewInv, Doubts, Calls

\* A reviewer's call is over: the next one's, or the gate.
LEMMA CallIsOver ==
  ASSUME ReviewInv, NEW r \in 1..4, DR!Onward(r), UNCHANGED mode,
         mode = "separate" => Doubts(pack', r)
  PROVE  ReviewInv'
<1>1. asked' = [reviewer |-> r + 1, attempt |-> 0, try |-> 1]
  BY DEF DR!Onward, DR!FirstAsked
<1>2. asked' \in [reviewer: 1..5, attempt: Nat, try: Nat] /\ asked'.reviewer = r + 1
  BY <1>1
<1>3. IF r = 4 THEN at' = "gate" ELSE at' \in {"ask", "grade"}
  BY DEF DR!Onward
<1>4. Calls' = r
  BY <1>2, <1>3 DEF Calls
<1>5. mode' = "separate" => Doubts(pack, Calls)'
  BY <1>4 DEF Doubts
<1> QED BY <1>2, <1>3, <1>5 DEF ReviewInv

LEMMA ReviewKeeps == ReviewInv /\ DR!ReviewNext => ReviewInv'
<1> SUFFICES ASSUME ReviewInv, DR!ReviewNext PROVE ReviewInv'
  OBVIOUS
<1>1. CASE DR!DraftWritten \/ DR!WriterCallFails \/ DR!WriterRaises
  BY <1>1 DEF DR!DraftWritten, DR!WriterCallFails, DR!WriterRaises, ReviewInv, Doubts, Calls
<1>2. CASE DR!ReviewerAnswers \/ DR!Route
  BY <1>2 DEF DR!ReviewerAnswers, DR!Route, ReviewInv, Doubts, Calls
<1>3. CASE DR!TransientError \/ DR!AskAgain
  <2>1. /\ at = "ask" /\ UNCHANGED <<mode, pack, at>>
        /\ \/ asked' = [asked EXCEPT !.try = @ + 1]
           \/ asked' = [asked EXCEPT !.attempt = @ + 1, !.try = 1]
    BY <1>3 DEF DR!TransientError, DR!AskAgain
  <2>2. asked' \in [reviewer: 1..5, attempt: Nat, try: Nat] /\ asked'.reviewer = asked.reviewer
    <3>1. asked \in [reviewer: 1..5, attempt: Nat, try: Nat]
      BY DEF ReviewInv
    <3>2. asked.attempt + 1 \in Nat /\ asked.try + 1 \in Nat
      BY <3>1
    <3>3. CASE asked' = [asked EXCEPT !.try = @ + 1]
      BY <3>1, <3>2, <3>3
    <3>4. CASE asked' = [asked EXCEPT !.attempt = @ + 1, !.try = 1]
      BY <3>1, <3>2, <3>4
    <3> QED BY <2>1, <3>3, <3>4
  <2> QED BY <2>1, <2>2 DEF ReviewInv, Doubts, Calls
<1>4. CASE \E v \in DR!Verdict : DR!Graded(v)
  <2>1. PICK v \in DR!Verdict : DR!Graded(v)
    BY <1>4
  <2>2. PICK r : r = asked.reviewer
    OBVIOUS
  <2>3. r \in 1..4 /\ (mode = "separate" => Doubts(pack, r - 1))
    BY <2>1, <2>2 DEF DR!Graded, ReviewInv, Doubts, Calls
  <2>4. v.confidence \in 0..100
    BY <2>1, ChapterAssumption DEF DR!Verdict
  <2>5. pack' = DR!Counted(pack, r, v) /\ DR!Onward(r) /\ UNCHANGED mode
    BY <2>1, <2>2 DEF DR!Graded
  <2>6. mode = "separate" => Doubts(pack', r)
    BY <2>3, <2>4, <2>5, Counts
  <2> QED BY <2>3, <2>5, <2>6, CallIsOver
<1>5. CASE DR!ReviewerSkipped
  <2>1. PICK r : r = asked.reviewer
    OBVIOUS
  <2>2. r \in 1..4 /\ Doubts(pack, r - 1)
    BY <1>5, <2>1 DEF DR!ReviewerSkipped, ReviewInv, Doubts, Calls
  <2>3. PICK q : q = DR!Counted(pack, r, DR!Fallback)
    OBVIOUS
  <2>4. DR!Fallback.confidence = 30
    BY DEF DR!Fallback
  <2>5. Doubts(q, r) /\ q.skipped = pack.skipped /\ q.confidence <= pack.confidence + 30
    BY <2>2, <2>3, <2>4, Counts
  <2>6. pack' = [q EXCEPT !.skipped = @ + 1] /\ DR!Onward(r) /\ UNCHANGED mode
    BY <1>5, <2>1, <2>3 DEF DR!ReviewerSkipped
  <2>7. Doubts(pack', r)
    BY <2>2, <2>5, <2>6 DEF Doubts
  <2> QED BY <2>2, <2>6, <2>7, CallIsOver
<1>6. CASE DR!CombinedFails
  <2>1. mode # "separate" /\ DR!Onward(4) /\ UNCHANGED mode
    BY <1>6 DEF DR!CombinedFails
  <2> QED BY <2>1, CallIsOver
<1> QED BY <1>1, <1>2, <1>3, <1>4, <1>5, <1>6 DEF DR!ReviewNext

LEMMA ReviewStep == ReviewInv /\ [ChapterNext]_chapterVars => ReviewInv'
<1>1. [ChapterNext]_chapterVars => DR!ReviewNext \/ UNCHANGED reviewVars
  BY DEF ChapterNext, LoopNext, LoopMoves, ReviewNext, ReviewMoves, MemoryNext, MemoryMoves,
         DR!ReviewNext, chapterVars
<1>2. ReviewInv /\ UNCHANGED reviewVars => ReviewInv'
  BY DEF ReviewInv, Doubts, Calls, reviewVars
<1> QED BY <1>1, <1>2, ReviewKeeps

\* Where each reviewer is asked by a call of its own, the gate never consents on the
\* word of two that were skipped: a skipped one is so unsure that the others cannot
\* make up for it (_REVIEWER_FALLBACK, build_review_gate).
THEOREM ConsentIsInformed == ChapterSpec => []SkippedNeverConsents
<1>1. ChapterInit => ReviewInv
  BY FirstReview DEF ChapterInit
<1>2. ReviewInv => SkippedNeverConsents
  BY DEF ReviewInv, Doubts, Calls, SkippedNeverConsents, DR!SkippedNeverConsents, DR!Consents
<1> QED BY <1>1, <1>2, ReviewStep, PTL DEF ChapterSpec
===============================================================================
