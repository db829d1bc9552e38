------------------------- MODULE BookGenerationProofs -------------------------
(* Theorems about BookGeneration, for every value of its constants.        *)
EXTENDS BookGeneration, TLAPS

\* The first n chapters are written.
Upto(n) == 1..n \subseteq written

\* What is persisted: the chapters before the one to resume at are written,
\* a book whose segments are over is long enough, and a task that has
\* persisted no position has not done anything else either.
StoredInv ==
  /\ ResumeLosesNothing
  /\ rt.mode # "segment_running" => Upto(MinTotal)
  /\ rt.next = 0 => /\ rt.mode = "segment_running"
                    /\ last = 0 /\ cursor \in {0, 1}
                    /\ pc \in {"off", "loop", "finish"}

\* What the executor relies on.
ExecutorInv ==
  /\ pc \in {"loop", "init"} =>
       /\ book.mode = "segment_running" =>
            Upto(book.next - 1) /\ 1 <= book.start /\ book.start <= book.next
       /\ book.mode # "segment_running" => Upto(MinTotal)
       /\ Target <= book.bookEnd
  /\ pc = "init" => book.mode = "segment_running" /\ rt.mode = "segment_running"
  /\ pc \in {"review", "reviewed", "finish"} \/ status = "completed" => Upto(MinTotal)

\* What the graph relies on.
GraphInv ==
  pc \in {"write", "written", "done", "gate"} =>
    /\ 1 <= seg.start /\ seg.start <= seg.cur
    /\ Upto(seg.cur - 1)
    /\ pc \in {"written", "done"} => seg.cur \in written

BookInv == TypeOK /\ StoredInv /\ ExecutorInv /\ GraphInv /\ NoGaps

-----------------------------------------------------------------------------
\* The bounds of the length are in order.
LEMMA Totals ==
  /\ MinTotal \in Nat /\ MaxTotal \in Nat
  /\ 1 <= MinTotal /\ MinTotal <= Target /\ Target <= MaxTotal
  BY BookAssumption DEF MinTotal, MaxTotal, Larger

\* The records that stand for no position have their types.
LEMMA NoPositions ==
  /\ NoPlan \in SegmentPlan /\ NoRuntime \in RuntimeState
  /\ NoBook \in ExecutorState /\ NoSegment \in GraphState
<1>1. NoPlan \in SegmentPlan
  BY DEF NoPlan, SegmentPlan
<1>2. NoRuntime \in RuntimeState /\ NoBook \in ExecutorState
  BY <1>1 DEF NoRuntime, RuntimeState, NoBook, ExecutorState, Mode
<1>3. NoSegment \in GraphState
  BY <1>1, BookAssumption DEF NoSegment, GraphState
<1> QED BY <1>1, <1>2, <1>3

\* A new task has persisted and written nothing.
LEMMA InvInit == Init => BookInv
<1> SUFFICES ASSUME Init PROVE BookInv
  OBVIOUS
<1>1. TypeOK
  <2>1. reviewed \in BOOLEAN /\ written \subseteq Nat \ {0}
    BY DEF Init
  <2>2. rt \in RuntimeState /\ book \in ExecutorState /\ seg \in GraphState
    BY NoPositions DEF Init
  <2>3. faults \in 0..MaxFaults
    BY BookAssumption DEF Init
  <2> QED BY <2>1, <2>2, <2>3 DEF Init, TypeOK
<1>2. StoredInv
  BY DEF Init, StoredInv, ResumeLosesNothing, NoRuntime, Upto
<1>3. ExecutorInv /\ GraphInv /\ NoGaps
  BY DEF Init, ExecutorInv, GraphInv, NoGaps
<1> QED BY <1>1, <1>2, <1>3 DEF BookInv

-----------------------------------------------------------------------------
\* An execution starts at the persisted position, or finds the task complete.
LEMMA BeginStep == BookInv /\ Begin => BookInv'
<1> SUFFICES ASSUME BookInv, Begin PROVE BookInv'
  OBVIOUS
<1> USE Totals, BookAssumption DEF BookInv
<1> DEFINE end == IF rt.bookEnd # 0 THEN rt.bookEnd ELSE Target
           bookEnd == Larger(Target, end)
           next == IF rt.mode = "segment_running" THEN StoredNext ELSE end + 1
           w == Window(StoredNext, bookEnd)
<1>1. end \in Nat /\ bookEnd \in Nat /\ Target <= bookEnd
  BY DEF TypeOK, RuntimeState, ExecutorState, Larger
<1>2. StoredNext \in Nat /\ 1 <= StoredNext
  BY DEF StoredNext, TypeOK, RuntimeState, ExecutorState
<1>3. next \in Nat /\ 1 <= next
  BY <1>1, <1>2
<1>4. w.start \in Nat /\ w.end \in Nat /\ 1 <= w.start /\ w.start <= StoredNext
  BY <1>1, <1>2 DEF Window, TypeOK, RuntimeState, Smaller
<1>5. rt.mode = "segment_running" => Upto(StoredNext - 1)
  BY DEF StoredNext, StoredInv, ResumeLosesNothing, Upto, TypeOK, RuntimeState, ExecutorState
<1>6. rt.mode # "segment_running" => Upto(MinTotal)
  BY DEF StoredInv
<1>7. /\ ResumePlan \in ExecutorState
      /\ ResumePlan.mode = rt.mode /\ ResumePlan.next = next
      /\ ResumePlan.start = w.start /\ ResumePlan.bookEnd = bookEnd
  <2> DEFINE floor == IF rt.floor # 0 THEN rt.floor ELSE StoredNext
             least == IF rt.mode = "segment_running" THEN Larger(floor, next) ELSE floor
  <2>1. least \in Nat /\ rt.mode \in Mode
    BY <1>2, <1>3 DEF TypeOK, RuntimeState, Larger
  <2>2. ResumePlan = [mode |-> rt.mode, next |-> next, start |-> w.start,
                      end |-> w.end, bookEnd |-> bookEnd, floor |-> least]
    BY DEF ResumePlan
  <2> HIDE DEF least, next, w, bookEnd
  <2> QED BY <1>1, <1>3, <1>4, <2>1, <2>2 DEF ExecutorState
<1>8. /\ book' = ResumePlan /\ cursor' = next
      /\ pc' = IF rt.mode = "completed" \/ next > bookEnd THEN "finish" ELSE "loop"
      /\ UNCHANGED <<status, rt, last, written, reviewed, seg, faults>>
      /\ pc = "off"
  BY <1>7 DEF Begin
<1>9. TypeOK'
  BY <1>3, <1>7, <1>8 DEF TypeOK
<1>10. StoredInv'
  BY <1>2, <1>3, <1>8 DEF StoredInv, ResumeLosesNothing, Upto, StoredNext
<1>11. ExecutorInv'
  <2>1. pc' = "finish" => Upto(MinTotal)
    BY <1>1, <1>3, <1>5, <1>6, <1>8 DEF Upto, TypeOK, RuntimeState, Mode
  <2> QED BY <2>1, <1>1, <1>3, <1>4, <1>5, <1>6, <1>7, <1>8 DEF ExecutorInv, Upto
<1>12. GraphInv' /\ NoGaps'
  BY <1>8 DEF GraphInv, NoGaps
<1> QED BY <1>9, <1>10, <1>11, <1>12

\* Going on to the next segment, or to the review.
LEMMA LoopStep == BookInv /\ (StartSegment \/ EndLoop) => BookInv'
<1> SUFFICES ASSUME BookInv, StartSegment \/ EndLoop PROVE BookInv'
  OBVIOUS
<1> USE Totals, BookAssumption DEF BookInv, MoreSegments
<1>1. CASE StartSegment
  <2>1. TypeOK'
    <3>1. rt' \in RuntimeState
      BY <1>1, NoPositions DEF StartSegment, TypeOK, RuntimeState, ExecutorState, Mode
    <3> QED BY <1>1, <3>1 DEF StartSegment, TypeOK, ExecutorState
  <2>2. StoredInv'
    BY <1>1 DEF StartSegment, StoredInv, ExecutorInv, ResumeLosesNothing, Upto, TypeOK, ExecutorState
  <2>3. ExecutorInv' /\ GraphInv' /\ NoGaps'
    BY <1>1 DEF StartSegment, ExecutorInv, GraphInv, NoGaps, Upto
  <2> QED BY <2>1, <2>2, <2>3
<1>2. CASE EndLoop
  <2>1. Upto(MinTotal)
    BY <1>2 DEF EndLoop, ExecutorInv, Upto, TypeOK, ExecutorState, Mode
  <2>2. TypeOK'
    <3> DEFINE n == Larger(book.bookEnd + 1, book.next)
    <3>1. n \in Nat /\ book.next \in Nat /\ book.end \in Nat /\ book.bookEnd \in Nat
      BY DEF TypeOK, ExecutorState, Larger
    <3>2. rt' = [rt EXCEPT !.mode = "book_final_review_pending", !.next = n,
                           !.start = book.next, !.end = book.bookEnd,
                           !.bookEnd = book.bookEnd]
      BY <1>2 DEF EndLoop
    <3>3. rt \in RuntimeState /\ "book_final_review_pending" \in Mode
      BY DEF TypeOK, Mode
    <3>4. rt' \in RuntimeState
      <4> HIDE Totals, BookAssumption DEF n, BookInv
      <4> QED BY <3>1, <3>2, <3>3 DEF RuntimeState
    <3> QED BY <1>2, <3>1, <3>4 DEF EndLoop, TypeOK, ExecutorState
  <2>3. rt'.mode = "book_final_review_pending" /\ rt'.next # 0
    BY <1>2 DEF EndLoop, TypeOK, RuntimeState, ExecutorState, Larger
  <2>4. StoredInv'
    BY <1>2, <2>1, <2>3 DEF EndLoop, StoredInv, ResumeLosesNothing, Upto
  <2>5. ExecutorInv' /\ GraphInv' /\ NoGaps'
    BY <1>2, <2>1 DEF EndLoop, ExecutorInv, GraphInv, NoGaps, Upto
  <2> QED BY <2>2, <2>4, <2>5
<1> QED BY <1>1, <1>2

\* The executor takes over the position that the graph persisted.
LEMMA EndSegmentStep == BookInv /\ EndSegment => BookInv'
<1> SUFFICES ASSUME BookInv, EndSegment PROVE BookInv'
  OBVIOUS
<1> USE Totals, BookAssumption DEF BookInv
<1> DEFINE bookEnd == Larger(Larger(book.bookEnd, rt.bookEnd), Target)
           w == Window(rt.next, bookEnd)
<1>1. bookEnd \in Nat /\ Target <= bookEnd
  BY DEF TypeOK, RuntimeState, ExecutorState, Larger
<1>2. rt.next \in Nat /\ 1 <= rt.next
  BY DEF EndSegment, StoredInv, TypeOK, RuntimeState, ExecutorState
<1>3. w.start \in Nat /\ w.end \in Nat /\ 1 <= w.start /\ w.start <= rt.next
  BY <1>1, <1>2 DEF Window, TypeOK, RuntimeState, Smaller
<1>4. TypeOK'
  BY <1>1, <1>2, <1>3, NoPositions DEF EndSegment, stored, TypeOK, RuntimeState, ExecutorState

<1>5. StoredInv'
  BY <1>2 DEF EndSegment, stored, StoredInv, ResumeLosesNothing, Upto
<1>6. /\ book'.mode = rt.mode /\ book'.next = rt.next
      /\ book'.start = w.start /\ book'.bookEnd = bookEnd
      /\ pc' = "loop" /\ UNCHANGED <<written, status>>
  BY DEF EndSegment, stored
<1>7. ExecutorInv'
  BY <1>1, <1>3, <1>6 DEF ExecutorInv, StoredInv, ResumeLosesNothing, Upto
<1>8. GraphInv' /\ NoGaps'
  BY <1>6 DEF GraphInv, NoGaps
<1> QED BY <1>4, <1>5, <1>7, <1>8

\* The review and the end of the task.
LEMMA ReviewStep == BookInv /\ (Review \/ ReviewDone \/ Finish) => BookInv'
<1> SUFFICES ASSUME BookInv, Review \/ ReviewDone \/ Finish PROVE BookInv'
  OBVIOUS
<1> USE Totals, BookAssumption DEF BookInv
<1>1. Upto(MinTotal)
  BY DEF Review, ReviewDone, Finish, ExecutorInv
<1>2. /\ book.bookEnd \in Nat /\ rt \in RuntimeState
      /\ "book_final_review_pending" \in Mode /\ "completed" \in Mode
  BY DEF TypeOK, ExecutorState, Mode
<1>3. faults' \in 0..MaxFaults
  BY DEF Review, ReviewDone, Finish, Persist, Fault, TypeOK
<1>4. \/ UNCHANGED rt
      \/ rt' \in RuntimeState /\ rt'.mode # "segment_running" /\ rt'.next # 0
  <2> DEFINE n == book.bookEnd + 1
  <2>0. n \in Nat /\ n # 0
    BY <1>2
  <2>1. CASE Review
    <3>1. \/ UNCHANGED rt
          \/ rt' = [rt EXCEPT !.mode = "book_final_review_pending", !.next = n,
                             !.start = 1, !.end = book.bookEnd, !.bookEnd = book.bookEnd]
      BY <2>1 DEF Review, Persist
    <3> HIDE Totals, BookAssumption DEF n, BookInv
    <3>2. ASSUME rt' # rt PROVE rt' \in RuntimeState
      <4> DEFINE a == 1
      <4>1. a \in Nat
        OBVIOUS
      <4>2. rt' = [rt EXCEPT !.mode = "book_final_review_pending", !.next = n,
                             !.start = a, !.end = book.bookEnd, !.bookEnd = book.bookEnd]
        BY <3>1, <3>2
      <4> HIDE DEF a
      <4> QED BY <4>1, <4>2, <1>2, <2>0 DEF RuntimeState
    <3>3. ASSUME rt' # rt PROVE rt'.mode # "segment_running" /\ rt'.next # 0
      BY <3>1, <3>3, <1>2, <2>0 DEF RuntimeState
    <3> QED BY <3>2, <3>3
  <2>2. CASE ReviewDone
    <3>1. UNCHANGED rt \/ rt' = [rt EXCEPT !.mode = "completed", !.next = n]
      BY <2>2 DEF ReviewDone, Persist
    <3> HIDE Totals, BookAssumption DEF n, BookInv
    <3> QED BY <3>1, <1>2, <2>0 DEF RuntimeState
  <2>3. CASE Finish
    BY <2>3 DEF Finish, stored
  <2> QED BY <2>1, <2>2, <2>3
<1>5. UNCHANGED <<written, cursor, last, seg>>
  BY DEF Review, ReviewDone, Finish, stored
<1>6. TypeOK'
  <2>1. rt' \in RuntimeState /\ book' \in ExecutorState /\ reviewed' \in BOOLEAN
    BY <1>2, <1>4, NoPositions DEF Review, ReviewDone, Finish, TypeOK, stored
  <2> QED BY <1>3, <1>5, <2>1 DEF Review, ReviewDone, Finish, TypeOK
<1>7. rt' = rt \/ (rt'.mode # "segment_running" /\ rt'.next # 0)
  BY <1>2, <1>4
<1>8. \/ pc \in {"review", "reviewed"} /\ pc' \in {"reviewed", "finish"}
      \/ pc = "finish" /\ pc' = "off"
  BY DEF Review, ReviewDone, Finish
<1>9. StoredInv'
  BY <1>1, <1>5, <1>7, <1>8 DEF StoredInv, ResumeLosesNothing, Upto
<1>10. ExecutorInv' /\ GraphInv' /\ NoGaps'
  BY <1>1, <1>5, <1>8 DEF ExecutorInv, GraphInv, NoGaps, Upto
<1> QED BY <1>6, <1>9, <1>10

-----------------------------------------------------------------------------
\* What the graph persists is a runtime state at the chapter it names.
LEMMA PositionState ==
  ASSUME NEW m \in Mode, NEW n \in Nat, NEW s \in GraphState
  PROVE  /\ Position(m, n, s) \in RuntimeState
         /\ Position(m, n, s).mode = m /\ Position(m, n, s).next = n
  BY DEF Position, RuntimeState, GraphState

\* If the chapters before a position are written, persisting it, or failing
\* to, leaves a state that loses nothing.
LEMMA PersistStep ==
  ASSUME BookInv, rt.next # 0, UNCHANGED <<written, cursor, last>>,
         NEW m \in Mode, NEW n \in Nat \ {0}, NEW s \in GraphState,
         Persist(Position(m, n, s)),
         m = "segment_running" => Upto(n - 1),
         m # "segment_running" => Upto(MinTotal)
  PROVE  rt' \in RuntimeState /\ faults' \in 0..MaxFaults /\ StoredInv'
<1> DEFINE p == Position(m, n, s)
<1>1. p \in RuntimeState /\ p.mode = m /\ p.next = n
  BY PositionState
<1>2. rt \in RuntimeState /\ faults \in 0..MaxFaults /\ StoredInv
  BY DEF BookInv, TypeOK
<1>3. (rt' = p /\ faults' = faults) \/ (rt' = rt /\ faults' \in 0..MaxFaults)
  BY <1>2, BookAssumption DEF Persist, Fault
<1> HIDE DEF p
<1>4. CASE rt' = p
  BY <1>1, <1>2, <1>3, <1>4 DEF StoredInv, ResumeLosesNothing, Upto
<1>5. CASE rt' = rt
  BY <1>2, <1>3, <1>5 DEF StoredInv, ResumeLosesNothing, Upto
<1> QED BY <1>3, <1>4, <1>5

\* The graph owes the executor nothing but what it writes.
LEMMA InGraph ==
  ASSUME BookInv, written \subseteq written', status' \in {status, "parked"},
         pc' \in {"off", "write", "written", "done", "gate", "after"}
  PROVE  ExecutorInv'
  BY DEF BookInv, ExecutorInv, Upto

\* A plan for the present range is a plan.
LEMMA PlanUpdate ==
  ASSUME NEW s \in GraphState, NEW k \in {"normal"} \cup Structural
  PROVE  Plan(k, s) \in SegmentPlan /\ [s EXCEPT !.plan = Plan(k, s)] \in GraphState
<1> DEFINE p == Plan(k, s)
<1>1. p \in SegmentPlan
  BY DEF Plan, SegmentPlan, GraphState
<1> HIDE DEF p
<1>2. [s EXCEPT !.plan = p] \in GraphState
  BY <1>1 DEF GraphState
<1> QED BY <1>1, <1>2 DEF p

\* The chapter of the graph moves, or is to be run once more.
LEMMA ChapterUpdate ==
  ASSUME NEW s \in GraphState, NEW c \in Nat, NEW r \in BOOLEAN
  PROVE  /\ [s EXCEPT !.cur = c] \in GraphState
         /\ [s EXCEPT !.rerun = r] \in GraphState
         /\ [s EXCEPT !.cur = c, !.rerun = r] \in GraphState
  BY DEF GraphState

\* A tail rewrite moves back, counts and names its plan.
LEMMA RewriteUpdate ==
  ASSUME NEW s \in GraphState, NEW c \in Nat, NEW t \in 0..2, NEW p \in SegmentPlan
  PROVE  [s EXCEPT !.cur = c, !.tails = t, !.plan = p] \in GraphState
  BY DEF GraphState

\* The closure gate shortens or lengthens the range.
LEMMA RangeUpdate ==
  ASSUME NEW s \in GraphState, NEW b \in Nat, NEW e \in Nat, NEW d \in 0..Flex
  PROVE  /\ [s EXCEPT !.bookEnd = b, !.end = e] \in GraphState
         /\ [s EXCEPT !.bookEnd = b, !.end = e, !.bridges = d] \in GraphState
  BY DEF GraphState

-----------------------------------------------------------------------------
\* The graph starts a segment behind written chapters.
LEMMA InitGraphStep == BookInv /\ InitGraph => BookInv'
<1> SUFFICES ASSUME BookInv, InitGraph PROVE BookInv'
  OBVIOUS
<1> DEFINE cur == IF rt.next \in book.start..(book.end + 1) THEN rt.next ELSE book.start
           s == [cur |-> cur, start |-> book.start, end |-> book.end,
                 bookEnd |-> Larger(book.bookEnd, book.end),
                 floor |-> IF rt.floor # 0 THEN rt.floor ELSE cur,
                 plan |-> NoPlan, tails |-> 0, bridges |-> 0, rerun |-> FALSE]
           fresh == [s EXCEPT !.plan = Plan("normal", s)]
<1>1. /\ rt \in RuntimeState /\ book \in ExecutorState
      /\ pc = "init" /\ pc' \in {"write", "after"}
      /\ UNCHANGED <<status, cursor, last, written, reviewed, book>>
      /\ status \in {"active", "parked", "completed"} /\ cursor \in Nat /\ last \in Nat
      /\ written \subseteq Nat \ {0} /\ faults \in 0..MaxFaults
      /\ reviewed \in BOOLEAN
  BY DEF InitGraph, Route, BookInv, TypeOK
<1>2. /\ rt.next \in Nat \ {0} /\ book.start \in Nat \ {0} /\ book.start <= book.next
      /\ Upto(rt.next - 1) /\ Upto(book.next - 1)
  BY <1>1 DEF BookInv, StoredInv, ResumeLosesNothing, ExecutorInv, Upto, RuntimeState,
              ExecutorState
<1>3. cur \in Nat \ {0} /\ book.start <= cur /\ Upto(cur - 1)
  BY <1>1, <1>2 DEF Upto, ExecutorState
<1>4. s \in GraphState /\ s.cur = cur /\ s.start = book.start
  <2>1. Larger(book.bookEnd, book.end) \in Nat /\ s.floor \in Nat
    BY <1>1, <1>3 DEF Larger, RuntimeState, ExecutorState
  <2> HIDE DEF cur
  <2> QED BY <1>1, <1>3, <2>1, NoPositions, BookAssumption DEF GraphState, ExecutorState
<1>5. fresh \in GraphState /\ fresh.cur = cur /\ fresh.start = book.start
  <2>1. fresh \in GraphState
    <3> HIDE DEF s
    <3> QED BY <1>4, PlanUpdate
  <2> QED BY <2>1
<1>6. \/ seg' = [s EXCEPT !.plan = rt.plan] /\ UNCHANGED <<rt, faults>>
      \/ seg' = fresh /\ Persist(Position("segment_running", cur, fresh))
  BY DEF InitGraph
<1>7. seg' \in GraphState /\ seg'.cur = cur /\ seg'.start = book.start
  <2>1. rt.plan \in SegmentPlan
    BY <1>1 DEF RuntimeState
  <2>2. [s EXCEPT !.plan = rt.plan] \in GraphState
    <3> HIDE DEF s
    <3> QED BY <1>4, <2>1 DEF GraphState
  <2> QED BY <1>5, <1>6, <2>2
<1>8. rt' \in RuntimeState /\ faults' \in 0..MaxFaults /\ StoredInv'
  <2>1. CASE UNCHANGED <<rt, faults>>
    BY <1>1, <1>2, <2>1 DEF BookInv, StoredInv, ResumeLosesNothing, Upto
  <2>2. CASE Persist(Position("segment_running", cur, fresh))
    <3>1. "segment_running" \in Mode
      BY DEF Mode
    <3> HIDE DEF cur, fresh
    <3> QED BY <1>1, <1>2, <1>3, <1>5, <2>2, <3>1, PersistStep
  <2> QED BY <1>6, <2>1, <2>2
<1>9. TypeOK'
  BY <1>1, <1>7, <1>8 DEF TypeOK
<1>10. ExecutorInv'
  BY <1>1, InGraph
<1>11. GraphInv' /\ NoGaps'
  BY <1>1, <1>2, <1>3, <1>7 DEF GraphInv, Upto, NoGaps, BookInv
<1> QED BY <1>8, <1>9, <1>10, <1>11 DEF BookInv

\* A chapter is written, and told to the rest of the system.
LEMMA WriteStep ==
  BookInv /\ (WriteChapter \/ BlockChapter \/ ChapterDone) => BookInv'
<1> SUFFICES ASSUME BookInv, WriteChapter \/ BlockChapter \/ ChapterDone
             PROVE  BookInv'
  OBVIOUS
<1>1. /\ TypeOK /\ StoredInv /\ GraphInv /\ NoGaps
      /\ seg \in GraphState /\ seg.cur \in Nat \ {0}
      /\ Upto(seg.cur - 1) /\ pc \in {"write", "written"}
  BY DEF BookInv, TypeOK, GraphInv, WriteChapter, BlockChapter, ChapterDone, GraphState
<1>2. UNCHANGED <<status, rt, reviewed, book>>
  BY DEF WriteChapter, BlockChapter, ChapterDone
<1>3. rt.next # 0
  BY <1>1 DEF StoredInv
<1>4. CASE WriteChapter \/ BlockChapter
  <2>1. written' = written \cup {seg.cur} /\ UNCHANGED <<cursor, last, faults>>
    BY <1>4 DEF WriteChapter, BlockChapter
  <2>2. /\ seg' \in GraphState /\ seg'.start = seg.start
        /\ \/ pc' = "written" /\ seg' = seg
           \/ pc' = "gate" /\ seg'.cur = seg.cur + 1
    <3>1. CASE WriteChapter
      BY <1>1, <3>1 DEF WriteChapter
    <3>2. CASE BlockChapter
      <4>1. seg.cur + 1 \in Nat
        BY <1>1
      <4>2. seg' = [seg EXCEPT !.cur = seg.cur + 1] /\ pc' = "gate"
        BY <3>2 DEF BlockChapter
      <4> QED BY <1>1, <4>1, <4>2, ChapterUpdate DEF GraphState
    <3> QED BY <1>4, <3>1, <3>2
  <2>3. TypeOK'
    BY <1>1, <1>2, <2>1, <2>2 DEF TypeOK
  <2>4. StoredInv'
    BY <1>1, <1>2, <1>3, <2>1 DEF StoredInv, ResumeLosesNothing, Upto
  <2>5. ExecutorInv'
    BY <1>2, <2>1, <2>2, InGraph
  <2>6. 1..seg.cur \subseteq written' /\ NoGaps'
    BY <1>1, <2>1 DEF Upto, NoGaps
  <2>7. GraphInv'
    BY <1>1, <2>1, <2>2, <2>6 DEF GraphInv, Upto, GraphState
  <2> QED BY <2>3, <2>4, <2>5, <2>6, <2>7 DEF BookInv
<1>5. CASE ChapterDone
  <2>1. /\ written' = written /\ seg' = seg /\ pc = "written" /\ pc' = "done"
        /\ last' \in Nat /\ cursor' \in Nat /\ faults' \in 0..MaxFaults
    BY <1>1, <1>5, BookAssumption DEF ChapterDone, Fault, Larger, TypeOK
  <2>2. TypeOK'
    BY <1>1, <1>2, <2>1 DEF TypeOK
  <2>3. StoredInv' /\ GraphInv' /\ NoGaps'
    BY <1>1, <1>2, <1>3, <2>1
       DEF StoredInv, ResumeLosesNothing, Upto, GraphInv, NoGaps
  <2>4. ExecutorInv'
    BY <1>2, <2>1, InGraph
  <2> QED BY <2>2, <2>3, <2>4 DEF BookInv
<1> QED BY <1>4, <1>5

\* The position moves on behind a chapter that is written.
LEMMA AdvanceStep == BookInv /\ Advance => BookInv'
<1> SUFFICES ASSUME BookInv, Advance PROVE BookInv'
  OBVIOUS
<1>1. /\ TypeOK /\ StoredInv /\ GraphInv /\ NoGaps
      /\ seg \in GraphState /\ seg.cur \in Nat \ {0} /\ rt.next # 0
      /\ Upto(seg.cur) /\ seg.cur \in written
      /\ "segment_running" \in Mode
  BY DEF BookInv, TypeOK, GraphInv, Advance, GraphState, Upto, StoredInv, Mode
<1>2. UNCHANGED <<status, cursor, last, written, reviewed, book>>
  BY DEF Advance
<1>3. rt' \in RuntimeState /\ faults' \in 0..MaxFaults /\ StoredInv'
  <2>1. CASE Persist(Position("segment_running", Following(seg.cur), seg))
    <3>1. Following(seg.cur) \in Nat \ {0} /\ Upto(Following(seg.cur) - 1)
      BY <1>1 DEF Following, Upto
    <3> QED BY <1>1, <1>2, <2>1, <3>1, PersistStep
  <2>2. CASE UNCHANGED <<rt, faults>>
    BY <1>1, <1>2, <2>2 DEF StoredInv, ResumeLosesNothing, Upto, TypeOK
  <2> QED BY <2>1, <2>2 DEF Advance
<1>4. /\ seg' \in GraphState /\ seg'.start = seg.start
      /\ \/ pc' = "write" /\ seg'.cur = seg.cur
         \/ pc' = "gate" /\ seg'.cur = seg.cur + 1
  <2>1. \/ seg' = [seg EXCEPT !.rerun = TRUE] /\ pc' = "write"
        \/ seg' = [seg EXCEPT !.cur = seg.cur + 1, !.rerun = FALSE] /\ pc' = "gate"
    BY DEF Advance
  <2>2. seg.cur + 1 \in Nat /\ TRUE \in BOOLEAN /\ FALSE \in BOOLEAN
    BY <1>1
  <2>3. CASE seg' = [seg EXCEPT !.rerun = TRUE] /\ pc' = "write"
    BY <1>1, <2>2, <2>3, ChapterUpdate DEF GraphState
  <2>4. CASE seg' = [seg EXCEPT !.cur = seg.cur + 1, !.rerun = FALSE] /\ pc' = "gate"
    <3>1. seg' \in GraphState
      BY <1>1, <2>2, <2>4, ChapterUpdate
    <3> QED BY <1>1, <2>4, <3>1 DEF GraphState
  <2> QED BY <2>1, <2>3, <2>4
<1>5. TypeOK'
  BY <1>1, <1>2, <1>3, <1>4 DEF TypeOK
<1>6. ExecutorInv'
  BY <1>2, <1>4, InGraph
<1>7. NoGaps'
  BY <1>1, <1>2 DEF NoGaps
<1>8. GraphInv'
  <2>1. /\ 1 <= seg.start /\ seg.start <= seg.cur /\ seg.start \in Nat
        /\ 1..seg.cur \subseteq written' /\ seg'.cur \in Nat
    BY <1>1, <1>2, <1>4 DEF GraphInv, Advance, GraphState, Upto
  <2>2. seg'.cur = seg.cur \/ seg'.cur = seg.cur + 1
    BY <1>4
  <2>3. Upto(seg.cur - 1)' /\ seg'.start <= seg'.cur
    BY <1>1, <1>4, <2>1, <2>2 DEF Upto
  <2> QED BY <1>4, <2>1, <2>3 DEF GraphInv
<1> QED BY <1>3, <1>5, <1>6, <1>7, <1>8 DEF BookInv

\* What the steps of the closure gate have in common: they write nothing, and
\* what they persist is a position behind written chapters.
LEMMA GateStep ==
  ASSUME BookInv, pc = "gate", pc' \in {"write", "after"},
         UNCHANGED <<status, cursor, last, written, reviewed, book>>,
         seg' \in GraphState, seg'.start = seg.start,
         pc' = "write" => seg.start <= seg'.cur /\ seg'.cur <= seg.cur,
         \/ UNCHANGED <<rt, faults>>
         \/ \E m \in Mode : \E n \in Nat \ {0} :
              /\ Persist(Position(m, n, seg'))
              /\ m = "segment_running" => n <= seg.cur
              /\ m # "segment_running" => MinTotal < seg.cur
  PROVE  BookInv'
<1>1. /\ TypeOK /\ StoredInv /\ GraphInv /\ NoGaps
      /\ seg \in GraphState /\ seg.cur \in Nat \ {0} /\ rt.next # 0
      /\ Upto(seg.cur - 1) /\ 1 <= seg.start /\ seg.start <= seg.cur
  BY DEF BookInv, TypeOK, GraphInv, GraphState, StoredInv
<1>2. rt' \in RuntimeState /\ faults' \in 0..MaxFaults /\ StoredInv'
  <2>1. CASE UNCHANGED <<rt, faults>>
    BY <1>1, <2>1 DEF StoredInv, ResumeLosesNothing, Upto, TypeOK
  <2>2. ASSUME NEW m \in Mode, NEW n \in Nat \ {0}, Persist(Position(m, n, seg')),
               m = "segment_running" => n <= seg.cur,
               m # "segment_running" => MinTotal < seg.cur
        PROVE  rt' \in RuntimeState /\ faults' \in 0..MaxFaults /\ StoredInv'
    <3>1. m = "segment_running" => Upto(n - 1)
      BY <1>1, <2>2 DEF Upto
    <3>2. m # "segment_running" => Upto(MinTotal)
      BY <1>1, <2>2, Totals DEF Upto
    <3> QED BY <1>1, <2>2, <3>1, <3>2, PersistStep
  <2> QED BY <2>1, <2>2
<1>3. TypeOK'
  BY <1>1, <1>2 DEF TypeOK
<1>4. ExecutorInv'
  BY InGraph
<1>5. NoGaps'
  BY <1>1 DEF NoGaps
<1>6. GraphInv'
  <2>1. seg'.cur \in Nat
    BY DEF GraphState
  <2>2. pc' = "write" => Upto(seg.cur - 1)'
    BY <1>1, <2>1 DEF Upto
  <2> QED BY <1>1, <2>1, <2>2 DEF GraphInv
<1> QED BY <1>2, <1>3, <1>4, <1>5, <1>6 DEF BookInv

\* Whatever the closure gate decides, the position it leaves is safe.
LEMMA GateSteps ==
  BookInv /\ (GateRewritesTail \/ GateCloses \/ GateExtends \/ GateContinues)
    => BookInv'
<1> SUFFICES ASSUME BookInv,
                    GateRewritesTail \/ GateCloses \/ GateExtends \/ GateContinues
             PROVE  BookInv'
  OBVIOUS
<1>1. /\ seg \in GraphState /\ seg.cur \in Nat \ {0} /\ seg.start \in Nat
      /\ 1 <= seg.start /\ seg.start <= seg.cur
      /\ seg.bookEnd \in Nat /\ seg.end \in Nat /\ seg.tails \in 0..2
      /\ seg.bridges \in 0..Flex
      /\ pc = "gate" /\ pc' \in {"write", "after"}
      /\ UNCHANGED <<status, cursor, last, written, reviewed, book>>
  BY DEF BookInv, TypeOK, GraphInv, GraphState, GateRewritesTail, GateCloses,
         GateExtends, GateContinues, Route, stored
<1>2. "segment_running" \in Mode /\ "book_final_review_pending" \in Mode
  BY DEF Mode
<1>3. CASE GateRewritesTail
  <2> DEFINE cur == Larger(seg.start, seg.cur - 2)
             plan == Plan("tail_rewrite", seg)
  <2>1. cur \in Nat \ {0} /\ seg.start <= cur /\ cur <= seg.cur
    BY <1>1 DEF Larger
  <2>2. plan \in SegmentPlan
    BY <1>1, PlanUpdate DEF Structural
  <2>3. seg.tails + 1 \in 0..2
    BY <1>1, <1>3 DEF GateRewritesTail, RewritesTail
  <2>4. /\ seg' = [seg EXCEPT !.cur = cur, !.tails = seg.tails + 1, !.plan = plan]
        /\ Persist(Position("segment_running", cur, seg'))
    BY <1>3 DEF GateRewritesTail
  <2> HIDE DEF cur, plan
  <2>5. seg' \in GraphState
    BY <1>1, <2>1, <2>2, <2>3, <2>4, RewriteUpdate
  <2>6. seg'.start = seg.start /\ seg'.cur = cur
    BY <1>1, <2>4 DEF GraphState
  <2> QED BY <1>1, <1>2, <2>1, <2>4, <2>5, <2>6, GateStep
<1>4. CASE GateCloses
  <2> DEFINE end == Smaller(seg.end, seg.cur - 1)
  <2>1. seg.cur - 1 \in Nat /\ end \in Nat
    BY <1>1 DEF Smaller
  <2>2. /\ seg' = [seg EXCEPT !.bookEnd = seg.cur - 1, !.end = end]
        /\ Persist(Position("book_final_review_pending", seg.cur, seg'))
        /\ pc' = "after"
    BY <1>4 DEF GateCloses
  <2>3. MinTotal < seg.cur
    BY <1>1, <1>4, Totals, BookAssumption DEF GateCloses, Closes, Full, Generated
  <2> HIDE DEF end
  <2>4. seg' \in GraphState /\ seg'.start = seg.start
    <3>1. seg' \in GraphState
      BY <1>1, <2>1, <2>2, BookAssumption, RangeUpdate
    <3> QED BY <1>1, <2>2, <3>1 DEF GraphState
  <2> QED BY <1>1, <1>2, <2>2, <2>3, <2>4, GateStep
<1>5. CASE GateExtends
  <2> DEFINE longer == [seg EXCEPT !.bookEnd = seg.bookEnd + 1, !.end = seg.end + 1,
                                   !.bridges = seg.bridges + 1]
  <2>1. seg.bookEnd + 1 \in Nat /\ seg.end + 1 \in Nat /\ seg.bridges + 1 \in 0..Flex
    BY <1>1, <1>5, BookAssumption DEF GateExtends, Extends
  <2>2. longer \in GraphState
    BY <1>1, <2>1, RangeUpdate
  <2>3. longer.start = seg.start /\ longer.cur = seg.cur
    BY <1>1 DEF GraphState
  <2>4. /\ seg' = [longer EXCEPT !.plan = Plan("bridge", longer)]
        /\ Persist(Position("segment_running", seg.cur, seg'))
    BY <1>5 DEF GateExtends
  <2> HIDE DEF longer
  <2>5. seg' \in GraphState
    BY <2>2, <2>4, PlanUpdate DEF Structural
  <2>6. seg'.start = seg.start /\ seg'.cur = seg.cur
    BY <2>2, <2>3, <2>4 DEF GraphState
  <2> QED BY <1>1, <1>2, <2>4, <2>5, <2>6, GateStep
<1>6. CASE GateContinues
  <2>1. UNCHANGED <<seg, rt, faults>>
    BY <1>6 DEF GateContinues, stored
  <2> QED BY <1>1, <2>1, GateStep
<1> QED BY <1>3, <1>4, <1>5, <1>6

-----------------------------------------------------------------------------
\* A stop forgets the execution and no part of what is persisted; a resume
\* sets the floor of rewrites only.
LEMMA StopStep == BookInv /\ (Crash \/ Park \/ Refuse \/ ParkIdle \/ Resume) => BookInv'
<1> SUFFICES ASSUME BookInv, Crash \/ Park \/ Refuse \/ ParkIdle \/ Resume
             PROVE  BookInv'
  OBVIOUS
<1>1. TypeOK /\ StoredInv /\ ExecutorInv /\ NoGaps
  BY DEF BookInv
<1>2. UNCHANGED <<written, last, reviewed>> /\ pc' = "off"
  BY DEF Crash, Park, Refuse, ParkIdle, Resume, Raise, Leave, stored
<1>3. faults' \in 0..MaxFaults
  BY <1>1, BookAssumption DEF Crash, Park, Refuse, ParkIdle, Resume, Fault, TypeOK
<1>4. book' \in ExecutorState /\ seg' \in GraphState
  BY <1>1, NoPositions DEF Crash, Park, Refuse, ParkIdle, Resume, Raise, Leave, TypeOK
<1>5. cursor' \in Nat /\ (last = 0 => cursor' = cursor)
  BY <1>1 DEF Crash, Park, Refuse, ParkIdle, Resume, Raise, stored, TypeOK
<1>6. /\ rt' \in RuntimeState
      /\ rt'.mode = rt.mode /\ rt'.next = rt.next
  <2>1. CASE Resume
    <3>1. rt \in RuntimeState /\ cursor \in Nat
      BY <1>1 DEF TypeOK
    <3>2. rt' = rt \/ rt' = [rt EXCEPT !.floor = cursor]
      BY <2>1 DEF Resume
    <3> QED BY <3>1, <3>2 DEF RuntimeState
  <2>2. CASE Crash \/ Park \/ Refuse \/ ParkIdle
    BY <1>1, <2>2 DEF Crash, Park, Refuse, ParkIdle, Raise, stored, TypeOK
  <2> QED BY <2>1, <2>2
<1>7. status' \in {"active", "parked"} \/ (status' = status /\ Upto(MinTotal))
      \/ (status' = status /\ status # "completed")
  BY <1>1 DEF Crash, Park, Refuse, ParkIdle, Resume, Raise, ExecutorInv
<1>8. TypeOK'
  BY <1>1, <1>2, <1>3, <1>4, <1>5, <1>6, <1>7 DEF TypeOK
<1>9. StoredInv'
  BY <1>1, <1>2, <1>5, <1>6 DEF StoredInv, ResumeLosesNothing, Upto
<1>10. ExecutorInv'
  BY <1>1, <1>2, <1>7 DEF ExecutorInv, Upto
<1>11. GraphInv' /\ NoGaps'
  BY <1>1, <1>2 DEF GraphInv, NoGaps
<1> QED BY <1>8, <1>9, <1>10, <1>11 DEF BookInv

\* A step that changes nothing keeps the invariant.
LEMMA InvStutter == BookInv /\ UNCHANGED vars => BookInv'
<1> SUFFICES ASSUME BookInv, UNCHANGED vars PROVE BookInv'
  OBVIOUS
<1>1. TypeOK'
  BY DEF BookInv, TypeOK, vars
<1>2. StoredInv' /\ ExecutorInv'
  BY DEF BookInv, StoredInv, ExecutorInv, ResumeLosesNothing, Upto, vars
<1>3. GraphInv' /\ NoGaps'
  BY DEF BookInv, GraphInv, NoGaps, Upto, vars
<1> QED BY <1>1, <1>2, <1>3 DEF BookInv

\* BookInv is inductive.
LEMMA InvStep == BookInv /\ [Next]_vars => BookInv'
  BY BeginStep, LoopStep, EndSegmentStep, ReviewStep, InitGraphStep, WriteStep,
     AdvanceStep, GateSteps, StopStep, InvStutter DEF Next, Executor, Graph

\* Hence it holds in every reachable state.
LEMMA InvAlways == Spec => []BookInv
  BY InvInit, InvStep, PTL DEF Spec

-----------------------------------------------------------------------------
\* Every variable of a generation keeps its type, and the budgets of the
\* closure gate their bounds.
THEOREM BookTypes == Spec => []TypeOK
  BY InvAlways, PTL DEF BookInv

\* However executions are lost, parked, resumed or fail to persist where they
\* are, and however the closure gate rewinds, no chapter is left out below a
\* written one (the writes of finalize_chapter_atomic).
THEOREM BookHasNoGaps == Spec => []NoGaps
  BY InvAlways, PTL DEF BookInv

\* The position that a new execution starts from has only written chapters
\* before it (the runtime state of creation_tasks.resume_cursor_json).
THEOREM ResumeIsSafe == Spec => []ResumeLosesNothing
<1>1. BookInv => ResumeLosesNothing
  BY DEF BookInv, StoredInv
<1> QED BY <1>1, InvAlways, PTL

\* A task is completed only when the chapters that the closure policy demands
\* are written (evaluate_closure_decision).
THEOREM CompletedIsLongEnough == Spec => []LongEnough
<1>1. BookInv => LongEnough
  BY DEF BookInv, ExecutorInv, LongEnough, Upto
<1> QED BY <1>1, InvAlways, PTL
=============================================================================
