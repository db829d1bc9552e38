--------------------------- MODULE OutlineGateProofs ---------------------------
(* Theorems about OutlineGate, for a segment, a book and batches of any    *)
(* size, any number of processes, commands, faults and failures.           *)
EXTENDS OutlineGate, TLAPS

Row == [status: {"queued", "held", "paused", "failed", "over"},
        owner: Ids \cup {NoId}, awaiting: BOOLEAN, confirmed: BOOLEAN, gated: BOOLEAN]

Typed ==
  /\ outlines \in [Chapter -> Outline]
  /\ plan \in [InSegment -> Outline]
  /\ row \in Row
  /\ asked \subseteq Ids
  /\ written \in 0..Segment
  /\ msgs \subseteq Ids
  /\ process \in [Processes -> Execution \cup {Idle}]
  /\ events \in 0..MaxEvents

\* Every chapter of the segment has an outline.
Covers(f) == \A c \in InSegment : f[c] # "none"

\* The batches before the next one are made; from the gate on, what a process has
\* in memory covers the segment, and so do the rows, whoever has stored them since.
Safe(p) ==
  /\ process[p].pc = "start" => process[p].at = 1
  /\ process[p].pc = "batch" =>
       \A c \in InSegment : c < process[p].at => process[p].mem[c] # "none"
  /\ process[p].pc = "save" => Covers(process[p].mem)
  /\ process[p].pc \in {"gate", "waitrow", "waitgt", "replan", "write"} =>
       Covers(process[p].mem) /\ Covers(outlines)
  /\ process[p].pc \in {"replan", "write"} => process[p].at <= Segment

PlanInv == Typed /\ \A p \in Processes : Safe(p)

-----------------------------------------------------------------------------
LEMMA Types == Typed <=> TypeOK
  BY DEF Typed, TypeOK, Row

LEMMA Numbers ==
  /\ Segment \in Nat \ {0} /\ BatchSize \in Nat \ {0} /\ Book \in Nat /\ Segment <= Book
  /\ MaxEvents \in Nat
  /\ InSegment = 1..Segment /\ Chapter = 1..Book
  /\ \A c \in InSegment : c \in Chapter
<1>1. Segment \in Nat \ {0} /\ BatchSize \in Nat \ {0}
  BY OutlineAssumption
<1> QED BY <1>1, OutlineAssumption DEF InSegment, Chapter

\* What a process that is not idle has.
LEMMA ExecutionOf ==
  ASSUME Typed, NEW p \in Processes, process[p].pc # "idle"
  PROVE  process[p] \in Execution
  BY DEF Typed, Idle

LEMMA ExecutionParts ==
  ASSUME NEW e \in Execution
  PROVE  /\ e.id \in Ids /\ e.mem \in [Chapter -> Outline]
         /\ e.from \in 1..(Segment + 1) /\ e.at \in 1..(Segment + BatchSize)
  BY DEF Execution

\* Outlines that are put keep those that are not.
LEMMA PutFacts ==
  ASSUME NEW f \in [Chapter -> Outline], NEW S \in SUBSET Chapter, NEW mem,
         \A c \in S : mem[c] \in Outline
  PROVE  /\ Put(f, mem, S) \in [Chapter -> Outline]
         /\ \A c \in Chapter : Put(f, mem, S)[c] = IF c \in S THEN mem[c] ELSE f[c]
  BY DEF Put

LEMMA PutSegment ==
  ASSUME NEW f \in [Chapter -> Outline], NEW mem \in [Chapter -> Outline]
  PROVE  /\ Put(f, mem, InSegment) \in [Chapter -> Outline]
         /\ \A c \in InSegment : Put(f, mem, InSegment)[c] = mem[c]
<1>1. \A c \in InSegment : c \in Chapter
  BY Numbers
<1> QED BY <1>1 DEF Put

\* An event is counted up to its bound.
LEMMA EventCounts == ASSUME Typed, Event PROVE events' \in 0..MaxEvents
  BY Numbers DEF Typed, Event

-----------------------------------------------------------------------------
(* The two shapes of a step.                                               *)

\* No outline is lost, and processes stay as they are, leave or start.
LEMMA OthersStay ==
  ASSUME PlanInv, Typed',
         \A c \in InSegment : outlines[c] # "none" => outlines'[c] # "none",
         \A q \in Processes : \/ process'[q] = process[q]
                              \/ process'[q].pc \in {"idle", "end"}
                              \/ process'[q].pc = "start" /\ process'[q].at = 1
  PROVE  PlanInv'
<1>1. ASSUME NEW q \in Processes,
             \/ process'[q] = process[q]
             \/ process'[q].pc \in {"idle", "end"}
             \/ process'[q].pc = "start" /\ process'[q].at = 1
      PROVE  Safe(q)'
  <2>1. CASE process'[q] = process[q]
    BY <2>1 DEF PlanInv, Safe, Covers
  <2>2. CASE process'[q].pc \in {"idle", "end"}
    BY <2>2 DEF Safe
  <2>3. CASE process'[q].pc = "start" /\ process'[q].at = 1
    BY <2>3 DEF Safe
  <2> QED BY <1>1, <2>1, <2>2, <2>3
<1> QED BY <1>1 DEF PlanInv

\* No outline is lost, and one process gets to where it is safe.
LEMMA OneMoves ==
  ASSUME PlanInv, Typed',
         \A c \in InSegment : outlines[c] # "none" => outlines'[c] # "none",
         NEW p \in Processes, Safe(p)',
         \A q \in Processes : q # p => process'[q] = process[q]
  PROVE  PlanInv'
<1>1. ASSUME NEW q \in Processes, q # p PROVE Safe(q)'
  <2>1. process'[q] = process[q]
    BY <1>1
  <2> QED BY <2>1 DEF PlanInv, Safe, Covers
<1> QED BY <1>1 DEF PlanInv

-----------------------------------------------------------------------------
(* The queue and the user.                                                 *)

LEMMA RowMoves ==
  ASSUME row \in Row, NEW from, NEW to \in {"queued", "held", "paused", "failed", "over"},
         NEW owner \in Ids \cup {NoId}, Move(from, to, owner)
  PROVE  row' \in Row
<1>1. row' = [row EXCEPT !.status = to, !.owner = owner]
  BY DEF Move
<1> QED BY <1>1 DEF Row

LEMMA QueueStep ==
  ASSUME PlanInv, Dispatch \/ Reclaim \/ UserNext
  PROVE  PlanInv'
<1>0. Typed
  BY DEF PlanInv
<1>1. CASE Dispatch
  <2>1. PICK id \in Ids : /\ Move({"queued"}, "held", id) /\ asked' = asked \ {id}
                          /\ \/ msgs' = msgs \cup {id} /\ UNCHANGED events
                             \/ Event /\ UNCHANGED msgs
    BY <1>1 DEF Dispatch, NewId
  <2>2. row' \in Row
    BY <1>0, <2>1, RowMoves DEF Typed
  <2>3. msgs' \subseteq Ids /\ asked' \subseteq Ids
    BY <1>0, <2>1 DEF Typed
  <2>4. events' \in 0..MaxEvents
    BY <1>0, <2>1, EventCounts DEF Typed
  <2>5. UNCHANGED <<outlines, plan, written, process>>
    BY <1>1 DEF Dispatch
  <2>6. Typed'
    BY <1>0, <2>2, <2>3, <2>4, <2>5 DEF Typed
  <2> QED BY <2>5, <2>6, OthersStay
<1>2. CASE Reclaim \/ Resume
  <2>1. UNCHANGED <<outlines, plan, asked, written, msgs, process, events>>
    BY <1>2 DEF Reclaim, Resume
  <2>2. row' \in Row
    BY <1>0, <1>2, RowMoves DEF Reclaim, Resume, Typed
  <2>3. Typed'
    BY <1>0, <2>1, <2>2 DEF Typed
  <2> QED BY <2>1, <2>3, OthersStay
<1>3. CASE Pause
  <2>1. UNCHANGED <<outlines, plan, asked, written, msgs, process>>
    BY <1>3 DEF Pause
  <2>2. row' \in Row /\ events' \in 0..MaxEvents
    BY <1>0, <1>3, RowMoves, EventCounts DEF Pause, Typed
  <2>3. Typed'
    BY <1>0, <2>1, <2>2 DEF Typed
  <2> QED BY <2>1, <2>3, OthersStay
<1>4. CASE Cancel
  <2>1. UNCHANGED <<outlines, plan, asked, written, msgs>> /\ Revoked(row.owner)
    BY <1>4 DEF Cancel
  <2>2. row' \in Row /\ events' \in 0..MaxEvents
    BY <1>0, <1>4, RowMoves, EventCounts DEF Cancel, Typed
  <2>3. /\ process' \in [Processes -> Execution \cup {Idle}]
        /\ \A q \in Processes : process'[q] = process[q] \/ process'[q].pc = "idle"
    BY <1>0, <2>1 DEF Revoked, Typed, Idle
  <2>4. Typed'
    BY <1>0, <2>1, <2>2, <2>3 DEF Typed
  <2> QED BY <2>1, <2>3, <2>4, OthersStay
<1>5. CASE Confirm \/ \E id \in Ids : ConfirmDispatch(id)
  <2>1. UNCHANGED <<outlines, plan, written, msgs, process>> /\ asked' \subseteq Ids
    BY <1>0, <1>5 DEF Confirm, ConfirmDispatch, Typed
  <2>2. row' \in Row
    BY <1>0, <1>5 DEF Confirm, ConfirmDispatch, Typed, Row
  <2>3. events' \in 0..MaxEvents
    BY <1>0, <1>5, EventCounts DEF Confirm, ConfirmDispatch, Typed
  <2>4. Typed'
    BY <1>0, <2>1, <2>2, <2>3 DEF Typed
  <2> QED BY <2>1, <2>4, OthersStay
<1> QED BY <1>1, <1>2, <1>3, <1>4, <1>5 DEF UserNext

-----------------------------------------------------------------------------
(* A process comes and goes.                                               *)

LEMMA ComeAndGoStep ==
  ASSUME PlanInv, NEW p \in Processes,
         \/ Deliver(p) \/ Crash(p) \/ VisibilityTimeout(p) \/ Fails(p)
         \/ StopsAtCheck(p) \/ End(p)
  PROVE  PlanInv'
<1>0. Typed
  BY DEF PlanInv
<1>1. CASE Deliver(p)
  <2>1. UNCHANGED <<outlines, plan, row, asked, written, events>>
    BY <1>1 DEF Deliver
  <2>2. PICK id \in msgs :
          /\ msgs' = msgs \ {id}
          /\ \/ process' = process
             \/ process' = [process EXCEPT ![p] =
                  [pc |-> "start", id |-> id, mem |-> [c \in Chapter |-> "none"],
                   from |-> written + 1, at |-> 1]]
    BY <1>1 DEF Deliver
  <2>3. /\ id \in Ids /\ [c \in Chapter |-> "none"] \in [Chapter -> Outline]
        /\ written + 1 \in 1..(Segment + 1) /\ 1 \in 1..(Segment + BatchSize)
    BY <1>0, Numbers DEF Typed, Outline
  <2>4. process' \in [Processes -> Execution \cup {Idle}]
    BY <1>0, <2>2, <2>3 DEF Typed, Execution
  <2>5. \A q \in Processes : \/ process'[q] = process[q]
                             \/ process'[q].pc = "start" /\ process'[q].at = 1
    BY <1>0, <2>2 DEF Typed
  <2>6. Typed'
    BY <1>0, <2>1, <2>2, <2>4 DEF Typed
  <2> QED BY <2>1, <2>5, <2>6, OthersStay
<1>2. CASE Crash(p) \/ VisibilityTimeout(p)
  <2>1. UNCHANGED <<outlines, plan, row, asked, written>> /\ Event
    BY <1>2 DEF Crash, VisibilityTimeout
  <2>2. process[p] \in Execution
    BY <1>0, <1>2, ExecutionOf DEF Crash, VisibilityTimeout, At
  <2>3. msgs' \subseteq Ids
    BY <1>0, <1>2, <2>2, ExecutionParts DEF Crash, VisibilityTimeout, Typed
  <2>4. /\ process' \in [Processes -> Execution \cup {Idle}]
        /\ \A q \in Processes : process'[q] = process[q] \/ process'[q].pc = "idle"
    BY <1>0, <1>2 DEF Crash, VisibilityTimeout, Leave, Typed, Idle
  <2>5. events' \in 0..MaxEvents
    BY <1>0, <2>1, EventCounts
  <2>6. Typed'
    BY <1>0, <2>1, <2>3, <2>4, <2>5 DEF Typed
  <2> QED BY <2>1, <2>4, <2>6, OthersStay
<1>3. CASE Fails(p) \/ StopsAtCheck(p) \/ End(p)
  <2>1. UNCHANGED <<outlines, plan, asked, written, msgs>> /\ Leave(p)
    BY <1>3 DEF Fails, StopsAtCheck, End
  <2>2. row' = row \/ \E to \in {"failed", "over"} : Move({"held"}, to, NoId)
    BY <1>3 DEF Fails, StopsAtCheck, End
  <2>3. row' \in Row
    BY <1>0, <2>2, RowMoves DEF Typed
  <2>4. events' \in 0..MaxEvents
    BY <1>0, <1>3, EventCounts DEF Fails, StopsAtCheck, End, Typed
  <2>5. /\ process' \in [Processes -> Execution \cup {Idle}]
        /\ \A q \in Processes : process'[q] = process[q] \/ process'[q].pc = "idle"
    BY <1>0, <2>1 DEF Leave, Typed, Idle
  <2>6. Typed'
    BY <1>0, <2>1, <2>3, <2>4, <2>5 DEF Typed
  <2> QED BY <2>1, <2>5, <2>6, OthersStay
<1> QED BY <1>1, <1>2, <1>3

-----------------------------------------------------------------------------
(* The outlines are made.                                                  *)

\* A process that leaves node_outline with outlines that cover the segment, and
\* are stored, is safe at the gate.
LEMMA ToGateSafe ==
  ASSUME PlanInv, NEW p \in Processes, process[p] \in Execution,
         outlines' \in [Chapter -> Outline], Covers(outlines'),
         plan' \in [InSegment -> Outline], events' \in 0..MaxEvents,
         UNCHANGED <<row, asked, written, msgs>>, ToGate(p, outlines')
  PROVE  PlanInv'
<1>0. Typed
  BY DEF PlanInv
<1>1. /\ process[p].from \in 1..(Segment + BatchSize)
      /\ process[p] \in Execution
  BY ExecutionParts, Numbers
<1>2. [process[p] EXCEPT !.pc = "gate", !.mem = outlines', !.at = process[p].from] \in Execution
  BY <1>1 DEF Execution
<1>3. PICK e \in Execution \cup {Idle} :
        /\ process' = [process EXCEPT ![p] = e]
        /\ e = Idle \/ e = [process[p] EXCEPT !.pc = "gate", !.mem = outlines',
                                              !.at = process[p].from]
  BY <1>2 DEF ToGate
<1>4. e.pc = "idle" \/ (e.pc = "gate" /\ e.mem = outlines')
  <2> DEFINE g == [process[p] EXCEPT !.pc = "gate", !.mem = outlines', !.at = process[p].from]
  <2>1. g.pc = "gate" /\ g.mem = outlines'
    BY <1>1 DEF Execution
  <2>2. Idle.pc = "idle"
    BY DEF Idle
  <2>3. e = Idle \/ e = g
    BY <1>3
  <2> HIDE DEF g
  <2> QED BY <2>1, <2>2, <2>3
<1>5. Typed'
  BY <1>0, <1>3 DEF Typed
<1>6. process'[p] = e /\ \A q \in Processes : q # p => process'[q] = process[q]
  BY <1>0, <1>3 DEF Typed
<1>7. Safe(p)'
  BY <1>4, <1>6 DEF Safe, Covers
<1> QED BY <1>5, <1>6, <1>7, OneMoves DEF Covers

\* persist_resume_runtime_state stores outlines, or fails.
LEMMA PersistStep ==
  ASSUME Typed, NEW mem \in [Chapter -> Outline], Persist(mem)
  PROVE  plan' \in [InSegment -> Outline] /\ events' \in 0..MaxEvents
<1>1. CASE plan' = [c \in InSegment |-> mem[c]] /\ UNCHANGED events
  BY <1>1, Numbers DEF Typed
<1>2. CASE Event /\ UNCHANGED plan
  BY <1>2, EventCounts DEF Typed
<1> QED BY <1>1, <1>2 DEF Persist

\* Outlines that were stored before, as a plan or as rows, are taken again.
LEMMA TakeStep ==
  ASSUME PlanInv, NEW p \in Processes, RestorePlan(p) \/ TakeRows(p)
  PROVE  PlanInv'
<1>0. Typed
  BY DEF PlanInv
<1>1. process[p] \in Execution
  BY <1>0, ExecutionOf DEF RestorePlan, TakeRows, At
<1>2. CASE RestorePlan(p)
  <2>1. PICK mem : /\ mem = [c \in Chapter |-> IF c \in InSegment THEN plan[c] ELSE outlines[c]]
                   /\ outlines' = mem /\ ToGate(p, mem) /\ PlanCovers
                   /\ UNCHANGED <<plan, row, asked, written, msgs, events>>
    BY <1>2 DEF RestorePlan
  <2>2. outlines' \in [Chapter -> Outline] /\ Covers(outlines')
    BY <1>0, <2>1, Numbers DEF Typed, PlanCovers, Covers
  <2> QED BY <1>0, <1>1, <2>1, <2>2, ToGateSafe DEF Typed
<1>3. CASE TakeRows(p)
  <2>1. /\ RowsCover /\ Persist(outlines) /\ ToGate(p, outlines)
        /\ UNCHANGED <<outlines, row, asked, written, msgs>>
    BY <1>3 DEF TakeRows
  <2>2. Covers(outlines)
    BY <2>1 DEF RowsCover, Covers
  <2>3. plan' \in [InSegment -> Outline] /\ events' \in 0..MaxEvents
    BY <1>0, <2>1, PersistStep DEF Typed
  <2>4. outlines' \in [Chapter -> Outline] /\ Covers(outlines') /\ ToGate(p, outlines')
    BY <1>0, <2>1, <2>2 DEF Typed, Covers
  <2> QED BY <1>1, <2>1, <2>3, <2>4, ToGateSafe
<1> QED BY <1>2, <1>3

\* A step inside an execution changes only what that process has.
LEMMA StepInside ==
  ASSUME PlanInv, NEW p \in Processes, NEW e \in Execution,
         process' = [process EXCEPT ![p] = e],
         outlines' \in [Chapter -> Outline],
         \A c \in InSegment : outlines[c] # "none" => outlines'[c] # "none",
         UNCHANGED <<plan, row, asked, written, msgs, events>>,
         e.pc # "start",
         /\ e.pc = "batch" => \A c \in InSegment : c < e.at => e.mem[c] # "none"
         /\ e.pc = "save" => Covers(e.mem)
         /\ e.pc \in {"gate", "waitrow", "waitgt", "replan", "write"} =>
              Covers(e.mem) /\ Covers(outlines')
         /\ e.pc \in {"replan", "write"} => e.at <= Segment
  PROVE  PlanInv'
<1>0. Typed
  BY DEF PlanInv
<1>1. Typed'
  BY <1>0 DEF Typed
<1>2. process'[p] = e /\ \A q \in Processes : q # p => process'[q] = process[q]
  BY <1>0 DEF Typed
<1>3. Safe(p)'
  BY <1>2 DEF Safe, Covers
<1> QED BY <1>1, <1>2, <1>3, OneMoves

\* The rows that may be used again are in memory before the first batch.
LEMMA BeginStep ==
  ASSUME PlanInv, NEW p \in Processes, BeginOutlines(p)
  PROVE  PlanInv'
<1>0. Typed
  BY DEF PlanInv
<1>1. CASE Stopped(p)
  <2>1. /\ process' = [process EXCEPT ![p] = Idle]
        /\ UNCHANGED <<outlines, plan, row, asked, written, msgs, events>>
    BY <1>1 DEF BeginOutlines
  <2>2. /\ process' \in [Processes -> Execution \cup {Idle}]
        /\ \A q \in Processes : process'[q] = process[q] \/ process'[q].pc = "idle"
    BY <1>0, <2>1 DEF Typed, Idle
  <2>3. Typed'
    BY <1>0, <2>1, <2>2 DEF Typed
  <2> QED BY <2>1, <2>2, <2>3, OthersStay
<1>2. CASE ~Stopped(p)
  <2>1. process[p] \in Execution /\ process[p].pc = "start"
    BY <1>0, ExecutionOf DEF BeginOutlines, At
  <2>2. process[p].at = 1
    BY <2>1 DEF PlanInv, Safe
  <2>3. PICK mem : /\ mem = [c \in Chapter |-> IF outlines[c] = "valid" THEN "valid" ELSE "none"]
                   /\ process' = [process EXCEPT ![p] =
                        [process[p] EXCEPT !.pc = "batch", !.mem = mem]]
                   /\ UNCHANGED <<outlines, plan, row, asked, written, msgs, events>>
    BY <1>2 DEF BeginOutlines
  <2>4. mem \in [Chapter -> Outline]
    BY <2>3 DEF Outline
  <2>5. PICK e \in Execution : /\ e.pc = "batch" /\ e.mem = mem /\ e.at = 1
                               /\ process' = [process EXCEPT ![p] = e]
    BY <2>1, <2>2, <2>3, <2>4 DEF Execution
  <2>6. outlines' \in [Chapter -> Outline]
    BY <1>0, <2>3 DEF Typed
  <2>7. \A c \in InSegment : ~(c < 1)
    BY Numbers
  <2> QED BY <2>3, <2>5, <2>6, <2>7, StepInside
<1> QED BY <1>1, <1>2

\* A batch that is made, or is there, has an outline for each of its chapters, and
\* so the chapters before the next batch have.
LEMMA BatchStep ==
  ASSUME PlanInv, NEW p \in Processes, ReuseBatch(p) \/ MakeBatch(p)
  PROVE  PlanInv'
<1>0. Typed /\ Safe(p)
  BY DEF PlanInv
<1>1. /\ process[p] \in Execution /\ process[p].pc = "batch"
      /\ process[p].at <= Segment
  BY <1>0, ExecutionOf DEF ReuseBatch, MakeBatch, At
<1>2. PICK at : at = process[p].at
  OBVIOUS
<1>3. PICK mem : mem = process[p].mem
  OBVIOUS
<1>4. /\ at \in 1..Segment /\ at + BatchSize \in 1..(Segment + BatchSize)
      /\ mem \in [Chapter -> Outline]
  BY <1>1, <1>2, <1>3, ExecutionParts, Numbers
<1>5. PICK due \in SUBSET Chapter : /\ due = Due(p) /\ due \subseteq InSegment
                                    /\ \A c \in InSegment : c < at + BatchSize => c < at \/ c \in due
  <2>1. Due(p) = Batch(at) \cap InSegment
    BY <1>2 DEF Due
  <2>2. \A c \in InSegment : c < at + BatchSize => c < at \/ c \in Batch(at)
    BY <1>4, Numbers DEF Batch
  <2> QED BY <2>1, <2>2, Numbers
<1>6. \A c \in InSegment : c < at => mem[c] # "none"
  BY <1>0, <1>1, <1>2, <1>3 DEF Safe
<1>7. CASE ReuseBatch(p)
  <2>1. /\ process' = [process EXCEPT ![p] = [process[p] EXCEPT !.at = at + BatchSize]]
        /\ UNCHANGED <<outlines, plan, row, asked, written, msgs, events>>
        /\ \A c \in due : mem[c] = "valid"
    BY <1>2, <1>3, <1>5, <1>7 DEF ReuseBatch
  <2>2. PICK e \in Execution : /\ e.pc = "batch" /\ e.mem = mem /\ e.at = at + BatchSize
                               /\ process' = [process EXCEPT ![p] = e]
    BY <1>1, <1>3, <1>4, <2>1 DEF Execution
  <2>3. \A c \in InSegment : c < e.at => e.mem[c] # "none"
    BY <1>5, <1>6, <2>1, <2>2
  <2>4. outlines' \in [Chapter -> Outline]
    BY <1>0, <2>1 DEF Typed
  <2> QED BY <2>1, <2>2, <2>3, <2>4, StepInside
<1>8. CASE MakeBatch(p)
  <2>1. PICK new \in [due -> {"weak", "valid"}] :
          /\ outlines' = Put(outlines, new, due)
          /\ process' = [process EXCEPT ![p].mem = Put(@, new, due), ![p].at = @ + BatchSize]
    BY <1>5, <1>8 DEF MakeBatch
  <2>2. UNCHANGED <<plan, row, asked, written, msgs, events>>
    BY <1>8 DEF MakeBatch
  <2>3. \A c \in due : new[c] \in Outline /\ new[c] # "none"
    BY DEF Outline
  <2>4. PICK made : made = Put(mem, new, due)
    OBVIOUS
  <2>5. /\ made \in [Chapter -> Outline]
        /\ \A c \in Chapter : made[c] = IF c \in due THEN new[c] ELSE mem[c]
    BY <1>4, <2>3, <2>4, PutFacts
  <2>6. /\ outlines' \in [Chapter -> Outline]
        /\ \A c \in Chapter : outlines'[c] = IF c \in due THEN new[c] ELSE outlines[c]
    <3>1. PICK f \in [Chapter -> Outline] : f = outlines
      BY <1>0 DEF Typed
    <3>2. outlines' = Put(f, new, due)
      BY <2>1, <3>1
    <3> QED BY <2>3, <3>1, <3>2, PutFacts
  <2>7. process' = [process EXCEPT ![p] = [process[p] EXCEPT !.mem = made, !.at = at + BatchSize]]
    BY <1>0, <1>1, <1>2, <1>3, <2>1, <2>4 DEF Typed, Execution
  <2>8. PICK e \in Execution : /\ e.pc = "batch" /\ e.mem = made /\ e.at = at + BatchSize
                               /\ process' = [process EXCEPT ![p] = e]
    BY <1>1, <1>4, <2>5, <2>7 DEF Execution
  <2>9. \A c \in InSegment : c < e.at => e.mem[c] # "none"
    BY <1>5, <1>6, <2>3, <2>5, <2>8, Numbers
  <2>10. \A c \in InSegment : outlines[c] # "none" => outlines'[c] # "none"
    BY <2>3, <2>6, Numbers
  <2> QED BY <2>2, <2>6, <2>8, <2>9, <2>10, StepInside
<1> QED BY <1>7, <1>8

\* All batches are made: the outlines in memory cover the segment.
LEMMA HarmonizeStep ==
  ASSUME PlanInv, NEW p \in Processes, Harmonize(p)
  PROVE  PlanInv'
<1>0. Typed /\ Safe(p)
  BY DEF PlanInv
<1>1. process[p] \in Execution /\ process[p].pc = "batch" /\ process[p].at > Segment
  BY <1>0, ExecutionOf DEF Harmonize, At
<1>2. PICK mem : mem = process[p].mem
  OBVIOUS
<1>3. mem \in [Chapter -> Outline] /\ Covers(mem)
  <2>1. mem \in [Chapter -> Outline] /\ process[p].at \in Nat
    BY <1>1, <1>2, ExecutionParts
  <2>2. \A c \in InSegment : c < process[p].at
    BY <1>1, <2>1, Numbers
  <2> QED BY <1>0, <1>1, <1>2, <2>1, <2>2 DEF Safe, Covers
<1>4. PICK e \in Execution : /\ e.pc = "save" /\ e.mem = mem
                             /\ process' = [process EXCEPT ![p] = e]
  <2>1. process' = [process EXCEPT ![p] = [process[p] EXCEPT !.pc = "save"]]
    BY <1>0, <1>1 DEF Harmonize, Goto
  <2> QED BY <1>1, <1>2, <2>1 DEF Execution
<1>5. /\ outlines' = outlines \/ outlines' = Put(outlines, mem, InSegment)
      /\ UNCHANGED <<plan, row, asked, written, msgs, events>>
  BY <1>2 DEF Harmonize
<1>6. /\ outlines' \in [Chapter -> Outline]
      /\ \A c \in InSegment : outlines[c] # "none" => outlines'[c] # "none"
  <2>1. CASE outlines' = outlines
    BY <1>0, <2>1 DEF Typed
  <2>2. CASE outlines' = Put(outlines, mem, InSegment)
    <3>1. PICK f \in [Chapter -> Outline] : f = outlines
      BY <1>0 DEF Typed
    <3>2. outlines' = Put(f, mem, InSegment)
      BY <2>2, <3>1
    <3>3. outlines' \in [Chapter -> Outline] /\ \A c \in InSegment : outlines'[c] = mem[c]
      BY <1>3, <3>2, PutSegment
    <3> QED BY <1>3, <3>3 DEF Covers
  <2> QED BY <1>5, <2>1, <2>2
<1> QED BY <1>3, <1>4, <1>5, <1>6, StepInside

LEMMA SaveStep ==
  ASSUME PlanInv, NEW p \in Processes, SaveOutlines(p)
  PROVE  PlanInv'
<1>0. Typed /\ Safe(p)
  BY DEF PlanInv
<1>1. process[p] \in Execution /\ process[p].pc = "save"
  BY <1>0, ExecutionOf DEF SaveOutlines, At
<1>2. PICK mem : mem = process[p].mem
  OBVIOUS
<1>3. mem \in [Chapter -> Outline] /\ Covers(mem)
  BY <1>0, <1>1, <1>2, ExecutionParts DEF Safe
<1>4. Saved(p) \in [Chapter -> Outline] /\ Covers(Saved(p))
  <2>1. CASE process[p].from = 1
    <3>1. Saved(p) = [c \in Chapter |-> IF c \in InSegment THEN mem[c] ELSE "none"]
      BY <1>2, <2>1 DEF Saved
    <3> QED BY <1>3, <3>1, Numbers DEF Covers, Outline
  <2>2. CASE process[p].from # 1
    <3>1. PICK f \in [Chapter -> Outline] : f = outlines
      BY <1>0 DEF Typed
    <3>2. Saved(p) = Put(f, mem, InSegment)
      BY <1>2, <2>2, <3>1 DEF Saved
    <3>3. Saved(p) \in [Chapter -> Outline] /\ \A c \in InSegment : Saved(p)[c] = mem[c]
      BY <1>3, <3>2, PutSegment
    <3> QED BY <1>3, <3>3 DEF Covers
  <2> QED BY <2>1, <2>2
<1>5. outlines' \in [Chapter -> Outline] /\ Covers(outlines')
  <2>1. outlines' = Saved(p)
    BY DEF SaveOutlines
  <2> QED BY <1>4, <2>1 DEF Covers
<1>6. /\ Persist(outlines') /\ ToGate(p, outlines')
      /\ UNCHANGED <<row, asked, written, msgs>>
  BY DEF SaveOutlines
<1>7. plan' \in [InSegment -> Outline] /\ events' \in 0..MaxEvents
  <2>1. PICK new \in [Chapter -> Outline] : new = outlines'
    BY <1>5
  <2> QED BY <1>0, <1>6, <2>1, PersistStep
<1> QED BY <1>1, <1>5, <1>6, <1>7, ToGateSafe

-----------------------------------------------------------------------------
(* The gate, and the writing.                                              *)

\* A process goes on with what it has in memory.
LEMMA GoesOn ==
  ASSUME PlanInv, NEW p \in Processes, process[p] \in Execution,
         process[p].pc \in {"gate", "waitrow", "waitgt"},
         NEW pc \in {"waitgt", "replan", "write", "end"}, Goto(p, pc),
         pc \in {"replan", "write"} => process[p].at <= Segment,
         UNCHANGED <<outlines, plan, row, asked, written, msgs, events>>
  PROVE  PlanInv'
<1>0. Typed /\ Safe(p)
  BY DEF PlanInv
<1>1. Covers(process[p].mem) /\ Covers(outlines)
  BY <1>0 DEF Safe
<1>2. process' = [process EXCEPT ![p] = [process[p] EXCEPT !.pc = pc]]
  BY <1>0 DEF Goto
<1>3. PICK e \in Execution : /\ e.pc = pc /\ e.mem = process[p].mem /\ e.at = process[p].at
                             /\ process' = [process EXCEPT ![p] = e]
  BY <1>2 DEF Execution
<1>4. outlines' \in [Chapter -> Outline] /\ Covers(outlines')
  BY <1>0, <1>1 DEF Typed, Covers
<1>5. Covers(e.mem)
  BY <1>1, <1>3 DEF Covers
<1> QED BY <1>3, <1>4, <1>5, StepInside DEF Covers

LEMMA GateStep ==
  ASSUME PlanInv, NEW p \in Processes, PassGate(p) \/ SeesRow(p) \/ SeesDispatch(p)
  PROVE  PlanInv'
<1>0. Typed /\ Safe(p)
  BY DEF PlanInv
<1>1. process[p] \in Execution /\ process[p].pc \in {"gate", "waitrow", "waitgt"}
  BY <1>0, ExecutionOf DEF PassGate, SeesRow, SeesDispatch, At
<1>2. process[p].at \in Nat
  BY <1>1, ExecutionParts, Numbers
<1>3. /\ Onward(p) \in {"waitgt", "replan", "write", "end"}
      /\ Onward(p) \in {"replan", "write"} => process[p].at <= Segment
  BY <1>2, Numbers DEF Onward
<1>4. \/ Goto(p, "waitgt")
      \/ Goto(p, Onward(p))
  BY DEF PassGate, SeesRow, SeesDispatch
<1>5. PICK pc \in {"waitgt", "replan", "write", "end"} :
        Goto(p, pc) /\ (pc \in {"replan", "write"} => process[p].at <= Segment)
  BY <1>3, <1>4
<1>6. UNCHANGED <<outlines, plan, row, asked, written, msgs, events>>
  BY DEF PassGate, SeesRow, SeesDispatch
<1> QED BY <1>1, <1>5, <1>6, GoesOn

LEMMA AskStep ==
  ASSUME PlanInv, NEW p \in Processes, Ask(p)
  PROVE  PlanInv'
<1>0. Typed /\ Safe(p)
  BY DEF PlanInv
<1>1. process[p] \in Execution /\ process[p].pc = "gate"
  BY <1>0, ExecutionOf DEF Ask, At
<1>2. Covers(process[p].mem) /\ Covers(outlines)
  BY <1>0, <1>1 DEF Safe
<1>3. row' \in Row /\ asked' \subseteq Ids
  <2>1. row' \in Row
    BY <1>0 DEF Ask, Typed, Row
  <2>2. process[p].id \in Ids
    BY <1>1, ExecutionParts
  <2> QED BY <1>0, <2>1, <2>2 DEF Ask, Typed
<1>4. PICK e \in Execution \cup {Idle} :
        /\ process' = [process EXCEPT ![p] = e]
        /\ e.pc = "idle" \/ (e.pc = "waitrow" /\ e.mem = process[p].mem)
  <2>1. PICK waits \in Execution :
          /\ waits = [process[p] EXCEPT !.pc = "waitrow"]
          /\ waits.pc = "waitrow" /\ waits.mem = process[p].mem
    <3> DEFINE g == [process[p] EXCEPT !.pc = "waitrow"]
    <3>1. g \in Execution
      BY <1>1 DEF Execution
    <3>2. g.pc = "waitrow" /\ g.mem = process[p].mem
      BY <1>1 DEF Execution
    <3> QED BY <3>1, <3>2
  <2>2. process' = [process EXCEPT ![p] = Idle] \/ process' = [process EXCEPT ![p] = waits]
    BY <2>1 DEF Ask
  <2>3. Idle.pc = "idle"
    BY DEF Idle
  <2>4. CASE process' = [process EXCEPT ![p] = Idle]
    BY <2>3, <2>4
  <2>5. CASE process' = [process EXCEPT ![p] = waits]
    BY <2>1, <2>5
  <2> QED BY <2>2, <2>4, <2>5
<1>5. UNCHANGED <<outlines, plan, written, msgs, events>>
  BY DEF Ask
<1>6. Typed'
  BY <1>0, <1>3, <1>4, <1>5 DEF Typed
<1>7. process'[p] = e /\ \A q \in Processes : q # p => process'[q] = process[q]
  BY <1>0, <1>4 DEF Typed
<1>8. Safe(p)'
  BY <1>2, <1>4, <1>5, <1>7 DEF Safe, Covers
<1> QED BY <1>5, <1>6, <1>7, <1>8, OneMoves

\* The outlines of the next volume are no outlines of the segment.
LEMMA ReplanStep ==
  ASSUME PlanInv, NEW p \in Processes, Replan(p)
  PROVE  PlanInv'
<1>0. Typed /\ Safe(p)
  BY DEF PlanInv
<1>1. process[p] \in Execution /\ process[p].pc = "replan"
  BY <1>0, ExecutionOf DEF Replan, At
<1>2. Covers(outlines) /\ process[p].at <= Segment
  BY <1>0, <1>1 DEF Safe
<1>3. PICK f \in [Chapter -> Outline] : f = outlines
  BY <1>0 DEF Typed
<1>4. PICK new \in [NextVolume -> Outline] : outlines' = Put(f, new, NextVolume)
  BY <1>3 DEF Replan
<1>5. /\ NextVolume \in SUBSET Chapter
      /\ \A c \in NextVolume : new[c] \in Outline
      /\ \A c \in InSegment : c \notin NextVolume
  BY DEF NextVolume
<1>6. /\ outlines' \in [Chapter -> Outline]
      /\ \A c \in InSegment : outlines'[c] = outlines[c]
  BY <1>3, <1>4, <1>5, PutFacts, Numbers
<1>7. PICK mem \in [Chapter -> Outline] : mem = outlines'
  BY <1>6
<1>8. process' = [process EXCEPT ![p] = [process[p] EXCEPT !.pc = "write", !.mem = mem]]
  BY <1>0, <1>1, <1>7 DEF Replan, Loaded, Typed, Execution
<1>9. PICK e \in Execution : /\ e.pc = "write" /\ e.mem = mem /\ e.at = process[p].at
                             /\ process' = [process EXCEPT ![p] = e]
  BY <1>1, <1>8 DEF Execution
<1>10. /\ UNCHANGED <<plan, row, asked, written, msgs, events>>
       /\ Covers(outlines') /\ Covers(e.mem)
  <2>1. Covers(outlines')
    BY <1>2, <1>6 DEF Covers
  <2> QED BY <1>7, <1>9, <2>1 DEF Replan, Covers
<1> QED BY <1>2, <1>6, <1>9, <1>10, StepInside

LEMMA WriteStep ==
  ASSUME PlanInv, NEW p \in Processes, WriteChapter(p)
  PROVE  PlanInv'
<1>0. Typed /\ Safe(p)
  BY DEF PlanInv
<1>1. process[p] \in Execution /\ process[p].pc = "write"
  BY <1>0, ExecutionOf DEF WriteChapter, At
<1>2. /\ Covers(process[p].mem) /\ Covers(outlines)
      /\ process[p].at \in 1..Segment
  BY <1>0, <1>1, ExecutionParts, Numbers DEF Safe
<1>3. PICK at \in 1..Segment : at = process[p].at
  BY <1>2
<1>4. PICK pc \in {"write", "end"} :
        /\ pc = "write" => at # Segment
        /\ process' = [process EXCEPT ![p] = [process[p] EXCEPT !.at = at + 1, !.pc = pc]]
  <2>1. PICK pc : pc = IF at = Segment THEN "end" ELSE "write"
    OBVIOUS
  <2>2. process' = [process EXCEPT ![p] = [process[p] EXCEPT !.at = at + 1, !.pc = pc]]
    BY <1>0, <1>1, <1>3, <2>1 DEF WriteChapter, Typed, Execution
  <2> QED BY <2>1, <2>2
<1>5. at + 1 \in 1..(Segment + BatchSize) /\ (at # Segment => at + 1 <= Segment)
  BY <1>3, Numbers
<1>6. PICK e \in Execution : /\ e.pc = pc /\ e.mem = process[p].mem /\ e.at = at + 1
                             /\ process' = [process EXCEPT ![p] = e]
  BY <1>1, <1>4, <1>5 DEF Execution
<1>7. /\ UNCHANGED <<outlines, plan, row, asked, msgs, events>>
      /\ written' \in 0..Segment
  <2>1. written' = at \/ written' = written
    BY <1>3 DEF WriteChapter
  <2> QED BY <1>0, <2>1, Numbers DEF WriteChapter, Typed
<1>8. Typed'
  BY <1>0, <1>6, <1>7 DEF Typed
<1>9. process'[p] = e /\ \A q \in Processes : q # p => process'[q] = process[q]
  BY <1>0, <1>6 DEF Typed
<1>10. Safe(p)'
  BY <1>2, <1>4, <1>5, <1>6, <1>7, <1>9 DEF Safe, Covers
<1> QED BY <1>7, <1>8, <1>9, <1>10, OneMoves

-----------------------------------------------------------------------------
LEMMA InvInit == Init => PlanInv
<1> SUFFICES ASSUME Init PROVE PlanInv
  OBVIOUS
<1>1. row \in Row
  BY DEF Init, Row
<1>2. process \in [Processes -> Execution \cup {Idle}]
  BY DEF Init
<1>3. Typed
  BY <1>1, <1>2, Numbers DEF Init, Typed, Outline, NoPlan
<1>4. ASSUME NEW p \in Processes PROVE Safe(p)
  BY DEF Init, Idle, Safe
<1> QED BY <1>3, <1>4 DEF PlanInv

LEMMA InvNext == PlanInv /\ [Next]_vars => PlanInv'
<1> SUFFICES ASSUME PlanInv, [Next]_vars PROVE PlanInv'
  OBVIOUS
<1>1. CASE Dispatch \/ Reclaim \/ UserNext
  BY <1>1, QueueStep
<1>2. ASSUME NEW p \in Processes,
             \/ Deliver(p) \/ Crash(p) \/ VisibilityTimeout(p) \/ Fails(p)
             \/ StopsAtCheck(p) \/ End(p)
      PROVE  PlanInv'
  BY <1>2, ComeAndGoStep
<1>3. ASSUME NEW p \in Processes, RestorePlan(p) \/ TakeRows(p) PROVE PlanInv'
  BY <1>3, TakeStep
<1>4. ASSUME NEW p \in Processes, BeginOutlines(p) \/ ReuseBatch(p) \/ MakeBatch(p)
      PROVE  PlanInv'
  BY <1>4, BeginStep, BatchStep
<1>5. ASSUME NEW p \in Processes, Harmonize(p) \/ SaveOutlines(p) PROVE PlanInv'
  BY <1>5, HarmonizeStep, SaveStep
<1>6. ASSUME NEW p \in Processes, PassGate(p) \/ Ask(p) \/ SeesRow(p) \/ SeesDispatch(p)
      PROVE  PlanInv'
  BY <1>6, GateStep, AskStep
<1>7. ASSUME NEW p \in Processes, Replan(p) \/ WriteChapter(p) PROVE PlanInv'
  BY <1>7, ReplanStep, WriteStep
<1>8. CASE UNCHANGED vars
  BY <1>8 DEF vars, PlanInv, Typed, Safe, Covers
<1> QED BY <1>1, <1>2, <1>3, <1>4, <1>5, <1>6, <1>7, <1>8 DEF Next, Works

\* The state of an outlined segment is of its type: no step takes a process past
\* the segment or an event past its bound.
THEOREM OutlineTypes == Spec => []TypeOK
<1>1. PlanInv => TypeOK
  BY Types DEF PlanInv
<1> QED BY <1>1, InvInit, InvNext, PTL DEF Spec

\* Whatever interrupts the batches, the plan or a process, and whichever process
\* stores the outlines last, a chapter is written from an outline of its own.
THEOREM EveryChapterIsPlanned == Spec => []EveryChapterPlanned
<1>1. PlanInv => EveryChapterPlanned
  <2> SUFFICES ASSUME PlanInv, NEW p \in Processes, At(p, "write"),
                      NEW c \in process[p].at..Segment
               PROVE  process[p].mem[c] # "none"
    BY DEF EveryChapterPlanned
  <2>1. Typed /\ Safe(p) /\ process[p].pc = "write"
    BY DEF PlanInv, At
  <2>2. process[p].at \in Nat \ {0}
    BY <2>1, ExecutionOf, ExecutionParts, Numbers
  <2>3. c \in InSegment
    BY <2>2, Numbers
  <2> QED BY <2>1, <2>3 DEF Safe, Covers
<1> QED BY <1>1, InvInit, InvNext, PTL DEF Spec

=============================================================================
