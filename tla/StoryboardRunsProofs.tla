------------------------ MODULE StoryboardRunsProofs ------------------------
(* Theorems about StoryboardRuns, for every value of its constants: any     *)
(* number of runs, lanes, processes, requests, duplicates and faults.       *)
EXTENDS StoryboardRuns, TLAPS

(***************************************************************************)
(* The inductive invariant.  A row is made when its run is started, and    *)
(* nothing in the broker, in a process or in a request is about a row that *)
(* is not.                                                                 *)
(***************************************************************************)
Made(v) == job[v] # "absent"

RowsAreMade ==
  /\ \A r \in Runs : run[r].status = "absent" <=> run[r].state = "absent"
  /\ \A v \in Rows : Made(v) <=> run[v[1]].status # "absent" /\ v[2] \in outputs
  /\ \A v \in Rows : Made(v) => version[v] # "absent"
  /\ \A m \in msgs : Made(m.row)
  /\ \A w \in Workers : worker[w] # Idle => Made(worker[w].row)
  /\ \A q \in Requests : request[q].op \in Op =>
       /\ DOMAIN request[q].seen = RowsOf(request[q].run)
       /\ run[request[q].run].status # "absent"

\* What a process that has loaded a version as completed goes by, what one that
\* was told to stop is about to write, and what one reports.
ProcessTells(x) ==
  /\ x.loaded = "completed" => Drawn(x.row)
  /\ x.pc = "leave" => /\ x.end \in {"failed", "cancelled", "paused"}
                       /\ x.end = "cancelled" => job[x.row] = "cancelled" \/ x.row \in overtaken
  /\ x.pc = "finalize" => x.end # "none" /\ (x.end = "completed" => Drawn(x.row))

RowTells(v) ==
  /\ job[v] = "completed" \/ lane[v] = "completed" => Drawn(v)
  /\ lane[v] = "cancelled" => job[v] \in Terminal \/ v \in overtaken

RunTells(r) ==
  /\ run[r].status = "completed" => \A v \in RowsOf(r) : Drawn(v)
  /\ run[r].status = "cancelled" => \A v \in RowsOf(r) \ overtaken : job[v] \in Terminal

AllTell ==
  /\ \A v \in Rows : RowTells(v)
  /\ \A r \in Runs : RunTells(r)
  /\ \A w \in Workers : worker[w] # Idle => ProcessTells(worker[w])

RunInv == TypeOK /\ RowsAreMade /\ AllTell

\* What a step may do to the rows that are made: they stay made, a version that
\* was drawn stays drawn, and a cancelled task is revived by an overtaken
\* transaction only.
Goes ==
  /\ UNCHANGED outputs
  /\ overtaken \subseteq overtaken'
  /\ \A v \in Rows : Made(v) =>
       /\ Made(v)'
       /\ Drawn(v) => Drawn(v)'
       /\ job[v] = "cancelled" => job'[v] = "cancelled" \/ v \in overtaken'

-----------------------------------------------------------------------------
(* What the parts of an action return.                                     *)

LEMMA RowsAreLanes ==
  /\ \A v \in Rows : v[1] \in Runs /\ v[2] \in Lanes
  /\ \A r \in Runs, v \in Rows : v \in RowsOf(r) <=> v[1] = r /\ v[2] \in outputs
  /\ TypeOK => \A r \in Runs : RowsOf(r) \subseteq Rows
  BY StoryboardAssumption DEF Rows, RowsOf, TypeOK

\* An execution that goes on stays one, of the same row.
LEMMA ExecutionFields ==
  ASSUME NEW x \in Execution
  PROVE  /\ x # Idle /\ x.row \in Rows /\ x.id \in Ids
         /\ x.loaded \in {"generating", "completed", "failed", "none"}
         /\ x.end \in Terminal \cup {"paused", "none"}
  BY DEF Execution, Idle

LEMMA ExecutionGoes ==
  ASSUME NEW x \in Execution, NEW y,
         NEW pc \in {"start", "activate", "begin", "draft", "gate", "save", "leave", "finalize"},
         y = [x EXCEPT !.pc = pc]
  PROVE  y \in Execution /\ y.pc = pc /\ y.row = x.row /\ y.loaded = x.loaded /\ y.end = x.end
  BY DEF Execution

\* A process at a place of its program is executing.
LEMMA Busy ==
  ASSUME TypeOK, NEW w \in Workers, worker[w].pc # "idle"
  PROVE  worker[w] \in Execution
  BY DEF TypeOK, Idle

LEMMA Events ==
  ASSUME TypeOK, Event \/ UNCHANGED events, UNCHANGED outputs
  PROVE  events' \in 0..MaxEvents[outputs']
  BY StoryboardAssumption DEF TypeOK, Event

\* A request that controls a run, and what it has loaded.
LEMMA Controls ==
  ASSUME TypeOK, RowsAreMade, NEW q \in Requests, request[q].op \in Op
  PROVE  LET c == request[q] IN
         /\ c.run \in Runs /\ run[c.run].status # "absent" /\ c.loaded \in RunRow
         /\ DOMAIN c.seen = RowsOf(c.run) /\ RowsOf(c.run) \subseteq Rows
         /\ \A v \in DOMAIN c.seen : c.seen[v] \in View
<1>1. request[q] \in Control
  BY DEF TypeOK, Start, NoRequest, Op
<1>2. PICK S \in SUBSET Rows : request[q].seen \in [S -> View]
  BY <1>1 DEF Control
<1> QED BY <1>1, <1>2, RowsAreLanes DEF RowsAreMade, Control

LEMMA ViewsTyped ==
  ASSUME TypeOK, NEW r \in Runs
  PROVE  [v \in RowsOf(r) |-> ViewOf(v)] \in UNION {[S -> View] : S \in SUBSET Rows}
<1>1. RowsOf(r) \in SUBSET Rows
  BY RowsAreLanes
<1>2. \A v \in Rows : ViewOf(v) \in View
  BY DEF ViewOf, View, TypeOK
<1>3. [v \in RowsOf(r) |-> ViewOf(v)] \in [RowsOf(r) -> View]
  BY <1>1, <1>2
<1> QED BY <1>1, <1>3

\* The verdict of a check.
LEMMA Verdicts ==
  ASSUME NEW w
  PROVE  /\ Verdict(w) \in {"failed", "cancelled", "paused", "none"}
         /\ Verdict(w) = "cancelled" => job[worker[w].row] = "cancelled"
  BY DEF Verdict

-----------------------------------------------------------------------------
(* What stays.                                                             *)

LEMMA ProcessStays ==
  ASSUME Goes, NEW x \in Execution, Made(x.row), ProcessTells(x)
  PROVE  Made(x.row)' /\ ProcessTells(x)'
<1>1. x.row \in Rows
  BY ExecutionFields
<1> QED BY <1>1 DEF Goes, ProcessTells

\* Processes and messages that a step leaves alone, or takes away.
LEMMA OthersStay ==
  ASSUME RunInv, Goes, msgs' \subseteq msgs,
         \A w \in Workers : worker'[w] # Idle => worker'[w] = worker[w]
  PROVE  /\ \A m \in msgs' : Made(m.row)'
         /\ \A w \in Workers : worker'[w] # Idle => Made(worker[w].row)' /\ ProcessTells(worker[w])'
<1>1. \A m \in msgs' : Made(m.row)'
  BY DEF RunInv, RowsAreMade, TypeOK, Message, Goes
<1>2. ASSUME NEW w \in Workers, worker'[w] # Idle
      PROVE  Made(worker[w].row)' /\ ProcessTells(worker[w])'
  <2>1. PICK x \in Execution : x = worker[w] /\ x = worker'[w]
    BY <1>2 DEF RunInv, TypeOK
  <2>2. Made(x.row) /\ ProcessTells(x)
    BY <2>1, ExecutionFields DEF RunInv, RowsAreMade, AllTell
  <2>3. Made(x.row)' /\ ProcessTells(x)'
    BY <2>2, ProcessStays
  <2>4. (x = worker[w])'
    BY <2>1
  <2> QED BY <2>3, <2>4 DEF Made, ProcessTells, Drawn
<1> QED BY <1>1, <1>2

\* The requests that a step does not answer.
LEMMA RequestsStay ==
  ASSUME RunInv, UNCHANGED outputs,
         \A r \in Runs : run[r].status # "absent" => run'[r].status # "absent",
         NEW q \in Requests, request'[q] = request[q], request'[q].op \in Op
  PROVE  /\ DOMAIN request'[q].seen = RowsOf(request[q].run)'
         /\ run'[request'[q].run].status # "absent"
  BY Controls DEF RunInv, RowsOf

-----------------------------------------------------------------------------
(* The steps of the user.                                                  *)

\* A step that touches no row, lane, version, task, message or process.
LEMMA QuietKeeps ==
  ASSUME RunInv, UNCHANGED <<outputs, run, lane, version, job, holder, msgs, worker, overtaken>>,
         project' \in ProjectStatus, snapshot' \in Sources \cup {"none"},
         request' \in [Requests -> Start \cup Control \cup {NoRequest}],
         \A q \in Requests : \/ request'[q] = request[q] \/ request'[q].op \notin Op
                             \/ /\ DOMAIN request'[q].seen = RowsOf(request'[q].run)
                                /\ run[request'[q].run].status # "absent",
         Event \/ UNCHANGED events
  PROVE  RunInv'
<1>1. TypeOK'
  BY Events DEF RunInv, TypeOK
<1>2. AllTell'
  BY DEF RunInv, AllTell, RowTells, RunTells, ProcessTells, RowsOf, Drawn
<1>3. RowsAreMade'
  <2>1. ASSUME NEW q \in Requests, request'[q].op \in Op
        PROVE  (DOMAIN request[q].seen = RowsOf(request[q].run) /\ run[request[q].run].status # "absent")'
    BY <2>1 DEF RunInv, RowsAreMade, RowsOf
  <2> QED BY <2>1 DEF RunInv, RowsAreMade, Made
<1> QED BY <1>1, <1>2, <1>3 DEF RunInv

\* A new run: all that is written is about rows that nothing knew.
LEMMA CreateKeeps ==
  ASSUME RunInv, NEW k \in Keys \cup {NoKey}, CreateRun(k),
         request' \in [Requests -> Start \cup Control \cup {NoRequest}],
         \A q \in Requests : request'[q] = request[q] \/ request'[q].op \notin Op
  PROVE  RunInv'
<1> USE DEF RunInv
<1>1. PICK r \in Runs :
        /\ run[r].status = "absent"
        /\ run' = [run EXCEPT ![r] = [status |-> "running", state |-> "running", key |-> k]]
        /\ lane' = [v \in Rows |-> IF v \in RowsOf(r) THEN "submitted" ELSE lane[v]]
        /\ version' = [v \in Rows |-> IF v \in RowsOf(r) THEN "generating" ELSE version[v]]
        /\ job' = [v \in Rows |-> IF v \in RowsOf(r) THEN "queued" ELSE job[v]]
        /\ project' = "generating"
        /\ UNCHANGED <<outputs, snapshot, holder, msgs, worker, events, overtaken>>
  BY DEF CreateRun
<1>2. \A v \in RowsOf(r) : v \in Rows /\ ~Made(v)
  BY <1>1, RowsAreLanes DEF RowsAreMade
<1>3. \A v \in Rows : Made(v) => /\ job'[v] = job[v] /\ version'[v] = version[v] /\ lane'[v] = lane[v]
                                 /\ v \notin RowsOf(r)
  BY <1>1, <1>2 DEF Made
<1>4. Goes
  BY <1>1, <1>3 DEF Goes, Made, Drawn
<1>5. \A s \in Runs : run'[s] = IF s = r THEN [status |-> "running", state |-> "running", key |-> k] ELSE run[s]
  BY <1>1 DEF TypeOK
<1>6. TypeOK'
  BY <1>1 DEF TypeOK, RunRow, LaneStatus, JobStatus, LaneBusy, ProjectStatus
<1>7. \A v \in Rows : Made(v)' <=> run'[v[1]].status # "absent" /\ v[2] \in outputs
  <2>1. \A v \in Rows : Made(v)' <=> v \in RowsOf(r) \/ Made(v)
    BY <1>1 DEF Made
  <2> QED BY <1>1, <1>5, <2>1, RowsAreLanes DEF RowsAreMade
<1>8. RowsAreMade'
  <2>1. \A v \in Rows : Made(v)' => version'[v] # "absent"
    BY <1>1 DEF RowsAreMade, Made
  <2>2. /\ \A m \in msgs' : Made(m.row)'
        /\ \A w \in Workers : worker'[w] # Idle => Made(worker[w].row)'
    BY <1>1, <1>4, OthersStay
  <2>3. \A q \in Requests : request'[q].op \in Op =>
          (DOMAIN request[q].seen = RowsOf(request[q].run) /\ run[request[q].run].status # "absent")'
    BY <1>1, <1>5, RequestsStay
  <2> QED BY <1>1, <1>5, <1>7, <2>1, <2>2, <2>3 DEF RowsAreMade
<1>9. AllTell'
  <2>1. ASSUME NEW v \in Rows PROVE RowTells(v)'
    BY <1>1 DEF AllTell, RowTells, Drawn
  <2>2. ASSUME NEW s \in Runs PROVE RunTells(s)'
    <3>1. CASE s = r
      BY <1>5, <3>1 DEF RunTells
    <3>2. CASE s # r
      <4>1. \A v \in RowsOf(s) : v \in Rows /\ v \notin RowsOf(r)
        BY <3>2, RowsAreLanes
      <4> QED BY <1>1, <1>5, <3>2, <4>1 DEF AllTell, RunTells, RowsOf, Drawn
    <3> QED BY <3>1, <3>2
  <2>3. \A w \in Workers : worker'[w] # Idle => ProcessTells(worker[w])'
    BY <1>1, <1>4, OthersStay
  <2> QED BY <2>1, <2>2, <2>3 DEF AllTell
<1> QED BY <1>6, <1>8, <1>9

\* A run's status comes from its lanes: it is completed, or cancelled, when all
\* of them are.
LEMMA PollKeeps ==
  ASSUME RunInv, NEW r \in Runs, Poll(r)
  PROVE  RunInv'
<1> USE DEF RunInv
<1>1. PICK s : s = Aggregate(LanesOf(r))
  OBVIOUS
<1>2. s \in {"completed", "failed", "cancelled", "paused", "running"}
  BY <1>1 DEF Aggregate
<1>3. /\ s = "cancelled" => \A v \in RowsOf(r) : lane[v] = "cancelled"
      /\ s = "completed" => \A v \in RowsOf(r) : lane[v] = "completed"
  BY <1>1 DEF Aggregate, LanesOf
<1>4. /\ run' = [run EXCEPT ![r].status = s, ![r].state = s] /\ run[r].status # "absent"
      /\ project' = ProjectAfter(s)
      /\ UNCHANGED <<outputs, snapshot, lane, version, job, holder, msgs, worker, request, events, overtaken>>
  <2>1. run'[r].status = s
    BY <1>1 DEF Poll, TypeOK, RunRow
  <2> QED BY <1>1, <2>1 DEF Poll, queue
<1>5. \A q \in Runs : /\ run'[q].status = IF q = r THEN s ELSE run[q].status
                      /\ run'[q].state = IF q = r THEN s ELSE run[q].state
  BY <1>4 DEF TypeOK, RunRow
<1>6. project' \in ProjectStatus
  BY <1>2, <1>4 DEF ProjectAfter, ProjectStatus, TypeOK
<1>7. run' \in [Runs -> RunRow]
  <2>1. run[r] \in RunRow /\ run \in [Runs -> RunRow]
    BY DEF TypeOK
  <2>2. [run[r] EXCEPT !.status = s, !.state = s] \in RunRow
    BY <1>2, <2>1 DEF RunRow, Terminal
  <2>3. run' = [run EXCEPT ![r] = [run[r] EXCEPT !.status = s, !.state = s]]
    BY <1>4
  <2> QED BY <2>1, <2>2, <2>3
<1>8. TypeOK'
  BY <1>4, <1>6, <1>7 DEF TypeOK
<1>9. Goes
  BY <1>4 DEF Goes, Made, Drawn
<1>10. RowsAreMade'
  <2>1. \A v \in Rows : Made(v)' <=> run'[v[1]].status # "absent" /\ v[2] \in outputs
    <3>1. \A q \in Runs : run'[q].status # "absent" <=> run[q].status # "absent"
      BY <1>2, <1>4, <1>5
    <3> QED BY <1>4, <3>1, RowsAreLanes DEF RowsAreMade, Made
  <2>2. \A q \in Requests : request'[q].op \in Op =>
          (DOMAIN request[q].seen = RowsOf(request[q].run) /\ run[request[q].run].status # "absent")'
    BY <1>2, <1>4, <1>5, RequestsStay
  <2>3. \A q \in Runs : run'[q].status = "absent" <=> run'[q].state = "absent"
    BY <1>2, <1>5 DEF RowsAreMade
  <2> QED BY <1>4, <1>9, <2>1, <2>2, <2>3, OthersStay DEF RowsAreMade, Made
<1>11. AllTell'
  <2>1. ASSUME NEW q \in Runs PROVE RunTells(q)'
    <3>1. \A v \in RowsOf(q) : v \in Rows
      BY RowsAreLanes
    <3>2. CASE q = r
      <4>1. \A v \in RowsOf(r) : /\ s = "completed" => Drawn(v)
                                 /\ s = "cancelled" => job[v] \in Terminal \/ v \in overtaken
        BY <1>3, <3>1, <3>2 DEF AllTell, RowTells
      <4> QED BY <1>4, <1>5, <3>2, <4>1 DEF RunTells, RowsOf, Drawn
    <3>3. CASE q # r
      <4>1. RunTells(q) /\ run'[q].status = run[q].status
        BY <1>5, <3>3 DEF AllTell
      <4> QED BY <1>4, <4>1 DEF RunTells, RowsOf, Drawn
    <3> QED BY <3>2, <3>3
  <2>2. \A v \in Rows : RowTells(v)'
    BY <1>4 DEF AllTell, RowTells, Drawn
  <2> QED BY <1>4, <1>9, <2>1, <2>2, OthersStay DEF AllTell
<1> QED BY <1>8, <1>10, <1>11

\* Control of a run: what is not overtaken gets the target of the request, and
\* what it does not take is over.
LEMMA ActionKeeps ==
  ASSUME RunInv, NEW q \in Requests, CommitAction(q)
  PROVE  RunInv'
<1> USE DEF RunInv
<1>1. PICK c : c = request[q]
  OBVIOUS
<1>2. /\ c.op \in Op /\ c.run \in Runs /\ run[c.run].status # "absent" /\ c.loaded \in RunRow
      /\ DOMAIN c.seen = RowsOf(c.run) /\ RowsOf(c.run) \subseteq Rows
      /\ \A v \in RowsOf(c.run) : c.seen[v] \in View
  BY <1>1, Controls DEF CommitAction
<1>3. PICK S \in SUBSET Rows, L \in SUBSET Rows :
        /\ S = Taken(c) /\ S \subseteq RowsOf(c.run)
        /\ L = Written(c) /\ L \subseteq RowsOf(c.run) /\ S \subseteq L
        /\ c.op = "cancel" => L = RowsOf(c.run)
        /\ \A v \in RowsOf(c.run) : v \in S <=> c.seen[v].job \in Admitted(c.op)
  <2>2. Taken(c) \subseteq RowsOf(c.run) /\ Written(c) \subseteq RowsOf(c.run) /\ Taken(c) \subseteq Written(c)
    BY <1>2 DEF Taken, Written
  <2>3. c.op = "cancel" => Written(c) = RowsOf(c.run)
    BY <1>2 DEF Written
  <2>4. \A v \in RowsOf(c.run) : v \in Taken(c) <=> c.seen[v].job \in Admitted(c.op)
    BY <1>2 DEF Taken
  <2>5. Taken(c) \in SUBSET Rows /\ Written(c) \in SUBSET Rows
    BY <1>2, <2>2
  <2> QED BY <2>2, <2>3, <2>4, <2>5
<1>4. /\ job' = [v \in Rows |-> IF v \in S THEN Target(c.op) ELSE job[v]]
      /\ holder' = [v \in Rows |-> IF v \in S THEN Column(c.seen[v].holder, NoId, holder[v]) ELSE holder[v]]
      /\ lane' = [v \in Rows |-> IF v \in L THEN Column(c.seen[v].lane, Target(c.op), lane[v]) ELSE lane[v]]
      /\ run' = [run EXCEPT ![c.run] = RunAfter(c)]
      /\ project' = IF c.op = "cancel" THEN Column(c.project, "cancelled", project) ELSE project
      /\ RevokedBy(c)
      /\ request' = [request EXCEPT ![q] = NoRequest]
      /\ overtaken' = overtaken \cup {v \in RowsOf(c.run) : c.seen[v] # ViewOf(v) \/ c.loaded # run[c.run]}
      /\ UNCHANGED <<outputs, snapshot, version, events>>
  BY <1>1, <1>2, <1>3 DEF CommitAction
<1>5. Target(c.op) \in {"paused", "queued", "cancelled"}
  BY <1>2 DEF Target, Op
<1>6. /\ RunAfter(c) \in RunRow
      /\ RunAfter(c).status # "absent" /\ RunAfter(c).state # "absent"
      /\ RunAfter(c).status \in {run[c.run].status, "running", "paused", "cancelled"}
      /\ RunAfter(c).status = "cancelled" /\ c.loaded = run[c.run] => c.op = "cancel"
  <2>1. PICK x \in RunRow : x = run[c.run]
    BY <1>2 DEF TypeOK
  <2>2. x.status # "absent" /\ x.state # "absent"
    BY <1>2, <2>1 DEF RowsAreMade
  <2>3. PICK s, t : /\ s = Column(c.loaded.status, IF c.op = "resume" THEN "running" ELSE Target(c.op), x.status)
                    /\ t = Column(c.loaded.state, Target(c.op), x.state)
    OBVIOUS
  <2>4. RunAfter(c) = [x EXCEPT !.status = s, !.state = t]
    BY <2>1, <2>3 DEF RunAfter
  <2>5. /\ s \in {x.status, "running", "paused", "cancelled"} /\ t \in {x.state, "paused", "queued", "cancelled"}
        /\ s = "cancelled" /\ c.loaded = x => c.op = "cancel"
    BY <1>2, <2>3 DEF Column, Target, Op
  <2> QED BY <2>1, <2>2, <2>4, <2>5 DEF RunRow, Terminal
<1>7. \A r \in Runs : run'[r] = IF r = c.run THEN RunAfter(c) ELSE run[r]
  BY <1>2, <1>4 DEF TypeOK
<1>8. /\ msgs' \subseteq msgs
      /\ worker' \in [Workers -> Execution \cup {Idle}]
      /\ \A w \in Workers : worker'[w] # Idle => worker'[w] = worker[w]
  BY <1>4 DEF RevokedBy, TypeOK
<1>9. \A v \in Rows : /\ job'[v] = IF v \in S THEN Target(c.op) ELSE job[v]
                      /\ lane'[v] = IF v \in L THEN Column(c.seen[v].lane, Target(c.op), lane[v]) ELSE lane[v]
                      /\ job[v] \in JobStatus /\ lane[v] \in LaneStatus
  BY <1>4 DEF TypeOK
<1>10. TypeOK'
  <2>1. project' \in ProjectStatus
    BY <1>4 DEF Column, TypeOK, ProjectStatus
  <2>2. holder' \in [Rows -> Ids \cup {NoId}]
    <3>1. ASSUME NEW v \in Rows PROVE holder'[v] \in Ids \cup {NoId}
      BY <1>4, <3>1 DEF Column, TypeOK
    <3> QED BY <1>4, <3>1
  <2>3. lane' \in [Rows -> LaneStatus] /\ job' \in [Rows -> JobStatus]
    <3>1. ASSUME NEW v \in Rows PROVE lane'[v] \in LaneStatus /\ job'[v] \in JobStatus
      BY <1>5, <1>9, <3>1 DEF Column, LaneStatus, LaneBusy, JobStatus, Terminal
    <3> QED BY <1>4, <3>1
  <2>4. run' \in [Runs -> RunRow] /\ overtaken' \subseteq Rows /\ msgs' \subseteq Message
    BY <1>2, <1>4, <1>6, <1>8 DEF TypeOK
  <2>5. request' \in [Requests -> Start \cup Control \cup {NoRequest}]
    BY <1>4 DEF TypeOK
  <2> QED BY <1>4, <1>8, <2>1, <2>2, <2>3, <2>4, <2>5 DEF TypeOK
\* A row that the request had seen as it is.
<1>11. ASSUME NEW v \in RowsOf(c.run), v \notin overtaken'
       PROVE  /\ c.loaded = run[c.run] /\ v \in Rows /\ v \notin overtaken
              /\ job[v] \in JobStatus \ {"absent"}
              /\ v \in S <=> job[v] \in Admitted(c.op)
              /\ lane'[v] = IF v \in L THEN Target(c.op) ELSE lane[v]
  <2>1. c.seen[v] = ViewOf(v) /\ c.loaded = run[c.run] /\ v \notin overtaken
    BY <1>4, <1>11
  <2>2. c.seen[v].job = job[v] /\ c.seen[v].lane = lane[v]
    BY <2>1 DEF ViewOf
  <2>3. v \in Rows /\ Made(v)
    BY <1>2, RowsAreLanes DEF RowsAreMade
  <2> QED BY <1>3, <1>9, <2>1, <2>2, <2>3 DEF Column, Made
<1>12. \A v \in Rows : job[v] \in Terminal /\ job'[v] \notin Terminal => v \in overtaken' \/ lane'[v] # "cancelled"
  <2> SUFFICES ASSUME NEW v \in Rows, job[v] \in Terminal, job'[v] \notin Terminal, v \notin overtaken'
               PROVE  lane'[v] # "cancelled"
    OBVIOUS
  <2>1. v \in S /\ v \in L /\ Target(c.op) \notin Terminal /\ v \in RowsOf(c.run)
    BY <1>3, <1>9
  <2> QED BY <1>11, <2>1 DEF Terminal
<1>13. \A v \in RowsOf(c.run) : c.op = "cancel" => v \in overtaken' \/ job'[v] \in Terminal
  <2> SUFFICES ASSUME NEW v \in RowsOf(c.run), c.op = "cancel", v \notin overtaken' PROVE job'[v] \in Terminal
    OBVIOUS
  <2> QED BY <1>9, <1>11 DEF Admitted, Target, JobStatus, Held, Terminal
<1>14. Goes
  <2>1. ASSUME NEW v \in Rows, Made(v)
        PROVE  Made(v)' /\ (job[v] = "cancelled" => job'[v] = "cancelled" \/ v \in overtaken')
    <3>1. Made(v)'
      BY <1>5, <1>9, <2>1 DEF Made
    <3>2. ASSUME job[v] = "cancelled", v \in S, v \notin overtaken' PROVE job'[v] = "cancelled"
      BY <1>2, <1>3, <1>11, <3>2 DEF Admitted, Op, Held
    <3> QED BY <1>9, <3>1, <3>2
  <2> QED BY <1>4, <2>1 DEF Goes, Drawn
<1>15. RowsAreMade'
  <2>1. \A v \in Rows : Made(v)' <=> run'[v[1]].status # "absent" /\ v[2] \in outputs
    <3>1. \A v \in Rows : Made(v)' <=> Made(v)
      BY <1>2, <1>3, <1>5, <1>9, RowsAreLanes DEF RowsAreMade, Made
    <3> QED BY <1>2, <1>6, <1>7, <3>1, RowsAreLanes DEF RowsAreMade
  <2>2. \A p \in Requests : request'[p].op \in Op =>
          (DOMAIN request[p].seen = RowsOf(request[p].run) /\ run[request[p].run].status # "absent")'
    <3>1. ASSUME NEW p \in Requests, request'[p].op \in Op PROVE request'[p] = request[p]
      BY <1>4, <3>1 DEF TypeOK, NoRequest, Op
    <3> QED BY <1>4, <1>6, <1>7, <3>1, RequestsStay
  <2>3. \A r \in Runs : run'[r].status = "absent" <=> run'[r].state = "absent"
    BY <1>6, <1>7 DEF RowsAreMade
  <2>4. \A v \in Rows : Made(v)' => version'[v] # "absent"
    BY <1>2, <1>3, <1>4, <1>5, <1>9, RowsAreLanes DEF RowsAreMade, Made
  <2> QED BY <1>4, <1>8, <1>14, <2>1, <2>2, <2>3, <2>4, OthersStay DEF RowsAreMade
<1>16. AllTell'
  <2>1. ASSUME NEW v \in Rows PROVE RowTells(v)'
    <3>1. job'[v] = "completed" \/ lane'[v] = "completed" => Drawn(v)'
      BY <1>4, <1>5, <1>9 DEF AllTell, RowTells, Drawn, Column
    <3>2. ASSUME lane'[v] = "cancelled" PROVE job'[v] \in Terminal \/ v \in overtaken'
      <4>1. CASE lane[v] = "cancelled"
        BY <1>4, <1>12, <3>2, <4>1 DEF AllTell, RowTells
      <4>2. CASE lane[v] # "cancelled"
        <5>1. v \in L /\ c.op = "cancel" /\ v \in RowsOf(c.run)
          BY <1>2, <1>3, <1>9, <3>2, <4>2 DEF Column, Target, Op
        <5> QED BY <1>13, <5>1
      <4> QED BY <4>1, <4>2
    <3> QED BY <3>1, <3>2 DEF RowTells
  <2>2. ASSUME NEW r \in Runs PROVE RunTells(r)'
    <3>1. \A v \in RowsOf(r) : v \in Rows /\ RowsOf(r)' = RowsOf(r)
      BY <1>4, RowsAreLanes DEF RowsOf
    <3>2. run'[r].status = "completed" => \A v \in RowsOf(r) : Drawn(v)'
      BY <1>4, <1>6, <1>7 DEF AllTell, RunTells, Drawn
    <3>3. ASSUME run'[r].status = "cancelled", NEW v \in RowsOf(r), v \notin overtaken' PROVE job'[v] \in Terminal
      <4>1. CASE r = c.run
        <5>1. c.op = "cancel"
          BY <1>6, <1>7, <1>11, <3>3, <4>1
        <5> QED BY <1>13, <3>3, <4>1, <5>1
      <4>2. CASE r # c.run
        <5>1. v \notin S
          BY <1>2, <1>3, <3>1, <4>2, RowsAreLanes
        <5>2. job[v] \in Terminal
          BY <1>4, <1>7, <3>3, <4>2 DEF AllTell, RunTells
        <5> QED BY <1>9, <3>1, <5>1, <5>2
      <4> QED BY <4>1, <4>2
    <3> QED BY <1>4, <3>2, <3>3 DEF RunTells, RowsOf
  <2> QED BY <1>8, <1>14, <2>1, <2>2, OthersStay DEF AllTell
<1> QED BY <1>10, <1>15, <1>16

-----------------------------------------------------------------------------
(* The queue and the broker.                                               *)

LEMMA QueueKeeps ==
  ASSUME RunInv, NEW v \in Rows, Dispatch(v) \/ Reclaim(v)
  PROVE  RunInv'
<1> USE DEF RunInv
<1>1. PICK p \in {"dispatching", "queued", "failed"} :
        job' = [job EXCEPT ![v] = p] /\ job[v] \in Held \cup {"queued"}
  BY DEF Dispatch, Reclaim, Release
<1>2. \A u \in Rows : job'[u] = IF u = v THEN p ELSE job[u]
  BY <1>1 DEF TypeOK
<1>3. /\ UNCHANGED <<outputs, project, snapshot, run, lane, version, worker, request, overtaken>>
      /\ Event \/ UNCHANGED events
      /\ holder' \in [Rows -> Ids \cup {NoId}]
      /\ msgs' \subseteq msgs \cup {[row |-> v, id |-> id] : id \in Ids}
  BY DEF Dispatch, Reclaim, Release, rows, TypeOK
<1>4. TypeOK'
  <2>1. job' \in [Rows -> JobStatus]
    BY <1>1 DEF TypeOK, JobStatus, Held, Terminal
  <2>2. msgs' \subseteq Message
    BY <1>3 DEF TypeOK, Message
  <2> QED BY <1>3, <2>1, <2>2, Events DEF TypeOK
<1>5. Goes
  BY <1>1, <1>2, <1>3 DEF Goes, Made, Drawn, Held
<1>6. RowsAreMade'
  <2>1. \A u \in Rows : Made(u)' <=> Made(u)
    BY <1>1, <1>2 DEF Made, Held
  <2>2. ASSUME NEW m \in msgs' PROVE Made(m.row)'
    <3>1. m \in msgs \/ m.row = v
      BY <1>3
    <3>2. Made(v)'
      BY <1>1, <1>2 DEF Made
    <3>3. m \in msgs => m.row \in Rows /\ Made(m.row)
      BY DEF RowsAreMade, TypeOK, Message
    <3> QED BY <2>1, <3>1, <3>2, <3>3
  <2>3. \A w \in Workers : worker'[w] # Idle => Made(worker[w].row)'
    BY <1>3, <2>1, ExecutionFields DEF RowsAreMade, TypeOK, Made
  <2> QED BY <1>3, <2>1, <2>2, <2>3 DEF RowsAreMade, RowsOf
<1>7. AllTell'
  <2>1. ASSUME NEW u \in Rows PROVE RowTells(u)'
    BY <1>1, <1>2, <1>3 DEF AllTell, RowTells, Drawn, Held, Terminal
  <2>2. ASSUME NEW r \in Runs PROVE RunTells(r)'
    <3>1. \A u \in RowsOf(r) : u \in Rows
      BY RowsAreLanes
    <3>2. RunTells(r)
      BY DEF AllTell
    <3> QED BY <1>1, <1>2, <1>3, <3>1, <3>2 DEF RunTells, RowsOf, Drawn, Held, Terminal
  <2>3. ASSUME NEW w \in Workers, worker'[w] # Idle PROVE ProcessTells(worker[w])'
    <3>1. PICK x \in Execution : x = worker[w] /\ x = worker'[w]
      BY <1>3, <2>3 DEF TypeOK
    <3>2. ProcessTells(x)'
      BY <1>5, <3>1, ProcessStays, ExecutionFields DEF RowsAreMade, AllTell
    <3> QED BY <3>1, <3>2 DEF ProcessTells, Drawn
  <2> QED BY <2>1, <2>2, <2>3 DEF AllTell
<1> QED BY <1>4, <1>6, <1>7

LEMMA BrokerKeeps ==
  ASSUME RunInv, NEW w \in Workers, Deliver(w) \/ Crash(w) \/ VisibilityTimeout(w)
  PROVE  RunInv'
<1> USE DEF RunInv
<1>1. UNCHANGED <<rows, queue, request, overtaken>> /\ (Event \/ UNCHANGED events)
  BY DEF Deliver, Crash, VisibilityTimeout
\* A process that starts has loaded and ended nothing.
<1>2. PICK y \in Execution \cup {Idle} :
        /\ worker' = [worker EXCEPT ![w] = y]
        /\ y # Idle => Made(y.row) /\ ProcessTells(y)
  <2>1. CASE Deliver(w)
    <3>1. PICK m \in msgs : worker' = [worker EXCEPT ![w] = [pc |-> "start", row |-> m.row, id |-> m.id,
                                         seen |-> "none", loaded |-> "none", end |-> "none"]]
      BY <2>1 DEF Deliver
    <3>2. PICK x : x = [pc |-> "start", row |-> m.row, id |-> m.id, seen |-> "none",
                        loaded |-> "none", end |-> "none"]
      OBVIOUS
    <3>3. m \in Message /\ Made(m.row)
      BY DEF RowsAreMade, TypeOK
    <3>4. x \in Execution /\ x.row = m.row /\ ProcessTells(x)
      BY <3>2, <3>3 DEF Execution, Message, ProcessTells
    <3> QED BY <3>1, <3>2, <3>3, <3>4
  <2>2. CASE Crash(w)
    BY <2>2 DEF Crash
  <2>3. CASE VisibilityTimeout(w)
    <3>1. PICK x \in Execution : x = worker[w]
      BY <2>3 DEF VisibilityTimeout, TypeOK
    <3>2. worker' = [worker EXCEPT ![w] = x] /\ Made(x.row) /\ ProcessTells(x)
      BY <2>3, <3>1, ExecutionFields DEF VisibilityTimeout, TypeOK, RowsAreMade, AllTell
    <3> QED BY <3>1, <3>2
  <2> QED BY <2>1, <2>2, <2>3
<1>3. \A m \in msgs' : Made(m.row) /\ m \in Message
  <2>1. \A m \in msgs : Made(m.row) /\ m \in Message
    BY DEF RowsAreMade, TypeOK
  <2>2. CASE Deliver(w)
    BY <2>1, <2>2 DEF Deliver
  <2>3. CASE Crash(w) \/ VisibilityTimeout(w)
    <3>1. worker[w] # Idle /\ msgs' = msgs \cup {[row |-> worker[w].row, id |-> worker[w].id]}
      BY <2>3 DEF Crash, VisibilityTimeout, Redelivered
    <3>2. worker[w].row \in Rows /\ worker[w].id \in Ids /\ Made(worker[w].row)
      BY <3>1, ExecutionFields DEF TypeOK, RowsAreMade
    <3> QED BY <2>1, <3>1, <3>2 DEF Message
  <2> QED BY <2>2, <2>3
<1>4. TypeOK'
  BY <1>1, <1>2, <1>3, Events DEF TypeOK, rows, queue
<1>5. ASSUME NEW u \in Workers, worker'[u] # Idle PROVE Made(worker[u].row)' /\ ProcessTells(worker[u])'
  <2>1. PICK x \in Execution : x = worker'[u] /\ Made(x.row) /\ ProcessTells(x)
    BY <1>2, <1>5 DEF TypeOK, RowsAreMade, AllTell
  <2> QED BY <1>1, <2>1 DEF Made, ProcessTells, Drawn, rows, queue
<1>6. RowsAreMade'
  BY <1>1, <1>3, <1>5 DEF RowsAreMade, Made, RowsOf, rows, queue
<1>7. AllTell'
  BY <1>1, <1>5 DEF AllTell, RowTells, RunTells, RowsOf, Drawn, rows, queue
<1> QED BY <1>4, <1>6, <1>7

-----------------------------------------------------------------------------
(* The steps of a process.                                                 *)

\* What it does to its three rows: what is told completed has a version that was
\* drawn, a lane that is cancelled has a task that is over, and a task that is
\* over stays as it is, or its row has been overtaken.
Writes(v, l, t, p) ==
  /\ lane' = [lane EXCEPT ![v] = l]
  /\ version' = [version EXCEPT ![v] = t]
  /\ job' = [job EXCEPT ![v] = p]
  /\ overtaken' \in {overtaken, overtaken \cup {v}}
  /\ l \in LaneStatus
  /\ t \in {"generating", "completed", "failed"}
  /\ p \in JobStatus \ {"absent"}
  /\ l = "completed" \/ p = "completed" \/ Drawn(v) => t # "generating"
  /\ l = "cancelled" => p \in Terminal \/ v \in overtaken'
  /\ job[v] \in Terminal => p = job[v] \/ v \in overtaken'

LEMMA WorkWrites ==
  ASSUME RunInv, NEW w \in Workers, Works(w)
  PROVE  /\ worker[w] \in Execution
         /\ \E l, t, p : Writes(worker[w].row, l, t, p)
         /\ holder' \in [Rows -> Ids \cup {NoId}]
         /\ UNCHANGED <<outputs, project, snapshot, run, msgs, request, events>>
<1> USE DEF RunInv
<1>1. worker[w] \in Execution
  BY Busy DEF At, Works, Activate, CommitActivation, Begin, Draft, DraftFails, StyleGatePasses, StyleGateFails,
              Save, LaneException, Finalize
<1>2. PICK x \in Execution : x = worker[w]
  BY <1>1
<1>3. ProcessTells(x) /\ x # Idle /\ Made(x.row) /\ x.row \in Rows
      /\ x.end \in Terminal \cup {"paused", "none"}
  BY <1>2, ExecutionFields DEF AllTell, RowsAreMade
<1>4. PICK v \in Rows : v = x.row
  BY <1>3
<1>5. /\ version[v] \in {"generating", "completed", "failed"}
      /\ lane[v] \in LaneStatus
      /\ job[v] \in JobStatus \ {"absent"}
      /\ RowTells(v)
      /\ version = [version EXCEPT ![v] = version[v]]
      /\ lane = [lane EXCEPT ![v] = lane[v]]
      /\ job = [job EXCEPT ![v] = job[v]]
  BY <1>3, <1>4 DEF TypeOK, RowsAreMade, AllTell, Made
<1> DEFINE Result == (\E l, t, p : Writes(v, l, t, p)) /\ holder' \in [Rows -> Ids \cup {NoId}]
<1>6. ASSUME UNCHANGED <<version, job, holder, overtaken>>, NEW l \in LaneStatus,
             lane' = [lane EXCEPT ![v] = l],
             l # "completed", l = "cancelled" => job[v] \in Terminal \/ v \in overtaken
      PROVE  Result
  <2>1. Writes(v, l, version[v], job[v])
    BY <1>5, <1>6 DEF Writes, RowTells, Drawn
  <2> QED BY <1>6, <2>1 DEF TypeOK
<1>7. ASSUME UNCHANGED <<lane, version, job, holder, overtaken>> PROVE Result
  <2>1. Writes(v, lane[v], version[v], job[v])
    BY <1>5, <1>7 DEF Writes, RowTells, Drawn
  <2> QED BY <1>7, <2>1 DEF TypeOK
<1>8. ASSUME NEW s \in {"completed", "failed"}, Ends(w, s) PROVE Result
  <2>1. PICK t : t = IF s = x.loaded THEN version[v] ELSE s
    OBVIOUS
  <2>2. version' = [version EXCEPT ![v] = t] /\ lane' = [lane EXCEPT ![v] = s] /\ UNCHANGED <<job, holder, overtaken>>
    BY <1>2, <1>4, <1>8, <2>1 DEF Ends, queue
  <2>3. Writes(v, s, t, job[v])
    BY <1>3, <1>4, <1>5, <2>1, <2>2 DEF Writes, RowTells, Drawn, ProcessTells, LaneStatus, Terminal
  <2> QED BY <2>2, <2>3 DEF TypeOK
<1>9. ASSUME Finalize(w) PROVE Result
  <2>1. x.end \in Terminal \cup {"paused"} /\ (x.end = "completed" => Drawn(v))
    BY <1>2, <1>3, <1>4, <1>9 DEF Finalize, At, ProcessTells
  <2>2. CASE job[v] \in Held
    <3>1. Release(v, x.end) /\ UNCHANGED <<lane, version, overtaken>>
      BY <1>2, <1>4, <1>9, <2>2 DEF Finalize, rows
    <3>2. job' = [job EXCEPT ![v] = x.end] /\ holder' \in [Rows -> Ids \cup {NoId}]
      BY <3>1 DEF Release, TypeOK
    <3>3. Writes(v, lane[v], version[v], x.end)
      BY <1>5, <2>1, <2>2, <3>1, <3>2 DEF Writes, RowTells, Drawn, JobStatus, Held, Terminal
    <3> QED BY <3>2, <3>3
  <2>3. CASE job[v] \notin Held
    BY <1>2, <1>4, <1>7, <1>9, <2>3 DEF Finalize, rows, queue
  <2> QED BY <2>2, <2>3
<1>10. ASSUME CommitActivation(w) PROVE Result
  <2>1. /\ job' = [job EXCEPT ![v] = "running"] /\ UNCHANGED <<lane, version, holder>>
        /\ overtaken' \in {overtaken, overtaken \cup {v}}
        /\ v \in overtaken' \/ job[v] = "dispatching"
    BY <1>2, <1>4, <1>10 DEF CommitActivation, rows
  <2>2. Writes(v, lane[v], version[v], "running")
    BY <1>5, <2>1 DEF Writes, RowTells, Drawn, JobStatus, Held, Terminal
  <2> QED BY <2>1, <2>2 DEF TypeOK
<1> SUFFICES Result /\ UNCHANGED <<outputs, project, snapshot, run, msgs, request, events>>
  BY <1>1, <1>2, <1>4
<1> HIDE DEF Result
<1>11. CASE Activate(w) \/ Draft(w) \/ DraftFails(w) \/ StyleGatePasses(w)
  BY <1>7, <1>11 DEF Activate, Draft, DraftFails, StyleGatePasses, rows, queue
<1>12. CASE CommitActivation(w)
  BY <1>10, <1>12 DEF CommitActivation, rows
<1>13. CASE Begin(w)
  BY <1>2, <1>4, <1>6, <1>13 DEF Begin, queue, LaneStatus, LaneBusy
<1>14. CASE StyleGateFails(w)
  BY <1>8, <1>14 DEF StyleGateFails, Ends
<1>15. CASE Save(w)
  <2>1. PICK e : e = IF worker[w].seen = "unidentified" THEN "failed" ELSE "completed"
    OBVIOUS
  <2>2. Ends(w, e) /\ e \in {"completed", "failed"}
    BY <1>15, <2>1 DEF Save
  <2> QED BY <1>8, <2>2 DEF Ends
<1>16. CASE LaneException(w)
  <2>1. /\ x.end \in {"failed", "cancelled", "paused"}
        /\ x.end = "cancelled" => job[v] \in Terminal \/ v \in overtaken
    BY <1>2, <1>3, <1>4, <1>16 DEF LaneException, At, ProcessTells, Terminal
  <2>2. lane' = [lane EXCEPT ![v] = x.end] /\ UNCHANGED <<version, job, holder, overtaken>>
    BY <1>2, <1>4, <1>16 DEF LaneException, queue
  <2>3. Result
    BY <1>6, <2>1, <2>2 DEF LaneStatus, Terminal
  <2> QED BY <1>16, <2>3 DEF LaneException
<1>17. CASE Finalize(w)
  BY <1>9, <1>17 DEF Finalize, rows
<1> QED BY <1>11, <1>12, <1>13, <1>14, <1>15, <1>16, <1>17 DEF Works

LEMMA WorkIsGoing ==
  ASSUME RunInv, NEW w \in Workers, Works(w)
  PROVE  Goes
<1>1. worker[w] \in Execution /\ worker[w].row \in Rows
  BY WorkWrites, ExecutionFields
<1>2. PICK v \in Rows : v = worker[w].row /\ \E l, t, p : Writes(v, l, t, p)
  BY <1>1, WorkWrites
<1> QED BY <1>2, WorkWrites DEF Goes, Writes, Made, Drawn, RunInv, TypeOK, Terminal

\* Where it goes: it stays with its row, and what it is about to tell is so.
LEMMA WorkTells ==
  ASSUME RunInv, NEW w \in Workers, Works(w)
  PROVE  \E y \in Execution \cup {Idle} :
           /\ worker' = [worker EXCEPT ![w] = y]
           /\ y # Idle => y.row = worker[w].row /\ ProcessTells(y)'
<1> USE DEF RunInv
<1> DEFINE Told == \E y \in Execution \cup {Idle} :
                     /\ worker' = [worker EXCEPT ![w] = y]
                     /\ y # Idle => y.row = worker[w].row /\ ProcessTells(y)'
<1>1. PICK x \in Execution : x = worker[w]
  BY WorkWrites
<1>2. ProcessTells(x) /\ x # Idle /\ Made(x.row) /\ x.row \in Rows /\ Goes
  BY <1>1, WorkIsGoing, ExecutionFields DEF AllTell, RowsAreMade
<1>3. ProcessTells(x)'
  BY <1>2, ProcessStays
<1>4. ASSUME NEW pc \in {"activate", "begin", "draft", "save", "finalize"}, Goto(w, pc),
             pc = "finalize" => x.end \notin {"none", "completed"}
      PROVE  Told
  <2>1. PICK y : y = [x EXCEPT !.pc = pc]
    OBVIOUS
  <2>2. worker' = [worker EXCEPT ![w] = y]
    BY <1>1, <1>4, <2>1 DEF Goto
  <2>3. y \in Execution /\ y.pc = pc /\ y.row = x.row /\ y.loaded = x.loaded /\ y.end = x.end
    BY <2>1, ExecutionGoes
  <2>4. ProcessTells(y)'
    BY <1>3, <1>4, <2>3 DEF ProcessTells
  <2> QED BY <1>1, <2>2, <2>3, <2>4
<1>5. ASSUME NEW pc \in {"leave", "finalize"}, NEW end \in Terminal \cup {"paused"}, Leaving(w, pc, end),
             pc = "leave" => end # "completed" /\ (end = "cancelled" => job[x.row] = "cancelled"),
             end = "completed" => Drawn(x.row)'
      PROVE  Told
  <2>1. PICK y : y = [x EXCEPT !.pc = pc, !.end = end, !.seen = "none", !.loaded = "none"]
    OBVIOUS
  <2>2. worker' = [worker EXCEPT ![w] = y]
    BY <1>1, <1>5, <2>1 DEF Leaving
  <2>3. y \in Execution /\ y.pc = pc /\ y.row = x.row /\ y.loaded = "none" /\ y.end = end
    BY <2>1 DEF Execution
  <2>4. ProcessTells(y)'
    BY <1>2, <1>5, <2>3 DEF ProcessTells, Terminal, Goes, Made
  <2> QED BY <1>1, <2>2, <2>3, <2>4
<1>6. ASSUME Leave(w, Verdict(w)), Verdict(w) # "none" PROVE Told
  <2>1. PICK e : e = Verdict(w)
    OBVIOUS
  <2>2. e \in {"failed", "cancelled", "paused"} /\ (e = "cancelled" => job[x.row] = "cancelled")
    BY <1>1, <1>6, <2>1, Verdicts
  <2>3. Leaving(w, "leave", e)
    BY <1>6, <2>1 DEF Leave
  <2> QED BY <1>5, <2>2, <2>3 DEF Terminal
<1>7. ASSUME Leave(w, "failed") PROVE Told
  BY <1>5, <1>7 DEF Leave, Terminal
<1> SUFFICES Told
  OBVIOUS
<1> HIDE DEF Told
<1>8. CASE Activate(w)
  <2>1. PICK pc : pc = IF job[worker[w].row] = "running" THEN "begin" ELSE "activate"
    OBVIOUS
  <2> QED BY <1>4, <1>6, <1>7, <1>8, <2>1 DEF Activate
<1>9. CASE CommitActivation(w) \/ Begin(w)
  BY <1>4, <1>9 DEF CommitActivation, Begin
<1>10. CASE Draft(w)
  <2>1. CASE ~(Verdict(w) # "none" \/ snapshot \in {"none", "no_chapters"})
    <3>1. PICK s \in Sources, l \in {"generating", "completed", "failed"} : s = snapshot /\ l = version[x.row]
      BY <1>2, <2>1 DEF TypeOK, RowsAreMade
    <3>2. PICK y : y = [x EXCEPT !.pc = "gate", !.seen = s, !.loaded = l]
      OBVIOUS
    <3>3. worker' = [worker EXCEPT ![w] = y]
      BY <1>1, <1>10, <2>1, <3>1, <3>2 DEF Draft
    <3>4. y \in Execution /\ y.row = x.row /\ y.pc = "gate" /\ y.loaded = l
      BY <3>2 DEF Execution
    <3>5. y.loaded = "completed" => Drawn(x.row)'
      BY <1>2, <3>1, <3>4 DEF Goes, Drawn
    <3>6. ProcessTells(y)'
      BY <3>4, <3>5 DEF ProcessTells
    <3> QED BY <1>1, <3>3, <3>4, <3>6 DEF Told
  <2> QED BY <1>6, <1>7, <1>10, <2>1 DEF Draft
<1>11. CASE DraftFails(w)
  BY <1>7, <1>11 DEF DraftFails
<1>12. CASE StyleGatePasses(w)
  BY <1>4, <1>6, <1>12 DEF StyleGatePasses
<1>13. CASE StyleGateFails(w)
  BY <1>5, <1>13 DEF StyleGateFails, Ends, Terminal
<1>14. CASE Save(w)
  <2>1. PICK e : e = IF worker[w].seen = "unidentified" THEN "failed" ELSE "completed"
    OBVIOUS
  <2>2. Leaving(w, "finalize", e) /\ e \in Terminal
    BY <1>14, <2>1 DEF Save, Ends, Terminal
  <2>3. /\ lane'[x.row] = e
        /\ \E l, t, p : Writes(x.row, l, t, p)
    BY <1>1, <1>2, <1>14, <2>1, WorkWrites DEF Save, Ends, TypeOK
  <2>4. e = "completed" => Drawn(x.row)'
    BY <1>2, <2>3 DEF Writes, Drawn, TypeOK
  <2> QED BY <1>5, <2>2, <2>4
<1>15. CASE LaneException(w)
  BY <1>1, <1>2, <1>4, <1>15 DEF LaneException, At, ProcessTells
<1>16. CASE Finalize(w)
  BY <1>16 DEF Finalize, Told
<1> QED BY <1>8, <1>9, <1>10, <1>11, <1>12, <1>13, <1>14, <1>15, <1>16 DEF Works

LEMMA WorkKeeps ==
  ASSUME RunInv, NEW w \in Workers, Works(w)
  PROVE  RunInv'
<1> USE DEF RunInv
<1>1. PICK v \in Rows : v = worker[w].row /\ worker[w] # Idle /\ Made(v)
  BY WorkWrites, ExecutionFields DEF RowsAreMade
<1>2. PICK l, t, p : Writes(v, l, t, p)
  BY <1>1, WorkWrites
<1>3. /\ UNCHANGED <<outputs, project, snapshot, run, msgs, request, events>>
      /\ holder' \in [Rows -> Ids \cup {NoId}]
  BY WorkWrites
<1>4. PICK y \in Execution \cup {Idle} :
        /\ worker' = [worker EXCEPT ![w] = y]
        /\ y # Idle => y.row = v /\ ProcessTells(y)'
  BY <1>1, WorkTells
<1>5. Goes
  BY WorkIsGoing
<1>6. /\ \A u \in Rows : Made(u)' <=> Made(u)
      /\ \A u \in Rows : u # v => lane'[u] = lane[u] /\ job'[u] = job[u] /\ version'[u] = version[u]
      /\ lane'[v] = l /\ version'[v] = t /\ job'[v] = p
  BY <1>1, <1>2 DEF Writes, Made, TypeOK
<1>7. TypeOK'
  BY <1>2, <1>3, <1>4 DEF TypeOK, Writes
<1>8. ASSUME NEW u \in Workers, worker'[u] # Idle PROVE Made(worker[u].row)' /\ ProcessTells(worker[u])'
  <2>1. CASE u = w
    <3>1. y = worker'[u] /\ y # Idle
      BY <1>4, <1>8, <2>1 DEF TypeOK
    <3> QED BY <1>1, <1>4, <1>6, <3>1 DEF ProcessTells, Drawn
  <2>2. CASE u # w
    <3>1. PICK x \in Execution : x = worker[u] /\ x = worker'[u]
      BY <1>4, <1>8, <2>2 DEF TypeOK
    <3>2. Made(x.row)' /\ ProcessTells(x)'
      BY <1>5, <3>1, ProcessStays, ExecutionFields DEF RowsAreMade, AllTell
    <3> QED BY <3>1, <3>2 DEF Made, ProcessTells, Drawn
  <2> QED BY <2>1, <2>2
<1>9. RowsAreMade'
  <2>1. \A u \in Rows : /\ Made(u)' <=> run'[u[1]].status # "absent" /\ u[2] \in outputs'
                        /\ Made(u)' => version'[u] # "absent"
    BY <1>2, <1>3, <1>6 DEF RowsAreMade, Writes
  <2>2. \A m \in msgs' : Made(m.row)'
    BY <1>3, <1>6 DEF RowsAreMade, TypeOK, Message
  <2> QED BY <1>3, <1>8, <2>1, <2>2 DEF RowsAreMade, RowsOf
<1>10. AllTell'
  <2>1. ASSUME NEW u \in Rows PROVE RowTells(u)'
    <3>1. CASE u = v
      BY <1>2, <1>6, <3>1 DEF Writes, RowTells, Drawn
    <3>2. CASE u # v
      BY <1>5, <1>6, <3>2 DEF AllTell, RowTells, Drawn, Goes
    <3> QED BY <3>1, <3>2
  <2>2. ASSUME NEW r \in Runs PROVE RunTells(r)'
    <3>1. RunTells(r) /\ RowsOf(r)' = RowsOf(r) /\ \A u \in RowsOf(r) : u \in Rows
      BY <1>3, RowsAreLanes DEF AllTell, RowsOf
    <3>2. run'[r].status = "completed" => \A u \in RowsOf(r) : Drawn(u)'
      <4> SUFFICES ASSUME run'[r].status = "completed", NEW u \in RowsOf(r) PROVE Drawn(u)'
        OBVIOUS
      <4>1. Drawn(u) /\ Made(u) /\ u \in Rows
        BY <1>3, <3>1, RowsAreLanes DEF RunTells, RowsAreMade
      <4> QED BY <1>5, <4>1 DEF Goes
    <3>3. ASSUME run'[r].status = "cancelled", NEW u \in RowsOf(r), u \notin overtaken' PROVE job'[u] \in Terminal
      <4>1. job[u] \in Terminal /\ u \in Rows
        BY <1>3, <1>5, <3>1, <3>3 DEF RunTells, Goes
      <4> QED BY <1>2, <1>6, <3>3, <4>1 DEF Writes
    <3> QED BY <3>1, <3>2, <3>3 DEF RunTells
  <2> QED BY <1>8, <2>1, <2>2 DEF AllTell
<1> QED BY <1>7, <1>9, <1>10

-----------------------------------------------------------------------------
LEMMA RunStep == RunInv /\ [Next]_vars => RunInv'
<1> SUFFICES ASSUME RunInv, [Next]_vars PROVE RunInv'
  OBVIOUS
<1> USE DEF RunInv
<1>1. CASE Preflight
  BY <1>1, QuietKeeps DEF Preflight, TypeOK, ProjectStatus
<1>2. ASSUME NEW k \in Keys \cup {NoKey}, StartRun(k) PROVE RunInv'
  BY <1>2, CreateKeeps DEF StartRun, TypeOK
<1>3. ASSUME NEW q \in Requests, NEW k \in Keys \cup {NoKey}, ReadStart(q, k) PROVE RunInv'
  <2>1. [op |-> "start", key |-> k] \in Start /\ "start" \notin Op
    BY DEF Start, Op
  <2> QED BY <1>3, <2>1, QuietKeeps DEF ReadStart, rows, queue, TypeOK
<1>4. ASSUME NEW q \in Requests, CommitStart(q) PROVE RunInv'
  <2>1. /\ request' = [request EXCEPT ![q] = NoRequest] /\ NoRequest.op \notin Op
        /\ request[q].key \in Keys \cup {NoKey}
    BY <1>4 DEF CommitStart, NoRequest, Op, TypeOK, Start, Control
  <2> QED BY <1>4, <2>1, CreateKeeps DEF CommitStart, TypeOK
<1>5. ASSUME NEW r \in Runs, Poll(r) PROVE RunInv'
  BY <1>5, PollKeeps
<1>6. ASSUME NEW q \in Requests, NEW op \in Op, NEW r \in Runs, ReadAction(q, op, r) PROVE RunInv'
  <2>1. PICK c : c = [op |-> op, run |-> r, loaded |-> run[r], project |-> project,
                      seen |-> [v \in RowsOf(r) |-> ViewOf(v)]]
    OBVIOUS
  <2>2. request' = [request EXCEPT ![q] = c]
    BY <1>6, <2>1 DEF ReadAction
  <2>3. c \in Control
    BY <2>1, ViewsTyped DEF Control, TypeOK
  <2>4. DOMAIN c.seen = RowsOf(c.run) /\ run[c.run].status # "absent"
    <3>1. run[r].state # "absent"
      BY <1>6 DEF ReadAction, Op
    <3> QED BY <2>1, <3>1 DEF RowsAreMade
  <2> QED BY <1>6, <2>2, <2>3, <2>4, QuietKeeps DEF ReadAction, rows, queue, TypeOK
<1>7. ASSUME NEW q \in Requests, CommitAction(q) PROVE RunInv'
  BY <1>7, ActionKeeps
<1>8. ASSUME NEW v \in Rows, FinalizeVersion(v) PROVE RunInv'
  BY <1>8, QuietKeeps DEF FinalizeVersion, queue, TypeOK, ProjectStatus
<1>9. ASSUME NEW v \in Rows, Dispatch(v) \/ Reclaim(v) PROVE RunInv'
  BY <1>9, QueueKeeps
<1>10. ASSUME NEW w \in Workers, Deliver(w) \/ Crash(w) \/ VisibilityTimeout(w) PROVE RunInv'
  BY <1>10, BrokerKeeps
<1>11. ASSUME NEW w \in Workers, Works(w) PROVE RunInv'
  BY <1>11, WorkKeeps
<1>12. CASE UNCHANGED vars
  BY <1>12, QuietKeeps DEF vars, rows, queue, TypeOK
<1> QED BY <1>1, <1>2, <1>3, <1>4, <1>5, <1>6, <1>7, <1>8, <1>9, <1>10, <1>11, <1>12
        DEF Next, UserNext, QueueNext, WorkerNext

LEMMA RunInit == Init => RunInv
<1> SUFFICES ASSUME Init PROVE RunInv
  OBVIOUS
<1>1. TypeOK
  BY StoryboardAssumption DEF Init, TypeOK, ProjectStatus, JobStatus, LaneStatus, RunRow
<1>2. RowsAreMade
  BY RowsAreLanes DEF Init, RowsAreMade, Made, NoRequest, Op
<1>3. AllTell
  BY DEF Init, AllTell, RowTells, RunTells
<1> QED BY <1>1, <1>2, <1>3 DEF RunInv

LEMMA RunInvHolds == Spec => []RunInv
  BY RunInit, RunStep, PTL DEF Spec

-----------------------------------------------------------------------------
(* The theorems.                                                           *)

\* Projects, runs, lanes, versions, tasks, processes and requests keep their
\* types, for any number of runs, lanes, processes and faults.
THEOREM StoryboardTypes == Spec => []TypeOK
  BY RunInvHolds, PTL DEF RunInv

\* A task, a lane or a run that says completed has versions that were drawn to
\* their end (run_storyboard_lane), whatever duplicates, superseded processes and
\* overtaken requests wrote.
THEOREM SuccessesAreDrawn == Spec => []SuccessIsDrawn
<1>1. RunInv => SuccessIsDrawn
  BY DEF RunInv, AllTell, RowTells, RunTells, SuccessIsDrawn
<1> QED BY <1>1, RunInvHolds, PTL

\* No task of a run that counts as cancelled is queued, held or paused, however
\* it came to count as cancelled (run_action, refresh_run_status), but for those
\* that a request or an activation wrote which had read an older row.
THEOREM CancelledRunsAreOver == Spec => []CancelledRunIsOver
<1>1. RunInv => CancelledRunIsOver
  BY DEF RunInv, AllTell, RunTells, CancelledRunIsOver
<1> QED BY <1>1, RunInvHolds, PTL
=============================================================================
