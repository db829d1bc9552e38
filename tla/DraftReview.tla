----------------------------- MODULE DraftReview -----------------------------
(***************************************************************************)
(* How a draft comes about and what becomes of it: the calls node_writer   *)
(* makes for one, those node_review makes for each reviewer, what it takes *)
(* for a reviewer that gives none, and the gate that sums the verdicts up. *)
(* ChapterDraft has the loop around it.                                    *)
(*                                                                         *)
(* Scores and confidences are in percent.  The four reviewers run side by  *)
(* side and share nothing, so they are asked one after the other here.     *)
(***************************************************************************)
EXTENDS Naturals

CONSTANTS
  Methods,       \* structured-output methods of the provider's adapter
  SchemaRetries, \* LLM_OUTPUT_MAX_SCHEMA_RETRIES
  Retries,       \* retries of _invoke_json_with_schema
  Tries,         \* _MAX_RETRIES of the proxy around a model
  Weight,        \* review_weights of the strategy, in percent
  Scores, Confidences   \* what a model may answer

VARIABLES
  mode,     \* "separate", or "combined" if the strategy has combined_reviewer
  draft,    \* variant of the candidate, or "none"
  ladder,   \* the call of the writer in hand
  asked,    \* the call of a reviewer in hand
  pack,     \* what the reviewers have said so far
  at

reviewVars == <<mode, draft, ladder, asked, pack, at>>

Reviewer == 1..4    \* structure, factual, progression, aesthetic

\* One issue of a reviewer that must be fixed: weak if its evidence is not in the
\* draft or its confidence below 0.6; blocks is progression's transition_conflict
\* or no_new_delta.
Verdict == [score: Scores, confidence: Confidences, issue: {"none", "weak", "valid"}, blocks: BOOLEAN]

FirstCall == [round |-> 1, variant |-> "A", method |-> 1, attempt |-> 0]
FirstAsked(r) == [reviewer |-> r, attempt |-> 0, try |-> 1]
NoPack == [weighted |-> 0, lowest |-> 100, confidence |-> 0, issues |-> 0, valid |-> 0,
           blocked |-> FALSE, skipped |-> 0]

ReviewTypeOK ==
  /\ mode \in {"separate", "combined"}
  /\ draft \in {"none", "A", "B"}
  /\ ladder \in [round: 1..2, variant: {"A", "B"}, method: 1..Methods, attempt: 0..SchemaRetries]
  /\ asked \in [reviewer: 1..5, attempt: 0..Retries, try: 1..Tries]
  /\ pack \in [weighted: Nat, lowest: 0..100, confidence: Nat, issues: 0..4, valid: 0..4,
               blocked: BOOLEAN, skipped: 0..4]
  /\ at \in {"write", "raised", "ask", "grade", "gate", "finalizer", "again"}

ReviewInit ==
  /\ mode \in {"separate", "combined"}
  /\ draft = "none"
  /\ ladder = FirstCall
  /\ asked = FirstAsked(1)
  /\ pack = NoPack
  /\ at = "write"

-----------------------------------------------------------------------------
(* The writer.                                                             *)

\* A body that keeps the contract: the other variant is not asked for.
DraftWritten ==
  /\ at = "write"
  /\ draft' = ladder.variant
  /\ ladder' = FirstCall
  /\ at' = "ask"
  /\ UNCHANGED <<mode, asked, pack>>

\* invoke_chapter_body_structured: whatever failed, the same method again, then the
\* next one of _method_order.
SameMethod == ladder.attempt < SchemaRetries /\ ladder' = [ladder EXCEPT !.attempt = @ + 1]
NextMethod ==
  /\ ladder.attempt = SchemaRetries /\ ladder.method < Methods
  /\ ladder' = [ladder EXCEPT !.method = @ + 1, !.attempt = 0]

Exhausted == ladder.attempt = SchemaRetries /\ ladder.method = Methods

\* _attempt_ab_write: the bolder variant, if the steady one gave no draft.
OtherVariant ==
  /\ Exhausted /\ ladder.variant = "A"
  /\ ladder' = [FirstCall EXCEPT !.round = ladder.round, !.variant = "B"]

NextRound ==
  /\ Exhausted /\ ladder.variant = "B" /\ ladder.round < 2
  /\ ladder' = [FirstCall EXCEPT !.round = 2]

WriterCallFails ==
  /\ at = "write"
  /\ SameMethod \/ NextMethod \/ OtherVariant \/ NextRound
  /\ UNCHANGED <<mode, draft, asked, pack, at>>

\* After the last call node_writer raises, and the execution with it.
WriterRaises ==
  /\ at = "write" /\ Exhausted /\ ladder.variant = "B" /\ ladder.round = 2
  /\ at' = "raised"
  /\ UNCHANGED <<mode, draft, ladder, asked, pack>>

-----------------------------------------------------------------------------
(* The reviewers.                                                          *)

\* A zero is read as a value that is not there: by normalize_reviewer_payload, and
\* for the confidence by the agents of three reviewers before it.
Read(x, default) == IF x = 0 THEN default ELSE x

\* What the gate and the weighted score take from one verdict.
Counted(p, r, v) ==
  LET score == Read(v.score, 75)
      confidence == Read(v.confidence, IF mode = "combined" \/ r = 1 THEN 60 ELSE 75)
  IN  [p EXCEPT !.weighted = @ + Weight[r] * score,
                !.lowest = IF score < @ THEN score ELSE @,
                !.confidence = @ + confidence,
                !.issues = @ + (IF v.issue = "none" THEN 0 ELSE 1),
                !.valid = @ + (IF v.issue = "valid" THEN 1 ELSE 0),
                !.blocked = @ \/ (r = 3 /\ v.blocks)]

\* Mutant of Fallback: a reviewer that was skipped is as sure as one that was asked.
FallbackAsSure == [score |-> 75, confidence |-> 75, issue |-> "none", blocks |-> FALSE]

\* _REVIEWER_FALLBACK
Fallback == [score |-> 75, confidence |-> 30, issue |-> "none", blocks |-> FALSE]

\* _empty_defaults of run_combined
EmptyDefault == [score |-> 80, confidence |-> 75, issue |-> "none", blocks |-> FALSE]

\* The next reviewer, asked by a call of its own or in the same one.
Onward(r) ==
  /\ asked' = FirstAsked(r + 1)
  /\ at' = IF r = 4 THEN "gate" ELSE IF mode = "combined" THEN "grade" ELSE "ask"

ReviewerAnswers ==
  /\ at = "ask"
  /\ at' = "grade"
  /\ UNCHANGED <<mode, draft, ladder, asked, pack>>

\* An answer that keeps the schema; a reviewer that is not asked for progression
\* blocks nothing.
Graded(v) ==
  /\ at = "grade"
  /\ v.blocks => asked.reviewer = 3
  /\ pack' = Counted(pack, asked.reviewer, v)
  /\ Onward(asked.reviewer)
  /\ UNCHANGED <<mode, draft, ladder>>

\* _TrackedLLMProxy: a connection, a rate limit or a server error is tried again.
TransientError ==
  /\ at = "ask" /\ asked.try < Tries
  /\ asked' = [asked EXCEPT !.try = @ + 1]
  /\ UNCHANGED <<mode, draft, ladder, pack, at>>

\* _invoke_json_with_schema: an answer that is blocked, empty or outside of its
\* schema, or the last try of the proxy.
AskAgain ==
  /\ at = "ask" /\ asked.attempt < Retries
  /\ asked' = [asked EXCEPT !.attempt = @ + 1, !.try = 1]
  /\ UNCHANGED <<mode, draft, ladder, pack, at>>

\* The end of the attempts, or an error that is not worth another: node_review goes
\* on without the reviewer.
ReviewerSkipped ==
  /\ at = "ask" /\ mode = "separate"
  /\ pack' = [Counted(pack, asked.reviewer, Fallback) EXCEPT !.skipped = @ + 1]
  /\ Onward(asked.reviewer)
  /\ UNCHANGED <<mode, draft, ladder>>

\* run_combined never raises: all that is known of the draft is then its defaults.
CombinedFails ==
  /\ at = "ask" /\ mode = "combined"
  /\ pack' = [Counted(Counted(Counted(Counted(pack, 1, EmptyDefault), 2, EmptyDefault),
                              3, EmptyDefault), 4, EmptyDefault) EXCEPT !.skipped = 4]
  /\ Onward(4)
  /\ UNCHANGED <<mode, draft, ladder>>

-----------------------------------------------------------------------------
(* The gate.                                                               *)

\* build_review_gate: sure and not low with nothing to fix, or surer with nothing
\* to fix that the draft bears out; evidence_coverage is 0 then.
Consents(p) ==
  /\ ~p.blocked
  /\ \/ p.issues = 0 /\ p.confidence >= 4 * 72 /\ p.lowest >= 68
     \/ p.valid = 0 /\ p.confidence >= 4 * 80

OverCorrects(p) == p.issues >= 3 /\ 100 * p.valid < 34 * p.issues

\* The weighted score, less 0.02 if the critics overdo it, against
\* REVIEW_SCORE_THRESHOLD.
Reaches(p) == p.weighted >= 7000 + (IF OverCorrects(p) THEN 200 ELSE 0)

\* _route_review: to the finalizer, or back to the writer.
Route ==
  /\ at = "gate"
  /\ at' = IF Consents(pack) \/ Reaches(pack) THEN "finalizer" ELSE "again"
  /\ UNCHANGED <<mode, draft, ladder, asked, pack>>

ReviewNext ==
  \/ DraftWritten \/ WriterCallFails \/ WriterRaises
  \/ ReviewerAnswers \/ TransientError \/ AskAgain \/ ReviewerSkipped \/ CombinedFails
  \/ \E v \in Verdict : Graded(v)
  \/ Route

ReviewSpec == ReviewInit /\ [][ReviewNext]_reviewVars

-----------------------------------------------------------------------------
(* Properties.                                                             *)

\* Where each reviewer is asked by a call of its own, the consent of the gate is
\* never that of reviewers who were skipped: at most one of the four was, for the
\* doubt of a second one takes it back (_REVIEWER_FALLBACK, build_review_gate).
SkippedNeverConsents ==
  mode = "separate" /\ at \in {"gate", "finalizer"} /\ Consents(pack) => pack.skipped <= 1
=============================================================================
