---------------------------- MODULE WorkflowRuns ----------------------------
(***************************************************************************)
(* One run of the older, linear quote workflow: a row of workflow_runs     *)
(* that requests, background jobs and decisions overwrite whole.           *)
(*                                                                         *)
(* POST /api/playground/rfqs looks for the run, saves a queued one, starts *)
(* the workflow in the background and answers.  The workflow writes to the *)
(* TMS by itself when nothing asks for a review, and its result replaces   *)
(* the row.  POST /api/approvals/:runId/decision reads the row, writes to  *)
(* the TMS if the decision says so, and replaces the row and the decision. *)
(* Nobody claims anything: this is the run without quote_runs row that     *)
(* QuoteRun leaves out.                                                    *)
(*                                                                         *)
(* The lanes of a run are one batch; one failed write fails the batch.     *)
(***************************************************************************)
EXTENDS Naturals, FiniteSets

CONSTANTS Submitters,  \* POST /api/playground/rfqs requests of one run id
          Deciders,    \* decision requests
          Actions,     \* the actions they can ask for
          Faults       \* the kinds of failure that can happen

ASSUME RequestsAssumption == Submitters \cap Deciders = {}
ASSUME ActionsAssumption ==
  Actions \subseteq {"approve", "adjust", "reject", "request_review"}
ASSUME FaultsAssumption ==
  Faults \subseteq {"workflow",  \* a tool, the overlay or the workflow rejects
                    "tms",       \* a write to the TMS fails
                    "save",      \* a save rejects, with or without effect
                    "crash"}     \* the process dies and starts again

Refusals == {"reject", "request_review"}
None     == "none"

(* A run as stored.  stage tells whether it holds a quote, which a queued  *)
(* run and a failed one do not; required, whether a human has to decide;   *)
(* written, what became of the write to the TMS: "no", "completed",        *)
(* "failed" or "review_required".                                          *)
NoRun     == [stage |-> "absent", required |-> FALSE, written |-> "no"]
Queued    == [stage |-> "queued", required |-> FALSE, written |-> "no"]
FailedRun == [stage |-> "failed", required |-> TRUE, written |-> "no"]

VARIABLES
  row,        \* the row of workflow_runs
  decision,   \* the action in approval_decisions
  tms,        \* batches written to the TMS
  pc,         \* where every request is; how it is answered is left out
  job,        \* the workflow every submission started
  result,     \* what that workflow returned
  snapshot,   \* the run a decision works on
  action,     \* what every decision asks for
  outage,     \* history: a save or the process failed
  overlapped, \* history: two submissions found no run
  early,      \* history: a decision read a run without a quote
  contested   \* history: two decisions were under way together

requests == <<pc, action, snapshot>>
jobs     == <<job, result>>
store    == <<row, decision>>
history  == <<outage, overlapped, early, contested>>
vars     == <<requests, jobs, store, tms, history>>

Requests == Submitters \cup Deciders

Init ==
  /\ row = NoRun /\ decision = None /\ tms = 0
  /\ pc = [r \in Requests |-> "idle"]
  /\ job = [s \in Submitters |-> "none"]
  /\ result = [s \in Submitters |-> NoRun]
  /\ snapshot = [d \in Deciders |-> NoRun]
  /\ action = [d \in Deciders |-> None]
  /\ outage = FALSE /\ overlapped = FALSE /\ early = FALSE /\ contested = FALSE

Move(r, from, to) == pc[r] = from /\ pc' = [pc EXCEPT ![r] = to]
Outage(kind) == kind \in Faults /\ outage' = TRUE

-----------------------------------------------------------------------------
(* POST /api/playground/rfqs                                               *)

(* The license, the body's checks and the run's lookup.                    *)
IsNewUnlessQuoted == row.stage # "quoted"
IsNew == row = NoRun

Submit(s) ==
  /\ IsNew
  /\ Move(s, "idle", "starting")
  /\ overlapped' = (overlapped \/ \E t \in Submitters : pc[t] = "starting")
  /\ UNCHANGED <<action, snapshot, jobs, store, tms, outage, early, contested>>

(* The run is there: its state, or a conflict if its body was another; or  *)
(* there is no license, or the body is invalid.                            *)
AnswerAtOnce(s) ==
  /\ Move(s, "idle", "over")
  /\ UNCHANGED <<action, snapshot, jobs, store, tms, history>>

(* withDefaultTools rejects: a 4xx or 5xx, and nothing was saved.          *)
StartFails(s) ==
  /\ "workflow" \in Faults
  /\ Move(s, "starting", "over")
  /\ UNCHANGED <<action, snapshot, jobs, store, tms, history>>

(* The queued run is saved before the workflow starts.                     *)
Queue(s) ==
  /\ Move(s, "starting", "over")
  /\ row' = Queued
  /\ job' = [job EXCEPT ![s] = "running"]
  /\ UNCHANGED <<action, snapshot, result, decision, tms, history>>

QueueFails(s) ==
  /\ Outage("save")
  /\ Move(s, "starting", "over")
  /\ row' \in {row, Queued}
  /\ UNCHANGED <<action, snapshot, jobs, decision, tms, overlapped, early, contested>>

-----------------------------------------------------------------------------
(* The workflow in the background                                          *)

(* A batch of writes: what it returns, and what the TMS has.               *)
Write(written) ==
  \/ written = "completed" /\ tms' = tms + 1
  \/ written = "failed" /\ "tms" \in Faults /\ tms' \in {tms, tms + 1}

WriteUnlessReview(required, written) ==
  IF required THEN written = "review_required" /\ UNCHANGED tms ELSE Write(written)

(* approvalGate, commsAgent and writeback, after every lane was priced.    *)
Work(s) ==
  /\ job[s] = "running"
  /\ \E required \in BOOLEAN, written \in {"completed", "failed", "review_required"} :
       /\ WriteUnlessReview(required, written)
       /\ result' = [result EXCEPT ![s] =
            [stage |-> "quoted", required |-> required, written |-> written]]
  /\ job' = [job EXCEPT ![s] = "returned"]
  /\ UNCHANGED <<requests, store, history>>

WorkFails(s) ==
  /\ "workflow" \in Faults
  /\ job[s] = "running"
  /\ job' = [job EXCEPT ![s] = "failing"]
  /\ UNCHANGED <<requests, result, store, tms, history>>

SaveResult(s) ==
  /\ job[s] = "returned"
  /\ row' = result[s]
  /\ job' = [job EXCEPT ![s] = "over"]
  /\ result' = [result EXCEPT ![s] = NoRun]
  /\ UNCHANGED <<requests, decision, tms, history>>

(* The catch handles a rejected save as a failed workflow.                 *)
SaveResultFails(s) ==
  /\ Outage("save")
  /\ job[s] = "returned"
  /\ row' \in {row, result[s]}
  /\ job' = [job EXCEPT ![s] = "failing"]
  /\ result' = [result EXCEPT ![s] = NoRun]
  /\ UNCHANGED <<requests, decision, tms, overlapped, early, contested>>

FailureNotSaved == row
FailureSaved == FailedRun

SaveFailure(s) ==
  /\ job[s] = "failing"
  /\ row' = FailureSaved
  /\ job' = [job EXCEPT ![s] = "over"]
  /\ UNCHANGED <<requests, result, decision, tms, history>>

-----------------------------------------------------------------------------
(* POST /api/approvals/:runId/decision, for a run without quote_runs row   *)

Deciding == {"deciding", "saving", "recording"}

ReadRun(d) ==
  /\ row # NoRun
  /\ Move(d, "idle", "deciding")
  /\ snapshot' = [snapshot EXCEPT ![d] = row]
  /\ \E a \in Actions : action' = [action EXCEPT ![d] = a]
  /\ early' = (early \/ row.stage # "quoted")
  /\ contested' = (contested \/ \E e \in Deciders : pc[e] \in Deciding)
  /\ UNCHANGED <<jobs, store, tms, outage, overlapped>>

(* No such run, no license or an invalid decision.                         *)
RefuseDecision(d) ==
  /\ Move(d, "idle", "over")
  /\ UNCHANGED <<action, snapshot, jobs, store, tms, history>>

(* applyApprovalDecision on the run that was read.                         *)
Released(run) == [run EXCEPT !.required = FALSE, !.written = "review_required"]
Retained(run) == [run EXCEPT !.required = TRUE, !.written = "review_required"]

Writes(d) == snapshot[d].stage = "quoted" /\ action[d] \notin Refusals

Apply(d) ==
  /\ Move(d, "deciding", "saving")
  /\ LET run == snapshot[d]
     IN  \/ /\ run.stage # "quoted"
            /\ UNCHANGED <<snapshot, tms>>
         \/ /\ run.stage = "quoted" /\ action[d] \in Refusals
            /\ snapshot' = [snapshot EXCEPT ![d] = Retained(run)]
            /\ UNCHANGED tms
         \/ /\ Writes(d)
            /\ \E written \in {"completed", "failed"} :
                 /\ Write(written)
                 /\ snapshot' = [snapshot EXCEPT ![d].required = FALSE, ![d].written = written]
  /\ UNCHANGED <<action, jobs, store, history>>

SaveRun(d) ==
  /\ Move(d, "saving", "recording")
  /\ row' = snapshot[d]
  /\ snapshot' = [snapshot EXCEPT ![d] = NoRun]
  /\ UNCHANGED <<action, jobs, decision, tms, history>>

SaveRunFails(d) ==
  /\ Outage("save")
  /\ Move(d, "saving", "over")
  /\ row' \in {row, snapshot[d]}
  /\ snapshot' = [snapshot EXCEPT ![d] = NoRun]
  /\ UNCHANGED <<action, jobs, decision, tms, overlapped, early, contested>>

SaveDecision(d) ==
  /\ Move(d, "recording", "over")
  /\ decision' = action[d]
  /\ UNCHANGED <<action, snapshot, jobs, row, tms, history>>

SaveDecisionFails(d) ==
  /\ Outage("save")
  /\ Move(d, "recording", "over")
  /\ decision' \in {decision, action[d]}
  /\ UNCHANGED <<action, snapshot, jobs, row, tms, overlapped, early, contested>>

-----------------------------------------------------------------------------
(* Jobs and requests in memory are gone.  A write under way may have       *)
(* reached the TMS.                                                        *)
Resting == {"idle", "over"}

Die ==
  /\ job' = [s \in Submitters |-> IF job[s] = "none" THEN "none" ELSE "over"]
  /\ result' = [s \in Submitters |-> NoRun]
  /\ snapshot' = [d \in Deciders |-> NoRun]
  /\ pc' = [r \in Requests |-> IF pc[r] \in Resting THEN pc[r] ELSE "over"]
  /\ UNCHANGED <<action, decision, overlapped, early, contested>>

Crash ==
  /\ Outage("crash")
  /\ \E r \in Requests : pc[r] \notin Resting \/ (r \in Submitters /\ job[r] \notin {"none", "over"})
  /\ Die
  /\ \/ UNCHANGED tms
     \/ /\ \/ \E s \in Submitters : job[s] = "running"
           \/ \E d \in Deciders : pc[d] = "deciding" /\ Writes(d)
        /\ tms' = tms + 1
  /\ UNCHANGED row

(* Nobody handles the rejection of the catch's own save: Node ends the     *)
(* process, with the API and the mailbox intake in it.                     *)
SaveFailureFails(s) ==
  /\ Outage("save")
  /\ job[s] = "failing"
  /\ row' \in {row, FailureSaved}
  /\ Die
  /\ UNCHANGED tms

-----------------------------------------------------------------------------
Background(s) == Work(s) \/ WorkFails(s) \/ SaveResult(s) \/ SaveFailure(s)

Next ==
  \/ \E s \in Submitters :
       \/ Submit(s) \/ AnswerAtOnce(s) \/ StartFails(s) \/ Queue(s) \/ QueueFails(s)
       \/ Background(s) \/ SaveResultFails(s) \/ SaveFailureFails(s)
  \/ \E d \in Deciders :
       \/ ReadRun(d) \/ RefuseDecision(d) \/ Apply(d)
       \/ SaveRun(d) \/ SaveRunFails(d) \/ SaveDecision(d) \/ SaveDecisionFails(d)
  \/ Crash

(* The event loop runs a job's continuations.                              *)
Spec == Init /\ [][Next]_vars /\ \A s \in Submitters : WF_vars(Background(s))

-----------------------------------------------------------------------------
(* Until somebody decides, the TMS holds what one workflow may write: one  *)
(* batch, or none when the run waits for a review.  Retries of the         *)
(* submission, however often and across a restart, add nothing, unless two *)
(* of them looked for the run before either had saved it.                  *)
WrittenAsReviewed ==
  (\A d \in Deciders : action[d] = None) /\ ~ overlapped
    => tms <= IF row.stage = "quoted" /\ row.required THEN 0 ELSE 1

Undisturbed == ~ overlapped /\ ~ early /\ ~ outage /\ ~ contested

(* Once a decision is recorded and no other is under way, the run says     *)
(* what the decision says.                                                 *)
DecisionMatchesRun ==
  decision # None /\ Undisturbed /\ (\A d \in Deciders : pc[d] \notin Deciding)
    => (row.required <=> decision \in Refusals)

(* A queued run does not stay queued, unless the process or a save failed, *)
(* or a decision put it back.                                              *)
RunLeavesQueue == row.stage = "queued" ~> row.stage # "queued" \/ outage \/ early
=============================================================================
