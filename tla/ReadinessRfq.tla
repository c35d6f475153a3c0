---------------------------- MODULE ReadinessRfq ----------------------------
(***************************************************************************)
(* The test_rfq phase of the onboarding command, against the API it polls: *)
(* one priced run with a fixed id proves that the appliance works.         *)
(*                                                                         *)
(* The phase writes a receipt, asks GET /api/rfqs/:runId, submits the run  *)
(* when there is none, and polls until the answer passes or 120 s are      *)
(* over.  The operator runs the command again after a failure.             *)
(*                                                                         *)
(* Every submission is one request of WorkflowRuns, whose run is the fixed *)
(* one; nobody decides on it.                                              *)
(***************************************************************************)
EXTENDS WorkflowRuns

VARIABLES
  receipt, \* test-rfq-receipt.json
  phase,   \* where the command is
  poster,  \* the submissions of the command that runs
  seen     \* the row behind the last answer of GET /api/rfqs/:runId

command == <<receipt, phase, poster, seen>>

ReadinessInit ==
  Init /\ receipt = "none" /\ phase = "idle" /\ poster = {} /\ seen = NoRun

Becomes(from, to) == phase = from /\ phase' = to

(* The API answers with the stored workflow state as it is.  status and    *)
(* approval_required are columns of the row and fields of its summary, not *)
(* of the state.                                                           *)
Body(run) ==
  IF run.stage = "quoted"
  THEN [base_quote |-> IF run.required THEN "REVIEW_REQUIRED" ELSE "APPROVED",
        route_evidence |-> "resolved", writeback |-> run.written]
  ELSE [writeback |-> run.written]

HasPassingTestRfq(body) ==
  /\ {"base_quote", "route_evidence", "status", "approval_required"} \subseteq DOMAIN body
  /\ body.base_quote = "APPROVED"
  /\ body.status = "APPROVED"
  /\ body.approval_required = FALSE
  /\ body.route_evidence = "resolved"
  /\ body.writeback = "completed"

-----------------------------------------------------------------------------
Begin ==
  /\ receipt # "complete" \/ ~ HasPassingTestRfq(Body(row))
  /\ Becomes("idle", "asking")
  /\ receipt' = IF receipt = "none" THEN "submitted" ELSE receipt
  /\ UNCHANGED <<poster, seen, vars>>

AlreadyComplete ==
  /\ receipt = "complete" /\ HasPassingTestRfq(Body(row))
  /\ Becomes("idle", "passed")
  /\ UNCHANGED <<receipt, poster, seen, vars>>

(* The first answer decides whether to submit; the later ones do not.      *)
Ask ==
  /\ Becomes("asking", IF row = NoRun THEN "submitting" ELSE "judging")
  /\ seen' = row
  /\ UNCHANGED <<receipt, poster, vars>>

AskAgain ==
  /\ Becomes("polling", "judging")
  /\ seen' = row
  /\ UNCHANGED <<receipt, poster, vars>>

(* 10 s are over, or the API answers with an error.                        *)
AskFails ==
  /\ phase \in {"asking", "polling"} /\ phase' = "failed"
  /\ UNCHANGED <<receipt, poster, seen, vars>>

Post(s) ==
  /\ Becomes("submitting", "posted")
  /\ Submit(s) \/ AnswerAtOnce(s)
  /\ poster' = {s}
  /\ UNCHANGED <<receipt, seen>>

Answered ==
  /\ \A s \in poster : pc[s] = "over"
  /\ Becomes("posted", "polling")
  /\ UNCHANGED <<receipt, poster, seen, vars>>

(* The request goes on in the API.                                         *)
PostFails ==
  /\ Becomes("posted", "failed")
  /\ UNCHANGED <<receipt, poster, seen, vars>>

Complete ==
  /\ HasPassingTestRfq(Body(seen))
  /\ Becomes("judging", "passed")
  /\ receipt' = "complete"
  /\ UNCHANGED <<poster, seen, vars>>

KeepPolling ==
  /\ ~ HasPassingTestRfq(Body(seen))
  /\ Becomes("judging", "polling")
  /\ UNCHANGED <<receipt, poster, seen, vars>>

GiveUp ==
  /\ ~ HasPassingTestRfq(Body(seen))
  /\ Becomes("judging", "pending")
  /\ UNCHANGED <<receipt, poster, seen, vars>>

RunAgain ==
  /\ phase \in {"failed", "pending"} /\ phase' = "idle"
  /\ UNCHANGED <<receipt, poster, seen, vars>>

-----------------------------------------------------------------------------
Api(s) == StartFails(s) \/ Queue(s) \/ QueueFails(s) \/ Background(s)

ReadinessNext ==
  \/ Begin \/ AlreadyComplete \/ Ask \/ AskAgain \/ AskFails
  \/ Answered \/ PostFails \/ Complete \/ KeepPolling \/ GiveUp \/ RunAgain
  \/ \E s \in Submitters : Post(s) \/ (Api(s) /\ UNCHANGED command)

ReadinessSpec == ReadinessInit /\ [][ReadinessNext]_<<vars, command>>

-----------------------------------------------------------------------------
Ready(run) == run.stage = "quoted" /\ ~ run.required /\ run.written = "completed"

(* The phase "polls for a passing priced workflow" and passes when the API *)
(* reports an approved run, no approval requirement, route evidence and a  *)
(* completed writeback: it gives up only on a run that is not that.        *)
PendingMeansNotReady == phase = "pending" => ~ Ready(seen)
=============================================================================
