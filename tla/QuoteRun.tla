------------------------------ MODULE QuoteRun ------------------------------
(***************************************************************************)
(* One run of the quote agent, from the e-mail to the TMS.                 *)
(*                                                                         *)
(* Processes of the appliance's one Node process:                          *)
(*   Poller    the mailbox poller, which invokes the graph once;           *)
(*   Deciders  POST /api/approvals/:runId/decision requests, each of which *)
(*             may claim the waiting run and resume the graph.             *)
(* They share the row of quote_runs, the row of agent_approval_decisions   *)
(* and the graph's checkpoint, all in Postgres, which survive a crash.     *)
(*                                                                         *)
(* A graph node is one action: its effects, its update of the graph state  *)
(* and the checkpoint after it.  NodeFails is the node that throws, before *)
(* its effect or after any part of it.                                     *)
(***************************************************************************)
EXTENDS PolicyGate, Sequences, FiniteSets

CONSTANTS Poller,        \* the mailbox poller
          Deciders,      \* the decision requests
          MaxLanes,      \* bound on the lanes of an RFQ
          Assessments,   \* the [quote, history] outcomes a lane can have
          Faults         \* the kinds of failure that can happen

FaultKinds == {"node",          \* a node, a tool, the model or a send throws
               "checkpoint",    \* persistGraphErrors cannot update the state
               "status_write",  \* the run's row is not written
               "lost_ack",      \* it is written, and the write still rejects
               "crash"}         \* the process dies and starts again

Actions == {"approve", "adjust", "reject", "request_review"}

ASSUME PollerAssumption      == Poller \notin Deciders
ASSUME MaxLanesAssumption    == MaxLanes \in Nat \ {0}
ASSUME FaultsAssumption      == Faults \subseteq FaultKinds
ASSUME AssessmentsAssumption ==
  Assessments \subseteq [quote : Quotes \ {NoQuote}, history : Histories]

Drivers == Deciders \cup {Poller}
Lanes   == 1 .. MaxLanes
None    == "none"

Statuses == {"absent", "running", "waiting_approval", "done", "error"}

Nodes == {"classify", "extract", "validateOperability", "processLane",
          "policyGate", "approvalPrompt", "approvalInterrupt", "respond",
          "writeback", "END"}

Controls == {"idle",        \* not arrived, or not polled yet
             "checked",     \* decision request that read waiting_approval
             "claimed",     \* its compare-and-set won
             "graph",       \* inside graph.invoke
             "outcome",     \* graph.invoke returned: persistOutcome
             "errors",      \* in catch: persistGraphErrors
             "mark_error",  \* in catch: updateRunStatus error
             "answered", "refused", "failed",
             "lost"}        \* died with the process

VARIABLES
  pc,         \* control state of every driver
  want,       \* the action each request claimed the run with
  run,        \* status of the quote_runs row
  decisions,  \* every value agent_approval_decisions has had, in order
  next,       \* the checkpoint: the node to execute
  bulk,       \* the checkpoint: intake_kind is bulk_file
  lanes,      \* the checkpoint: how many lanes were extracted
  inoperable, \* the checkpoint: the lanes nobody can serve
  assessed,   \* results of the lane tasks: [lane, quote, history]
  quotes,     \* the checkpoint: the quoted lanes, in order
  gated,      \* the checkpoint: the judged lanes [lane, verdict, confirm]
  approval,   \* the checkpoint: the approval's action
  blocker,    \* the checkpoint: terminal_blocker
  responded,  \* the checkpoint: response_sent
  prompts,    \* confirmation requests the approver received
  replies,    \* quotes the requester received
  tms,        \* lines written to the TMS
  outage      \* history: a failure other than a node's has happened

requests == <<pc, want>>
store    == <<run, decisions>>
intake   == <<bulk, lanes, inoperable>>
pricing  == <<assessed, quotes, gated>>
consent  == <<approval, blocker>>
world    == <<prompts, replies, tms>>
graph    == <<next, intake, pricing, consent, responded>>
vars     == <<requests, store, graph, world, outage>>

Operable == (1 .. lanes) \ inoperable

(* An adjusted rate replaces the rate of the first quoted lane only; the   *)
(* reply and the writeback each compute it.                                *)
ReplyRate(i, action) == IF i = 1 /\ action = "adjust" THEN "adjusted" ELSE "base"
WritebackRate(i, action) == IF i = 1 /\ action = "adjust" THEN "adjusted" ELSE "base"

QuoteLine == [lane : Lanes, rate : {"base", "adjusted"}]

ReplyLines == [i \in 1 .. Len(quotes) |->
                 [lane |-> quotes[i], rate |-> ReplyRate(i, approval)]]
WritebackLines == [i \in 1 .. Len(quotes) |->
                     [lane |-> quotes[i], rate |-> WritebackRate(i, approval)]]

NeedsHuman == inoperable # {} \/ \E g \in gated : g.verdict # "auto"
ReviewGoesOn == approval = "reject"
Refused    == approval \in {"reject", "request_review"}

Init ==
  /\ pc = [p \in Drivers |-> "idle"]
  /\ want = [d \in Deciders |-> None]
  /\ run = "absent" /\ decisions = <<>>
  /\ next = "classify"
  /\ bulk = FALSE /\ lanes = 0 /\ inoperable = {}
  /\ assessed = {} /\ quotes = <<>> /\ gated = {}
  /\ approval = None /\ blocker = FALSE /\ responded = FALSE
  /\ prompts = 0 /\ replies = <<>> /\ tms = <<>>
  /\ outage = FALSE

Move(p, from, to) == pc[p] = from /\ pc' = [pc EXCEPT ![p] = to]

Outage(kind) == kind \in Faults /\ outage' = TRUE

-----------------------------------------------------------------------------
(* The poller's invoke                                                     *)

(* initializeSequence and createRun, both before the try.                  *)
StartRun ==
  /\ run = "absent"
  /\ Move(Poller, "idle", "graph")
  /\ run' = "running"
  /\ UNCHANGED <<want, decisions, graph, world, outage>>

StartRunFails ==
  /\ run = "absent"
  /\ Move(Poller, "idle", "failed")
  /\ \/ Outage("status_write") /\ run' = run
     \/ Outage("lost_ack") /\ run' = "running"
  /\ UNCHANGED <<want, decisions, graph, world>>

-----------------------------------------------------------------------------
(* Graph nodes, executed by whichever driver is inside graph.invoke        *)

At(p, node) == pc[p] = "graph" /\ next = node

Classify(p) ==
  /\ At(p, "classify")
  /\ bulk' \in BOOLEAN
  /\ next' = "extract"
  /\ UNCHANGED <<requests, store, lanes, inoperable, pricing, consent,
                 responded, world, outage>>

Extract(p) ==
  /\ At(p, "extract")
  /\ lanes' \in Lanes
  /\ next' = "validateOperability"
  /\ UNCHANGED <<requests, store, bulk, inoperable, pricing, consent,
                 responded, world, outage>>

(* Only a spreadsheet's lanes can be declared inoperable.  The conditional *)
(* edge skips the lane tasks when no lane is left.                         *)
ValidateOperability(p) ==
  /\ At(p, "validateOperability")
  /\ inoperable' \in IF bulk THEN SUBSET (1 .. lanes) ELSE {{}}
  /\ next' = IF inoperable' = 1 .. lanes THEN "policyGate" ELSE "processLane"
  /\ UNCHANGED <<requests, store, bulk, lanes, pricing, consent, responded,
                 world, outage>>

(* One of the parallel lane tasks: resolve, quote, historical, recommend.  *)
ProcessLane(p, l) ==
  /\ At(p, "processLane")
  /\ l \in Operable
  /\ \A r \in assessed : r.lane # l
  /\ \E a \in Assessments :
       assessed' = assessed \cup {[lane |-> l, quote |-> a.quote, history |-> a.history]}
  /\ UNCHANGED <<requests, store, next, intake, quotes, gated, consent,
                 responded, world, outage>>

(* The superstep's barrier merges the tasks' results in the lanes' order.  *)
JoinLanes(p) ==
  /\ At(p, "processLane")
  /\ {r.lane : r \in assessed} = Operable
  /\ quotes' \in [1 .. Cardinality(Operable) -> Operable]
  /\ \A i, j \in DOMAIN quotes' : i < j => quotes'[i] < quotes'[j]
  /\ next' = "policyGate"
  /\ UNCHANGED <<requests, store, intake, assessed, gated, consent, responded,
                 world, outage>>

JudgeLanes(p) ==
  /\ At(p, "policyGate")
  /\ gated' = {[lane    |-> r.lane,
                verdict |-> Verdict(r.quote, r.history),
                confirm |-> NeedsConfirmation(r.quote, r.history)] : r \in assessed}
  /\ next' = "approvalPrompt"
  /\ UNCHANGED <<requests, store, intake, assessed, quotes, consent, responded,
                 world, outage>>

ApprovalPrompt(p) ==
  /\ At(p, "approvalPrompt")
  /\ prompts' = IF \E g \in gated : g.confirm THEN prompts + 1 ELSE prompts
  /\ next' = "approvalInterrupt"
  /\ UNCHANGED <<requests, store, intake, pricing, consent, responded, replies,
                 tms, outage>>

Approve(action, blocked) ==
  /\ approval' = action
  /\ blocker' = blocked
  /\ next' = "respond"
  /\ UNCHANGED <<requests, store, intake, pricing, responded, world, outage>>

AutoApprove(p) ==
  /\ At(p, "approvalInterrupt")
  /\ ~ NeedsHuman
  /\ Approve("approve", FALSE)

(* interrupt(): graph.invoke returns with the graph parked at this node.   *)
Park ==
  /\ At(Poller, "approvalInterrupt")
  /\ NeedsHuman
  /\ Move(Poller, "graph", "outcome")
  /\ UNCHANGED <<want, store, graph, world, outage>>

(* The node again, with the decision as the interrupt's value.             *)
ApproveNothing(action) == FALSE
NothingToApprove(action) == action = "approve" /\ quotes = <<>> /\ inoperable # {}

ApplyDecision(d) ==
  /\ At(d, "approvalInterrupt")
  /\ NeedsHuman
  /\ IF NothingToApprove(want[d]) THEN Approve("request_review", TRUE)
                                  ELSE Approve(want[d], FALSE)

RespondRegardless == ~ blocker /\ quotes # <<>>
MayRespond == ~ blocker /\ quotes # <<>> /\ ~ Refused

Respond(p) ==
  /\ At(p, "respond")
  /\ IF MayRespond
     THEN replies' = Append(replies, ReplyLines) /\ responded' = TRUE
     ELSE UNCHANGED <<replies, responded>>
  /\ next' = "writeback"
  /\ UNCHANGED <<requests, store, intake, pricing, consent, prompts, tms, outage>>

MayWriteBack == responded /\ ~ Refused

WriteBack(p) ==
  /\ At(p, "writeback")
  /\ tms' = IF MayWriteBack THEN tms \o WritebackLines ELSE tms
  /\ next' = "END"
  /\ Move(p, "graph", "outcome")
  /\ UNCHANGED <<want, store, intake, pricing, consent, responded, prompts,
                 replies, outage>>

(* A node throws.  A send, or a prefix of the writes, may be out already.  *)
NodeFails(p) ==
  /\ "node" \in Faults
  /\ Move(p, "graph", "errors")
  /\ \/ UNCHANGED world
     \/ /\ next = "approvalPrompt" /\ \E g \in gated : g.confirm
        /\ prompts' = prompts + 1 /\ UNCHANGED <<replies, tms>>
     \/ /\ next = "respond" /\ MayRespond
        /\ replies' = Append(replies, ReplyLines) /\ UNCHANGED <<prompts, tms>>
     \/ /\ next = "writeback" /\ MayWriteBack
        /\ \E k \in 1 .. Len(quotes) : tms' = tms \o SubSeq(WritebackLines, 1, k)
        /\ UNCHANGED <<prompts, replies>>
  /\ UNCHANGED <<want, store, graph, outage>>

-----------------------------------------------------------------------------
(* After graph.invoke: persistOutcome, or the catch block                  *)

Interrupted == next = "approvalInterrupt"
Outcome == IF blocker THEN "error"
           ELSE IF Interrupted THEN "waiting_approval" ELSE "done"

PersistOutcome(p) ==
  /\ Move(p, "outcome", "answered")
  /\ run' = Outcome
  /\ UNCHANGED <<want, decisions, graph, world, outage>>

PersistOutcomeFails(p) ==
  /\ Move(p, "outcome", "errors")
  /\ \/ Outage("status_write") /\ run' = run
     \/ Outage("lost_ack") /\ run' = Outcome
  /\ UNCHANGED <<want, decisions, graph, world>>

(* persistGraphErrors; resume ignores its failure, invoke does not.        *)
PersistGraphErrors(p) ==
  /\ Move(p, "errors", "mark_error")
  /\ UNCHANGED <<want, store, graph, world, outage>>

PersistGraphErrorsFails ==
  /\ Outage("checkpoint")
  /\ Move(Poller, "errors", "failed")
  /\ UNCHANGED <<want, store, graph, world>>

MarkNothing(p) ==
  /\ Move(p, "mark_error", "failed")
  /\ UNCHANGED <<want, store, graph, world, outage>>

MarkError(p) ==
  /\ Move(p, "mark_error", "failed")
  /\ run' = "error"
  /\ UNCHANGED <<want, decisions, graph, world, outage>>

MarkErrorFails(p) ==
  /\ Outage("status_write")
  /\ Move(p, "mark_error", "failed")
  /\ UNCHANGED <<want, store, graph, world>>

-----------------------------------------------------------------------------
(* POST /api/approvals/:runId/decision                                     *)

(* The request reads the row: anything but waiting_approval is a 409.  No  *)
(* row at all sends the request down the legacy path, not modelled here.   *)
ReadRun(d) ==
  /\ run # "absent"
  /\ Move(d, "idle", IF run = "waiting_approval" THEN "checked" ELSE "refused")
  /\ UNCHANGED <<want, store, graph, world, outage>>

(* No license, no graph runtime, or an invalid decision.                   *)
Decline(d) ==
  /\ Move(d, "checked", "refused")
  /\ UNCHANGED <<want, store, graph, world, outage>>

ClaimAnyRow == run # "absent"
CanClaim == run = "waiting_approval"

(* claimAgentRunForResume: one statement claims the row and records the    *)
(* decision that the request's body asks for.                              *)
RecordOnly(d) ==
  \E a \in Actions :
    /\ want' = [want EXCEPT ![d] = a]
    /\ decisions' = Append(decisions, a)
    /\ run' = run

Record(d) ==
  \E a \in Actions :
    /\ want' = [want EXCEPT ![d] = a]
    /\ decisions' = Append(decisions, a)
    /\ run' = "running"

Claim(d) ==
  /\ CanClaim
  /\ Move(d, "checked", "claimed")
  /\ Record(d)
  /\ UNCHANGED <<graph, world, outage>>

LoseClaimSilently(d) ==
  /\ ~ CanClaim
  /\ Move(d, "checked", "checked")
  /\ UNCHANGED <<want, store, graph, world, outage>>

LoseClaim(d) ==
  /\ ~ CanClaim
  /\ Move(d, "checked", "refused")
  /\ UNCHANGED <<want, store, graph, world, outage>>

ClaimFails(d) ==
  /\ Move(d, "checked", "failed")
  /\ \/ Outage("status_write") /\ UNCHANGED <<want, store>>
     \/ Outage("lost_ack") /\ CanClaim /\ Record(d)
  /\ UNCHANGED <<graph, world>>

(* resume: initializeSequence, then graph.invoke(Command resume).          *)
Resume(d) ==
  /\ Move(d, "claimed", "graph")
  /\ UNCHANGED <<want, store, graph, world, outage>>

ResumeFails(d) ==
  /\ "node" \in Faults
  /\ Move(d, "claimed", "errors")
  /\ UNCHANGED <<want, store, graph, world, outage>>

-----------------------------------------------------------------------------
(* The process dies: every driver inside it is lost, the rows stay.        *)

Resting == {"idle", "answered", "refused", "failed", "lost"}

Crash ==
  /\ Outage("crash")
  /\ \E p \in Drivers : pc[p] \notin Resting
  /\ pc' = [p \in Drivers |-> IF pc[p] \in Resting THEN pc[p] ELSE "lost"]
  /\ UNCHANGED <<want, store, graph, world>>

-----------------------------------------------------------------------------
GraphStep(p) ==
  \/ Classify(p) \/ Extract(p) \/ ValidateOperability(p)
  \/ \E l \in Lanes : ProcessLane(p, l)
  \/ JoinLanes(p) \/ JudgeLanes(p) \/ ApprovalPrompt(p) \/ AutoApprove(p)
  \/ Respond(p) \/ WriteBack(p)

Advance(p) == GraphStep(p) \/ PersistOutcome(p) \/ PersistGraphErrors(p) \/ MarkError(p)

PollerStep == StartRun \/ Park \/ Advance(Poller)
DeciderStep(d) == Claim(d) \/ LoseClaim(d) \/ Resume(d) \/ ApplyDecision(d) \/ Advance(d)

Fail ==
  \/ StartRunFails \/ PersistGraphErrorsFails \/ Crash
  \/ \E p \in Drivers : NodeFails(p) \/ PersistOutcomeFails(p) \/ MarkErrorFails(p)
  \/ \E d \in Deciders : ClaimFails(d) \/ ResumeFails(d)

Next ==
  \/ PollerStep
  \/ \E d \in Deciders : DeciderStep(d) \/ ReadRun(d) \/ Decline(d)
  \/ Fail

(* The event loop runs every continuation that is ready; nobody has to     *)
(* send a decision, and nothing has to fail.                               *)
Fairness == WF_vars(PollerStep) /\ \A d \in Deciders : WF_vars(DeciderStep(d))

Spec == Init /\ [][Next]_vars /\ Fairness

-----------------------------------------------------------------------------
(* Types of everything the actions read.                                   *)
TypeOK ==
  /\ pc \in [Drivers -> Controls]
  /\ want \in [Deciders -> Actions \cup {None}]
  /\ run \in Statuses
  /\ decisions \in Seq(Actions)
  /\ next \in Nodes
  /\ bulk \in BOOLEAN
  /\ lanes \in 0 .. MaxLanes
  /\ inoperable \subseteq Lanes
  /\ assessed \subseteq [lane : Lanes, quote : Quotes, history : Histories]
  /\ quotes \in Seq(Lanes)
  /\ gated \subseteq [lane : Lanes, verdict : Verdicts, confirm : BOOLEAN]
  /\ approval \in Actions \cup {None}
  /\ blocker \in BOOLEAN /\ responded \in BOOLEAN
  /\ prompts \in Nat
  /\ replies \in Seq(Seq(QuoteLine))
  /\ tms \in Seq(QuoteLine)
  /\ outage \in BOOLEAN

(* However many decisions race, and wherever the process dies, one         *)
(* decision is recorded for a run, and it is the one the graph applied:    *)
(* "atomically rejects a duplicate approval before repeating graph side    *)
(* effects" (apps/api/tests/runsApi.test.ts).                              *)
OneDecision ==
  /\ Len(decisions) <= 1
  /\ approval # None /\ NeedsHuman =>
       /\ decisions # <<>>
       /\ approval = IF blocker THEN "request_review" ELSE decisions[1]

(* A quote reaches the requester at most once, and only if a person        *)
(* approved it or every lane was judged auto.                              *)
QuoteNeedsConsent ==
  /\ Len(replies) <= 1
  /\ replies # <<>> => \/ ~ NeedsHuman
                       \/ decisions # <<>> /\ decisions[1] \in {"approve", "adjust"}

(* The TMS holds what the requester was told, line by line and in order:   *)
(* never a line that was not quoted, never a rate other than the quoted    *)
(* one, even when the writeback stopped half-way.                          *)
TmsMirrorsReply ==
  tms # <<>> =>
    /\ replies # <<>>
    /\ Len(tms) <= Len(replies[1])
    /\ tms = SubSeq(replies[1], 1, Len(tms))

(* A run the approver sees as waiting can really be decided: its graph is  *)
(* parked at the interrupt, nobody is executing it, and nothing has been   *)
(* decided, sent or written yet; if it waits for a mid-band confirmation,   *)
(* the approver was asked once.                                            *)
WaitingIsUndecided ==
  run = "waiting_approval" =>
    /\ next = "approvalInterrupt"
    /\ \A p \in Drivers : pc[p] \notin {"claimed", "graph"}
    /\ decisions = <<>> /\ replies = <<>> /\ tms = <<>>
    /\ prompts = IF \E g \in gated : g.confirm THEN 1 ELSE 0

(* A run that is done with an approval told the requester and wrote every  *)
(* line, whatever failed before.                                           *)
DoneIsDelivered ==
  run = "done" /\ approval = "approve" => replies = <<tms>>

(* As long as nodes are all that fails, no run stays running.              *)
RunSettles == run = "running" ~> run \in {"waiting_approval", "done", "error"} \/ outage

(* As long as nodes are all that fails, a decision request that reached    *)
(* the claim is answered.                                                  *)
DecisionIsAnswered ==
  \A d \in Deciders :
    pc[d] = "checked" ~> pc[d] \in {"answered", "refused", "failed"} \/ outage

-----------------------------------------------------------------------------
(* What the run promises.                                                  *)
Delivery ==
  INSTANCE QuoteDelivery WITH
    Offers  <- Seq(QuoteLine),
    consent <- IF approval = None THEN "undecided"
               ELSE IF Refused THEN "withheld" ELSE "granted",
    sent    <- replies,
    booked  <- tms

DeliveryKept == Delivery!Spec
=============================================================================
