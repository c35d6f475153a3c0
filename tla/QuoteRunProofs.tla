--------------------------- MODULE QuoteRunProofs ---------------------------
(***************************************************************************)
(* Proofs about QuoteRun, for every set of decision requests, every bound  *)
(* on lanes, every set of assessments and every set of failures.           *)
(***************************************************************************)
EXTENDS QuoteRun, FiniteSetTheorems, SequenceTheorems, TLAPS

Executing(p) == pc[p] = "graph"

(* A decision request that has claimed the run and is not finished.        *)
Resuming(d) == pc[d] \in {"claimed", "graph", "outcome", "errors", "mark_error"}

Prejudged == {"classify", "extract", "validateOperability", "processLane", "policyGate"}
Undecided == Prejudged \cup {"approvalPrompt", "approvalInterrupt"}
Decided   == {"respond", "writeback", "END"}

(* Who may be where: nothing can be decided before the poller leaves the   *)
(* graph, and at most one request holds the run, with the decision on      *)
(* record.                                                                 *)
PollerRole ==
  /\ pc[Poller] \notin {"checked", "claimed"}
  /\ pc[Poller] = "idle" => run = "absent" /\ next = "classify"
  /\ pc[Poller] \in {"idle", "graph", "outcome"} =>
       /\ decisions = <<>>
       /\ run # "waiting_approval"
  /\ pc[Poller] = "outcome" => next \in {"approvalInterrupt", "END"}

DeciderRole ==
  /\ Len(decisions) <= 1
  /\ \A d \in Deciders : Resuming(d) =>
       /\ decisions = <<want[d]>>
       /\ \A e \in Deciders : Resuming(e) => e = d
  /\ \A d \in Deciders :
       /\ pc[d] = "claimed" => next = "approvalInterrupt"
       /\ pc[d] = "graph" => next \in Decided \cup {"approvalInterrupt"}
       /\ pc[d] = "outcome" => next = "END"

RowRole ==
  /\ run = "waiting_approval" => decisions = <<>> /\ next = "approvalInterrupt"
  /\ run = "done" => next = "END" /\ ~ blocker

(* What the checkpoint says of the lanes.                                  *)
LanesRole ==
  /\ next \notin {"classify", "extract"} => lanes > 0
  /\ next = "processLane" => Operable # {}
  /\ next \notin {"classify", "extract", "validateOperability", "processLane"} /\ quotes = <<>>
       => inoperable # {}

PromptRole ==
  /\ next \in Prejudged => prompts = 0
  /\ next = "approvalPrompt" /\ (\E p \in Drivers : Executing(p)) => prompts = 0
  /\ next \in {"approvalInterrupt"} \cup Decided =>
       prompts = IF \E g \in gated : g.confirm THEN 1 ELSE 0

(* What has been decided.                                                  *)
ConsentRole ==
  /\ next \in Undecided => approval = None /\ ~ blocker
  /\ next \in Decided => approval # None
  /\ blocker => approval = "request_review"
  /\ next \in Decided /\ NeedsHuman =>
       /\ decisions # <<>>
       /\ approval = IF blocker THEN "request_review" ELSE decisions[1]
  /\ next \in Decided /\ approval = "approve" => quotes # <<>>

(* What has left the appliance.                                            *)
ReplyRole ==
  /\ replies # <<>> => next \in Decided /\ MayRespond /\ replies = <<ReplyLines>>
  /\ next = "respond" /\ (\E p \in Drivers : Executing(p)) => replies = <<>>
  /\ next \in Undecided \cup {"respond"} => ~ responded
  /\ next \in {"writeback", "END"} =>
       /\ responded <=> replies # <<>>
       /\ responded <=> MayRespond

TmsRole ==
  /\ tms # <<>> =>
       /\ responded
       /\ Len(tms) <= Len(quotes)
       /\ tms = SubSeq(WritebackLines, 1, Len(tms))
  /\ next = "writeback" /\ (\E p \in Drivers : Executing(p)) => tms = <<>>
  /\ next = "END" /\ responded => tms = WritebackLines

IInv ==
  /\ TypeOK
  /\ PollerRole /\ DeciderRole /\ RowRole
  /\ LanesRole /\ PromptRole /\ ConsentRole /\ ReplyRole /\ TmsRole

USE PollerAssumption, MaxLanesAssumption, FaultsAssumption DEF Drivers, Lanes, None

-----------------------------------------------------------------------------
(* Facts about the operators.                                              *)

LEMMA VerdictType == \A q, h : Verdict(q, h) \in Verdicts
BY DEF Verdict, Verdicts

LEMMA ConfirmationType == \A q, h : NeedsConfirmation(q, h) \in BOOLEAN
BY DEF NeedsConfirmation, Unknown, Suspicious, IsCentralThird

LEMMA LinesType ==
  ASSUME quotes \in Seq(Lanes)
  PROVE  /\ ReplyLines \in Seq(QuoteLine)
         /\ WritebackLines \in Seq(QuoteLine)
         /\ Len(ReplyLines) = Len(quotes)
         /\ WritebackLines = ReplyLines
BY DEF ReplyLines, WritebackLines, ReplyRate, WritebackRate, QuoteLine

LEMMA Prefix ==
  ASSUME quotes \in Seq(Lanes), NEW k \in 1 .. Len(quotes)
  PROVE  /\ SubSeq(WritebackLines, 1, k) \in Seq(QuoteLine)
         /\ Len(SubSeq(WritebackLines, 1, k)) = k
         /\ <<>> \o SubSeq(WritebackLines, 1, k) = SubSeq(WritebackLines, 1, k)
<1>1. WritebackLines \in Seq(QuoteLine) /\ Len(WritebackLines) = Len(quotes)
  BY LinesType
<1>2. \A i \in 1 .. k : WritebackLines[i] \in QuoteLine
  BY <1>1, ElementOfSeq, LenProperties
<1>3. SubSeq(WritebackLines, 1, k) \in Seq(QuoteLine) /\ Len(SubSeq(WritebackLines, 1, k)) = k
  BY <1>2, SubSeqProperties, LenProperties
<1> QED BY <1>3, ConcatEmptySeq

LEMMA OperableType ==
  ASSUME lanes \in 0 .. MaxLanes
  PROVE  /\ IsFiniteSet(Operable)
         /\ Operable \subseteq Lanes
         /\ Cardinality(Operable) \in Nat
         /\ Operable # {} => Cardinality(Operable) > 0
<1>1. IsFiniteSet(1 .. lanes)
  BY FS_Interval
<1>2. IsFiniteSet(Operable)
  BY <1>1, FS_Difference DEF Operable
<1>3. Operable \subseteq Lanes
  BY DEF Operable
<1> QED BY <1>2, <1>3, FS_CardinalityType, FS_EmptySet

LEMMA SomeLane ==
  ASSUME NEW n \in Nat, n > 0
  PROVE  1 .. n # {}
<1>1. 1 \in 1 .. n
  OBVIOUS
<1> QED BY <1>1

LEMMA FunctionIsSequence ==
  ASSUME NEW S, NEW T, S \subseteq T, NEW n \in Nat, NEW q \in [1 .. n -> S]
  PROVE  q \in Seq(T)
<1>1. q \in [1 .. n -> T]
  OBVIOUS
<1> QED BY <1>1, SeqDef

(* A request that holds the run: the poller has left the graph, and the    *)
(* run cannot be claimed.                                                  *)
LEMMA RequestHolds ==
  ASSUME IInv, NEW d \in Deciders, Resuming(d)
  PROVE  /\ decisions # <<>>
         /\ pc[Poller] \notin {"idle", "graph", "outcome"}
         /\ run # "waiting_approval"
<1>1. decisions = <<want[d]>>
  BY DEF IInv, DeciderRole
<1>2. decisions # <<>>
  BY <1>1
<1> QED BY <1>2 DEF IInv, PollerRole, RowRole

(* At most one driver is inside the graph, and while it is the run is      *)
(* neither waiting nor claimable.                                          *)
LEMMA OneExecutor ==
  ASSUME IInv, NEW p \in Drivers, Executing(p)
  PROVE  /\ run # "waiting_approval"
         /\ p # Poller => pc[Poller] # "idle"
         /\ \A q \in Drivers \ {p} : pc[q] \notin {"claimed", "graph", "outcome"}
         /\ \A d \in Deciders : Resuming(d) => d = p
         /\ p \in Deciders => decisions = <<want[p]>>
<1>1. CASE p = Poller
  <2>1. \A d \in Deciders : ~ Resuming(d)
    BY <1>1, RequestHolds DEF Executing
  <2>2. run # "waiting_approval"
    BY <1>1 DEF IInv, PollerRole, Executing
  <2> QED BY <1>1, <2>1, <2>2 DEF Resuming
<1>2. CASE p \in Deciders
  <2>1. Resuming(p)
    BY DEF Executing, Resuming
  <2>2. pc[Poller] \notin {"idle", "graph", "outcome", "claimed"} /\ run # "waiting_approval"
    BY <1>2, <2>1, RequestHolds DEF IInv, PollerRole
  <2>3. decisions = <<want[p]>> /\ \A d \in Deciders : Resuming(d) => d = p
    BY <1>2, <2>1 DEF IInv, DeciderRole
  <2> QED BY <2>2, <2>3 DEF Resuming
<1> QED BY <1>1, <1>2

(* The request inside the graph carries the decision on record.            *)
LEMMA DecisionAtHand ==
  ASSUME IInv, NEW d \in Deciders, Executing(d)
  PROVE  decisions = <<want[d]>> /\ want[d] \in Actions
<1>1. decisions = <<want[d]>>
  BY OneExecutor
<1>2. decisions \in Seq(Actions) /\ Len(decisions) = 1 /\ decisions[1] = want[d]
  BY <1>1 DEF IInv, TypeOK
<1> QED BY <1>1, <1>2, ElementOfSeq

(* The driver inside the graph leaves it for the catch block.              *)
LEMMA NobodyExecutes ==
  ASSUME IInv, NEW p \in Drivers, Executing(p), pc' = [pc EXCEPT ![p] = "errors"]
  PROVE  \A q \in Drivers : ~ Executing(q)'
<1>1. pc \in [Drivers -> Controls]
  BY DEF IInv, TypeOK
<1>2. \A q \in Drivers \ {p} : pc[q] # "graph"
  BY OneExecutor
<1> QED BY <1>1, <1>2 DEF Executing

(* An approval leaves the row alone, and it is made at the interrupt.      *)
LEMMA ApprovalKeepsRow ==
  ASSUME IInv, NEW p \in Drivers, At(p, "approvalInterrupt"),
         UNCHANGED <<pc, want, run, decisions>>, next' = "respond"
  PROVE  DeciderRole' /\ RowRole'
<1>1. Executing(p)
  BY DEF At, Executing
<1>2. /\ run # "waiting_approval"
      /\ \A q \in Drivers \ {p} : pc[q] \notin {"claimed", "graph", "outcome"}
  BY <1>1, OneExecutor
<1>3. \A d \in Deciders : pc[d] \notin {"claimed", "outcome"}
  BY <1>1, <1>2 DEF Executing
<1>4. DeciderRole'
  BY <1>3 DEF IInv, DeciderRole, Resuming, Decided
<1>5. run # "done"
  BY DEF IInv, RowRole, At
<1> QED BY <1>2, <1>4, <1>5 DEF RowRole

(* A step that leaves the checkpoint, the outside world and the decision   *)
(* on record alone, and lets nobody into the graph, keeps what is known    *)
(* about them.                                                             *)
LEMMA GraphRests ==
  ASSUME IInv, UNCHANGED <<graph, world, decisions>>,
         \A p \in Drivers : Executing(p)' => Executing(p)
  PROVE  LanesRole' /\ PromptRole' /\ ConsentRole' /\ ReplyRole' /\ TmsRole'
<1> USE DEF IInv, graph, world, intake, pricing, consent
<1>1. LanesRole' BY DEF LanesRole, Operable
<1>2. PromptRole' BY DEF PromptRole
<1>3. ConsentRole' BY DEF ConsentRole, NeedsHuman
<1>4. ReplyRole' BY DEF ReplyRole, MayRespond, Refused, ReplyLines, ReplyRate
<1>5. TmsRole' BY DEF TmsRole, WritebackLines, WritebackRate
<1> QED BY <1>1, <1>2, <1>3, <1>4, <1>5

-----------------------------------------------------------------------------
(* The poller, the catch block and the decision requests: the graph rests. *)

LEMMA StartRunKeeps ==
  ASSUME IInv, StartRun
  PROVE  IInv'
<1> USE DEF StartRun, Move, IInv, graph, world, store, requests, intake, pricing, consent
<1>1. TypeOK'
  BY DEF TypeOK, Controls, Statuses, Nodes, Actions
<1>2. PollerRole'
  BY DEF TypeOK, PollerRole, DeciderRole, Resuming, Decided
<1>3. DeciderRole'
  BY DEF TypeOK, DeciderRole, PollerRole, RowRole, Resuming, Decided
<1>4. RowRole'
  BY DEF TypeOK, RowRole, PollerRole, DeciderRole
<1>5. LanesRole'
  BY DEF TypeOK, LanesRole, Operable
<1>6. PromptRole'
  BY DEF TypeOK, PromptRole, PollerRole, DeciderRole, Prejudged, Executing, Decided
<1>7. ConsentRole'
  BY DEF TypeOK, ConsentRole, LanesRole, NeedsHuman, RowRole, Decided, Undecided, Prejudged
<1>8. ReplyRole'
  BY DEF TypeOK, ReplyRole, PollerRole, DeciderRole, MayRespond, Refused, ReplyLines, ReplyRate, Decided, Undecided, Prejudged, Executing
<1>9. TmsRole'
  BY DEF TypeOK, TmsRole, ReplyRole, PollerRole, DeciderRole, Decided, Undecided, Prejudged, WritebackLines, WritebackRate, Executing
<1> QED BY <1>1, <1>2, <1>3, <1>4, <1>5, <1>6, <1>7, <1>8, <1>9

LEMMA StartRunFailsKeeps ==
  ASSUME IInv, StartRunFails
  PROVE  IInv'
<1> USE DEF StartRunFails, Move, Outage, IInv, graph, world, store, requests, intake, pricing, consent
<1>1. TypeOK'
  BY DEF TypeOK, Controls, Statuses, Nodes, Actions
<1>2. PollerRole'
  BY DEF TypeOK, PollerRole, DeciderRole, Resuming, Decided
<1>3. DeciderRole'
  BY DEF TypeOK, DeciderRole, PollerRole, RowRole, Resuming, Decided
<1>4. RowRole'
  BY DEF TypeOK, RowRole, PollerRole, DeciderRole
<1>5. LanesRole' /\ PromptRole' /\ ConsentRole' /\ ReplyRole' /\ TmsRole'
  BY GraphRests DEF TypeOK, Executing
<1> QED BY <1>1, <1>2, <1>3, <1>4, <1>5

LEMMA ParkKeeps ==
  ASSUME IInv, Park
  PROVE  IInv'
<1> USE DEF Park, Move, At, IInv, graph, world, store, requests, intake, pricing, consent
<1>1. TypeOK'
  BY DEF TypeOK, Controls, Statuses, Nodes, Actions
<1>2. PollerRole'
  BY DEF TypeOK, PollerRole, DeciderRole, Resuming, Decided
<1>3. DeciderRole'
  BY DEF TypeOK, DeciderRole, PollerRole, RowRole, Resuming, Decided
<1>4. RowRole'
  BY DEF TypeOK, RowRole, PollerRole, DeciderRole
<1>5. LanesRole' /\ PromptRole' /\ ConsentRole' /\ ReplyRole' /\ TmsRole'
  BY GraphRests DEF TypeOK, Executing
<1> QED BY <1>1, <1>2, <1>3, <1>4, <1>5

LEMMA PersistOutcomeKeeps ==
  ASSUME IInv, NEW p \in Drivers, PersistOutcome(p)
  PROVE  IInv'
<1> USE DEF PersistOutcome, Move, Outcome, Interrupted, IInv, graph, world, store, requests, intake, pricing, consent
<1>1. TypeOK'
  BY DEF TypeOK, Controls, Statuses, Nodes, Actions
<1>2. PollerRole'
  BY DEF TypeOK, PollerRole, DeciderRole, Resuming, Decided
<1>3. DeciderRole'
  BY DEF TypeOK, DeciderRole, PollerRole, RowRole, Resuming, Decided
<1>4. RowRole'
  BY DEF TypeOK, RowRole, PollerRole, DeciderRole
<1>5. LanesRole' /\ PromptRole' /\ ConsentRole' /\ ReplyRole' /\ TmsRole'
  BY GraphRests DEF TypeOK, Executing
<1> QED BY <1>1, <1>2, <1>3, <1>4, <1>5

LEMMA PersistOutcomeFailsKeeps ==
  ASSUME IInv, NEW p \in Drivers, PersistOutcomeFails(p)
  PROVE  IInv'
<1> USE DEF PersistOutcomeFails, Move, Outcome, Interrupted, Outage, IInv, graph, world, store, requests, intake, pricing, consent
<1>1. TypeOK'
  <2>1. run' \in Statuses
    BY DEF TypeOK, Statuses
  <2> QED BY <2>1 DEF TypeOK, Controls
<1>2. PollerRole'
  BY DEF TypeOK, PollerRole, DeciderRole, Resuming, Decided
<1>3. DeciderRole'
  BY DEF TypeOK, DeciderRole, PollerRole, RowRole, Resuming, Decided
<1>4. RowRole'
  BY DEF TypeOK, RowRole, PollerRole, DeciderRole
<1>5. LanesRole' /\ PromptRole' /\ ConsentRole' /\ ReplyRole' /\ TmsRole'
  BY GraphRests DEF TypeOK, Executing
<1> QED BY <1>1, <1>2, <1>3, <1>4, <1>5

LEMMA PersistGraphErrorsKeeps ==
  ASSUME IInv, NEW p \in Drivers, PersistGraphErrors(p)
  PROVE  IInv'
<1> USE DEF PersistGraphErrors, Move, IInv, graph, world, store, requests, intake, pricing, consent
<1>1. TypeOK'
  BY DEF TypeOK, Controls, Statuses, Nodes, Actions
<1>2. PollerRole'
  BY DEF TypeOK, PollerRole, DeciderRole, Resuming, Decided
<1>3. DeciderRole'
  BY DEF TypeOK, DeciderRole, PollerRole, RowRole, Resuming, Decided
<1>4. RowRole'
  BY DEF TypeOK, RowRole, PollerRole, DeciderRole
<1>5. LanesRole' /\ PromptRole' /\ ConsentRole' /\ ReplyRole' /\ TmsRole'
  BY GraphRests DEF TypeOK, Executing
<1> QED BY <1>1, <1>2, <1>3, <1>4, <1>5

LEMMA PersistGraphErrorsFailsKeeps ==
  ASSUME IInv, PersistGraphErrorsFails
  PROVE  IInv'
<1> USE DEF PersistGraphErrorsFails, Move, Outage, IInv, graph, world, store, requests, intake, pricing, consent
<1>1. TypeOK'
  BY DEF TypeOK, Controls, Statuses, Nodes, Actions
<1>2. PollerRole'
  BY DEF TypeOK, PollerRole, DeciderRole, Resuming, Decided
<1>3. DeciderRole'
  BY DEF TypeOK, DeciderRole, PollerRole, RowRole, Resuming, Decided
<1>4. RowRole'
  BY DEF TypeOK, RowRole, PollerRole, DeciderRole
<1>5. LanesRole' /\ PromptRole' /\ ConsentRole' /\ ReplyRole' /\ TmsRole'
  BY GraphRests DEF TypeOK, Executing
<1> QED BY <1>1, <1>2, <1>3, <1>4, <1>5

LEMMA MarkErrorKeeps ==
  ASSUME IInv, NEW p \in Drivers, MarkError(p)
  PROVE  IInv'
<1> USE DEF MarkError, Move, IInv, graph, world, store, requests, intake, pricing, consent
<1>1. TypeOK'
  BY DEF TypeOK, Controls, Statuses, Nodes, Actions
<1>2. PollerRole'
  <2>1. p # Poller => pc[Poller] # "idle"
    BY RequestHolds DEF Resuming
  <2> QED BY <2>1 DEF TypeOK, PollerRole
<1>3. DeciderRole'
  BY DEF TypeOK, DeciderRole, PollerRole, RowRole, Resuming, Decided
<1>4. RowRole'
  BY DEF TypeOK, RowRole, PollerRole, DeciderRole
<1>5. LanesRole' /\ PromptRole' /\ ConsentRole' /\ ReplyRole' /\ TmsRole'
  BY GraphRests DEF TypeOK, Executing
<1> QED BY <1>1, <1>2, <1>3, <1>4, <1>5

LEMMA MarkErrorFailsKeeps ==
  ASSUME IInv, NEW p \in Drivers, MarkErrorFails(p)
  PROVE  IInv'
<1> USE DEF MarkErrorFails, Move, Outage, IInv, graph, world, store, requests, intake, pricing, consent
<1>1. TypeOK'
  BY DEF TypeOK, Controls, Statuses, Nodes, Actions
<1>2. PollerRole'
  BY DEF TypeOK, PollerRole, DeciderRole, Resuming, Decided
<1>3. DeciderRole'
  BY DEF TypeOK, DeciderRole, PollerRole, RowRole, Resuming, Decided
<1>4. RowRole'
  BY DEF TypeOK, RowRole, PollerRole, DeciderRole
<1>5. LanesRole' /\ PromptRole' /\ ConsentRole' /\ ReplyRole' /\ TmsRole'
  BY GraphRests DEF TypeOK, Executing
<1> QED BY <1>1, <1>2, <1>3, <1>4, <1>5

LEMMA ReadRunKeeps ==
  ASSUME IInv, NEW d \in Deciders, ReadRun(d)
  PROVE  IInv'
<1> USE DEF ReadRun, Move, IInv, graph, world, store, requests, intake, pricing, consent
<1>1. TypeOK'
  BY DEF TypeOK, Controls, Statuses, Nodes, Actions
<1>2. PollerRole'
  BY DEF TypeOK, PollerRole, DeciderRole, Resuming, Decided
<1>3. DeciderRole'
  BY DEF TypeOK, DeciderRole, PollerRole, RowRole, Resuming, Decided
<1>4. RowRole'
  BY DEF TypeOK, RowRole, PollerRole, DeciderRole
<1>5. LanesRole' /\ PromptRole' /\ ConsentRole' /\ ReplyRole' /\ TmsRole'
  BY GraphRests DEF TypeOK, Executing
<1> QED BY <1>1, <1>2, <1>3, <1>4, <1>5

LEMMA DeclineKeeps ==
  ASSUME IInv, NEW d \in Deciders, Decline(d)
  PROVE  IInv'
<1> USE DEF Decline, Move, IInv, graph, world, store, requests, intake, pricing, consent
<1>1. TypeOK'
  BY DEF TypeOK, Controls, Statuses, Nodes, Actions
<1>2. PollerRole'
  BY DEF TypeOK, PollerRole, DeciderRole, Resuming, Decided
<1>3. DeciderRole'
  BY DEF TypeOK, DeciderRole, PollerRole, RowRole, Resuming, Decided
<1>4. RowRole'
  BY DEF TypeOK, RowRole, PollerRole, DeciderRole
<1>5. LanesRole' /\ PromptRole' /\ ConsentRole' /\ ReplyRole' /\ TmsRole'
  BY GraphRests DEF TypeOK, Executing
<1> QED BY <1>1, <1>2, <1>3, <1>4, <1>5

LEMMA ClaimKeeps ==
  ASSUME IInv, NEW d \in Deciders, Claim(d)
  PROVE  IInv'
<1> USE DEF Claim, CanClaim, Record, Move, IInv, graph, world, store, requests, intake, pricing, consent
<1>1. TypeOK'
  BY DEF TypeOK, Controls, Statuses, Nodes, Actions
<1>2. PollerRole'
  BY DEF TypeOK, PollerRole, DeciderRole, Resuming, Decided
<1>3. DeciderRole'
  BY DEF TypeOK, DeciderRole, PollerRole, RowRole, Resuming, Decided
<1>4. RowRole'
  BY DEF TypeOK, RowRole, PollerRole, DeciderRole
<1>5. LanesRole'
  BY DEF TypeOK, LanesRole, Operable
<1>6. PromptRole'
  BY DEF TypeOK, PromptRole, PollerRole, DeciderRole, Prejudged, Executing, Decided
<1>7. ConsentRole'
  BY DEF TypeOK, ConsentRole, LanesRole, NeedsHuman, RowRole, Decided, Undecided, Prejudged
<1>8. ReplyRole'
  BY DEF TypeOK, ReplyRole, PollerRole, DeciderRole, MayRespond, Refused, ReplyLines, ReplyRate, Decided, Undecided, Prejudged, Executing
<1>9. TmsRole'
  BY DEF TypeOK, TmsRole, ReplyRole, PollerRole, DeciderRole, Decided, Undecided, Prejudged, WritebackLines, WritebackRate, Executing
<1> QED BY <1>1, <1>2, <1>3, <1>4, <1>5, <1>6, <1>7, <1>8, <1>9

LEMMA LoseClaimKeeps ==
  ASSUME IInv, NEW d \in Deciders, LoseClaim(d)
  PROVE  IInv'
<1> USE DEF LoseClaim, Move, IInv, graph, world, store, requests, intake, pricing, consent
<1>1. TypeOK'
  BY DEF TypeOK, Controls, Statuses, Nodes, Actions
<1>2. PollerRole'
  BY DEF TypeOK, PollerRole, DeciderRole, Resuming, Decided
<1>3. DeciderRole'
  BY DEF TypeOK, DeciderRole, PollerRole, RowRole, Resuming, Decided
<1>4. RowRole'
  BY DEF TypeOK, RowRole, PollerRole, DeciderRole
<1>5. LanesRole' /\ PromptRole' /\ ConsentRole' /\ ReplyRole' /\ TmsRole'
  BY GraphRests DEF TypeOK, Executing
<1> QED BY <1>1, <1>2, <1>3, <1>4, <1>5

LEMMA ClaimFailsKeeps ==
  ASSUME IInv, NEW d \in Deciders, ClaimFails(d)
  PROVE  IInv'
<1> USE DEF ClaimFails, CanClaim, Record, Move, Outage, IInv, graph, world, store, requests, intake, pricing, consent
<1>1. TypeOK'
  <2>1. pc' \in [Drivers -> Controls] /\ outage' = TRUE
    BY DEF TypeOK, Controls
  <2>2. CASE UNCHANGED <<want, store>>
    BY <2>1, <2>2 DEF TypeOK
  <2>3. CASE Record(d)
    BY <2>1, <2>3 DEF TypeOK, Statuses
  <2> QED BY <2>2, <2>3
<1>2. PollerRole'
  BY DEF TypeOK, PollerRole, DeciderRole, Resuming, Decided
<1>3. DeciderRole'
  BY DEF TypeOK, DeciderRole, PollerRole, RowRole, Resuming, Decided
<1>4. RowRole'
  BY DEF TypeOK, RowRole, PollerRole, DeciderRole
<1>5. LanesRole'
  BY DEF TypeOK, LanesRole, Operable
<1>6. PromptRole'
  BY DEF TypeOK, PromptRole, PollerRole, DeciderRole, Prejudged, Executing, Decided
<1>7. ConsentRole'
  BY DEF TypeOK, ConsentRole, LanesRole, NeedsHuman, RowRole, Decided, Undecided, Prejudged
<1>8. ReplyRole'
  BY DEF TypeOK, ReplyRole, PollerRole, DeciderRole, MayRespond, Refused, ReplyLines, ReplyRate, Decided, Undecided, Prejudged, Executing
<1>9. TmsRole'
  BY DEF TypeOK, TmsRole, ReplyRole, PollerRole, DeciderRole, Decided, Undecided, Prejudged, WritebackLines, WritebackRate, Executing
<1> QED BY <1>1, <1>2, <1>3, <1>4, <1>5, <1>6, <1>7, <1>8, <1>9

LEMMA ResumeKeeps ==
  ASSUME IInv, NEW d \in Deciders, Resume(d)
  PROVE  IInv'
<1> USE DEF Resume, Move, IInv, graph, world, store, requests, intake, pricing, consent
<1>1. TypeOK'
  BY DEF TypeOK, Controls, Statuses, Nodes, Actions
<1>2. PollerRole'
  BY DEF TypeOK, PollerRole, DeciderRole, Resuming, Decided
<1>3. DeciderRole'
  BY DEF TypeOK, DeciderRole, PollerRole, RowRole, Resuming, Decided
<1>4. RowRole'
  BY DEF TypeOK, RowRole, PollerRole, DeciderRole
<1>5. LanesRole'
  BY DEF TypeOK, LanesRole, Operable
<1>6. PromptRole'
  BY DEF TypeOK, PromptRole, PollerRole, DeciderRole, Prejudged, Executing, Decided
<1>7. ConsentRole'
  BY DEF TypeOK, ConsentRole, LanesRole, NeedsHuman, RowRole, Decided, Undecided, Prejudged
<1>8. ReplyRole'
  BY DEF TypeOK, ReplyRole, PollerRole, DeciderRole, MayRespond, Refused, ReplyLines, ReplyRate, Decided, Undecided, Prejudged, Executing
<1>9. TmsRole'
  BY DEF TypeOK, TmsRole, ReplyRole, PollerRole, DeciderRole, Decided, Undecided, Prejudged, WritebackLines, WritebackRate, Executing
<1> QED BY <1>1, <1>2, <1>3, <1>4, <1>5, <1>6, <1>7, <1>8, <1>9

LEMMA ResumeFailsKeeps ==
  ASSUME IInv, NEW d \in Deciders, ResumeFails(d)
  PROVE  IInv'
<1> USE DEF ResumeFails, Move, IInv, graph, world, store, requests, intake, pricing, consent
<1>1. TypeOK'
  BY DEF TypeOK, Controls, Statuses, Nodes, Actions
<1>2. PollerRole'
  BY DEF TypeOK, PollerRole, DeciderRole, Resuming, Decided
<1>3. DeciderRole'
  BY DEF TypeOK, DeciderRole, PollerRole, RowRole, Resuming, Decided
<1>4. RowRole'
  BY DEF TypeOK, RowRole, PollerRole, DeciderRole
<1>5. LanesRole' /\ PromptRole' /\ ConsentRole' /\ ReplyRole' /\ TmsRole'
  BY GraphRests DEF TypeOK, Executing
<1> QED BY <1>1, <1>2, <1>3, <1>4, <1>5

LEMMA CrashKeeps ==
  ASSUME IInv, Crash
  PROVE  IInv'
<1> USE DEF Crash, Resting, Outage, IInv, graph, world, store, requests, intake, pricing, consent
<1>1. TypeOK'
  BY DEF TypeOK, Controls, Statuses, Nodes, Actions
<1>2. PollerRole'
  BY DEF TypeOK, PollerRole, DeciderRole, Resuming, Decided
<1>3. DeciderRole'
  BY DEF TypeOK, DeciderRole, PollerRole, RowRole, Resuming, Decided
<1>4. RowRole'
  BY DEF TypeOK, RowRole, PollerRole, DeciderRole
<1>5. LanesRole' /\ PromptRole' /\ ConsentRole' /\ ReplyRole' /\ TmsRole'
  BY GraphRests DEF TypeOK, Executing
<1> QED BY <1>1, <1>2, <1>3, <1>4, <1>5

-----------------------------------------------------------------------------
(* The nodes of the graph.                                                 *)

LEMMA ClassifyKeeps ==
  ASSUME IInv, NEW p \in Drivers, Classify(p)
  PROVE  IInv'
<1> USE DEF Classify, At, IInv, graph, world, store, requests, intake, pricing, consent
<1>1. /\ run # "waiting_approval" /\ pc[p] = "graph"
      /\ p # Poller => pc[Poller] # "idle"
      /\ \A q \in Drivers \ {p} : pc[q] \notin {"claimed", "graph", "outcome"}
      /\ \A e \in Deciders : Resuming(e) => e = p
      /\ p \in Deciders => decisions = <<want[p]>>
  BY OneExecutor DEF Executing
<1>2. TypeOK'
  BY <1>1 DEF TypeOK, Controls, Statuses, Nodes, Actions
<1>3. PollerRole'
  BY <1>1 DEF TypeOK, PollerRole, DeciderRole, Resuming, Decided
<1>4. DeciderRole'
  BY <1>1 DEF TypeOK, DeciderRole, PollerRole, RowRole, Resuming, Decided
<1>5. RowRole'
  BY <1>1 DEF TypeOK, RowRole, PollerRole, DeciderRole
<1>6. LanesRole'
  BY <1>1 DEF TypeOK, LanesRole, Operable
<1>7. PromptRole'
  BY <1>1 DEF TypeOK, PromptRole, PollerRole, DeciderRole, Prejudged, Executing, Decided
<1>8. ConsentRole'
  BY <1>1 DEF TypeOK, ConsentRole, LanesRole, NeedsHuman, RowRole, Decided, Undecided, Prejudged
<1>9. ReplyRole'
  BY <1>1 DEF TypeOK, ReplyRole, PollerRole, DeciderRole, MayRespond, Refused, ReplyLines, ReplyRate, Decided, Undecided, Prejudged, Executing
<1>10. TmsRole'
  BY <1>1 DEF TypeOK, TmsRole, ReplyRole, PollerRole, DeciderRole, Decided, Undecided, Prejudged, WritebackLines, WritebackRate, Executing
<1> QED BY <1>1, <1>2, <1>3, <1>4, <1>5, <1>6, <1>7, <1>8, <1>9, <1>10

LEMMA ExtractKeeps ==
  ASSUME IInv, NEW p \in Drivers, Extract(p)
  PROVE  IInv'
<1> USE DEF Extract, At, IInv, graph, world, store, requests, intake, pricing, consent
<1>1. /\ run # "waiting_approval" /\ pc[p] = "graph"
      /\ p # Poller => pc[Poller] # "idle"
      /\ \A q \in Drivers \ {p} : pc[q] \notin {"claimed", "graph", "outcome"}
      /\ \A e \in Deciders : Resuming(e) => e = p
      /\ p \in Deciders => decisions = <<want[p]>>
  BY OneExecutor DEF Executing
<1>2. TypeOK'
  BY <1>1 DEF TypeOK, Controls, Statuses, Nodes, Actions
<1>3. PollerRole'
  BY <1>1 DEF TypeOK, PollerRole, DeciderRole, Resuming, Decided
<1>4. DeciderRole'
  BY <1>1 DEF TypeOK, DeciderRole, PollerRole, RowRole, Resuming, Decided
<1>5. RowRole'
  BY <1>1 DEF TypeOK, RowRole, PollerRole, DeciderRole
<1>6. LanesRole'
  BY <1>1 DEF TypeOK, LanesRole, Operable
<1>7. PromptRole'
  BY <1>1 DEF TypeOK, PromptRole, PollerRole, DeciderRole, Prejudged, Executing, Decided
<1>8. ConsentRole'
  BY <1>1 DEF TypeOK, ConsentRole, LanesRole, NeedsHuman, RowRole, Decided, Undecided, Prejudged
<1>9. ReplyRole'
  BY <1>1 DEF TypeOK, ReplyRole, PollerRole, DeciderRole, MayRespond, Refused, ReplyLines, ReplyRate, Decided, Undecided, Prejudged, Executing
<1>10. TmsRole'
  BY <1>1 DEF TypeOK, TmsRole, ReplyRole, PollerRole, DeciderRole, Decided, Undecided, Prejudged, WritebackLines, WritebackRate, Executing
<1> QED BY <1>1, <1>2, <1>3, <1>4, <1>5, <1>6, <1>7, <1>8, <1>9, <1>10

LEMMA ValidateOperabilityKeeps ==
  ASSUME IInv, NEW p \in Drivers, ValidateOperability(p)
  PROVE  IInv'
<1> USE DEF ValidateOperability, At, IInv, graph, world, store, requests, intake, pricing, consent
<1>1. /\ run # "waiting_approval" /\ pc[p] = "graph"
      /\ p # Poller => pc[Poller] # "idle"
      /\ \A q \in Drivers \ {p} : pc[q] \notin {"claimed", "graph", "outcome"}
      /\ \A e \in Deciders : Resuming(e) => e = p
      /\ p \in Deciders => decisions = <<want[p]>>
  BY OneExecutor DEF Executing
<1>2. TypeOK'
  BY <1>1 DEF TypeOK, Controls, Statuses, Nodes, Actions
<1>3. PollerRole'
  BY <1>1 DEF TypeOK, PollerRole, DeciderRole, Resuming, Decided
<1>4. DeciderRole'
  BY <1>1 DEF TypeOK, DeciderRole, PollerRole, RowRole, Resuming, Decided
<1>5. RowRole'
  BY <1>1 DEF TypeOK, RowRole, PollerRole, DeciderRole
<1>6. LanesRole'
  <2>1. lanes > 0 /\ lanes' = lanes /\ inoperable' \subseteq 1 .. lanes
    BY DEF TypeOK, LanesRole
  <2>2. inoperable' = 1 .. lanes => inoperable' # {}
    BY <2>1, SomeLane DEF TypeOK
  <2>3. CASE inoperable' = 1 .. lanes
    BY <2>1, <2>2, <2>3 DEF LanesRole
  <2>4. CASE inoperable' # 1 .. lanes
    BY <2>1, <2>4 DEF TypeOK, LanesRole, Operable
  <2> QED BY <2>3, <2>4
<1>7. PromptRole'
  BY <1>1 DEF TypeOK, PromptRole, PollerRole, DeciderRole, Prejudged, Executing, Decided
<1>8. ConsentRole'
  BY <1>1 DEF TypeOK, ConsentRole, LanesRole, NeedsHuman, RowRole, Decided, Undecided, Prejudged
<1>9. ReplyRole'
  BY <1>1 DEF TypeOK, ReplyRole, PollerRole, DeciderRole, MayRespond, Refused, ReplyLines, ReplyRate, Decided, Undecided, Prejudged, Executing
<1>10. TmsRole'
  BY <1>1 DEF TypeOK, TmsRole, ReplyRole, PollerRole, DeciderRole, Decided, Undecided, Prejudged, WritebackLines, WritebackRate, Executing
<1> QED BY <1>1, <1>2, <1>3, <1>4, <1>5, <1>6, <1>7, <1>8, <1>9, <1>10

LEMMA ProcessLaneKeeps ==
  ASSUME IInv, NEW p \in Drivers, NEW l \in Lanes, ProcessLane(p, l)
  PROVE  IInv'
<1> USE DEF ProcessLane, At, IInv, graph, world, store, requests, intake, pricing, consent
<1>1. /\ run # "waiting_approval" /\ pc[p] = "graph"
      /\ p # Poller => pc[Poller] # "idle"
      /\ \A q \in Drivers \ {p} : pc[q] \notin {"claimed", "graph", "outcome"}
      /\ \A e \in Deciders : Resuming(e) => e = p
      /\ p \in Deciders => decisions = <<want[p]>>
  BY OneExecutor DEF Executing
<1>2. TypeOK'
  <2>1. PICK a \in Assessments :
          assessed' = assessed \cup {[lane |-> l, quote |-> a.quote, history |-> a.history]}
    OBVIOUS
  <2>2. a.quote \in Quotes /\ a.history \in Histories
    BY AssessmentsAssumption
  <2>3. assessed' \subseteq [lane : Lanes, quote : Quotes, history : Histories]
    BY <2>1, <2>2 DEF TypeOK
  <2> QED BY <2>3 DEF TypeOK
<1>3. PollerRole'
  BY <1>1 DEF TypeOK, PollerRole, DeciderRole, Resuming, Decided
<1>4. DeciderRole'
  BY <1>1 DEF TypeOK, DeciderRole, PollerRole, RowRole, Resuming, Decided
<1>5. RowRole'
  BY <1>1 DEF TypeOK, RowRole, PollerRole, DeciderRole
<1>6. LanesRole'
  BY <1>1 DEF TypeOK, LanesRole, Operable
<1>7. PromptRole'
  BY <1>1 DEF TypeOK, PromptRole, PollerRole, DeciderRole, Prejudged, Executing, Decided
<1>8. ConsentRole'
  BY <1>1 DEF TypeOK, ConsentRole, LanesRole, NeedsHuman, RowRole, Decided, Undecided, Prejudged
<1>9. ReplyRole'
  BY <1>1 DEF TypeOK, ReplyRole, PollerRole, DeciderRole, MayRespond, Refused, ReplyLines, ReplyRate, Decided, Undecided, Prejudged, Executing
<1>10. TmsRole'
  BY <1>1 DEF TypeOK, TmsRole, ReplyRole, PollerRole, DeciderRole, Decided, Undecided, Prejudged, WritebackLines, WritebackRate, Executing
<1> QED BY <1>1, <1>2, <1>3, <1>4, <1>5, <1>6, <1>7, <1>8, <1>9, <1>10

LEMMA JoinLanesKeeps ==
  ASSUME IInv, NEW p \in Drivers, JoinLanes(p)
  PROVE  IInv'
<1> USE DEF JoinLanes, At, IInv, graph, world, store, requests, intake, pricing, consent
<1>1. /\ run # "waiting_approval" /\ pc[p] = "graph"
      /\ p # Poller => pc[Poller] # "idle"
      /\ \A q \in Drivers \ {p} : pc[q] \notin {"claimed", "graph", "outcome"}
      /\ \A e \in Deciders : Resuming(e) => e = p
      /\ p \in Deciders => decisions = <<want[p]>>
  BY OneExecutor DEF Executing
<1>2. TypeOK'
  <2>1. quotes' \in Seq(Lanes)
    BY OperableType, FunctionIsSequence DEF TypeOK
  <2> QED BY <2>1 DEF TypeOK, Nodes
<1>3. PollerRole'
  BY <1>1 DEF TypeOK, PollerRole, DeciderRole, Resuming, Decided
<1>4. DeciderRole'
  BY <1>1 DEF TypeOK, DeciderRole, PollerRole, RowRole, Resuming, Decided
<1>5. RowRole'
  BY <1>1 DEF TypeOK, RowRole, PollerRole, DeciderRole
<1>6. LanesRole'
  <2>1. Cardinality(Operable) \in Nat \ {0}
    BY OperableType DEF TypeOK, LanesRole
  <2>2. quotes' # <<>>
    BY <2>1
  <2> QED BY <2>2 DEF TypeOK, LanesRole
<1>7. PromptRole'
  BY <1>1 DEF TypeOK, PromptRole, PollerRole, DeciderRole, Prejudged, Executing, Decided
<1>8. ConsentRole'
  BY <1>1 DEF TypeOK, ConsentRole, LanesRole, NeedsHuman, RowRole, Decided, Undecided, Prejudged
<1>9. ReplyRole'
  BY <1>1 DEF TypeOK, ReplyRole, PollerRole, DeciderRole, MayRespond, Refused, ReplyLines, ReplyRate, Decided, Undecided, Prejudged, Executing
<1>10. TmsRole'
  BY <1>1 DEF TypeOK, TmsRole, ReplyRole, PollerRole, DeciderRole, Decided, Undecided, Prejudged, WritebackLines, WritebackRate, Executing
<1> QED BY <1>1, <1>2, <1>3, <1>4, <1>5, <1>6, <1>7, <1>8, <1>9, <1>10

LEMMA JudgeLanesKeeps ==
  ASSUME IInv, NEW p \in Drivers, JudgeLanes(p)
  PROVE  IInv'
<1> USE DEF JudgeLanes, At, IInv, graph, world, store, requests, intake, pricing, consent
<1>1. /\ run # "waiting_approval" /\ pc[p] = "graph"
      /\ p # Poller => pc[Poller] # "idle"
      /\ \A q \in Drivers \ {p} : pc[q] \notin {"claimed", "graph", "outcome"}
      /\ \A e \in Deciders : Resuming(e) => e = p
      /\ p \in Deciders => decisions = <<want[p]>>
  BY OneExecutor DEF Executing
<1>2. TypeOK'
  <2>1. gated' \subseteq [lane : Lanes, verdict : Verdicts, confirm : BOOLEAN]
    BY VerdictType, ConfirmationType DEF TypeOK
  <2> QED BY <2>1 DEF TypeOK, Nodes
<1>3. PollerRole'
  BY <1>1 DEF TypeOK, PollerRole, DeciderRole, Resuming, Decided
<1>4. DeciderRole'
  BY <1>1 DEF TypeOK, DeciderRole, PollerRole, RowRole, Resuming, Decided
<1>5. RowRole'
  BY <1>1 DEF TypeOK, RowRole, PollerRole, DeciderRole
<1>6. LanesRole'
  BY <1>1 DEF TypeOK, LanesRole, Operable
<1>7. PromptRole'
  BY <1>1 DEF TypeOK, PromptRole, PollerRole, DeciderRole, Prejudged, Executing, Decided
<1>8. ConsentRole'
  BY <1>1 DEF TypeOK, ConsentRole, LanesRole, NeedsHuman, RowRole, Decided, Undecided, Prejudged
<1>9. ReplyRole'
  BY <1>1 DEF TypeOK, ReplyRole, PollerRole, DeciderRole, MayRespond, Refused, ReplyLines, ReplyRate, Decided, Undecided, Prejudged, Executing
<1>10. TmsRole'
  BY <1>1 DEF TypeOK, TmsRole, ReplyRole, PollerRole, DeciderRole, Decided, Undecided, Prejudged, WritebackLines, WritebackRate, Executing
<1> QED BY <1>1, <1>2, <1>3, <1>4, <1>5, <1>6, <1>7, <1>8, <1>9, <1>10

LEMMA ApprovalPromptKeeps ==
  ASSUME IInv, NEW p \in Drivers, ApprovalPrompt(p)
  PROVE  IInv'
<1> USE DEF ApprovalPrompt, At, IInv, graph, world, store, requests, intake, pricing, consent
<1>1. /\ run # "waiting_approval" /\ pc[p] = "graph"
      /\ p # Poller => pc[Poller] # "idle"
      /\ \A q \in Drivers \ {p} : pc[q] \notin {"claimed", "graph", "outcome"}
      /\ \A e \in Deciders : Resuming(e) => e = p
      /\ p \in Deciders => decisions = <<want[p]>>
  BY OneExecutor DEF Executing
<1>2. TypeOK'
  BY <1>1 DEF TypeOK, Controls, Statuses, Nodes, Actions
<1>3. PollerRole'
  BY <1>1 DEF TypeOK, PollerRole, DeciderRole, Resuming, Decided
<1>4. DeciderRole'
  BY <1>1 DEF TypeOK, DeciderRole, PollerRole, RowRole, Resuming, Decided
<1>5. RowRole'
  BY <1>1 DEF TypeOK, RowRole, PollerRole, DeciderRole
<1>6. LanesRole'
  BY <1>1 DEF TypeOK, LanesRole, Operable
<1>7. PromptRole'
  BY <1>1 DEF TypeOK, PromptRole, PollerRole, DeciderRole, Prejudged, Executing, Decided
<1>8. ConsentRole'
  BY <1>1 DEF TypeOK, ConsentRole, LanesRole, NeedsHuman, RowRole, Decided, Undecided, Prejudged
<1>9. ReplyRole'
  BY <1>1 DEF TypeOK, ReplyRole, PollerRole, DeciderRole, MayRespond, Refused, ReplyLines, ReplyRate, Decided, Undecided, Prejudged, Executing
<1>10. TmsRole'
  BY <1>1 DEF TypeOK, TmsRole, ReplyRole, PollerRole, DeciderRole, Decided, Undecided, Prejudged, WritebackLines, WritebackRate, Executing
<1> QED BY <1>1, <1>2, <1>3, <1>4, <1>5, <1>6, <1>7, <1>8, <1>9, <1>10

LEMMA AutoApproveKeeps ==
  ASSUME IInv, NEW p \in Drivers, AutoApprove(p)
  PROVE  IInv'
<1> USE DEF AutoApprove, Approve, At, IInv, graph, world, store, requests, intake, pricing, consent
<1>1. /\ run # "waiting_approval" /\ pc[p] = "graph"
      /\ p # Poller => pc[Poller] # "idle"
      /\ \A q \in Drivers \ {p} : pc[q] \notin {"claimed", "graph", "outcome"}
      /\ \A e \in Deciders : Resuming(e) => e = p
      /\ p \in Deciders => decisions = <<want[p]>>
  BY OneExecutor DEF Executing
<1>2. TypeOK'
  BY <1>1 DEF TypeOK, Controls, Statuses, Nodes, Actions
<1>3. PollerRole'
  BY <1>1 DEF TypeOK, PollerRole, DeciderRole, Resuming, Decided
<1>4. DeciderRole'
  BY ApprovalKeepsRow
<1>5. RowRole'
  BY ApprovalKeepsRow
<1>6. LanesRole'
  BY <1>1 DEF TypeOK, LanesRole, Operable
<1>7. PromptRole'
  BY <1>1 DEF TypeOK, PromptRole, PollerRole, DeciderRole, Prejudged, Executing, Decided
<1>8. ConsentRole'
  BY <1>1 DEF TypeOK, ConsentRole, LanesRole, NeedsHuman, RowRole, Decided, Undecided, Prejudged
<1>9. ReplyRole'
  BY <1>1 DEF TypeOK, ReplyRole, PollerRole, DeciderRole, MayRespond, Refused, ReplyLines, ReplyRate, Decided, Undecided, Prejudged, Executing
<1>10. TmsRole'
  BY <1>1 DEF TypeOK, TmsRole, ReplyRole, PollerRole, DeciderRole, Decided, Undecided, Prejudged, WritebackLines, WritebackRate, Executing
<1> QED BY <1>1, <1>2, <1>3, <1>4, <1>5, <1>6, <1>7, <1>8, <1>9, <1>10

LEMMA ApplyDecisionKeeps ==
  ASSUME IInv, NEW d \in Deciders, ApplyDecision(d)
  PROVE  IInv'
<1> USE DEF ApplyDecision, Approve, NothingToApprove, At, IInv, graph, world, store, requests, intake, pricing, consent
<1>1. /\ run # "waiting_approval" /\ pc[d] = "graph"
      /\ d # Poller => pc[Poller] # "idle"
      /\ \A q \in Drivers \ {d} : pc[q] \notin {"claimed", "graph", "outcome"}
      /\ \A e \in Deciders : Resuming(e) => e = d
      /\ d \in Deciders => decisions = <<want[d]>>
  BY OneExecutor DEF Executing
<1>2. TypeOK'
  BY <1>1 DEF TypeOK, Controls, Statuses, Nodes, Actions
<1>3. PollerRole'
  BY <1>1 DEF TypeOK, PollerRole, DeciderRole, Resuming, Decided
<1>4. DeciderRole'
  BY ApprovalKeepsRow
<1>5. RowRole'
  BY ApprovalKeepsRow
<1>6. LanesRole'
  BY <1>1 DEF TypeOK, LanesRole, Operable
<1>7. PromptRole'
  BY <1>1 DEF TypeOK, PromptRole, PollerRole, DeciderRole, Prejudged, Executing, Decided
<1>8. ConsentRole'
  <2>1. decisions = <<want[d]>> /\ want[d] \in Actions
    BY DecisionAtHand DEF Executing
  <2>2. decisions # <<>> /\ decisions[1] = want[d] /\ decisions' = decisions
    BY <2>1
  <2>3. next' = "respond" /\ (quotes = <<>> => inoperable # {})
    BY DEF LanesRole
  <2>4. CASE NothingToApprove(want[d])
    BY <2>2, <2>3, <2>4 DEF ConsentRole, Undecided, Decided, Prejudged
  <2>5. CASE ~ NothingToApprove(want[d])
    BY <2>1, <2>2, <2>3, <2>5 DEF ConsentRole, Undecided, Decided, Prejudged, Actions
  <2> QED BY <2>4, <2>5
<1>9. ReplyRole'
  BY <1>1 DEF TypeOK, ReplyRole, PollerRole, DeciderRole, MayRespond, Refused, ReplyLines, ReplyRate, Decided, Undecided, Prejudged, Executing
<1>10. TmsRole'
  BY <1>1 DEF TypeOK, TmsRole, ReplyRole, PollerRole, DeciderRole, Decided, Undecided, Prejudged, WritebackLines, WritebackRate, Executing
<1> QED BY <1>1, <1>2, <1>3, <1>4, <1>5, <1>6, <1>7, <1>8, <1>9, <1>10

LEMMA RespondKeeps ==
  ASSUME IInv, NEW p \in Drivers, Respond(p)
  PROVE  IInv'
<1> USE DEF Respond, At, IInv, graph, world, store, requests, intake, pricing, consent
<1>1. /\ run # "waiting_approval" /\ pc[p] = "graph"
      /\ p # Poller => pc[Poller] # "idle"
      /\ \A q \in Drivers \ {p} : pc[q] \notin {"claimed", "graph", "outcome"}
      /\ \A e \in Deciders : Resuming(e) => e = p
      /\ p \in Deciders => decisions = <<want[p]>>
  BY OneExecutor DEF Executing
<1>2. TypeOK'
  <2>1. ReplyLines \in Seq(QuoteLine)
    BY LinesType DEF TypeOK
  <2>2. Append(replies, ReplyLines) \in Seq(Seq(QuoteLine))
    BY <2>1, AppendProperties DEF TypeOK
  <2> QED BY <2>2 DEF TypeOK, Nodes
<1>3. PollerRole'
  BY <1>1 DEF TypeOK, PollerRole, DeciderRole, Resuming, Decided
<1>4. DeciderRole'
  BY <1>1 DEF TypeOK, DeciderRole, PollerRole, RowRole, Resuming, Decided
<1>5. RowRole'
  BY <1>1 DEF TypeOK, RowRole, PollerRole, DeciderRole
<1>6. LanesRole'
  BY <1>1 DEF TypeOK, LanesRole, Operable
<1>7. PromptRole'
  BY <1>1 DEF TypeOK, PromptRole, PollerRole, DeciderRole, Prejudged, Executing, Decided
<1>8. ConsentRole'
  BY <1>1 DEF TypeOK, ConsentRole, LanesRole, NeedsHuman, RowRole, Decided, Undecided, Prejudged
<1>9. ReplyRole'
  <2>1. replies = <<>> /\ ~ responded
    BY DEF ReplyRole, Executing
  <2>2. MayRespond' = MayRespond /\ ReplyLines' = ReplyLines
    BY DEF MayRespond, Refused, ReplyLines, ReplyRate
  <2>3. CASE MayRespond
    BY <2>1, <2>2, <2>3 DEF ReplyRole, Decided, Undecided, Prejudged
  <2>4. CASE ~ MayRespond
    BY <2>1, <2>2, <2>4 DEF ReplyRole, Decided, Undecided, Prejudged
  <2> QED BY <2>3, <2>4
<1>10. TmsRole'
  <2>1. ~ responded /\ tms = <<>>
    BY DEF ReplyRole, TmsRole
  <2> QED BY <2>1 DEF TmsRole
<1> QED BY <1>1, <1>2, <1>3, <1>4, <1>5, <1>6, <1>7, <1>8, <1>9, <1>10

LEMMA WriteBackKeeps ==
  ASSUME IInv, NEW p \in Drivers, WriteBack(p)
  PROVE  IInv'
<1> USE DEF WriteBack, At, Move, IInv, graph, world, store, requests, intake, pricing, consent
<1>1. /\ run # "waiting_approval" /\ pc[p] = "graph"
      /\ p # Poller => pc[Poller] # "idle"
      /\ \A q \in Drivers \ {p} : pc[q] \notin {"claimed", "graph", "outcome"}
      /\ \A e \in Deciders : Resuming(e) => e = p
      /\ p \in Deciders => decisions = <<want[p]>>
  BY OneExecutor DEF Executing
<1>2. TypeOK'
  <2>1. tms' \in Seq(QuoteLine)
    BY LinesType DEF TypeOK
  <2>2. pc' \in [Drivers -> Controls]
    BY DEF TypeOK, Controls
  <2> QED BY <2>1, <2>2 DEF TypeOK, Nodes
<1>3. PollerRole'
  BY <1>1 DEF TypeOK, PollerRole, DeciderRole, Resuming, Decided
<1>4. DeciderRole'
  BY <1>1 DEF TypeOK, DeciderRole, PollerRole, RowRole, Resuming, Decided
<1>5. RowRole'
  BY <1>1 DEF TypeOK, RowRole, PollerRole, DeciderRole
<1>6. LanesRole'
  BY <1>1 DEF TypeOK, LanesRole, Operable
<1>7. PromptRole'
  BY <1>1 DEF TypeOK, PromptRole, PollerRole, DeciderRole, Prejudged, Executing, Decided
<1>8. ConsentRole'
  BY <1>1 DEF TypeOK, ConsentRole, LanesRole, NeedsHuman, RowRole, Decided, Undecided, Prejudged
<1>9. ReplyRole'
  BY <1>1 DEF TypeOK, ReplyRole, PollerRole, DeciderRole, MayRespond, Refused, ReplyLines, ReplyRate, Decided, Undecided, Prejudged, Executing
<1>10. TmsRole'
  <2>1. tms = <<>>
    BY DEF TmsRole, Executing
  <2>2. WritebackLines \in Seq(QuoteLine) /\ Len(WritebackLines) = Len(quotes)
    BY LinesType DEF TypeOK
  <2>3. /\ <<>> \o WritebackLines = WritebackLines
        /\ SubSeq(WritebackLines, 1, Len(WritebackLines)) = WritebackLines
        /\ Len(quotes) \in Nat
    BY <2>2, ConcatEmptySeq, SubSeqFull, LenProperties DEF TypeOK
  <2>4. WritebackLines' = WritebackLines
    BY DEF WritebackLines, WritebackRate
  <2>5. responded => MayWriteBack
    BY DEF ReplyRole, MayRespond, MayWriteBack
  <2> QED BY <2>1, <2>2, <2>3, <2>4, <2>5 DEF TmsRole, MayWriteBack
<1> QED BY <1>1, <1>2, <1>3, <1>4, <1>5, <1>6, <1>7, <1>8, <1>9, <1>10

LEMMA NodeFailsKeeps ==
  ASSUME IInv, NEW p \in Drivers, NodeFails(p)
  PROVE  IInv'
<1> USE DEF NodeFails, Move, IInv, graph, world, store, requests, intake, pricing, consent
<1>1. /\ run # "waiting_approval" /\ pc[p] = "graph"
      /\ p # Poller => pc[Poller] # "idle"
      /\ \A q \in Drivers \ {p} : pc[q] \notin {"claimed", "graph", "outcome"}
      /\ \A e \in Deciders : Resuming(e) => e = p
      /\ p \in Deciders => decisions = <<want[p]>>
  BY OneExecutor DEF Executing
<1>2. TypeOK'
  <2>1. pc' \in [Drivers -> Controls]
    BY DEF TypeOK, Controls
  <2>2. prompts' \in Nat
    BY DEF TypeOK
  <2>3. Append(replies, ReplyLines) \in Seq(Seq(QuoteLine))
    BY LinesType, AppendProperties DEF TypeOK
  <2>4. ASSUME NEW k \in 1 .. Len(quotes)
        PROVE  tms \o SubSeq(WritebackLines, 1, k) \in Seq(QuoteLine)
    BY Prefix, ConcatProperties DEF TypeOK
  <2>5. replies' \in Seq(Seq(QuoteLine)) /\ tms' \in Seq(QuoteLine)
    BY <2>3, <2>4 DEF TypeOK
  <2> QED BY <2>1, <2>2, <2>5 DEF TypeOK
<1>3. PollerRole'
  BY <1>1 DEF TypeOK, PollerRole, DeciderRole, Resuming, Decided
<1>4. DeciderRole'
  BY <1>1 DEF TypeOK, DeciderRole, PollerRole, RowRole, Resuming, Decided
<1>5. RowRole'
  BY <1>1 DEF TypeOK, RowRole, PollerRole, DeciderRole
<1>6. LanesRole'
  BY <1>1 DEF TypeOK, LanesRole, Operable
<1>7. PromptRole'
  <2>1. \A q \in Drivers : ~ Executing(q)'
    BY <1>1, NobodyExecutes DEF Executing
  <2>2. next = "approvalPrompt" => prompts = 0
    BY DEF PromptRole, Executing
  <2> QED BY <2>1, <2>2 DEF TypeOK, PromptRole, Prejudged, Decided
<1>8. ConsentRole'
  BY <1>1 DEF TypeOK, ConsentRole, LanesRole, NeedsHuman, RowRole, Decided, Undecided, Prejudged
<1>9. ReplyRole'
  <2>1. \A q \in Drivers : ~ Executing(q)'
    BY <1>1, NobodyExecutes DEF Executing
  <2>2. MayRespond' = MayRespond /\ ReplyLines' = ReplyLines
    BY DEF MayRespond, Refused, ReplyLines, ReplyRate
  <2>3. CASE UNCHANGED replies
    BY <2>1, <2>2, <2>3 DEF ReplyRole, Decided, Undecided, Prejudged
  <2>4. CASE /\ next = "respond" /\ MayRespond
             /\ replies' = Append(replies, ReplyLines)
    <3>1. replies = <<>>
      BY <2>4 DEF ReplyRole, Executing
    <3> QED BY <2>1, <2>2, <2>4, <3>1 DEF ReplyRole, Decided, Undecided, Prejudged
  <2> QED BY <2>3, <2>4
<1>10. TmsRole'
  <2>1. \A q \in Drivers : ~ Executing(q)'
    BY <1>1, NobodyExecutes DEF Executing
  <2>2. WritebackLines' = WritebackLines
    BY DEF WritebackLines, WritebackRate
  <2>3. CASE UNCHANGED tms
    BY <2>1, <2>2, <2>3 DEF TmsRole
  <2>4. CASE /\ next = "writeback" /\ MayWriteBack
             /\ \E k \in 1 .. Len(quotes) : tms' = tms \o SubSeq(WritebackLines, 1, k)
    <3>1. PICK k \in 1 .. Len(quotes) : tms' = tms \o SubSeq(WritebackLines, 1, k)
      BY <2>4
    <3>2. tms = <<>>
      BY <2>4 DEF TmsRole, Executing
    <3>3. tms' = SubSeq(WritebackLines, 1, k) /\ Len(tms') = k
      BY <3>1, <3>2, Prefix DEF TypeOK
    <3>4. k \in Nat /\ k <= Len(quotes)
      BY LenProperties DEF TypeOK
    <3> QED BY <2>1, <2>2, <2>4, <3>3, <3>4 DEF TmsRole, MayWriteBack
  <2> QED BY <2>3, <2>4
<1> QED BY <1>1, <1>2, <1>3, <1>4, <1>5, <1>6, <1>7, <1>8, <1>9, <1>10

-----------------------------------------------------------------------------
(* The invariant is inductive.                                             *)

LEMMA InitEstablishes == Init => IInv
<1> SUFFICES ASSUME Init PROVE IInv
  OBVIOUS
<1> USE DEF Init
<1>1. TypeOK
  <2>1. pc \in [Drivers -> Controls] /\ want \in [Deciders -> Actions \cup {None}]
    BY DEF Controls
  <2>2. run \in Statuses /\ next \in Nodes /\ lanes \in 0 .. MaxLanes
    BY DEF Statuses, Nodes
  <2>3. /\ decisions \in Seq(Actions) /\ quotes \in Seq(Lanes)
        /\ replies \in Seq(Seq(QuoteLine)) /\ tms \in Seq(QuoteLine)
    BY EmptySeq
  <2>4. /\ inoperable \subseteq Lanes
        /\ assessed \subseteq [lane : Lanes, quote : Quotes, history : Histories]
        /\ gated \subseteq [lane : Lanes, verdict : Verdicts, confirm : BOOLEAN]
        /\ bulk \in BOOLEAN /\ blocker \in BOOLEAN /\ responded \in BOOLEAN
        /\ outage \in BOOLEAN
        /\ approval \in Actions \cup {None} /\ prompts \in Nat
    OBVIOUS
  <2> QED BY <2>1, <2>2, <2>3, <2>4 DEF TypeOK
<1>2. PollerRole /\ DeciderRole /\ RowRole
  BY DEF PollerRole, DeciderRole, RowRole, Resuming
<1>3. LanesRole /\ PromptRole
  BY DEF LanesRole, PromptRole, Prejudged, Decided, Executing
<1>4. ConsentRole
  BY DEF ConsentRole, Undecided, Prejudged, Decided
<1>5. ReplyRole /\ TmsRole
  BY DEF ReplyRole, TmsRole, Undecided, Prejudged, Decided, Executing
<1> QED BY <1>1, <1>2, <1>3, <1>4, <1>5 DEF IInv

LEMMA GraphStepKeeps ==
  ASSUME IInv, NEW p \in Drivers, GraphStep(p)
  PROVE  IInv'
<1>1. CASE Classify(p) \/ Extract(p) \/ ValidateOperability(p)
  BY Zenon, <1>1, ClassifyKeeps, ExtractKeeps, ValidateOperabilityKeeps
<1>2. CASE \E l \in Lanes : ProcessLane(p, l)
  <2>1. PICK l \in Lanes : ProcessLane(p, l)
    BY Zenon, <1>2
  <2> QED BY Zenon, <2>1, ProcessLaneKeeps
<1>3. CASE JoinLanes(p) \/ JudgeLanes(p) \/ ApprovalPrompt(p) \/ AutoApprove(p)
  BY Zenon, <1>3, JoinLanesKeeps, JudgeLanesKeeps, ApprovalPromptKeeps, AutoApproveKeeps
<1>4. CASE Respond(p) \/ WriteBack(p)
  BY Zenon, <1>4, RespondKeeps, WriteBackKeeps
<1> QED BY Zenon, <1>1, <1>2, <1>3, <1>4 DEF GraphStep

LEMMA AdvanceKeeps ==
  ASSUME IInv, NEW p \in Drivers, Advance(p)
  PROVE  IInv'
BY Zenon, GraphStepKeeps, PersistOutcomeKeeps, PersistGraphErrorsKeeps, MarkErrorKeeps
   DEF Advance

LEMMA FailKeeps ==
  ASSUME IInv, Fail
  PROVE  IInv'
<1>1. CASE StartRunFails \/ PersistGraphErrorsFails \/ Crash
  BY Zenon, <1>1, StartRunFailsKeeps, PersistGraphErrorsFailsKeeps, CrashKeeps
<1>2. CASE \E p \in Drivers : NodeFails(p) \/ PersistOutcomeFails(p) \/ MarkErrorFails(p)
  BY Zenon, <1>2, NodeFailsKeeps, PersistOutcomeFailsKeeps, MarkErrorFailsKeeps
<1>3. CASE \E d \in Deciders : ClaimFails(d) \/ ResumeFails(d)
  BY Zenon, <1>3, ClaimFailsKeeps, ResumeFailsKeeps
<1> QED BY Zenon, <1>1, <1>2, <1>3 DEF Fail

LEMMA StutterKeeps ==
  ASSUME IInv, UNCHANGED vars
  PROVE  IInv'
<1> USE DEF IInv, vars, requests, store, graph, world, intake, pricing, consent
<1>1. TypeOK'
  BY DEF TypeOK
<1>2. PollerRole' /\ DeciderRole' /\ RowRole'
  BY DEF PollerRole, DeciderRole, RowRole, Resuming
<1>3. LanesRole' /\ PromptRole' /\ ConsentRole' /\ ReplyRole' /\ TmsRole'
  BY GraphRests DEF Executing
<1> QED BY <1>1, <1>2, <1>3

LEMMA NextKeeps == IInv /\ [Next]_vars => IInv'
<1> SUFFICES ASSUME IInv, [Next]_vars PROVE IInv'
  OBVIOUS
<1>0. Poller \in Drivers /\ Deciders \subseteq Drivers
  OBVIOUS
<1>1. CASE PollerStep
  <2>1. CASE StartRun \/ Park
    BY Zenon, <2>1, StartRunKeeps, ParkKeeps
  <2>2. CASE Advance(Poller)
    BY Zenon, <1>0, <2>2, AdvanceKeeps
  <2> QED BY Zenon, <1>1, <2>1, <2>2 DEF PollerStep
<1>2. ASSUME NEW d \in Deciders, DeciderStep(d) \/ ReadRun(d) \/ Decline(d)
      PROVE  IInv'
  <2>1. CASE ReadRun(d) \/ Decline(d)
    BY Zenon, <2>1, ReadRunKeeps, DeclineKeeps
  <2>2. CASE Claim(d) \/ LoseClaim(d) \/ Resume(d) \/ ApplyDecision(d)
    BY Zenon, <2>2, ClaimKeeps, LoseClaimKeeps, ResumeKeeps, ApplyDecisionKeeps
  <2>3. CASE Advance(d)
    BY Zenon, <1>0, <2>3, AdvanceKeeps
  <2> QED BY Zenon, <1>2, <2>1, <2>2, <2>3 DEF DeciderStep
<1>3. CASE Fail
  BY <1>3, FailKeeps
<1>4. CASE UNCHANGED vars
  BY <1>4, StutterKeeps
<1> QED BY Zenon, <1>1, <1>2, <1>3, <1>4 DEF Next

(* The strengthened invariant holds in every state a run can reach,        *)
(* whatever fails and however many decision requests race.                 *)
THEOREM Invariant == Spec => []IInv
<1> QED BY InitEstablishes, NextKeeps, PTL DEF Spec

-----------------------------------------------------------------------------
(* The safety properties of QuoteRun.                                      *)

(* Every variable keeps its type.                                          *)
THEOREM Types == Spec => []TypeOK
<1>1. IInv => TypeOK
  BY DEF IInv
<1> QED BY <1>1, Invariant, PTL

(* One decision is recorded for a run and it is the one that was applied:  *)
(* the compare-and-set of claimAgentRunForResume is enough, for any number *)
(* of decision requests and wherever the process dies.                     *)
THEOREM DecisionIsOne == Spec => []OneDecision
<1>1. IInv => OneDecision
  <2> SUFFICES ASSUME IInv PROVE OneDecision
    OBVIOUS
  <2>1. Len(decisions) <= 1
    BY DEF IInv, DeciderRole
  <2>2. approval # None => next \in Decided
    BY DEF IInv, TypeOK, ConsentRole, Nodes, Undecided, Prejudged, Decided
  <2>3. approval # None /\ NeedsHuman =>
          /\ decisions # <<>>
          /\ approval = IF blocker THEN "request_review" ELSE decisions[1]
    BY <2>2 DEF IInv, ConsentRole
  <2> QED BY <2>1, <2>3 DEF OneDecision
<1> QED BY <1>1, Invariant, PTL

(* No quote leaves twice, and none leaves without an approval or a lane    *)
(* set the policy gate let through in full.                                *)
THEOREM ConsentFirst == Spec => []QuoteNeedsConsent
<1>1. IInv => QuoteNeedsConsent
  <2> SUFFICES ASSUME IInv PROVE QuoteNeedsConsent
    OBVIOUS
  <2>1. replies \in Seq(Seq(QuoteLine)) /\ (replies # <<>> => replies = <<ReplyLines>>)
    BY DEF IInv, TypeOK, ReplyRole
  <2>2. Len(replies) <= 1
    <3>1. CASE replies = <<>>
      BY <3>1, EmptySeq
    <3>2. CASE replies # <<>>
      <4>1. replies = <<ReplyLines>>
        BY <2>1, <3>2
      <4> QED BY <4>1
    <3> QED BY <3>1, <3>2
  <2>3. ASSUME replies # <<>>, NeedsHuman
        PROVE  decisions # <<>> /\ decisions[1] \in {"approve", "adjust"}
    <3>1. next \in Decided /\ ~ blocker /\ approval \notin {"reject", "request_review"}
      BY <2>3 DEF IInv, ReplyRole, MayRespond, Refused
    <3>2. decisions # <<>> /\ approval = decisions[1]
      BY <2>3, <3>1 DEF IInv, ConsentRole
    <3>3. approval \in Actions
      BY <3>1 DEF IInv, TypeOK, ConsentRole
    <3> QED BY <3>1, <3>2, <3>3 DEF Actions
  <2> QED BY <2>2, <2>3 DEF QuoteNeedsConsent
<1> QED BY <1>1, Invariant, PTL

(* What is in the TMS is a prefix of the quote the requester received,     *)
(* although the reply and the writeback each compute their own rates.      *)
THEOREM BookedAsQuoted == Spec => []TmsMirrorsReply
<1>1. IInv => TmsMirrorsReply
  <2> SUFFICES ASSUME IInv, tms # <<>> PROVE
          /\ replies # <<>>
          /\ Len(tms) <= Len(replies[1])
          /\ tms = SubSeq(replies[1], 1, Len(tms))
    BY DEF TmsMirrorsReply
  <2>1. /\ responded
        /\ Len(tms) <= Len(quotes)
        /\ tms = SubSeq(WritebackLines, 1, Len(tms))
    BY DEF IInv, TmsRole
  <2>2. next \in {"writeback", "END"}
    BY <2>1 DEF IInv, TypeOK, ReplyRole, Nodes, Undecided, Prejudged
  <2>3. replies # <<>> /\ replies = <<ReplyLines>>
    BY <2>1, <2>2 DEF IInv, ReplyRole
  <2>4. replies[1] = WritebackLines /\ Len(ReplyLines) = Len(quotes)
    BY <2>3, LinesType DEF IInv, TypeOK
  <2>5. Len(replies[1]) = Len(quotes)
    BY <2>3, <2>4
  <2> QED BY <2>1, <2>3, <2>4, <2>5
<1> QED BY <1>1, Invariant, PTL

(* A row that reads waiting_approval is a run parked at the interrupt,     *)
(* undecided, with nothing sent or written and the approver prompted.      *)
THEOREM WaitingCanBeDecided == Spec => []WaitingIsUndecided
<1>1. IInv => WaitingIsUndecided
  <2> SUFFICES ASSUME IInv, run = "waiting_approval" PROVE WaitingIsUndecided
    BY DEF WaitingIsUndecided
  <2>1. next = "approvalInterrupt" /\ decisions = <<>>
    BY DEF IInv, RowRole
  <2>2. pc[Poller] \notin {"claimed", "graph"}
    BY DEF IInv, PollerRole
  <2>3. \A d \in Deciders : pc[d] \notin {"claimed", "graph"}
    BY RequestHolds DEF Resuming
  <2>4. replies = <<>> /\ tms = <<>>
    BY <2>1 DEF IInv, ReplyRole, TmsRole, Undecided, Decided
  <2>5. prompts = IF \E g \in gated : g.confirm THEN 1 ELSE 0
    BY <2>1 DEF IInv, PromptRole
  <2> QED BY <2>1, <2>2, <2>3, <2>4, <2>5 DEF WaitingIsUndecided
<1> QED BY <1>1, Invariant, PTL

(* A run that is done and approved was answered and booked in full.        *)
THEOREM DoneMeansDelivered == Spec => []DoneIsDelivered
<1>1. IInv => DoneIsDelivered
  <2> SUFFICES ASSUME IInv, run = "done", approval = "approve"
               PROVE  replies = <<tms>>
    BY DEF DoneIsDelivered
  <2>1. next = "END" /\ ~ blocker
    BY DEF IInv, RowRole
  <2>2. quotes # <<>>
    BY <2>1 DEF IInv, ConsentRole, Decided
  <2>3. MayRespond
    BY <2>1, <2>2 DEF MayRespond, Refused
  <2>4. responded /\ replies = <<ReplyLines>>
    BY <2>1, <2>3 DEF IInv, ReplyRole
  <2>5. tms = WritebackLines
    BY <2>1, <2>4 DEF IInv, TmsRole
  <2> QED BY <2>4, <2>5, LinesType DEF IInv, TypeOK
<1> QED BY <1>1, Invariant, PTL

-----------------------------------------------------------------------------
(* QuoteRun implements QuoteDelivery.                                      *)

LEMMA DeliveryStutters ==
  ASSUME UNCHANGED <<approval, replies, tms>>
  PROVE  UNCHANGED Delivery!vars
BY DEF Delivery!vars, Refused

LEMMA ApprovalDecides ==
  ASSUME IInv, NEW p \in Drivers, At(p, "approvalInterrupt"),
         approval' \in Actions, UNCHANGED <<replies, tms>>
  PROVE  Delivery!Decide
<1>1. approval = None /\ approval' # None
  BY DEF IInv, ConsentRole, At, Undecided, Actions
<1> QED BY <1>1 DEF Delivery!Decide, Refused

LEMMA ReplySends ==
  ASSUME IInv, NEW p \in Drivers, At(p, "respond"), MayRespond,
         replies' = Append(replies, ReplyLines), UNCHANGED <<approval, tms>>
  PROVE  Delivery!Send
<1>1. approval # None /\ ~ Refused
  BY DEF IInv, ConsentRole, At, Decided, MayRespond
<1>2. replies = <<>>
  BY DEF IInv, ReplyRole, At, Executing
<1>3. replies' = <<ReplyLines>> /\ ReplyLines \in Seq(QuoteLine)
  BY <1>2, LinesType DEF IInv, TypeOK
<1>4. Len(replies') = 1 /\ replies'[1] \in Seq(QuoteLine)
  BY <1>3
<1>5. Refused' = Refused
  BY DEF Refused
<1> QED BY <1>1, <1>2, <1>4, <1>5 DEF Delivery!Send

LEMMA WritebackBooks ==
  ASSUME IInv, NEW p \in Drivers, At(p, "writeback"), MayWriteBack,
         NEW k \in 1 .. Len(quotes), tms' = tms \o SubSeq(WritebackLines, 1, k),
         UNCHANGED <<approval, replies>>
  PROVE  Delivery!Book
<1>1. tms = <<>>
  BY DEF IInv, TmsRole, At, Executing
<1>2. tms' = SubSeq(WritebackLines, 1, k)
  BY <1>1, Prefix DEF IInv, TypeOK
<1>3. replies # <<>> /\ replies = <<ReplyLines>>
  BY DEF IInv, ReplyRole, At, MayWriteBack
<1>4. replies[1] = WritebackLines /\ Len(ReplyLines) = Len(quotes)
  BY <1>3, LinesType DEF IInv, TypeOK
<1>5. k \in 1 .. Len(replies[1]) /\ tms' = SubSeq(replies[1], 1, k)
  BY <1>2, <1>3, <1>4
<1>6. Refused' = Refused
  BY DEF Refused
<1> QED BY <1>1, <1>3, <1>5, <1>6 DEF Delivery!Book

LEMMA GraphStepDelivers ==
  ASSUME IInv, NEW p \in Drivers, GraphStep(p)
  PROVE  Delivery!Next \/ UNCHANGED Delivery!vars
<1>1. CASE \/ Classify(p) \/ Extract(p) \/ ValidateOperability(p)
           \/ (\E l \in Lanes : ProcessLane(p, l))
           \/ JoinLanes(p) \/ JudgeLanes(p) \/ ApprovalPrompt(p)
  <2>1. UNCHANGED <<approval, replies, tms>>
    BY <1>1 DEF Classify, Extract, ValidateOperability, ProcessLane, JoinLanes,
                JudgeLanes, ApprovalPrompt, consent, world
  <2> QED BY <2>1, DeliveryStutters
<1>2. CASE AutoApprove(p)
  <2>1. At(p, "approvalInterrupt") /\ approval' \in Actions /\ UNCHANGED <<replies, tms>>
    BY <1>2 DEF AutoApprove, Approve, Actions, world
  <2> QED BY <2>1, ApprovalDecides DEF Delivery!Next
<1>3. CASE Respond(p)
  <2>1. At(p, "respond") /\ UNCHANGED <<approval, tms>>
    BY <1>3 DEF Respond, consent
  <2>2. CASE MayRespond
    <3>1. replies' = Append(replies, ReplyLines)
      BY <1>3, <2>2 DEF Respond
    <3> QED BY <2>1, <2>2, <3>1, ReplySends DEF Delivery!Next
  <2>3. CASE ~ MayRespond
    <3>1. UNCHANGED replies
      BY <1>3, <2>3 DEF Respond
    <3> QED BY <2>1, <3>1, DeliveryStutters
  <2> QED BY <2>2, <2>3
<1>4. CASE WriteBack(p)
  <2>1. At(p, "writeback") /\ UNCHANGED <<approval, replies>>
    BY <1>4 DEF WriteBack, consent
  <2>2. CASE MayWriteBack
    <3>1. WritebackLines \in Seq(QuoteLine) /\ Len(WritebackLines) = Len(quotes)
      BY LinesType DEF IInv, TypeOK
    <3>2. SubSeq(WritebackLines, 1, Len(quotes)) = WritebackLines
      BY <3>1, SubSeqFull
    <3>3. quotes # <<>>
      BY <2>1, <2>2 DEF IInv, ReplyRole, At, MayWriteBack, MayRespond
    <3>4. Len(quotes) \in 1 .. Len(quotes)
      BY <3>3, EmptySeq DEF IInv, TypeOK
    <3>5. tms' = tms \o SubSeq(WritebackLines, 1, Len(quotes))
      BY <1>4, <2>2, <3>2 DEF WriteBack
    <3> QED BY <2>1, <2>2, <3>4, <3>5, WritebackBooks DEF Delivery!Next
  <2>3. CASE ~ MayWriteBack
    <3>1. UNCHANGED tms
      BY <1>4, <2>3 DEF WriteBack
    <3> QED BY <2>1, <3>1, DeliveryStutters
  <2> QED BY <2>2, <2>3
<1> QED BY Zenon, <1>1, <1>2, <1>3, <1>4 DEF GraphStep

LEMMA NodeFailsDelivers ==
  ASSUME IInv, NEW p \in Drivers, NodeFails(p)
  PROVE  Delivery!Next \/ UNCHANGED Delivery!vars
<1>1. pc[p] = "graph" /\ UNCHANGED approval
  BY DEF NodeFails, Move, graph, consent
<1>2. CASE UNCHANGED <<replies, tms>>
  BY <1>1, <1>2, DeliveryStutters
<1>3. CASE /\ next = "respond" /\ MayRespond
           /\ replies' = Append(replies, ReplyLines) /\ UNCHANGED tms
  BY <1>1, <1>3, ReplySends DEF At, Delivery!Next
<1>4. CASE /\ next = "writeback" /\ MayWriteBack
           /\ \E k \in 1 .. Len(quotes) : tms' = tms \o SubSeq(WritebackLines, 1, k)
           /\ UNCHANGED replies
  BY <1>1, <1>4, WritebackBooks DEF At, Delivery!Next
<1> QED BY <1>2, <1>3, <1>4 DEF NodeFails, world

LEMMA NextDelivers == IInv /\ [Next]_vars => [Delivery!Next]_Delivery!vars
<1> SUFFICES ASSUME IInv, [Next]_vars
             PROVE  Delivery!Next \/ UNCHANGED Delivery!vars
  OBVIOUS
<1>0. Poller \in Drivers /\ Deciders \subseteq Drivers
  OBVIOUS
<1>1. CASE \E p \in Drivers : GraphStep(p)
  BY <1>1, GraphStepDelivers
<1>2. CASE \E p \in Drivers : NodeFails(p)
  BY <1>2, NodeFailsDelivers
<1>3. CASE \E d \in Deciders : ApplyDecision(d)
  <2>1. PICK d \in Deciders : ApplyDecision(d)
    BY <1>3
  <2>2. At(d, "approvalInterrupt") /\ UNCHANGED <<replies, tms>>
    BY <2>1 DEF ApplyDecision, Approve, world
  <2>3. want[d] \in Actions
    BY <2>2, DecisionAtHand DEF At, Executing
  <2>4. approval' \in Actions
    BY <2>1, <2>3 DEF ApplyDecision, Approve, Actions
  <2> QED BY <2>2, <2>4, ApprovalDecides DEF Delivery!Next
<1>4. CASE \/ StartRun \/ Park \/ StartRunFails \/ PersistGraphErrorsFails \/ Crash
           \/ (\E p \in Drivers : \/ PersistOutcome(p) \/ PersistGraphErrors(p) \/ MarkError(p)
                                   \/ PersistOutcomeFails(p) \/ MarkErrorFails(p))
  <2>1. UNCHANGED <<graph, world>>
    BY <1>4 DEF StartRun, Park, StartRunFails, PersistGraphErrorsFails, Crash,
      PersistOutcome, PersistGraphErrors, MarkError, PersistOutcomeFails, MarkErrorFails
  <2> QED BY <2>1, DeliveryStutters DEF graph, consent, world
<1>5. CASE \E d \in Deciders : \/ ReadRun(d) \/ Decline(d) \/ Claim(d) \/ LoseClaim(d)
                               \/ Resume(d) \/ ClaimFails(d) \/ ResumeFails(d)
  <2>1. UNCHANGED <<graph, world>>
    BY <1>5 DEF ReadRun, Decline, Claim, LoseClaim, Resume, ClaimFails, ResumeFails
  <2> QED BY <2>1, DeliveryStutters DEF graph, consent, world
<1>6. CASE UNCHANGED vars
  BY <1>6, DeliveryStutters DEF vars, graph, consent, world
<1> QED
  BY Zenon, <1>0, <1>1, <1>2, <1>3, <1>4, <1>5, <1>6
     DEF Next, PollerStep, DeciderStep, Advance, Fail

(* Seen from outside, a run with its drivers, rows, checkpoint and         *)
(* failures settles consent once, sends at most one quote with consent and *)
(* books a prefix of it: it is an implementation of QuoteDelivery.         *)
THEOREM DeliversAsPromised == Spec => DeliveryKept
<1>1. Init => Delivery!Init
  BY DEF Init, Delivery!Init
<1> QED BY <1>1, Invariant, NextDelivers, PTL DEF Spec, DeliveryKept, Delivery!Spec
=============================================================================
