--------------------------- MODULE WritebackProofs ---------------------------
(***************************************************************************)
(* What is written to the TMS, from both ends: what the legacy workflow of *)
(* WorkflowRuns and the decisions on it write, and what the TmsGateway     *)
(* makes of a write, and of a read, on its way to the client's systems.    *)
(* The theorems hold for every set of requests, decisions and faults, and  *)
(* for every set of connections, surroundings, callers and times to live.  *)
(*                                                                         *)
(* The workflow (Spec).  Its facts hold of histories without the overlaps  *)
(* that nothing in the code prevents, and the invariant IInv says what     *)
(* keeps each.  Without overlapping submissions one workflow was started   *)
(* at most (OneWorkflow); with nobody deciding, its batch and the row go   *)
(* together (WrittenSoFar); with decisions that are not early, contested   *)
(* or disturbed, at most one of them is under way, on a quote that no      *)
(* workflow writes any more (OneDecision).  What a history has seen it     *)
(* does not forget (HistoryGrows), so a conjunct is wanted only while its  *)
(* condition holds.                                                        *)
(*                                                                         *)
(* The gateway (GatewaySpec).  An answer is good for every later moment    *)
(* because whatever its system says later comes after it was loaded        *)
(* (AnswerLasts); the invariant GatewayInv has such answers wherever one   *)
(* can be: in either tier and in a call that is about to store it.  What   *)
(* the disk cuts short pays in advance: a file that ends within a line has *)
(* been paid for, and the next append uses that up (AppendLoss).           *)
(***************************************************************************)
EXTENDS WorkflowRuns, TmsGateway, FiniteSetTheorems, TLAPS

-----------------------------------------------------------------------------
(* The workflow                                                            *)

Runs == [stage : {"absent", "queued", "failed", "quoted"}, required : BOOLEAN,
         written : {"no", "completed", "failed", "review_required"}]

TypeOK ==
  /\ row \in Runs /\ decision \in Actions \cup {None} /\ tms \in Nat
  /\ pc \in [Requests -> {"idle", "starting", "over"} \cup Deciding]
  /\ job \in [Submitters -> {"none", "running", "returned", "failing", "over"}]
  /\ result \in [Submitters -> Runs] /\ snapshot \in [Deciders -> Runs]
  /\ action \in [Deciders -> Actions \cup {None}]
  /\ \A d \in Deciders : pc[d] \in Deciding => action[d] \in Actions
  /\ outage \in BOOLEAN /\ overlapped \in BOOLEAN
  /\ early \in BOOLEAN /\ contested \in BOOLEAN

Working(s) == job[s] # "none"
Reading(d) == pc[d] \in {"deciding", "saving"}

(* Submissions that do not overlap start at most one workflow, and none    *)
(* looks for a run that is there.                                          *)
OneWorkflow ==
  /\ \A s, t \in Submitters : pc[s] = "starting" /\ pc[t] = "starting" => s = t
  /\ \A s, t \in Submitters : Working(s) /\ Working(t) => s = t
  /\ \A s \in Submitters : pc[s] = "starting" => row = NoRun
  /\ \A s \in Submitters : Working(s) => row # NoRun
  /\ row.stage = "absent" => row = NoRun
  /\ \A s \in Submitters : job[s] = "returned" => result[s].stage = "quoted"
  /\ \A d \in Deciders : Reading(d) => snapshot[d].stage # "absent" /\ row # NoRun

Undecided == \A d \in Deciders : action[d] = None

(* What the workflow has written so far.                                   *)
WrittenSoFar ==
  /\ tms <= 1
  /\ (\A s \in Submitters : ~ Working(s)) => tms = 0
  /\ \A s \in Submitters : job[s] = "running" => tms = 0
  /\ \A s \in Submitters : job[s] \in {"running", "returned"} => row.stage # "quoted"
  /\ \A s \in Submitters : job[s] = "returned" /\ result[s].required => tms = 0
  /\ row.stage = "quoted" /\ row.required => tms = 0

(* One decision at a time, on a quote that no workflow changes any more.   *)
OneDecision ==
  /\ row.stage = "quoted" => \A s \in Submitters : job[s] \in {"none", "over"}
  /\ decision # None => row.stage = "quoted"
  /\ \A d, e \in Deciders : pc[d] \in Deciding /\ pc[e] \in Deciding => d = e
  /\ \A d \in Deciders : pc[d] \in Deciding => row.stage = "quoted"
  /\ \A d \in Deciders : Reading(d) => snapshot[d].stage = "quoted"
  /\ \A d \in Deciders : pc[d] = "saving" =>
       (snapshot[d].required <=> action[d] \in Refusals)
  /\ \A d \in Deciders : pc[d] = "recording" =>
       (row.required <=> action[d] \in Refusals)
  /\ decision # None /\ (\A d \in Deciders : pc[d] \notin Deciding) =>
       (row.required <=> decision \in Refusals)

IInv ==
  /\ TypeOK
  /\ ~ overlapped => OneWorkflow
  /\ ~ overlapped /\ Undecided => WrittenSoFar
  /\ Undisturbed => OneDecision
-----------------------------------------------------------------------------
LEMMA Apart ==
  /\ \A s \in Submitters : s \notin Deciders
  /\ None \notin Actions /\ Requests = Submitters \cup Deciders
BY RequestsAssumption, ActionsAssumption DEF Requests, None

(* What the code puts into a run is a run.                                 *)
LEMMA RunValues ==
  /\ NoRun \in Runs /\ Queued \in Runs /\ FailedRun \in Runs
  /\ NoRun.stage = "absent" /\ Queued.stage = "queued" /\ FailedRun.stage = "failed"
BY DEF NoRun, Queued, FailedRun, Runs

LEMMA QuotedRun ==
  ASSUME NEW required \in BOOLEAN,
         NEW written \in {"completed", "failed", "review_required"}
  PROVE  LET r == [stage |-> "quoted", required |-> required, written |-> written]
         IN  r \in Runs /\ r.stage = "quoted" /\ r.required = required
BY DEF Runs

Answer(run, required, written) ==
  [run EXCEPT !.required = required, !.written = written]

LEMMA AnsweredRun ==
  ASSUME NEW run \in Runs, NEW written \in {"completed", "failed", "review_required"}
  PROVE  /\ Answer(run, TRUE, written) \in Runs /\ Answer(run, FALSE, written) \in Runs
         /\ Answer(run, TRUE, written).stage = run.stage
         /\ Answer(run, FALSE, written).stage = run.stage
         /\ Answer(run, TRUE, written).required
         /\ ~ Answer(run, FALSE, written).required
BY DEF Runs, Answer

(* A decision changes nothing but the batches and its own copy of the run. *)
LEMMA ApplyResult ==
  ASSUME TypeOK, NEW d \in Deciders, Apply(d)
  PROVE  /\ pc[d] = "deciding" /\ pc' = [pc EXCEPT ![d] = "saving"]
         /\ tms' \in {tms, tms + 1}
         /\ UNCHANGED <<action, jobs, store, history>>
         /\ \E r \in Runs :
              /\ snapshot' = [snapshot EXCEPT ![d] = r]
              /\ r.stage = snapshot[d].stage
              /\ r.stage = "quoted" =>
                   (r.required <=> action[d] \in Refusals)
<1> DEFINE run == snapshot[d]
<1>1. run \in Runs
  BY DEF TypeOK
<1>2. CASE run.stage # "quoted"
  <2>1. UNCHANGED <<snapshot, tms>>
    BY <1>2 DEF Apply, Writes
  <2>2. snapshot' = [snapshot EXCEPT ![d] = run]
    BY <2>1 DEF TypeOK
  <2> QED BY <1>1, <1>2, <2>1, <2>2 DEF Apply, Move
<1>3. CASE run.stage = "quoted" /\ action[d] \in Refusals
  <2>1. UNCHANGED tms /\ snapshot' = [snapshot EXCEPT ![d] = Retained(run)]
    BY <1>3 DEF Apply, Writes
  <2> DEFINE r == Answer(run, TRUE, "review_required")
  <2>2. snapshot' = [snapshot EXCEPT ![d] = r]
    BY <2>1 DEF Retained, Answer
  <2>3. r \in Runs /\ r.stage = run.stage /\ r.required
    BY <1>1, AnsweredRun
  <2> HIDE DEF r
  <2> QED BY <1>3, <2>1, <2>2, <2>3 DEF Apply, Move
<1>4. CASE run.stage = "quoted" /\ action[d] \notin Refusals
  <2>1. PICK written \in {"completed", "failed"} :
          /\ Write(written)
          /\ snapshot' = [snapshot EXCEPT ![d].required = FALSE, ![d].written = written]
    BY <1>4 DEF Apply
  <2> DEFINE r == Answer(run, FALSE, written)
  <2>2. snapshot' = [snapshot EXCEPT ![d] = r]
    BY <2>1 DEF Answer, TypeOK
  <2>3. tms' \in {tms, tms + 1}
    BY <2>1 DEF Write
  <2>4. r \in Runs /\ r.stage = run.stage /\ ~ r.required
    BY <1>1, <2>1, AnsweredRun
  <2> HIDE DEF r
  <2> QED BY <1>4, <2>2, <2>3, <2>4 DEF Apply, Move
<1> QED BY <1>2, <1>3, <1>4

(* What a workflow that succeeds leaves behind.                            *)
LEMMA WorkResult ==
  ASSUME TypeOK, NEW s \in Submitters, Work(s)
  PROVE  /\ job[s] = "running" /\ job' = [job EXCEPT ![s] = "returned"]
         /\ tms' \in {tms, tms + 1} /\ UNCHANGED <<requests, store, history>>
         /\ \E r \in Runs :
              /\ result' = [result EXCEPT ![s] = r]
              /\ r.stage = "quoted" /\ (r.required => tms' = tms)
<1>1. PICK required \in BOOLEAN, written \in {"completed", "failed", "review_required"} :
        /\ WriteUnlessReview(required, written)
        /\ result' = [result EXCEPT ![s] =
             [stage |-> "quoted", required |-> required, written |-> written]]
  BY DEF Work
<1>2. tms' \in {tms, tms + 1} /\ (required => tms' = tms)
  BY <1>1 DEF WriteUnlessReview, Write
<1> QED BY <1>1, <1>2, QuotedRun DEF Work

(* The types                                                               *)
LEMMA ApplyType == ASSUME TypeOK, NEW d \in Deciders, Apply(d) PROVE TypeOK'
<1>1. PICK r \in Runs : snapshot' = [snapshot EXCEPT ![d] = r]
  BY ApplyResult, Zenon
<1>2. /\ pc[d] = "deciding" /\ pc' = [pc EXCEPT ![d] = "saving"]
      /\ tms' \in {tms, tms + 1} /\ UNCHANGED <<action, jobs, store, history>>
  BY ApplyResult
<1> QED BY <1>1, <1>2, Apart DEF TypeOK, jobs, store, history, Deciding

LEMMA TypeStep == TypeOK /\ [Next]_vars => TypeOK'
<1> SUFFICES ASSUME TypeOK, [Next]_vars PROVE TypeOK'
  OBVIOUS
<1> USE DEF TypeOK, Move, Outage, requests, jobs, store, history
<1>1. ASSUME NEW s \in Submitters, Submit(s) PROVE TypeOK'
  BY <1>1, Apart, RunValues DEF Submit, Deciding
<1>2. ASSUME NEW s \in Submitters, AnswerAtOnce(s) PROVE TypeOK'
  BY <1>2, Apart, RunValues DEF AnswerAtOnce, Deciding
<1>3. ASSUME NEW s \in Submitters, StartFails(s) PROVE TypeOK'
  BY <1>3, Apart, RunValues DEF StartFails, Deciding
<1>4. ASSUME NEW s \in Submitters, Queue(s) PROVE TypeOK'
  BY <1>4, Apart, RunValues DEF Queue, Deciding
<1>5. ASSUME NEW s \in Submitters, QueueFails(s) PROVE TypeOK'
  BY <1>5, Apart, RunValues DEF QueueFails, Deciding
<1>6. ASSUME NEW s \in Submitters, Work(s) PROVE TypeOK'
  BY <1>6, Apart, WorkResult DEF Deciding
<1>7. ASSUME NEW s \in Submitters, WorkFails(s) PROVE TypeOK'
  BY <1>7, Apart, RunValues DEF WorkFails, Deciding
<1>8. ASSUME NEW s \in Submitters, SaveResult(s) PROVE TypeOK'
  BY <1>8, Apart, RunValues DEF SaveResult, Deciding
<1>9. ASSUME NEW s \in Submitters, SaveFailure(s) PROVE TypeOK'
  BY <1>9, Apart, RunValues DEF SaveFailure, FailureSaved, Deciding
<1>10. ASSUME NEW s \in Submitters, SaveResultFails(s) PROVE TypeOK'
  BY <1>10, Apart, RunValues DEF SaveResultFails, Deciding
<1>11. ASSUME NEW s \in Submitters, SaveFailureFails(s) PROVE TypeOK'
  BY <1>11, Apart, RunValues DEF SaveFailureFails, Die, FailureSaved, Resting, Deciding
<1>12. ASSUME NEW d \in Deciders, ReadRun(d) PROVE TypeOK'
  BY <1>12, Apart, RunValues DEF ReadRun, Deciding
<1>13. ASSUME NEW d \in Deciders, RefuseDecision(d) PROVE TypeOK'
  BY <1>13, Apart, RunValues DEF RefuseDecision, Deciding
<1>14. ASSUME NEW d \in Deciders, Apply(d) PROVE TypeOK'
  BY <1>14, ApplyType
<1>15. ASSUME NEW d \in Deciders, SaveRun(d) PROVE TypeOK'
  BY <1>15, Apart, RunValues DEF SaveRun, Deciding
<1>16. ASSUME NEW d \in Deciders, SaveRunFails(d) PROVE TypeOK'
  BY <1>16, Apart, RunValues DEF SaveRunFails, Deciding
<1>17. ASSUME NEW d \in Deciders, SaveDecision(d) PROVE TypeOK'
  BY <1>17, Apart, RunValues DEF SaveDecision, Deciding
<1>18. ASSUME NEW d \in Deciders, SaveDecisionFails(d) PROVE TypeOK'
  BY <1>18, Apart, RunValues DEF SaveDecisionFails, Deciding
<1>19. ASSUME Crash PROVE TypeOK'
  BY <1>19, Apart, RunValues DEF Crash, Die, FailureSaved, Resting, Deciding
<1>20. ASSUME UNCHANGED vars PROVE TypeOK'
  BY <1>20 DEF vars
<1> QED BY <1>1, <1>2, <1>3, <1>4, <1>5, <1>6, <1>7, <1>8, <1>9, <1>10, <1>11,
           <1>12, <1>13, <1>14, <1>15, <1>16, <1>17, <1>18, <1>19, <1>20
        DEF Next, Background

(* Only a submission that finds no run starts a workflow, and one that     *)
(* finds none while another is starting overlaps it.                       *)
LEMMA OneWorkflowStep ==
  ASSUME TypeOK, TypeOK', ~ overlapped', ~ overlapped, OneWorkflow, [Next]_vars
  PROVE  OneWorkflow'
<1>1. ASSUME NEW d \in Deciders, Apply(d) PROVE OneWorkflow'
  <2>1. PICK r \in Runs :
          /\ snapshot' = [snapshot EXCEPT ![d] = r] /\ r.stage = snapshot[d].stage
          /\ r.stage = "quoted" => (r.required <=> action[d] \in Refusals)
    BY <1>1, ApplyResult
  <2>2. /\ pc[d] = "deciding" /\ pc' = [pc EXCEPT ![d] = "saving"]
        /\ tms' \in {tms, tms + 1} /\ UNCHANGED <<action, jobs, store, history>>
    BY <1>1, ApplyResult
  <2> QED BY <2>1, <2>2, Apart, RunValues
      DEF OneWorkflow, Working, Reading, TypeOK,
          Move, Outage, requests, jobs, store, history, Deciding, Resting
<1>2. ASSUME NEW s \in Submitters, Work(s) PROVE OneWorkflow'
  <2>1. PICK r \in Runs :
          /\ result' = [result EXCEPT ![s] = r]
          /\ r.stage = "quoted" /\ (r.required => tms' = tms)
    BY <1>2, WorkResult
  <2>2. /\ job[s] = "running" /\ job' = [job EXCEPT ![s] = "returned"]
        /\ tms' \in {tms, tms + 1} /\ UNCHANGED <<requests, store, history>>
    BY <1>2, WorkResult
  <2> QED BY <2>1, <2>2, Apart, RunValues
      DEF OneWorkflow, Working, Reading, TypeOK,
          Move, Outage, requests, jobs, store, history, Deciding, Resting
<1> USE DEF OneWorkflow, Working, Reading, TypeOK, Move,
        Outage, requests, jobs, store, history, Deciding, Resting
<1>3. ASSUME NEW s \in Submitters, Submit(s) PROVE OneWorkflow'
  BY <1>3, Apart, RunValues DEF Submit, IsNew
<1>4. ASSUME NEW s \in Submitters, AnswerAtOnce(s) PROVE OneWorkflow'
  BY <1>4, Apart, RunValues DEF AnswerAtOnce
<1>5. ASSUME NEW s \in Submitters, StartFails(s) PROVE OneWorkflow'
  BY <1>5, Apart, RunValues DEF StartFails
<1>6. ASSUME NEW s \in Submitters, Queue(s) PROVE OneWorkflow'
  BY <1>6, Apart, RunValues DEF Queue
<1>7. ASSUME NEW s \in Submitters, QueueFails(s) PROVE OneWorkflow'
  BY <1>7, Apart, RunValues DEF QueueFails
<1>8. ASSUME NEW s \in Submitters, WorkFails(s) PROVE OneWorkflow'
  BY <1>8, Apart, RunValues DEF WorkFails
<1>9. ASSUME NEW s \in Submitters, SaveResult(s) PROVE OneWorkflow'
  BY <1>9, Apart, RunValues DEF SaveResult
<1>10. ASSUME NEW s \in Submitters, SaveFailure(s) PROVE OneWorkflow'
  BY <1>10, Apart, RunValues DEF SaveFailure, FailureSaved
<1>11. ASSUME NEW s \in Submitters, SaveResultFails(s) PROVE OneWorkflow'
  BY <1>11, Apart, RunValues DEF SaveResultFails
<1>12. ASSUME NEW s \in Submitters, SaveFailureFails(s) PROVE OneWorkflow'
  BY <1>12, Apart, RunValues DEF SaveFailureFails, Die, FailureSaved
<1>13. ASSUME NEW d \in Deciders, ReadRun(d) PROVE OneWorkflow'
  BY <1>13, Apart, RunValues DEF ReadRun
<1>14. ASSUME NEW d \in Deciders, RefuseDecision(d) PROVE OneWorkflow'
  BY <1>14, Apart, RunValues DEF RefuseDecision
<1>15. ASSUME NEW d \in Deciders, SaveRun(d) PROVE OneWorkflow'
  BY <1>15, Apart, RunValues DEF SaveRun
<1>16. ASSUME NEW d \in Deciders, SaveRunFails(d) PROVE OneWorkflow'
  BY <1>16, Apart, RunValues DEF SaveRunFails
<1>17. ASSUME NEW d \in Deciders, SaveDecision(d) PROVE OneWorkflow'
  BY <1>17, Apart, RunValues DEF SaveDecision
<1>18. ASSUME NEW d \in Deciders, SaveDecisionFails(d) PROVE OneWorkflow'
  BY <1>18, Apart, RunValues DEF SaveDecisionFails
<1>19. ASSUME Crash PROVE OneWorkflow'
  BY <1>19, Apart, RunValues DEF Crash, Die
<1>20. ASSUME UNCHANGED vars PROVE OneWorkflow'
  BY <1>20 DEF vars
<1> QED BY <1>1, <1>2, <1>3, <1>4, <1>5, <1>6, <1>7, <1>8, <1>9, <1>10, <1>11,
           <1>12, <1>13, <1>14, <1>15, <1>16, <1>17, <1>18, <1>19, <1>20
        DEF Next, Background

(* The one workflow writes at most once, before it returns; the row says   *)
(* quoted only after that.                                                 *)
LEMMA WrittenStep ==
  ASSUME TypeOK, TypeOK', ~ overlapped', ~ overlapped, OneWorkflow, OneWorkflow',
         Undecided, Undecided', WrittenSoFar, [Next]_vars
  PROVE  WrittenSoFar'
<1>1. ASSUME NEW d \in Deciders, Apply(d) PROVE WrittenSoFar'
  <2>1. PICK r \in Runs :
          /\ snapshot' = [snapshot EXCEPT ![d] = r] /\ r.stage = snapshot[d].stage
          /\ r.stage = "quoted" => (r.required <=> action[d] \in Refusals)
    BY <1>1, ApplyResult
  <2>2. /\ pc[d] = "deciding" /\ pc' = [pc EXCEPT ![d] = "saving"]
        /\ tms' \in {tms, tms + 1} /\ UNCHANGED <<action, jobs, store, history>>
    BY <1>1, ApplyResult
  <2> QED BY <2>1, <2>2, Apart, RunValues
      DEF WrittenSoFar, Undecided, OneWorkflow, Working, TypeOK,
          Move, Outage, requests, jobs, store, history, Deciding, Resting
<1>2. ASSUME NEW s \in Submitters, Work(s) PROVE WrittenSoFar'
  <2>1. PICK r \in Runs :
          /\ result' = [result EXCEPT ![s] = r]
          /\ r.stage = "quoted" /\ (r.required => tms' = tms)
    BY <1>2, WorkResult
  <2>2. /\ job[s] = "running" /\ job' = [job EXCEPT ![s] = "returned"]
        /\ tms' \in {tms, tms + 1} /\ UNCHANGED <<requests, store, history>>
    BY <1>2, WorkResult
  <2> QED BY <2>1, <2>2, Apart, RunValues
      DEF WrittenSoFar, Undecided, OneWorkflow, Working, TypeOK,
          Move, Outage, requests, jobs, store, history, Deciding, Resting
<1> USE DEF WrittenSoFar, Undecided, OneWorkflow, Working, TypeOK, Move,
        Outage, requests, jobs, store, history, Deciding, Resting
<1>3. ASSUME NEW s \in Submitters, Submit(s) PROVE WrittenSoFar'
  BY <1>3, Apart, RunValues DEF Submit, IsNew
<1>4. ASSUME NEW s \in Submitters, AnswerAtOnce(s) PROVE WrittenSoFar'
  BY <1>4, Apart, RunValues DEF AnswerAtOnce
<1>5. ASSUME NEW s \in Submitters, StartFails(s) PROVE WrittenSoFar'
  BY <1>5, Apart, RunValues DEF StartFails
<1>6. ASSUME NEW s \in Submitters, Queue(s) PROVE WrittenSoFar'
  BY <1>6, Apart, RunValues DEF Queue
<1>7. ASSUME NEW s \in Submitters, QueueFails(s) PROVE WrittenSoFar'
  BY <1>7, Apart, RunValues DEF QueueFails
<1>8. ASSUME NEW s \in Submitters, WorkFails(s) PROVE WrittenSoFar'
  BY <1>8, Apart, RunValues DEF WorkFails
<1>9. ASSUME NEW s \in Submitters, SaveResult(s) PROVE WrittenSoFar'
  BY <1>9, Apart, RunValues DEF SaveResult
<1>10. ASSUME NEW s \in Submitters, SaveFailure(s) PROVE WrittenSoFar'
  BY <1>10, Apart, RunValues DEF SaveFailure, FailureSaved
<1>11. ASSUME NEW s \in Submitters, SaveResultFails(s) PROVE WrittenSoFar'
  BY <1>11, Apart, RunValues DEF SaveResultFails
<1>12. ASSUME NEW s \in Submitters, SaveFailureFails(s) PROVE WrittenSoFar'
  BY <1>12, Apart, RunValues DEF SaveFailureFails, Die, FailureSaved
<1>13. ASSUME NEW d \in Deciders, ReadRun(d) PROVE WrittenSoFar'
  BY <1>13, Apart, RunValues DEF ReadRun
<1>14. ASSUME NEW d \in Deciders, RefuseDecision(d) PROVE WrittenSoFar'
  BY <1>14, Apart, RunValues DEF RefuseDecision
<1>15. ASSUME NEW d \in Deciders, SaveRun(d) PROVE WrittenSoFar'
  BY <1>15, Apart, RunValues DEF SaveRun
<1>16. ASSUME NEW d \in Deciders, SaveRunFails(d) PROVE WrittenSoFar'
  BY <1>16, Apart, RunValues DEF SaveRunFails
<1>17. ASSUME NEW d \in Deciders, SaveDecision(d) PROVE WrittenSoFar'
  BY <1>17, Apart, RunValues DEF SaveDecision
<1>18. ASSUME NEW d \in Deciders, SaveDecisionFails(d) PROVE WrittenSoFar'
  BY <1>18, Apart, RunValues DEF SaveDecisionFails
<1>19. ASSUME Crash PROVE WrittenSoFar'
  BY <1>19, Apart, RunValues DEF Crash, Die
<1>20. ASSUME UNCHANGED vars PROVE WrittenSoFar'
  BY <1>20 DEF vars
<1> QED BY <1>1, <1>2, <1>3, <1>4, <1>5, <1>6, <1>7, <1>8, <1>9, <1>10, <1>11,
           <1>12, <1>13, <1>14, <1>15, <1>16, <1>17, <1>18, <1>19, <1>20
        DEF Next, Background

(* A decision reads the run when no other is under way and the workflow    *)
(* has saved, so the row it saves is the row it read, decided.             *)
LEMMA DecisionStep ==
  ASSUME TypeOK, TypeOK', ~ overlapped', Undisturbed', Undisturbed, OneWorkflow, OneWorkflow',
         OneDecision, [Next]_vars
  PROVE  OneDecision'
<1>1. ASSUME NEW d \in Deciders, Apply(d) PROVE OneDecision'
  <2>1. PICK r \in Runs :
          /\ snapshot' = [snapshot EXCEPT ![d] = r] /\ r.stage = snapshot[d].stage
          /\ r.stage = "quoted" => (r.required <=> action[d] \in Refusals)
    BY <1>1, ApplyResult
  <2>2. /\ pc[d] = "deciding" /\ pc' = [pc EXCEPT ![d] = "saving"]
        /\ tms' \in {tms, tms + 1} /\ UNCHANGED <<action, jobs, store, history>>
    BY <1>1, ApplyResult
  <2> QED BY <2>1, <2>2, Apart, RunValues
      DEF OneDecision, Undisturbed, OneWorkflow, Working, Reading, TypeOK,
          Move, Outage, requests, jobs, store, history, Deciding, Resting
<1>2. ASSUME NEW s \in Submitters, Work(s) PROVE OneDecision'
  <2>1. PICK r \in Runs :
          /\ result' = [result EXCEPT ![s] = r]
          /\ r.stage = "quoted" /\ (r.required => tms' = tms)
    BY <1>2, WorkResult
  <2>2. /\ job[s] = "running" /\ job' = [job EXCEPT ![s] = "returned"]
        /\ tms' \in {tms, tms + 1} /\ UNCHANGED <<requests, store, history>>
    BY <1>2, WorkResult
  <2> QED BY <2>1, <2>2, Apart, RunValues
      DEF OneDecision, Undisturbed, OneWorkflow, Working, Reading, TypeOK,
          Move, Outage, requests, jobs, store, history, Deciding, Resting
<1> USE DEF OneDecision, Undisturbed, OneWorkflow, Working, Reading, TypeOK, Move,
        Outage, requests, jobs, store, history, Deciding, Resting
<1>3. ASSUME NEW s \in Submitters, Submit(s) PROVE OneDecision'
  BY <1>3, Apart, RunValues DEF Submit, IsNew
<1>4. ASSUME NEW s \in Submitters, AnswerAtOnce(s) PROVE OneDecision'
  BY <1>4, Apart, RunValues DEF AnswerAtOnce
<1>5. ASSUME NEW s \in Submitters, StartFails(s) PROVE OneDecision'
  BY <1>5, Apart, RunValues DEF StartFails
<1>6. ASSUME NEW s \in Submitters, Queue(s) PROVE OneDecision'
  BY <1>6, Apart, RunValues DEF Queue
<1>7. ASSUME NEW s \in Submitters, QueueFails(s) PROVE OneDecision'
  BY <1>7, Apart, RunValues DEF QueueFails
<1>8. ASSUME NEW s \in Submitters, WorkFails(s) PROVE OneDecision'
  BY <1>8, Apart, RunValues DEF WorkFails
<1>9. ASSUME NEW s \in Submitters, SaveResult(s) PROVE OneDecision'
  BY <1>9, Apart, RunValues DEF SaveResult
<1>10. ASSUME NEW s \in Submitters, SaveFailure(s) PROVE OneDecision'
  BY <1>10, Apart, RunValues DEF SaveFailure, FailureSaved
<1>11. ASSUME NEW s \in Submitters, SaveResultFails(s) PROVE OneDecision'
  BY <1>11, Apart, RunValues DEF SaveResultFails
<1>12. ASSUME NEW s \in Submitters, SaveFailureFails(s) PROVE OneDecision'
  BY <1>12, Apart, RunValues DEF SaveFailureFails, Die, FailureSaved
<1>13. ASSUME NEW d \in Deciders, ReadRun(d) PROVE OneDecision'
  <2>1. row.stage = "quoted" /\ \A e \in Deciders : pc[e] \notin Deciding
    BY <1>13 DEF ReadRun
  <2>2. PICK a \in Actions : action' = [action EXCEPT ![d] = a]
    BY <1>13 DEF ReadRun
  <2> QED BY <1>13, <2>1, <2>2, Apart, RunValues DEF ReadRun
<1>14. ASSUME NEW d \in Deciders, RefuseDecision(d) PROVE OneDecision'
  BY <1>14, Apart, RunValues DEF RefuseDecision
<1>15. ASSUME NEW d \in Deciders, SaveRun(d) PROVE OneDecision'
  BY <1>15, Apart, RunValues DEF SaveRun
<1>16. ASSUME NEW d \in Deciders, SaveRunFails(d) PROVE OneDecision'
  BY <1>16, Apart, RunValues DEF SaveRunFails
<1>17. ASSUME NEW d \in Deciders, SaveDecision(d) PROVE OneDecision'
  BY <1>17, Apart, RunValues DEF SaveDecision
<1>18. ASSUME NEW d \in Deciders, SaveDecisionFails(d) PROVE OneDecision'
  BY <1>18, Apart, RunValues DEF SaveDecisionFails
<1>19. ASSUME Crash PROVE OneDecision'
  BY <1>19, Apart, RunValues DEF Crash, Die
<1>20. ASSUME UNCHANGED vars PROVE OneDecision'
  BY <1>20 DEF vars
<1> QED BY <1>1, <1>2, <1>3, <1>4, <1>5, <1>6, <1>7, <1>8, <1>9, <1>10, <1>11,
           <1>12, <1>13, <1>14, <1>15, <1>16, <1>17, <1>18, <1>19, <1>20
        DEF Next, Background

(* What has happened stays so.                                             *)
LEMMA HistoryGrows ==
  ASSUME TypeOK, [Next]_vars
  PROVE  /\ ~ overlapped' => ~ overlapped
         /\ Undisturbed' => Undisturbed
         /\ Undecided' => Undecided
<1> DEFINE More == /\ overlapped => overlapped'
                   /\ early => early'
                   /\ outage => outage'
                   /\ contested => contested'
                   /\ \A d \in Deciders : action'[d] = None => action[d] = None
<1> USE DEF TypeOK, vars, requests, jobs, store, history, Outage, Die
<1>1. ASSUME NEW s \in Submitters,
             \/ Submit(s) \/ AnswerAtOnce(s) \/ StartFails(s) \/ Queue(s) \/ QueueFails(s)
      PROVE  More
  BY <1>1 DEF Submit, AnswerAtOnce, StartFails, Queue, QueueFails
<1>2. ASSUME NEW s \in Submitters,
             Background(s) \/ SaveResultFails(s) \/ SaveFailureFails(s)
      PROVE  More
  BY <1>2 DEF Background, Work, WorkFails, SaveResult, SaveFailure, SaveResultFails,
     SaveFailureFails
<1>3. ASSUME NEW d \in Deciders, ReadRun(d) PROVE More
  <2>1. PICK a \in Actions : action' = [action EXCEPT ![d] = a]
    BY <1>3 DEF ReadRun
  <2> QED BY <1>3, <2>1, Apart DEF ReadRun
<1>4. ASSUME NEW d \in Deciders,
             \/ RefuseDecision(d) \/ Apply(d) \/ SaveRun(d) \/ SaveRunFails(d)
             \/ SaveDecision(d) \/ SaveDecisionFails(d)
      PROVE  More
  BY <1>4 DEF RefuseDecision, Apply, SaveRun, SaveRunFails, SaveDecision,
     SaveDecisionFails
<1>5. ASSUME Crash \/ UNCHANGED vars PROVE More
  BY <1>5 DEF Crash
<1>6. More
  BY <1>1, <1>2, <1>3, <1>4, <1>5 DEF Next
<1> QED BY <1>6 DEF Undisturbed, Undecided

LEMMA InitInv == Init => IInv
<1> SUFFICES ASSUME Init PROVE IInv
  OBVIOUS
<1>1. TypeOK
  BY Apart, RunValues DEF Init, TypeOK, Deciding
<1>2. OneWorkflow
  BY Apart DEF Init, OneWorkflow, Working, Reading, Requests
<1>3. WrittenSoFar
  BY RunValues DEF Init, WrittenSoFar, Working
<1>4. OneDecision
  BY Apart, RunValues DEF Init, OneDecision, Reading, Deciding, Requests
<1> QED BY <1>1, <1>2, <1>3, <1>4 DEF IInv

LEMMA StepInv == IInv /\ [Next]_vars => IInv'
<1> SUFFICES ASSUME IInv, [Next]_vars PROVE IInv'
  OBVIOUS
<1>1. TypeOK /\ TypeOK'
  BY TypeStep DEF IInv
<1>2. ~ overlapped' => OneWorkflow'
  BY <1>1, HistoryGrows, OneWorkflowStep DEF IInv
<1>3. ~ overlapped' /\ Undecided' => WrittenSoFar'
  BY <1>1, <1>2, HistoryGrows, WrittenStep DEF IInv
<1>4. Undisturbed' => OneDecision'
  BY <1>1, <1>2, HistoryGrows, DecisionStep DEF IInv, Undisturbed
<1> QED BY <1>1, <1>2, <1>3, <1>4 DEF IInv

(* However many submissions of one run id come, one after the other and    *)
(* across failures and a restart, the TMS gets at most the one batch of    *)
(* one workflow, and none for a quote that waits for a review              *)
(* (POST /api/playground/rfqs, executeWorkflowRun).                        *)
THEOREM WorkflowWritesOnce == Spec => []WrittenAsReviewed
<1>1. IInv => WrittenAsReviewed
  BY DEF IInv, WrittenSoFar, Undecided, WrittenAsReviewed, TypeOK
<1> QED BY <1>1, InitInv, StepInv, PTL DEF Spec

(* A decision on a quote, by itself and with saves that work, leaves a run *)
(* that says what the recorded decision says: no workflow that is still    *)
(* under way can put its own result over it (decideApproval).              *)
THEOREM DecisionStays == Spec => []DecisionMatchesRun
<1>1. IInv => DecisionMatchesRun
  BY DEF IInv, OneDecision, DecisionMatchesRun
<1> QED BY <1>1, InitInv, StepInv, PTL DEF Spec

-----------------------------------------------------------------------------
(* The gateway                                                             *)

Names == DOMAIN Connection

AnswerFields == {"from", "found", "version", "loaded", "stored"}
ReadFields   == {"pc", "op", "entity", "via", "answer", "at"}
WriteFields  == {"pc", "op", "engine", "attempt", "todo", "via", "status"}

Shaped(r, fields) == DOMAIN r = fields /\ r = [f \in fields |-> r[f]]

GatewayTypeOK ==
  /\ setup \in Setups /\ clock \in Nat
  /\ settings \in Names /\ adapter \in Names \cup {Unloaded, Rejected}
  /\ asked \in [Names -> Nat] /\ \A k \in Names : asked[k] <= clock
  /\ changed \in [Systems -> Seq(Nat)]
  /\ tail \in [Systems -> BOOLEAN] /\ cuts \in Nat
  /\ DOMAIN call = Callers

(* An answer that can be given at t, when q says when each connection was  *)
(* last asked and g when each TMS changed: it was loaded before the        *)
(* connection was last asked, and before the TMS said anything else.       *)
AnswerOK(a, t, q, g) ==
  /\ Shaped(a, AnswerFields)
  /\ a.from \in Names /\ a.version \in Nat /\ a.loaded \in Nat /\ a.stored \in Nat
  /\ a.loaded <= a.stored /\ a.stored <= t /\ a.loaded <= q[a.from]
  /\ LET times == g[Connection[a.from].system]
     IN  /\ a.version <= Len(times)
         /\ a.version < Len(times) => a.loaded <= times[a.version + 1]

EntryOK(x, t, q, g) ==
  /\ x.entity \in Entities /\ AnswerOK(x.answer, t, q, g)
  /\ x.expires = x.answer.stored + Ttl[x.entity]

CacheOK ==
  /\ DOMAIN cache = TierNames
  /\ \A tier \in TierNames : \A x \in cache[tier] :
       EntryOK(x, clock, asked, changed)

ReadOK(r, t, q, g) ==
  /\ Shaped(r, ReadFields) /\ r.op = "read" /\ r.entity \in Entities
  /\ r.pc \in {"adapter", "make", "get", "load", "store", "done", "failed"}
  /\ r.pc \in {"get", "load", "store"} => r.via \in Names
  /\ r.pc \in {"store", "done"} => AnswerOK(r.answer, t, q, g)
  /\ r.pc = "done" => r.at \in Nat /\ r.at <= r.answer.stored + Ttl[r.entity]

WriteOK(r) ==
  /\ Shaped(r, WriteFields) /\ r.op = "write"
  /\ r.pc \in {"adapter", "make", "write", "done", "failed"}
  /\ r.pc = "write" => r.via \in Names

CallOK(r, t, q, g) == r = Idle \/ ReadOK(r, t, q, g) \/ WriteOK(r)

CallsOK == \A c \in Callers : CallOK(call[c], clock, asked, changed)

Lost  == {q \in reported : \A s \in Systems : <<s, q>> \notin recorded}
Tails == {s \in Systems : tail[s]}

LossOK ==
  /\ IsFiniteSet(Lost) /\ IsFiniteSet(Tails)
  /\ Cardinality(Lost) + Cardinality(Tails) <= cuts

GatewayInv == GatewayTypeOK /\ CacheOK /\ CallsOK /\ LossOK

-----------------------------------------------------------------------------
(* What time and the TMSs do to what was answered                          *)

Grows ==
  /\ clock' \in Nat /\ clock <= clock'
  /\ asked' \in [Names -> Nat] /\ \A k \in Names : asked[k] <= asked'[k]
  /\ \A s \in Systems : \/ changed'[s] = changed[s]
                        \/ changed'[s] = Append(changed[s], clock)

LEMMA ClockAppend ==
  ASSUME NEW times \in Seq(Nat), NEW t \in Nat
  PROVE  /\ Len(Append(times, t)) = Len(times) + 1 /\ Len(times) \in Nat
         /\ \A i \in 1 .. Len(times) : Append(times, t)[i] = times[i]
         /\ Append(times, t)[Len(times) + 1] = t
  OBVIOUS

(* An answer stays one that can be given: whatever the TMS says later, it  *)
(* says after the answer was loaded.                                       *)
LEMMA AnswerLasts ==
  ASSUME GatewayTypeOK, Grows, NEW a, AnswerOK(a, clock, asked, changed)
  PROVE  AnswerOK(a, clock', asked', changed')
<1> DEFINE s == Connection[a.from].system
<1>1. s \in Systems /\ changed[s] \in Seq(Nat)
  BY ConnectionAssumption DEF AnswerOK, GatewayTypeOK, Names
<1>2. a.stored <= clock' /\ a.loaded <= asked'[a.from]
  BY DEF AnswerOK, Grows, GatewayTypeOK
<1>3. /\ a.version <= Len(changed'[s])
      /\ a.version < Len(changed'[s]) => a.loaded <= changed'[s][a.version + 1]
  <2>1. CASE changed'[s] = changed[s]
    BY <2>1 DEF AnswerOK
  <2>2. CASE changed'[s] = Append(changed[s], clock)
    <3>1. /\ Len(changed'[s]) = Len(changed[s]) + 1 /\ Len(changed[s]) \in Nat
          /\ \A i \in 1 .. Len(changed[s]) : changed'[s][i] = changed[s][i]
          /\ changed'[s][Len(changed[s]) + 1] = clock
      BY <1>1, <2>2, ClockAppend DEF GatewayTypeOK
    <3>2. /\ a.version <= Len(changed[s]) /\ a.version \in Nat /\ a.loaded <= clock
          /\ a.version < Len(changed[s]) => a.loaded <= changed[s][a.version + 1]
      BY DEF AnswerOK, GatewayTypeOK
    <3>3. CASE a.version < Len(changed[s])
      <4>1. a.version + 1 \in 1 .. Len(changed[s])
        BY <3>1, <3>2, <3>3
      <4>2. QED BY <3>1, <3>2, <3>3, <4>1
    <3>4. CASE a.version = Len(changed[s])
      <4>1. changed'[s][a.version + 1] = clock
        BY <3>1, <3>4
      <4>2. a.version <= Len(changed'[s])
        BY <3>1, <3>4
      <4>3. QED BY <3>2, <4>1, <4>2
    <3>5. QED BY <3>1, <3>2, <3>3, <3>4
  <2>3. QED BY <1>1, <2>1, <2>2 DEF Grows
<1>4. QED BY <1>2, <1>3 DEF AnswerOK

LEMMA EntryLasts ==
  ASSUME GatewayTypeOK, Grows, NEW x, EntryOK(x, clock, asked, changed)
  PROVE  EntryOK(x, clock', asked', changed')
BY AnswerLasts DEF EntryOK

LEMMA CallLasts ==
  ASSUME GatewayTypeOK, Grows, NEW r, CallOK(r, clock, asked, changed)
  PROVE  CallOK(r, clock', asked', changed')
BY AnswerLasts DEF CallOK, ReadOK

(* One call moves, and to where a call may be.                             *)
LEMMA CallMoves ==
  ASSUME GatewayTypeOK, CallsOK, Grows, NEW c \in Callers, NEW r, Becomes(c, r),
         CallOK(r, clock', asked', changed')
  PROVE  CallsOK' /\ DOMAIN call' = Callers
<1>1. \A d \in Callers : call'[d] = IF d = c THEN r ELSE call[d]
  BY DEF Becomes, GatewayTypeOK
<1>2. \A d \in Callers : CallOK(call'[d], clock', asked', changed')
  BY <1>1, CallLasts DEF CallsOK
<1>3. QED BY <1>2 DEF CallsOK, Becomes, GatewayTypeOK

LEMMA CacheLasts ==
  ASSUME GatewayTypeOK, CacheOK, Grows,
         \/ UNCHANGED cache
         \/ /\ DOMAIN cache' = TierNames
            /\ \A tier \in TierNames : cache'[tier] \subseteq cache[tier]
  PROVE  CacheOK'
<1>1. \A tier \in TierNames : \A x \in cache'[tier] :
        EntryOK(x, clock', asked', changed')
  BY EntryLasts DEF CacheOK
<1>2. QED BY <1>1 DEF CacheOK

LEMMA Still ==
  ASSUME GatewayTypeOK, UNCHANGED <<clock, asked, changed>>
  PROVE  Grows
BY DEF GatewayTypeOK, Grows

(* The moves of a read and of a write.                                     *)
LEMMA GoMoves ==
  ASSUME GatewayTypeOK, CallsOK, NEW c \in Callers, NEW place, Go(c, place),
         UNCHANGED <<clock, asked, changed>>,
         \/ call[c].op = "read" /\ place \in {"make", "failed"} /\ ~ At(c, "idle")
         \/ At(c, "get") /\ place = "load"
         \/ call[c].op = "write" /\ place \in {"make", "failed"}
  PROVE  CallsOK' /\ DOMAIN call' = Callers
<1> DEFINE r == [call[c] EXCEPT !.pc = place]
<1>1. CallOK(r, clock, asked, changed)
  <2>1. CallOK(call[c], clock, asked, changed) /\ call[c] # Idle
    BY DEF CallsOK, CallOK, At, Idle, WriteOK
  <2>2. CASE ReadOK(call[c], clock, asked, changed)
    <3>1. Shaped(r, ReadFields) /\ r.op = "read" /\ r.entity = call[c].entity
          /\ r.pc = place /\ r.via = call[c].via
      BY <2>2 DEF ReadOK, Shaped, ReadFields
    <3>2. r.pc = "load" => r.via \in Names
      BY <2>2, <3>1 DEF ReadOK, At
    <3>3. QED BY <2>2, <3>1, <3>2 DEF CallOK, ReadOK
  <2>3. CASE WriteOK(call[c])
    <3>1. Shaped(r, WriteFields) /\ r.op = "write" /\ r.pc = place
          /\ place \in {"make", "failed"}
      BY <2>3 DEF WriteOK, Shaped, WriteFields, At
    <3>2. QED BY <3>1 DEF CallOK, WriteOK
  <2>4. QED BY <2>1, <2>2, <2>3 DEF CallOK
<1>2. Becomes(c, r)
  BY DEF Go
<1>3. QED BY <1>1, <1>2, CallMoves, Still

LEMMA AdapterMoves ==
  ASSUME GatewayTypeOK, CallsOK, NEW c \in Callers, NEW k \in Names,
         At(c, "adapter") \/ At(c, "make"),
         Becomes(c, [call[c] EXCEPT !.via = k,
                       !.pc = IF IsWrite(c) THEN "write" ELSE "get"]),
         UNCHANGED <<clock, asked, changed>>
  PROVE  CallsOK' /\ DOMAIN call' = Callers
<1> DEFINE r == [call[c] EXCEPT !.via = k,
                   !.pc = IF IsWrite(c) THEN "write" ELSE "get"]
<1>1. CallOK(r, clock, asked, changed)
  <2>1. CallOK(call[c], clock, asked, changed) /\ call[c] # Idle
    BY DEF CallsOK, At, Idle
  <2>2. CASE ReadOK(call[c], clock, asked, changed)
    <3>1. Shaped(r, ReadFields) /\ r.op = "read" /\ r.entity = call[c].entity
          /\ r.pc = "get" /\ r.via = k
      BY <2>2 DEF ReadOK, Shaped, ReadFields, IsWrite
    <3>2. QED BY <2>2, <3>1 DEF CallOK, ReadOK
  <2>3. CASE WriteOK(call[c])
    <3>1. Shaped(r, WriteFields) /\ r.op = "write" /\ r.pc = "write" /\ r.via = k
      BY <2>3 DEF WriteOK, Shaped, WriteFields, IsWrite
    <3>2. QED BY <2>3, <3>1 DEF CallOK, WriteOK
  <2>4. QED BY <2>1, <2>2, <2>3 DEF CallOK
<1>2. QED BY <1>1, CallMoves, Still

LEMMA ReturnMoves ==
  ASSUME GatewayTypeOK, CallsOK, NEW c \in Callers, NEW status, Returned(c, status),
         call[c].op = "write", UNCHANGED <<clock, asked, changed>>
  PROVE  CallsOK' /\ DOMAIN call' = Callers
<1>1. WriteOK(call[c])
  BY DEF CallsOK, CallOK, ReadOK, Idle
<1> DEFINE statuses == Append(call[c].status, status)
<1>2. PICK p \in {"adapter", "done", "failed"} :
        Becomes(c, [call[c] EXCEPT !.status = statuses, !.todo = Tail(@),
                                   !.via = Unloaded, !.pc = p])
  BY DEF Returned
<1> DEFINE r == [call[c] EXCEPT !.status = statuses, !.todo = Tail(@),
                                !.via = Unloaded, !.pc = p]
<1>3. WriteOK(r)
  BY <1>1 DEF WriteOK, Shaped, WriteFields
<1>4. QED BY <1>2, <1>3, CallMoves, Still DEF CallOK

LEMMA ThrowMoves ==
  ASSUME GatewayTypeOK, CallsOK, NEW c \in Callers, Threw(c),
         call[c].op = "write", UNCHANGED <<clock, asked, changed>>
  PROVE  CallsOK' /\ DOMAIN call' = Callers
<1>1. CASE Go(c, "failed")
  BY <1>1, GoMoves
<1>2. CASE Returned(c, "failed")
  BY <1>2, ReturnMoves
<1>3. QED BY <1>1, <1>2 DEF Threw

LEMMA AnsweredMoves ==
  ASSUME GatewayTypeOK, CallsOK, NEW c \in Callers, NEW a, Answered(c, a), Grows,
         ReadOK(call[c], clock, asked, changed), clock' = clock,
         AnswerOK(a, clock', asked', changed'),
         clock <= a.stored + Ttl[call[c].entity]
  PROVE  CallsOK' /\ DOMAIN call' = Callers
<1> DEFINE r == [call[c] EXCEPT !.answer = a, !.at = clock, !.via = Unloaded,
                                !.pc = "done"]
<1>1. Shaped(r, ReadFields) /\ r.op = "read" /\ r.entity = call[c].entity
      /\ r.pc = "done" /\ r.answer = a /\ r.at = clock
  BY DEF ReadOK, Shaped, ReadFields
<1>2. CallOK(r, clock', asked', changed')
  BY <1>1 DEF CallOK, ReadOK, GatewayTypeOK
<1>3. QED BY <1>2, CallMoves DEF Answered

-----------------------------------------------------------------------------
(* The losses: a quote that was reported and is nowhere, and a file that   *)
(* ends within a line, are each paid for by an append that was cut short.  *)

LEMMA OneMore ==
  ASSUME NEW S, NEW x, IsFiniteSet(S)
  PROVE  /\ IsFiniteSet(S \cup {x}) /\ Cardinality(S) \in Nat
         /\ Cardinality(S \cup {x}) \in Nat
         /\ Cardinality(S \cup {x}) <= Cardinality(S) + 1
<1>1. /\ Cardinality(S) \in Nat /\ IsFiniteSet(S \cup {x})
      /\ Cardinality(S \cup {x}) =
           IF x \in S THEN Cardinality(S) ELSE Cardinality(S) + 1
  BY FS_AddElement, FS_CardinalityType
<1>2. QED BY <1>1

LEMMA SameLoss ==
  ASSUME GatewayTypeOK, LossOK, UNCHANGED <<tail, cuts>>, recorded \subseteq recorded',
         \/ UNCHANGED reported
         \/ \E q : /\ reported' \subseteq reported \cup {q}
                  /\ \E s \in Systems : <<s, q>> \in recorded'
  PROVE  LossOK'
<1>1. Lost' \subseteq Lost /\ Tails' = Tails /\ cuts' = cuts
  BY DEF Lost, Tails
<1>2. IsFiniteSet(Lost') /\ Cardinality(Lost') <= Cardinality(Lost)
  BY <1>1, FS_Subset DEF LossOK
<1>3. /\ Cardinality(Lost) \in Nat /\ Cardinality(Lost') \in Nat
      /\ Cardinality(Tails) \in Nat
  BY <1>2, FS_CardinalityType DEF LossOK
<1>4. QED BY <1>1, <1>2, <1>3 DEF LossOK, GatewayTypeOK

LEMMA AppendLoss ==
  ASSUME GatewayTypeOK, LossOK, NEW s \in Systems, NEW q, AppendLine(s, q),
         reported' = reported \cup {q}, UNCHANGED cuts
  PROVE  LossOK'
<1>1. CASE ~ tail[s]
  <2>1. tail' = tail
    BY <1>1 DEF AppendLine, GatewayTypeOK
  <2>2. recorded \subseteq recorded' /\ <<s, q>> \in recorded'
    BY <1>1 DEF AppendLine
  <2>3. QED BY <2>1, <2>2, SameLoss
<1>2. CASE tail[s]
  <2>1. recorded' = recorded /\ cuts' = cuts
    BY <1>2 DEF AppendLine
  <2>2. Lost' \subseteq Lost \cup {q}
    BY <2>1 DEF Lost
  <2>3. Tails' = Tails \ {s} /\ s \in Tails
    BY <1>2 DEF AppendLine, GatewayTypeOK, Tails
  <2>4. /\ IsFiniteSet(Lost \cup {q})
        /\ Cardinality(Lost \cup {q}) <= Cardinality(Lost) + 1
        /\ Cardinality(Lost) \in Nat
    BY OneMore, FS_CardinalityType DEF LossOK
  <2>5. IsFiniteSet(Lost') /\ Cardinality(Lost') <= Cardinality(Lost \cup {q})
    BY <2>2, <2>4, FS_Subset
  <2>6. IsFiniteSet(Tails') /\ Cardinality(Tails') = Cardinality(Tails) - 1
    BY <2>3, FS_RemoveElement DEF LossOK
  <2>7. /\ Cardinality(Lost') \in Nat /\ Cardinality(Lost \cup {q}) \in Nat
        /\ Cardinality(Tails) \in Nat
    BY <2>4, <2>5, FS_CardinalityType DEF LossOK
  <2>8. QED BY <2>1, <2>4, <2>5, <2>6, <2>7 DEF LossOK, GatewayTypeOK
<1>3. QED BY <1>1, <1>2

LEMMA CutLoss ==
  ASSUME GatewayTypeOK, LossOK, NEW s \in Systems, tail' = [tail EXCEPT ![s] = TRUE],
         cuts' = cuts + 1, UNCHANGED <<recorded, reported>>
  PROVE  LossOK'
<1>1. Lost' = Lost /\ Tails' \subseteq Tails \cup {s}
  BY DEF Lost, Tails, GatewayTypeOK
<1>2. /\ IsFiniteSet(Tails \cup {s})
      /\ Cardinality(Tails \cup {s}) <= Cardinality(Tails) + 1
      /\ Cardinality(Tails) \in Nat /\ Cardinality(Lost) \in Nat
  BY OneMore, FS_CardinalityType DEF LossOK
<1>3. IsFiniteSet(Tails') /\ Cardinality(Tails') <= Cardinality(Tails \cup {s})
  BY <1>1, <1>2, FS_Subset
<1>4. Cardinality(Tails') \in Nat /\ Cardinality(Tails \cup {s}) \in Nat
  BY <1>2, <1>3, FS_CardinalityType
<1>5. QED BY <1>1, <1>2, <1>3, <1>4 DEF LossOK, GatewayTypeOK

-----------------------------------------------------------------------------
(* The steps that neither the TMSs nor their files see.                    *)

LEMMA Inside ==
  ASSUME GatewayInv, UNCHANGED <<setup, clock, systems, ghost>>, settings' \in Names,
         adapter' \in Names \cup {Unloaded, Rejected},
         CallsOK' /\ DOMAIN call' = Callers,
         \/ CacheOK' \/ UNCHANGED cache
         \/ /\ DOMAIN cache' = TierNames
            /\ \A tier \in TierNames : cache'[tier] \subseteq cache[tier]
  PROVE  GatewayInv'
<1>1. GatewayTypeOK'
  BY DEF GatewayInv, GatewayTypeOK, systems, ghost
<1>2. LossOK'
  BY SameLoss DEF GatewayInv, systems, ghost
<1>3. CacheOK'
  BY CacheLasts, Still DEF GatewayInv, systems
<1>4. QED BY <1>1, <1>2, <1>3 DEF GatewayInv

LEMMA ReadStep ==
  ASSUME GatewayInv, NEW c \in Callers, Read(c)
  PROVE  GatewayInv'
<1>1. PICK e \in setup.reads :
        Becomes(c, [pc |-> "adapter", op |-> "read", entity |-> e, via |-> Unloaded,
                    answer |-> Nothing, at |-> clock])
  BY DEF Read
<1> DEFINE r == [pc |-> "adapter", op |-> "read", entity |-> e, via |-> Unloaded,
                 answer |-> Nothing, at |-> clock]
<1>2. e \in Entities
  BY SetupsAssumption DEF GatewayInv, GatewayTypeOK
<1>3. ReadOK(r, clock, asked, changed)
  BY <1>2 DEF ReadOK, Shaped, ReadFields
<1>4. CallsOK' /\ DOMAIN call' = Callers
  BY <1>1, <1>3, CallMoves, Still DEF GatewayInv, Read, CallOK, systems
<1>5. QED BY <1>4, Inside DEF GatewayInv, GatewayTypeOK, Read, Process

LEMMA WritebackStep ==
  ASSUME GatewayInv, NEW c \in Callers, Writeback(c)
  PROVE  GatewayInv'
<1>1. PICK engine \in {"agent", "legacy"} :
        Becomes(c, [pc |-> "adapter", op |-> "write", engine |-> engine,
                    attempt |-> calls, todo |-> Lanes, via |-> Unloaded,
                    status |-> <<>>])
  BY DEF Writeback
<1> DEFINE r == [pc |-> "adapter", op |-> "write", engine |-> engine,
                 attempt |-> calls, todo |-> Lanes, via |-> Unloaded, status |-> <<>>]
<1>2. WriteOK(r)
  BY DEF WriteOK, Shaped, WriteFields
<1>3. CallsOK' /\ DOMAIN call' = Callers
  BY <1>1, <1>2, CallMoves, Still DEF GatewayInv, Writeback, CallOK, systems
<1>4. QED BY <1>3, Inside DEF GatewayInv, GatewayTypeOK, Writeback, Process

LEMMA AdapterSteps ==
  ASSUME GatewayInv, NEW c \in Callers, Remembered(c) \/ NotYet(c) \/ Make(c)
  PROVE  GatewayInv'
<1>1. CASE Remembered(c)
  <2>1. CallsOK' /\ DOMAIN call' = Callers
    BY <1>1, AdapterMoves
       DEF GatewayInv, GatewayTypeOK, Remembered, Count, systems
  <2>2. QED BY <1>1, <2>1, Inside
               DEF GatewayInv, GatewayTypeOK, Remembered, Process, Count
<1>2. CASE NotYet(c)
  <2>1. CallsOK' /\ DOMAIN call' = Callers
    <3>1. call[c].op = "read" \/ call[c].op = "write"
      BY DEF GatewayInv, CallsOK, CallOK, ReadOK, WriteOK, Idle
    <3>2. ~ At(c, "idle")
      BY <1>2 DEF NotYet, At
    <3>3. QED BY <1>2, <3>1, <3>2, GoMoves
                 DEF GatewayInv, NotYet, Count, systems
  <2>2. QED BY <1>2, <2>1, Inside
               DEF GatewayInv, GatewayTypeOK, NotYet, Process, Count
<1>3. CASE Make(c)
  <2>1. CallsOK' /\ DOMAIN call' = Callers
    BY <1>3, AdapterMoves DEF GatewayInv, GatewayTypeOK, Make, Count, systems
  <2>2. QED BY <1>3, <2>1, Inside DEF GatewayInv, GatewayTypeOK, Make, Count
<1>4. QED BY <1>1, <1>2, <1>3

LEMMA NoAdapterSteps ==
  ASSUME GatewayInv, NEW c \in Callers, CannotMake(c) \/ FailedBefore(c)
  PROVE  GatewayInv'
<1>1. NoAdapter(c) /\ (At(c, "make") \/ At(c, "adapter"))
      /\ adapter' \in Names \cup {Unloaded, Rejected}
  BY DEF CannotMake, FailedBefore, GatewayInv, GatewayTypeOK
<1>2. call[c] # Idle
  BY <1>1 DEF At, Idle
<1>3. CallsOK' /\ DOMAIN call' = Callers
  <2>1. CASE IsWrite(c)
    BY <1>1, <2>1, ThrowMoves DEF NoAdapter, Count, IsWrite, GatewayInv, systems
  <2>2. CASE ~ IsWrite(c)
    <3>1. call[c].op = "read"
      BY <2>2, <1>2 DEF GatewayInv, CallsOK, CallOK, ReadOK, WriteOK, IsWrite
    <3>2. ~ At(c, "idle")
      BY <1>1 DEF At
    <3>3. QED BY <1>1, <2>2, <3>1, <3>2, GoMoves
                 DEF NoAdapter, Count, GatewayInv, systems
  <2>3. QED BY <2>1, <2>2
<1>4. QED BY <1>1, <1>3, Inside DEF GatewayInv, GatewayTypeOK, NoAdapter, Count

LEMMA NotWiredStep ==
  ASSUME GatewayInv, NEW c \in Callers, NotWired(c)
  PROVE  GatewayInv'
<1>1. call[c].op = "write"
  BY DEF GatewayInv, CallsOK, CallOK, ReadOK, WriteOK, Idle, NotWired, At
<1>2. CallsOK' /\ DOMAIN call' = Callers
  BY <1>1, ThrowMoves, ReturnMoves DEF NotWired, Count, GatewayInv, systems
<1>3. QED BY <1>2, Inside
             DEF GatewayInv, GatewayTypeOK, NotWired, Count, Process

-----------------------------------------------------------------------------
(* The steps of a batch that is written.                                   *)

LEMMA Outside ==
  ASSUME GatewayInv, UNCHANGED <<setup, clock, changed, settings, asked, cache>>,
         adapter' \in {adapter, Unloaded},
         tail' \in [Systems -> BOOLEAN], cuts' \in Nat,
         CallsOK' /\ DOMAIN call' = Callers, LossOK'
  PROVE  GatewayInv'
<1>1. GatewayTypeOK'
  BY DEF GatewayInv, GatewayTypeOK
<1>2. CacheOK'
  BY CacheLasts, Still DEF GatewayInv
<1>3. QED BY <1>1, <1>2 DEF GatewayInv

LEMMA AtWrite ==
  ASSUME GatewayInv, NEW c \in Callers, At(c, "write")
  PROVE  call[c].op = "write" /\ Via(c).system \in Systems
<1>1. WriteOK(call[c])
  BY DEF GatewayInv, CallsOK, CallOK, ReadOK, Idle, At
<1>2. QED BY <1>1, ConnectionAssumption DEF WriteOK, At, Via, Names

LEMMA WriteFileStep ==
  ASSUME GatewayInv, NEW c \in Callers, WriteFile(c)
  PROVE  GatewayInv'
<1> DEFINE s == Via(c).system
           q == Quote(c)
<1>1. call[c].op = "write" /\ s \in Systems
  BY AtWrite DEF WriteFile, Writing
<1>2. CallsOK' /\ DOMAIN call' = Callers
  BY <1>1, ReturnMoves DEF WriteFile, Reports, GatewayInv, Count
<1>3. AppendLine(s, q) /\ reported' = reported \cup {q}
  BY DEF WriteFile, Reports, Successful
<1>4. LossOK'
  <2> HIDE DEF s, q
  <2>1. QED BY <1>1, <1>3, AppendLoss DEF GatewayInv, WriteFile
<1>5. tail' \in [Systems -> BOOLEAN]
  BY <1>3 DEF AppendLine, GatewayInv, GatewayTypeOK
<1>6. QED BY <1>2, <1>4, <1>5, Outside
             DEF WriteFile, Count, Process, GatewayInv, GatewayTypeOK

LEMMA WriteFileFailsStep ==
  ASSUME GatewayInv, NEW c \in Callers, WriteFileFails(c)
  PROVE  GatewayInv'
<1> DEFINE s == Via(c).system
<1>1. call[c].op = "write" /\ s \in Systems
  BY AtWrite DEF WriteFileFails, Writing
<1>2. CallsOK' /\ DOMAIN call' = Callers
  BY <1>1, ThrowMoves DEF WriteFileFails, GatewayInv, Count
<1>3. tail' = [tail EXCEPT ![s] = TRUE] /\ cuts' = cuts + 1
      /\ UNCHANGED <<recorded, reported>>
  BY DEF WriteFileFails
<1>4. LossOK'
  <2> HIDE DEF s
  <2>1. QED BY <1>1, <1>3, CutLoss DEF GatewayInv
<1>5. /\ tail' \in [Systems -> BOOLEAN]
      /\ cuts' \in Nat
  <2> HIDE DEF s
  <2>1. QED BY <1>1, <1>3 DEF GatewayInv, GatewayTypeOK
<1>6. QED BY <1>2, <1>4, <1>5, Outside DEF WriteFileFails, Count, Process

(* An SQL statement, an HTTP request, and either without an answer.        *)
LEMMA WriteServerSteps ==
  ASSUME GatewayInv, NEW c \in Callers,
         WriteSql(c) \/ WriteHttp(c) \/ WriteSqlFails(c) \/ WriteHttpFails(c)
  PROVE  GatewayInv'
<1> DEFINE s == Via(c).system
           q == Quote(c)
<1>1. call[c].op = "write" /\ s \in Systems
  BY AtWrite DEF WriteSql, WriteHttp, WriteSqlFails, WriteHttpFails, Writing
<1>2. /\ UNCHANGED <<setup, clock, changed, settings, adapter, asked, cache, tail, cuts>>
      /\ \/ Threw(c) /\ UNCHANGED reported
         \/ Reports(c, "written") /\ <<s, q>> \in recorded'
         \/ Reports(c, "rejected")
      /\ recorded \subseteq recorded'
  BY DEF WriteSql, WriteHttp, WriteSqlFails, WriteHttpFails, WriteUnanswered,
         Count, Process, ghost
<1>3. CallsOK' /\ DOMAIN call' = Callers
  BY <1>1, <1>2, ReturnMoves, ThrowMoves DEF Reports, GatewayInv
<1>4. \/ UNCHANGED reported
      \/ /\ reported' \subseteq reported \cup {q}
         /\ <<s, q>> \in recorded'
  BY <1>2 DEF Reports, Successful
<1>5. LossOK'
  <2> HIDE DEF s, q
  <2>1. QED BY <1>1, <1>2, <1>4, SameLoss DEF GatewayInv
<1>6. QED BY <1>2, <1>3, <1>5, Outside DEF GatewayInv, GatewayTypeOK

-----------------------------------------------------------------------------
(* The steps of a read.                                                    *)

LEMMA AtRead ==
  ASSUME GatewayInv, NEW c \in Callers, call[c].pc \in {"get", "load", "store"}
  PROVE  ReadOK(call[c], clock, asked, changed) /\ call[c].via \in Names
BY DEF GatewayInv, CallsOK, CallOK, WriteOK, ReadOK, Idle

LEMMA GetHitStep ==
  ASSUME GatewayInv, NEW c \in Callers, GetHit(c)
  PROVE  GatewayInv'
<1>1. PICK x \in IF Live("fast", Entity(c)) # {} THEN Live("fast", Entity(c))
                 ELSE Live("durable", Entity(c)) : Answered(c, x.answer)
  BY DEF GetHit
<1>2. PICK tier \in TierNames : x \in Live(tier, Entity(c))
  BY DEF TierNames
<1>3. EntryOK(x, clock, asked, changed) /\ x.entity = Entity(c) /\ clock < x.expires
  BY <1>2 DEF Live, GatewayInv, CacheOK
<1>4. ReadOK(call[c], clock, asked, changed)
  BY AtRead DEF GetHit, At
<1>5. x.answer.stored + Ttl[call[c].entity] = x.expires
  BY <1>3 DEF EntryOK, Entity
<1>6. x.answer.stored \in Nat /\ Ttl[call[c].entity] \in Nat
  BY <1>3, <1>4, ConnectionAssumption DEF EntryOK, AnswerOK, ReadOK
<1>7. clock <= x.answer.stored + Ttl[call[c].entity]
  BY <1>3, <1>5, <1>6 DEF GatewayInv, GatewayTypeOK
<1>8. UNCHANGED <<clock, asked, changed>>
  BY DEF GetHit, Count, systems
<1>9. CallsOK' /\ DOMAIN call' = Callers
  BY <1>1, <1>3, <1>4, <1>7, <1>8, AnsweredMoves, Still DEF GatewayInv, EntryOK
<1>10. QED BY <1>9, Inside DEF GatewayInv, GatewayTypeOK, GetHit, Count, Process

LEMMA GetMissStep ==
  ASSUME GatewayInv, NEW c \in Callers, GetMiss(c)
  PROVE  GatewayInv'
<1>1. CallsOK' /\ DOMAIN call' = Callers
  BY GoMoves DEF GetMiss, GatewayInv, Count, systems
<1>2. /\ DOMAIN cache' = TierNames
      /\ \A tier \in TierNames : cache'[tier] \subseteq cache[tier]
  BY DEF GetMiss, GatewayInv, CacheOK
<1>3. QED BY <1>1, <1>2, Inside
             DEF GatewayInv, GatewayTypeOK, GetMiss, Count, Process

LEMMA LoadEndsStep ==
  ASSUME GatewayInv, NEW c \in Callers,
         LoadFileFails(c) \/ LoadSqlFails(c) \/ LoadHttpFails(c)
  PROVE  GatewayInv'
<1>1. At(c, "load") /\ LoadEnds(c)
  BY DEF LoadFileFails, LoadSqlFails, LoadHttpFails, LoadFrom
<1>2. call[c].op = "read" /\ ~ At(c, "idle")
  BY <1>1, AtRead DEF At, ReadOK
<1>3. CallsOK' /\ DOMAIN call' = Callers
  BY <1>1, <1>2, GoMoves DEF LoadEnds, GatewayInv, Count, systems
<1>4. QED BY <1>1, <1>3, Inside
             DEF GatewayInv, GatewayTypeOK, LoadEnds, Count, Process

LEMMA LoadsStep ==
  ASSUME GatewayInv, NEW c \in Callers, LoadFile(c) \/ LoadSql(c) \/ LoadHttp(c)
  PROVE  GatewayInv'
<1> DEFINE k == call[c].via
           a == Said(k, Entity(c))
<1>1. At(c, "load") /\ Loads(c)
  BY DEF LoadFile, LoadSql, LoadHttp, LoadFrom
<1>2. ReadOK(call[c], clock, asked, changed) /\ k \in Names
  BY <1>1, AtRead DEF At
<1>3. Connection[k].system \in Systems
  BY <1>2, ConnectionAssumption DEF Names
<1>4. /\ UNCHANGED <<setup, clock, changed, settings, adapter, cache>>
      /\ UNCHANGED <<tail, recorded, reported, cuts>>
      /\ asked' = [asked EXCEPT ![k] = clock]
  BY <1>1 DEF Loads, Count, Process, ghost
<1>5. /\ asked' \in [Names -> Nat] /\ asked'[k] = clock
      /\ \A n \in Names : asked[n] <= asked'[n] /\ asked'[n] <= clock
  BY <1>2, <1>4 DEF GatewayInv, GatewayTypeOK
<1>6. Grows
  BY <1>4, <1>5 DEF Grows, GatewayInv, GatewayTypeOK
<1>7. a.stored = clock /\ AnswerOK(a, clock', asked', changed')
  BY <1>2, <1>3, <1>4, <1>5
     DEF AnswerOK, Shaped, AnswerFields, Said, GatewayInv, GatewayTypeOK
<1>8. CallsOK' /\ DOMAIN call' = Callers
  <2>1. CASE IsCached(c)
    <3> DEFINE r == [call[c] EXCEPT !.answer = a, !.pc = "store"]
    <3>1. Becomes(c, r)
      BY <1>1, <2>1 DEF Loads
    <3>2. Shaped(r, ReadFields) /\ r.op = "read" /\ r.entity = call[c].entity
          /\ r.pc = "store" /\ r.answer = a /\ r.via = k
      BY <1>2 DEF ReadOK, Shaped, ReadFields
    <3>3. CallOK(r, clock', asked', changed')
      BY <1>2, <1>7, <3>2 DEF CallOK, ReadOK
    <3> HIDE DEF r
    <3>4. QED BY <1>6, <3>1, <3>3, CallMoves DEF GatewayInv
  <2>2. CASE ~ IsCached(c)
    <3>1. Answered(c, a)
      BY <1>1, <2>2 DEF Loads
    <3>2. clock <= a.stored + Ttl[call[c].entity]
      BY <1>2, <1>7, ConnectionAssumption DEF ReadOK, GatewayInv, GatewayTypeOK
    <3> HIDE DEF a
    <3>3. QED BY <1>2, <1>4, <1>6, <1>7, <3>1, <3>2, AnsweredMoves
                 DEF GatewayInv
  <2>3. QED BY <2>1, <2>2
<1>9. GatewayTypeOK'
  BY <1>4, <1>5, <1>8 DEF GatewayInv, GatewayTypeOK
<1>10. CacheOK'
  BY <1>4, <1>6, CacheLasts DEF GatewayInv
<1>11. LossOK'
  BY <1>4, SameLoss DEF GatewayInv
<1>12. QED BY <1>8, <1>9, <1>10, <1>11 DEF GatewayInv

LEMMA StoreStep ==
  ASSUME GatewayInv, NEW c \in Callers, Store(c)
  PROVE  GatewayInv'
<1> DEFINE a == [call[c].answer EXCEPT !.stored = clock]
           x == [entity |-> Entity(c), answer |-> a, expires |-> clock + Ttl[Entity(c)]]
<1>1. PICK f \in Outcomes("fast", x), d \in Outcomes("durable", x) :
        cache' = [fast |-> f, durable |-> d]
  BY DEF Store
<1>2. Answered(c, a) /\ UNCHANGED <<setup, clock, systems, ghost, settings, adapter>>
  BY DEF Store, Count, Process
<1>3. ReadOK(call[c], clock, asked, changed) /\ call[c].pc = "store"
  BY AtRead DEF Store, At
<1>4. AnswerOK(call[c].answer, clock, asked, changed)
  BY <1>3 DEF ReadOK
<1>5. Shaped(a, AnswerFields) /\ a.from = call[c].answer.from /\ a.stored = clock
      /\ a.version = call[c].answer.version /\ a.loaded = call[c].answer.loaded
  BY <1>4 DEF AnswerOK, Shaped, AnswerFields
<1>6. AnswerOK(a, clock, asked, changed)
  BY <1>4, <1>5 DEF AnswerOK, GatewayInv, GatewayTypeOK
<1>7. EntryOK(x, clock, asked, changed)
  BY <1>3, <1>5, <1>6 DEF EntryOK, ReadOK, Entity
<1> HIDE DEF x
<1>8. CallsOK' /\ DOMAIN call' = Callers
  <2>1. clock <= a.stored + Ttl[call[c].entity]
    BY <1>3, <1>5, ConnectionAssumption DEF ReadOK, GatewayInv, GatewayTypeOK
  <2> HIDE DEF a
  <2>2. QED BY <1>2, <1>3, <1>6, <2>1, AnsweredMoves, Still
               DEF GatewayInv, systems
<1>9. CacheOK'
  <2>1. \A tier \in TierNames : \A o \in Outcomes(tier, x) : o \subseteq cache[tier] \cup {x}
    BY DEF Outcomes
  <2>2. DOMAIN cache' = TierNames
        /\ \A tier \in TierNames : cache'[tier] \subseteq cache[tier] \cup {x}
    BY <1>1, <2>1 DEF TierNames
  <2>3. UNCHANGED <<clock, asked, changed>>
    BY <1>2 DEF systems
  <2>4. QED BY <1>7, <2>2, <2>3 DEF GatewayInv, CacheOK
<1>10. QED BY <1>2, <1>8, <1>9, Inside DEF GatewayInv, GatewayTypeOK

-----------------------------------------------------------------------------
(* What surrounds the process.                                             *)

LEMMA CallsLast ==
  ASSUME GatewayTypeOK, CallsOK, Grows, UNCHANGED call
  PROVE  CallsOK'
<1>1. \A c \in Callers : CallOK(call[c], clock', asked', changed')
  BY CallLasts DEF CallsOK
<1>2. QED BY <1>1 DEF CallsOK

LEMMA TickStep ==
  ASSUME GatewayInv, Tick
  PROVE  GatewayInv'
<1>1. clock' = clock + 1 /\ clock \in Nat
      /\ UNCHANGED <<setup, changed, settings, adapter, cache, call, asked, tail,
                     recorded, reported, cuts>>
  BY DEF Tick, Process, systems, ghost, GatewayInv, GatewayTypeOK
<1>2. Grows
  BY <1>1 DEF Grows, GatewayInv, GatewayTypeOK
<1>3. CallsOK' /\ CacheOK' /\ LossOK'
  BY <1>1, <1>2, CallsLast, CacheLasts, SameLoss DEF GatewayInv
<1>4. GatewayTypeOK'
  BY <1>1, <1>2 DEF GatewayInv, GatewayTypeOK, Grows
<1>5. QED BY <1>3, <1>4 DEF GatewayInv

LEMMA ChangeStep ==
  ASSUME GatewayInv, NEW s \in Systems, Change(s)
  PROVE  GatewayInv'
<1>1. changed' = [changed EXCEPT ![s] = Append(@, clock)]
      /\ UNCHANGED <<setup, clock, settings, adapter, cache, call, asked, tail,
                     recorded, reported, cuts>>
  BY DEF Change, Process, Count, ghost
<1>2. changed' \in [Systems -> Seq(Nat)]
  BY <1>1 DEF GatewayInv, GatewayTypeOK
<1>3. Grows
  BY <1>1 DEF Grows, GatewayInv, GatewayTypeOK
<1>4. CallsOK' /\ CacheOK' /\ LossOK'
  BY <1>1, <1>3, CallsLast, CacheLasts, SameLoss DEF GatewayInv
<1>5. GatewayTypeOK'
  BY <1>1, <1>2 DEF GatewayInv, GatewayTypeOK
<1>6. QED BY <1>4, <1>5 DEF GatewayInv

LEMMA SwitchStep ==
  ASSUME GatewayInv, Switch
  PROVE  GatewayInv'
<1>1. settings' \in Names
  BY SetupsAssumption DEF Switch, GatewayInv, GatewayTypeOK, Names
<1>2. CallsOK' /\ DOMAIN call' = Callers
  BY CallsLast, Still DEF Switch, GatewayInv, GatewayTypeOK, systems
<1>3. QED BY <1>1, <1>2, Inside DEF Switch, GatewayInv, GatewayTypeOK

(* A process that ends in the middle of appends.                           *)
LEMMA CutsLoss ==
  ASSUME GatewayTypeOK, LossOK, NEW cut, cut \subseteq Systems, IsFiniteSet(cut),
         tail' = [s \in Systems |-> IF s \in cut THEN TRUE ELSE tail[s]],
         cuts' = cuts + Cardinality(cut), UNCHANGED <<recorded, reported>>
  PROVE  LossOK' /\ cuts' \in Nat
<1>1. Lost' = Lost /\ Tails' \subseteq Tails \cup cut
  BY DEF Lost, Tails
<1>2. /\ IsFiniteSet(Tails \cup cut)
      /\ Cardinality(Tails \cup cut) =
           Cardinality(Tails) + Cardinality(cut) - Cardinality(Tails \cap cut)
      /\ IsFiniteSet(Tails \cap cut)
  BY FS_Union, FS_Intersection DEF LossOK
<1>3. IsFiniteSet(Tails') /\ Cardinality(Tails') <= Cardinality(Tails \cup cut)
  BY <1>1, <1>2, FS_Subset
<1>4. /\ Cardinality(Tails') \in Nat /\ Cardinality(Tails \cup cut) \in Nat
      /\ Cardinality(Tails \cap cut) \in Nat /\ Cardinality(Tails) \in Nat
      /\ Cardinality(Lost) \in Nat /\ Cardinality(cut) \in Nat
  BY <1>2, <1>3, FS_CardinalityType DEF LossOK
<1>5. QED BY <1>1, <1>2, <1>3, <1>4 DEF LossOK, GatewayTypeOK

LEMMA RestartStep ==
  ASSUME GatewayInv, Restart
  PROVE  GatewayInv'
<1>1. CallsOK' /\ DOMAIN call' = Callers
  BY DEF Restart, GatewayInv, CallsOK, CallOK
<1>2. PICK cut \in SUBSET Appended :
        /\ tail' = [s \in Systems |-> IF s \in cut THEN TRUE ELSE tail[s]]
        /\ cuts' = cuts + Cardinality(cut)
  BY DEF Restart
<1>3. Appended \subseteq Systems
  BY AtWrite DEF Appended, Writing
<1>4. IsFiniteSet(cut)
  <2> DEFINE appending == {d \in Callers : Writing(d, "file_import") /\ Via(d).writes}
             system == [c \in appending |-> Via(c).system]
  <2>1. IsFiniteSet(appending)
    BY CallersAssumption, FS_Subset
  <2>2. system \in Surjection(appending, Appended)
    BY DEF Appended, Surjection
  <2>3. IsFiniteSet(Appended)
    BY <2>1, <2>2, FS_Surjection
  <2>4. QED BY <1>2, <2>3, FS_Subset
<1>5. UNCHANGED <<setup, clock, changed, settings, asked, cache, recorded, reported>>
  BY DEF Restart
<1>6. LossOK' /\ cuts' \in Nat
  BY <1>2, <1>3, <1>4, <1>5, CutsLoss DEF GatewayInv
<1>7. tail' \in [Systems -> BOOLEAN]
  BY <1>2 DEF GatewayInv, GatewayTypeOK
<1>8. adapter' = Unloaded
  BY DEF Restart
<1>9. QED BY <1>1, <1>5, <1>6, <1>7, <1>8, Outside

-----------------------------------------------------------------------------
(* The invariant                                                           *)

LEMMA GatewayInvInit == GatewayInit => GatewayInv
<1> SUFFICES ASSUME GatewayInit PROVE GatewayInv
  OBVIOUS
<1>1. GatewayTypeOK
  BY SetupsAssumption DEF GatewayInit, GatewayTypeOK, Names
<1>2. CacheOK /\ CallsOK
  BY DEF GatewayInit, CacheOK, CallsOK, CallOK
<1>3. Lost = {} /\ Tails = {} /\ cuts = 0
  BY DEF GatewayInit, Lost, Tails
<1>4. LossOK
  BY <1>3, FS_EmptySet DEF LossOK
<1>5. QED BY <1>1, <1>2, <1>4 DEF GatewayInv

LEMMA GatewayInvStep == GatewayInv /\ [GatewayNext]_gateway => GatewayInv'
<1> SUFFICES ASSUME GatewayInv, [GatewayNext]_gateway PROVE GatewayInv'
  OBVIOUS
<1>1. ASSUME NEW c \in Callers, Own(c) PROVE GatewayInv'
  BY <1>1, AdapterSteps, NoAdapterSteps, NotWiredStep, WriteFileStep,
     WriteServerSteps, GetHitStep, GetMissStep, StoreStep, LoadsStep, LoadEndsStep DEF Own
<1>2. ASSUME NEW c \in Callers, Other(c) PROVE GatewayInv'
  BY <1>2, ReadStep, WritebackStep, WriteFileFailsStep, WriteServerSteps, LoadsStep,
     LoadEndsStep DEF Other
<1>3. CASE UNCHANGED gateway
  BY <1>3, Still, CallsLast, CacheLasts, SameLoss
     DEF gateway, GatewayInv, GatewayTypeOK
<1>4. QED BY <1>1, <1>2, <1>3, TickStep, ChangeStep, SwitchStep, RestartStep
             DEF GatewayNext

(* The invariant of the gateway, whatever connections take each other's    *)
(* place, tiers miss writes, and processes end.                            *)
THEOREM GatewayInvariant == GatewaySpec => []GatewayInv
<1>1. QED BY GatewayInvInit, GatewayInvStep, PTL DEF GatewaySpec

(* An answer outlives what its connection said by no more than the time to *)
(* live of its entity and the time the load took (CachedTmsAdapter).  A    *)
(* hit is before the entry's end, and the entry ends so long after it was  *)
(* stored; the TMS said nothing else before the answer was loaded.         *)
THEOREM AnswersDoExpire == GatewaySpec => []AnswersExpire
<1>1. ASSUME GatewayInv PROVE AnswersExpire
  <2> SUFFICES ASSUME NEW c \in Callers, ~ IsWrite(c), At(c, "done")
      PROVE  LET a     == call[c].answer
                 spare == Ttl[Entity(c)] + (a.stored - a.loaded)
                 times == changed[Connection[a.from].system]
             IN  /\ call[c].at <= asked[a.from] + spare
                 /\ a.found /\ a.version < Len(times)
                      => call[c].at <= times[a.version + 1] + spare
    BY DEF AnswersExpire
  <2> DEFINE a     == call[c].answer
             times == changed[Connection[a.from].system]
             ttl   == Ttl[Entity(c)]
  <2>1. ReadOK(call[c], clock, asked, changed) /\ AnswerOK(a, clock, asked, changed)
    BY <1>1 DEF GatewayInv, CallsOK, CallOK, ReadOK, WriteOK, Idle, IsWrite, At
  <2>2. /\ call[c].at \in Nat /\ ttl \in Nat /\ a.loaded \in Nat /\ a.stored \in Nat
        /\ call[c].at <= a.stored + ttl
    BY <2>1, ConnectionAssumption DEF ReadOK, AnswerOK, At, Entity
  <2>3. asked[a.from] \in Nat /\ a.loaded <= asked[a.from]
    BY <1>1, <2>1 DEF AnswerOK, GatewayInv, GatewayTypeOK
  <2>4. a.version < Len(times)
          => times[a.version + 1] \in Nat /\ a.loaded <= times[a.version + 1]
    <3>1. times \in Seq(Nat) /\ a.version \in Nat
      BY <1>1, <2>1, ConnectionAssumption
         DEF AnswerOK, GatewayInv, GatewayTypeOK, Names
    <3>2. a.version < Len(times) => a.loaded <= times[a.version + 1]
      BY <2>1 DEF AnswerOK
    <3> HIDE DEF times, a
    <3>3. ASSUME a.version < Len(times) PROVE times[a.version + 1] \in Nat
      <4>1. Len(times) \in Nat
        BY <3>1
      <4>2. a.version + 1 \in 1 .. Len(times)
        BY <3>1, <3>3, <4>1
      <4>3. QED BY <3>1, <4>2
    <3>4. QED BY <3>2, <3>3
  <2> HIDE DEF times, ttl, a
  <2>5. call[c].at <= asked[a.from] + (ttl + (a.stored - a.loaded))
    BY <2>2, <2>3
  <2>6. a.version < Len(times)
          => call[c].at <= times[a.version + 1] + (ttl + (a.stored - a.loaded))
    BY <2>2, <2>4
  <2>7. QED BY <2>5, <2>6 DEF times, ttl, a
<1>2. QED BY <1>1, GatewayInvariant, PTL

(* Of the quotes that were called written or queued at most one is lost    *)
(* for each append that the disk cut short (appendJsonLine): the one that  *)
(* was put at the end of half a line.                                      *)
THEOREM WritesAreKept == GatewaySpec => []LostAtMostOnce
<1>1. ASSUME GatewayInv PROVE LostAtMostOnce
  <2>1. /\ Cardinality(Lost) \in Nat /\ Cardinality(Tails) \in Nat /\ cuts \in Nat
        /\ Cardinality(Lost) + Cardinality(Tails) <= cuts
    BY <1>1, FS_CardinalityType DEF GatewayInv, LossOK, GatewayTypeOK
  <2>2. QED BY <2>1 DEF LostAtMostOnce, Lost
<1>2. QED BY <1>1, GatewayInvariant, PTL
=============================================================================
