----------------------------- MODULE StepStream -----------------------------
(***************************************************************************)
(* The step events of one run and the stream that shows them.              *)
(*                                                                         *)
(* Every traced piece of a node appends a "start" event and an "end" or an *)
(* "error" event to quote_run_steps.  The number of an event is taken from *)
(* a counter in memory, at once; its row is inserted later, when Postgres  *)
(* answers.  The lanes of a run are traced in parallel, so rows can appear *)
(* out of the order of their numbers.                                      *)
(*                                                                         *)
(* GET /api/runs/:runId/stream polls the store, the run's row and its      *)
(* steps in two concurrent reads, and writes the steps above the highest   *)
(* number it has written.                                                  *)
(*                                                                         *)
(* An event is its number: what it says tells nothing apart here.          *)
(***************************************************************************)
EXTENDS Naturals, FiniteSets, FiniteSetsExt

CONSTANTS Main,          \* the tracer of the nodes outside the lanes
          Lanes,         \* the tracers of the lanes a run can have
          IntakeNodes,   \* traced nodes before the lanes
          LaneNodes,     \* traced pieces of a lane
          GateNodes,     \* traced nodes from the lanes to the approval
          ClosingNodes,  \* traced nodes after the approval
          Faults         \* the kinds of failure that can happen

ASSUME TracersAssumption == Main \notin Lanes
ASSUME NodesAssumption ==
  {IntakeNodes, LaneNodes, GateNodes, ClosingNodes} \subseteq Nat \ {0}
ASSUME FaultsAssumption ==
  Faults \subseteq {"node",     \* a node throws
                    "append",   \* an insert is rejected, with its row or without
                    "crash"}    \* the process dies and starts again

Tracers == Lanes \cup {Main}

Stages == {"intake", "lanes", "gate", "approval", "parked", "decided", "closing", "over"}
Appends == {"starting", "ending", "failing"}

VARIABLES
  run,        \* status of the quote_runs row
  log,        \* numbers of the rows of quote_run_steps
  seqByRun,   \* the counter, in memory
  stage,      \* where the graph is
  at,         \* where every tracer is
  left,       \* the nodes every tracer has left in this stage
  call,       \* the number a tracer's insert carries, 0 for none
  viewer,     \* the client of the stream: "away", "reading" or "told"
  reads,      \* the reads of this poll that have answered
  seenRun, seenSteps,  \* what they answered
  lastSeq,    \* the highest number written to the stream
  emitted,    \* the numbers written to it
  late        \* history: the stream was opened on a run that was done

tracing == <<seqByRun, at, left, call>>
stream  == <<viewer, reads, seenRun, seenSteps, lastSeq, emitted, late>>
vars    == <<run, log, stage, tracing, stream>>

Highest(S) == Max(S \cup {0})

Init ==
  /\ run = "running" /\ log = {} /\ seqByRun = 0
  /\ stage = "intake"
  /\ at = [t \in Tracers |-> "resting"]
  /\ left = [t \in Tracers |-> IF t = Main THEN IntakeNodes ELSE 0]
  /\ call = [t \in Tracers |-> 0]
  /\ viewer = "away" /\ reads = {} /\ seenRun = "running" /\ seenSteps = {}
  /\ lastSeq = 0 /\ emitted = {} /\ late = FALSE

-----------------------------------------------------------------------------
(* trace: append takes a number at once and hands the row to the store.    *)

Append(t, status) ==
  /\ call' = [call EXCEPT ![t] = seqByRun + 1]
  /\ seqByRun' = seqByRun + 1
  /\ at' = [at EXCEPT ![t] = status]
  /\ UNCHANGED left

StartNode(t) ==
  /\ at[t] = "resting" /\ left[t] > 0
  /\ Append(t, "starting")
  /\ UNCHANGED <<run, log, stage, stream>>

EndNode(t) ==
  /\ at[t] = "working"
  /\ Append(t, "ending")
  /\ UNCHANGED <<run, log, stage, stream>>

NodeThrows(t) ==
  /\ "node" \in Faults
  /\ at[t] = "working"
  /\ Append(t, "failing")
  /\ UNCHANGED <<run, log, stage, stream>>

(* The append returns: after "end" the tracer goes on to its next node.    *)
CountNodes(t) == IF at[t] = "ending" THEN [left EXCEPT ![t] = @ - 1] ELSE left

Returned(t) ==
  /\ call' = [call EXCEPT ![t] = 0]
  /\ at' = [at EXCEPT ![t] = CASE at[t] = "starting" -> "working"
                               [] at[t] = "ending"   -> "resting"
                               [] at[t] = "failing"  -> "stopped"]
  /\ left' = CountNodes(t)
  /\ UNCHANGED seqByRun

Inserted(t) ==
  /\ at[t] \in Appends /\ call[t] \notin log
  /\ log' = log \cup {call[t]}
  /\ Returned(t)
  /\ UNCHANGED <<run, stage, stream>>

(* A rejected "end" is caught, and an "error" is appended; any other       *)
(* rejected append ends the tracer.                                        *)
ThrowNothing(t) == Returned(t)
Throw(t) ==
  IF at[t] = "ending"
  THEN Append(t, "failing")
  ELSE /\ at' = [at EXCEPT ![t] = "stopped"]
       /\ call' = [call EXCEPT ![t] = 0]
       /\ UNCHANGED <<left, seqByRun>>

(* The primary key (run_id, seq) is taken, or the store failed.            *)
Rejected(t) ==
  /\ at[t] \in Appends
  /\ \/ call[t] \in log /\ UNCHANGED log
     \/ "append" \in Faults /\ log' \in {log, log \cup {call[t]}}
  /\ Throw(t)
  /\ UNCHANGED <<run, stage, stream>>

-----------------------------------------------------------------------------
(* The graph around the traced nodes.                                      *)

Finished(t) == at[t] = "resting" /\ left[t] = 0

Enter(next, nodes) ==
  /\ stage' = next
  /\ left' = [left EXCEPT ![Main] = nodes]
  /\ UNCHANGED <<run, log, seqByRun, at, call, stream>>

(* One Send per operable lane; none of them may be operable.               *)
FanOut ==
  /\ stage = "intake" /\ Finished(Main)
  /\ \E operable \in SUBSET Lanes \ {{}} :
       /\ stage' = "lanes"
       /\ left' = [t \in Tracers |-> IF t \in operable THEN LaneNodes ELSE 0]
  /\ UNCHANGED <<run, log, seqByRun, at, call, stream>>

SkipLanes == stage = "intake" /\ Finished(Main) /\ Enter("gate", GateNodes)

JoinLanes == stage = "lanes" /\ (\A l \in Lanes : Finished(l)) /\ Enter("gate", GateNodes)

AskApproval == stage = "gate" /\ Finished(Main) /\ Enter("approval", 1)

(* interrupt() leaves the node without an event of its own.                *)
Interrupt ==
  /\ stage = "approval" /\ at[Main] = "working"
  /\ stage' = "parked"
  /\ at' = [at EXCEPT ![Main] = "resting"]
  /\ left' = [left EXCEPT ![Main] = 0]
  /\ UNCHANGED <<run, log, seqByRun, call, stream>>

Close == stage \in {"approval", "decided"} /\ Finished(Main) /\ Enter("closing", ClosingNodes)

(* persistOutcome, after graph.invoke returned.                            *)
PersistOutcome ==
  /\ \/ stage = "parked" /\ run = "running" /\ run' = "waiting_approval" /\ stage' = stage
     \/ stage = "closing" /\ Finished(Main) /\ run' = "done" /\ stage' = "over"
  /\ UNCHANGED <<log, tracing, stream>>

(* A task that threw ends graph.invoke; its siblings are not cancelled.    *)
GraphFails ==
  /\ stage # "over" /\ \E t \in Tracers : at[t] = "stopped"
  /\ run' = "error" /\ stage' = "over"
  /\ UNCHANGED <<log, tracing, stream>>

(* resume: initializeSequence reads the rows back, then the node again.    *)
ResumeUncounted == seqByRun' = seqByRun
InitializeSequence == seqByRun' = Highest(log)

Resume ==
  /\ run = "waiting_approval"
  /\ InitializeSequence
  /\ run' = "running" /\ stage' = "decided"
  /\ left' = [left EXCEPT ![Main] = 1]
  /\ UNCHANGED <<log, at, call, stream>>

(* The process dies.  Inserts under way may have reached Postgres; what    *)
(* was in memory and every connection is gone.                             *)
Restart ==
  /\ "crash" \in Faults
  /\ \E landed \in SUBSET {call[t] : t \in Tracers} : log' = log \cup (landed \ {0})
  /\ seqByRun' = 0
  /\ call' = [t \in Tracers |-> 0]
  /\ left' = [t \in Tracers |-> 0]
  /\ IF run \in {"waiting_approval", "done"}
     THEN UNCHANGED <<at, stage>>
     ELSE at' = [t \in Tracers |-> "lost"] /\ stage' = "over"
  /\ viewer' = "away" /\ reads' = {} /\ seenRun' = "running" /\ seenSteps' = {}
  /\ UNCHANGED <<run, lastSeq, emitted, late>>

-----------------------------------------------------------------------------
(* GET /api/runs/:runId/stream                                             *)

OpenAtTail == lastSeq' = Highest(log)
OpenAtStart == lastSeq' = 0

Open ==
  /\ viewer = "away"
  /\ viewer' = "reading"
  /\ OpenAtStart
  /\ reads' = {} /\ emitted' = {}
  /\ late' = (run = "done")
  /\ UNCHANGED <<run, log, stage, tracing, seenRun, seenSteps>>

ReadRun ==
  /\ viewer = "reading" /\ "run" \notin reads
  /\ reads' = reads \cup {"run"}
  /\ seenRun' = run
  /\ UNCHANGED <<run, log, stage, tracing, viewer, seenSteps, lastSeq, emitted, late>>

ReadSteps ==
  /\ viewer = "reading" /\ "steps" \notin reads
  /\ reads' = reads \cup {"steps"}
  /\ seenSteps' = log
  /\ UNCHANGED <<run, log, stage, tracing, viewer, seenRun, lastSeq, emitted, late>>

EndOnDone == seenRun = "done"
EndOnTerminal == seenRun \in {"done", "error"}

NewSteps(steps) == {s \in steps : s > lastSeq}

Emit ==
  /\ viewer = "reading" /\ reads = {"run", "steps"}
  /\ emitted' = emitted \cup NewSteps(seenSteps)
  /\ lastSeq' = Highest(NewSteps(seenSteps) \cup {lastSeq})
  /\ viewer' = IF EndOnTerminal THEN "told" ELSE "reading"
  /\ reads' = {} /\ seenRun' = "running" /\ seenSteps' = {}
  /\ UNCHANGED <<run, log, stage, tracing, late>>

(* The client goes, or a read of the store fails after the headers left.   *)
Disconnect ==
  /\ viewer = "reading"
  /\ viewer' = "away" /\ reads' = {} /\ seenRun' = "running" /\ seenSteps' = {}
  /\ UNCHANGED <<run, log, stage, tracing, lastSeq, emitted, late>>

-----------------------------------------------------------------------------
Trace(t) == StartNode(t) \/ EndNode(t) \/ NodeThrows(t) \/ Inserted(t) \/ Rejected(t)

Graph ==
  \/ FanOut \/ SkipLanes \/ JoinLanes \/ AskApproval \/ Interrupt \/ Close
  \/ PersistOutcome \/ GraphFails

Stream == ReadRun \/ ReadSteps \/ Emit

Next ==
  \/ \E t \in Tracers : Trace(t)
  \/ Graph \/ Resume \/ Restart
  \/ Open \/ Stream \/ Disconnect

(* The store answers every read of a stream, and the loop goes round.      *)
Spec == Init /\ [][Next]_vars /\ WF_vars(Stream)

-----------------------------------------------------------------------------
(* No two events of a run carry one number, inserted or on their way,      *)
(* although lanes number theirs concurrently, a resume numbers on from the *)
(* rows, and the process can start again in between.                       *)
SeqNeverReused ==
  \A t \in Tracers : call[t] # 0 =>
    /\ call[t] \notin log
    /\ \A u \in Tracers \ {t} : call[u] # call[t]

(* Once a run waits or is done, its log is settled and has no gap: every   *)
(* event that got a number has its row.                                    *)
SettledLogIsWhole ==
  run \in {"waiting_approval", "done"} =>
    /\ log = 1 .. Cardinality(log)
    /\ \A t \in Tracers : call[t] = 0

(* Whoever opens the stream of a run that is done is told everything.      *)
LateViewerSeesAll == viewer = "told" /\ late => emitted = log

(* A stream of a run that has ended ends.                                  *)
StreamEnds == viewer = "reading" /\ run \in {"done", "error"} ~> viewer # "reading"
=============================================================================
