-------------------------- MODULE StepStreamProofs --------------------------
(***************************************************************************)
(* The log of a run and what a late viewer is told, for every number of    *)
(* lanes and of nodes in a stage, and whatever fails.                      *)
(*                                                                         *)
(* A number is new because the counter covers every number that is stored  *)
(* or on its way.  There is one exception: the counter is gone after a     *)
(* restart, while a run waits or is over.  Then every tracer is silent,    *)
(* and resuming counts the rows first.                                     *)
(***************************************************************************)
EXTENDS StepStream, FiniteSetTheorems, TLAPS

Places == Appends \cup {"resting", "working", "stopped", "lost"}

Types ==
  /\ run \in {"running", "waiting_approval", "done", "error"}
  /\ log \subseteq Nat \ {0} /\ seqByRun \in Nat
  /\ stage \in Stages
  /\ at \in [Tracers -> Places]
  /\ left \in [Tracers -> Int]
  /\ call \in [Tracers -> Nat]

(* A tracer carries a number exactly while its append is under way.        *)
Carrying == \A t \in Tracers : call[t] # 0 <=> at[t] \in Appends

(* Who has finished, from the stage and the status of the run.             *)
Placed ==
  /\ stage \notin {"lanes", "over"} => \A l \in Lanes : Finished(l)
  /\ stage \in {"lanes", "parked"} => Finished(Main)
  /\ run = "waiting_approval" => stage = "parked"
  /\ run = "done" => stage = "over" /\ \A t \in Tracers : Finished(t)

Covered ==
  /\ \A n \in log : n <= seqByRun
  /\ \A t \in Tracers : call[t] <= seqByRun

Silent(t) == at[t] \in {"stopped", "lost"} \/ Finished(t)

Dormant ==
  /\ (stage = "parked" /\ run = "waiting_approval") \/ stage = "over"
  /\ \A t \in Tracers : Silent(t)

(* While no tracer failed and the run goes on, no number is missing.       *)
Sound == \A t \in Tracers : at[t] \notin {"failing", "stopped", "lost"}
Settled == run \in {"waiting_approval", "done"}
Recorded(n) == n \in log \/ \E t \in Tracers : call[t] = n
GapFree == Sound /\ ~Settled => \A n \in 1 .. seqByRun : Recorded(n)
Whole   == Settled => \E n \in Nat : log = 1 .. n

IInv ==
  /\ Types /\ Carrying /\ Placed
  /\ SeqNeverReused
  /\ Covered \/ Dormant
  /\ GapFree /\ (Sound /\ ~Settled => Covered)
  /\ Whole

tracked == <<run, log, stage, tracing>>
-----------------------------------------------------------------------------
LEMMA InitIInv == Init => IInv
<1> SUFFICES ASSUME Init PROVE IInv
  OBVIOUS
<1> USE NodesAssumption, TracersAssumption
<1>1. Types
  BY DEF Init, Types, Places, Stages
<1>2. Carrying /\ SeqNeverReused
  BY DEF Init, Carrying, SeqNeverReused, Appends
<1>3. Placed
  BY DEF Init, Placed, Finished, Tracers
<1>4. Covered
  BY DEF Init, Covered
<1>5. GapFree /\ Whole
  BY DEF Init, GapFree, Whole, Settled
<1> QED BY <1>1, <1>2, <1>3, <1>4, <1>5 DEF IInv

(* A settled run carries no number.                                        *)
LEMMA SettledCarriesNone ==
  ASSUME IInv, Settled PROVE \A t \in Tracers : call[t] = 0 /\ Finished(t)
<1>1. \A t \in Tracers : Finished(t)
  BY DEF IInv, Placed, Settled, Tracers
<1> QED BY <1>1 DEF IInv, Types, Carrying, Finished, Appends

(* A tracer that can append has a counter that covers the log.             *)
LEMMA AppenderIsCovered ==
  ASSUME IInv, NEW t \in Tracers,
         at[t] \in Appends \cup {"working"} \/ (at[t] = "resting" /\ left[t] > 0)
  PROVE  Covered /\ ~Settled
<1>1. ~Silent(t)
  BY DEF IInv, Types, Silent, Finished, Appends
<1>2. ~Settled
  BY <1>1, SettledCarriesNone DEF Silent
<1> QED BY <1>1, <1>2 DEF IInv, Dormant

(* A tracer takes a number, after the row of the one it carried was stored *)
(* or not.                                                                 *)
LEMMA AppendKeeps ==
  ASSUME IInv, NEW t \in Tracers, NEW status \in Appends, Append(t, status),
         at[t] \in {"working", "ending"} \/ (at[t] = "resting" /\ left[t] > 0),
         at[t] = "ending" => status = "failing",
         log' = log \/ (log' = log \cup {call[t]} /\ at[t] = "ending"),
         UNCHANGED <<run, stage>>
  PROVE  IInv'
<1>1. Covered /\ ~Settled /\ Types
  BY AppenderIsCovered DEF IInv, Appends
<1>2. /\ call' = [call EXCEPT ![t] = seqByRun + 1] /\ seqByRun' = seqByRun + 1
      /\ at' = [at EXCEPT ![t] = status] /\ left' = left
  BY DEF Append
<1>3. Types'
  <2>1. at[t] = "ending" => call[t] # 0
    BY DEF IInv, Carrying, Appends
  <2>2. log' \subseteq Nat \ {0}
    <3>1. CASE log' = log
      BY <3>1, <1>1 DEF Types
    <3>2. CASE log' = log \cup {call[t]} /\ at[t] = "ending"
      BY <3>2, <2>1, <1>1 DEF Types
    <3> QED BY <3>1, <3>2
  <2>3. at' \in [Tracers -> Places]
    BY <1>1, <1>2 DEF Types, Places
  <2>4. call' \in [Tracers -> Nat] /\ seqByRun' \in Nat
    BY <1>1, <1>2 DEF Types
  <2> QED BY <1>1, <1>2, <2>2, <2>3, <2>4 DEF Types
<1>4. Carrying'
  BY <1>1, <1>2 DEF IInv, Carrying, Types
<1>5. Placed'
  <2>1. ~Finished(t) /\ ~Finished(t)'
    BY <1>1, <1>2 DEF Finished, Types, Appends
  <2>2. \A u \in Tracers : u # t => (Finished(u)' <=> Finished(u))
    BY <1>1, <1>2 DEF Finished, Types
  <2> QED BY <2>1, <2>2, <1>1 DEF IInv, Placed, Settled, Tracers
<1>6. \A n \in log' : n <= seqByRun
  <2>1. CASE log' = log
    BY <2>1, <1>1 DEF Covered
  <2>2. CASE log' = log \cup {call[t]}
    BY <2>2, <1>1 DEF Covered
  <2> QED BY <2>1, <2>2
<1>7. \A u \in Tracers : u # t => call'[u] = call[u] /\ call[u] <= seqByRun
  BY <1>1, <1>2 DEF Covered, Types
<1>8. call'[t] = seqByRun + 1
  BY <1>1, <1>2 DEF Types
<1>9. Covered'
  BY <1>1, <1>2, <1>6, <1>7, <1>8, <1>3 DEF Covered, Types
<1>10. SeqNeverReused'
  <2>1. call'[t] \notin log' /\ \A u \in Tracers \ {t} : call'[u] # call'[t]
    BY <1>1, <1>6, <1>7, <1>8 DEF Types
  <2>2. ASSUME NEW u \in Tracers \ {t}, call'[u] # 0
        PROVE  call'[u] \notin log' /\ \A v \in Tracers \ {u} : call'[v] # call'[u]
    <3>1. call[u] \notin log /\ \A v \in Tracers \ {u} : call[v] # call[u]
      BY <2>2, <1>7 DEF IInv, SeqNeverReused
    <3> QED BY <3>1, <1>7, <2>1
  <2> QED BY <2>1, <2>2 DEF SeqNeverReused
<1>11. GapFree'
  <2> SUFFICES ASSUME Sound', NEW n \in 1 .. seqByRun' PROVE Recorded(n)'
    BY DEF GapFree
  <2>1. Sound /\ log' = log /\ at[t] # "ending"
    BY <1>1, <1>2 DEF Sound, Types
  <2>2. call[t] = 0
    BY <2>1 DEF IInv, Carrying, Appends, Types
  <2>3. CASE n = seqByRun + 1
    BY <2>3, <1>8 DEF Recorded
  <2>4. CASE n \in 1 .. seqByRun
    <3>1. Recorded(n)
      BY <2>4, <2>1, <1>1 DEF IInv, GapFree
    <3> QED BY <3>1, <2>1, <2>2, <1>7, <2>4 DEF Recorded
  <2> QED BY <2>3, <2>4, <1>1, <1>2 DEF Types
<1>12. Whole'
  BY <1>1 DEF Whole, Settled
<1> QED BY <1>3, <1>4, <1>5, <1>9, <1>10, <1>11, <1>12 DEF IInv

(* An append comes back: its row is there unless the tracer stops.         *)
LEMMA ReturnKeeps ==
  ASSUME IInv, NEW t \in Tracers, at[t] \in Appends,
         NEW place \in {"working", "resting", "stopped"},
         call' = [call EXCEPT ![t] = 0], at' = [at EXCEPT ![t] = place],
         left' = left \/ left' = [left EXCEPT ![t] = @ - 1],
         log' = log \cup {call[t]} \/ (log' = log /\ place = "stopped"),
         place # "stopped" => at[t] # "failing",
         UNCHANGED <<seqByRun, run, stage>>
  PROVE  IInv'
<1>1. Covered /\ ~Settled /\ Types /\ call[t] # 0
  BY AppenderIsCovered DEF IInv, Carrying
<1>2. /\ \A u \in Tracers : u # t => call'[u] = call[u] /\ at'[u] = at[u] /\ left'[u] = left[u]
      /\ call'[t] = 0 /\ at'[t] = place
  BY <1>1 DEF Types
<1>3. Types'
  <2>1. log' \subseteq Nat \ {0}
    <3>1. call[t] \in Nat \ {0}
      BY <1>1 DEF Types
    <3>2. CASE log' = log
      BY <3>2, <1>1 DEF Types
    <3>3. CASE log' = log \cup {call[t]}
      BY <3>1, <3>3, <1>1 DEF Types
    <3> QED BY <3>2, <3>3
  <2>2. at' \in [Tracers -> Places]
    BY <1>1 DEF Types, Places
  <2>3. left' \in [Tracers -> Int]
    <3>1. CASE left' = left
      BY <3>1, <1>1 DEF Types
    <3>2. CASE left' = [left EXCEPT ![t] = @ - 1]
      BY <3>2, <1>1 DEF Types
    <3> QED BY <3>1, <3>2
  <2>4. call' \in [Tracers -> Nat]
    BY <1>1 DEF Types
  <2> QED BY <1>1, <2>1, <2>2, <2>3, <2>4 DEF Types
<1>4. Carrying'
  BY <1>1, <1>2 DEF IInv, Carrying, Appends
<1>5. Placed'
  <2>1. ~Finished(t)
    BY DEF Finished, Appends
  <2>2. \A u \in Tracers : u # t => (Finished(u)' <=> Finished(u))
    BY <1>2 DEF Finished
  <2> QED BY <2>1, <2>2, <1>1 DEF IInv, Placed, Settled, Tracers
<1>6. Covered'
  <2>1. \A n \in log' : n <= seqByRun
    <3>1. CASE log' = log
      BY <3>1, <1>1 DEF Covered
    <3>2. CASE log' = log \cup {call[t]}
      BY <3>2, <1>1 DEF Covered
    <3> QED BY <3>1, <3>2
  <2>2. \A u \in Tracers : call'[u] <= seqByRun
    <3> SUFFICES ASSUME NEW u \in Tracers PROVE call'[u] <= seqByRun
      OBVIOUS
    <3>1. CASE u = t
      BY <3>1, <1>1, <1>2 DEF Types
    <3>2. CASE u # t
      BY <3>2, <1>1, <1>2 DEF Covered
    <3> QED BY <3>1, <3>2
  <2> QED BY <2>1, <2>2 DEF Covered
<1>7. SeqNeverReused'
  <2> SUFFICES ASSUME NEW u \in Tracers, call'[u] # 0
               PROVE  call'[u] \notin log' /\ \A v \in Tracers \ {u} : call'[v] # call'[u]
    BY DEF SeqNeverReused
  <2>1. u # t /\ call'[u] = call[u]
    BY <1>2
  <2>2. call[u] \notin log /\ \A v \in Tracers \ {u} : call[v] # call[u]
    BY <2>1 DEF IInv, SeqNeverReused
  <2> QED BY <2>1, <2>2, <1>2
<1>8. GapFree'
  <2> SUFFICES ASSUME Sound', NEW n \in 1 .. seqByRun PROVE Recorded(n)'
    BY DEF GapFree
  <2>1. place # "stopped"
    BY <1>2 DEF Sound
  <2>2. Sound
    <3> SUFFICES ASSUME NEW u \in Tracers PROVE at[u] \notin {"failing", "stopped", "lost"}
      BY DEF Sound
    <3>1. CASE u = t
      BY <2>1, <3>1 DEF Appends
    <3>2. CASE u # t
      BY <3>2, <1>2 DEF Sound
    <3> QED BY <3>1, <3>2
  <2>3. Recorded(n)
    BY <2>2, <1>1 DEF IInv, GapFree
  <2> QED BY <2>1, <2>3, <1>2 DEF Recorded
<1>9. Whole'
  BY <1>1 DEF Whole, Settled
<1> QED BY <1>3, <1>4, <1>5, <1>6, <1>7, <1>8, <1>9 DEF IInv

-----------------------------------------------------------------------------
LEMMA TraceKeeps ==
  ASSUME IInv, NEW t \in Tracers, Trace(t) PROVE IInv'
<1> USE DEF Appends
<1>0. Types
  BY DEF IInv
<1>1. CASE StartNode(t)
  BY <1>1, AppendKeeps DEF StartNode
<1>2. CASE EndNode(t)
  BY <1>2, AppendKeeps DEF EndNode
<1>3. CASE NodeThrows(t)
  BY <1>3, AppendKeeps DEF NodeThrows
<1>4. CASE Inserted(t)
  <2> DEFINE place == CASE at[t] = "starting" -> "working"
                        [] at[t] = "ending"   -> "resting"
                        [] at[t] = "failing"  -> "stopped"
  <2>1. /\ place \in {"working", "resting", "stopped"}
        /\ place # "stopped" => at[t] # "failing"
    BY <1>4 DEF Inserted
  <2>2. /\ at' = [at EXCEPT ![t] = place] /\ call' = [call EXCEPT ![t] = 0]
        /\ left' = left \/ left' = [left EXCEPT ![t] = @ - 1]
        /\ log' = log \cup {call[t]} /\ at[t] \in Appends
        /\ UNCHANGED <<seqByRun, run, stage>>
    BY <1>4 DEF Inserted, Returned, CountNodes
  <2> HIDE DEF place
  <2> QED BY <2>1, <2>2, ReturnKeeps
<1>5. CASE Rejected(t)
  <2>1. call[t] \notin log
    BY <1>5 DEF Rejected, IInv, Carrying, SeqNeverReused
  <2>2. /\ at[t] \in Appends /\ log' \in {log, log \cup {call[t]}}
        /\ Throw(t) /\ UNCHANGED <<run, stage>>
    BY <1>5, <2>1 DEF Rejected
  <2>3. CASE at[t] = "ending"
    BY <2>2, <2>3, AppendKeeps DEF Throw
  <2>4. CASE at[t] # "ending"
    BY <2>2, <2>4, ReturnKeeps DEF Throw
  <2> QED BY <2>3, <2>4
<1> QED BY <1>1, <1>2, <1>3, <1>4, <1>5 DEF Trace

(* The graph goes on to a stage where some tracers have nodes to do.       *)
LEMMA EnterKeeps ==
  ASSUME IInv, stage \notin {"parked", "over"}, stage' \in Stages \ {"parked", "over"},
         left' \in [Tracers -> Int],
         stage' # "lanes" => \A l \in Lanes : Finished(l)',
         stage' = "lanes" => Finished(Main)',
         UNCHANGED <<run, log, seqByRun, at, call>>
  PROVE  IInv'
<1>1. Covered /\ ~Settled
  BY DEF IInv, Dormant, Placed, Settled
<1>2. Types' /\ Carrying' /\ SeqNeverReused' /\ Covered'
  BY <1>1 DEF IInv, Types, Carrying, SeqNeverReused, Covered
<1>3. Placed'
  BY <1>1 DEF Placed, Settled
<1>4. GapFree' /\ Whole'
  BY <1>1 DEF IInv, GapFree, Whole, Sound, Settled, Recorded
<1> QED BY <1>2, <1>3, <1>4 DEF IInv

LEMMA MainEnters ==
  ASSUME IInv, NEW next \in Stages \ {"parked", "over", "lanes"}, NEW n \in Int,
         Enter(next, n), stage \notin {"parked", "over"}, \A l \in Lanes : Finished(l)
  PROVE  IInv'
<1>1. left' = [left EXCEPT ![Main] = n] /\ left' \in [Tracers -> Int]
  BY DEF Enter, IInv, Types
<1>2. \A l \in Lanes : Finished(l)'
  BY <1>1, TracersAssumption DEF Enter, Finished, IInv, Types, Tracers
<1> QED BY <1>1, <1>2, EnterKeeps DEF Enter

LEMMA StagesKeep ==
  ASSUME IInv, FanOut \/ SkipLanes \/ JoinLanes \/ AskApproval \/ Close
  PROVE  IInv'
<1> USE NodesAssumption, TracersAssumption DEF Stages
<1>1. CASE FanOut
  <2>1. PICK operable \in SUBSET Lanes \ {{}} :
          left' = [t \in Tracers |-> IF t \in operable THEN LaneNodes ELSE 0]
    BY <1>1 DEF FanOut
  <2>2. left' \in [Tracers -> Int] /\ left'[Main] = 0
    BY <2>1 DEF Tracers
  <2>3. Finished(Main)'
    BY <1>1, <2>2 DEF FanOut, Finished
  <2>4. stage = "intake" /\ stage' = "lanes" /\ UNCHANGED <<run, log, seqByRun, at, call>>
    BY <1>1 DEF FanOut
  <2> QED BY <2>2, <2>3, <2>4, EnterKeeps
<1>2. CASE SkipLanes
  BY <1>2, MainEnters DEF SkipLanes, IInv, Placed
<1>3. CASE JoinLanes
  BY <1>3, MainEnters DEF JoinLanes
<1>4. CASE AskApproval
  BY <1>4, MainEnters DEF AskApproval, IInv, Placed
<1>5. CASE Close
  BY <1>5, MainEnters DEF Close, IInv, Placed
<1> QED BY <1>1, <1>2, <1>3, <1>4, <1>5

LEMMA InterruptKeeps == ASSUME IInv, Interrupt PROVE IInv'
<1>1. Covered /\ ~Settled /\ Types
  BY DEF IInv, Interrupt, Dormant, Placed, Settled
<1>2. Types'
  <2>1. at' \in [Tracers -> Places] /\ left' \in [Tracers -> Int]
    <3>1. at' = [at EXCEPT ![Main] = "resting"] /\ left' = [left EXCEPT ![Main] = 0]
      BY DEF Interrupt
    <3>2. at' \in [Tracers -> Places]
      BY <1>1, <3>1 DEF Types, Places
    <3>3. Main \in Tracers
      BY DEF Tracers
    <3>4. left' \in [Tracers -> Int]
      BY <1>1, <3>1, <3>3 DEF Types
    <3> QED BY <3>2, <3>4
  <2> QED BY <1>1, <2>1 DEF Interrupt, Types, Stages
<1>3. Carrying' /\ SeqNeverReused' /\ Covered'
  BY <1>1 DEF IInv, Interrupt, Carrying, SeqNeverReused, Covered, Types, Appends
<1>4. Placed'
  BY <1>1, TracersAssumption DEF IInv, Interrupt, Placed, Settled, Finished, Types, Tracers
<1>5. GapFree' /\ Whole'
  <2>1. Sound' => Sound
    BY <1>1 DEF Interrupt, Sound, Types
  <2> QED BY <1>1, <2>1 DEF IInv, Interrupt, GapFree, Whole, Settled, Recorded
<1> QED BY <1>2, <1>3, <1>4, <1>5 DEF IInv

(* The run settles: nobody carries a number, so the log is what the        *)
(* counter counted.                                                        *)
LEMMA PersistOutcomeKeeps == ASSUME IInv, PersistOutcome PROVE IInv'
<1>1. /\ run' \in {"waiting_approval", "done"} /\ stage' \in Stages
      /\ UNCHANGED <<log, seqByRun, at, left, call>>
      /\ ~Settled /\ stage \notin {"over"}
  BY DEF IInv, Types, PersistOutcome, tracing, Settled, Placed, Stages
<1>2. \A t \in Tracers : Finished(t)
  BY DEF IInv, Placed, PersistOutcome, Tracers
<1>3. Sound /\ \A t \in Tracers : call[t] = 0
  BY <1>2 DEF IInv, Sound, Carrying, Finished, Appends
<1>4. log = 1 .. seqByRun
  <2>1. Covered /\ \A n \in 1 .. seqByRun : Recorded(n)
    BY <1>1, <1>3 DEF IInv, GapFree
  <2>2. \A n \in 1 .. seqByRun : n \in log
    <3> SUFFICES ASSUME NEW n \in 1 .. seqByRun, NEW t \in Tracers, call[t] = n PROVE FALSE
      BY <2>1 DEF Recorded
    <3> QED BY <1>3 DEF IInv, Types
  <2>3. \A n \in log : n \in 1 .. seqByRun
    BY <2>1 DEF IInv, Types, Covered
  <2> QED BY <2>2, <2>3
<1>5. Types' /\ Carrying' /\ SeqNeverReused'
  BY <1>1 DEF IInv, Types, Carrying, SeqNeverReused
<1>6. Placed'
  BY <1>1, <1>2 DEF PersistOutcome, Placed, Finished, Tracers
<1>7. Covered'
  BY <1>1, <1>3 DEF IInv, Covered
<1>8. GapFree' /\ Whole'
  BY <1>1, <1>4 DEF GapFree, Whole, Settled, IInv, Types
<1> QED BY <1>5, <1>6, <1>7, <1>8 DEF IInv

LEMMA GraphFailsKeeps == ASSUME IInv, GraphFails PROVE IInv'
<1>1. /\ run' = "error" /\ stage' = "over" /\ stage # "over"
      /\ UNCHANGED <<log, seqByRun, at, left, call>>
  BY DEF GraphFails, tracing
<1>2. PICK t \in Tracers : at[t] = "stopped"
  BY DEF GraphFails
<1>3. ~Settled /\ Covered
  <2>1. ~Settled
    BY <1>2, SettledCarriesNone DEF Finished
  <2> QED BY <2>1, <1>1 DEF IInv, Dormant, Settled
<1>4. ~Sound'
  BY <1>1, <1>2 DEF Sound
<1> QED
  BY <1>1, <1>3, <1>4
  DEF IInv, Types, Stages, Carrying, SeqNeverReused, Covered, Placed, GapFree, Whole, Settled

(* The highest row is the last number given, for the log has no gap.       *)
LEMMA ResumeKeeps == ASSUME IInv, Resume PROVE IInv'
<1>1. /\ run = "waiting_approval" /\ run' = "running" /\ stage' = "decided"
      /\ left' = [left EXCEPT ![Main] = 1] /\ seqByRun' = Highest(log)
      /\ UNCHANGED <<log, at, call>> /\ stage = "parked"
  BY DEF Resume, InitializeSequence, IInv, Placed
<1>2. \A t \in Tracers : call[t] = 0 /\ Finished(t)
  BY <1>1, SettledCarriesNone DEF Settled
<1>3. PICK n \in Nat : log = 1 .. n
  BY <1>1 DEF IInv, Whole, Settled
<1>4. Highest(log) = n
  <2>1. n \in log \cup {0} /\ \A y \in log \cup {0} : n >= y
    BY <1>3
  <2>2. \A m \in log \cup {0} : (\A y \in log \cup {0} : m >= y) => m = n
    BY <1>3, <2>1
  <2> QED BY <2>1, <2>2 DEF Highest, Max
<1>5. Types' /\ Carrying' /\ SeqNeverReused'
  <2>1. left' \in [Tracers -> Int]
    <3>1. Main \in Tracers /\ left \in [Tracers -> Int]
      BY DEF Tracers, IInv, Types
    <3> QED BY <1>1, <3>1
  <2>2. Types'
    BY <1>1, <1>4, <2>1 DEF IInv, Types, Stages
  <2>3. Carrying' /\ SeqNeverReused'
    BY <1>1 DEF IInv, Carrying, SeqNeverReused
  <2> QED BY <2>2, <2>3
<1>6. Placed'
  <2>1. \A l \in Lanes : Finished(l)'
    BY <1>1, <1>2, TracersAssumption DEF Finished, IInv, Types, Tracers
  <2> QED BY <1>1, <2>1 DEF Placed
<1>7. Covered'
  BY <1>1, <1>2, <1>3, <1>4 DEF Covered
<1>8. GapFree' /\ Whole'
  BY <1>1, <1>3, <1>4 DEF GapFree, Whole, Settled, Recorded
<1> QED BY <1>5, <1>6, <1>7, <1>8 DEF IInv

(* What was in memory is gone: a run that was settled is silent, and one   *)
(* that was not is lost.                                                   *)
LEMMA RestartKeeps == ASSUME IInv, Restart PROVE IInv'
<1>1. PICK landed \in SUBSET {call[t] : t \in Tracers} : log' = log \cup (landed \ {0})
  BY DEF Restart
<1>2. /\ seqByRun' = 0 /\ run' = run
      /\ call' = [t \in Tracers |-> 0] /\ left' = [t \in Tracers |-> 0]
  BY DEF Restart
<1>3. log' \subseteq Nat \ {0}
  BY <1>1 DEF IInv, Types
<1>4. SeqNeverReused'
  BY <1>2 DEF SeqNeverReused
<1>5. CASE Settled
  <2>1. UNCHANGED <<at, stage>> /\ \A t \in Tracers : call[t] = 0 /\ Finished(t)
    BY <1>5, SettledCarriesNone DEF Restart, Settled
  <2>2. log' = log
    BY <1>1, <2>1
  <2>3. \A t \in Tracers : Finished(t)' /\ Silent(t)'
    BY <1>2, <2>1 DEF Finished, Silent
  <2>4. Types' /\ Carrying'
    BY <1>2, <1>3, <2>1 DEF IInv, Types, Carrying
  <2>5. Placed' /\ Dormant'
    BY <1>2, <1>5, <2>1, <2>3 DEF IInv, Placed, Dormant, Settled, Tracers
  <2>6. GapFree' /\ Whole' /\ Settled'
    BY <1>2, <1>5, <2>2 DEF IInv, GapFree, Whole, Settled
  <2> QED BY <1>4, <2>4, <2>5, <2>6 DEF IInv
<1>6. CASE ~Settled
  <2>1. at' = [t \in Tracers |-> "lost"] /\ stage' = "over"
    BY <1>6 DEF Restart, Settled
  <2>2. Types' /\ Carrying'
    BY <1>2, <1>3, <2>1 DEF IInv, Types, Carrying, Places, Appends, Stages
  <2>3. Placed' /\ Dormant'
    BY <1>2, <1>6, <2>1 DEF Placed, Dormant, Silent, Settled
  <2>4. ~Sound'
    BY <2>1 DEF Sound, Tracers
  <2>5. GapFree' /\ Whole'
    BY <1>2, <1>6, <2>4 DEF GapFree, Whole, Settled
  <2> QED BY <1>4, <2>2, <2>3, <2>4, <2>5 DEF IInv
<1> QED BY <1>5, <1>6

(* The stream only looks.                                                  *)
LEMMA Outside == ASSUME IInv, UNCHANGED tracked PROVE IInv'
BY DEF tracked, tracing, IInv, Types, Carrying, Placed, SeqNeverReused, Covered,
       Dormant, Silent, Finished, GapFree, Recorded, Sound, Settled, Whole

LEMMA StepIInv == ASSUME IInv, [Next]_vars PROVE IInv'
<1>1. CASE \E t \in Tracers : Trace(t)
  BY <1>1, TraceKeeps
<1>2. CASE FanOut \/ SkipLanes \/ JoinLanes \/ AskApproval \/ Close
  BY <1>2, StagesKeep
<1>3. CASE Interrupt \/ PersistOutcome \/ GraphFails
  BY <1>3, InterruptKeeps, PersistOutcomeKeeps, GraphFailsKeeps
<1>4. CASE Resume \/ Restart
  BY <1>4, ResumeKeeps, RestartKeeps
<1>5. CASE Open \/ Stream \/ Disconnect
  BY <1>5, Outside DEF Open, Stream, ReadRun, ReadSteps, Emit, Disconnect, tracked
<1>6. CASE UNCHANGED vars
  BY <1>6, Outside DEF vars, tracked
<1> QED BY <1>1, <1>2, <1>3, <1>4, <1>5, <1>6 DEF Next, Graph

-----------------------------------------------------------------------------
(* No number is ever given twice, though lanes number concurrently, a      *)
(* resumed run numbers on from its rows and the process may start again    *)
(* in between (trace, initializeSequence).                                 *)
THEOREM NumbersAreNew == Spec => []SeqNeverReused
<1>1. IInv => SeqNeverReused
  BY DEF IInv
<1> QED BY <1>1, InitIInv, StepIInv, PTL DEF Spec

(* A run that waits or is done has every event of its log, and none is     *)
(* under way (persistOutcome after graph.invoke).                          *)
THEOREM SettledIsWhole == Spec => []SettledLogIsWhole
<1>1. ASSUME IInv, Settled
      PROVE  log = 1 .. Cardinality(log) /\ \A t \in Tracers : call[t] = 0
  <2>1. PICK n \in Nat : log = 1 .. n
    BY <1>1 DEF IInv, Whole
  <2>2. Cardinality(log) = n
    BY <2>1, FS_Interval
  <2> QED BY <1>1, <2>1, <2>2, SettledCarriesNone
<1>2. IInv => SettledLogIsWhole
  BY <1>1 DEF SettledLogIsWhole, Settled
<1> QED BY <1>2, InitIInv, StepIInv, PTL DEF Spec
-----------------------------------------------------------------------------
(* A stream opened on a run that is done reads a log that no longer moves. *)
LateInv ==
  late =>
    /\ run = "done"
    /\ viewer = "reading" =>
         /\ emitted = {} /\ lastSeq = 0
         /\ "run" \in reads => seenRun = "done"
         /\ "steps" \in reads => seenSteps = log
    /\ viewer = "told" => emitted = log

LEMMA InitLateInv == Init => LateInv
BY DEF Init, LateInv

(* Neither the run nor its log moves once it is done.                      *)
LEMMA DoneIsStill ==
  ASSUME IInv, run = "done", [Next]_vars
  PROVE  run' = "done" /\ log' = log
<1>1. stage = "over" /\ \A t \in Tracers : call[t] = 0 /\ Finished(t)
  BY SettledCarriesNone DEF Settled, IInv, Placed
<1>2. CASE \E t \in Tracers : Trace(t)
  BY <1>1, <1>2
  DEF Trace, StartNode, EndNode, NodeThrows, Inserted, Rejected, Finished, Appends
<1>3. CASE Graph
  BY <1>1, <1>3
  DEF Graph, FanOut, SkipLanes, JoinLanes, AskApproval, Interrupt, Close, PersistOutcome,
      GraphFails
<1>4. CASE Restart
  <2>1. PICK landed \in SUBSET {call[t] : t \in Tracers} : log' = log \cup (landed \ {0})
    BY <1>4 DEF Restart
  <2>2. log' = log
    BY <1>1, <2>1
  <2> QED BY <1>4, <2>2 DEF Restart
<1>5. CASE Resume \/ Open \/ Stream \/ Disconnect \/ UNCHANGED vars
  BY <1>5 DEF Resume, Open, Stream, ReadRun, ReadSteps, Emit, Disconnect, vars
<1> QED BY <1>2, <1>3, <1>4, <1>5 DEF Next

(* A step of the run leaves the stream where it is.                        *)
LEMMA StreamKeeps ==
  ASSUME LateInv, late => (run' = "done" /\ log' = log), UNCHANGED stream
  PROVE  LateInv'
BY DEF LateInv, stream

LEMMA StepLateInv == ASSUME IInv, LateInv, [Next]_vars PROVE LateInv'
<1>1. late => (run' = "done" /\ log' = log)
  BY DoneIsStill DEF LateInv
<1>2. CASE \E t \in Tracers : Trace(t)
  BY <1>1, <1>2, StreamKeeps
  DEF Trace, StartNode, EndNode, NodeThrows, Inserted, Rejected
<1>3. CASE Graph \/ Resume \/ UNCHANGED vars
  BY <1>1, <1>3, StreamKeeps
  DEF Graph, FanOut, SkipLanes, JoinLanes, AskApproval, Interrupt, Close, PersistOutcome,
      GraphFails, Enter, Resume, vars
<1>4. CASE Open
  BY <1>4 DEF Open, OpenAtStart, LateInv
<1>5. CASE Restart \/ Disconnect
  BY <1>1, <1>5 DEF Restart, Disconnect, LateInv
<1>6. CASE ReadRun
  BY <1>6 DEF ReadRun, LateInv
<1>7. CASE ReadSteps
  BY <1>7 DEF ReadSteps, LateInv
<1>8. CASE Emit
  <2> SUFFICES ASSUME late PROVE LateInv'
    BY <1>8 DEF Emit, LateInv
  <2>1. /\ run = "done" /\ seenRun = "done" /\ seenSteps = log
        /\ emitted = {} /\ lastSeq = 0
    BY <1>8 DEF Emit, LateInv
  <2>2. NewSteps(seenSteps) = log
    <3>1. \A n \in log : n > 0
      BY DEF IInv, Types
    <3> QED BY <2>1, <3>1 DEF NewSteps
  <2>3. emitted' = log /\ viewer' = "told" /\ run' = run /\ log' = log
    BY <1>8, <2>1, <2>2 DEF Emit, EndOnTerminal
  <2> QED BY <2>1, <2>3 DEF LateInv
<1> QED BY <1>2, <1>3, <1>4, <1>5, <1>6, <1>7, <1>8 DEF Next, Stream

(* Whoever opens the stream of a run that is done is told the whole log,   *)
(* although the run and its steps are read separately and the process may  *)
(* start again while he reads.                                             *)
THEOREM LateViewerIsTold == Spec => []LateViewerSeesAll
<1>1. LateInv => LateViewerSeesAll
  BY DEF LateInv, LateViewerSeesAll
<1>2. IInv /\ LateInv /\ [Next]_vars => IInv' /\ LateInv'
  BY StepIInv, StepLateInv
<1> QED BY <1>1, <1>2, InitIInv, InitLateInv, PTL DEF Spec
=============================================================================
