------------------------------ MODULE TmsLock -------------------------------
(***************************************************************************)
(* The lock that configureTmsHttpGeneration (tmsProbe.ts) takes around a   *)
(* change of the TMS connection: a bakery whose flags and tickets are      *)
(* directories of settings/tms-config-locks.                               *)
(*                                                                         *)
(* A call announces itself with a "choosing" directory, lists all tickets, *)
(* makes one with the next number and removes the announcement.  Then it   *)
(* lists the directory again and again, until no other live call is        *)
(* choosing or has an earlier ticket.  The name of a directory holds pid,  *)
(* boot and start time of its process; what a dead process left behind     *)
(* stays there and is ignored.  Whether a process is alive is asked after  *)
(* the listing, of the pids the asking process can see: processes in two   *)
(* containers do not see each other, and each takes the other's            *)
(* directories for leftovers.                                              *)
(*                                                                         *)
(* A listing is atomic, as one getdents of a small directory is, and a     *)
(* process can always read its own start time and that of those it sees.   *)
(* Calls stand for their random tokens, whose order breaks ties.  That the *)
(* numbers are used up would take 2^53 calls and is left out.              *)
(***************************************************************************)
EXTENDS Naturals

CONSTANTS Calls,      \* the calls, each with its own token
          Procs,      \* the onboarding processes
          ProcOf,     \* the process of a call
          Space       \* the PID namespace of a process

ASSUME CallsAssumption == Calls \subseteq Nat
ASSUME ProcOfAssumption == ProcOf \in [Calls -> Procs]

(* No two processes run in different containers.                           *)
OneSpace == \A x, y \in Procs : Space[x] = Space[y]

VARIABLES
  at,        \* where each call is
  choosing,  \* the calls whose choosing directory is there
  ticket,    \* the number of each call's ticket directory, 0 for none
  mine,      \* the number a call has chosen, 0 for none
  seen,      \* the live calls in a call's way when it last listed them
  alive      \* the processes that have not crashed

lock == <<at, choosing, ticket, mine, seen, alive>>

Choosers  == {"chosen", "numbered", "ticketed"}
Waiters   == {"waiting", "listed"}
Quitters  == {"unchoose", "unticket"}
Ended     == {"done", "failed"}

LockInit ==
  /\ at = [c \in Calls |-> "start"]
  /\ choosing = {} /\ alive = Procs
  /\ ticket = [c \in Calls |-> 0] /\ mine = [c \in Calls |-> 0]
  /\ seen = [c \in Calls |-> {}]

-----------------------------------------------------------------------------
Runs(c) == ProcOf[c] \in alive

(* isMatchingProcessIncarnation: c finds the process of d alive.           *)
Sees(c, d) == Space[ProcOf[c]] = Space[ProcOf[d]]

(* Mutant: what a dead process left behind is honoured.                    *)
HonoursDead(c, d) == Sees(c, d)

Honours(c, d) == Sees(c, d) /\ Runs(d)

(* compareLockTickets, with the number c keeps of its own ticket.          *)
Earlier(d, c) == ticket[d] < mine[c] \/ (ticket[d] = mine[c] /\ d < c)

(* Mutant: nobody waits for a call that is still choosing.                 *)
InTheWayNumbered(c) ==
  {d \in Calls \ {c} : Honours(c, d) /\ ticket[d] # 0 /\ Earlier(d, c)}

InTheWay(c) ==
  {d \in Calls \ {c} :
     /\ Honours(c, d)
     /\ d \in choosing \/ (ticket[d] # 0 /\ Earlier(d, c))}

At(c, places) == Runs(c) /\ at[c] \in places
Goto(c, place) == at' = [at EXCEPT ![c] = place]

-----------------------------------------------------------------------------
Choose(c) ==
  /\ At(c, {"start"}) /\ Goto(c, "chosen")
  /\ choosing' = choosing \union {c}
  /\ UNCHANGED <<ticket, mine, seen, alive>>

(* One more than every ticket in the directory, whoever it belongs to.     *)
Number(c) ==
  /\ At(c, {"chosen"})
  /\ \E highest \in {ticket[d] : d \in Calls} :
       /\ \A d \in Calls : highest >= ticket[d]
       /\ mine' = [mine EXCEPT ![c] = highest + 1]
  /\ Goto(c, "numbered")
  /\ UNCHANGED <<choosing, ticket, seen, alive>>

TakeTicket(c) ==
  /\ At(c, {"numbered"}) /\ Goto(c, "ticketed")
  /\ ticket' = [ticket EXCEPT ![c] = mine[c]]
  /\ UNCHANGED <<choosing, mine, seen, alive>>

Announced(c) ==
  /\ At(c, {"ticketed"}) /\ Goto(c, "waiting")
  /\ choosing' = choosing \ {c}
  /\ UNCHANGED <<ticket, mine, seen, alive>>

List(c) ==
  /\ At(c, {"waiting"}) /\ Goto(c, "listed")
  /\ seen' = [seen EXCEPT ![c] = InTheWay(c)]
  /\ UNCHANGED <<choosing, ticket, mine, alive>>

(* It waits ten milliseconds if it found somebody alive in its way.        *)
Retry(c) ==
  /\ At(c, {"listed"}) /\ seen[c] # {} /\ Goto(c, "waiting")
  /\ seen' = [seen EXCEPT ![c] = {}]
  /\ UNCHANGED <<choosing, ticket, mine, alive>>

(* It has the lock if nobody it listed is still alive.                     *)
Acquire(c) ==
  /\ At(c, {"listed"}) /\ \A d \in seen[c] : ~Runs(d)
  /\ Goto(c, "holding")
  /\ seen' = [seen EXCEPT ![c] = {}]
  /\ UNCHANGED <<choosing, ticket, mine, alive>>

(* The deadline passes, or a call to the file system fails: both           *)
(* directories are removed and the error goes on.                          *)
GiveUp(c) ==
  /\ At(c, Choosers \union Waiters) /\ Goto(c, "unchoose")
  /\ seen' = [seen EXCEPT ![c] = {}]
  /\ UNCHANGED <<choosing, ticket, mine, alive>>

Unchoose(c) ==
  /\ At(c, {"unchoose"}) /\ Goto(c, "unticket")
  /\ choosing' = choosing \ {c}
  /\ UNCHANGED <<ticket, mine, seen, alive>>

DropTicket(c, place) ==
  /\ Goto(c, place)
  /\ ticket' = [ticket EXCEPT ![c] = 0] /\ mine' = [mine EXCEPT ![c] = 0]
  /\ UNCHANGED <<choosing, seen, alive>>

Unticket(c) == At(c, {"unticket"}) /\ DropTicket(c, "failed")

(* The process dies with all its calls; its directories stay.              *)
Crash(p) ==
  /\ p \in alive /\ alive' = alive \ {p}
  /\ UNCHANGED <<at, choosing, ticket, mine, seen>>

(* What a call does in the lock once it has announced itself.              *)
LockStep(c) ==
  \/ Number(c) \/ TakeTicket(c) \/ Announced(c)
  \/ List(c) \/ Retry(c) \/ Acquire(c) \/ Unchoose(c) \/ Unticket(c)
=============================================================================
