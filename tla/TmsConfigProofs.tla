-------------------------- MODULE TmsConfigProofs --------------------------
(***************************************************************************)
(* The lock of TmsLock excludes for any number of calls and processes that *)
(* share one PID namespace, and with it the receipt of TmsConfig never     *)
(* vouches for credentials that were not probed.                           *)
(*                                                                         *)
(* A call is past another if it has listed the directory and not found it  *)
(* in its way, or holds the lock.  The invariant says that a call which is *)
(* past another comes before it: the other has no number yet, or a later   *)
(* ticket.  Two holders would each come before the other.                  *)
(***************************************************************************)
EXTENDS TmsConfig, TLAPS

Numbered == {"numbered", "ticketed"} \union Waiters \union Holders
Ticketed == {"ticketed"} \union Waiters \union Holders

(* A running call in these places has its directories and its number.      *)
TicketsInv ==
  \A c \in Calls : Runs(c) =>
    /\ at[c] \in Choosers => c \in choosing
    /\ at[c] \in Numbered => mine[c] > 0
    /\ at[c] \in Ticketed => ticket[c] = mine[c]

Past(c, d)   == at[c] \in Holders \/ (at[c] = "listed" /\ d \notin seen[c])
Before(c, d) == mine[c] < mine[d] \/ (mine[c] = mine[d] /\ c < d)

PastInv ==
  \A c, d \in Calls :
    Runs(c) /\ Runs(d) /\ c # d /\ Past(c, d) /\ at[d] \in Numbered
      => Before(c, d)

LockInv == TypeOK /\ TicketsInv /\ PastInv

(* What a running call in the lock knows of the files.                     *)
HolderInv ==
  \A c \in Calls : Runs(c) =>
    /\ at[c] = "revise" => target[c] = revision + 1
    /\ at[c] \in {"adapt", "expose"} =>
         target[c] = revision /\ receipt.revision < revision
    /\ at[c] \in {"probe", "probed"} =>
         target[c] = revision /\ (env = want[c].key \/ undone)

ReceiptInv ==
  /\ receipt.revision =< revision
  /\ receipt.revision = revision /\ ~undone => env = receipt.key

FilesInv == HolderInv /\ ReceiptInv

-----------------------------------------------------------------------------
(* Types                                                                   *)

LEMMA InitTypeOK == Init => TypeOK
<1> SUFFICES ASSUME Init PROVE TypeOK
  OBVIOUS
<1>1. /\ at \in [Calls -> {"start"}] /\ choosing = {} /\ alive = Procs
      /\ ticket \in [Calls -> {0}] /\ mine \in [Calls -> {0}]
      /\ seen \in [Calls -> {{}}]
  BY DEF Init, LockInit
<1>2. /\ want \in [Calls -> {Nothing}] /\ target \in [Calls -> {0}]
      /\ probed \in [Calls -> {NoConfig}] /\ copy \in [Writers -> {Idle}]
      /\ imports = 0 /\ undone = FALSE
  BY DEF Init
<1>3. /\ revision = 0 /\ adapter = NoConfig /\ env = NoKey
      /\ receipt \in [revision : Nat, config : {NoConfig}, key : {NoKey}]
  BY DEF Init, NoReceipt
<1>4. /\ at \in [Calls -> {"start"} \union Choosers \union Waiters
                          \union Quitters \union Holders \union Ended]
      /\ choosing \subseteq Calls /\ alive \subseteq Procs
      /\ ticket \in [Calls -> Nat] /\ mine \in [Calls -> Nat]
      /\ seen \in [Calls -> SUBSET Calls]
  BY <1>1
<1>5. /\ want \in [Calls -> Wants \union {Nothing}]
      /\ target \in [Calls -> Nat]
      /\ probed \in [Calls -> Configs \union {NoConfig}]
      /\ copy \in [Writers -> Keys \union {NoKey, Idle}]
  BY <1>2
<1>7. imports \in 0..MaxImports
  BY <1>2, ConfigsAssumption
<1>8. undone \in BOOLEAN
  BY <1>2, Zenon
<1>6. /\ revision \in Nat
      /\ adapter \in Configs \union {NoConfig, Files, Torn}
      /\ env \in Keys \union {NoKey}
      /\ receipt \in [revision : Nat, config : Configs \union {NoConfig},
                       key : Keys \union {NoKey}]
  BY <1>3
<1> QED
  BY <1>4, <1>5, <1>6, <1>7, <1>8 DEF TypeOK

LEMMA StartTypeOK ==
  ASSUME TypeOK, NEW c \in Calls, Start(c) PROVE TypeOK'
BY ConfigsAssumption DEF Start, Choose, Goto, At, TypeOK, files, Choosers

LEMMA LockStepTypeOK ==
  ASSUME TypeOK, NEW c \in Calls,
         LockStep(c) \/ GiveUp(c), UNCHANGED <<files, kept>>
  PROVE  TypeOK'
<1> USE DEF TypeOK, files, kept, Goto, At, Choosers, Waiters, Quitters,
        Holders, Ended
<1>1. CASE Number(c)
  BY <1>1 DEF Number
<1>2. CASE TakeTicket(c)
  BY <1>2 DEF TakeTicket
<1>3. CASE Announced(c)
  BY <1>3 DEF Announced
<1>4. CASE List(c)
  BY <1>4 DEF List, InTheWay
<1>5. CASE Retry(c)
  BY <1>5 DEF Retry
<1>6. CASE Acquire(c)
  BY <1>6 DEF Acquire
<1>7. CASE GiveUp(c)
  BY <1>7 DEF GiveUp
<1>8. CASE Unchoose(c)
  BY <1>8 DEF Unchoose
<1>9. CASE Unticket(c)
  BY <1>9 DEF Unticket, DropTicket
<1> QED
  BY <1>1, <1>2, <1>3, <1>4, <1>5, <1>6, <1>7, <1>8, <1>9 DEF LockStep

LEMMA HolderTypeOK ==
  ASSUME TypeOK, NEW c \in Calls,
         Compare(c) \/ Revise(c) \/ Adapt(c) \/ Expose(c) \/ Probe(c)
           \/ Reject(c) \/ PersistReceipt(c) \/ Throw(c) \/ Release(c)
  PROVE  TypeOK'
<1> USE DEF TypeOK, files, kept, Goto, At, Holders
<1>w. want[c].key \in Keys \union {NoKey} /\ want[c].config \in Configs \union {NoConfig}
  BY ConfigsAssumption DEF Nothing
<1>1. CASE Compare(c)
  BY <1>1 DEF Compare, NextRevision
<1>2. CASE Revise(c)
  BY <1>2 DEF Revise
<1>3. CASE Adapt(c)
  BY <1>3, <1>w DEF Adapt
<1>4. CASE Expose(c)
  BY <1>4, <1>w DEF Expose
<1>5. CASE Probe(c)
  BY <1>5 DEF Probe, Conforms
<1>6. CASE Reject(c)
  BY <1>6 DEF Reject
<1>7. CASE PersistReceipt(c)
  BY <1>7, <1>w DEF PersistReceipt
<1>8. CASE Throw(c)
  BY <1>8 DEF Throw
<1>9. CASE Release(c)
  BY <1>9 DEF Release, DropTicket, Ended
<1> QED
  BY <1>1, <1>2, <1>3, <1>4, <1>5, <1>6, <1>7, <1>8, <1>9

LEMMA NextTypeOK == TypeOK /\ [Next]_vars => TypeOK'
<1> SUFFICES ASSUME TypeOK, [Next]_vars PROVE TypeOK'
  OBVIOUS
<1>1. ASSUME NEW c \in Calls, Start(c) PROVE TypeOK'
  BY <1>1, StartTypeOK
<1>2. ASSUME NEW c \in Calls, Work(c) \/ Fail(c) PROVE TypeOK'
  BY <1>2, LockStepTypeOK, HolderTypeOK DEF Work, Fail
<1>3. ASSUME NEW p \in Procs, Crash(p), UNCHANGED <<files, kept>>
      PROVE  TypeOK'
  BY <1>3 DEF Crash, TypeOK, files, kept
<1>4. ASSUME NEW w \in Writers, ReadEnv(w) PROVE TypeOK'
  BY <1>4 DEF ReadEnv, TypeOK, files, lock
<1>5. ASSUME NEW w \in Writers, RenameEnv(w) PROVE TypeOK'
  BY <1>5 DEF RenameEnv, TypeOK, lock
<1>6. CASE TruncateAdapter
  BY <1>6, ConfigsAssumption DEF TruncateAdapter, TypeOK, lock
<1>7. CASE FillAdapter
  BY <1>7 DEF FillAdapter, TypeOK, lock, kept
<1>8. CASE UNCHANGED vars
  BY <1>8 DEF vars, TypeOK, lock, files, kept
<1> QED
  BY <1>1, <1>2, <1>3, <1>4, <1>5, <1>6, <1>7, <1>8 DEF Next

(* Every variable of lock and files keeps its type.                        *)
THEOREM TypeCorrect == Spec => []TypeOK
BY InitTypeOK, NextTypeOK, PTL DEF Spec

-----------------------------------------------------------------------------
(* The lock                                                                *)

(* A step of call c that keeps the others where they are.                  *)
MovesOnly(c) ==
  /\ \A d \in Calls \ {c} :
       at'[d] = at[d] /\ mine'[d] = mine[d] /\ seen'[d] = seen[d]
         /\ ticket'[d] = ticket[d] /\ (d \in choosing <=> d \in choosing')
  /\ alive' = alive

LEMMA PlacesApart ==
  /\ "listed" \in Waiters /\ "listed" \notin Holders
  /\ {"start", "chosen"} \cap Numbered = {}
  /\ (Quitters \union Ended) \cap Numbered = {}
  /\ {"ticketed"} \union Waiters \union Holders = Ticketed
  /\ {"numbered"} \union Ticketed = Numbered
  /\ Choosers \cap (Waiters \union Holders) = {}
BY DEF Waiters, Holders, Numbered, Ticketed, Quitters, Ended, Choosers

(* A call without a number is past nobody, and nobody has to be before it. *)
LEMMA LeavingPast ==
  ASSUME LockInv, NEW c \in Calls, MovesOnly(c), at'[c] \notin Numbered
  PROVE  PastInv'
BY PlacesApart DEF LockInv, PastInv, Past, Before, MovesOnly, Runs, Numbered

LEMMA StartLock ==
  ASSUME LockInv, NEW c \in Calls, Choose(c) PROVE (TicketsInv /\ PastInv)'
<1> USE DEF Choose, At, Goto, LockInv
<1>1. MovesOnly(c) /\ at'[c] = "chosen" /\ c \in choosing'
  BY DEF MovesOnly, TypeOK
<1>2. PastInv'
  BY <1>1, LeavingPast, PlacesApart
<1>3. TicketsInv'
  BY <1>1, PlacesApart
  DEF TicketsInv, MovesOnly, Runs, Numbered, Ticketed, Waiters, Holders
<1> QED BY <1>2, <1>3

LEMMA LockStepLock ==
  ASSUME LockInv, OneSpace, NEW c \in Calls, LockStep(c) \/ GiveUp(c)
  PROVE  (TicketsInv /\ PastInv)'
<1> USE DEF LockInv, At, Goto
<1>0. ProcOf \in [Calls -> Procs]
  BY ProcOfAssumption
<1>1. CASE Number(c)
  <2>1. MovesOnly(c) /\ at'[c] = "numbered" /\ at[c] = "chosen" /\ Runs(c)
    BY <1>1 DEF Number, MovesOnly, TypeOK
  <2>2. mine'[c] \in Nat /\ \A d \in Calls : mine'[c] > ticket[d]
    BY <1>1 DEF Number, TypeOK
  <2>3. TicketsInv'
    BY <1>1, <2>1, <2>2
    DEF Number, TypeOK, TicketsInv, MovesOnly, Runs, Numbered, Ticketed,
        Choosers, Waiters, Holders
  <2>4. PastInv'
    <3> SUFFICES ASSUME NEW x \in Calls, NEW y \in Calls, Runs(x)', Runs(y)',
                        x # y, Past(x, y)', at'[y] \in Numbered
                 PROVE  Before(x, y)'
      BY DEF PastInv, Numbered
    <3>1. x # c /\ Past(x, y) /\ Runs(x) /\ Runs(y)
      BY <2>1 DEF Past, MovesOnly, Holders, Runs
    <3>2. CASE y = c
      <4>1. at[x] \in Ticketed
        BY <3>1 DEF Past, Ticketed, Waiters
      <4>2. mine[x] = ticket[x] /\ mine'[x] = mine[x]
        BY <3>1, <4>1, <2>1 DEF TicketsInv, MovesOnly
      <4> QED BY <3>2, <4>2, <2>2 DEF Before
    <3>3. CASE y # c
      BY <3>1, <3>3, <2>1 DEF PastInv, MovesOnly, Before
    <3> QED BY <3>2, <3>3
  <2> QED BY <2>3, <2>4
<1>2. CASE TakeTicket(c) \/ Announced(c) \/ Retry(c)
  <2>1. MovesOnly(c) /\ at[c] \in {"numbered", "ticketed", "listed"}
    BY <1>2 DEF TakeTicket, Announced, Retry, MovesOnly, TypeOK
  <2>2. at'[c] \in {"ticketed", "waiting"} /\ mine' = mine /\ Runs(c)
    BY <1>2 DEF TakeTicket, Announced, Retry, TypeOK
  <2>3. TicketsInv'
    <3>1. ticket'[c] = mine[c] /\ mine[c] > 0
      BY <1>2
      DEF TakeTicket, Announced, Retry, TypeOK, TicketsInv, Numbered,
          Ticketed, Waiters
    <3>2. at'[c] = "ticketed" => c \in choosing'
      BY <1>2
      DEF TakeTicket, Announced, Retry, TypeOK, TicketsInv, Choosers
    <3> QED
      BY <2>1, <2>2, <3>1, <3>2
      DEF TicketsInv, MovesOnly, Runs, Choosers
  <2>4. PastInv'
    <3>1. at[c] \in Numbered
      BY <2>1 DEF Numbered, Waiters
    <3>2. \A d \in Calls : ~Past(c, d)'
      BY <2>2 DEF Past, Holders
    <3>3. \A x, y \in Calls : x # c => (Past(x, y)' <=> Past(x, y))
      BY <2>1 DEF Past, MovesOnly
    <3> QED
      BY <2>1, <2>2, <3>1, <3>2, <3>3 DEF PastInv, MovesOnly, Before, Runs
  <2> QED BY <2>3, <2>4
<1>3. CASE List(c)
  <2>1. MovesOnly(c) /\ at'[c] = "listed" /\ at[c] = "waiting" /\ Runs(c)
        /\ seen'[c] = InTheWay(c)
        /\ mine' = mine /\ ticket' = ticket /\ choosing' = choosing
    BY <1>3 DEF List, MovesOnly, TypeOK
  <2>2. TicketsInv'
    BY <2>1
    DEF TicketsInv, MovesOnly, Runs, Choosers, Numbered, Ticketed, Waiters
  <2>3. PastInv'
    <3> SUFFICES ASSUME NEW x \in Calls, NEW y \in Calls, Runs(x)', Runs(y)',
                        x # y, Past(x, y)', at'[y] \in Numbered
                 PROVE  Before(x, y)
      BY <2>1 DEF PastInv, Before, Numbered
    <3>1. Runs(x) /\ Runs(y)
      BY <2>1 DEF MovesOnly, Runs
    <3>2. CASE x = c
      <4>1. y \notin InTheWay(c) /\ at[y] \in Numbered
        BY <2>1, <3>2 DEF Past, Holders, MovesOnly
      <4>2. Honours(c, y)
        BY <3>1, <1>0 DEF Honours, Sees, OneSpace
      <4>3. y \notin choosing /\ (ticket[y] = 0 \/ ~Earlier(y, c))
        BY <4>1, <4>2, <3>2 DEF InTheWay
      <4>4. ticket[y] = mine[y] /\ mine[y] > 0
        BY <4>1, <4>3, <3>1 DEF TicketsInv, Numbered, Ticketed, Choosers
      <4>5. mine[y] \in Nat /\ mine[c] \in Nat /\ c \in Nat /\ y \in Nat
        BY CallsAssumption DEF TypeOK
      <4> QED BY <4>3, <4>4, <4>5, <3>2 DEF Earlier, Before
    <3>3. CASE x # c
      <4>1. Past(x, y) /\ at[y] \in Numbered
        BY <3>3, <2>1 DEF Past, MovesOnly, Numbered, Waiters
      <4> QED BY <4>1, <3>1 DEF PastInv
    <3> QED BY <3>2, <3>3
  <2> QED BY <2>2, <2>3
<1>4. CASE Acquire(c)
  <2>1. MovesOnly(c) /\ at'[c] = "holding" /\ at[c] = "listed" /\ Runs(c)
        /\ mine' = mine /\ ticket' = ticket /\ choosing' = choosing
    BY <1>4 DEF Acquire, MovesOnly, TypeOK
  <2>2. TicketsInv'
    BY <2>1
    DEF TicketsInv, MovesOnly, Runs, Choosers, Numbered, Ticketed, Waiters
  <2>3. \A d \in Calls : Runs(d) => Past(c, d)
    BY <1>4, <2>1 DEF Acquire, Past
  <2>4. PastInv'
    <3> SUFFICES ASSUME NEW x \in Calls, NEW y \in Calls, Runs(x)', Runs(y)',
                        x # y, Past(x, y)', at'[y] \in Numbered
                 PROVE  Before(x, y)
      BY <2>1 DEF PastInv, Before, Numbered
    <3>1. Runs(x) /\ Runs(y) /\ at[y] \in Numbered
      BY <2>1 DEF MovesOnly, Runs, Numbered, Waiters
    <3>2. Past(x, y)
      BY <2>1, <2>3, <3>1 DEF Past, MovesOnly
    <3> QED BY <3>1, <3>2 DEF PastInv
  <2> QED BY <2>2, <2>4
<1>5. CASE GiveUp(c) \/ Unchoose(c) \/ Unticket(c)
  <2>1. MovesOnly(c) /\ at'[c] \in Quitters \union Ended
    BY <1>5
    DEF GiveUp, Unchoose, Unticket, DropTicket, MovesOnly, TypeOK, Quitters,
        Ended
  <2>2. PastInv'
    BY <2>1, LeavingPast, PlacesApart
  <2>3. TicketsInv'
    BY <2>1
    DEF TicketsInv, MovesOnly, Runs, Choosers, Numbered, Ticketed, Waiters,
        Holders, Quitters, Ended
  <2> QED BY <2>2, <2>3
<1> QED BY <1>1, <1>2, <1>3, <1>4, <1>5 DEF LockStep

(* What a call does while it holds the lock is nothing to the others.      *)
LEMMA HolderLock ==
  ASSUME LockInv, NEW c \in Calls,
         Compare(c) \/ Revise(c) \/ Adapt(c) \/ Expose(c) \/ Probe(c)
           \/ Reject(c) \/ PersistReceipt(c) \/ Throw(c) \/ Release(c)
  PROVE  (TicketsInv /\ PastInv)'
<1> USE DEF LockInv, At, Goto
<1>1. CASE Release(c)
  <2>1. MovesOnly(c) /\ at'[c] \in Ended
    BY <1>1 DEF Release, DropTicket, MovesOnly, TypeOK, Ended
  <2>2. PastInv'
    BY <2>1, LeavingPast, PlacesApart
  <2>3. TicketsInv'
    BY <2>1
    DEF TicketsInv, MovesOnly, Runs, Choosers, Numbered, Ticketed, Waiters,
        Holders, Ended
  <2> QED BY <2>2, <2>3
<1>2. CASE ~Release(c)
  <2>1. MovesOnly(c) /\ at[c] \in Holders /\ at'[c] \in Holders
        /\ mine' = mine /\ ticket' = ticket /\ choosing' = choosing
        /\ seen' = seen
    BY <1>2
    DEF Compare, Revise, Adapt, Expose, Probe, Reject, PersistReceipt, Throw,
        MovesOnly, TypeOK, Holders
  <2>2. TicketsInv'
    BY <2>1
    DEF TicketsInv, MovesOnly, Runs, Choosers, Numbered, Ticketed, Holders
  <2>3. PastInv'
    BY <2>1 DEF PastInv, Past, Before, MovesOnly, Runs, Numbered
  <2> QED BY <2>2, <2>3
<1> QED BY <1>1, <1>2

LEMMA FrameLock ==
  ASSUME LockInv, UNCHANGED <<at, choosing, ticket, mine, seen>>,
         alive' \subseteq alive
  PROVE  (TicketsInv /\ PastInv)'
BY DEF LockInv, TicketsInv, PastInv, Past, Before, Runs

LEMMA InitLockInv == Init => LockInv
<1> SUFFICES ASSUME Init PROVE TicketsInv /\ PastInv
  BY InitTypeOK DEF LockInv
<1>1. \A c \in Calls : at[c] = "start"
  BY DEF Init, LockInit
<1> QED
  BY <1>1, PlacesApart
  DEF TicketsInv, PastInv, Choosers, Numbered, Ticketed, Waiters, Holders

LEMMA NextLockInv ==
  ASSUME OneSpace, LockInv, [Next]_vars PROVE LockInv'
<1>1. TypeOK'
  BY NextTypeOK DEF LockInv
<1>2. (TicketsInv /\ PastInv)'
  <2>1. ASSUME NEW c \in Calls, Start(c) PROVE (TicketsInv /\ PastInv)'
    BY <2>1, StartLock DEF Start
  <2>2. ASSUME NEW c \in Calls, Work(c) \/ Fail(c)
        PROVE  (TicketsInv /\ PastInv)'
    BY <2>2, LockStepLock, HolderLock DEF Work, Fail
  <2>3. ASSUME NEW p \in Procs, Crash(p) PROVE (TicketsInv /\ PastInv)'
    BY <2>3, FrameLock DEF Crash
  <2>4. ASSUME UNCHANGED lock PROVE (TicketsInv /\ PastInv)'
    BY <2>4, FrameLock DEF lock
  <2>5. ASSUME NEW w \in Writers, ReadEnv(w) \/ RenameEnv(w)
        PROVE  UNCHANGED lock
    BY <2>5 DEF ReadEnv, RenameEnv
  <2>6. TruncateAdapter \/ FillAdapter \/ UNCHANGED vars => UNCHANGED lock
    BY DEF TruncateAdapter, FillAdapter, vars
  <2> QED BY <2>1, <2>2, <2>3, <2>4, <2>5, <2>6 DEF Next
<1> QED BY <1>1, <1>2 DEF LockInv

LEMMA LockInvExcludes == LockInv => MutualExclusion
<1> SUFFICES ASSUME LockInv, NEW c \in Calls, NEW d \in Calls,
                    At(c, Holders), At(d, Holders), c # d
             PROVE  FALSE
  BY DEF MutualExclusion
<1>1. Before(c, d) /\ Before(d, c)
  BY DEF LockInv, PastInv, Past, At, Numbered
<1> QED
  BY <1>1, CallsAssumption DEF Before, LockInv, TypeOK

LEMMA LockInvariant == ASSUME OneSpace PROVE Spec => []LockInv
<1>1. LockInv /\ [Next]_vars => LockInv'
  BY NextLockInv
<1> QED BY InitLockInv, <1>1, PTL DEF Spec

(* The lock excludes, if all processes share one PID namespace.            *)
THEOREM LockExcludes == ASSUME OneSpace PROVE Spec => []MutualExclusion
BY LockInvariant, LockInvExcludes, PTL

-----------------------------------------------------------------------------
(* The files                                                               *)

Inv == LockInv /\ FilesInv

LEMMA InitFilesInv == Init => FilesInv
<1> SUFFICES ASSUME Init PROVE FilesInv
  OBVIOUS
<1>1. \A c \in Calls : at[c] = "start"
  BY DEF Init, LockInit
<1> QED BY <1>1 DEF Init, NoReceipt, FilesInv, HolderInv, ReceiptInv

(* Whoever holds the lock, the others move without knowing of the files.   *)
LEMMA OthersUnaware ==
  ASSUME Inv, NEW c \in Calls, NEW d \in Calls, c # d,
         At(c, Holders), Runs(d)
  PROVE  at[d] \notin {"revise", "adapt", "expose", "probe", "probed"}
BY LockInvExcludes DEF Inv, MutualExclusion, At, Holders

LEMMA UnawareStep ==
  ASSUME Inv, NEW c \in Calls, UNCHANGED <<files, target, undone, alive>>,
         \A d \in Calls \ {c} : at'[d] = at[d] /\ want'[d] = want[d],
         at'[c] \notin {"revise", "adapt", "expose", "probe", "probed"}
  PROVE  FilesInv'
BY DEF Inv, FilesInv, HolderInv, ReceiptInv, Runs, files

LEMMA HolderFiles ==
  ASSUME Inv, NEW c \in Calls,
         Compare(c) \/ Revise(c) \/ Adapt(c) \/ Expose(c) \/ Probe(c)
           \/ Reject(c) \/ PersistReceipt(c) \/ Throw(c) \/ Release(c)
  PROVE  /\ FilesInv'
         /\ receipt' = receipt /\ ~HttpReady => ~HttpReady'
<1> USE DEF At, Goto
<1>1. at[c] \in Holders /\ Runs(c) /\ at' = [at EXCEPT ![c] = at'[c]]
      /\ alive' = alive /\ want' = want
  BY DEF Inv, LockInv, TypeOK, Compare, Revise, Adapt, Expose, Probe, Reject,
         PersistReceipt, Throw, Release, DropTicket, Holders, kept
<1>2. \A d \in Calls \ {c} : Runs(d) =>
        at'[d] \notin {"revise", "adapt", "expose", "probe", "probed"}
  BY <1>1, OthersUnaware DEF Inv, LockInv, TypeOK
<1>3. TypeOK /\ FilesInv
  BY DEF Inv, LockInv
<1>n. revision \in Nat /\ receipt.revision \in Nat
  BY <1>3 DEF TypeOK
<1>4. ASSUME /\ at'[c] = "revise" => target'[c] = revision' + 1
             /\ at'[c] \in {"adapt", "expose"} =>
                  target'[c] = revision' /\ receipt'.revision < revision'
             /\ at'[c] \in {"probe", "probed"} =>
                  target'[c] = revision' /\ (env' = want[c].key \/ undone')
      PROVE  HolderInv'
  BY <1>1, <1>2, <1>4 DEF HolderInv, Runs
<1>5. CASE Compare(c)
  <2>1. FilesInv'
    BY <1>1, <1>3, <1>4, <1>5
    DEF Compare, NextRevision, Changed, FilesInv, HolderInv, ReceiptInv, TypeOK, files
  <2> QED BY <2>1, <1>5 DEF Compare, files, HttpReady
<1>6. CASE Revise(c)
  <2>1. revision' = revision + 1 /\ target' = target /\ at'[c] = "adapt"
        /\ UNCHANGED <<adapter, env, receipt, undone>>
    BY <1>3, <1>6 DEF Revise, FilesInv, HolderInv, TypeOK, kept
  <2>2. receipt.revision < revision' /\ revision' = target[c]
    BY <1>3, <1>6, <2>1 DEF Revise, FilesInv, ReceiptInv, TypeOK
  <2>3. HolderInv'
    BY <1>4, <2>1, <2>2
  <2>4. receipt.revision =< revision' /\ receipt.revision # revision'
    BY <1>n, <2>1, <2>2
  <2> QED
    BY <2>1, <2>3, <2>4 DEF FilesInv, ReceiptInv, HttpReady
<1>7. CASE Adapt(c)
  <2>1. receipt.revision < revision /\ target[c] = revision
    BY <1>3, <1>7 DEF Adapt, FilesInv, HolderInv
  <2>2. at'[c] = "expose" /\ UNCHANGED <<revision, env, receipt, kept>>
    BY <1>3, <1>7 DEF Adapt, TypeOK
  <2>3. HolderInv'
    BY <1>4, <2>1, <2>2 DEF kept
  <2>4. receipt.revision # revision
    BY <1>n, <2>1
  <2> QED
    BY <1>3, <2>2, <2>3, <2>4 DEF FilesInv, ReceiptInv, HttpReady
<1>8. CASE Expose(c)
  <2>1. receipt.revision < revision /\ target[c] = revision
    BY <1>3, <1>8 DEF Expose, FilesInv, HolderInv
  <2>2. at'[c] = "probe" /\ UNCHANGED <<revision, adapter, receipt, target>>
        /\ env' = want[c].key
    BY <1>3, <1>8 DEF Expose, TypeOK
  <2>3. HolderInv'
    BY <1>4, <2>1, <2>2
  <2>4. receipt.revision # revision
    BY <1>n, <2>1
  <2> QED
    BY <1>3, <2>2, <2>3, <2>4 DEF FilesInv, ReceiptInv, HttpReady
<1>9. CASE Probe(c)
  BY <1>3, <1>4, <1>9
  DEF Probe, FilesInv, HolderInv, ReceiptInv, HttpReady, TypeOK, files
<1>10. CASE Reject(c) \/ Throw(c) \/ Release(c)
  <2>1. at'[c] \in {"fail", "done", "failed"} /\ UNCHANGED <<files, kept>>
    BY <1>3, <1>10 DEF Reject, Throw, Release, DropTicket, TypeOK
  <2> QED
    BY <1>3, <1>4, <2>1 DEF FilesInv, ReceiptInv, HttpReady, files, kept
<1>11. CASE PersistReceipt(c)
  <2>1. at'[c] = "release" /\ UNCHANGED <<revision, adapter, env, kept>>
        /\ receipt'.revision = target[c] /\ receipt'.key = want[c].key
    BY <1>3, <1>11 DEF PersistReceipt, TypeOK
  <2>2. target[c] = revision /\ (env = want[c].key \/ undone)
    BY <1>3, <1>11 DEF PersistReceipt, FilesInv, HolderInv
  <2>3. HolderInv'
    BY <1>4, <2>1
  <2>4. ReceiptInv'
    BY <1>n, <2>1, <2>2 DEF ReceiptInv, kept
  <2> QED
    BY <2>1, <2>3, <2>4 DEF FilesInv, HttpReady
<1> QED BY <1>5, <1>6, <1>7, <1>8, <1>9, <1>10, <1>11

LEMMA UnlockedFiles ==
  ASSUME Inv,
         \/ \E w \in Writers : ReadEnv(w) \/ RenameEnv(w)
         \/ TruncateAdapter \/ FillAdapter
  PROVE  FilesInv' /\ (~HttpReady => ~HttpReady')
<1> USE ConfigsAssumption
<1>1. UNCHANGED <<lock, revision, receipt, want, target>>
      /\ (adapter' = adapter \/ adapter' \in {Files, Torn})
  BY DEF ReadEnv, RenameEnv, TruncateAdapter, FillAdapter, files, kept
<1>2. (env' = env /\ undone' = undone) \/ undone' \/ env' = env
  BY DEF ReadEnv, RenameEnv, TruncateAdapter, FillAdapter, files, kept
<1>3. undone => undone'
  BY DEF ReadEnv, RenameEnv, TruncateAdapter, FillAdapter, files, kept
<1>4. FilesInv'
  BY <1>1, <1>2, <1>3 DEF Inv, FilesInv, HolderInv, ReceiptInv, Runs, lock
<1> QED BY <1>1, <1>4 DEF HttpReady

LEMMA NextFiles ==
  ASSUME Inv, [Next]_vars
  PROVE  FilesInv' /\ (receipt' = receipt /\ ~HttpReady => ~HttpReady')
<1>1. ASSUME NEW c \in Calls, Start(c) \/ LockStep(c) \/ GiveUp(c),
             Start(c) \/ UNCHANGED <<files, kept>>
      PROVE  FilesInv' /\ UNCHANGED files
  <2>1. UNCHANGED <<files, target, undone, alive>>
    BY <1>1
    DEF Start, Choose, LockStep, Number, TakeTicket, Announced, List, Retry,
        Acquire, GiveUp, Unchoose, Unticket, DropTicket, kept
  <2>2. /\ \A d \in Calls \ {c} : at'[d] = at[d] /\ want'[d] = want[d]
        /\ at'[c] \notin {"revise", "adapt", "expose", "probe", "probed"}
    BY <1>1
    DEF Start, Choose, LockStep, Number, TakeTicket, Announced, List, Retry,
        Acquire, GiveUp, Unchoose, Unticket, DropTicket, kept, Goto, Inv,
        LockInv, TypeOK
  <2> QED BY <2>1, <2>2, UnawareStep
<1>2. ASSUME NEW c \in Calls, Start(c) \/ Work(c) \/ Fail(c)
      PROVE  FilesInv' /\ (receipt' = receipt /\ ~HttpReady => ~HttpReady')
  BY <1>1, <1>2, HolderFiles DEF Work, Fail, files, HttpReady
<1>3. ASSUME NEW p \in Procs, Crash(p), UNCHANGED <<files, kept>>
      PROVE  FilesInv' /\ (~HttpReady => ~HttpReady')
  BY <1>3 DEF Crash, Inv, FilesInv, HolderInv, ReceiptInv, Runs, files, kept,
              HttpReady
<1>4. CASE UNCHANGED vars
  BY <1>4 DEF vars, lock, Inv, FilesInv, HolderInv, ReceiptInv, Runs, files,
              kept, HttpReady
<1> QED BY <1>2, <1>3, <1>4, UnlockedFiles DEF Next

LEMMA Invariant == ASSUME OneSpace PROVE Spec => []Inv
<1>1. Inv /\ [Next]_vars => Inv'
  BY NextLockInv, NextFiles DEF Inv
<1>2. Init => Inv
  BY InitLockInv, InitFilesInv DEF Inv
<1> QED BY <1>1, <1>2, PTL DEF Spec

(* No credentials pass for validated ones that were not probed, whatever   *)
(* crashes or fails, unless a writer without the lock undid a change.      *)
THEOREM ReadyProbed == ASSUME OneSpace PROVE Spec => []ReadyMeansProbed
<1>1. Inv => ReadyMeansProbed
  BY DEF Inv, FilesInv, ReceiptInv, ReadyMeansProbed, HttpReady
<1> QED BY <1>1, Invariant, PTL

(* The connection becomes ready by a new receipt and by nothing else.      *)
THEOREM ReceiptsMakeReady == ASSUME OneSpace PROVE Spec => OnlyReceiptsMakeReady
<1>1. Inv /\ [Next]_vars => [~HttpReady /\ HttpReady' => receipt' # receipt]_vars
  BY NextFiles
<1> QED BY <1>1, Invariant, PTL DEF Spec, OnlyReceiptsMakeReady
=============================================================================
