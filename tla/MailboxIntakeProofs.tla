------------------------ MODULE MailboxIntakeProofs ------------------------
(***************************************************************************)
(* The mailbox poller, for any mailbox, any number of e-mails and of       *)
(* cycles, and whatever fails: one run of an e-mail, and none dropped.     *)
(*                                                                         *)
(* One cycle runs at a time, and what it has still to take is not marked.  *)
(* So an e-mail that is listed never ran, unless a mark or the process     *)
(* failed, or the ledger forgot it.                                        *)
(***************************************************************************)
EXTENDS MailboxIntake, SequenceTheorems, FiniteSetTheorems, WellFoundedInduction, TLAPS

Handling == {"ignore", "authorize", "invoke", "processed", "error"}
Labels   == Handling \cup {"ended", "list", "next"}

Types ==
  /\ provider \in {"imap", "resend"}
  /\ arrived \in Seq(Mails)
  /\ done \subseteq Mails
  /\ ledger \in Seq(Mails) /\ Len(ledger) <= MaxTracked
  /\ pc \in [Cycles -> Labels]
  /\ todo \in [Cycles -> SUBSET (1 .. Len(arrived))]
  /\ started \in [Mails -> 0 .. MaxCount]
  /\ ended \in [Mails -> {"never", "running", "ok", "failed"}]

Unique == \A i, j \in 1 .. Len(arrived) : arrived[i] = arrived[j] => i = j

(* createSerializedMailboxPoll: the flag is up exactly for one cycle.      *)
Serial ==
  \A c \in Cycles : pc[c] # "ended" => inFlight /\ \A d \in Cycles \ {c} : pc[d] = "ended"

Holds ==
  \A c \in Cycles :
    /\ pc[c] \in {"ended", "list"} => todo[c] = {}
    /\ pc[c] \in Handling => todo[c] # {}

Ledger ==
  /\ torn => outage
  /\ provider = "resend" => done = ToSet(ledger)

(* The e-mail a cycle handles is one its label stands for.                 *)
Sorted ==
  \A c \in Cycles :
    /\ pc[c] = "ignore" => Current(c) \in Strangers
    /\ pc[c] = "authorize" => Current(c) \notin Strangers
    /\ pc[c] = "processed" => ended[Current(c)] = "ok"

Ran(c) == pc[c] \in {"invoke", "processed", "error"}

Unread == outage \/ \A c \in Cycles : \A i \in todo[c] : arrived[i] \notin done

Unmarked ==
  \A m \in Mails \ done :
    \/ started[m] = 0 \/ outage \/ evicted
    \/ \E c \in Cycles : Ran(c) /\ Current(c) = m

IInv ==
  /\ Types /\ Unique /\ Serial /\ Holds /\ Ledger /\ Sorted
  /\ Unread /\ Unmarked
  /\ \A m \in Strangers : started[m] = 0
  /\ OneRunPerMail /\ NothingDropped
-----------------------------------------------------------------------------
(* The smallest of a set of places is one of them.                         *)
LEMMA Smallest == ASSUME NEW S \in SUBSET Nat, S # {} PROVE Min(S) \in S
<1> DEFINE Below == {0 .. x : x \in S}
<1>1. IsWellFoundedOn(StrictSubsetOrdering(Nat), FiniteSubsetsOf(Nat))
  BY FS_StrictSubsetOrderingWellFounded
<1>2. Below \subseteq FiniteSubsetsOf(Nat) /\ Below # {}
  <2>1. \A x \in S : IsFiniteSet(0 .. x)
    BY FS_Interval
  <2>2. \A x \in S : 0 .. x \subseteq Nat
    OBVIOUS
  <2> QED BY <2>1, <2>2 DEF FiniteSubsetsOf
<1>3. PICK B \in Below : \A A \in Below : ~ (<<A, B>> \in StrictSubsetOrdering(Nat))
  <2> HIDE DEF Below
  <2> QED BY <1>1, <1>2, WFMin
<1>4. PICK x \in S : B = 0 .. x
  OBVIOUS
<1>5. ASSUME NEW y \in S PROVE x <= y
  <2> SUFFICES ASSUME y < x PROVE FALSE
    OBVIOUS
  <2>1. 0 .. y \subseteq 0 .. x /\ 0 .. y # 0 .. x
    BY x \in 0 .. x /\ x \notin 0 .. y
  <2>2. <<0 .. y, 0 .. x>> \in StrictSubsetOrdering(Nat)
    BY <2>1 DEF StrictSubsetOrdering
  <2> QED BY <1>3, <1>4, <2>2
<1> QED BY <1>5 DEF Min

LEMMA CurrentIsMail ==
  ASSUME Types, NEW c \in Cycles, todo[c] # {}
  PROVE  Min(todo[c]) \in todo[c] /\ Min(todo[c]) \in 1 .. Len(arrived) /\ Current(c) \in Mails
<1>1. todo[c] \in SUBSET (1 .. Len(arrived)) /\ Len(arrived) \in Nat
  BY DEF Types
<1>2. todo[c] \in SUBSET Nat
  BY <1>1
<1>3. Min(todo[c]) \in todo[c]
  BY <1>2, Smallest
<1>4. Min(todo[c]) \in 1 .. Len(arrived)
  BY <1>1, <1>3
<1> QED BY <1>3, <1>4 DEF Types, Current

(* A cycle goes on, while the others are ended.                            *)
Turns(c, label, S) ==
  /\ pc[c] # "ended" \/ ~inFlight
  /\ pc' = [pc EXCEPT ![c] = label] /\ todo' = [todo EXCEPT ![c] = S]
  /\ label # "ended" => inFlight'
  /\ label \in {"ended", "list"} => S = {}
  /\ label \in Handling => S # {}

LEMMA Turn ==
  ASSUME IInv, NEW c \in Cycles, NEW label \in Labels,
         NEW S \in SUBSET (1 .. Len(arrived)), Turns(c, label, S), arrived' = arrived
  PROVE  /\ pc' \in [Cycles -> Labels] /\ todo' \in [Cycles -> SUBSET (1 .. Len(arrived))]
         /\ pc'[c] = label /\ todo'[c] = S /\ Current(c)' = arrived[Min(S)]
         /\ \A d \in Cycles \ {c} : /\ pc[d] = "ended" /\ todo[d] = {}
                                    /\ pc'[d] = "ended" /\ todo'[d] = {}
         /\ Serial' /\ Holds' /\ Unique'
<1>1. /\ pc' \in [Cycles -> Labels] /\ todo' \in [Cycles -> SUBSET (1 .. Len(arrived))]
      /\ pc'[c] = label /\ todo'[c] = S
      /\ \A d \in Cycles \ {c} : pc'[d] = pc[d] /\ todo'[d] = todo[d]
  BY DEF Turns, IInv, Types
<1>2. \A d \in Cycles \ {c} : pc[d] = "ended"
  BY DEF Turns, IInv, Serial
<1>3. \A d \in Cycles \ {c} : todo[d] = {}
  BY <1>2 DEF IInv, Holds
<1>4. Serial'
  BY <1>1, <1>2 DEF Turns, Serial
<1>5. Holds'
  BY <1>1, <1>2, <1>3 DEF Turns, Holds, Handling
<1>6. Unique' /\ Current(c)' = arrived[Min(S)]
  BY <1>1 DEF IInv, Unique, Current
<1> QED BY <1>1, <1>2, <1>3, <1>4, <1>5, <1>6

(* A step that marks nothing.                                              *)
LEMMA QuietKeeps ==
  ASSUME IInv, NEW c \in Cycles, NEW label \in Labels,
         NEW S \in SUBSET (1 .. Len(arrived)), Turns(c, label, S),
         UNCHANGED mailbox, evicted' = evicted, outage => outage',
         started' \in [Mails -> 0 .. MaxCount],
         ended' \in [Mails -> {"never", "running", "ok", "failed"}],
         \A m \in Strangers : started'[m] = 0,
         outage' \/ \A i \in S : arrived[i] \notin done,
         label = "ignore" => arrived[Min(S)] \in Strangers,
         label = "authorize" => arrived[Min(S)] \notin Strangers,
         label = "processed" => ended'[arrived[Min(S)]] = "ok",
         OneRunPerMail', NothingDropped',
         \A m \in Mails \ done :
           \/ started'[m] = 0 \/ outage' \/ evicted
           \/ label \in {"invoke", "processed", "error"} /\ arrived[Min(S)] = m
  PROVE  IInv'
<1>1. UNCHANGED <<provider, arrived, done, flagged, ledger, torn>>
  BY DEF mailbox
<1>2. /\ pc' \in [Cycles -> Labels] /\ todo' \in [Cycles -> SUBSET (1 .. Len(arrived))]
      /\ pc'[c] = label /\ todo'[c] = S /\ Current(c)' = arrived[Min(S)]
      /\ \A d \in Cycles \ {c} : pc'[d] = "ended" /\ todo'[d] = {}
      /\ Serial' /\ Holds' /\ Unique'
  BY <1>1, Turn
<1>3. Types'
  BY <1>1, <1>2 DEF IInv, Types
<1>4. Ledger'
  BY <1>1 DEF IInv, Ledger
<1>5. Sorted'
  BY <1>2 DEF Sorted
<1>6. Unread'
  BY <1>1, <1>2 DEF Unread
<1>7. Unmarked'
  BY <1>1, <1>2 DEF Unmarked, Ran
<1> QED BY <1>2, <1>3, <1>4, <1>5, <1>6, <1>7 DEF IInv

(* A step that neither marks nor runs anything.                            *)
LEMMA StillKeeps ==
  ASSUME IInv, NEW c \in Cycles, NEW label \in Labels,
         NEW S \in SUBSET (1 .. Len(arrived)), Turns(c, label, S),
         UNCHANGED <<mailbox, started, ended, evicted>>, outage => outage',
         outage \/ \A i \in S : arrived[i] \notin done,
         label = "ignore" => arrived[Min(S)] \in Strangers,
         label = "authorize" => arrived[Min(S)] \notin Strangers,
         label \notin {"processed", "invoke"}, ~Ran(c)
  PROVE  IInv'
<1>1. UNCHANGED <<provider, arrived, done, flagged, ledger, torn>>
  BY DEF mailbox
<1>2. \A m \in Mails \ done : started[m] = 0 \/ outage \/ evicted
  <2>1. \A d \in Cycles : ~Ran(d)
    BY DEF Turns, IInv, Serial, Ran
  <2> QED BY <2>1 DEF IInv, Unmarked
<1>3. OneRunPerMail' /\ NothingDropped'
  BY <1>1 DEF IInv, OneRunPerMail, NothingDropped
<1>4. /\ \A m \in Strangers : started'[m] = 0
      /\ started' \in [Mails -> 0 .. MaxCount]
      /\ ended' \in [Mails -> {"never", "running", "ok", "failed"}]
  BY DEF IInv, Types
<1> QED BY <1>1, <1>2, <1>3, <1>4, QuietKeeps
-----------------------------------------------------------------------------
LEMMA ArriveKeeps == ASSUME IInv, NEW m \in Mails, Arrive(m) PROVE IInv'
<1>1. /\ arrived' = Append(arrived, m) /\ m \notin ToSet(arrived)
      /\ UNCHANGED <<provider, done, flagged, ledger, torn, inFlight, pc, todo,
                     started, ended, outage, evicted>>
  BY DEF Arrive, cycle, history
<1>2. arrived \in Seq(Mails) /\ Len(arrived) \in Nat
  BY DEF IInv, Types
<1>3. /\ arrived' \in Seq(Mails) /\ Len(arrived') = Len(arrived) + 1
      /\ \A i \in 1 .. Len(arrived) : arrived'[i] = arrived[i]
      /\ arrived'[Len(arrived) + 1] = m
  BY <1>1, <1>2, AppendProperties
<1>4. Types'
  <2>1. todo \in [Cycles -> SUBSET (1 .. Len(arrived'))]
    BY <1>2, <1>3 DEF IInv, Types
  <2> QED BY <1>1, <1>3, <2>1 DEF IInv, Types
<1>5. Unique'
  <2>1. \A i \in 1 .. Len(arrived) : arrived[i] # m
    BY <1>1, <1>2 DEF ToSet
  <2> QED BY <1>2, <1>3, <2>1 DEF IInv, Unique
<1>6. ASSUME NEW c \in Cycles, pc[c] \in Handling PROVE Current(c)' = Current(c)
  <2>1. Min(todo[c]) \in 1 .. Len(arrived)
    BY <1>6, CurrentIsMail DEF IInv, Holds
  <2> QED BY <1>1, <1>3, <2>1 DEF Current
<1>7. Serial' /\ Holds' /\ Ledger'
  BY <1>1 DEF IInv, Serial, Holds, Ledger
<1>8. Sorted'
  BY <1>1, <1>6 DEF IInv, Sorted, Handling
<1>9. Unread'
  <2>1. ASSUME NEW c \in Cycles, NEW i \in todo[c] PROVE arrived'[i] = arrived[i]
    BY <1>3 DEF IInv, Types
  <2> QED BY <1>1, <2>1 DEF IInv, Unread
<1>10. Unmarked'
  <2>1. ASSUME NEW c \in Cycles, Ran(c) PROVE Ran(c)' /\ Current(c)' = Current(c)
    BY <1>1, <1>6, <2>1 DEF Ran, Handling
  <2> QED BY <1>1, <2>1 DEF IInv, Unmarked
<1>11. OneRunPerMail' /\ NothingDropped' /\ \A x \in Strangers : started'[x] = 0
  BY <1>1 DEF IInv, OneRunPerMail, NothingDropped
<1> QED BY <1>4, <1>5, <1>7, <1>8, <1>9, <1>10, <1>11 DEF IInv

(* The steps of a cycle that neither mark nor run anything.                *)
LEMMA StillActions ==
  ASSUME IInv, NEW c \in Cycles,
         Tick(c) \/ ListUnread(c) \/ ListFails(c) \/ LastMail(c) \/ Fetch(c)
           \/ FetchFails(c) \/ AuthorizeFails(c)
  PROVE  IInv'
<1>1. /\ pc \in [Cycles -> Labels] /\ todo \in [Cycles -> SUBSET (1 .. Len(arrived))]
      /\ todo[c] \in SUBSET (1 .. Len(arrived))
  BY DEF IInv, Types
<1>2. \A kind : Fault(kind) => (outage => outage')
  BY DEF Fault
<1>3. outage \/ \A i \in todo[c] : arrived[i] \notin done
  BY DEF IInv, Unread
<1>4. todo = [todo EXCEPT ![c] = todo[c]]
  BY <1>1
<1>5. pc[c] \in {"ended", "list"} => todo[c] = {}
  BY DEF IInv, Holds
<1>6. pc[c] # "ended" => inFlight
  BY DEF IInv, Serial
<1>b. {} \in SUBSET (1 .. Len(arrived))
  OBVIOUS
<1>e. {"list", "next", "ended", "ignore", "authorize", "error"} \subseteq Labels
  BY DEF Labels, Handling
<1> USE DEF Moves, Goto
<1>7. CASE Tick(c)
  <2>1. /\ Turns(c, "list", {}) /\ ~Ran(c) /\ outage' = outage
        /\ UNCHANGED <<mailbox, started, ended, evicted>>
    BY <1>1, <1>4, <1>5, <1>7 DEF Tick, MayTick, history, Turns, Ran, Handling
  <2> QED BY <1>b, <1>e, <2>1, StillKeeps
<1>8. CASE ListUnread(c)
  <2> DEFINE S == {i \in DOMAIN arrived : ~ Unlisted(arrived[i])}
  <2>1. S \in SUBSET (1 .. Len(arrived)) /\ \A i \in S : arrived[i] \notin done
    BY DEF Unlisted, IInv, Types
  <2>2. /\ pc[c] = "list" /\ pc' = [pc EXCEPT ![c] = "next"]
        /\ todo' = [todo EXCEPT ![c] = S]
        /\ UNCHANGED <<mailbox, inFlight, started, ended, outage, evicted>>
    BY <1>8 DEF ListUnread, history
  <2> HIDE DEF S
  <2>3. Turns(c, "next", S) /\ ~Ran(c)
    BY <1>6, <2>2 DEF Turns, Ran, Handling
  <2> QED BY <1>e, <2>1, <2>2, <2>3, StillKeeps
<1>9. ASSUME EndCycle(c), pc[c] \in {"list", "next"}, outage => outage',
             UNCHANGED <<mailbox, started, ended, evicted>>
      PROVE  IInv'
  <2>1. Turns(c, "ended", {}) /\ ~Ran(c)
    BY <1>9 DEF EndCycle, Turns, Ran, Handling
  <2> QED BY <1>9, <1>b, <1>e, <2>1, StillKeeps
<1>10. CASE ListFails(c)
  BY <1>2, <1>9, <1>10 DEF ListFails
<1>11. CASE LastMail(c)
  BY <1>9, <1>11 DEF LastMail, history
<1>12. CASE FetchFails(c)
  BY <1>2, <1>9, <1>12 DEF FetchFails
<1>13. CASE Fetch(c)
  <2>1. /\ pc[c] = "next" /\ todo[c] # {} /\ UNCHANGED <<mailbox, inFlight, todo, history>>
        /\ pc' = [pc EXCEPT ![c] = IF Current(c) \in Strangers THEN "ignore" ELSE "authorize"]
    BY <1>13 DEF Fetch
  <2>2. UNCHANGED <<mailbox, started, ended, evicted>> /\ outage' = outage /\ ~Ran(c)
    BY <2>1 DEF history, Ran
  <2>3. CASE Current(c) \in Strangers
    <3>1. Turns(c, "ignore", todo[c])
      BY <1>1, <1>4, <1>6, <2>1, <2>3 DEF Turns, Handling
    <3> QED BY <1>1, <1>3, <1>e, <2>2, <2>3, <3>1, StillKeeps DEF Current
  <2>4. CASE Current(c) \notin Strangers
    <3>1. Turns(c, "authorize", todo[c])
      BY <1>1, <1>4, <1>6, <2>1, <2>4 DEF Turns, Handling
    <3> QED BY <1>1, <1>3, <1>e, <2>2, <2>4, <3>1, StillKeeps DEF Current
  <2> QED BY <2>3, <2>4
<1>14. CASE AuthorizeFails(c)
  <2>1. /\ pc[c] = "authorize" /\ todo[c] # {} /\ (outage => outage')
        /\ UNCHANGED <<mailbox, inFlight, todo, started, ended, evicted>>
        /\ pc' = [pc EXCEPT ![c] = "error"]
    BY <1>2, <1>14 DEF AuthorizeFails, IInv, Holds, Handling
  <2>2. Turns(c, "error", todo[c]) /\ ~Ran(c)
    BY <1>1, <1>4, <1>6, <2>1 DEF Turns, Handling, Ran
  <2> QED BY <1>1, <1>3, <1>e, <2>1, <2>2, StillKeeps
<1> QED BY <1>7, <1>8, <1>10, <1>11, <1>12, <1>13, <1>14
(* A run starts, and ends: of an e-mail that is neither marked nor ran.    *)
LEMMA RunActions ==
  ASSUME IInv, NEW c \in Cycles, Authorize(c) \/ InvokeReturns(c) \/ InvokeThrows(c)
  PROVE  IInv'
<1> DEFINE m == Current(c)
<1>1. /\ pc[c] \in {"authorize", "invoke"} /\ todo[c] # {}
      /\ pc \in [Cycles -> Labels] /\ todo \in [Cycles -> SUBSET (1 .. Len(arrived))]
      /\ todo[c] \in SUBSET (1 .. Len(arrived)) /\ todo = [todo EXCEPT ![c] = todo[c]]
      /\ started \in [Mails -> 0 .. MaxCount]
      /\ ended \in [Mails -> {"never", "running", "ok", "failed"}]
  BY DEF Authorize, InvokeReturns, InvokeThrows, Moves, IInv, Holds, Types, Handling
<1>2. m \in Mails /\ Min(todo[c]) \in todo[c] /\ m = arrived[Min(todo[c])]
  BY <1>1, CurrentIsMail DEF IInv, Current
<1>3. outage \/ \A i \in todo[c] : arrived[i] \notin done
  BY DEF IInv, Unread
<1>4. outage \/ m \notin done
  BY <1>2, <1>3
<1>5. inFlight /\ \A d \in Cycles \ {c} : ~Ran(d)
  BY <1>1 DEF IInv, Serial, Ran
<1>6. {"invoke", "processed", "error"} \subseteq Labels
  BY DEF Labels, Handling
<1>7. \A x \in Strangers : started[x] = 0
  BY DEF IInv
<1>8. OneRunPerMail /\ NothingDropped
  BY DEF IInv
<1> HIDE DEF m
<1>9. CASE Authorize(c)
  <2>1. /\ pc[c] = "authorize" /\ pc' = [pc EXCEPT ![c] = "invoke"]
        /\ started' = [started EXCEPT ![m] = IF @ = MaxCount THEN @ ELSE @ + 1]
        /\ ended' = [ended EXCEPT ![m] = "running"]
        /\ UNCHANGED <<mailbox, inFlight, todo, outage, evicted>>
    BY <1>9 DEF Authorize, Moves, Goto, m
  <2>2. Turns(c, "invoke", todo[c])
    BY <1>1, <1>5, <2>1 DEF Turns, Handling
  <2>3. /\ started' \in [Mails -> 0 .. MaxCount]
        /\ ended' \in [Mails -> {"never", "running", "ok", "failed"}]
    BY <1>1, <1>2, <2>1 DEF MaxCount
  <2>4. m \notin Strangers
    BY <2>1 DEF m, IInv, Sorted
  <2>5. \A x \in Strangers : started'[x] = 0
    BY <1>1, <1>2, <1>7, <2>1, <2>4, MailsAssumption
  <2>6. \A x \in Mails \ done : x # m => started'[x] = 0 \/ outage \/ evicted
    BY <1>1, <1>5, <2>1 DEF IInv, Unmarked, Ran
  <2>7. started[m] = 0 \/ outage \/ evicted
    BY <1>1, <1>2, <1>4, <1>5, <2>1 DEF IInv, Unmarked, Ran
  <2>8. OneRunPerMail'
    BY <1>1, <1>2, <1>8, <2>1, <2>7 DEF OneRunPerMail, MaxCount
  <2>9. NothingDropped'
    <3>1. \A x \in Mails : x # m => started'[x] = started[x] /\ ended'[x] = ended[x]
      BY <1>1, <2>1
    <3>2. UNCHANGED <<done, flagged, outage>>
      BY <2>1 DEF mailbox
    <3>3. done \subseteq Mails
      BY DEF IInv, Types
    <3> QED BY <1>4, <1>8, <3>1, <3>2, <3>3 DEF NothingDropped
  <2> QED BY <1>1, <1>2, <1>3, <1>6, <2>1, <2>2, <2>3, <2>5, <2>6, <2>8, <2>9, QuietKeeps
<1>10. ASSUME NEW label \in {"processed", "error"}, pc[c] = "invoke",
              pc' = [pc EXCEPT ![c] = label], NEW how \in {"ok", "failed"},
              ended' = [ended EXCEPT ![m] = how], label = "processed" => how = "ok",
              UNCHANGED <<mailbox, inFlight, todo, started, evicted>>, outage => outage'
       PROVE  IInv'
  <2>1. Turns(c, label, todo[c])
    BY <1>1, <1>5, <1>10 DEF Turns, Handling
  <2>2. ended' \in [Mails -> {"never", "running", "ok", "failed"}] /\ ended'[m] = how
    BY <1>1, <1>2, <1>10
  <2>3. \A x \in Mails \ done : x # m => started[x] = 0 \/ outage \/ evicted
    <3>1. \A d \in Cycles : Ran(d) => d = c
      BY <1>5
    <3> QED BY <3>1 DEF IInv, Unmarked, m
  <2>4. OneRunPerMail'
    BY <1>8, <1>10 DEF OneRunPerMail
  <2>5. NothingDropped'
    <3>1. \A x \in Mails : x # m => ended'[x] = ended[x]
      BY <1>1, <1>10
    <3>2. UNCHANGED <<done, flagged>>
      BY <1>10 DEF mailbox
    <3>3. done \subseteq Mails
      BY DEF IInv, Types
    <3> QED BY <1>4, <1>8, <1>10, <3>1, <3>2, <3>3 DEF NothingDropped
  <2> QED BY <1>1, <1>2, <1>3, <1>6, <1>7, <1>10, <2>1, <2>2, <2>3, <2>4, <2>5, QuietKeeps
<1>11. CASE InvokeReturns(c)
  BY <1>10, <1>11 DEF InvokeReturns, Moves, Goto, m
<1>12. CASE InvokeThrows(c)
  BY <1>10, <1>12 DEF InvokeThrows, Fault, Moves, Goto, m
<1> QED BY <1>9, <1>11, <1>12
-----------------------------------------------------------------------------
(* What the ledger holds after an e-mail is recorded.                      *)
LEMMA RecordedIs ==
  ASSUME Types, NEW m \in Mails
  PROVE  /\ Recorded(m) \in Seq(Mails) /\ Len(Recorded(m)) <= MaxTracked
         /\ m \in ToSet(Recorded(m)) /\ ToSet(Recorded(m)) \subseteq ToSet(ledger) \cup {m}
<1> USE BoundsAssumption DEF ToSet
<1>1. ledger \in Seq(Mails) /\ Len(ledger) \in Nat /\ Len(ledger) <= MaxTracked
  BY DEF Types
<1>2. CASE m \in ToSet(ledger)
  <2>1. Recorded(m) = ledger
    BY <1>1, <1>2 DEF Recorded
  <2> QED BY <1>1, <1>2, <2>1
<1>3. CASE m \notin ToSet(ledger)
  <2> DEFINE keys == Append(ledger, m)
             first == Len(keys) - MaxTracked + 1
             rest  == SubSeq(keys, first, Len(keys))
  <2>1. /\ keys \in Seq(Mails) /\ Len(keys) = Len(ledger) + 1
        /\ \A i \in 1 .. Len(ledger) : keys[i] = ledger[i]
        /\ keys[Len(ledger) + 1] = m
    BY <1>1, AppendProperties
  <2>2. Recorded(m) = IF Len(keys) > MaxTracked THEN rest ELSE keys
    BY <1>3 DEF Recorded
  <2> HIDE DEF keys
  <2>3. CASE Len(keys) <= MaxTracked
    <3>1. Recorded(m) = keys
      BY <1>1, <2>1, <2>2, <2>3
    <3> QED BY <1>1, <2>1, <2>3, <3>1
  <2>4. CASE Len(keys) > MaxTracked
    <3>1. Len(keys) = MaxTracked + 1 /\ first = 2
      BY <1>1, <2>1, <2>4
    <3>2. \A i \in 2 .. MaxTracked + 1 : keys[i] \in Mails
      BY <2>1, <3>1
    <3>3. /\ rest \in Seq(Mails) /\ Len(rest) = MaxTracked
          /\ \A i \in 1 .. MaxTracked : rest[i] = keys[i + 1]
      BY <3>1, <3>2, SubSeqProperties
    <3>4. Recorded(m) = rest
      BY <2>2, <2>4
    <3> HIDE DEF rest
    <3>5. m \in ToSet(rest)
      BY <1>1, <2>1, <3>1, <3>3
    <3>6. ToSet(rest) \subseteq ToSet(ledger) \cup {m}
      <4> SUFFICES ASSUME NEW i \in 1 .. MaxTracked PROVE rest[i] \in ToSet(ledger) \cup {m}
        BY <3>3
      <4>1. rest[i] = keys[i + 1] /\ Len(ledger) = MaxTracked
        BY <1>1, <2>1, <3>1, <3>3
      <4>2. CASE i = MaxTracked
        BY <2>1, <4>1, <4>2
      <4>3. CASE i # MaxTracked
        <5>1. i + 1 \in DOMAIN ledger /\ keys[i + 1] = ledger[i + 1]
          BY <1>1, <2>1, <4>1, <4>3
        <5> QED BY <4>1, <5>1
      <4> QED BY <4>2, <4>3
    <3>7. Len(rest) <= MaxTracked
      BY <3>3
    <3> HIDE DEF ToSet
    <3> QED BY <3>3, <3>4, <3>5, <3>6, <3>7
  <2>5. Len(keys) <= MaxTracked \/ Len(keys) > MaxTracked
    BY <1>1, <2>1
  <2> QED BY <2>3, <2>4, <2>5
<1> QED BY <1>2, <1>3

(* What marking an e-mail does, whatever the kind of mailbox.              *)
LEMMA FinishMarks ==
  ASSUME IInv, NEW m \in Mails, NEW outcome, Finish(m, outcome)
  PROVE  /\ done' \subseteq Mails /\ ledger' \in Seq(Mails) /\ Len(ledger') <= MaxTracked
         /\ m \in done' /\ done' \subseteq done \cup {m}
         /\ (evicted => evicted') /\ (done \subseteq done' \/ evicted')
         /\ provider = "resend" => done' = ToSet(ledger')
         /\ \A x \in done' \ {m} : x \in flagged => x \in flagged'
         /\ outcome = "error" => m \in flagged'
<1>1. Types
  BY DEF IInv
<1>2. CASE provider = "imap"
  BY <1>1, <1>2 DEF Finish, FinishImap, Types
<1>3. CASE provider = "resend"
  <2>1. /\ ledger' = Recorded(m) /\ done' = ToSet(ledger')
        /\ flagged' = ((flagged \ {m}) \cup (IF outcome = "error" THEN {m} ELSE {})) \cap done'
        /\ evicted' = (evicted \/ ~ done \subseteq done')
    BY <1>3 DEF Finish, FinishResend
  <2>2. done = ToSet(ledger) /\ done \subseteq Mails
    BY <1>1, <1>3 DEF IInv, Ledger, Types
  <2>3. /\ ledger' \in Seq(Mails) /\ Len(ledger') <= MaxTracked
        /\ m \in done' /\ done' \subseteq done \cup {m}
    BY <1>1, <2>1, <2>2, RecordedIs
  <2> QED BY <2>1, <2>2, <2>3
<1> QED BY <1>1, <1>2, <1>3 DEF Types

LEMMA FinishKeeps ==
  ASSUME IInv, NEW c \in Cycles, pc[c] \in {"ignore", "processed", "error"},
         NEW outcome, Finish(Current(c), outcome), pc[c] = "error" => outcome = "error",
         NextMail(c) \/ EndCycle(c),
         UNCHANGED <<provider, arrived, torn, started, ended, outage>>
  PROVE  IInv'
<1> DEFINE m == Current(c)
<1>1. /\ todo[c] # {} /\ inFlight /\ \A d \in Cycles \ {c} : ~Ran(d)
      /\ todo[c] \in SUBSET (1 .. Len(arrived))
  BY DEF IInv, Holds, Handling, Serial, Ran, Types
<1>2. /\ m \in Mails /\ Min(todo[c]) \in todo[c] /\ Min(todo[c]) \in 1 .. Len(arrived)
      /\ m = arrived[Min(todo[c])]
  BY <1>1, CurrentIsMail DEF IInv, Current
<1>3. PICK label \in {"next", "ended"}, S \in SUBSET (todo[c] \ {Min(todo[c])}) :
        Turns(c, label, S)
  <2>1. CASE NextMail(c)
    <3>1. Turns(c, "next", todo[c] \ {Min(todo[c])})
      BY <1>1, <2>1 DEF NextMail, Goto, Turns, Handling, IInv, Types
    <3> QED BY <3>1
  <2>2. CASE EndCycle(c)
    <3>1. Turns(c, "ended", {})
      BY <2>2 DEF EndCycle, Goto, Turns, Handling
    <3> QED BY <3>1
  <2> QED BY <2>1, <2>2
<1> HIDE DEF m
<1>4. S \in SUBSET (1 .. Len(arrived)) /\ label \in Labels
  BY <1>1, <1>3 DEF Labels
<1>5. /\ pc' \in [Cycles -> Labels] /\ todo' \in [Cycles -> SUBSET (1 .. Len(arrived))]
      /\ pc'[c] = label /\ todo'[c] = S
      /\ \A d \in Cycles \ {c} : pc'[d] = "ended" /\ todo'[d] = {}
      /\ Serial' /\ Holds' /\ Unique'
  BY <1>3, <1>4, Turn
<1>6. /\ done' \subseteq Mails /\ ledger' \in Seq(Mails) /\ Len(ledger') <= MaxTracked
      /\ m \in done' /\ done' \subseteq done \cup {m}
      /\ (evicted => evicted') /\ (done \subseteq done' \/ evicted')
      /\ provider = "resend" => done' = ToSet(ledger')
      /\ \A x \in done' \ {m} : x \in flagged => x \in flagged'
      /\ outcome = "error" => m \in flagged'
  BY <1>2, FinishMarks DEF m
<1>7. Types' /\ Ledger'
  BY <1>5, <1>6 DEF IInv, Types, Ledger
<1>8. Sorted'
  BY <1>5 DEF Sorted
<1>9. Unread'
  <2>1. ASSUME NEW i \in S PROVE arrived[i] # m
    BY <1>1, <1>2, <2>1 DEF IInv, Unique
  <2>2. outage \/ \A i \in S : arrived[i] \notin done
    BY DEF IInv, Unread
  <2>3. outage \/ \A i \in S : arrived[i] \notin done'
    BY <1>6, <2>1, <2>2
  <2> QED BY <1>5, <2>3 DEF Unread
<1>10. Unmarked'
  <2>1. \A x \in Mails \ done : x # m => started[x] = 0 \/ outage \/ evicted
    BY <1>1 DEF IInv, Unmarked, m
  <2>2. \A x \in Mails \ done' : started[x] = 0 \/ outage \/ evicted'
    BY <1>6, <2>1
  <2> QED BY <2>2 DEF Unmarked
<1>11. OneRunPerMail'
  BY <1>6 DEF IInv, OneRunPerMail
<1>12. NothingDropped'
  <2> SUFFICES ASSUME NEW x \in done'
               PROVE  \/ x \in Strangers /\ started[x] = 0
                      \/ ended[x] = "ok" \/ x \in flagged' \/ outage
    BY DEF NothingDropped
  <2>1. CASE x = m
    BY <1>6, <2>1 DEF IInv, Sorted, m
  <2>2. CASE x # m
    BY <1>6, <2>2 DEF IInv, NothingDropped
  <2> QED BY <2>1, <2>2
<1>13. \A x \in Strangers : started'[x] = 0
  BY DEF IInv
<1> QED BY <1>5, <1>7, <1>8, <1>9, <1>10, <1>11, <1>12, <1>13 DEF IInv

(* After an outage only the shape of the state is left to keep.            *)
LEMMA OutageKeeps ==
  ASSUME IInv, outage', UNCHANGED <<provider, arrived, started, ended>>,
         NEW c \in Cycles, todo[c] # {},
         UNCHANGED <<done, flagged, ledger, torn>> \/ HalfFinished(Current(c)),
         NEW label \in {"next", "ended", "error"}, NEW S \in SUBSET todo[c],
         Turns(c, label, S)
  PROVE  IInv'
<1>1. S \in SUBSET (1 .. Len(arrived)) /\ label \in Labels
  BY DEF IInv, Types, Labels, Handling
<1>2. /\ pc' \in [Cycles -> Labels] /\ todo' \in [Cycles -> SUBSET (1 .. Len(arrived))]
      /\ pc'[c] = label
      /\ \A d \in Cycles \ {c} : pc'[d] = "ended"
      /\ Serial' /\ Holds' /\ Unique'
  BY <1>1, Turn
<1>3. Current(c) \in Mails
  BY CurrentIsMail DEF IInv
<1>4. /\ done' \subseteq Mails /\ ledger' = ledger
      /\ provider = "resend" => done' = done
  BY <1>3 DEF HalfFinished, IInv, Types
<1>5. Types' /\ Ledger'
  BY <1>2, <1>4 DEF IInv, Types, Ledger
<1>6. Sorted'
  BY <1>2 DEF Sorted
<1>7. Unread' /\ Unmarked' /\ OneRunPerMail' /\ NothingDropped'
  BY DEF Unread, Unmarked, OneRunPerMail, NothingDropped
<1> QED BY <1>2, <1>5, <1>6, <1>7 DEF IInv
-----------------------------------------------------------------------------
LEMMA FinishActions ==
  ASSUME IInv, NEW c \in Cycles,
         FinishIgnored(c) \/ FinishProcessed(c) \/ FinishFailed(c)
  PROVE  IInv'
<1>1. CASE FinishIgnored(c)
  BY <1>1, FinishKeeps DEF FinishIgnored
<1>2. CASE FinishProcessed(c)
  BY <1>2, FinishKeeps DEF FinishProcessed
<1>3. CASE FinishFailed(c)
  BY <1>3, FinishKeeps DEF FinishFailed, AfterError
<1> QED BY <1>1, <1>2, <1>3

(* A mark that fails is an outage.                                         *)
LEMMA MarkActions ==
  ASSUME IInv, NEW c \in Cycles,
         FinishIgnoredFails(c) \/ FinishProcessedFails(c) \/ FinishFailedFails(c)
  PROVE  IInv'
<1>1. /\ pc[c] \in {"ignore", "processed", "error"} /\ inFlight /\ todo[c] # {}
      /\ todo[c] \in SUBSET (1 .. Len(arrived)) /\ todo = [todo EXCEPT ![c] = todo[c]]
      /\ UNCHANGED <<provider, arrived, started, ended>>
  <2>1. pc[c] \in {"ignore", "processed", "error"} /\ UNCHANGED <<provider, arrived, started, ended>>
    BY DEF FinishIgnoredFails, FinishProcessedFails, FinishFailedFails, Moves
  <2> QED BY <2>1 DEF IInv, Types, Serial, Holds, Handling
<1>2. Fault("mark") => outage'
  BY DEF Fault
<1>3. outage' /\ (UNCHANGED <<done, flagged, ledger, torn>> \/ HalfFinished(Current(c)))
  <2>1. CASE torn /\ FinishFailedFails(c)
    <3>1. UNCHANGED <<done, flagged, ledger, torn, outage>>
      BY <2>1 DEF FinishFailedFails
    <3> QED BY <2>1, <3>1 DEF IInv, Ledger
  <2>2. CASE ~torn /\ FinishFailedFails(c)
    BY <1>2, <2>2 DEF FinishFailedFails
  <2>3. CASE FinishIgnoredFails(c) \/ FinishProcessedFails(c)
    BY <1>2, <2>3 DEF FinishIgnoredFails, FinishProcessedFails
  <2> QED BY <2>1, <2>2, <2>3
<1>4. \E label \in {"next", "ended", "error"}, S \in SUBSET todo[c] : Turns(c, label, S)
  <2>1. CASE EndCycle(c)
    <3>1. Turns(c, "ended", {})
      BY <1>1, <2>1 DEF EndCycle, Goto, Turns, Handling
    <3> QED BY <3>1
  <2>2. CASE NextMail(c)
    <3>1. Turns(c, "next", todo[c] \ {Min(todo[c])})
      BY <1>1, <2>2 DEF NextMail, Goto, Turns, Handling, IInv, Types
    <3> QED BY <3>1
  <2>3. CASE FinishProcessedFails(c)
    <3>1. Turns(c, "error", todo[c])
      BY <1>1, <2>3 DEF FinishProcessedFails, Moves, Goto, Turns, Handling
    <3> QED BY <3>1
  <2> QED BY <2>1, <2>2, <2>3 DEF FinishIgnoredFails, FinishFailedFails, AfterError
<1> QED BY <1>1, <1>3, <1>4, OutageKeeps

LEMMA CrashKeeps == ASSUME IInv, Crash PROVE IInv'
<1>1. /\ pc' = [c \in Cycles |-> "ended"] /\ todo' = [c \in Cycles |-> {}] /\ outage'
      /\ UNCHANGED <<provider, arrived, started, ended>>
  BY DEF Crash, Fault
<1>2. done' \subseteq Mails /\ ledger' = ledger /\ (provider = "resend" => done' = done)
  <2>1. CASE UNCHANGED <<done, flagged, ledger, torn>>
    BY <2>1 DEF IInv, Types
  <2>2. ASSUME NEW c \in Cycles, pc[c] \in {"ignore", "processed", "error"},
               HalfFinished(Current(c))
        PROVE  done' \subseteq Mails /\ ledger' = ledger /\ (provider = "resend" => done' = done)
    <3>1. Current(c) \in Mails
      BY <2>2, CurrentIsMail DEF IInv, Holds, Handling
    <3> QED BY <2>2, <3>1 DEF HalfFinished, IInv, Types
  <2> QED BY <2>1, <2>2 DEF Crash
<1>3. Types'
  <2>1. pc' \in [Cycles -> Labels] /\ todo' \in [Cycles -> SUBSET (1 .. Len(arrived))]
    BY <1>1 DEF Labels
  <2> QED BY <1>1, <1>2, <2>1 DEF IInv, Types
<1>4. Unique' /\ Serial' /\ Holds' /\ Sorted'
  BY <1>1 DEF IInv, Unique, Serial, Holds, Sorted, Handling
<1>5. Ledger' /\ Unread' /\ Unmarked' /\ OneRunPerMail' /\ NothingDropped'
  BY <1>1, <1>2 DEF IInv, Ledger, Unread, Unmarked, OneRunPerMail, NothingDropped
<1>6. \A m \in Strangers : started'[m] = 0
  BY <1>1 DEF IInv
<1> QED BY <1>3, <1>4, <1>5, <1>6 DEF IInv

LEMMA InitIInv == Init => IInv
<1> SUFFICES ASSUME Init PROVE IInv
  OBVIOUS
<1>1. Types
  BY ProvidersAssumption, BoundsAssumption DEF Init, Types, Labels, MaxCount
<1>2. Unique /\ Serial /\ Holds /\ Sorted /\ Unread /\ Unmarked
  BY DEF Init, Unique, Serial, Holds, Sorted, Unread, Unmarked, Handling
<1>3. Ledger
  BY DEF Init, Ledger, ToSet
<1>4. (\A m \in Strangers : started[m] = 0) /\ OneRunPerMail /\ NothingDropped
  BY MailsAssumption DEF Init, OneRunPerMail, NothingDropped
<1> QED BY <1>1, <1>2, <1>3, <1>4 DEF IInv

LEMMA StepIInv == ASSUME IInv, [Next]_vars PROVE IInv'
<1>1. ASSUME NEW m \in Mails, Arrive(m) PROVE IInv'
  BY <1>1, ArriveKeeps
<1>2. ASSUME NEW c \in Cycles, Tick(c) \/ Proceed(c) \/ Failing(c) PROVE IInv'
  BY <1>2, StillActions, RunActions, FinishActions, MarkActions DEF Proceed, Failing
<1>3. CASE Crash
  BY <1>3, CrashKeeps
<1>4. CASE UNCHANGED vars
  <2>1. UNCHANGED <<provider, arrived, done, flagged, ledger, torn, inFlight, pc, todo,
                    started, ended, outage, evicted>>
    BY <1>4 DEF vars, mailbox, cycle, history
  <2>2. Types' /\ Unique' /\ Serial' /\ Holds' /\ Ledger'
    BY <2>1 DEF IInv, Types, Unique, Serial, Holds, Ledger
  <2>3. Sorted' /\ Unread' /\ Unmarked'
    BY <2>1 DEF IInv, Sorted, Unread, Unmarked, Ran, Current
  <2>4. (\A m \in Strangers : started'[m] = 0) /\ OneRunPerMail' /\ NothingDropped'
    BY <2>1 DEF IInv, OneRunPerMail, NothingDropped
  <2> QED BY <2>2, <2>3, <2>4 DEF IInv
<1> QED BY <1>1, <1>2, <1>3, <1>4 DEF Next

-----------------------------------------------------------------------------
(* An e-mail starts one run (createSerializedMailboxPoll, listUnread and   *)
(* finish): what is listed again after a cycle that stopped never ran.     *)
THEOREM MailRunsOnce == Spec => []OneRunPerMail
<1>1. IInv => OneRunPerMail
  BY DEF IInv
<1> QED BY <1>1, InitIInv, StepIInv, PTL DEF Spec

(* An e-mail leaves the list dealt with, or flagged for manual review      *)
(* (pollMailboxOnce).                                                      *)
THEOREM MailIsDealtWith == Spec => []NothingDropped
<1>1. IInv => NothingDropped
  BY DEF IInv
<1> QED BY <1>1, InitIInv, StepIInv, PTL DEF Spec
=============================================================================
