--------------------------- MODULE MailboxIntake ---------------------------
(***************************************************************************)
(* The mailbox poller: from an unread e-mail to one quote run.             *)
(*                                                                         *)
(* An interval timer starts a cycle, unless one is in flight.  A cycle     *)
(* lists the unread e-mails once and takes them one by one: fetch, check   *)
(* the sender, check the license, invoke the graph, mark the e-mail.  What *)
(* is not marked is listed again by the next cycle.                        *)
(*                                                                         *)
(* The mark is \Seen and \Flagged on an IMAP server, or a ledger file of   *)
(* the last MaxTracked e-mails for Resend, which knows no unread e-mails.  *)
(*                                                                         *)
(* Invoking the graph is one step here; QuoteRun models what it does.      *)
(***************************************************************************)
EXTENDS Naturals, Sequences, FiniteSets, SequencesExt

CONSTANTS Mails,       \* the e-mails that can arrive
          Strangers,   \* those from a domain that is not authorized
          Poison,      \* those whose fetch always rejects
          Providers,   \* the mailbox kinds: "imap", "resend"
          Cycles,      \* names for cycles under way
          MaxTracked,  \* MAX_TRACKED_IDS
          MaxFaults,   \* bound on the failures of a behaviour
          Faults       \* the kinds of failure that can happen

ASSUME MailsAssumption     == Strangers \subseteq Mails /\ Poison \subseteq Mails
ASSUME ProvidersAssumption == Providers \subseteq {"imap", "resend"}
ASSUME BoundsAssumption    == MaxTracked \in Nat \ {0} /\ MaxFaults \in Nat
ASSUME FaultsAssumption    ==
  Faults \subseteq {"list", "fetch", "license", "invoke",  \* a call rejects
                    "mark",     \* marking rejects, with or without effect
                    "crash"}    \* the process dies and starts again

MaxCount == 2   \* runs of one e-mail are counted up to "more than one"

VARIABLES
  provider,    \* the kind of mailbox, fixed
  arrived,     \* e-mails in the mailbox, oldest first
  done,        \* e-mails the mailbox no longer lists
  flagged,     \* e-mails marked for manual review
  ledger,      \* Resend: the keys of the ledger, oldest first
  torn,        \* Resend: the ledger file is not JSON
  inFlight,    \* createSerializedMailboxPoll's flag
  pc,          \* where a cycle is
  todo,        \* the places of the e-mails a cycle has still to take
  aborting,    \* the error being handled ends the cycle
  started,     \* history: how many runs an e-mail started
  ended,       \* history: how the last of them ended
  faults,      \* history: failures so far
  outage,      \* history: a mark or the process failed
  evicted      \* history: the ledger dropped an e-mail

mailbox == <<provider, arrived, done, flagged, ledger, torn>>
cycle   == <<inFlight, pc, todo, aborting>>
history == <<started, ended, faults, outage, evicted>>
vars    == <<mailbox, cycle, history>>

Init ==
  /\ provider \in Providers
  /\ arrived = <<>> /\ done = {} /\ flagged = {} /\ ledger = <<>> /\ torn = FALSE
  /\ inFlight = FALSE
  /\ pc = [c \in Cycles |-> "ended"]
  /\ todo = [c \in Cycles |-> {}]
  /\ aborting = [c \in Cycles |-> FALSE]
  /\ started = [m \in Mails |-> 0]
  /\ ended = [m \in Mails |-> "never"]
  /\ faults = 0 /\ outage = FALSE /\ evicted = FALSE

Fault(kind) ==
  /\ kind \in Faults
  /\ faults < MaxFaults
  /\ faults' = faults + 1
  /\ outage' = (outage \/ kind \in {"mark", "crash"})

Goto(c, label) == pc' = [pc EXCEPT ![c] = label]
Moves(c, from, to) == pc[c] = from /\ Goto(c, to)
Current(c) == arrived[Min(todo[c])]

EndCycleInFlight(c) ==
  /\ Goto(c, "ended")
  /\ todo' = [todo EXCEPT ![c] = {}]
  /\ aborting' = [aborting EXCEPT ![c] = FALSE]
  /\ UNCHANGED inFlight

(* A cycle's end resets the flag; nothing else does.                       *)
EndCycle(c) ==
  /\ Goto(c, "ended")
  /\ inFlight' = FALSE
  /\ todo' = [todo EXCEPT ![c] = {}]
  /\ aborting' = [aborting EXCEPT ![c] = FALSE]

(* The loop goes on to the next e-mail.                                    *)
NextMail(c) ==
  /\ todo' = [todo EXCEPT ![c] = @ \ {Min(@)}]
  /\ Goto(c, "next")
  /\ UNCHANGED <<inFlight, aborting>>

-----------------------------------------------------------------------------
Arrive(m) ==
  /\ m \notin ToSet(arrived)
  /\ arrived' = Append(arrived, m)
  /\ UNCHANGED <<provider, done, flagged, ledger, torn, cycle, history>>

TickAlways == TRUE
MayTick == ~ inFlight

Tick(c) ==
  /\ MayTick
  /\ Moves(c, "ended", "list")
  /\ inFlight' = TRUE
  /\ UNCHANGED <<mailbox, todo, aborting, history>>

Unlisted(m) == m \in done

ListUnread(c) ==
  /\ ~ torn
  /\ Moves(c, "list", "next")
  /\ todo' = [todo EXCEPT ![c] = {i \in DOMAIN arrived : ~ Unlisted(arrived[i])}]
  /\ UNCHANGED <<mailbox, inFlight, aborting, history>>

ListFails(c) ==
  /\ pc[c] = "list"
  /\ EndCycle(c)
  /\ IF torn THEN UNCHANGED <<faults, outage>> ELSE Fault("list")
  /\ UNCHANGED <<mailbox, started, ended, evicted>>

LastMail(c) ==
  /\ pc[c] = "next" /\ todo[c] = {}
  /\ EndCycle(c)
  /\ UNCHANGED <<mailbox, history>>

Fetch(c) ==
  /\ todo[c] # {} /\ Current(c) \notin Poison
  /\ Moves(c, "next", IF Current(c) \in Strangers THEN "ignore" ELSE "authorize")
  /\ UNCHANGED <<mailbox, inFlight, todo, aborting, history>>

(* Outside the try: the e-mail stays unmarked and the cycle ends.          *)
FetchFails(c) ==
  /\ pc[c] = "next" /\ todo[c] # {}
  /\ EndCycle(c)
  /\ IF Current(c) \in Poison THEN UNCHANGED <<faults, outage>> ELSE Fault("fetch")
  /\ UNCHANGED <<mailbox, started, ended, evicted>>

(* authorizeGraphRun, then invoke.                                         *)
Authorize(c) ==
  /\ Moves(c, "authorize", "invoke")
  /\ started' = [started EXCEPT ![Current(c)] = IF @ = MaxCount THEN @ ELSE @ + 1]
  /\ ended' = [ended EXCEPT ![Current(c)] = "running"]
  /\ UNCHANGED <<mailbox, inFlight, todo, aborting, faults, outage, evicted>>

AuthorizeFails(c) ==
  /\ Fault("license")
  /\ Moves(c, "authorize", "error")
  /\ aborting' = [aborting EXCEPT ![c] = TRUE]
  /\ UNCHANGED <<mailbox, inFlight, todo, started, ended, evicted>>

InvokeReturns(c) ==
  /\ Moves(c, "invoke", "processed")
  /\ ended' = [ended EXCEPT ![Current(c)] = "ok"]
  /\ UNCHANGED <<mailbox, inFlight, todo, aborting, started, faults, outage, evicted>>

(* Only an extraction error lets the cycle go on.                          *)
InvokeThrows(c) ==
  /\ Fault("invoke")
  /\ Moves(c, "invoke", "error")
  /\ ended' = [ended EXCEPT ![Current(c)] = "failed"]
  /\ \E fatal \in BOOLEAN : aborting' = [aborting EXCEPT ![c] = fatal]
  /\ UNCHANGED <<mailbox, inFlight, todo, started, evicted>>

-----------------------------------------------------------------------------
(* finish: what is marked, and how.                                        *)

(* The keys of the ledger after m is recorded: a known key keeps its       *)
(* place, and the oldest keys go.                                          *)
Recorded(m) ==
  LET keys == IF m \in ToSet(ledger) THEN ledger ELSE Append(ledger, m)
  IN  IF Len(keys) > MaxTracked THEN SubSeq(keys, Len(keys) - MaxTracked + 1, Len(keys))
                                ELSE keys

FinishImap(m, outcome) ==
  /\ done' = done \cup {m}
  /\ flagged' = IF outcome = "error" THEN flagged \cup {m} ELSE flagged
  /\ UNCHANGED <<ledger, evicted>>

FinishResend(m, outcome) ==
  /\ ledger' = Recorded(m)
  /\ done' = ToSet(ledger')
  /\ flagged' = ((flagged \ {m}) \cup (IF outcome = "error" THEN {m} ELSE {})) \cap done'
  /\ evicted' = (evicted \/ ~ done \subseteq done')

Finish(m, outcome) ==
  IF provider = "imap" THEN FinishImap(m, outcome) ELSE FinishResend(m, outcome)

(* A finish that rejects: an IMAP server may have set \Seen and not        *)
(* \Flagged; writing the ledger may have emptied it.                       *)
HalfFinished(m) ==
  \/ UNCHANGED <<done, flagged, ledger, torn>>
  \/ /\ provider = "imap"
     /\ done' = done \cup {m} /\ UNCHANGED <<flagged, ledger, torn>>
  \/ /\ provider = "resend"
     /\ torn' = TRUE /\ UNCHANGED <<done, flagged, ledger>>

FinishIgnored(c) ==
  /\ pc[c] = "ignore" /\ ~ torn
  /\ Finish(Current(c), "ignored")
  /\ NextMail(c)
  /\ UNCHANGED <<provider, arrived, torn, started, ended, faults, outage>>

(* Outside the try as well.                                                *)
FinishIgnoredFails(c) ==
  /\ pc[c] = "ignore"
  /\ Fault("mark")
  /\ HalfFinished(Current(c))
  /\ EndCycle(c)
  /\ UNCHANGED <<provider, arrived, started, ended, evicted>>

FinishProcessed(c) ==
  /\ pc[c] = "processed" /\ ~ torn
  /\ Finish(Current(c), "processed")
  /\ NextMail(c)
  /\ UNCHANGED <<provider, arrived, torn, started, ended, faults, outage>>

(* Inside the try: the run went well, and its e-mail is handled as failed. *)
FinishProcessedFails(c) ==
  /\ Fault("mark")
  /\ Moves(c, "processed", "error")
  /\ HalfFinished(Current(c))
  /\ aborting' = [aborting EXCEPT ![c] = TRUE]
  /\ UNCHANGED <<provider, arrived, inFlight, todo, started, ended, evicted>>

AfterError(c) == IF aborting[c] THEN EndCycle(c) ELSE NextMail(c)

FinishFailedUnflagged(c) ==
  /\ pc[c] = "error" /\ ~ torn
  /\ Finish(Current(c), "processed")
  /\ AfterError(c)
  /\ UNCHANGED <<provider, arrived, torn, started, ended, faults, outage>>

FinishFailed(c) ==
  /\ pc[c] = "error" /\ ~ torn
  /\ Finish(Current(c), "error")
  /\ AfterError(c)
  /\ UNCHANGED <<provider, arrived, torn, started, ended, faults, outage>>

(* The rejection is swallowed.                                             *)
FinishFailedFails(c) ==
  /\ pc[c] = "error"
  /\ IF torn THEN UNCHANGED <<done, flagged, ledger, torn, faults, outage>>
             ELSE Fault("mark") /\ HalfFinished(Current(c))
  /\ AfterError(c)
  /\ UNCHANGED <<provider, arrived, started, ended, evicted>>

(* The process dies and starts again; a mark under way may be half made.   *)
Crash ==
  /\ \E c \in Cycles : pc[c] # "ended"
  /\ Fault("crash")
  /\ \/ UNCHANGED <<done, flagged, ledger, torn>>
     \/ \E c \in Cycles :
          pc[c] \in {"ignore", "processed", "error"} /\ HalfFinished(Current(c))
  /\ inFlight' = FALSE
  /\ pc' = [c \in Cycles |-> "ended"]
  /\ todo' = [c \in Cycles |-> {}]
  /\ aborting' = [c \in Cycles |-> FALSE]
  /\ UNCHANGED <<provider, arrived, started, ended, evicted>>

-----------------------------------------------------------------------------
Proceed(c) ==
  \/ ListUnread(c) \/ LastMail(c) \/ Fetch(c) \/ Authorize(c) \/ InvokeReturns(c)
  \/ FinishIgnored(c) \/ FinishProcessed(c) \/ FinishFailed(c)

Failing(c) ==
  \/ ListFails(c) \/ FetchFails(c) \/ AuthorizeFails(c) \/ InvokeThrows(c)
  \/ FinishIgnoredFails(c) \/ FinishProcessedFails(c) \/ FinishFailedFails(c)

Next ==
  \/ \E m \in Mails : Arrive(m)
  \/ \E c \in Cycles : Tick(c) \/ Proceed(c) \/ Failing(c)
  \/ Crash

(* The timer fires for ever, and a cycle under way takes its next step.    *)
Fairness ==
  /\ WF_vars(\E c \in Cycles : Tick(c))
  /\ \A c \in Cycles : WF_vars(Proceed(c) \/ Failing(c))

Spec == Init /\ [][Next]_vars /\ Fairness

-----------------------------------------------------------------------------
(* An e-mail starts one run, whatever the graph, the license and the       *)
(* network do: a second run takes a mark that failed, a process that died  *)
(* or more e-mails than the ledger holds.                                  *)
OneRunPerMail == \A m \in Mails : started[m] > 1 => outage \/ evicted

(* What is no longer listed was dealt with: its sender is not authorized   *)
(* and nothing ran, or its run went well, or it is flagged for manual      *)
(* review.  "\Seen stops reprocessing; flag errors so they surface for     *)
(* manual review" (mailbox.ts).                                            *)
NothingDropped ==
  \A m \in done :
    \/ m \in Strangers /\ started[m] = 0
    \/ ended[m] = "ok"
    \/ m \in flagged
    \/ outage

Ahead(m) ==
  \E i, j \in DOMAIN arrived : i <= j /\ arrived[j] = m /\ arrived[i] \in Poison

(* Every e-mail is dealt with in the end, however the process dies, unless *)
(* the ledger was torn or an e-mail ahead of it cannot be fetched.         *)
EveryMailIsFinished ==
  \A m \in Mails : m \in ToSet(arrived) ~> m \in done \/ torn \/ Ahead(m)
=============================================================================
