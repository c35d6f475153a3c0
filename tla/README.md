# quote_ops_v1: TLA+ models, model checking and proofs

quote_ops_v1 quotes road freight. A client's *appliance* (one Node process with
Postgres) reads RFQ e-mails, prices their lanes, asks a person when a policy
gate says so, answers the requester and books the quote in the client's TMS. A
*control plane* in the cloud issues licenses and install packs, stores settings
and receives heartbeats; an *onboarding* command installs and configures the
appliance, and shell scripts upgrade and back it up.

This directory models the parts of it where the order of events decides whether
the program is right. All paths below are relative to the repository.

## 1. Inventory

| component | state | operations | what is hard |
|---|---|---|---|
| quote agent graph (`apps/agent/src/graph`) | LangGraph checkpoint in Postgres, row of `quote_runs`, row of `agent_approval_decisions` | `invoke`, `resume`, 9 nodes, interrupt, `persistOutcome`, `persistGraphErrors` | a run pauses for days and is resumed by another request, maybe in another process; sends and TMS writes cannot be undone; every persistence step can fail alone |
| decision endpoint (`apps/api/src/index.ts:479`) | the same rows | read, claim (compare-and-set), resume, answer | two approvers race; a claim can be written and not acknowledged |
| run trace and stream (`runtime.ts:38-88`, `index.ts:316`) | `quote_run_steps`, an in-memory counter, `lastSeq` of every stream | append, poll, emit | lanes append concurrently; the counter restarts; two reads are not one snapshot |
| mailbox intake (`apps/agent/src/intake`) | provider's marks or a ledger file, `inFlight` | poll cycle, fetch, authorise, invoke, finish | a mail must be handled once though every call can fail; the ledger is bounded and written in place |
| legacy workflow (`apps/agent/src/graph.ts`, `index.ts:389-464, 513-531`) | row of `workflow_runs`, `approval_decisions` | submit, background work, save, decide | whole rows are overwritten from state read earlier; background promises |
| pricing of a lane (`packages/quote-core`, `apps/api/src/runtimeTools.ts`, `packages/connectors/src/route`) | `route-cache.json`, cache in front, cached yields | resolve the route, read yields, `calculateQuote`, history, gate | lanes share files and caches; several lives of an entry one on top of the other; what failed must lead to a review |
| TMS connectors (`packages/connectors/src/tms`, `cache`) | cache tiers, CSV exports and write-back files, the remembered adapter | search, write back, import | stale answers, half files, calls that do not end |
| TMS connection (`onboard/tmsProbe.ts`, `cli.ts:396`) | lock directories, revision, `tms-adapter.yaml`, credentials in `client.env`, probe receipt | lock, compare, write three files, probe, write the receipt, release | two onboarding processes; a crash between any two renames; writers that do not take the lock |
| onboarding command (`apps/api/src/onboard`) | `client.env`, `agent-config.yaml`, manifest, receipts, audit | 10 resumable phases | receipts are bound to the content of files that later phases change; a crash between any two writes |
| readiness RFQ (`apps/api/src/onboard/testRfqStep.ts`) | receipt file | submit on 404, poll, accept | two representations of one run; retries of the command |
| appliance activation (`apps/api/src/index.ts:239-279, 1077-1300`) | license and public key in the environment and in two files | activate, verify | lost answers and retries, overlapping handlers, half-written files |
| appliance sync (`index.ts:635-754, 1120-1260, 1420-1900`) | settings file, PDF template file, scheduler timer | heartbeat, counters, write settings, `GET /api/setup-state` | ticks overlap; the state is read at three instants; two files for one answer |
| control-plane API (`apps/control-plane-api`) | rows of the client, its installation and its registration tokens; the signing key pair | create, install pack, suspend, reactivate, reissue, activate, heartbeat, counters | every handler reads, then writes back what it read; a token outlives the answer that used it |
| channels, PDF (`apps/agent/src/channels`, `pdf`) | none | `send`, render | network I/O |
| model, knowledge, criteria (`llm`, `packages/knowledge`, `packages/criteria`) | chunk tables | ask, retrieve | outcomes are arbitrary |
| lifecycle scripts (`deploy/appliance`) | release links, volumes, secrets | install, upgrade, roll back, backup, restore | interruption between steps |
| sentinel, web UI, contracts, audit, guards | none worth a model | | |

How they interact: `server.ts` starts the API, the sync scheduler and the
mailbox intake in one process over one store. The intake calls
`graphRuntime.invoke`; the API calls `graphRuntime.resume`, the legacy
`runQuoteWorkflow` in the background, and reads what all of them store. Both
engines price lanes with the same tools, which share caches and files. The
onboarding command writes the files those tools read, and, like the web UI, is
an HTTP client of the API. The appliance calls the control plane; the control
plane never calls the appliance.

What makes each of the modelled components correct:

* **agent graph**: one decision per run; a quote leaves at most once and only
  with consent; the TMS repeats what the requester was told; a run shown as
  waiting can be decided; a run shown as done was delivered; no run stays
  running; a decision is answered.
* **trace and stream**: numbers are never reused; a settled log is complete; a
  stream ends, and tells a late viewer everything.
* **intake**: one run per mail; nothing is dropped silently; every mail is
  dealt with in the end.
* **legacy workflow**: what one workflow may write is written, and nothing
  before a review; a decision is what the run then says; a queued run leaves
  the queue.
* **pricing**: what no human sees rests on the route of that lane, told
  recently, on yields the TMS told, on a fitting profile and on a margin.
* **TMS connectors**: an answer is not older than its time to live; a reported
  write is there; a call ends.
* **readiness**: the phase accepts exactly the runs that are ready.
* **onboarding**: a complete phase vouches for what is on disk; phases do not
  undo one another; the guided installation reaches its end.
* **control plane**: a used token belongs to a licensed client, so that an
  activation can be repeated; a suspension and a withdrawn license stay until an
  administrator, or a new activation, says otherwise.
* **activation**: a license once kept survives a restart together with its key;
  an appliance that has one can report; retries unlock it in the end.
* **sync**: settings and template are of one answer; in the end the appliance
  has the portal's settings and the portal shows the appliance's state.
* **TMS connection**: one call at a time changes it; its receipt never vouches
  for credentials that were not probed; a waiting call gets its turn.

## 2. Modules

| module | models | state and actions |
|---|---|---|
| `PolicyGate` | `nodes/policyGate.ts`, the historical band and the clamp | operators only: `Verdict`, `IsCentralThird`, `NeedsConfirmation` |
| `QuoteRun` | the agent graph, `runtime.ts`, the claim in the store, the decision endpoint | the two rows, the checkpoint, the drivers (the poller, the requests) and the world (prompts, replies, TMS); one action per node, per step of `invoke`, `resume` and the endpoint, and one failing twin wherever the code's await can reject; `Crash` |
| `QuoteDelivery` | what a run promises (abstract) | consent, sent, booked |
| `QuoteRunProofs` | theorems about `QuoteRun` | |
| `StepStream` | `trace` and its counter, the step table, the SSE handler | one action for taking a number, one for the insert, the graph's stages, resume, restart, the two reads of a poll, the emission |
| `StepStreamProofs` | theorems about `StepStream` | |
| `MailboxIntake` | `mailboxPoller.ts`, `mailbox.ts`, `resendMailbox.ts` | one action per await of a cycle, for both kinds of mailbox; the ledger with its bound; torn file |
| `MailboxIntakeProofs` | theorems about `MailboxIntake` | |
| `WorkflowRuns` | playground submission, background workflow, legacy decision | the row, the decision row, one action per await of each handler, unhandled rejection, crash |
| `ReadinessRfq` | the `test_rfq` phase | the command's steps on top of `WorkflowRuns` |
| `QuoteCore` | `packages/quote-core`: profile, evidence, costs, brackets, margins, reasons for a review | operators only |
| `HistoricalContext` | `historicalAnalysis.ts`, the band of a lane | operators only |
| `LanePricing` | the tools and nodes that price a lane: the two route caches, the SAKBE adapter with its retries, the yields, both engines | the clock, the surroundings, the file, the caches, the lanes; one action per await; timeouts, writes rejected before and after they truncated the file, lost cache entries, restart |
| `LanePricingProofs` | theorems about `LanePricing` | |
| `TmsGateway` | the cached, file, HTTP and SQL adapters, imports and write-back | the systems' content over time, the remembered adapter, the tiers, the calls; one action per await, every timeout and failed write, restart, also within a line that is appended |
| `WritebackProofs` | theorems about `WorkflowRuns` and `TmsGateway` | |
| `TmsLock` | `acquireTmsConfigLock` and what it calls | the directories, each call's place, number and last listing, the processes alive; one action per call to the file system |
| `TmsConfig` | `configureTmsHttpGeneration` under that lock, its probes, and the two writers of the same files that take none | the four files; one action per rename, the comparison, the probe, every throw, crash |
| `TmsConfigProofs` | theorems about `TmsLock` and `TmsConfig` | |
| `Onboarding` | `runOnboarding`, every phase's completion check and run, the legacy entry points that store secrets | the files, the services behind them, the session, the audit; one action per rename, probe and phase step; crash, truncation |
| `ControlPlane` | the cloud's handlers and its Postgres store, for one tenant | client, tokens, requests under way, key pair; one action per query of each handler, failing queries, expiry, restart |
| `Activation` | the appliance's activation and what it keeps | environment, the two files, the handlers; one action per await and per step of a file write, lost connections, failing writes, crashes of either side |
| `ActivationProofs` | theorems about the two | |
| `ApplianceSync` | `runControlPlaneMinimalSync`, its scheduler, the setup state, what pricing and PDF make of the settings | the facts an appliance is made of, the runs, the syncs in their slots, the two files, the portal; one action per instant of reading, per post and per file |
| `ApplianceProofs` | theorems about `ApplianceSync` and `Onboarding` | |
| `MC...` | instances of the modules of that name for TLC | |

How they are composed. `QuoteRun` extends `PolicyGate` and refines
`QuoteDelivery`; `ReadinessRfq` composes the onboarding phase with
`WorkflowRuns` by using its actions. `LanePricing` takes its arithmetic from
`QuoteCore`, its band from `HistoricalContext` and its verdict from
`PolicyGate`: where `QuoteRun` takes any assessment of a lane, `LanePricing`
computes it. `Activation` composes the appliance with the cloud: its steps are
its own or actions of `ControlPlane`, whose specification it implements.
`ControlPlane` alone is the abstract view: any request with any token at any
time. `TmsConfig` extends `TmsLock`: a call's steps in the lock are the lock's
actions. Elsewhere one module's steps are opened up by another: one `invoke` of
`MailboxIntake` is a behaviour of `QuoteRun`; a node of `StepStream` is start,
work and end; the TMS, license and readiness phases of `Onboarding` are
`TmsConfig`, `Activation` and `ReadinessRfq`; a post of `ApplianceSync` is the
handlers' queries of `ControlPlane`; yields and history come to `LanePricing`
through `TmsGateway`.

An await is where another request, timer or crash can come in between, so it is
where actions are cut; code between two awaits is one action. A node of the
graph is one action because nothing else touches its checkpoint while it runs;
`NodeFails` has its partial effects.

## 3. Runs

| run | question | result |
|---|---|---|
| `quote_run` | do the promises of a run hold under two racing decisions and every failure? | pass, 198 434 states |
| `step_stream` | what do the log and the stream keep under concurrent lanes? | pass, 189 964 states |
| `mailbox_intake` | is every mail handled once, and in the end? | pass, 10 353 states |
| `workflow_runs` | what holds of a legacy run with two submissions and two decisions? | pass, 313 845 states |
| `readiness_pending` | does the readiness phase accept a ready run? | violated: it accepts none |
| `lane_pricing` | what does a rate no human sees rest on? | pass, 417 607 states |
| `tms_gateway` | how old is an answer, what is a report worth, does a call end? | pass, 589 126 states |
| `tms_config` | does the lock exclude, and does the receipt say the truth? | pass, 361 000 states |
| `onboarding` | do receipts vouch for what is stored, and does an install end? | pass, 833 714 states |
| `control_plane` | what do the cloud's handlers keep when they interleave? | pass, 630 000 states |
| `activation` | does an appliance keep what it is given, and get it in the end? | pass, 399 821 states |
| `appliance_sync` | do settings and reports arrive, whole, however syncs overlap? | pass, 190 072 states |

Bounds, and why they are enough:

* `QuoteRun`: two lanes (the first quoted lane is special in reply and
  writeback, so two tell "first" from "other"), two deciders (a race needs two),
  one lane of each verdict (auto, confirmation, unknown). A run decides once, so
  more deciders only lose.
* `StepStream`: two lanes, one traced node per stage; a hole needs two lanes.
  `CHECK_DEADLOCK FALSE` everywhere, because a run ends.
* `MailboxIntake`: three mails, one ordinary, one of an unknown sender and one
  that cannot be fetched; a ledger of one mail, so that eviction happens; two
  failures in a behaviour, so that a failure meets the handling of another.
* `WorkflowRuns`: two submissions and two decisions of one run id.
* `LanePricing`: two lanes at a time. Seven surroundings, each with its own
  bounds on ticks, lanes and faults, take the cases apart: lanes that meet on
  the file; the same lane over three ticks, so that week, entry and yields
  expire one on top of another; a round trip; data that varies (a distance of
  zero, an analysis of the TMS's own, missing yields, another pricing model);
  and the two other modes of the SAKBE cache. Words come in two spellings.
  Week, entry and yields live one tick: a tick is longer than a lane takes.
* `TmsGateway`: two callers, five surroundings: a slow database behind one tier,
  HTTP behind two, a connection that takes the place of another, requests,
  batches of two lanes that are written. Faults, restarts and switches are
  bounded by each.
* `TmsConfig`: two calls of two processes, each given either of two credentials
  and one configuration; one import of CSV files and one unlocked writer of
  `client.env`, which may read and write any number of times. Either process may
  crash at any step. That the lock excludes more than two calls is proved. Only
  the namespace all processes share is checked: onboarding runs with
  `docker compose run`, and two containers would each take the other's tickets
  for those of dead processes.
* `Onboarding`: two AI providers, two mail servers with one account each (so a
  secret can be with the wrong host); declared from the start is one of the two,
  a mailbox of Outlook, or none; two faults (a crash and its recovery's crash)
  and one session of another kind in between. An installer that stops between
  its two sessions is a fault too. Sessions are unbounded in number.
* `ControlPlane`: two requests at a time (an overwrite needs a reader and a
  writer), one token, five administrators' requests: create, install pack and
  three more, enough to suspend, reactivate and issue again.
* `Activation`: two overlapping handlers and one sync, one token, two key pairs
  (the second after a restart of the cloud), two faults, so that a fault meets
  the recovery from another. Administrators only create and issue the pack:
  what they do later is the subject of `control_plane`. `Reported` is empty
  there: what a heartbeat overwrites, counters overwrite too.
* `ApplianceSync`: three appliances that lack little, so that two changes reach
  "ready" and leave it (TMS by files, SQL and HTTP); two overlapping syncs; two
  changes of a fact, a run or the portal's settings, one fault.

Types. The types of `QuoteRun`, `ControlPlane`, `Activation` and `TmsConfig`
are invariants that are proved (`TypeOK`, `CloudTypeOK`), so no run repeats
them.

Fairness. The event loop runs continuations that are ready, so steps of a
handler under way are weakly fair (`PollerStep`, `DeciderStep`, `Stream`,
`Proceed`, `Background`), and the interval timer fires for ever (`Tick`).
In `Activation`, what is under way goes on at both ends, and the onboarding
command is run again as long as the appliance is locked: its phase asks the
setup state before it acts (`licenseActivationStep.ts:81`), and an operator or
the installer repeats the command. In `TmsConfig`, a call that has announced
itself goes on (`Work`): the file system answers, the probe ends by its deadline
and a timer drives the waiting loop; nothing obliges a call to start, give up or
fail. In `Onboarding`, a session that runs goes on, and who installs resumes
until the last phase is reached; nobody is obliged to run single phases. In
`TmsGateway`, the steps of all calls under way are fair together: each call
takes finitely many, except that a SQL query may hang. In `ApplianceSync`, each
slot goes on with its sync, and when there is none the timer starts one. Nothing
else obliges a person to decide, a client to read or a failure to happen or not
to happen. The remote calls are assumed to answer or to reject, unless the
module says otherwise (`TmsGateway`). Liveness properties therefore say "unless
a store write or the process failed" (`outage`) exactly where the code has no
retry and no recovery at start-up. `SettingsArrive` and `PortalShowsTruth` are
about the time after the last change, which the bounds on changes make certain.

## 4. Where code and documents disagree

`readiness_pending` shows one disagreement, quoted in `PROJECT.json`: the
readiness phase tests two fields the endpoint it polls does not return, so it
never completes.

Six others were met while modelling. The models have the behaviour, and the
properties that pass are stated with these exceptions:

1. An adjusted run whose lanes are all inoperable ends `done` without a reply:
   `graph/nodes/approvalInterrupt.ts:21` makes an error only of `approve`, and
   `apps/agent/tests/newGraph.test.ts:511` says "fails closed after approval
   when every bulk lane is inoperable". `DoneIsDelivered` speaks of `approve`.
2. The live stream can skip steps: `apps/api/src/index.ts:334` keeps the highest
   number sent, lanes insert in any order, and the run is read beside its steps.
   `docs/superpowers/plans/2026-07-11-quote-ops-v1.md:108` says "SSE tailing
   step events". `LateViewerSeesAll` speaks of viewers who come afterwards.
3. Two overlapping submissions of one run id start two workflows
   (`index.ts:408`: lookup, two awaits, save), which both write to the TMS;
   `.superpowers/sdd/2026-07-29-one-command-vm-appliance-onboarding/task-8-report.md:35`
   says "Made `POST /api/playground/rfqs` idempotent for deterministic readiness
   runs". `WrittenAsReviewed` excepts `overlapped`.
4. Counters or a heartbeat under way while an appliance activates write the
   unlicensed client back (`apps/control-plane-api/src/index.ts:804`), and the
   retry is answered `registration_token_used_without_license`; the comment at
   `index.ts:730` says "Retry-safe order". `UsedTokenIsLicensed` excepts `raced`.
5. Stale yields are looked up by the lane's spelling
   (`graph/nodes/quote.ts:15`), while `calculateQuote` finds the profile under
   any: a lane that says `TRACTO` is priced on the manifest's old yields without
   a review. `apps/api/src/runtimeTools.ts:260` says "rendimientos never
   silently go stale". `UnreviewedIsGrounded` excepts such a lane.
6. A SQL connection without a statement for quotes answers `unsupported_write`,
   "visible, not silent" (`SqlTmsAdapter.ts:242`), but the graph's node looks at
   no status (`graph/nodes/writeback.ts:14`): the run ends well. `LostAtMostOnce`
   speaks of quotes that were reported written or queued.

The exceptions of other properties say what else the code does *not* promise:

* a lost acknowledgement or a crash during a mail repeats it (`OneRunPerMail`);
  a run whose process dies stays `running` or `queued` (`RunSettles`,
  `RunLeavesQueue`);
* a request of the cloud that overwrites a client it did not read can undo
  whatever was stored, a suspension too (`raced`); files whose writing was
  interrupted, rejected by the disk (`KeepFails`) or shared by two handlers may not
  fit each other until the next
  activation (`damaged`) or sync (`torn` in `ApplianceSync`); a writer of
  `client.env` without the TMS lock can bring credentials back whose
  replacement was probed (`undone`);
* `route-cache.json` is truncated and then filled. Two writes that meet, one the
  disk rejects after the truncation (`FillFails`) and a crash in one can each
  leave it empty or cut, unreadable for good (`disturbed`; nothing repairs it,
  `SakbeRouteAdapter.ts:454`). A lane that comes to write while another writes
  counts as disturbed already, because it may read what is half there;
* an appended write-back that a full disk or a crash cuts short joins the next
  line, and both are lost (`cuts`);
* a crash between storing a mailbox secret and writing its host lets a later
  receipt vouch for a secret the host never saw (`unpaired`); a
  crash inside the authorization phase's write of `agent-config.yaml`, which is
  in place (`cli.ts:768`), leaves a file no phase can read, and the guided
  install never converges.

And what the models show about the code as it is:

* the first uninterrupted guided pass always ends incomplete at
  `--only test_rfq`, because the authorization phase rewrites
  `agent-config.yaml` after the AI and mailbox receipts were bound to its hash;
  the second pass converges (`InstallConverges`);
* a phase is recorded complete when its run returns, without being asked again
  (`onboardingFlow.ts:583`); in the template manifest margins are there from the
  start, so the pricing phase is complete before anybody was asked;
* the guided wizard asks for a mailbox of Resend or IMAP only
  (`applianceSecretsStep.ts:278-301`): one of Gmail or Outlook that
  `agent-config.yaml` declares is dropped from it, and its credentials with it
  (`MailboxInput`);
* if the counters are not accepted, the settings that came with the heartbeat
  are not written (`index.ts:687-694`), until a later sync succeeds;
* an appliance without a mailbox is never `ready` in the portal, though
  `docs/superpowers/plans/2026-07-29-one-command-vm-appliance-onboarding.md:1504`
  says "A disabled mailbox is explicitly optional";
* an answer of the TMS can outlive a change of the connection by its time to
  live, because the key of a cache entry has only the question
  (`CachedTmsAdapter.ts:151`); a SQL query has no timeout (`sqlExecutor.ts:48`);
  an HTTP write that timed out may have been recorded.

## 5. Proofs

Everything in this section holds for every value of the constants.

`QuoteRunProofs`, for every number of deciders, every bound on lanes, every set
of assessments and of failures:

* `Invariant`: `Spec => []IInv`;
* `Types`, `DecisionIsOne`, `ConsentFirst`, `BookedAsQuoted`,
  `WaitingCanBeDecided`, `DoneMeansDelivered`: six invariants, from `IInv`
  (`BookedAsQuoted` follows from the next one too, which is what the run checks);
* `DeliversAsPromised`: `Spec => DeliveryKept`, every step of a run is a step of
  `QuoteDelivery` or a stutter of it.

The assumptions are those `QuoteRun` and `PolicyGate` declare: the poller is not
a decider, there is room for a lane, faults and assessments have their types.

None of the six is inductive. `OneDecision`, for example, says nothing about a
request that has claimed and not resumed. `IInv` adds who can be inside the
graph: the poller before any decision (`PollerRole`), the one decider that won
the claim after it (`DeciderRole`), and what the row then says (`RowRole`); how
the checkpoint's parts grow from node to node (`LanesRole`, `PromptRole`); and
where consent, reply and writeback stand at each node (`ConsentRole`,
`ReplyRole`, `TmsRole`). The key fact is `OneExecutor`: two drivers are never
inside the graph together, because the claim moves the row off
`waiting_approval`, only a parked graph puts it there, and parking ends the
poller's turn. Then there is one lemma per action (`...Keeps`), each a split over
the parts of `IInv` the action can disturb.

`ActivationProofs` proves of `ControlPlane`, for any number of tokens and of
requests at a time, the types and the three invariants of its run (`Typed`,
`UsedIsLicensed`, `SuspensionStays`, `WithdrawalStays`). They are not inductive
either, because a request under way will write what it has read. `IInv` adds two
facts about requests: one that goes on to issue a license has read a client that
could have one (`ReadsLicensable`), so that its write ends no suspension without
being noticed as a blind one; and the client is licensed from the step before
its token is used, not only after it (`UseIsLicensed`). The proof splits the
steps into those that leave the client alone, answers, and those that store a
client.

Of `Activation` it proves `ImplementsCloud`, that the composition implements
`CloudSpec`: whatever the appliance crashes through, loses or repeats, each step
is a step of the cloud or leaves it alone. The cloud's theorem then holds of the
composition (`RetryFindsLicense`) without being proved again. `LicenseReports`
needs its own invariant, `Holding`: each request of a handler carries the token
the appliance was installed with, and a license is nowhere, neither in an answer
nor in a handler, environment or file, before that token is used.
`LicenseIsKept` (`LicenseSurvivesRestart`) is about the two files: a handler that
still counts as alone is the only one between them and its license is the one on
disk, and one that does not has left `damaged` set (`Writing`).

`StepStreamProofs` proves `NumbersAreNew`, `SettledIsWhole` and
`LateViewerIsTold`, for any number of lanes and of nodes. That no number is
reused is not inductive, because the counter is in memory and the rows are not:
the invariant says that the counter covers every number stored or under way
(`Covered`), except after a restart while the run waits or is over, when no
tracer can take one (`Dormant`) and a resume counts the rows first. The highest
row is the last number given only because a log that waits has no gap (`Whole`),
and that holds because no tracer of a run that settles has failed (`GapFree`).
For the late viewer, `DoneIsStill` shows that neither the status nor the log of
a run moves once it is done, a restart included.

`MailboxIntakeProofs` proves `MailRunsOnce` and `MailIsDealtWith`, for any
mailbox and ledger size. An e-mail is listed again after a cycle that stopped,
so the invariant has to say what the mailbox knows at that point: an unmarked
e-mail never ran, unless the one cycle in flight holds it (`Serial`,
`Unmarked`), and what a cycle has still to take is not marked (`Unread`). That a
full ledger drops another e-mail and not the one recorded is `RecordedIs`.

`TmsConfigProofs` proves, for any number of calls and processes of one PID
namespace (`OneSpace`), `TypeCorrect`, `LockExcludes`, `ReadyProbed` and the
action property `ReceiptsMakeReady`. Mutual exclusion needs an invariant about
calls that are still waiting: a call that has listed the directory and not found
another in its way is *past* it, and then comes *before* it, because the other
has no number yet or a later ticket (`PastInv`). An announced call cannot be
passed while its number is chosen and not visible, which is what the choosing
directory is for (`TicketsInv`). Given exclusion, what the one holder knows of
the files is stable (`HolderInv`), and between the new revision and the new
receipt no old receipt has the current revision (`ReceiptInv`).

`LanePricingProofs` proves `RecentRoutes` and `OwnRoutes` (the properties
`RouteIsRecent` and `RouteIsItsOwn`), for any lanes, requests, table of
spellings, tariff week and times to live. A lane takes its rows from where other
lanes left them, so the invariant speaks of every place a row can be in: the
file and a lane's copy of it that is about to be written back (`RowOK`), the
cache in front (`EntryOK`), the lane itself (`LaneOK`), with the age a row may
have there and every request its key would serve. That a key serves only
requests the row fits is the injectivity of `SakbeKey` and `RouteKey`; that the
ages add up needs the bound of a lane's own duration (`Timed`). `QuietFile`
(`QuietFileKeepsRows`) has an invariant of its own, `QuietInv`: while `disturbed`
is false, one lane at most holds the file for its write (`Alone`), the file is
whole, or empty while that lane fills it with a copy that has all it had
(`Intact`), and the rows of every lane and of every entry in front are in it or
in that copy (`RowsSafe`).

`Grounded` (`UnreviewedIsGrounded`) is about what leaves without a human, for any
manifest, sources, spellings, pricing models and caches. Its first half is
arithmetic: `PriceIsWhole` (a cost and a rate are numbers, because a yield below
a tenth counts as a tenth and a margin that is not valid as 0), `OverlayKeeps`
(neither the yields of the TMS nor the pricing model change a profile's id,
capacity or minimum), `ResolveFinds`, `EvidenceIsOfRows` and, from these,
`NoReasons`: a quote without a reason is of a known profile the load fits, with a
distance for each direction and the minimum margin. `FirstIndex`, that a set of
indices has a first one, comes from the well-foundedness of the naturals and is
why `find` finds. The second half is the invariant `GInv` on top of `IInv`. It
follows what reaches that step: rows, entries and yields are well formed wherever
they are kept, an entry in front has every direction of whatever its key serves,
and a lane past its route has every direction or no row at all. A lane of the
legacy workflow has no reason left only if no yield was stale, and once a rate
exists nothing it rests on changes (`GroundsKept`). Assumed are
`ManifestAssumption` and `SetupsAssumption`: the numbers of profiles, requests,
answers and yields are numbers. For requests and the TMS the schemas see to that;
a manifest is declared so (`profileResolver.ts:45`), but
`apps/api/src/runtimeTools.ts:390` casts what it parses. Two profiles may have
one id, since nothing forbids it; the theorem then speaks of one of them.

`WritebackProofs` is about what reaches the TMS. `WorkflowWritesOnce` and
`DecisionStays` (the two invariants of `WorkflowRuns`), for any number of
submissions and deciders, rest on `IInv`. Without overlapping submissions one
workflow was started at most (`OneWorkflow`); while nobody has decided, its batch
and the row go together (`WrittenSoFar`); with decisions that are not early,
contested or disturbed, at most one of them is under way, on a quote no workflow
changes any more (`OneDecision`). Each conjunct is wanted only while its
condition holds, because a history does not forget what it has seen
(`HistoryGrows`). `AnswersDoExpire` and `WritesAreKept` (`AnswersExpire` and
`LostAtMostOnce` of `TmsGateway`), for any systems, tiers, connections, callers
and bounds, share `GatewayInv`. An answer is good for every later moment,
because whatever its system says later comes after it was loaded
(`AnswerLasts`); the invariant has such answers wherever one can be, in either
tier and in a call that is about to store it. The bound on lost quotes counts:
a file that ends within a line has been paid for by a cut, and the next append
uses that up (`AppendLoss`, `CutLoss`). A restart can cut a line of each
file that is being appended to, so the cuts it adds are counted
(`CutsLoss`). The assumptions are `SetupsAssumption`, that surroundings name
connections and entities there are, and `CallersAssumption`, that the callers
are finitely many, without which the cuts of a restart have no number.

`ApplianceProofs` proves `FilesAreOfOneAnswer` (`FilesMatch`) for any number of
syncs, facts and settings. It is not inductive: the sync that wrote the settings
will still write the template. `OneWriter` adds that, unless `torn`, one sync at
most is between the two files and carries what the first now holds.

For `Onboarding` it proves `FilesAreSound` (`CompleteIsSound`), `PassIsComplete`
(`PassLeavesComplete`) and the action property `PhasesStayApart`
(`PhasesKeepApart`), for any providers, mail servers and accounts. The invariant
`OInv` says what a phase has made of the files at each place where a crash can
stop it (`PlaceOK`), so that the last write of the phase completes it
(`PhaseCompletes`). A pass is beyond its first phases while it writes
`agent-config.yaml` in later ones, which outdates the receipts of the first.
`PassLeavesComplete` therefore speaks of a pass that found the file as it left
it, and the proof has to exclude that a pass changes it and changes it back:
each part of the file is written in one phase, and until then is as the pass
found it (`AheadOK`), so a write that restores what was found changed nothing
(`NoReturn`). What a phase writes spares the others (`PhaseSpares`), because
`updateAllowedEnv` keeps the keys it is not given. The one assumption is
`AccountsAssumption`: accounts are pairs of a host and a secret, and no host,
declared mailbox, secret or provider is the word for "none".

Only model-checked: the liveness properties (`RunSettles`, `DecisionIsAnswered`,
`StreamEnds`, `EveryMailIsFinished`, `RunLeavesQueue`, `RetriesUnlock`,
`WaitersAreServed`, `CallsEnd`, `SettingsArrive`, `PortalShowsTruth`,
`InstallConverges`), because the prover has no support for fairness and
`ENABLED`; and `PendingMeansNotReady`, which does not hold. Every safety property
of a passing run is a theorem.

## 6. Not modelled

* Formatting, prompts, PDF and MIME; the wizard's questions; CSV and XLSX
  parsing; field mapping; the requests of a TMS probe beyond their outcome; the
  web UI; the sentinel; the generated installer.
* The language model's answers are any outcome. The knowledge store is not
  modelled, because what it returns is text for a prompt. Its state hazards: the
  service is memoised by the database URL (`knowledgeService.ts:28`), so changed
  embeddings settings are not seen; documents are named by their content, so the
  chunks of an older version stay; a changed dimension makes searches answer
  nothing; chunks are upserted one by one.
* Of the control plane: portal profiles, login, releases, usage and sentinel
  reports, and the file store used in development. Of the license: that it
  expires after a year.
* The lifecycle scripts are shell over docker and the file system; their order
  of steps is a sequence whose interruptions are handled by running them again.
* A collision of random run ids is excluded, and calls that never answer, except
  in `TmsGateway`. The liveness of a lane (`LanePricing` ends each lane by its
  timeouts) is left out of the runs: checking it costs more than it shows.
* `LanePricing.Tick`: a lane is over before its tick is. SAKBE requests have
  timeouts, but a SQL query for yields has none (`sqlExecutor.ts:48`), and a
  legacy batch reads its yields once for all its lanes: a lane that waits that
  long, or comes late in a long batch, can rest on older evidence than
  `RouteIsRecent` and `UnreviewedIsGrounded` say. `ConfigFails` stands for an
  `agent-config.yaml` that cannot be read and for one that does not allow the
  tool: the lane ends the same.
* `Onboarding.Complete` leaves out that unattended answers for the TMS are
  compared with the stored connection (`cli.ts:955-979`), and that sessions can
  overlap: two writers of `client.env` are the subject of `TmsConfig`.
* The double arithmetic of rates is done in whole units.

## 7. Plan

1. done: the agent graph, stream, intake, legacy workflow, readiness, control
   plane, activation, TMS connection, TMS connectors, onboarding command,
   pricing of lanes and sync of the appliance, each with its proofs.
2. proofs: every safety property and action property of a passing run is proved;
   to come are step-wise facts that the liveness properties rest on.
3. models: the lifecycle scripts (upgrade, rollback, backup, restore as steps
   that can be interrupted); the control plane's portal.
