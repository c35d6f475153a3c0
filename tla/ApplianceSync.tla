---------------------------- MODULE ApplianceSync ----------------------------
(***************************************************************************)
(* How an appliance and the cloud keep each other informed.  A timer, the  *)
(* boot and POST /api/control-plane/sync-minimal each start a sync: it     *)
(* works out what the installation still lacks, posts that as a heartbeat, *)
(* posts the counters of the runs, and writes the settings the heartbeat   *)
(* was answered with.  Nothing keeps two syncs apart: a slow one is still  *)
(* under way when the timer starts the next.                               *)
(*                                                                         *)
(* What the appliance is made of is a set of facts, each of which some     *)
(* file, key or service answers for.  A sync reads them at three instants: *)
(* the list of runs, then agent-config.yaml and the secrets file, then all *)
(* else, after the details of the runs.  Onboarding says how most of them  *)
(* come about.  How the cloud stores what it is sent, when other requests  *)
(* come between, is in ControlPlane; here a post is one step there, and    *)
(* the settings are whatever an administrator stored.                      *)
(*                                                                         *)
(* A sync needs the installation's URL, ids, token and version: they are   *)
(* the environment of the process, and without them nothing starts.        *)
(***************************************************************************)
EXTENDS Naturals, FiniteSets, FiniteSetsExt

CONSTANTS Slots,       \* syncs that can be under way at a time
          Appliances,  \* what an appliance may be made of at first
          Moving,      \* the facts that come and go
          Settings,    \* the settings an administrator may store
          Runs,        \* ids of workflow runs
          MaxChanges,  \* bound on changes of facts, runs and settings
          MaxFaults    \* bound on posts that fail, full disks and crashes

Facts ==
  {"config", "keyless_model", "model_key", "embeddings", "embeddings_key",
   "sakbe_key", "mailbox", "mailbox_keys", "tms_keys", "adapter_path",
   "adapter", "file_import", "sql", "http", "custom_contract",
   "tms_reachable", "tms_receipt", "mapping_path", "mapping", "rfqs_file",
   "chunks", "knowledge_receipt", "mailbox_receipt", "license", "hostname",
   "token", "metrics", "connected", "public", "protected", "origin_receipt"}

(* The keys with a value, in the environment or in the secrets file.       *)
SecretKeys ==
  {"model_key", "embeddings_key", "sakbe_key", "mailbox_keys", "tms_keys"}

(* loadProviderReadiness: agent-config.yaml and the keys that are present. *)
ReadinessFacts ==
  SecretKeys \cup {"config", "keyless_model", "embeddings", "mailbox"}

RunStatus == {"none", "review", "rejected", "failed", "approved", "written"}

None     == "none"
Pricings == {None, "formula", "profitability"}
Objects  == {"branded", "foreign"}  \* foreign: with a field that is not known
Templates == Objects \cup {None, "by_name"}
AllSettings == [pricing : Pricings, template : Templates]
NoSettings  == [pricing |-> None, template |-> None]

ASSUME ConstantsAssumption ==
  /\ Appliances \subseteq SUBSET Facts /\ Moving \subseteq Facts
  /\ Settings \subseteq AllSettings
  /\ MaxChanges \in Nat /\ MaxFaults \in Nat

VARIABLES
  facts,   \* what is true of the appliance
  runs,    \* its workflow runs
  sync,    \* the syncs under way
  disk,    \* runtime-settings.json and pdf-template.json
  cloud,   \* what the portal shows, and the settings stored there
  changes, faults,
  torn     \* history: the two files may come from different answers

vars == <<facts, runs, sync, disk, cloud, changes, faults, torn>>

-----------------------------------------------------------------------------
(* What is still to be set up                                              *)

Has(f, needed) == needed \subseteq f

HasModelKey(f) ==
  "config" \in f /\ ("keyless_model" \in f \/ "model_key" \in f)

HasEmbeddingsKey(f) == "embeddings" \in f => "embeddings_key" \in f

HasSakbeRouteEvidence(f) == "sakbe_key" \in f

HasCurrentTmsProbeReceipt(f) == "tms_receipt" \in f

HasTmsConnection(f) ==
  /\ Has(f, {"adapter_path", "adapter"})
  /\ \/ Has(f, {"file_import", "tms_reachable"})
     \/ Has(f, {"sql", "tms_keys"})
     \/ Has(f, {"http", "tms_keys"}) /\ HasCurrentTmsProbeReceipt(f)

(* A mapping file speaks for SQL and for an appliance without an adapter,  *)
(* the file of RFQs only for the latter and only without a mapping.        *)
HasTmsMapping(f) ==
  \/ /\ Has(f, {"adapter_path", "adapter"})
     /\ \/ "file_import" \in f
        \/ /\ "http" \in f
           /\ "custom_contract" \in f => HasCurrentTmsProbeReceipt(f)
        \/ Has(f, {"sql", "mapping_path", "mapping"})
  \/ /\ "adapter_path" \notin f
     /\ IF "mapping_path" \in f THEN "mapping" \in f ELSE "rfqs_file" \in f

HasConfiguredSecrets(f) ==
  /\ HasModelKey(f) /\ HasSakbeRouteEvidence(f)
  /\ HasEmbeddingsKey(f) /\ HasTmsConnection(f)

HasKnowledgeBase(f) == Has(f, {"chunks", "knowledge_receipt"})

(* The keys are exactly those of the mailbox's provider.                   *)
HasAgentMailbox(f) ==
  Has(f, {"config", "mailbox", "mailbox_keys", "mailbox_receipt"})

(* What the tunnel must pass, in the order it is asked, and what the first *)
(* failure is called.                                                      *)
TunnelChecks ==
  <<<<"hostname", "missing_config">>, <<"token", "missing_token">>,
    <<"metrics", "unreachable">>,     <<"connected", "starting">>,
    <<"public", "unreachable">>,      <<"protected", "access_unprotected">>,
    <<"origin_receipt", "pending_manual_public_validation">>>>

TunnelStatus(f) ==
  LET missing == {i \in DOMAIN TunnelChecks : TunnelChecks[i][1] \notin f}
  IN  IF missing = {} THEN "ready" ELSE TunnelChecks[Min(missing)][2]

(* The list of runs and the details are two reads: a run that the list has *)
(* as approved is asked for its details later.                             *)
HasPassingTestRfq(listed, details) ==
  \E r \in Runs : listed[r] \in {"approved", "written"} /\ details[r] = "written"

SetupSteps ==
  {"activate_license", "configure_secrets", "connect_cloudflare",
   "connect_tms", "map_tms", "connect_knowledge_base", "connect_mailbox",
   "connect_sakbe", "run_test_rfq"}

Done(step, f, rfq) ==
  CASE step = "activate_license"       -> "license" \in f
    [] step = "configure_secrets"      -> HasConfiguredSecrets(f)
    [] step = "connect_cloudflare"     -> TunnelStatus(f) = "ready"
    [] step = "connect_tms"            -> HasTmsConnection(f)
    [] step = "map_tms"                -> HasTmsMapping(f)
    [] step = "connect_knowledge_base" -> HasKnowledgeBase(f)
    [] step = "connect_mailbox"        -> HasAgentMailbox(f)
    [] step = "connect_sakbe"          -> HasSakbeRouteEvidence(f)
    [] step = "run_test_rfq"           -> rfq

RequiredSteps(f, rfq) == {step \in SetupSteps : ~Done(step, f, rfq)}

(* A sync has the registration token, so no status is "not_started".       *)
OnboardingStatus(steps) ==
  IF "activate_license" \in steps THEN "authorized"
  ELSE IF "configure_secrets" \in steps THEN "waiting_local_secrets"
  ELSE IF steps = {} THEN "ready"
  ELSE "licensed"

AiKeyStatus(f) == IF HasModelKey(f) THEN "configured" ELSE "missing"

Count(listed, statuses) == Cardinality({r \in Runs : listed[r] \in statuses})

QuoteCounters(listed) ==
  [total     |-> Count(listed, RunStatus \ {"none"}),
   validated |-> Count(listed, {"approved", "written"}),
   rejected  |-> Count(listed, {"rejected"}),
   pending   |-> Count(listed, {"review"}),
   failed    |-> Count(listed, {"failed"})]

(* GET /api/setup-state, answered at one instant.                          *)
SetupState == RequiredSteps(facts, HasPassingTestRfq(runs, runs))

-----------------------------------------------------------------------------
(* What a quote reads of the files, and what the cloud wants it to read.   *)

PricingModelOverlay == disk.settings.pricing

(* A template with a field that is not known is not used.                  *)
LoadPdfTemplate == IF disk.template = "branded" THEN "branded" ELSE "default"

(* Only an object is written to the template's file.                       *)
TemplateFile(s) == IF s.template \in Objects THEN s.template ELSE None

Wanted ==
  [pricing  |-> cloud.settings.pricing,
   template |-> IF cloud.settings.template = "branded" THEN "branded" ELSE "default"]

-----------------------------------------------------------------------------
Idle == [pc |-> "idle"]

Init ==
  /\ facts \in Appliances
  /\ runs = [r \in Runs |-> "none"]
  /\ sync = [s \in Slots |-> Idle]
  /\ disk = [settings |-> NoSettings, template |-> None]
  /\ cloud = [onboarding |-> "not_started", ai |-> "missing",
              counters |-> QuoteCounters([r \in Runs |-> "none"]),
              settings |-> NoSettings]
  /\ changes = 0 /\ faults = 0 /\ torn = FALSE

At(s, pc) == sync[s].pc = pc
Becomes(s, state) == sync' = [sync EXCEPT ![s] = state]

(* The sync is started; it lists the runs first.                           *)
Start(s) ==
  /\ At(s, "idle")
  /\ Becomes(s, [pc |-> "listed", runs |-> runs])
  /\ UNCHANGED <<facts, runs, disk, cloud, changes, faults, torn>>

LoadProviderReadiness(s) ==
  /\ At(s, "listed")
  /\ Becomes(s, [pc |-> "loaded", listed |-> sync[s].runs,
                 rfq |-> HasPassingTestRfq(sync[s].runs, runs),
                 facts |-> facts \cap ReadinessFacts])
  /\ UNCHANGED <<facts, runs, disk, cloud, changes, faults, torn>>

BuildLocalSetupState(s) ==
  /\ At(s, "loaded")
  /\ LET seen == sync[s].facts \cup (facts \ ReadinessFacts)
     IN Becomes(s,
          [pc |-> "post",
           onboarding |-> OnboardingStatus(RequiredSteps(seen, sync[s].rfq)),
           ai |-> AiKeyStatus(seen), counters |-> QuoteCounters(sync[s].listed)])
  /\ UNCHANGED <<facts, runs, disk, cloud, changes, faults, torn>>

(* Mutant: an installation that was ready stays so.                        *)
ApplyUnlessReady(c, heartbeat) ==
  IF c.onboarding = "ready" THEN c
  ELSE [c EXCEPT !.onboarding = heartbeat.onboarding, !.ai = heartbeat.ai]

ApplyMinimalHeartbeat(c, heartbeat) ==
  [c EXCEPT !.onboarding = heartbeat.onboarding, !.ai = heartbeat.ai]

(* The cloud takes the heartbeat and answers with the settings it has.     *)
PostHeartbeat(s) ==
  /\ At(s, "post")
  /\ cloud' = ApplyMinimalHeartbeat(cloud, sync[s])
  /\ Becomes(s, [pc |-> "answered", counters |-> sync[s].counters,
                 settings |-> cloud.settings])
  /\ UNCHANGED <<facts, runs, disk, changes, faults, torn>>

PostCounters(s) ==
  /\ At(s, "answered")
  /\ cloud' = [cloud EXCEPT !.counters = sync[s].counters]
  /\ Becomes(s, [pc |-> "persist", settings |-> sync[s].settings])
  /\ UNCHANGED <<facts, runs, disk, changes, faults, torn>>

(* Mutant: what the cloud does not name keeps its value.                   *)
MergedSettings(old, new) ==
  [new EXCEPT !.pricing = IF @ = None THEN old.pricing ELSE @]

WrittenSettings(old, new) == new

WriteSettings(s) ==
  /\ At(s, "persist")
  /\ disk' = [disk EXCEPT !.settings = WrittenSettings(@, sync[s].settings)]
  /\ Becomes(s, [pc |-> "template", settings |-> sync[s].settings])
  /\ torn' = (\E o \in Slots \ {s} : At(o, "template"))
  /\ UNCHANGED <<facts, runs, cloud, changes, faults>>

(* Mutant: the file of a template that is gone stays.                      *)
KeepTemplate(s) ==
  /\ At(s, "template")
  /\ disk' = [disk EXCEPT !.template =
       IF sync[s].settings.template \in Objects
       THEN sync[s].settings.template ELSE @]
  /\ Becomes(s, Idle)
  /\ UNCHANGED <<facts, runs, cloud, changes, faults, torn>>

WriteTemplate(s) ==
  /\ At(s, "template")
  /\ disk' = [disk EXCEPT !.template = TemplateFile(sync[s].settings)]
  /\ Becomes(s, Idle)
  /\ UNCHANGED <<facts, runs, cloud, changes, faults, torn>>

(* A post or its answer is lost, the cloud refuses, a file cannot be       *)
(* written: the sync is logged and over.  Counters that are not accepted   *)
(* take the settings with them.                                            *)
Fail(s) ==
  /\ sync[s].pc \in {"post", "answered", "persist", "template"}
  /\ faults < MaxFaults /\ faults' = faults + 1
  /\ torn' = (torn \/ At(s, "template"))
  /\ Becomes(s, Idle)
  /\ UNCHANGED <<facts, runs, disk, cloud, changes>>

Restart ==
  /\ faults < MaxFaults /\ faults' = faults + 1
  /\ torn' = (torn \/ \E s \in Slots : At(s, "template"))
  /\ sync' = [s \in Slots |-> Idle]
  /\ UNCHANGED <<facts, runs, disk, cloud, changes>>

-----------------------------------------------------------------------------
(* The world                                                               *)

Change == changes < MaxChanges /\ changes' = changes + 1

ChangeFact ==
  /\ Change
  /\ \E f \in Moving : facts' = IF f \in facts THEN facts \ {f} ELSE facts \cup {f}
  /\ UNCHANGED <<runs, sync, disk, cloud, faults, torn>>

RunMoves ==
  {<<"none", "review">>, <<"none", "failed">>, <<"none", "written">>,
   <<"review", "written">>, <<"review", "approved">>, <<"review", "rejected">>}

ChangeRun ==
  /\ Change
  /\ \E r \in Runs, move \in RunMoves :
       runs[r] = move[1] /\ runs' = [runs EXCEPT ![r] = move[2]]
  /\ UNCHANGED <<facts, sync, disk, cloud, faults, torn>>

Administer ==
  /\ Change
  /\ \E s \in Settings : cloud' = [cloud EXCEPT !.settings = s]
  /\ UNCHANGED <<facts, runs, sync, disk, faults, torn>>

SyncStep(s) ==
  \/ LoadProviderReadiness(s) \/ BuildLocalSetupState(s)
  \/ PostHeartbeat(s) \/ PostCounters(s)
  \/ WriteSettings(s) \/ WriteTemplate(s)

Next ==
  \/ \E s \in Slots : Start(s) \/ SyncStep(s) \/ Fail(s)
  \/ Restart \/ ChangeFact \/ ChangeRun \/ Administer

(* Posts, probes and files answer or fail, and the timer fires again and   *)
(* again: in every slot a sync goes on or, when none is there, is started. *)
Fairness == \A s \in Slots : WF_vars(Start(s) \/ SyncStep(s))

Spec == Init /\ [][Next]_vars /\ Fairness

-----------------------------------------------------------------------------
(* Between syncs the template a PDF is drawn with is the one the settings  *)
(* that price it were stored with (persistHeartbeatSettings), unless two   *)
(* syncs wrote at the same time or one was cut between the two files.      *)
FilesMatch ==
  ~torn /\ (\A s \in Slots : ~At(s, "template"))
    => disk.template = TemplateFile(disk.settings)

(* However the syncs overlap, fail and are cut: once nothing changes any   *)
(* more, quotes are priced and drawn by the settings of the cloud.         *)
SettingsArrive ==
  <>[](/\ PricingModelOverlay = Wanted.pricing
       /\ LoadPdfTemplate = Wanted.template)

(* And the portal shows what GET /api/setup-state says and what the runs   *)
(* have come to, even when an older heartbeat was the last to arrive.      *)
PortalShowsTruth ==
  <>[](/\ cloud.onboarding = OnboardingStatus(SetupState)
       /\ cloud.ai = AiKeyStatus(facts)
       /\ cloud.counters = QuoteCounters(runs))
=============================================================================
