--------------------------- MODULE ApplianceProofs ---------------------------
(***************************************************************************)
(* Proofs about what an appliance keeps in its files.                      *)
(*                                                                         *)
(* ApplianceSync: the two files of settings are from the same answer of    *)
(* the cloud, for any number of syncs.                                     *)
(*                                                                         *)
(* Onboarding: for any providers, mail servers and accounts, the files of  *)
(* a complete phase are sound, a pass that found agent-config.yaml as it   *)
(* left it leaves its phases complete, and no phase undoes another.  The   *)
(* invariant, OInv, says what a session has made of the files at each      *)
(* place (PlaceOK), that what it has not come to yet is as it found it     *)
(* (AheadOK), and that the phases it is past are complete (PassOK).  The   *)
(* last two need each other: a session that comes back to the              *)
(* agent-config.yaml it found has not changed it, for no phase comes       *)
(* twice, so no receipt of it was outdated on the way.                     *)
(***************************************************************************)
EXTENDS ApplianceSync, Onboarding, TLAPS

(* While torn is false one sync at most is between its two files, and the  *)
(* first of them is what that sync was answered with.                      *)
OneWriter ==
  ~torn =>
    \A s \in Slots : At(s, "template") =>
      /\ disk.settings = sync[s].settings
      /\ \A o \in Slots : At(o, "template") => o = s

Shape ==
  /\ sync = [s \in Slots |-> sync[s]]
  /\ disk = [settings |-> disk.settings, template |-> disk.template]
  /\ torn \in BOOLEAN

IInv == Shape /\ OneWriter /\ FilesMatch

(* The syncs that do not write leave the invariant alone: a sync that is   *)
(* not between its files before or after the step changes nothing of it.   *)
LEMMA Elsewhere ==
  ASSUME IInv, UNCHANGED disk, NEW s \in Slots, NEW state,
         ~At(s, "template"), state.pc # "template",
         sync' = [sync EXCEPT ![s] = state], UNCHANGED torn
  PROVE  IInv'
<1>1. Shape'
  BY DEF IInv, Shape
<1>2. \A o \in Slots : At(o, "template")' => At(o, "template") /\ sync'[o] = sync[o]
  BY DEF IInv, Shape, At
<1>3. \A o \in Slots : At(o, "template") => At(o, "template")'
  BY DEF IInv, Shape, At
<1>4. OneWriter'
  <2> SUFFICES ASSUME ~torn, NEW o \in Slots, At(o, "template")'
               PROVE  /\ disk.settings = sync'[o].settings
                      /\ \A q \in Slots : At(q, "template")' => q = o
    BY DEF OneWriter
  <2>1. disk.settings = sync[o].settings /\ \A q \in Slots : At(q, "template") => q = o
    BY <1>2 DEF IInv, OneWriter
  <2> QED
    BY <1>2, <2>1
<1>5. FilesMatch'
  BY <1>3 DEF IInv, FilesMatch, TemplateFile
<1> QED
  BY <1>1, <1>4, <1>5 DEF IInv

(* Nothing of the invariant moves when the syncs and the files do not.     *)
LEMMA Outside == IInv /\ UNCHANGED <<sync, disk, torn>> => IInv'
BY DEF IInv, Shape, OneWriter, FilesMatch, At, TemplateFile

LEMMA InitIInv == Init => IInv
<1> SUFFICES ASSUME Init PROVE IInv
  OBVIOUS
<1>1. \A s \in Slots : sync[s].pc = "idle"
  BY DEF Init, Idle
<1>2. Shape
  BY DEF Init, Shape
<1>3. OneWriter
  BY <1>1 DEF OneWriter, At
<1>4. FilesMatch
  <2>1. disk.template = None /\ disk.settings = NoSettings
    BY DEF Init
  <2>2. TemplateFile(NoSettings) = None
    BY DEF TemplateFile, NoSettings, None, Objects
  <2> QED
    BY <2>1, <2>2 DEF FilesMatch
<1> QED
  BY <1>2, <1>3, <1>4 DEF IInv

(* The first file: what was torn is mended if no other sync is between.    *)
LEMMA WriteSettingsKeeps ==
  ASSUME IInv, NEW s \in Slots, WriteSettings(s)
  PROVE  IInv'
<1>1. /\ sync' = [sync EXCEPT ![s] = [pc |-> "template", settings |-> sync[s].settings]]
      /\ disk' = [disk EXCEPT !.settings = sync[s].settings]
      /\ torn' = (\E o \in Slots \ {s} : At(o, "template"))
  BY DEF WriteSettings, Becomes, WrittenSettings
<1>2. Shape'
  BY <1>1 DEF IInv, Shape
<1>3. At(s, "template")' /\ sync'[s].settings = sync[s].settings
  BY <1>1 DEF IInv, Shape, At
<1>4. disk'.settings = sync[s].settings
  BY <1>1 DEF IInv, Shape
<1>5. \A o \in Slots \ {s} : At(o, "template")' => At(o, "template")
  BY <1>1 DEF IInv, Shape, At
<1>6. OneWriter'
  <2> SUFFICES ASSUME ~torn', NEW o \in Slots, At(o, "template")'
               PROVE  /\ disk'.settings = sync'[o].settings
                      /\ \A q \in Slots : At(q, "template")' => q = o
    BY DEF OneWriter
  <2>1. \A q \in Slots : At(q, "template")' => q = s
    BY <1>1, <1>5
  <2> QED
    BY <1>3, <1>4, <2>1
<1>7. FilesMatch'
  BY <1>3 DEF FilesMatch
<1> QED
  BY <1>2, <1>6, <1>7 DEF IInv

(* The second file is the one the settings on disk name.                   *)
LEMMA WriteTemplateKeeps ==
  ASSUME IInv, NEW s \in Slots, WriteTemplate(s)
  PROVE  IInv'
<1>1. /\ At(s, "template")
      /\ sync' = [sync EXCEPT ![s] = Idle]
      /\ disk' = [disk EXCEPT !.template = TemplateFile(sync[s].settings)]
      /\ torn' = torn
  BY DEF WriteTemplate, Becomes
<1>2. Shape'
  BY <1>1 DEF IInv, Shape
<1>3. disk'.settings = disk.settings /\ disk'.template = TemplateFile(sync[s].settings)
  BY <1>1 DEF IInv, Shape
<1>4. ~torn => /\ disk.settings = sync[s].settings
               /\ \A o \in Slots : At(o, "template") => o = s
  BY <1>1 DEF IInv, OneWriter
<1>5. ~At(s, "template")'
  BY <1>1 DEF IInv, Shape, At, Idle
<1>6. \A o \in Slots \ {s} : At(o, "template")' => At(o, "template")
  BY <1>1 DEF IInv, Shape, At
<1>7. ~torn => \A o \in Slots : ~At(o, "template")'
  BY <1>4, <1>5, <1>6
<1>8. OneWriter'
  BY <1>1, <1>7 DEF OneWriter
<1>9. FilesMatch'
  <2>1. ~torn => disk'.template = TemplateFile(disk'.settings)
    BY <1>3, <1>4
  <2> QED
    BY <1>1, <2>1 DEF FilesMatch, TemplateFile
<1> QED
  BY <1>2, <1>8, <1>9 DEF IInv

(* A sync that fails between the files leaves them torn.                   *)
LEMMA FailKeeps ==
  ASSUME IInv, NEW s \in Slots, Fail(s)
  PROVE  IInv'
<1>1. /\ sync' = [sync EXCEPT ![s] = Idle]
      /\ torn' = (torn \/ At(s, "template")) /\ UNCHANGED disk
  BY DEF Fail, Becomes
<1>2. CASE At(s, "template")
  <2>1. torn'
    BY <1>1, <1>2
  <2>2. Shape'
    BY <1>1 DEF IInv, Shape
  <2> QED
    BY <2>1, <2>2 DEF IInv, OneWriter, FilesMatch
<1>3. CASE ~At(s, "template")
  <2>1. Idle.pc # "template"
    BY DEF Idle
  <2>2. UNCHANGED torn
    BY <1>1, <1>3 DEF IInv, Shape
  <2> QED
    BY <1>1, <1>3, <2>1, <2>2, Elsewhere
<1> QED
  BY <1>2, <1>3

LEMMA RestartKeeps == IInv /\ Restart => IInv'
<1> SUFFICES ASSUME IInv, Restart PROVE IInv'
  OBVIOUS
<1>1. /\ sync' = [s \in Slots |-> Idle] /\ UNCHANGED disk
      /\ torn' = (torn \/ \E s \in Slots : At(s, "template"))
  BY DEF Restart
<1>2. Shape'
  BY <1>1 DEF IInv, Shape
<1>3. \A s \in Slots : ~At(s, "template")'
  BY <1>1 DEF At, Idle
<1>4. OneWriter'
  BY <1>3 DEF OneWriter
<1>5. FilesMatch'
  <2>1. ~torn' => ~torn /\ \A s \in Slots : ~At(s, "template")
    BY <1>1
  <2>2. ~torn' => disk.template = TemplateFile(disk.settings)
    BY <2>1 DEF IInv, FilesMatch
  <2> QED
    BY <1>1, <2>2 DEF FilesMatch, TemplateFile
<1> QED
  BY <1>2, <1>4, <1>5 DEF IInv

(* The steps before the files are written: each moves the sync from one    *)
(* stage to another, none of them the one between the files.               *)
LEMMA EarlierStepsKeep ==
  ASSUME IInv, NEW s \in Slots,
         \/ Start(s) \/ LoadProviderReadiness(s) \/ BuildLocalSetupState(s)
         \/ PostHeartbeat(s) \/ PostCounters(s)
  PROVE  IInv'
<1>1. CASE Start(s)
  <2>1. /\ ~At(s, "template") /\ UNCHANGED <<disk, torn>>
        /\ \E state : state.pc # "template" /\ sync' = [sync EXCEPT ![s] = state]
    BY <1>1 DEF Start, At, Becomes
  <2> QED
    BY <2>1, Elsewhere
<1>2. CASE LoadProviderReadiness(s)
  <2> DEFINE new == [pc |-> "loaded", listed |-> sync[s].runs,
                     rfq |-> HasPassingTestRfq(sync[s].runs, runs),
                     facts |-> facts \cap ReadinessFacts]
  <2>1. /\ ~At(s, "template") /\ UNCHANGED <<disk, torn>>
        /\ sync' = [sync EXCEPT ![s] = new]
    BY <1>2 DEF LoadProviderReadiness, At, Becomes
  <2>2. new.pc # "template"
    OBVIOUS
  <2> HIDE DEF new
  <2> QED
    BY <2>1, <2>2, Elsewhere
<1>3. CASE BuildLocalSetupState(s)
  <2> DEFINE seen == sync[s].facts \cup (facts \ ReadinessFacts)
             new  == [pc |-> "post",
                      onboarding |-> OnboardingStatus(RequiredSteps(seen, sync[s].rfq)),
                      ai |-> AiKeyStatus(seen),
                      counters |-> QuoteCounters(sync[s].listed)]
  <2>1. /\ ~At(s, "template") /\ UNCHANGED <<disk, torn>>
        /\ sync' = [sync EXCEPT ![s] = new]
    BY <1>3 DEF BuildLocalSetupState, At, Becomes
  <2>2. new.pc # "template"
    OBVIOUS
  <2> HIDE DEF new
  <2> QED
    BY <2>1, <2>2, Elsewhere
<1>4. CASE PostHeartbeat(s)
  <2>1. /\ ~At(s, "template") /\ UNCHANGED <<disk, torn>>
        /\ \E state : state.pc # "template" /\ sync' = [sync EXCEPT ![s] = state]
    BY <1>4 DEF PostHeartbeat, At, Becomes
  <2> QED
    BY <2>1, Elsewhere
<1>5. CASE PostCounters(s)
  <2>1. /\ ~At(s, "template") /\ UNCHANGED <<disk, torn>>
        /\ \E state : state.pc # "template" /\ sync' = [sync EXCEPT ![s] = state]
    BY <1>5 DEF PostCounters, At, Becomes
  <2> QED
    BY <2>1, Elsewhere
<1> QED
  BY <1>1, <1>2, <1>3, <1>4, <1>5

LEMMA NextIInv == IInv /\ [Next]_vars => IInv'
<1> SUFFICES ASSUME IInv, [Next]_vars PROVE IInv'
  OBVIOUS
<1>1. ASSUME NEW s \in Slots, Start(s) PROVE IInv'
  BY <1>1, EarlierStepsKeep
<1>2. ASSUME NEW s \in Slots, SyncStep(s) PROVE IInv'
  BY <1>2, EarlierStepsKeep, WriteSettingsKeeps, WriteTemplateKeeps DEF SyncStep
<1>3. ASSUME NEW s \in Slots, Fail(s) PROVE IInv'
  BY <1>3, FailKeeps
<1>4. CASE Restart
  BY <1>4, RestartKeeps
<1>5. CASE ChangeFact \/ ChangeRun \/ Administer
  <2>1. UNCHANGED <<sync, disk, torn>>
    BY <1>5 DEF ChangeFact, ChangeRun, Administer
  <2> QED
    BY <2>1, Outside
<1>6. CASE UNCHANGED vars
  BY <1>6, Outside DEF vars
<1> QED
  BY <1>1, <1>2, <1>3, <1>4, <1>5, <1>6 DEF Next

(* Between syncs the two files are of one answer, unless two syncs wrote   *)
(* at a time or one was cut between them (persistHeartbeatSettings).       *)
THEOREM FilesAreOfOneAnswer == Spec => []FilesMatch
<1>1. IInv => FilesMatch
  BY DEF IInv
<1> QED
  BY InitIInv, NextIInv, <1>1, PTL DEF Spec

-----------------------------------------------------------------------------
(* Onboarding: the invariant                                               *)

EnvFields     == {"ai", "mailbox", "embeddings", "token"}
ConfigFields  == {"model", "mailbox", "embeddings", "approver"}
ReceiptNames  == {"ai", "mailbox", "knowledge"}
ReceiptFields == {"config", "current"}
RunFields     == {"pc", "at", "last", "mode", "answers", "input", "found", "ended"}

Formed(r, fields) == DOMAIN r = fields /\ r = [f \in fields |-> r[f]]

(* The files and the session have their parts.                             *)
FilesFormed ==
  /\ Formed(env, EnvFields) /\ Formed(config, ConfigFields)
  /\ Formed(receipt, ReceiptNames)
  /\ \A n \in ReceiptNames : Formed(receipt[n], ReceiptFields)
  /\ Formed(manifest, {"whole", "units", "priced"})
  /\ Formed(service, {"license", "tms", "store", "rfq"})

RunFormed ==
  /\ Formed(run, RunFields) /\ Formed(run.found, ConfigFields)
  /\ run.at \in 1 .. 10 /\ run.last \in 0 .. 10
  /\ run.input \in Accounts \cup {NoAccount}
  /\ run.pc = "prerequisites" => run.at < run.last
  /\ ~ NoSession => run.mode \in {"all", "through", "only"}
  /\ ~ NoSession /\ run.mode = "all" => run.last = TestRfq

OnboardTypeOK == FilesFormed /\ RunFormed

(* What a phase has made of the files so far when it stops at a place.     *)
PlaceOK ==
  /\ Stands("ai_provider", "config") => \E p \in env.ai : env.ai = {p}
  /\ Stands("ai_provider", "revise") \/ Stands("ai_provider", "receipt") =>
       env.ai = {config.model}
  /\ Stands("cloudflare", "clean") => "token" \in tunnel
  /\ Stands("cloudflare", "access") => "token" \in tunnel /\ ~ env.token
  /\ Stands("cloudflare", "hostname") =>
       {"token", "access"} \subseteq tunnel /\ ~ env.token
  /\ Stands("appliance_secrets", "config") => env.mailbox = run.input[2]
  /\ Stands("appliance_secrets", "revise") \/ Stands("appliance_secrets", "receipt") =>
       /\ env.mailbox = run.input[2] /\ config.mailbox = run.input[1]
       /\ env.embeddings <=> config.embeddings
  /\ Stands("appliance_secrets", "receipt") => run.input # NoAccount
  /\ Stands("knowledge", "receipt") =>
       config.embeddings /\ env.embeddings /\ service.store
  /\ Stands("knowledge", "record") => config.embeddings

SoundOK ==
  /\ "hostname" \in tunnel => ~ env.token
  /\ ~ unpaired /\ config.mailbox # Unset /\ env.mailbox # Unset =>
       <<config.mailbox, env.mailbox>> \in Accounts
  /\ receipt.knowledge.current => receipt.knowledge.config.embeddings

(* What a session has not come to yet is as it found it.                   *)
Ahead(n, places) == run.at < n \/ (run.at = n /\ run.pc \in places)
AheadOK ==
  ~ NoSession =>
    /\ Ahead(1, {"prerequisites", "check", "run", "config"}) =>
         config.model = run.found.model
    /\ Ahead(4, {"prerequisites", "check", "run", "config"}) =>
         /\ config.mailbox = run.found.mailbox
         /\ config.embeddings = run.found.embeddings
    /\ Ahead(7, {"prerequisites", "check", "run", "approve"}) =>
         config.approver = run.found.approver

(* Phases up to the n-th are complete.                                     *)
FiledThrough(n) == \A i \in 1 .. n : Phases[i] = "units" \/ Filed(Phases[i])

Settled == run.found = config /\ config.embeddings /\ manifest.whole

PassOK ==
  /\ ~ NoSession /\ run.mode = "through" =>
       /\ run.last = Knowledge /\ run.at <= Knowledge /\ run.pc # "prerequisites"
       /\ Settled => FiledThrough(run.at - 1)
       /\ Settled /\ run.pc = "record" => FiledThrough(run.at)
  /\ ~ NoSession => run.ended # "through"
  /\ NoSession /\ run.ended = "through" /\ run.found = config /\ manifest.whole =>
       FiledThrough(Knowledge)

OInv == OnboardTypeOK /\ PlaceOK /\ SoundOK /\ AheadOK /\ PassOK

-----------------------------------------------------------------------------
(* Phases                                                                  *)

(* A phase by its number.                                                  *)
LEMMA PhaseNumbers ==
  ASSUME NEW i \in 1 .. 10
  PROVE  /\ Phases[i] = "ai_provider" <=> i = 1
         /\ Phases[i] = "license_activation" <=> i = 2
         /\ Phases[i] = "cloudflare" <=> i = 3
         /\ Phases[i] = "appliance_secrets" <=> i = 4
         /\ Phases[i] = "tms" <=> i = 5
         /\ Phases[i] = "units" <=> i = 6
         /\ Phases[i] = "authorization" <=> i = 7
         /\ Phases[i] = "pricing" <=> i = 8
         /\ Phases[i] = "knowledge" <=> i = 9
         /\ Phases[i] = "test_rfq" <=> i = 10
         /\ Phases[i] \in PhaseIds
<1>1. \/ i = 1 /\ Phases[i] = "ai_provider"
      \/ i = 2 /\ Phases[i] = "license_activation"
      \/ i = 3 /\ Phases[i] = "cloudflare"
      \/ i = 4 /\ Phases[i] = "appliance_secrets"
      \/ i = 5 /\ Phases[i] = "tms"
      \/ i = 6 /\ Phases[i] = "units"
      \/ i = 7 /\ Phases[i] = "authorization"
      \/ i = 8 /\ Phases[i] = "pricing"
      \/ i = 9 /\ Phases[i] = "knowledge"
      \/ i = 10 /\ Phases[i] = "test_rfq"
  BY DEF Phases
<1>2. Phases[i] \in PhaseIds
  BY DEF PhaseIds, Phases
<1>3. QED BY <1>1, <1>2

(* The phases by their names.                                              *)
LEMMA PhaseNames ==
  PhaseIds = {"ai_provider", "license_activation", "cloudflare", "appliance_secrets",
              "tms", "units", "authorization", "pricing", "knowledge", "test_rfq"}
BY DEF PhaseIds, Phases

(* What completes a phase, by name.                                        *)
LEMMA FiledNames ==
  /\ Filed("ai_provider") <=> AiReceiptMatches
  /\ Filed("license_activation") <=> service.license
  /\ Filed("cloudflare") <=> CloudflareComplete
  /\ Filed("appliance_secrets") <=> SecretsComplete
  /\ Filed("tms") <=> service.tms
  /\ Filed("units") <=> manifest.units
  /\ Filed("authorization") <=> config.approver
  /\ Filed("pricing") <=> manifest.priced
  /\ Filed("knowledge") <=> KnowledgeComplete
  /\ Filed("test_rfq") <=> service.rfq
BY DEF Filed, UnitsComplete, AuthorizationComplete, PricingComplete

(* What a step must leave alone for a phase to stay complete, as long as   *)
(* agent-config.yaml stays what it is.                                     *)
Spared(p) ==
  /\ p = "ai_provider" => env'.ai = env.ai /\ receipt'.ai = receipt.ai
  /\ p = "license_activation" => (service.license => service'.license)
  /\ p = "cloudflare" => tunnel \subseteq tunnel'
  /\ p = "appliance_secrets" =>
       /\ env'.mailbox = env.mailbox /\ receipt'.mailbox = receipt.mailbox
       /\ env.embeddings => env'.embeddings
  /\ p = "tms" => (service.tms => service'.tms)
  /\ p = "units" => (manifest.units => manifest'.units)
  /\ p = "pricing" => (manifest.priced => manifest'.priced)
  /\ p = "knowledge" =>
       receipt'.knowledge = receipt.knowledge /\ (service.store => service'.store)
  /\ p = "test_rfq" => (service.rfq => service'.rfq)

LEMMA SparedIsFiled ==
  ASSUME NEW p \in PhaseIds, Filed(p), Spared(p), config' = config
  PROVE  Filed(p)'
<1> USE DEF Filed, Spared
<1>1. CASE p = "ai_provider"
  BY <1>1 DEF AiReceiptMatches, Matches
<1>2. CASE p = "cloudflare"
  BY <1>2 DEF CloudflareComplete
<1>3. CASE p = "appliance_secrets"
  BY <1>3 DEF SecretsComplete, Matches
<1>4. CASE p = "knowledge"
  BY <1>4 DEF KnowledgeComplete, Matches
<1>5. CASE p \in {"license_activation", "tms", "units", "authorization", "pricing",
                 "test_rfq"}
  BY <1>5 DEF UnitsComplete, AuthorizationComplete, PricingComplete
<1>6. QED BY <1>1, <1>2, <1>3, <1>4, <1>5, PhaseNames

(* updateAllowedEnv, for the keys the phases give it.                      *)
LEMMA KeyStored ==
  ASSUME Formed(env, EnvFields), NEW v, env' = UpdateAllowedEnv([ai |-> v])
  PROVE  /\ Formed(env', EnvFields)
         /\ env'.ai = v /\ env'.mailbox = env.mailbox
         /\ env'.embeddings = env.embeddings /\ env'.token = env.token
BY DEF UpdateAllowedEnv, Formed, EnvFields

(* The same for the removal of the tunnel's token.                         *)
LEMMA TokenStored ==
  ASSUME Formed(env, EnvFields), env' = UpdateAllowedEnv([token |-> FALSE])
  PROVE  /\ Formed(env', EnvFields)
         /\ env'.ai = env.ai /\ env'.mailbox = env.mailbox
         /\ env'.embeddings = env.embeddings /\ ~ env'.token
BY DEF UpdateAllowedEnv, Formed, EnvFields

(* The same for the secrets of the mailbox and the embeddings.             *)
LEMMA SecretsStored ==
  ASSUME Formed(env, EnvFields), NEW s, NEW e,
         env' = UpdateAllowedEnv([mailbox |-> s, embeddings |-> e])
  PROVE  /\ Formed(env', EnvFields)
         /\ env'.ai = env.ai /\ env'.mailbox = s
         /\ env'.embeddings = e /\ env'.token = env.token
<1>1. DOMAIN [mailbox |-> s, embeddings |-> e] = {"mailbox", "embeddings"}
  OBVIOUS
<1>2. DOMAIN env = EnvFields
  BY DEF Formed
<1>3. env' = [k \in EnvFields |-> IF k \in {"mailbox", "embeddings"}
                                   THEN [mailbox |-> s, embeddings |-> e][k] ELSE env[k]]
  BY <1>1, <1>2 DEF UpdateAllowedEnv
<1>4. QED BY <1>3 DEF Formed, EnvFields

(* A receipt is changed for one name only.                                 *)
LEMMA ReceiptKept ==
  ASSUME \A n \in ReceiptNames : Formed(receipt[n], ReceiptFields),
         Formed(receipt, ReceiptNames), NEW m \in ReceiptNames, NEW v,
         receipt' = [receipt EXCEPT ![m] = v]
  PROVE  /\ \A n \in ReceiptNames \ {m} : receipt'[n] = receipt[n]
         /\ receipt'[m] = v
         /\ Formed(receipt', ReceiptNames)
BY DEF Formed

(* The step of a phase spares all others, if it does not tear the manifest.*)
LEMMA PhaseSpares ==
  ASSUME OnboardTypeOK, ~ NoSession, [OnboardNext]_onboard, manifest'.whole,
         NEW p \in PhaseIds, p # Phase
  PROVE  Spared(p)
<1> USE DEF Spared, files, world, count, onboard, Untouched
<1>1. ASSUME \/ Check \/ CheckPrerequisite \/ Record \/ Refuse \/ Stop \/ Revoke
             \/ Authorize \/ Approve \/ AiConfig \/ SecretsConfig
             \/ UNCHANGED onboard
      PROVE  Spared(p)
  BY <1>1 DEF Check, CheckPrerequisite, Record, Refuse, Stop, Revoke, Authorize, Approve,
     AiConfig, SecretsConfig
<1>2. ASSUME AiKey \/ AiRevision \/ AiReceipt PROVE Spared(p)
  <2>0. p # "ai_provider"
    BY <1>2 DEF AiKey, AiRevision, AiReceipt, Stands
  <2>1. CASE AiKey
    <3>1. \/ UNCHANGED env
          \/ \E q \in AiInput : env' = UpdateAllowedEnv([ai |-> {q}])
      BY <2>1 DEF AiKey
    <3>2. env'.mailbox = env.mailbox /\ env'.embeddings = env.embeddings
      BY <3>1, KeyStored DEF OnboardTypeOK, FilesFormed
    <3>3. QED BY <2>0, <2>1, <3>2 DEF AiKey
  <2>2. CASE AiRevision \/ AiReceipt
    <3>1. \E v : receipt' = [receipt EXCEPT !["ai"] = v]
      BY <2>2 DEF AiRevision, AiReceipt
    <3>2. receipt'.mailbox = receipt.mailbox /\ receipt'.knowledge = receipt.knowledge
      BY <3>1, ReceiptKept DEF OnboardTypeOK, FilesFormed, ReceiptNames
    <3>3. QED BY <2>0, <2>2, <3>2 DEF AiRevision, AiReceipt
  <2>3. QED BY <1>2, <2>1, <2>2
<1>3. ASSUME Activate \/ ConnectTms \/ SubmitTestRfq PROVE Spared(p)
  BY <1>3 DEF Activate, ConnectTms, SubmitTestRfq, Stands, OnboardTypeOK, FilesFormed, Formed
<1>4. ASSUME TunnelToken \/ TunnelClean \/ TunnelAccess \/ TunnelHostname
      PROVE  Spared(p)
  <2>1. CASE TunnelClean
    <3>1. /\ env'.ai = env.ai /\ env'.mailbox = env.mailbox
          /\ env'.embeddings = env.embeddings
      BY <2>1, TokenStored DEF TunnelClean, OnboardTypeOK, FilesFormed
    <3>2. QED BY <2>1, <3>1 DEF TunnelClean
  <2>2. CASE TunnelToken \/ TunnelAccess \/ TunnelHostname
    BY <2>2 DEF TunnelToken, TunnelAccess, TunnelHostname
  <2>3. QED BY <1>4, <2>1, <2>2
<1>5. ASSUME SecretsEnv \/ SecretsRevision \/ SecretsReceipt PROVE Spared(p)
  <2>0. p # "appliance_secrets"
    BY <1>5 DEF SecretsEnv, SecretsRevision, SecretsReceipt, Stands
  <2>1. CASE SecretsEnv
    <3>1. \/ UNCHANGED env
          \/ \E m \in MailboxInput : env' = UpdateAllowedEnv(
               [mailbox |-> m[2],
                embeddings |-> ~run.answers.guided \/ config.embeddings])
      BY <2>1 DEF SecretsEnv
    <3>2. env'.ai = env.ai
      BY <3>1, SecretsStored DEF OnboardTypeOK, FilesFormed
    <3>3. QED BY <2>0, <2>1, <3>2 DEF SecretsEnv
  <2>2. CASE SecretsRevision \/ SecretsReceipt
    <3>1. \E v : receipt' = [receipt EXCEPT !["mailbox"] = v]
      BY <2>2 DEF SecretsRevision, SecretsReceipt
    <3>2. receipt'.ai = receipt.ai /\ receipt'.knowledge = receipt.knowledge
      BY <3>1, ReceiptKept DEF OnboardTypeOK, FilesFormed, ReceiptNames
    <3>3. QED BY <2>0, <2>2, <3>2 DEF SecretsRevision, SecretsReceipt
  <2>3. QED BY <1>5, <2>1, <2>2
<1>6. ASSUME SyncUnits \/ ValidatePricing PROVE Spared(p)
  <2>1. DOMAIN manifest = {"whole", "units", "priced"}
    BY DEF OnboardTypeOK, FilesFormed, Formed
  <2>2. \/ manifest' = manifest
        \/ manifest' = [manifest EXCEPT !.units = TRUE, !.priced = TRUE]
        \/ manifest' = [manifest EXCEPT !.priced = TRUE]
    BY <1>6 DEF SyncUnits, ValidatePricing
  <2>3. /\ manifest.units => manifest'.units
        /\ manifest.priced => manifest'.priced
    BY <2>1, <2>2
  <2>4. /\ UNCHANGED <<env, config, receipt, tunnel, world>>
    BY <1>6 DEF SyncUnits, ValidatePricing
  <2>5. QED BY <2>3, <2>4
<1>7. ASSUME Ingest \/ IngestReceipt PROVE Spared(p)
  BY <1>7 DEF Ingest, IngestReceipt, Stands, OnboardTypeOK, FilesFormed, Formed, ReceiptNames
<1>8. ASSUME Tear PROVE Spared(p)
  BY <1>8 DEF Tear, Truncated
<1>9. QED
  BY <1>1, <1>2, <1>3, <1>4, <1>5, <1>6, <1>7, <1>8
     DEF OnboardNext, Steps, Resume, Continue, StartOther, LegacyAiKey, LegacySecret

-----------------------------------------------------------------------------
(* Sessions                                                                *)

(* What a step within a phase does to the record of the session.           *)
LEMMA Going ==
  ASSUME Formed(run, RunFields), NEW pc, Goto(pc)
  PROVE  /\ Formed(run', RunFields)
         /\ run'.pc = pc /\ run'.at = run.at /\ run'.last = run.last
         /\ run'.mode = run.mode /\ run'.input = run.input
         /\ run'.found = run.found /\ run'.ended = run.ended
BY DEF Formed, RunFields, Goto

(* What the end of a session leaves of it.                                 *)
LEMMA Ending ==
  ASSUME Formed(run, RunFields), NEW how, End(how)
  PROVE  /\ Formed(run', RunFields)
         /\ run'.pc = "idle" /\ run'.at = 1 /\ run'.last = run.last
         /\ run'.mode = run.mode /\ run'.input = NoAccount
         /\ run'.found = run.found /\ run'.ended = how
BY DEF Formed, RunFields, End

(* A session begins with agent-config.yaml as it is found.                 *)
LEMMA Beginning ==
  ASSUME NEW mode, NEW last, NEW answers, Begin(mode, last, answers)
  PROVE  /\ Formed(run', RunFields)
         /\ run'.pc = (IF mode = "only" /\ last > 1 THEN "prerequisites" ELSE "check")
         /\ run'.at = 1 /\ run'.last = last /\ run'.mode = mode
         /\ run'.input = NoAccount /\ run'.found = config /\ run'.ended = Unset
BY DEF Formed, RunFields, Begin

(* The next phase, of a session that runs or that looks at what must be   *)
(* complete before.                                                        *)
LEMMA Proceeding ==
  ASSUME Formed(run, RunFields), run.at \in Nat, Record,
         run.mode # "only", run.at # run.last
  PROVE  /\ Formed(run', RunFields)
         /\ run'.pc = "check" /\ run'.at = run.at + 1 /\ run'.last = run.last
         /\ run'.mode = run.mode /\ run'.input = NoAccount
         /\ run'.found = run.found /\ run'.ended = run.ended
BY DEF Formed, RunFields, Record

(* The same for a session that looks at the phases before its own.         *)
LEMMA Preceding ==
  ASSUME Formed(run, RunFields), run.at \in Nat,
         run' = [run EXCEPT !.at = @ + 1,
                            !.pc = IF run.at + 1 = run.last THEN "check" ELSE @]
  PROVE  /\ Formed(run', RunFields)
         /\ run'.pc = (IF run.at + 1 = run.last THEN "check" ELSE run.pc)
         /\ run'.at = run.at + 1 /\ run'.last = run.last
         /\ run'.mode = run.mode /\ run'.input = run.input
         /\ run'.found = run.found /\ run'.ended = run.ended
BY DEF Formed, RunFields

(* The session goes on in its phase.                                       *)
Late  == {"revise", "receipt", "record", "clean", "access", "hostname"}
Early == {"check", "run"}
Onward(pc) ==
  /\ ~ NoSession /\ Goto(pc)
  /\ \/ pc \in Late
     \/ run.pc \in Early /\ pc \in {"run", "config", "approve"}
Selected(mode, last) ==
  \/ mode = "all" /\ last = TestRfq
  \/ mode = "through" /\ last = Knowledge
  \/ mode = "only" /\ last \in 1 .. 10

(* Every selection of phases ends where its mode says.                     *)
LEMMA Chosen ==
  ASSUME NEW s \in Selections
  PROVE  Selected(s.mode, s.last)
BY DEF Selections, Selected, Phases

(* What a step does with the session.                                      *)
Opens == \E mode, last, answers : Selected(mode, last) /\ Begin(mode, last, answers)
Ends  == \E how : how # "through" /\ End(how)
Goes  == \E pc : Onward(pc)
Takes == \E m \in Accounts \cup {NoAccount} :
           /\ Stands("appliance_secrets", "run")
           /\ run' = [run EXCEPT !.input = m, !.pc = "config"]

(* Steps that begin a session, and steps that end one.                     *)
LEMMA OpensOrEnds ==
  /\ Resume \/ Continue \/ StartOther => Opens
  /\ LegacyAiKey \/ LegacySecret \/ Refuse \/ Stop \/ Tear => Ends
<1>1. ASSUME Resume \/ Continue PROVE Opens
  <2>1. Begin("through", Knowledge, Guided) \/ Begin("only", TestRfq, Guided)
    BY <1>1 DEF Resume, Continue
  <2>2. Selected("through", Knowledge) /\ Selected("only", TestRfq)
    BY DEF Selected, TestRfq
  <2>3. QED BY <2>1, <2>2 DEF Opens
<1>2. ASSUME StartOther PROVE Opens
  <2>1. PICK s \in Selections : \E a \in Answers \cup {Guided} : Begin(s.mode, s.last, a)
    BY <1>2 DEF StartOther
  <2>2. QED BY <2>1, Chosen DEF Opens
<1>3. ASSUME LegacyAiKey \/ LegacySecret \/ Refuse \/ Stop \/ Tear PROVE Ends
  <2>1. End(Unset) \/ End("failed")
    BY <1>3 DEF LegacyAiKey, LegacySecret, Refuse, Stop, Tear
  <2>2. Unset # "through" /\ "failed" # "through"
    BY DEF Unset
  <2>3. QED BY <2>1, <2>2 DEF Ends
<1>4. QED BY <1>1, <1>2, <1>3

(* What any step does with the session.                                    *)
LEMMA SessionStays ==
  ASSUME [OnboardNext]_onboard
  PROVE  \/ Resume \/ Continue \/ StartOther
         \/ Ends \/ Goes \/ Takes \/ Record \/ CheckPrerequisite
         \/ run' = run
<1> USE DEF files, world, count, onboard, Untouched
<1>4. ASSUME Check PROVE Goes \/ Ends
  <2>1. Goto("record") \/ Goto("run") \/ End("pending")
    BY <1>4 DEF Check
  <2>2. run.pc = "check"
    BY <1>4 DEF Check
  <2>3. "pending" # "through"
    OBVIOUS
  <2>4. QED BY <2>1, <2>2, <2>3 DEF Goes, Ends, Onward, Late, Early, NoSession
<1>5. ASSUME AiKey \/ Ingest \/ SubmitTestRfq PROVE Goes \/ Ends
  <2>1. Goto("config") \/ Goto("receipt") \/ Goto("record") \/ End("failed") \/ End("pending")
    BY <1>5 DEF AiKey, Ingest, SubmitTestRfq
  <2>2. run.pc = "run"
    BY <1>5 DEF AiKey, Ingest, SubmitTestRfq, Stands
  <2>3. "failed" # "through" /\ "pending" # "through"
    OBVIOUS
  <2>4. QED BY <2>1, <2>2, <2>3 DEF Goes, Ends, Onward, Late, Early, NoSession
<1>6. ASSUME SecretsEnv PROVE Takes \/ Ends
  <2>1. PICK m \in MailboxInput :
          \/ /\ m = NoAccount \/ ProbeAccepts(m)
             /\ run' = [run EXCEPT !.input = m, !.pc = "config"]
          \/ End("failed")
    BY <1>6 DEF SecretsEnv
  <2>2. Stands("appliance_secrets", "run")
    BY <1>6 DEF SecretsEnv
  <2>3. "failed" # "through"
    OBVIOUS
  <2>4. QED BY <2>1, <2>2, <2>3 DEF Takes, Ends, ProbeAccepts
<1>7. ASSUME Authorize PROVE Goes
  <2>1. Goto("record") \/ Goto("approve")
    BY <1>7 DEF Authorize
  <2>2. run.pc = "run"
    BY <1>7 DEF Authorize, Stands
  <2>3. QED BY <2>1, <2>2 DEF Goes, Onward, Late, Early, NoSession
<1>8. ASSUME \/ AiConfig \/ AiRevision \/ AiReceipt \/ Activate
             \/ TunnelToken \/ TunnelClean \/ TunnelAccess \/ TunnelHostname
             \/ SecretsConfig \/ SecretsRevision \/ SecretsReceipt
             \/ ConnectTms \/ SyncUnits \/ Approve \/ ValidatePricing \/ IngestReceipt
      PROVE  Goes
  <2>1. \E pc \in Late : Goto(pc)
    BY <1>8 DEF AiConfig, AiRevision, AiReceipt, Activate, TunnelToken, TunnelClean,
       TunnelAccess, TunnelHostname, SecretsConfig, SecretsRevision, SecretsReceipt,
       ConnectTms, SyncUnits, Approve, ValidatePricing, IngestReceipt, Late
  <2>2. ~ NoSession
    BY <1>8 DEF AiConfig, AiRevision, AiReceipt, Activate, TunnelToken, TunnelClean,
       TunnelAccess, TunnelHostname, SecretsConfig, SecretsRevision, SecretsReceipt,
       ConnectTms, SyncUnits, Approve, ValidatePricing, IngestReceipt, Stands, NoSession
  <2>3. QED BY <2>1, <2>2 DEF Goes, Onward
<1>9. ASSUME Revoke \/ UNCHANGED onboard PROVE run' = run
  BY <1>9 DEF Revoke
<1>10. QED
  BY <1>4, <1>5, <1>6, <1>7, <1>8, <1>9, OpensOrEnds DEF OnboardNext, Steps

(* The same, by the change alone.                                          *)
LEMMA SessionMoves ==
  ASSUME [OnboardNext]_onboard
  PROVE  \/ Opens \/ Ends \/ Goes \/ Takes
         \/ Record \/ CheckPrerequisite
         \/ run' = run
BY SessionStays, OpensOrEnds

-----------------------------------------------------------------------------
(* Types                                                                   *)

(* Writing one field of a record of given fields.                          *)
LEMMA FieldWritten ==
  ASSUME NEW r, NEW fields, Formed(r, fields), NEW f \in fields, NEW v
  PROVE  /\ Formed([r EXCEPT ![f] = v], fields)
         /\ [r EXCEPT ![f] = v][f] = v
         /\ \A g \in fields \ {f} : [r EXCEPT ![f] = v][g] = r[g]
BY DEF Formed

(* Every step leaves the files with their parts.                           *)
LEMMA FilesNext ==
  ASSUME OnboardTypeOK, [OnboardNext]_onboard
  PROVE  FilesFormed'
<1> USE DEF files, world, count, onboard, Untouched
<1>0. FilesFormed
  BY DEF OnboardTypeOK
<1>1. Formed(env', EnvFields)
  <2>1. ASSUME AiKey PROVE Formed(env', EnvFields)
    <3>1. UNCHANGED env \/ \E q \in AiInput : env' = UpdateAllowedEnv([ai |-> {q}])
      BY <2>1 DEF AiKey
    <3>2. QED BY <1>0, <3>1, KeyStored DEF FilesFormed
  <2>2. ASSUME SecretsEnv PROVE Formed(env', EnvFields)
    <3>1. UNCHANGED env \/ \E m \in MailboxInput : env' = UpdateAllowedEnv(
            [mailbox |-> m[2], embeddings |-> ~run.answers.guided \/ config.embeddings])
      BY <2>2 DEF SecretsEnv
    <3>2. QED BY <1>0, <3>1, SecretsStored DEF FilesFormed
  <2>3. ASSUME TunnelClean PROVE Formed(env', EnvFields)
    BY <1>0, <2>3, TokenStored DEF FilesFormed, TunnelClean
  <2>4. ASSUME LegacyAiKey PROVE Formed(env', EnvFields)
    <3>1. PICK p \in Providers : env' = [env EXCEPT !.ai = @ \cup {p}]
      BY <2>4 DEF LegacyAiKey
    <3>2. QED BY <1>0, <3>1 DEF FilesFormed, Formed
  <2>5. ASSUME LegacySecret PROVE Formed(env', EnvFields)
    <3>1. PICK p \in Secrets : env' = [env EXCEPT !.mailbox = p]
      BY <2>5 DEF LegacySecret
    <3>2. QED BY <1>0, <3>1 DEF FilesFormed, Formed
  <2>6. ASSUME UNCHANGED env PROVE Formed(env', EnvFields)
    BY <1>0, <2>6 DEF FilesFormed
  <2>7. QED
    BY <2>1, <2>2, <2>3, <2>4, <2>5, <2>6
       DEF OnboardNext, Steps, Check, CheckPrerequisite, Record, AiConfig, AiRevision,
           AiReceipt, Activate, TunnelToken, TunnelAccess, TunnelHostname, SecretsConfig,
           SecretsRevision, SecretsReceipt, ConnectTms, SyncUnits, Authorize, Approve,
           ValidatePricing, Ingest, IngestReceipt, SubmitTestRfq, Resume, Continue,
           StartOther, Refuse, Stop, Tear, Revoke
<1>2. Formed(config', ConfigFields)
  <2>1. ASSUME AiConfig PROVE Formed(config', ConfigFields)
    <3>1. \E v : config' = [config EXCEPT !.model = v]
      BY <2>1 DEF AiConfig
    <3>2. QED BY <1>0, <3>1 DEF FilesFormed, Formed
  <2>2. ASSUME SecretsConfig PROVE Formed(config', ConfigFields)
    <3>1. PICK v, w : config' = [config EXCEPT !.mailbox = v, !.embeddings = w]
      BY <2>2 DEF SecretsConfig
    <3>2. DOMAIN config = ConfigFields
      BY <1>0 DEF FilesFormed, Formed
    <3>3. QED BY <3>1, <3>2 DEF Formed
  <2>3. ASSUME Approve PROVE Formed(config', ConfigFields)
    BY <1>0, <2>3 DEF Approve, FilesFormed, Formed
  <2>4. ASSUME Tear PROVE Formed(config', ConfigFields)
    <3>1. config' = config \/ config' = Emptied
      BY <2>4 DEF Tear
    <3>2. Formed(Emptied, ConfigFields)
      BY DEF Formed, Emptied, ConfigFields
    <3>3. QED BY <1>0, <3>1, <3>2 DEF FilesFormed
  <2>5. ASSUME UNCHANGED config PROVE Formed(config', ConfigFields)
    BY <1>0, <2>5 DEF FilesFormed
  <2>6. QED
    BY <2>1, <2>2, <2>3, <2>4, <2>5
       DEF OnboardNext, Steps, Check, CheckPrerequisite, Record, AiKey, AiRevision,
           AiReceipt, Activate, TunnelToken, TunnelClean, TunnelAccess, TunnelHostname,
           SecretsEnv, SecretsRevision, SecretsReceipt, ConnectTms, SyncUnits, Authorize,
           ValidatePricing, Ingest, IngestReceipt, SubmitTestRfq, Resume, Continue,
           StartOther, LegacyAiKey, LegacySecret, Refuse, Stop, Revoke
<1>3. /\ Formed(receipt', ReceiptNames)
      /\ \A n \in ReceiptNames : Formed(receipt'[n], ReceiptFields)
  <2>1. ASSUME NEW m \in ReceiptNames, NEW v, Formed(v, ReceiptFields),
               receipt' = [receipt EXCEPT ![m] = v]
        PROVE  <1>3!:
    BY <1>0, <2>1, ReceiptKept DEF FilesFormed
  <2>2. Formed(Current, ReceiptFields)
    BY DEF Formed, Current, ReceiptFields
  <2>3. ASSUME NEW m \in ReceiptNames PROVE Formed([receipt[m] EXCEPT !.current = FALSE], ReceiptFields)
    BY <1>0 DEF FilesFormed, Formed
  <2>4. ASSUME AiRevision \/ SecretsRevision PROVE <1>3!:
    <3>1. \/ receipt' = [receipt EXCEPT !["ai"] = [receipt["ai"] EXCEPT !.current = FALSE]]
          \/ receipt' = [receipt EXCEPT !["mailbox"] = [receipt["mailbox"] EXCEPT !.current = FALSE]]
      BY <1>0, <2>4 DEF AiRevision, SecretsRevision, FilesFormed, Formed, ReceiptNames
    <3>2. QED BY <3>1, <2>1, <2>3 DEF ReceiptNames
  <2>5. ASSUME AiReceipt \/ SecretsReceipt \/ IngestReceipt PROVE <1>3!:
    <3>1. \E m \in ReceiptNames : receipt' = [receipt EXCEPT ![m] = Current]
      BY <2>5 DEF AiReceipt, SecretsReceipt, IngestReceipt, ReceiptNames
    <3>2. QED BY <3>1, <2>1, <2>2
  <2>6. ASSUME UNCHANGED receipt PROVE <1>3!:
    BY <1>0, <2>6 DEF FilesFormed
  <2>7. QED
    BY <2>4, <2>5, <2>6
       DEF OnboardNext, Steps, Check, CheckPrerequisite, Record, AiKey, AiConfig,
           Activate, TunnelToken, TunnelClean, TunnelAccess, TunnelHostname,
           SecretsEnv, SecretsConfig, ConnectTms, SyncUnits, Authorize, Approve,
           ValidatePricing, Ingest, SubmitTestRfq, Resume, Continue,
           StartOther, LegacyAiKey, LegacySecret, Refuse, Stop, Tear, Revoke
<1>4. Formed(manifest', {"whole", "units", "priced"})
  <2>1. ASSUME SyncUnits \/ ValidatePricing \/ Tear
        PROVE  Formed(manifest', {"whole", "units", "priced"})
    BY <1>0, <2>1 DEF SyncUnits, ValidatePricing, Tear, Truncated, FilesFormed, Formed
  <2>2. ASSUME UNCHANGED manifest PROVE Formed(manifest', {"whole", "units", "priced"})
    BY <1>0, <2>2 DEF FilesFormed
  <2>3. QED
    BY <2>1, <2>2
       DEF OnboardNext, Steps, Check, CheckPrerequisite, Record, AiKey, AiConfig, AiRevision,
           AiReceipt, Activate, TunnelToken, TunnelClean, TunnelAccess, TunnelHostname,
           SecretsEnv, SecretsConfig, SecretsRevision, SecretsReceipt, ConnectTms, Authorize,
           Approve, Ingest, IngestReceipt, SubmitTestRfq, Resume, Continue,
           StartOther, LegacyAiKey, LegacySecret, Refuse, Stop, Revoke
<1>5. Formed(service', {"license", "tms", "store", "rfq"})
  <2>1. ASSUME Activate \/ ConnectTms \/ Ingest \/ SubmitTestRfq
        PROVE  Formed(service', {"license", "tms", "store", "rfq"})
    BY <1>0, <2>1 DEF Activate, ConnectTms, Ingest, SubmitTestRfq, FilesFormed, Formed
  <2>2. ASSUME UNCHANGED service PROVE Formed(service', {"license", "tms", "store", "rfq"})
    BY <1>0, <2>2 DEF FilesFormed
  <2>3. QED
    BY <2>1, <2>2
       DEF OnboardNext, Steps, Check, CheckPrerequisite, Record, AiKey, AiConfig, AiRevision,
           AiReceipt, TunnelToken, TunnelClean, TunnelAccess, TunnelHostname, SecretsEnv,
           SecretsConfig, SecretsRevision, SecretsReceipt, SyncUnits, Authorize, Approve,
           ValidatePricing, IngestReceipt, Resume, Continue, StartOther, LegacyAiKey,
           LegacySecret, Refuse, Stop, Tear, Revoke
<1>6. QED BY <1>1, <1>2, <1>3, <1>4, <1>5 DEF FilesFormed

(* Every step leaves the session with its parts, and within its phases.    *)
LEMMA RunNext ==
  ASSUME OnboardTypeOK, PassOK, [OnboardNext]_onboard
  PROVE  RunFormed'
<1> USE DEF NoSession
<1>0. FilesFormed /\ RunFormed /\ Formed(run, RunFields)
  BY DEF OnboardTypeOK, RunFormed
<1>1. ASSUME Opens PROVE RunFormed'
  <2>1. PICK mode, last, answers : Selected(mode, last) /\ Begin(mode, last, answers)
    BY <1>1 DEF Opens
  <2>2. QED
    BY <1>0, <2>1, Beginning DEF RunFormed, FilesFormed, Selected, TestRfq, Knowledge, NoAccount
<1>2. ASSUME Ends PROVE RunFormed'
  <2>1. PICK how : End(how)
    BY <1>2 DEF Ends
  <2>2. QED
    BY <1>0, <2>1, Ending DEF RunFormed
<1>3. ASSUME Goes PROVE RunFormed'
  <2>1. PICK pc : Onward(pc)
    BY <1>3 DEF Goes
  <2>2. pc # "prerequisites"
    BY <2>1 DEF Onward, Late
  <2>3. QED
    BY <1>0, <2>1, <2>2, Going DEF RunFormed, Onward
<1>4. ASSUME Takes PROVE RunFormed'
  BY <1>0, <1>4 DEF Takes, RunFormed, Formed, RunFields, Stands
<1>5. ASSUME Record PROVE RunFormed'
  <2>1. CASE run.mode = "only" \/ run.at = run.last
    <3>1. \E how : End(how)
      BY <1>5, <2>1 DEF Record
    <3>2. QED BY <1>0, <3>1, Ending DEF RunFormed
  <2>2. CASE ~(run.mode = "only" \/ run.at = run.last)
    <3>1. run.at < 10 /\ run.at \in Nat
      BY <1>0, <1>5, <2>2 DEF Record, RunFormed, PassOK, TestRfq, Knowledge
    <3>2. QED
      BY <1>0, <1>5, <2>2, <3>1, Proceeding DEF RunFormed, Record
  <2>3. QED BY <2>1, <2>2
<1>6. ASSUME CheckPrerequisite PROVE RunFormed'
  <2>1. CASE \E how : End(how)
    BY <1>0, <2>1, Ending DEF RunFormed
  <2>2. CASE run' = [run EXCEPT !.at = @ + 1,
                       !.pc = IF run.at + 1 = run.last THEN "check" ELSE @]
    <3>1. run.at < run.last
      BY <1>0, <1>6 DEF RunFormed, CheckPrerequisite
    <3>2. QED
      BY <1>0, <1>6, <2>2, <3>1, Preceding DEF RunFormed, CheckPrerequisite
  <2>3. QED BY <1>6, <2>1, <2>2 DEF CheckPrerequisite
<1>7. ASSUME run' = run PROVE RunFormed'
  BY <1>0, <1>7 DEF RunFormed
<1>8. QED BY <1>1, <1>2, <1>3, <1>4, <1>5, <1>6, <1>7, SessionMoves

-----------------------------------------------------------------------------
(* Places                                                                  *)

(* A session that stays at its number stays in its phase.                  *)
LEMMA SamePhase ==
  ASSUME run'.at = run.at
  PROVE  Phase' = Phase
BY DEF Phase

(* Nothing is claimed of the files when a session is at one of these.      *)
LEMMA Nowhere ==
  ASSUME \/ run'.pc \in {"idle", "prerequisites", "check", "run", "approve"}
         \/ run'.pc = "record" /\ Phase' # "knowledge"
  PROVE  PlaceOK'
BY DEF PlaceOK, Stands

(* The step of a phase that ends it, for any but the knowledge.            *)
LEMMA PhaseEnds ==
  ASSUME Formed(run, RunFields), Goto("record"), Phase # "knowledge"
  PROVE  PlaceOK'
BY Going, SamePhase, Nowhere

(* Steps between phases lead to no place with a claim.                     *)
LEMMA SessionPlaces ==
  ASSUME OnboardTypeOK, Opens \/ Ends \/ Record \/ CheckPrerequisite
  PROVE  PlaceOK'
<1>0. Formed(run, RunFields) /\ run.at \in Nat
  BY DEF OnboardTypeOK, RunFormed
<1>1. CASE Opens
  BY <1>1, Beginning, Nowhere DEF Opens
<1>2. CASE \E how : End(how)
  BY <1>0, <1>2, Ending, Nowhere
<1>3. CASE Record
  <2>1. (\E how : End(how)) \/ (run.mode # "only" /\ run.at # run.last)
    BY <1>3 DEF Record
  <2>2. QED BY <1>0, <1>2, <1>3, <2>1, Proceeding, Nowhere
<1>4. CASE CheckPrerequisite
  <2>1. \/ \E how : End(how)
        \/ run' = [run EXCEPT !.at = @ + 1,
                              !.pc = IF run.at + 1 = run.last THEN "check" ELSE @]
    BY <1>4 DEF CheckPrerequisite
  <2>2. run.pc = "prerequisites"
    BY <1>4 DEF CheckPrerequisite
  <2>3. QED BY <1>0, <1>2, <2>1, <2>2, Preceding, Nowhere
<1>5. QED BY <1>1, <1>2, <1>3, <1>4 DEF Ends

(* Every step leads to a place whose claim holds.                          *)
LEMMA PlaceNext ==
  ASSUME OnboardTypeOK, PlaceOK, SoundOK, [OnboardNext]_onboard
  PROVE  PlaceOK'
<1> USE DEF files, world, count, onboard, Untouched
<1>0. Formed(run, RunFields) /\ FilesFormed
  BY DEF OnboardTypeOK, RunFormed
<1>1. ASSUME Opens \/ Ends \/ Record \/ CheckPrerequisite PROVE PlaceOK'
  BY <1>1, SessionPlaces
<1>2. ASSUME Check PROVE PlaceOK'
  <2>1. CASE Goto("run")
    BY <1>0, <2>1, Going, Nowhere
  <2>2. CASE End("pending")
    BY <1>0, <2>2, Ending, Nowhere
  <2>3. CASE Complete(Phase) /\ Goto("record")
    <3>1. CASE Phase # "knowledge"
      BY <1>0, <2>3, <3>1, PhaseEnds
    <3>2. CASE Phase = "knowledge"
      <4>1. config.embeddings
        BY <2>3, <3>2, FiledNames DEF Complete, KnowledgeComplete, Matches, SoundOK
      <4>2. UNCHANGED config
        BY <1>2 DEF Check
      <4>3. run'.pc = "record" /\ Phase' = "knowledge"
        BY <1>0, <2>3, <3>2, Going, SamePhase
      <4>4. QED BY <4>1, <4>2, <4>3 DEF PlaceOK, Stands
    <3>3. QED BY <3>1, <3>2
  <2>4. QED BY <1>2, <2>1, <2>2, <2>3 DEF Check
<1>3. ASSUME \/ Activate \/ ConnectTms \/ SyncUnits \/ Approve \/ ValidatePricing
             \/ AiReceipt \/ TunnelHostname \/ SecretsReceipt
      PROVE  PlaceOK'
  <2>1. Goto("record") /\ Phase # "knowledge"
    BY <1>3 DEF Activate, ConnectTms, SyncUnits, Approve, ValidatePricing, AiReceipt,
       TunnelHostname, SecretsReceipt, Stands
  <2>2. QED BY <1>0, <2>1, PhaseEnds
<1>4. ASSUME Authorize \/ SubmitTestRfq PROVE PlaceOK'
  <2>1. Goto("record") \/ Goto("approve") \/ End("pending")
    BY <1>4 DEF Authorize, SubmitTestRfq
  <2>2. Phase # "knowledge"
    BY <1>4 DEF Authorize, SubmitTestRfq, Stands
  <2>3. QED BY <1>0, <2>1, <2>2, PhaseEnds, Going, Ending, Nowhere
<1>5. ASSUME AiKey PROVE PlaceOK'
  <2>1. CASE End("failed")
    BY <1>0, <2>1, Ending, Nowhere
  <2>2. CASE Goto("config") /\ \E p \in AiInput : env' = UpdateAllowedEnv([ai |-> {p}])
    <3>1. \E p : env'.ai = {p}
      BY <1>0, <2>2, KeyStored DEF FilesFormed
    <3>2. run'.pc = "config" /\ Phase' = "ai_provider"
      BY <1>0, <1>5, <2>2, Going, SamePhase DEF AiKey, Stands
    <3>3. QED BY <3>1, <3>2 DEF PlaceOK, Stands
  <2>3. QED BY <1>5, <2>1, <2>2 DEF AiKey
<1>6. ASSUME AiConfig PROVE PlaceOK'
  <2>1. PICK p : env.ai = {p}
    BY <1>6 DEF AiConfig, PlaceOK
  <2>2. config'.model = p
    <3>1. (CHOOSE q \in {p} : TRUE) = p
      OBVIOUS
    <3>2. QED BY <1>0, <1>6, <2>1, <3>1 DEF AiConfig, FilesFormed, Formed, ConfigFields
  <2>3. run'.pc = "revise" /\ Phase' = "ai_provider"
    BY <1>0, <1>6, Going, SamePhase DEF AiConfig, Stands
  <2>4. env'.ai = {config'.model}
    BY <1>6, <2>1, <2>2 DEF AiConfig
  <2>5. QED BY <2>3, <2>4 DEF PlaceOK, Stands
<1>7. ASSUME AiRevision PROVE PlaceOK'
  <2>1. run'.pc = "receipt" /\ Phase' = "ai_provider"
    BY <1>0, <1>7, Going, SamePhase DEF AiRevision, Stands
  <2>2. env'.ai = {config'.model}
    BY <1>7 DEF AiRevision, PlaceOK
  <2>3. QED BY <2>1, <2>2 DEF PlaceOK, Stands
<1>8. ASSUME TunnelToken \/ TunnelClean \/ TunnelAccess PROVE PlaceOK'
  <2>1. Phase' = "cloudflare"
    BY <1>0, <1>8, Going, SamePhase DEF TunnelToken, TunnelClean, TunnelAccess, Stands
  <2>2. CASE TunnelToken
    BY <1>0, <2>1, <2>2, Going DEF TunnelToken, PlaceOK, Stands
  <2>3. CASE TunnelClean
    <3>1. ~ env'.token
      BY <1>0, <2>3, TokenStored DEF TunnelClean, FilesFormed
    <3>2. "token" \in tunnel' /\ run'.pc = "access"
      BY <1>0, <2>3, Going DEF TunnelClean, PlaceOK
    <3>3. QED BY <2>1, <3>1, <3>2 DEF PlaceOK, Stands
  <2>4. CASE TunnelAccess
    <3>1. "token" \in tunnel' /\ "access" \in tunnel' /\ ~ env'.token
      BY <2>4 DEF TunnelAccess, PlaceOK
    <3>2. run'.pc = "hostname"
      BY <1>0, <2>4, Going DEF TunnelAccess
    <3>3. QED BY <2>1, <3>1, <3>2 DEF PlaceOK, Stands
  <2>5. QED BY <1>8, <2>2, <2>3, <2>4
<1>9. ASSUME SecretsEnv PROVE PlaceOK'
  <2>1. CASE End("failed")
    BY <1>0, <2>1, Ending, Nowhere
  <2>2. CASE \E m \in MailboxInput :
               /\ env' = UpdateAllowedEnv(
                    [mailbox |-> m[2],
                     embeddings |-> ~run.answers.guided \/ config.embeddings])
               /\ run' = [run EXCEPT !.input = m, !.pc = "config"]
    <3>1. PICK m \in MailboxInput :
               /\ env' = UpdateAllowedEnv(
                    [mailbox |-> m[2],
                     embeddings |-> ~run.answers.guided \/ config.embeddings])
               /\ run' = [run EXCEPT !.input = m, !.pc = "config"]
      BY <2>2
    <3>2. env'.mailbox = m[2]
      BY <1>0, <3>1, SecretsStored DEF FilesFormed
    <3>3. run'.pc = "config" /\ run'.input = m /\ run'.at = run.at
      BY <1>0, <3>1 DEF Formed, RunFields
    <3>4. Phase' = "appliance_secrets"
      BY <1>9, <3>3, SamePhase DEF SecretsEnv, Stands
    <3>5. QED BY <3>2, <3>3, <3>4 DEF PlaceOK, Stands
  <2>3. QED BY <1>9, <2>1, <2>2 DEF SecretsEnv
<1>10. ASSUME SecretsConfig PROVE PlaceOK'
  <2>1. run'.pc = "revise" /\ Phase' = "appliance_secrets" /\ run'.input = run.input
    BY <1>0, <1>10, Going, SamePhase DEF SecretsConfig, Stands
  <2>2. env'.mailbox = run'.input[2]
    BY <1>10, <2>1 DEF SecretsConfig, PlaceOK
  <2>3. config'.mailbox = run'.input[1] /\ config'.embeddings = env'.embeddings
    <3>1. DOMAIN config = ConfigFields
      BY <1>0 DEF FilesFormed, Formed
    <3>2. config' = [config EXCEPT !.mailbox = run.input[1], !.embeddings = env.embeddings]
      BY <1>10 DEF SecretsConfig
    <3>3. config'.mailbox = run.input[1] /\ config'.embeddings = env.embeddings
      BY <3>1, <3>2 DEF ConfigFields
    <3>4. env' = env
      BY <1>10 DEF SecretsConfig
    <3>5. QED BY <2>1, <3>3, <3>4
  <2>4. QED BY <2>1, <2>2, <2>3 DEF PlaceOK, Stands
<1>11. ASSUME SecretsRevision PROVE PlaceOK'
  <2>1. CASE run.input = NoAccount
    BY <1>0, <1>11, <2>1, PhaseEnds DEF SecretsRevision, Stands
  <2>2. CASE run.input # NoAccount
    <3>1. Goto("receipt") /\ Phase = "appliance_secrets"
      BY <1>11, <2>2 DEF SecretsRevision, Stands
    <3>2. run'.pc = "receipt" /\ Phase' = "appliance_secrets" /\ run'.input = run.input
      BY <1>0, <3>1, Going, SamePhase
    <3>3. /\ env'.mailbox = run'.input[2] /\ config'.mailbox = run'.input[1]
          /\ env'.embeddings <=> config'.embeddings
      BY <1>11, <3>2 DEF SecretsRevision, PlaceOK
    <3>4. QED BY <2>2, <3>2, <3>3 DEF PlaceOK, Stands
  <2>3. QED BY <2>1, <2>2
<1>12. ASSUME Ingest PROVE PlaceOK'
  <2>1. CASE End("failed")
    BY <1>0, <2>1, Ending, Nowhere
  <2>2. CASE /\ config.embeddings /\ env.embeddings /\ Goto("receipt")
             /\ service' = [service EXCEPT !.store = TRUE]
    <3>1. config'.embeddings /\ env'.embeddings
      BY <1>12, <2>2 DEF Ingest
    <3>2. service'.store
      BY <1>0, <2>2 DEF FilesFormed, Formed
    <3>3. run'.pc = "receipt" /\ Phase' = "knowledge"
      BY <1>0, <1>12, <2>2, Going, SamePhase DEF Ingest, Stands
    <3>4. QED BY <3>1, <3>2, <3>3 DEF PlaceOK, Stands
  <2>3. QED BY <1>12, <2>1, <2>2 DEF Ingest
<1>13. ASSUME IngestReceipt PROVE PlaceOK'
  <2>1. config'.embeddings
    BY <1>13 DEF IngestReceipt, PlaceOK
  <2>2. run'.pc = "record" /\ Phase' = "knowledge"
    BY <1>0, <1>13, Going, SamePhase DEF IngestReceipt, Stands
  <2>3. QED BY <2>1, <2>2 DEF PlaceOK, Stands
<1>14. ASSUME Revoke \/ UNCHANGED onboard PROVE PlaceOK'
  <2>1. UNCHANGED <<env, config, tunnel, run, service.store>>
    BY <1>14 DEF Revoke
  <2>2. Phase' = Phase
    BY <2>1, SamePhase
  <2>3. QED BY <2>1, <2>2 DEF PlaceOK, Stands
<1>15. ASSUME Resume \/ Continue \/ StartOther \/ LegacyAiKey \/ LegacySecret \/ Refuse \/ Stop \/ Tear
       PROVE  PlaceOK'
  <2>1. Opens \/ Ends
    BY <1>15, OpensOrEnds
  <2>2. QED BY <1>1, <2>1
<1>16. QED
  BY <1>1, <1>2, <1>3, <1>4, <1>5, <1>6, <1>7, <1>8, <1>9, <1>10, <1>11, <1>12, <1>13,
     <1>14, <1>15 DEF OnboardNext, Steps

-----------------------------------------------------------------------------
(* Soundness                                                               *)

(* The token is in client.env until its own file has it, and no step puts  *)
(* it back.                                                                *)
LEMMA TokenNext ==
  ASSUME FilesFormed, [OnboardNext]_onboard
  PROVE  /\ env'.token => env.token
         /\ "hostname" \in tunnel' => "hostname" \in tunnel \/ TunnelHostname
<1> USE DEF files, world, count, onboard, Untouched
<1>1. "hostname" \in tunnel' => "hostname" \in tunnel \/ TunnelHostname
  <2>1. \/ UNCHANGED tunnel \/ TunnelHostname
        \/ tunnel' = tunnel \cup {"token"} \/ tunnel' = tunnel \cup {"access"}
    BY DEF OnboardNext, Steps, Check, CheckPrerequisite, Record, AiKey, AiConfig, AiRevision,
       AiReceipt, Activate, TunnelToken, TunnelClean, TunnelAccess, SecretsEnv,
       SecretsConfig, SecretsRevision, SecretsReceipt, ConnectTms, SyncUnits, Authorize,
       Approve, ValidatePricing, Ingest, IngestReceipt, SubmitTestRfq, Resume, Continue,
       StartOther, LegacyAiKey, LegacySecret, Refuse, Stop, Tear, Revoke
  <2>2. QED BY <2>1
<1>2. env'.token => env.token
  <2>1. CASE AiKey
    <3>1. UNCHANGED env \/ \E q \in AiInput : env' = UpdateAllowedEnv([ai |-> {q}])
      BY <2>1 DEF AiKey
    <3>2. QED BY <3>1, KeyStored DEF FilesFormed
  <2>2. CASE SecretsEnv
    <3>1. UNCHANGED env \/ \E m \in MailboxInput : env' = UpdateAllowedEnv(
            [mailbox |-> m[2], embeddings |-> ~run.answers.guided \/ config.embeddings])
      BY <2>2 DEF SecretsEnv
    <3>2. QED BY <3>1, SecretsStored DEF FilesFormed
  <2>3. CASE TunnelClean
    BY <2>3, TokenStored DEF FilesFormed, TunnelClean
  <2>4. CASE LegacyAiKey \/ LegacySecret
    <3>1. CASE \E v : env' = [env EXCEPT !["ai"] = v]
      BY <3>1, FieldWritten DEF FilesFormed, EnvFields
    <3>2. CASE \E v : env' = [env EXCEPT !["mailbox"] = v]
      BY <3>2, FieldWritten DEF FilesFormed, EnvFields
    <3>3. QED BY <2>4, <3>1, <3>2 DEF LegacyAiKey, LegacySecret
  <2>5. CASE UNCHANGED env
    BY <2>5
  <2>6. QED
    BY <2>1, <2>2, <2>3, <2>4, <2>5
       DEF OnboardNext, Steps, Check, CheckPrerequisite, Record, AiConfig, AiRevision,
           AiReceipt, Activate, TunnelToken, TunnelAccess, TunnelHostname, SecretsConfig,
           SecretsRevision, SecretsReceipt, ConnectTms, SyncUnits, Authorize, Approve,
           ValidatePricing, Ingest, IngestReceipt, SubmitTestRfq, Resume, Continue,
           StartOther, Refuse, Stop, Tear, Revoke
<1>3. QED BY <1>1, <1>2

(* The mailbox of agent-config.yaml and its password change together, or   *)
(* the step is one that leaves them unpaired.                              *)
LEMMA MailboxNext ==
  ASSUME FilesFormed, [OnboardNext]_onboard
  PROVE  \/ UNCHANGED <<config.mailbox, env.mailbox, unpaired>>
         \/ config'.mailbox = Unset
         \/ unpaired'
         \/ SecretsConfig
<1> USE DEF files, world, count, onboard, Untouched
<1>1. CASE AiKey
  <2>1. UNCHANGED env \/ \E q \in AiInput : env' = UpdateAllowedEnv([ai |-> {q}])
    BY <1>1 DEF AiKey
  <2>2. UNCHANGED env.mailbox
    BY <2>1, KeyStored DEF FilesFormed
  <2>3. QED BY <1>1, <2>2 DEF AiKey
<1>2. CASE SecretsEnv
  BY <1>2 DEF SecretsEnv
<1>3. CASE TunnelClean
  BY <1>3, TokenStored DEF FilesFormed, TunnelClean
<1>4. CASE LegacyAiKey
  <2>1. \E v : env' = [env EXCEPT !["ai"] = v]
    BY <1>4 DEF LegacyAiKey
  <2>2. UNCHANGED env.mailbox
    BY <2>1, FieldWritten DEF FilesFormed, EnvFields
  <2>3. QED BY <1>4, <2>2 DEF LegacyAiKey
<1>5. CASE LegacySecret
  BY <1>5 DEF LegacySecret
<1>6. CASE AiConfig \/ Approve
  <2>1. \E v : config' = [config EXCEPT !["model"] = v] \/ config' = [config EXCEPT !["approver"] = v]
    BY <1>6 DEF AiConfig, Approve
  <2>2. UNCHANGED config.mailbox
    BY <2>1, FieldWritten DEF FilesFormed, ConfigFields
  <2>3. QED BY <1>6, <2>2 DEF AiConfig, Approve
<1>7. CASE Tear
  BY <1>7 DEF Tear, Emptied
<1>8. QED
  BY <1>1, <1>2, <1>3, <1>4, <1>5, <1>6, <1>7
     DEF OnboardNext, Steps, Check, CheckPrerequisite, Record, AiRevision,
         AiReceipt, Activate, TunnelToken, TunnelAccess, TunnelHostname,
         SecretsRevision, SecretsReceipt, ConnectTms, SyncUnits, Authorize,
         ValidatePricing, Ingest, IngestReceipt, SubmitTestRfq, Resume, Continue,
         StartOther, Refuse, Stop, Revoke

(* Only the ingestion writes the receipt of the knowledge.                 *)
LEMMA KnowledgeReceiptNext ==
  ASSUME FilesFormed, [OnboardNext]_onboard
  PROVE  UNCHANGED receipt.knowledge \/ IngestReceipt
<1> USE DEF files, world, count, onboard, Untouched
<1>1. CASE AiRevision \/ AiReceipt \/ SecretsRevision \/ SecretsReceipt
  <2>1. CASE \E v : receipt' = [receipt EXCEPT !["ai"] = v]
    BY <2>1, FieldWritten DEF FilesFormed, ReceiptNames
  <2>2. CASE \E v : receipt' = [receipt EXCEPT !["mailbox"] = v]
    BY <2>2, FieldWritten DEF FilesFormed, ReceiptNames
  <2>3. QED BY <1>1, <2>1, <2>2 DEF AiRevision, AiReceipt, SecretsRevision, SecretsReceipt
<1>2. QED
  BY <1>1
     DEF OnboardNext, Steps, Check, CheckPrerequisite, Record, AiKey, AiConfig,
         Activate, TunnelToken, TunnelClean, TunnelAccess, TunnelHostname,
         SecretsEnv, SecretsConfig, ConnectTms, SyncUnits, Authorize, Approve,
         ValidatePricing, Ingest, SubmitTestRfq, Resume, Continue,
         StartOther, LegacyAiKey, LegacySecret, Refuse, Stop, Tear, Revoke

(* Every step keeps the files sound.                                       *)
LEMMA SoundNext ==
  ASSUME OnboardTypeOK, PlaceOK, SoundOK, [OnboardNext]_onboard
  PROVE  SoundOK'
<1>0. FilesFormed
  BY DEF OnboardTypeOK
<1>1. ("hostname" \in tunnel => ~ env.token)'
  BY <1>0, TokenNext DEF TunnelHostname, PlaceOK, SoundOK
<1>2. (~ unpaired /\ config.mailbox # Unset /\ env.mailbox # Unset =>
         <<config.mailbox, env.mailbox>> \in Accounts)'
  <2>1. CASE SecretsConfig
    <3>1. DOMAIN config = ConfigFields
      BY <1>0 DEF FilesFormed, Formed
    <3>2. config' = [config EXCEPT !.mailbox = run.input[1], !.embeddings = env.embeddings]
      BY <2>1 DEF SecretsConfig
    <3>3. config'.mailbox = run.input[1]
      BY <3>1, <3>2 DEF ConfigFields
    <3>4. env'.mailbox = run.input[2]
      BY <2>1 DEF SecretsConfig, PlaceOK
    <3>5. run.input \in Accounts \/ run.input = NoAccount
      BY DEF OnboardTypeOK, RunFormed
    <3>6. run.input \in Accounts => <<run.input[1], run.input[2]>> \in Accounts
      BY AccountsAssumption DEF AccountsAssumption
    <3>7. QED BY <3>3, <3>4, <3>5, <3>6 DEF NoAccount
  <2>2. CASE UNCHANGED <<config.mailbox, env.mailbox, unpaired>>
    BY <2>2 DEF SoundOK
  <2>3. QED BY <1>0, <2>1, <2>2, MailboxNext
<1>3. (receipt.knowledge.current => receipt.knowledge.config.embeddings)'
  <2>1. CASE IngestReceipt
    <3>1. receipt' = [receipt EXCEPT !["knowledge"] = Current]
      BY <2>1 DEF IngestReceipt
    <3>2. receipt'.knowledge = Current
      BY <1>0, <3>1, FieldWritten DEF FilesFormed, ReceiptNames
    <3>3. config.embeddings
      BY <2>1 DEF IngestReceipt, PlaceOK
    <3>4. QED BY <3>2, <3>3 DEF Current
  <2>2. CASE UNCHANGED receipt.knowledge
    BY <2>2 DEF SoundOK
  <2>3. QED BY <1>0, <2>1, <2>2, KnowledgeReceiptNext
<1>4. QED BY <1>1, <1>2, <1>3 DEF SoundOK

-----------------------------------------------------------------------------
(* agent-config.yaml within a session                                      *)

(* Three phases write agent-config.yaml, each its own part.                *)
LEMMA ConfigMoves ==
  ASSUME FilesFormed, [OnboardNext]_onboard
  PROVE  \/ UNCHANGED config
         \/ Tear /\ config' = Emptied
         \/ AiConfig /\ UNCHANGED <<config.mailbox, config.embeddings, config.approver>>
         \/ SecretsConfig /\ UNCHANGED <<config.model, config.approver>>
         \/ Approve /\ UNCHANGED <<config.model, config.mailbox, config.embeddings>>
<1> USE DEF files, world, count, onboard, Untouched
<1>1. CASE AiConfig
  <2>1. \E v : config' = [config EXCEPT !["model"] = v]
    BY <1>1 DEF AiConfig
  <2>2. UNCHANGED <<config.mailbox, config.embeddings, config.approver>>
    BY <2>1, FieldWritten DEF FilesFormed, ConfigFields
  <2>3. QED BY <1>1, <2>2
<1>2. CASE SecretsConfig
  <2>1. DOMAIN config = ConfigFields
    BY DEF FilesFormed, Formed
  <2>2. config' = [config EXCEPT !.mailbox = run.input[1], !.embeddings = env.embeddings]
    BY <1>2 DEF SecretsConfig
  <2>3. UNCHANGED <<config.model, config.approver>>
    BY <2>1, <2>2 DEF ConfigFields
  <2>4. QED BY <1>2, <2>3
<1>3. CASE Approve
  <2>1. config' = [config EXCEPT !["approver"] = TRUE]
    BY <1>3 DEF Approve
  <2>2. UNCHANGED <<config.model, config.mailbox, config.embeddings>>
    BY <2>1, FieldWritten DEF FilesFormed, ConfigFields
  <2>3. QED BY <1>3, <2>2
<1>4. CASE Tear
  BY <1>4 DEF Tear
<1>5. QED
  BY <1>1, <1>2, <1>3, <1>4
     DEF OnboardNext, Steps, Check, CheckPrerequisite, Record, AiKey, AiRevision,
         AiReceipt, Activate, TunnelToken, TunnelClean, TunnelAccess, TunnelHostname,
         SecretsEnv, SecretsRevision, SecretsReceipt, ConnectTms, SyncUnits, Authorize,
         ValidatePricing, Ingest, IngestReceipt, SubmitTestRfq, Resume, Continue,
         StartOther, LegacyAiKey, LegacySecret, Refuse, Stop, Revoke

(* Where Phase is says how far the session is.                             *)
LEMMA PhaseAt ==
  ASSUME RunFormed
  PROVE  /\ Phase = "ai_provider" <=> run.at = 1
         /\ Phase = "appliance_secrets" <=> run.at = 4
         /\ Phase = "units" <=> run.at = 6
         /\ Phase = "authorization" <=> run.at = 7
         /\ Phase = "knowledge" <=> run.at = 9
         /\ Phase = "test_rfq" <=> run.at = 10
         /\ Phase \in PhaseIds
BY PhaseNumbers DEF RunFormed, Phase

(* A session that has not moved back is ahead of what it was ahead of.     *)
LEMMA AheadStays ==
  ASSUME OnboardTypeOK, AheadOK, ~ NoSession, UNCHANGED config, run'.found = run.found,
         \/ run'.at = run.at /\ run'.pc \in Late
         \/ run'.at = run.at /\ run.pc \in Early
         \/ run'.at = run.at + 1
         \/ run'.at = run.at /\ run'.pc = run.pc
  PROVE  AheadOK'
<1>1. run.at \in Nat
  BY DEF OnboardTypeOK, RunFormed
<1>2. ASSUME NEW n \in {1, 4, 7}, NEW places, Early \subseteq places,
             places \cap Late = {}, Ahead(n, places)'
      PROVE  Ahead(n, places)
  BY <1>1, <1>2 DEF Ahead
<1>3. Ahead(1, {"prerequisites", "check", "run", "config"})' =>
        Ahead(1, {"prerequisites", "check", "run", "config"})
  BY <1>2 DEF Early, Late
<1>4. Ahead(4, {"prerequisites", "check", "run", "config"})' =>
        Ahead(4, {"prerequisites", "check", "run", "config"})
  BY <1>2 DEF Early, Late
<1>5. Ahead(7, {"prerequisites", "check", "run", "approve"})' =>
        Ahead(7, {"prerequisites", "check", "run", "approve"})
  BY <1>2 DEF Early, Late
<1>6. QED BY <1>3, <1>4, <1>5 DEF AheadOK

(* Every step leaves what is ahead of the session as it was found.         *)
LEMMA AheadNext ==
  ASSUME OnboardTypeOK, AheadOK, [OnboardNext]_onboard
  PROVE  AheadOK'
<1>0. FilesFormed /\ RunFormed /\ Formed(run, RunFields) /\ run.at \in Nat
  BY DEF OnboardTypeOK, RunFormed
<1>1. CASE \E how : End(how)
  BY <1>0, <1>1, Ending DEF AheadOK, NoSession
<1>2. CASE AiConfig /\ UNCHANGED <<config.mailbox, config.embeddings, config.approver>>
  <2>1. run'.at = 1 /\ run'.pc = "revise" /\ run'.found = run.found
    BY <1>0, <1>2, PhaseAt, Going DEF AiConfig, Stands
  <2>2. run.at = 1 /\ ~ NoSession
    BY <1>0, <1>2, PhaseAt DEF AiConfig, Stands, NoSession
  <2>3. QED BY <1>2, <2>1, <2>2 DEF AheadOK, Ahead
<1>3. CASE SecretsConfig /\ UNCHANGED <<config.model, config.approver>>
  <2>1. run'.at = 4 /\ run'.pc = "revise" /\ run'.found = run.found
    BY <1>0, <1>3, PhaseAt, Going DEF SecretsConfig, Stands
  <2>2. run.at = 4 /\ ~ NoSession
    BY <1>0, <1>3, PhaseAt DEF SecretsConfig, Stands, NoSession
  <2>3. QED BY <1>3, <2>1, <2>2 DEF AheadOK, Ahead
<1>4. CASE Approve /\ UNCHANGED <<config.model, config.mailbox, config.embeddings>>
  <2>1. run'.at = 7 /\ run'.pc = "record" /\ run'.found = run.found
    BY <1>0, <1>4, PhaseAt, Going DEF Approve, Stands
  <2>2. QED BY <2>1 DEF AheadOK, Ahead
<1>5. CASE Resume \/ Continue \/ StartOther
  <2>1. UNCHANGED config
    BY <1>5 DEF Resume, Continue, StartOther, files
  <2>2. PICK mode, last, answers : Begin(mode, last, answers)
    BY <1>5, OpensOrEnds DEF Opens
  <2>3. run'.found = config
    BY <2>2, Beginning
  <2>4. QED BY <2>1, <2>3 DEF AheadOK
<1>6. CASE UNCHANGED config /\ Goes
  <2>1. PICK pc : Onward(pc)
    BY <1>6 DEF Goes
  <2>2. QED BY <1>0, <1>6, <2>1, Going, AheadStays DEF Onward
<1>7. CASE UNCHANGED config /\ Takes
  <2>1. run'.at = run.at /\ run'.found = run.found /\ run.pc = "run"
    BY <1>0, <1>7 DEF Takes, Stands, Formed, RunFields
  <2>2. QED BY <1>7, <2>1, AheadStays DEF Early, NoSession
<1>8. CASE Record
  <2>1. CASE run.mode # "only" /\ run.at # run.last
    <3>1. UNCHANGED config /\ ~ NoSession
      BY <1>8 DEF Record, files, NoSession
    <3>2. QED BY <1>0, <1>8, <2>1, <3>1, Proceeding, AheadStays
  <2>2. QED BY <1>1, <1>8, <2>1 DEF Record
<1>9. CASE CheckPrerequisite
  <2>1. CASE run' = [run EXCEPT !.at = @ + 1,
                       !.pc = IF run.at + 1 = run.last THEN "check" ELSE @]
    <3>1. UNCHANGED config /\ ~ NoSession
      BY <1>9 DEF CheckPrerequisite, files, NoSession
    <3>2. QED BY <1>0, <2>1, <3>1, Preceding, AheadStays
  <2>2. QED BY <1>1, <1>9, <2>1 DEF CheckPrerequisite
<1>10. CASE UNCHANGED config /\ run' = run
  BY <1>10, AheadStays DEF AheadOK, NoSession
<1>11. CASE UNCHANGED config
  <2>1. \/ Resume \/ Continue \/ StartOther \/ Ends \/ Goes \/ Takes \/ Record
        \/ CheckPrerequisite \/ run' = run
    BY SessionStays
  <2>2. QED BY <1>1, <1>5, <1>6, <1>7, <1>8, <1>9, <1>10, <1>11, <2>1 DEF Ends
<1>12. CASE Tear
  BY <1>1, <1>12 DEF Tear
<1>13. QED BY <1>0, <1>2, <1>3, <1>4, <1>11, <1>12, ConfigMoves

(* An agent-config.yaml that is what the session found was not changed by  *)
(* the step that led to it.                                                *)
LEMMA NoReturn ==
  ASSUME OnboardTypeOK, AheadOK, [OnboardNext]_onboard,
         run'.found = run.found, run.found = config', config'.embeddings
  PROVE  UNCHANGED config
<1>0. FilesFormed /\ RunFormed
  BY DEF OnboardTypeOK
<1>1. FilesFormed'
  BY FilesNext
<1>2. ASSUME UNCHANGED <<config.model, config.mailbox, config.embeddings, config.approver>>
      PROVE  UNCHANGED config
  <2>1. \A f \in ConfigFields : config'[f] = config[f]
    BY <1>2 DEF ConfigFields
  <2>2. /\ config = [f \in ConfigFields |-> config[f]]
        /\ config' = [f \in ConfigFields |-> config'[f]]
    BY <1>0, <1>1 DEF FilesFormed, Formed
  <2>3. [f \in ConfigFields |-> config[f]] = [f \in ConfigFields |-> config'[f]]
    BY <2>1
  <2>4. QED BY <2>2, <2>3
<1>3. CASE AiConfig /\ UNCHANGED <<config.mailbox, config.embeddings, config.approver>>
  <2>1. run.at = 1 /\ run.pc = "config"
    BY <1>0, <1>3, PhaseAt DEF AiConfig, Stands
  <2>2. config.model = run.found.model
    BY <2>1 DEF AheadOK, Ahead, NoSession
  <2>3. QED BY <1>2, <1>3, <2>2
<1>4. CASE SecretsConfig /\ UNCHANGED <<config.model, config.approver>>
  <2>1. run.at = 4 /\ run.pc = "config"
    BY <1>0, <1>4, PhaseAt DEF SecretsConfig, Stands
  <2>2. config.mailbox = run.found.mailbox /\ config.embeddings = run.found.embeddings
    BY <2>1 DEF AheadOK, Ahead, NoSession
  <2>3. QED BY <1>2, <1>4, <2>2
<1>5. CASE Approve /\ UNCHANGED <<config.model, config.mailbox, config.embeddings>>
  <2>1. run.at = 7 /\ run.pc = "approve"
    BY <1>0, <1>5, PhaseAt DEF Approve, Stands
  <2>2. config.approver = run.found.approver
    BY <2>1 DEF AheadOK, Ahead, NoSession
  <2>3. QED BY <1>2, <1>5, <2>2
<1>6. CASE config' = Emptied
  BY <1>6 DEF Emptied
<1>7. QED BY <1>0, <1>3, <1>4, <1>5, <1>6, ConfigMoves

-----------------------------------------------------------------------------
(* The pass                                                                *)

(* No step makes a truncated manifest whole.                               *)
LEMMA WholeBefore ==
  ASSUME FilesFormed, [OnboardNext]_onboard, manifest'.whole
  PROVE  manifest.whole
<1> USE DEF files, world, count, onboard, Untouched
<1>1. CASE SyncUnits \/ ValidatePricing
  <2>1. DOMAIN manifest = {"whole", "units", "priced"}
    BY DEF FilesFormed, Formed
  <2>2. \/ manifest' = manifest
        \/ manifest' = [manifest EXCEPT !.units = TRUE, !.priced = TRUE]
        \/ manifest' = [manifest EXCEPT !.priced = TRUE]
    BY <1>1 DEF SyncUnits, ValidatePricing
  <2>3. manifest'.whole = manifest.whole
    BY <2>1, <2>2
  <2>4. QED BY <2>3
<1>2. CASE Tear
  BY <1>2 DEF Tear, Truncated
<1>3. QED
  BY <1>1, <1>2
     DEF OnboardNext, Steps, Check, CheckPrerequisite, Record, AiKey, AiConfig, AiRevision,
         AiReceipt, Activate, TunnelToken, TunnelClean, TunnelAccess, TunnelHostname,
         SecretsEnv, SecretsConfig, SecretsRevision, SecretsReceipt, ConnectTms, Authorize,
         Approve, Ingest, IngestReceipt, SubmitTestRfq, Resume, Continue,
         StartOther, LegacyAiKey, LegacySecret, Refuse, Stop, Revoke

(* The phases before that of the step stay complete.                       *)
LEMMA EarlierStay ==
  ASSUME OnboardTypeOK, AheadOK, ~ NoSession, [OnboardNext]_onboard,
         run'.at = run.at, run'.found = run.found, Settled'
  PROVE  Settled /\ (FiledThrough(run.at - 1) => FiledThrough(run.at - 1)')
<1>0. FilesFormed /\ RunFormed
  BY DEF OnboardTypeOK
<1>1. UNCHANGED config
  BY NoReturn DEF Settled
<1>2. Settled
  BY <1>0, <1>1, WholeBefore DEF Settled
<1>3. ASSUME FiledThrough(run.at - 1), NEW i \in 1 .. run.at - 1, Phases[i] # "units"
      PROVE  Filed(Phases[i])'
  <2>1. i \in 1 .. 10 /\ i # run.at /\ run.at \in 1 .. 10
    BY <1>0 DEF RunFormed
  <2>2. Phases[i] \in PhaseIds /\ Phases[i] # Phase
    BY <2>1, PhaseNumbers DEF Phase
  <2>3. Filed(Phases[i])
    BY <1>3 DEF FiledThrough
  <2>4. Spared(Phases[i])
    BY <2>2, PhaseSpares DEF Settled
  <2>5. QED BY <1>1, <2>2, <2>3, <2>4, SparedIsFiled
<1>4. QED BY <1>2, <1>3 DEF FiledThrough

(* What a session has after a step within a phase.                         *)
LEMMA PassStays ==
  ASSUME OnboardTypeOK, AheadOK, PassOK, ~ NoSession, [OnboardNext]_onboard,
         run'.pc \notin {"idle", "prerequisites"},
         run'.at = run.at, run'.last = run.last, run'.mode = run.mode,
         run'.found = run.found, run'.ended = run.ended,
         run'.pc = "record" /\ Settled' /\ run.mode = "through" =>
           Phase = "units" \/ Filed(Phase)'
  PROVE  PassOK'
<1>0. RunFormed /\ run.at \in 1 .. 10
  BY DEF OnboardTypeOK, RunFormed
<1>1. ASSUME run.mode = "through", Settled'
      PROVE  /\ FiledThrough(run.at - 1)'
             /\ run'.pc = "record" => FiledThrough(run.at)'
  <2>1. Settled /\ (FiledThrough(run.at - 1) => FiledThrough(run.at - 1)')
    BY <1>1, EarlierStay
  <2>2. FiledThrough(run.at - 1)
    BY <1>1, <2>1 DEF PassOK
  <2>3. FiledThrough(run.at - 1)'
    BY <2>1, <2>2
  <2>4. ASSUME run'.pc = "record", NEW i \in 1 .. run.at
        PROVE  Phases[i] = "units" \/ Filed(Phases[i])'
    <3>1. CASE i \in 1 .. run.at - 1
      BY <2>3, <3>1 DEF FiledThrough
    <3>2. CASE i = run.at
      BY <1>1, <2>4, <3>2 DEF Phase
    <3>3. QED BY <1>0, <3>1, <3>2
  <2>5. run'.pc = "record" => FiledThrough(run.at)'
    BY <2>4 DEF FiledThrough
  <2>6. QED BY <2>3, <2>5
<1>2. QED BY <1>1 DEF PassOK, NoSession

(* Files that stay the same are complete as before.                        *)
LEMMA SameFiles ==
  ASSUME UNCHANGED files, UNCHANGED service
  PROVE  /\ \A p \in PhaseIds : Filed(p) => Filed(p)'
         /\ \A n \in 0 .. 10 : FiledThrough(n) => FiledThrough(n)'
<1>1. ASSUME NEW p \in PhaseIds, Filed(p) PROVE Filed(p)'
  BY <1>1, SparedIsFiled DEF Spared, files
<1>2. ASSUME NEW n \in 0 .. 10, FiledThrough(n), NEW i \in 1 .. n
      PROVE  Phases[i] = "units" \/ Filed(Phases[i])'
  BY <1>1, <1>2, PhaseNumbers DEF FiledThrough
<1>3. QED BY <1>1, <1>2 DEF FiledThrough

(* The steps of a session, by the place it is at.                          *)
LEMMA StepsRun ==
  ASSUME Steps
  PROVE  /\ ~ NoSession
         /\ run.pc \in {"record", "prerequisites"} => Record \/ CheckPrerequisite
BY DEF Steps, Check, CheckPrerequisite, Record, AiKey, AiConfig, AiRevision, AiReceipt,
   Activate, TunnelToken, TunnelClean, TunnelAccess, TunnelHostname, SecretsEnv,
   SecretsConfig, SecretsRevision, SecretsReceipt, ConnectTms, SyncUnits, Authorize,
   Approve, ValidatePricing, Ingest, IngestReceipt, SubmitTestRfq, Stands, NoSession

(* The step that ends a phase leaves it complete, but the units.           *)
LEMMA PhaseCompletes ==
  ASSUME OnboardTypeOK, PlaceOK, PassOK, Steps, run.pc \notin {"record", "prerequisites"},
         run'.pc = "record", Settled', run.mode = "through", Phase' = Phase
  PROVE  Phase = "units" \/ Filed(Phase)'
<1> USE DEF files, world, count, onboard, Untouched
<1>0. FilesFormed /\ RunFormed /\ Formed(run, RunFields) /\ Phase # "test_rfq"
  <2>1. FilesFormed /\ RunFormed /\ Formed(run, RunFields)
    BY DEF OnboardTypeOK, RunFormed
  <2>2. run.at <= 9
    BY StepsRun DEF PassOK, Knowledge
  <2>3. QED BY <2>1, <2>2, PhaseAt
<1>1. CASE Check
  <2>1. CASE Complete(Phase)
    <3>1. Filed(Phase) /\ Phase \in PhaseIds
      BY <1>0, <2>1, PhaseAt DEF Complete
    <3>2. QED BY <1>1, <3>1, SameFiles DEF Check
  <2>2. CASE Goto("run")
    BY <1>0, <2>2, Going
  <2>3. CASE End("pending")
    BY <1>0, <2>3, Ending
  <2>4. QED BY <1>1, <2>1, <2>2, <2>3 DEF Check
<1>2. CASE AiReceipt
  <2>1. receipt' = [receipt EXCEPT !["ai"] = Current]
    BY <1>2 DEF AiReceipt
  <2>2. receipt'.ai = [config |-> config', current |-> TRUE]
    BY <1>0, <1>2, <2>1, FieldWritten DEF FilesFormed, ReceiptNames, AiReceipt, Current
  <2>3. env'.ai = {config'.model}
    BY <1>2 DEF AiReceipt, PlaceOK
  <2>4. AiReceiptMatches'
    BY <2>2, <2>3 DEF AiReceiptMatches, Matches
  <2>5. QED BY <1>2, <2>4 DEF AiReceipt, Stands, Filed
<1>3. CASE Activate \/ ConnectTms
  <2>1. CASE Activate
    <3>1. service'.license
      BY <1>0, <2>1 DEF Activate, FilesFormed, Formed
    <3>2. QED BY <2>1, <3>1 DEF Activate, Stands, Filed
  <2>2. CASE ConnectTms
    <3>1. service'.tms
      BY <1>0, <2>2 DEF ConnectTms, FilesFormed, Formed
    <3>2. QED BY <2>2, <3>1 DEF ConnectTms, Stands, Filed
  <2>3. QED BY <1>3, <2>1, <2>2
<1>4. CASE TunnelHostname
  <2>1. {"token", "access", "hostname"} \subseteq tunnel'
    BY <1>4 DEF TunnelHostname, PlaceOK
  <2>2. QED BY <1>4, <2>1 DEF TunnelHostname, Stands, Filed, CloudflareComplete
<1>5. CASE SecretsRevision
  <2>1. run.input = NoAccount
    <3>1. run.input # NoAccount => Goto("receipt")
      BY <1>5 DEF SecretsRevision
    <3>2. QED BY <1>0, <3>1, Going
  <2>2. /\ env'.mailbox = Unset /\ config'.mailbox = Unset
        /\ config'.embeddings /\ env'.embeddings
    BY <1>5, <2>1 DEF SecretsRevision, PlaceOK, NoAccount, Settled
  <2>3. SecretsComplete'
    BY <2>2 DEF SecretsComplete
  <2>4. QED BY <1>5, <2>3 DEF SecretsRevision, Stands, Filed
<1>6. CASE SecretsReceipt
  <2>1. receipt' = [receipt EXCEPT !["mailbox"] = Current]
    BY <1>6 DEF SecretsReceipt
  <2>2. receipt'.mailbox = [config |-> config', current |-> TRUE]
    BY <1>0, <1>6, <2>1, FieldWritten DEF FilesFormed, ReceiptNames, SecretsReceipt, Current
  <2>3. run.input \in Accounts
    BY <1>0, <1>6 DEF SecretsReceipt, PlaceOK, RunFormed
  <2>4. env'.mailbox # Unset
    <3>1. env'.mailbox = run.input[2]
      BY <1>6 DEF SecretsReceipt, PlaceOK
    <3>2. run.input[2] \in Secrets
      BY <2>3, AccountsAssumption DEF AccountsAssumption
    <3>3. QED BY <3>1, <3>2, AccountsAssumption DEF AccountsAssumption
  <2>5. config'.mailbox # Unset /\ config'.mailbox \in Hosts
    <3>1. config'.mailbox = run.input[1]
      BY <1>6 DEF SecretsReceipt, PlaceOK
    <3>2. run.input[1] \in Hosts
      BY <2>3, AccountsAssumption DEF AccountsAssumption
    <3>3. QED BY <3>1, <3>2, AccountsAssumption DEF AccountsAssumption
  <2>6. config'.embeddings /\ env'.embeddings
    BY <1>6 DEF SecretsReceipt, PlaceOK, Settled
  <2>7. SecretsComplete'
    BY <2>2, <2>4, <2>5, <2>6 DEF SecretsComplete, Matches
  <2>8. QED BY <1>6, <2>7 DEF SecretsReceipt, Stands, Filed
<1>7. CASE SyncUnits
  BY <1>7 DEF SyncUnits, Stands
<1>8. CASE Authorize
  <2>1. manifest.whole
    BY <1>8 DEF Authorize, Settled
  <2>2. Goto("approve")
    BY <1>8, <2>1 DEF Authorize
  <2>3. QED BY <1>0, <2>2, Going
<1>9. CASE Approve
  <2>1. config' = [config EXCEPT !["approver"] = TRUE]
    BY <1>9 DEF Approve
  <2>2. config'.approver
    BY <1>0, <2>1, FieldWritten DEF FilesFormed, ConfigFields
  <2>3. QED BY <1>9, <2>2 DEF Approve, Stands, Filed, AuthorizationComplete
<1>10. CASE ValidatePricing
  <2>1. manifest.whole
    BY <1>0, WholeBefore DEF Settled, OnboardNext
  <2>2. manifest' = [manifest EXCEPT !["priced"] = TRUE]
    BY <1>10, <2>1 DEF ValidatePricing
  <2>3. manifest'.priced
    BY <1>0, <2>2, FieldWritten DEF FilesFormed
  <2>4. QED BY <1>10, <2>3 DEF ValidatePricing, Stands, Filed, PricingComplete
<1>11. CASE IngestReceipt
  <2>1. receipt' = [receipt EXCEPT !["knowledge"] = Current]
    BY <1>11 DEF IngestReceipt
  <2>2. receipt'.knowledge = [config |-> config', current |-> TRUE]
    BY <1>0, <1>11, <2>1, FieldWritten DEF FilesFormed, ReceiptNames, IngestReceipt, Current
  <2>3. service'.store
    BY <1>11 DEF IngestReceipt, PlaceOK
  <2>4. KnowledgeComplete'
    BY <2>2, <2>3 DEF KnowledgeComplete, Matches
  <2>5. QED BY <1>11, <2>4 DEF IngestReceipt, Stands, Filed
<1>12. CASE SubmitTestRfq
  BY <1>0, <1>12 DEF SubmitTestRfq, Stands
<1>13. CASE \/ AiKey \/ AiConfig \/ AiRevision \/ TunnelToken \/ TunnelClean \/ TunnelAccess
            \/ SecretsConfig \/ Ingest
  <2>1. \/ \E pc \in {"config", "revise", "receipt", "clean", "access", "hostname"} : Goto(pc)
        \/ \E how : End(how)
    BY <1>13 DEF AiKey, AiConfig, AiRevision, TunnelToken, TunnelClean, TunnelAccess,
       SecretsConfig, Ingest
  <2>2. QED BY <1>0, <2>1, Going, Ending
<1>14. CASE SecretsEnv
  <2>1. \/ \E m : run' = [run EXCEPT !.input = m, !.pc = "config"]
        \/ End("failed")
    BY <1>14 DEF SecretsEnv
  <2>2. QED BY <1>0, <2>1, Ending DEF Formed, RunFields
<1>15. QED
  BY <1>1, <1>2, <1>3, <1>4, <1>5, <1>6, <1>7, <1>8, <1>9, <1>10, <1>11, <1>12, <1>13,
     <1>14 DEF Steps, Record, CheckPrerequisite

(* Every step keeps the phases a pass is beyond complete.                  *)
LEMMA PassNext ==
  ASSUME OInv, [OnboardNext]_onboard
  PROVE  PassOK'
<1>0. /\ OnboardTypeOK /\ PlaceOK /\ AheadOK /\ PassOK
      /\ RunFormed /\ Formed(run, RunFields) /\ run.at \in 1 .. 10
  BY DEF OInv, OnboardTypeOK, RunFormed
<1>1. CASE Opens
  <2>1. PICK mode, last, answers : Selected(mode, last) /\ Begin(mode, last, answers)
    BY <1>1 DEF Opens
  <2>2. /\ run'.pc \in {"check", "prerequisites"} /\ run'.ended = Unset
        /\ run'.at = 1 /\ run'.mode = mode /\ run'.last = last
        /\ mode = "through" => run'.pc = "check"
    BY <2>1, Beginning
  <2>3. mode = "through" => last = Knowledge
    BY <2>1 DEF Selected
  <2>4. FiledThrough(1 - 1)'
    BY DEF FiledThrough
  <2>5. FiledThrough(run.at - 1)'
    BY <2>2, <2>4 DEF FiledThrough
  <2>6. QED BY <2>2, <2>3, <2>5 DEF PassOK, NoSession, Unset, Knowledge
<1>2. CASE \E how : how # "through" /\ End(how)
  BY <1>0, <1>2, Ending DEF PassOK, NoSession
<1>3. CASE Record
  <2>1. UNCHANGED files /\ UNCHANGED service /\ run.pc = "record" /\ ~ NoSession
    BY <1>3 DEF Record, world, NoSession
  <2>2. UNCHANGED <<config, manifest>>
    BY <2>1 DEF files
  <2>3. CASE run.mode # "only" /\ run.at # run.last
    <3>1. /\ run'.pc = "check" /\ run'.at = run.at + 1 /\ run'.last = run.last
          /\ run'.mode = run.mode /\ run'.found = run.found /\ run'.ended = run.ended
      BY <1>0, <1>3, <2>3, Proceeding
    <3>2. Settled' => Settled
      BY <2>2, <3>1 DEF Settled
    <3>3. ASSUME run.mode = "through", Settled' PROVE FiledThrough(run.at - 1)'
      <4>1. FiledThrough(run.at)
        BY <1>0, <2>1, <3>2, <3>3 DEF PassOK
      <4>2. \A i \in 1 .. run.at : Phases[i] = "units" \/ Filed(Phases[i])'
        BY <1>0, <2>1, <4>1, SameFiles, PhaseNumbers DEF FiledThrough
      <4>3. run'.at - 1 = run.at
        BY <1>0, <3>1
      <4>4. QED BY <4>2, <4>3 DEF FiledThrough
    <3>4. run.mode = "through" => run.at < Knowledge /\ run.last = Knowledge
      BY <1>0, <2>1, <2>3 DEF PassOK, Knowledge
    <3>5. QED BY <1>0, <2>1, <3>1, <3>3, <3>4 DEF PassOK, NoSession, Knowledge
  <2>4. CASE (run.mode = "only" \/ run.at = run.last) /\ run.mode # "through"
    <3>1. End("done")
      BY <1>3, <2>4 DEF Record
    <3>2. "done" # "through"
      OBVIOUS
    <3>3. QED BY <1>2, <3>1, <3>2
  <2>5. CASE run.at = run.last /\ run.mode = "through"
    <3>1. run'.pc = "idle" /\ run'.found = run.found /\ run'.ended = "through"
      <4>1. End("through")
        BY <1>3, <2>5 DEF Record
      <4>2. QED BY <1>0, <4>1, Ending
    <3>2. run.at = Knowledge
      BY <1>0, <2>1, <2>5 DEF PassOK
    <3>3. config.embeddings
      BY <1>0, <2>1, <3>2, PhaseAt DEF PlaceOK, Stands, Knowledge
    <3>4. run.found = config /\ manifest.whole => FiledThrough(Knowledge)
      BY <1>0, <2>1, <2>5, <3>2, <3>3 DEF PassOK, Settled
    <3>5. (run.found = config /\ manifest.whole => FiledThrough(Knowledge))'
      BY <2>1, <2>2, <3>1, <3>4, SameFiles DEF Knowledge
    <3>6. QED BY <3>1, <3>5 DEF PassOK, NoSession
  <2>6. QED BY <1>3, <2>3, <2>4, <2>5 DEF Record
<1>4. CASE CheckPrerequisite
  <2>1. run.pc = "prerequisites" /\ ~ NoSession /\ run.mode # "through"
    BY <1>0, <1>4 DEF CheckPrerequisite, PassOK, NoSession
  <2>2. CASE run' = [run EXCEPT !.at = @ + 1,
                       !.pc = IF run.at + 1 = run.last THEN "check" ELSE @]
    BY <1>0, <2>1, <2>2, Preceding DEF PassOK, NoSession
  <2>3. CASE End("incomplete")
    <3>1. "incomplete" # "through"
      OBVIOUS
    <3>2. QED BY <1>2, <2>3, <3>1
  <2>4. QED BY <1>4, <2>2, <2>3 DEF CheckPrerequisite
<1>5. CASE Steps /\ run.pc \notin {"record", "prerequisites"}
  <2>1. ~ NoSession
    BY <1>5, StepsRun
  <2>2. Ends \/ Goes \/ Takes \/ run' = run
    BY <1>5, <2>1, SessionStays
       DEF OnboardNext, Resume, Continue, StartOther, Record, CheckPrerequisite
  <2>3. CASE Goes \/ Takes \/ run' = run
    <3>1. /\ run'.pc \notin {"idle", "prerequisites"}
          /\ run'.at = run.at /\ run'.last = run.last /\ run'.mode = run.mode
          /\ run'.found = run.found /\ run'.ended = run.ended
      <4>1. CASE Goes
        BY <1>0, <4>1, Going DEF Goes, Onward, Late
      <4>2. CASE Takes
        BY <1>0, <4>2 DEF Takes, Formed, RunFields
      <4>3. CASE run' = run
        BY <1>5, <2>1, <4>3 DEF NoSession
      <4>4. QED BY <2>3, <4>1, <4>2, <4>3
    <3>2. run'.pc = "record" /\ Settled' /\ run.mode = "through" =>
            Phase = "units" \/ Filed(Phase)'
      BY <1>0, <1>5, <3>1, SamePhase, PhaseCompletes
    <3>3. QED BY <1>0, <2>1, <3>1, <3>2, PassStays
  <2>4. QED BY <1>2, <2>2, <2>3 DEF Ends
<1>6. CASE Revoke \/ UNCHANGED onboard
  <2>1. UNCHANGED files /\ UNCHANGED service /\ UNCHANGED run
    BY <1>6 DEF Revoke, onboard, world
  <2>2. UNCHANGED <<config, manifest>>
    BY <2>1 DEF files
  <2>3. /\ Settled' => Settled
        /\ NoSession' => NoSession
    BY <2>1, <2>2 DEF Settled, NoSession
  <2>4. \A i \in 1 .. 10 : Filed(Phases[i]) => Filed(Phases[i])'
    BY <2>1, SameFiles, PhaseNumbers
  <2>5. /\ FiledThrough(run.at) => FiledThrough(run.at)'
        /\ FiledThrough(run.at - 1) => FiledThrough(run.at - 1)'
        /\ FiledThrough(Knowledge) => FiledThrough(Knowledge)'
    BY <1>0, <2>1, <2>4 DEF FiledThrough, Knowledge
  <2>6. NoSession' <=> NoSession
    BY <2>1 DEF NoSession
  <2>7. CASE NoSession
    BY <1>0, <2>1, <2>2, <2>5, <2>6, <2>7 DEF PassOK
  <2>8. CASE ~ NoSession
    BY <1>0, <2>1, <2>3, <2>5, <2>6, <2>8 DEF PassOK
  <2>9. QED BY <2>7, <2>8
<1>7. CASE Resume \/ Continue \/ StartOther
  BY <1>1, <1>7, OpensOrEnds
<1>8. CASE LegacyAiKey \/ LegacySecret \/ Refuse \/ Stop \/ Tear
  BY <1>2, <1>8, OpensOrEnds DEF Ends
<1>9. Steps => Record \/ CheckPrerequisite \/ run.pc \notin {"record", "prerequisites"}
  BY StepsRun
<1>10. QED
  BY <1>3, <1>4, <1>5, <1>6, <1>7, <1>8, <1>9 DEF OnboardNext

-----------------------------------------------------------------------------
(* The theorems                                                            *)

(* The invariant holds at first.                                           *)
LEMMA OnboardInitOInv == OnboardInit => OInv
<1> SUFFICES ASSUME OnboardInit PROVE OInv
  OBVIOUS
<1>1. FilesFormed
  <2>1. Formed(env, EnvFields)
    BY DEF OnboardInit, Formed, EnvFields
  <2>2. Formed(config, ConfigFields)
    BY DEF OnboardInit, Formed, ConfigFields
  <2>3. /\ Formed(receipt, ReceiptNames)
        /\ \A n \in ReceiptNames : Formed(receipt[n], ReceiptFields)
    <3>1. receipt = [ai |-> NoReceipt, mailbox |-> NoReceipt, knowledge |-> NoReceipt]
      BY DEF OnboardInit
    <3>2. Formed(NoReceipt, ReceiptFields)
      BY DEF NoReceipt, Formed, ReceiptFields
    <3>3. \A n \in ReceiptNames : receipt[n] = NoReceipt
      BY <3>1 DEF ReceiptNames
    <3>4. Formed(receipt, ReceiptNames)
      BY <3>1 DEF Formed, ReceiptNames
    <3>5. QED BY <3>2, <3>3, <3>4
  <2>4. Formed(manifest, {"whole", "units", "priced"})
    BY DEF OnboardInit, Formed
  <2>5. Formed(service, {"license", "tms", "store", "rfq"})
    BY DEF OnboardInit, Formed
  <2>6. QED BY <2>1, <2>2, <2>3, <2>4, <2>5 DEF FilesFormed
<1>2. run = [pc |-> "idle", at |-> 1, last |-> 0, mode |-> Unset,
             answers |-> Guided, input |-> NoAccount, found |-> Emptied, ended |-> Unset]
  BY DEF OnboardInit
<1>3. RunFormed
  <2>1. Formed(run, RunFields)
    BY <1>2 DEF Formed, RunFields
  <2>2. Formed(run.found, ConfigFields)
    BY <1>2 DEF Formed, ConfigFields, Emptied
  <2>3. QED BY <1>2, <2>1, <2>2 DEF RunFormed, NoSession
<1>4. PlaceOK /\ AheadOK /\ PassOK
  BY <1>2 DEF PlaceOK, AheadOK, PassOK, Stands, NoSession, Unset
<1>5. SoundOK
  <2>1. tunnel = {} /\ env.mailbox = Unset /\ ~ receipt.knowledge.current
    BY DEF OnboardInit, NoReceipt
  <2>2. QED BY <2>1 DEF SoundOK
<1>6. QED BY <1>1, <1>3, <1>4, <1>5 DEF OInv, OnboardTypeOK

(* What the phases have made of the files at every point of a session, and *)
(* what the session found, hold for any number of sessions, of providers   *)
(* and of accounts.                                                        *)
THEOREM OnboardInvariant == OnboardSpec => []OInv
<1>1. OInv /\ [OnboardNext]_onboard => OInv'
  <2> SUFFICES ASSUME OInv, [OnboardNext]_onboard PROVE OInv'
    OBVIOUS
  <2>1. FilesFormed'
    BY FilesNext DEF OInv
  <2>2. RunFormed'
    BY RunNext DEF OInv
  <2>3. PlaceOK' /\ SoundOK'
    BY PlaceNext, SoundNext DEF OInv
  <2>4. AheadOK'
    BY AheadNext DEF OInv
  <2>5. PassOK'
    BY PassNext
  <2>6. QED BY <2>1, <2>2, <2>3, <2>4, <2>5 DEF OInv, OnboardTypeOK
<1>2. QED BY OnboardInitOInv, <1>1, PTL DEF OnboardSpec

(* A phase whose files are complete has what it stands for: the tunnel's   *)
(* token is nowhere but in its own file, the mailbox credentials are a     *)
(* pair the mail server accepted.                                          *)
THEOREM FilesAreSound == OnboardSpec => []CompleteIsSound
<1>1. OInv => CompleteIsSound
  BY DEF OInv, SoundOK, CompleteIsSound, CloudflareComplete, SecretsComplete
<1>2. QED BY OnboardInvariant, <1>1, PTL

(* A session through knowledge whose agent-config.yaml is as it was found  *)
(* leaves every phase up to there complete, although it asks for none of   *)
(* them again after it ran.                                                *)
THEOREM PassIsComplete == OnboardSpec => []PassLeavesComplete
<1>1. OInv => PassLeavesComplete
  BY DEF OInv, PassOK, PassLeavesComplete, FiledThrough
<1>2. QED BY OnboardInvariant, <1>1, PTL

(* No step of a phase takes from another phase what makes it complete, but *)
(* by changing agent-config.yaml.                                          *)
THEOREM PhasesStayApart == OnboardSpec => PhasesKeepApart
<1>1. OInv /\ [OnboardNext]_onboard =>
        [~ NoSession /\ manifest'.whole =>
           \A p \in PhaseIds \ {Phase} :
             Filed(p) => Filed(p)' \/ config' # config]_onboard
  <2> SUFFICES ASSUME OInv, [OnboardNext]_onboard, ~ NoSession, manifest'.whole,
                      NEW p \in PhaseIds \ {Phase}, Filed(p), config' = config
               PROVE  Filed(p)'
    OBVIOUS
  <2>1. Spared(p)
    BY PhaseSpares DEF OInv
  <2>2. QED BY <2>1, SparedIsFiled
<1>2. QED BY OnboardInvariant, <1>1, PTL DEF OnboardSpec, PhasesKeepApart
=============================================================================
