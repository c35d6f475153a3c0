------------------------------ MODULE Onboarding ------------------------------
(***************************************************************************)
(* The onboarding command of an appliance.  runOnboarding takes an ordered *)
(* list of phases and a selection of them: all, those through one phase,   *)
(* or a single one whose predecessors must all be complete.  A phase that  *)
(* is not complete runs; what it makes is a handful of files, each put in  *)
(* its place by one rename, so a crash stops it between any two of them.   *)
(* No phase trusts the record of an earlier session: whether it is         *)
(* complete is read from the files, and receipts bind a credential to the  *)
(* hash of agent-config.yaml and to a revision number.                     *)
(*                                                                         *)
(* The guided installation runs the phases through knowledge and then, if  *)
(* they succeeded, only test_rfq; resuming it starts over.  Other sessions *)
(* of an operator may come between.                                        *)
(*                                                                         *)
(* The hash of agent-config.yaml is its content.  Revisions only grow, so  *)
(* of a receipt's revision we keep whether it is still the current one.  A *)
(* provider stands for its key.  License, TMS and the readiness RFQ have   *)
(* modules of their own (Activation, TmsConfig, ReadinessRfq); here they   *)
(* are what their phase finds.  Sessions do not overlap.                   *)
(***************************************************************************)
EXTENDS Naturals

CONSTANTS Providers,  \* AI providers, one key each
          Hosts,      \* mail servers the command can configure (Resend, IMAP)
          Declared,   \* mailboxes the delivered agent-config.yaml may declare,
                      \* those of Gmail and Outlook, which are no Hosts, too
          Secrets,    \* passwords of mailboxes
          Accounts,   \* the pairs of host and password that can log in
          MaxMishaps,  \* bound on crashes, mistakes and services out of reach
          MaxOthers   \* bound on sessions outside the guided installation

Unset     == "none"
Template == "template"

ASSUME AccountsAssumption ==
  /\ Accounts \subseteq Hosts \X Secrets
  /\ \A h \in Hosts : \E s \in Secrets : <<h, s>> \in Accounts
  /\ Unset \notin Hosts \cup Declared \cup Secrets \cup Providers
  /\ Template \notin Providers
  /\ MaxMishaps \in Nat /\ MaxOthers \in Nat

Phases ==
  <<"ai_provider", "license_activation", "cloudflare", "appliance_secrets",
    "tms", "units", "authorization", "pricing", "knowledge", "test_rfq">>
PhaseIds == {Phases[i] : i \in DOMAIN Phases}
Knowledge == 9
TestRfq   == 10

VARIABLES
  env,       \* client.env: AI keys, mailbox and embeddings secrets, tunnel token
  config,    \* agent-config.yaml
  receipt,   \* ai-provider-validation, mailbox-probe and knowledge receipts
  tunnel,    \* what the files of the tunnel hold
  manifest,  \* quote-manifest.yaml
  service,   \* license, TMS, knowledge store and readiness RFQ
  accepted,  \* the providers that accept their key
  run,       \* the session under way, or how the last one ended
  audit,     \* phases the state file has as observed complete
  mishaps, others,
  unpaired,  \* history: a mailbox secret is stored that this host never saw
  admitted   \* history: the readiness RFQ has been reached

files   == <<env, config, receipt, tunnel, manifest>>
world   == <<service, accepted>>
count   == <<mishaps, others, unpaired, admitted>>
onboard == <<files, world, run, audit, count>>

Emptied   == [model |-> Unset, mailbox |-> Unset, embeddings |-> FALSE,
              approver |-> FALSE]
NoReceipt == [config |-> Emptied, current |-> FALSE]
Truncated == [whole |-> FALSE, units |-> FALSE, priced |-> FALSE]
NoAccount == <<Unset, Unset>>
Guided    == [guided |-> TRUE, ai |-> Unset, mailbox |-> NoAccount]

(* What an unattended session is given: a provider's key and an account.   *)
Answers == [guided : {FALSE}, ai : Providers, mailbox : Accounts \cup {NoAccount}]

Selections ==
  {[mode |-> "all", last |-> TestRfq], [mode |-> "through", last |-> Knowledge]}
    \cup [mode : {"only"}, last : DOMAIN Phases]

OnboardInit ==
  /\ env \in [ai : {{}}, mailbox : {Unset}, embeddings : {FALSE},
              token : BOOLEAN]
  /\ config \in [model : {Template}, mailbox : Declared \cup {Unset},
                 embeddings : {TRUE}, approver : {FALSE}]
  /\ receipt = [ai |-> NoReceipt, mailbox |-> NoReceipt,
                knowledge |-> NoReceipt]
  /\ tunnel = {}
  /\ manifest \in [whole : {TRUE}, units : {FALSE}, priced : BOOLEAN]
  /\ service = [license |-> FALSE, tms |-> FALSE, store |-> FALSE,
                rfq |-> FALSE]
  /\ accepted = Providers
  /\ run = [pc |-> "idle", at |-> 1, last |-> 0, mode |-> Unset,
            answers |-> Guided, input |-> NoAccount, found |-> Emptied,
            ended |-> Unset]
  /\ audit = {}
  /\ mishaps = 0 /\ others = 0 /\ unpaired = FALSE /\ admitted = FALSE

-----------------------------------------------------------------------------
(* Whether a phase is complete, as far as its files say.                   *)

Matches(r) == r.current /\ r.config = config

OneKey == \E p \in Providers : env.ai = {p}

(* The hash covers the model, which is that of the provider.               *)
AiReceiptMatches == Matches(receipt.ai) /\ env.ai = {config.model}

CloudflareComplete == {"token", "access", "hostname"} \subseteq tunnel

SecretsComplete ==
  /\ config.embeddings /\ env.embeddings
  /\ IF config.mailbox = Unset
     THEN env.mailbox = Unset
     ELSE /\ config.mailbox \in Hosts
          /\ env.mailbox # Unset /\ Matches(receipt.mailbox)

UnitsComplete == manifest.units

AuthorizationComplete == config.approver

PricingComplete == manifest.priced

KnowledgeComplete == Matches(receipt.knowledge) /\ service.store

Filed(p) ==
  CASE p = "ai_provider"        -> AiReceiptMatches
    [] p = "license_activation" -> service.license
    [] p = "cloudflare"         -> CloudflareComplete
    [] p = "appliance_secrets"  -> SecretsComplete
    [] p = "tms"                -> service.tms
    [] p = "units"              -> UnitsComplete
    [] p = "authorization"      -> AuthorizationComplete
    [] p = "pricing"            -> PricingComplete
    [] p = "knowledge"          -> KnowledgeComplete
    [] p = "test_rfq"           -> service.rfq

(* The AI phase asks the provider each time.  Answers that name another    *)
(* key make it incomplete; that answers for the TMS may do the same to its *)
(* phase, when they name another connection than the stored one, is left   *)
(* out here.                                                               *)
AiAnswered == run.answers.guided \/ env.ai = {run.answers.ai}
Complete(p) ==
  /\ Filed(p)
  /\ p = "ai_provider" => AiAnswered /\ env.ai \subseteq accepted

-----------------------------------------------------------------------------
(* Sessions                                                                *)

Phase == Phases[run.at]
Stands(p, pc) == run.pc = pc /\ Phase = p
Goto(pc) == run' = [run EXCEPT !.pc = pc]
End(how) ==
  run' = [run EXCEPT !.pc = "idle", !.at = 1, !.answers = Guided,
                     !.input = NoAccount, !.ended = how]
Begin(mode, last, answers) ==
  run' = [pc |-> IF mode = "only" /\ last > 1 THEN "prerequisites" ELSE "check",
          at |-> 1, last |-> last, mode |-> mode, answers |-> answers,
          input |-> NoAccount, found |-> config, ended |-> Unset]
NoSession == run.pc = "idle"
Fault == mishaps < MaxMishaps /\ mishaps' = mishaps + 1

(* install.sh, run_guided_sequence: through knowledge, and after that only *)
(* test_rfq.  An installer that stops between the two (the containers do   *)
(* not come up, the tunnel's token is not valid) starts over.              *)
Resume ==
  /\ NoSession
  /\ IF run.ended = "through" THEN Fault ELSE UNCHANGED mishaps
  /\ Begin("through", Knowledge, Guided)
  /\ UNCHANGED <<files, world, audit, others, unpaired, admitted>>

Continue ==
  /\ NoSession /\ run.ended = "through"
  /\ Begin("only", TestRfq, Guided)
  /\ UNCHANGED <<files, world, audit, count>>

(* The onboard command by hand, with any selection and with answers.       *)
StartOther ==
  /\ NoSession /\ others < MaxOthers /\ others' = others + 1
  /\ \E s \in Selections, a \in Answers \cup {Guided} : Begin(s.mode, s.last, a)
  /\ UNCHANGED <<files, world, audit, mishaps, unpaired, admitted>>

(* The static guidance stores what it is given without asking anybody.     *)
LegacyAiKey ==
  /\ NoSession /\ others < MaxOthers /\ others' = others + 1
  /\ \E p \in Providers : env' = [env EXCEPT !.ai = @ \cup {p}]
  /\ End(Unset)
  /\ UNCHANGED <<config, receipt, tunnel, manifest, world, audit, mishaps,
                 unpaired, admitted>>

LegacySecret ==
  /\ NoSession /\ others < MaxOthers /\ others' = others + 1
  /\ \E s \in Secrets : env' = [env EXCEPT !.mailbox = s]
  /\ unpaired' = TRUE
  /\ End(Unset)
  /\ UNCHANGED <<config, receipt, tunnel, manifest, world, audit, mishaps,
                 admitted>>

(* Mutant: the prerequisites of a phase include itself.                    *)
CheckOneMore ==
  /\ run.pc = "prerequisites"
  /\ \/ /\ Complete(Phase)
        /\ run' = [run EXCEPT !.at = IF @ = run.last THEN @ ELSE @ + 1,
                              !.pc = IF run.at = run.last THEN "check" ELSE @]
     \/ ~Complete(Phase) /\ End("incomplete")
  /\ UNCHANGED <<files, world, audit, count>>

CheckPrerequisite ==
  /\ run.pc = "prerequisites"
  /\ \/ /\ Complete(Phase)
        /\ run' = [run EXCEPT !.at = @ + 1,
                              !.pc = IF run.at + 1 = run.last THEN "check" ELSE @]
     \/ ~Complete(Phase) /\ End("incomplete")
  /\ UNCHANGED <<files, world, audit, count>>

(* assertUnattendedPhaseAnswers, and the phases that accept no answers:    *)
(* units, authorization and pricing give up whatever they were given.      *)
Answered(p) ==
  run.answers.guided \/
  CASE p = "appliance_secrets" ->
         (run.answers.mailbox = NoAccount) = (config.mailbox = Unset)
    [] p \in {"units", "authorization", "pricing"} -> FALSE
    [] OTHER -> TRUE

Check ==
  /\ run.pc = "check"
  /\ \/ Complete(Phase) /\ Goto("record")
     \/ ~Complete(Phase) /\ Answered(Phase) /\ Goto("run")
     \/ ~Complete(Phase) /\ ~Answered(Phase) /\ End("pending")
  /\ UNCHANGED <<files, world, audit, count>>

(* What ran is taken to be complete: it is not asked again.                *)
Record ==
  /\ run.pc = "record"
  /\ audit' = audit \cup {Phase}
  /\ IF run.mode = "only" \/ run.at = run.last
     THEN End(IF run.mode = "through" THEN "through" ELSE "done")
     ELSE run' = [run EXCEPT !.at = @ + 1, !.pc = "check", !.input = NoAccount]
  /\ UNCHANGED <<files, world, count>>

(* A secret or a hostname is refused before anything is written.           *)
SecretRefused   == Phase \in {"ai_provider", "cloudflare", "appliance_secrets"}
HostnameRefused == Phase = "cloudflare"

Refuse ==
  /\ run.pc = "run"
  /\ SecretRefused \/ HostnameRefused
  /\ Fault /\ End("failed")
  /\ UNCHANGED <<files, world, audit, others, unpaired, admitted>>

(* The process dies, a service does not answer, a prompt is not confirmed. *)
Stop ==
  /\ ~NoSession /\ Fault /\ End("failed")
  /\ UNCHANGED <<files, world, audit, others, unpaired, admitted>>

(* The manifest and, by the authorization, agent-config.yaml are written   *)
(* in place: a process that dies in there leaves them truncated.           *)
Tear ==
  /\ Fault /\ End("failed")
  /\ \/ /\ run.pc = "run" /\ Phase \in {"units", "authorization", "pricing"}
        /\ manifest.whole
        /\ manifest' = Truncated /\ UNCHANGED config
     \/ /\ Stands("authorization", "approve")
        /\ config' = Emptied /\ UNCHANGED manifest
  /\ UNCHANGED <<env, receipt, tunnel, world, audit, others, unpaired, admitted>>

Revoke ==
  /\ Fault
  /\ \E p \in accepted : accepted' = accepted \ {p} /\ accepted' # {}
  /\ UNCHANGED <<files, service, run, audit, others, unpaired, admitted>>

-----------------------------------------------------------------------------
(* The phases                                                              *)

(* Mutant: the file is written with the new values only.                   *)
OverwriteEnv(updates) ==
  [k \in DOMAIN env |->
     IF k \in DOMAIN updates THEN updates[k]
     ELSE IF k = "ai" THEN {} ELSE IF k = "mailbox" THEN Unset ELSE FALSE]

(* updateAllowedEnv changes the keys it is given and keeps all others.     *)
UpdateAllowedEnv(updates) ==
  [k \in DOMAIN env |-> IF k \in DOMAIN updates THEN updates[k] ELSE env[k]]

Current == [config |-> config, current |-> TRUE]
Untouched == <<tunnel, manifest, world, audit, count>>

(* The key to configure: that of the answers, the one that is stored and   *)
(* still accepted, or what the operator types.                             *)
AiInput ==
  IF ~run.answers.guided THEN {run.answers.ai}
  ELSE IF OneKey /\ env.ai \subseteq accepted THEN env.ai
  ELSE Providers

AiKey ==
  /\ Stands("ai_provider", "run")
  /\ \E p \in AiInput :
       \/ /\ p \in accepted
          /\ env' = UpdateAllowedEnv([ai |-> {p}])
          /\ Goto("config")
          /\ UNCHANGED mishaps
       \/ /\ p \notin accepted /\ End("failed") /\ UNCHANGED env
          /\ IF run.answers.guided THEN Fault ELSE UNCHANGED mishaps
  /\ UNCHANGED <<config, receipt, tunnel, manifest, world, audit, others,
                 unpaired, admitted>>

AiConfig ==
  /\ Stands("ai_provider", "config") /\ Goto("revise")
  /\ config' = [config EXCEPT !.model = CHOOSE p \in env.ai : TRUE]
  /\ UNCHANGED <<env, receipt, Untouched>>

AiRevision ==
  /\ Stands("ai_provider", "revise") /\ Goto("receipt")
  /\ receipt' = [receipt EXCEPT !.ai.current = FALSE]
  /\ UNCHANGED <<env, config, Untouched>>

AiReceipt ==
  /\ Stands("ai_provider", "receipt") /\ Goto("record")
  /\ receipt' = [receipt EXCEPT !.ai = Current]
  /\ UNCHANGED <<env, config, Untouched>>

Activate ==
  /\ Stands("license_activation", "run") /\ Goto("record")
  /\ service' = [service EXCEPT !.license = TRUE]
  /\ UNCHANGED <<files, accepted, audit, count>>

(* The token's file, its removal from client.env, the access credentials   *)
(* and, last, the hostname.                                                *)
TunnelToken ==
  /\ Stands("cloudflare", "run") /\ Goto("clean")
  /\ tunnel' = tunnel \cup {"token"}
  /\ UNCHANGED <<env, config, receipt, manifest, world, audit, count>>

TunnelClean ==
  /\ Stands("cloudflare", "clean") /\ Goto("access")
  /\ env' = UpdateAllowedEnv([token |-> FALSE])
  /\ UNCHANGED <<config, receipt, Untouched>>

TunnelAccess ==
  /\ Stands("cloudflare", "access") /\ Goto("hostname")
  /\ tunnel' = tunnel \cup {"access"}
  /\ UNCHANGED <<env, config, receipt, manifest, world, audit, count>>

TunnelHostname ==
  /\ Stands("cloudflare", "hostname") /\ Goto("record")
  /\ tunnel' = tunnel \cup {"hostname"}
  /\ UNCHANGED <<env, config, receipt, manifest, world, audit, count>>

(* Mutant: any password of the right form will do.                         *)
ProbeNothing(account) == TRUE

ProbeAccepts(account) == account \in Accounts

(* The mailbox to configure: unattended any, guided the one that           *)
(* agent-config.yaml declares with the password that is typed.  Of Gmail   *)
(* and Outlook the wizard asks nothing, and the mailbox is dropped.        *)
MailboxInput ==
  IF ~run.answers.guided THEN {run.answers.mailbox}
  ELSE IF config.mailbox \notin Hosts THEN {NoAccount}
  ELSE {config.mailbox} \X Secrets

SecretsEnv ==
  /\ Stands("appliance_secrets", "run")
  /\ \E m \in MailboxInput :
       \/ /\ m = NoAccount \/ ProbeAccepts(m)
          /\ env' = UpdateAllowedEnv(
               [mailbox |-> m[2],
                embeddings |-> ~run.answers.guided \/ config.embeddings])
          /\ unpaired' = TRUE
          /\ run' = [run EXCEPT !.input = m, !.pc = "config"]
          /\ UNCHANGED mishaps
       \/ /\ m # NoAccount /\ ~ProbeAccepts(m) /\ Fault /\ End("failed")
          /\ UNCHANGED <<env, unpaired>>
  /\ UNCHANGED <<config, receipt, tunnel, manifest, world, audit, others,
                 admitted>>

SecretsConfig ==
  /\ Stands("appliance_secrets", "config") /\ Goto("revise")
  /\ config' = [config EXCEPT
       !.mailbox = run.input[1], !.embeddings = env.embeddings]
  /\ unpaired' = FALSE
  /\ UNCHANGED <<env, receipt, tunnel, manifest, world, audit, mishaps, others,
                 admitted>>

(* Mutant: the receipt of the mailbox is left as it is.                    *)
ReviseOnly ==
  /\ Stands("appliance_secrets", "revise") /\ Goto("record")
  /\ receipt' = [receipt EXCEPT !.mailbox.current = FALSE]
  /\ UNCHANGED <<env, config, Untouched>>

SecretsRevision ==
  /\ Stands("appliance_secrets", "revise")
  /\ Goto(IF run.input = NoAccount THEN "record" ELSE "receipt")
  /\ receipt' = [receipt EXCEPT !.mailbox.current = FALSE]
  /\ UNCHANGED <<env, config, Untouched>>

SecretsReceipt ==
  /\ Stands("appliance_secrets", "receipt") /\ Goto("record")
  /\ receipt' = [receipt EXCEPT !.mailbox = Current]
  /\ UNCHANGED <<env, config, Untouched>>

ConnectTms ==
  /\ Stands("tms", "run") /\ Goto("record")
  /\ service' = [service EXCEPT !.tms = TRUE]
  /\ UNCHANGED <<files, accepted, audit, count>>

(* Without a manifest nothing is written; without an answer of the TMS the *)
(* profiles keep their own figures.                                        *)
SyncUnits ==
  /\ Stands("units", "run") /\ Goto("record")
  /\ \/ /\ manifest.whole
        /\ manifest' = [manifest EXCEPT !.units = TRUE, !.priced = TRUE]
        /\ UNCHANGED mishaps
     \/ /\ manifest.whole /\ Fault
        /\ manifest' = [manifest EXCEPT !.priced = TRUE]
     \/ ~manifest.whole /\ UNCHANGED <<manifest, mishaps>>
  /\ UNCHANGED <<env, config, receipt, tunnel, world, audit, others, unpaired,
                 admitted>>

(* The manifest is written first, then agent-config.yaml.                  *)
Authorize ==
  /\ Stands("authorization", "run")
  /\ Goto(IF ~manifest.whole THEN "record" ELSE "approve")
  /\ UNCHANGED <<files, world, audit, count>>

Approve ==
  /\ Stands("authorization", "approve") /\ Goto("record")
  /\ config' = [config EXCEPT !.approver = TRUE]
  /\ UNCHANGED <<env, receipt, Untouched>>

ValidatePricing ==
  /\ Stands("pricing", "run") /\ Goto("record")
  /\ manifest' = IF ~manifest.whole THEN manifest
                 ELSE [manifest EXCEPT !.priced = TRUE]
  /\ UNCHANGED <<env, config, receipt, tunnel, world, audit, count>>

Ingest ==
  /\ Stands("knowledge", "run")
  /\ \/ /\ config.embeddings /\ env.embeddings /\ Goto("receipt")
        /\ service' = [service EXCEPT !.store = TRUE]
     \/ /\ ~(config.embeddings /\ env.embeddings) /\ End("failed")
        /\ UNCHANGED service
  /\ UNCHANGED <<files, accepted, audit, count>>

IngestReceipt ==
  /\ Stands("knowledge", "receipt") /\ Goto("record")
  /\ receipt' = [receipt EXCEPT !.knowledge = Current]
  /\ UNCHANGED <<env, config, Untouched>>

(* The readiness RFQ is accepted or the phase gives up.                    *)
SubmitTestRfq ==
  /\ Stands("test_rfq", "run")
  /\ admitted' = TRUE
  /\ \/ service' = [service EXCEPT !.rfq = TRUE] /\ Goto("record")
     \/ UNCHANGED service /\ End("pending")
  /\ UNCHANGED <<files, accepted, audit, mishaps, others, unpaired>>

-----------------------------------------------------------------------------
Steps ==
  \/ Check \/ CheckPrerequisite \/ Record
  \/ AiKey \/ AiConfig \/ AiRevision \/ AiReceipt
  \/ Activate
  \/ TunnelToken \/ TunnelClean \/ TunnelAccess \/ TunnelHostname
  \/ SecretsEnv \/ SecretsConfig \/ SecretsRevision \/ SecretsReceipt
  \/ ConnectTms \/ SyncUnits \/ Authorize \/ Approve \/ ValidatePricing
  \/ Ingest \/ IngestReceipt \/ SubmitTestRfq

OnboardNext ==
  \/ Steps \/ Resume \/ Continue
  \/ StartOther \/ LegacyAiKey \/ LegacySecret
  \/ Refuse \/ Stop \/ Tear \/ Revoke

(* A session that runs goes on, and who installs resumes until it is done. *)
OnboardSpec ==
  /\ OnboardInit /\ [][OnboardNext]_onboard
  /\ WF_onboard(Steps) /\ WF_onboard(Resume \/ Continue)

-----------------------------------------------------------------------------
(* A phase whose files are complete has what it stands for: the tunnel's   *)
(* token is in its own file only, and the mailbox credentials are a pair   *)
(* the mail server accepted.  What this leaves out is a secret that was    *)
(* stored by the static guidance, or by a session that died before it      *)
(* wrote the host the secret belongs to (configureApplianceSecrets).       *)
CompleteIsSound ==
  /\ CloudflareComplete => ~env.token
  /\ SecretsComplete /\ config.mailbox # Unset /\ ~unpaired
       => <<config.mailbox, env.mailbox>> \in Accounts

(* A session through knowledge that found agent-config.yaml as it left it  *)
(* leaves every phase up to there complete: the next one is admitted to    *)
(* the readiness RFQ (runOnboarding, which does not ask again after a      *)
(* phase ran).  The units are complete only if the TMS delivered some.     *)
PassLeavesComplete ==
  NoSession /\ run.ended = "through" /\ run.found = config /\ manifest.whole
    => \A i \in 1 .. Knowledge : Phases[i] = "units" \/ Filed(Phases[i])

(* The step of one phase takes from no other phase what makes it complete, *)
(* but by changing agent-config.yaml (updateAllowedEnv, and the order of   *)
(* the renames).                                                           *)
PhasesKeepApart ==
  [][ ~NoSession /\ manifest'.whole =>
        \A p \in PhaseIds \ {Phase} :
          Filed(p) => Filed(p)' \/ config' # config ]_onboard

(* Whatever stops it on the way, the guided installation reaches the       *)
(* readiness RFQ in the end, unless a file that is written in place was    *)
(* truncated and its content lost.                                         *)
InstallConverges ==
  [](manifest.whole /\ config.embeddings) => <>admitted
=============================================================================
