---------------------------- MODULE ControlPlane ----------------------------
(***************************************************************************)
(* The vendor's cloud and one tenant of it: the client, its installation   *)
(* (one per tenant), its registration tokens, and the requests that        *)
(* administrators and the appliance send.                                  *)
(*                                                                         *)
(* Every handler reads the client in one query and later writes it back    *)
(* whole, or the installation's half of it, without a version or a lock:   *)
(* what was stored in between is overwritten.  A query is atomic, and so   *)
(* is the transaction of upsertClient; a handler's queries interleave with *)
(* those of all others.                                                    *)
(*                                                                         *)
(* Left out: mail, names, counters and the AI status, which no handler     *)
(* tests; a mail or installation that does not match is refused before     *)
(* anything changes.  Postgres is the store; the file store is for         *)
(* development.                                                            *)
(***************************************************************************)
EXTENDS Naturals, FiniteSets

CONSTANTS Tokens,         \* registration tokens that can be issued
          Requests,       \* requests the cloud works on at a time
          AdminOps,       \* what administrators ask for
          Reported,       \* onboarding statuses an appliance reports
          KeyConfigured,  \* the environment holds the signing key pair
          MaxKeys,        \* bound on the key pairs generated
          MaxAdmin        \* bound on the administrators' requests

ASSUME AdminOpsAssumption ==
  AdminOps \subseteq {"create", "install-pack", "suspend", "reactivate",
                      "reissue-license"}
ASSUME ReportedAssumption ==
  Reported \subseteq {"not_started", "authorized", "licensed",
                      "waiting_local_secrets", "ready"}
ASSUME KeyConfiguredAssumption == KeyConfigured \in BOOLEAN
ASSUME BoundsAssumption == MaxKeys \in Nat \ {0} /\ MaxAdmin \in Nat

Clients ==
  [status : {"none", "onboarding", "active", "suspended"},
   license : {"pending", "active", "suspended"},
   onboarding : {"not_started", "authorized", "licensed",
                 "waiting_local_secrets", "ready", "blocked"}]

NoClient == [status |-> "none", license |-> "pending", onboarding |-> "not_started"]

(* A request: its route, the query it makes next, the token and status it  *)
(* carries, the client it has read, and the key its license is signed with *)
(* (0: refused or no license).                                             *)
Handlers ==
  [op : AdminOps \cup {"activate", "heartbeat", "counters", "none"},
   at : {"idle", "read", "token", "license", "use", "write", "answered"},
   token : Tokens \cup {"none"}, reported : Reported \cup {"none"},
   read : Clients, key : 0..MaxKeys]

Idle == [op |-> "none", at |-> "idle", token |-> "none", reported |-> "none",
         read |-> NoClient, key |-> 0]

VARIABLES
  client,    \* the tenant with its installation, as stored
  tokens,    \* the rows of registration_tokens
  request,   \* the requests under way
  keyPair,   \* the pair in memory, numbered
  admin,     \* administrators' requests so far
  withheld,  \* history: an administrator took the license, nobody gave it back
  stopped,   \* history: the last word of the administrators is suspend
  raced      \* history: a client was overwritten that was not the one read

cloud == <<client, tokens, request, keyPair, admin, withheld, stopped, raced>>

Init ==
  /\ client = NoClient
  /\ tokens = [t \in Tokens |-> [issued |-> FALSE, used |-> FALSE, expired |-> FALSE]]
  /\ request = [r \in Requests |-> Idle]
  /\ keyPair = 1 /\ admin = 0
  /\ withheld = FALSE /\ stopped = FALSE /\ raced = FALSE

-----------------------------------------------------------------------------
(* Mutant: only the onboarding status is looked at.                        *)
CanUnlessBlocked(c) == c.onboarding # "blocked"

CanReceiveLicense(c) ==
  /\ c.status # "suspended" /\ c.license # "suspended"
  /\ c.onboarding # "blocked"

IsLicensed(c) == c.status = "active" /\ c.license = "active"

MarkLicensed(c) ==
  [status |-> "active", license |-> "active", onboarding |-> "licensed"]

(* Mutant: used tokens expire too.                                         *)
AuthenticatesUnlessExpired(t) == tokens[t].issued /\ ~tokens[t].expired

Authenticates(t) == tokens[t].issued /\ (tokens[t].used \/ ~tokens[t].expired)

At(r, op, step) == request[r].op = op /\ request[r].at = step

(* What request r read is not what is stored any more.                     *)
ReadStale(r) == request[r].read # client

(* The query of the step was made; the next one is to.                     *)
Proceed(r, step) == request' = [request EXCEPT ![r].at = step]

(* The handler answers, with a license signed by key or without (0).       *)
Answer(r, key) ==
  request' = [request EXCEPT ![r] = [Idle EXCEPT !.at = "answered", !.key = key]]

(* upsertClient: both rows become what the handler computed.               *)
Upsert(r, c) == client' = c /\ raced' = (raced \/ ReadStale(r))

(* touchInstallation: the installation's row alone.                        *)
Touch(r, c) ==
  /\ client' = [c EXCEPT !.status = client.status]
  /\ raced' = (raced \/ ReadStale(r))
-----------------------------------------------------------------------------
(* An administrator creates the client, or creates it anew: a whole record *)
(* from nothing that was read.                                             *)
AdminCreate ==
  /\ "create" \in AdminOps /\ admin < MaxAdmin /\ admin' = admin + 1
  /\ client' = [NoClient EXCEPT !.status = "onboarding"]
  /\ withheld' = (withheld \/ client # NoClient)
  /\ stopped' = FALSE
  /\ UNCHANGED <<tokens, request, keyPair, raced>>

(* Every other administrators' route reads the client first, and two of    *)
(* them refuse a client that cannot have a license.                        *)
AdminRead(r) ==
  /\ request[r] = Idle /\ client # NoClient
  /\ admin < MaxAdmin /\ admin' = admin + 1
  /\ \E op \in AdminOps \ {"create"} :
       /\ op \in {"install-pack", "reissue-license"} => CanReceiveLicense(client)
       /\ request' = [request EXCEPT ![r] =
                        [Idle EXCEPT !.op = op, !.at = "write", !.read = client]]
  /\ UNCHANGED <<client, tokens, keyPair, withheld, stopped, raced>>

InstallPack(r) ==
  /\ At(r, "install-pack", "write")
  /\ \E t \in Tokens :
       ~tokens[t].issued /\ tokens' = [tokens EXCEPT ![t].issued = TRUE]
  /\ Answer(r, 0)
  /\ UNCHANGED <<client, keyPair, admin, withheld, stopped, raced>>

Suspend(r) ==
  /\ At(r, "suspend", "write")
  /\ Upsert(r, [status |-> "suspended", license |-> "suspended",
                onboarding |-> "blocked"])
  /\ withheld' = TRUE /\ stopped' = TRUE
  /\ Answer(r, 0)
  /\ UNCHANGED <<tokens, keyPair, admin>>

(* Mutant: a reactivated client is licensed.                               *)
ReactivatedLicensed(c) ==
  [status |-> "active", license |-> "active",
   onboarding |-> IF c.onboarding = "blocked" THEN "authorized" ELSE c.onboarding]

Reactivated(c) ==
  [status |-> "active",
   license |-> IF c.license = "active" THEN "active" ELSE "pending",
   onboarding |-> IF c.onboarding = "blocked" THEN "authorized" ELSE c.onboarding]

Reactivate(r) ==
  /\ At(r, "reactivate", "write")
  /\ Upsert(r, Reactivated(request[r].read))
  /\ stopped' = FALSE
  /\ Answer(r, 0)
  /\ UNCHANGED <<tokens, keyPair, admin, withheld>>

ReissueLicense(r) ==
  /\ At(r, "reissue-license", "write")
  /\ Upsert(r, MarkLicensed(request[r].read))
  /\ withheld' = FALSE
  /\ Answer(r, keyPair)
  /\ UNCHANGED <<tokens, keyPair, admin, stopped>>
-----------------------------------------------------------------------------
(* POST /api/onboarding/activate: the client, then the token, then the     *)
(* licensed client, then the token's use.                                  *)
ActivateRead(r, t) ==
  /\ request[r] = Idle
  /\ request' = [request EXCEPT ![r] =
       IF client # NoClient /\ CanReceiveLicense(client)
         THEN [Idle EXCEPT !.op = "activate", !.at = "token", !.token = t,
                           !.read = client]
         ELSE [Idle EXCEPT !.at = "answered"]]
  /\ UNCHANGED <<client, tokens, keyPair, admin, withheld, stopped, raced>>

(* Mutant: a used token is refused.                                        *)
ActivateTokenOnce(r) ==
  /\ At(r, "activate", "token")
  /\ LET row == tokens[request[r].token] IN
     \/ row.issued /\ ~row.used /\ ~row.expired /\ Proceed(r, "license")
     \/ (row.used \/ row.expired \/ ~row.issued) /\ Answer(r, 0)
  /\ UNCHANGED <<client, tokens, keyPair, admin, withheld, stopped, raced>>

(* A used token gets its license again, if the client that was read has    *)
(* one.                                                                    *)
ActivateToken(r) ==
  /\ At(r, "activate", "token")
  /\ LET row == tokens[request[r].token] IN
     \/ row.issued /\ ~row.used /\ ~row.expired /\ Proceed(r, "license")
     \/ row.used /\ IsLicensed(request[r].read) /\ Answer(r, keyPair)
     \/ row.used /\ ~IsLicensed(request[r].read) /\ Answer(r, 0)
     \/ ~row.used /\ (row.expired \/ ~row.issued) /\ Answer(r, 0)
  /\ UNCHANGED <<client, tokens, keyPair, admin, withheld, stopped, raced>>

ActivateLicense(r) ==
  /\ At(r, "activate", "license")
  /\ Upsert(r, MarkLicensed(request[r].read))
  /\ withheld' = FALSE
  /\ Proceed(r, "use")
  /\ UNCHANGED <<tokens, keyPair, admin, stopped>>

ActivateUse(r) ==
  /\ At(r, "activate", "use")
  /\ tokens' = [tokens EXCEPT ![request[r].token].used = TRUE]
  /\ Answer(r, keyPair)
  /\ UNCHANGED <<client, keyPair, admin, withheld, stopped, raced>>
-----------------------------------------------------------------------------
(* The appliance's heartbeat and counters: the token is resolved, the      *)
(* client read, its installation or the whole client written.              *)
SyncResolve(r, op, t, reported) ==
  /\ request[r] = Idle /\ Authenticates(t)
  /\ request' = [request EXCEPT ![r] =
                   [Idle EXCEPT !.op = op, !.at = "read", !.reported = reported]]
  /\ UNCHANGED <<client, tokens, keyPair, admin, withheld, stopped, raced>>

SyncArrives(r, t) ==
  \/ SyncResolve(r, "counters", t, "none")
  \/ \E s \in Reported : SyncResolve(r, "heartbeat", t, s)

SyncRead(r) ==
  /\ At(r, "heartbeat", "read") \/ At(r, "counters", "read")
  /\ request' = [request EXCEPT ![r].at = "write", ![r].read = client]
  /\ UNCHANGED <<client, tokens, keyPair, admin, withheld, stopped, raced>>

Heartbeat(r) ==
  /\ At(r, "heartbeat", "write")
  /\ LET seen == request[r].read  status == request[r].reported IN
     Touch(r, [seen EXCEPT !.onboarding =
                 IF status = "none" THEN seen.onboarding ELSE status])
  /\ Answer(r, 0)
  /\ UNCHANGED <<tokens, keyPair, admin, withheld, stopped>>

Counters(r) ==
  /\ At(r, "counters", "write")
  /\ Upsert(r, request[r].read)
  /\ Answer(r, 0)
  /\ UNCHANGED <<tokens, keyPair, admin, withheld, stopped>>
-----------------------------------------------------------------------------
(* The store rejects the next query: the client is told 500.               *)
QueryFails(r) ==
  /\ request[r].at \notin {"idle", "answered"}
  /\ Answer(r, 0)
  /\ UNCHANGED <<client, tokens, keyPair, admin, withheld, stopped, raced>>

(* The answer leaves, or finds nobody.                                     *)
Respond(r) ==
  /\ request[r].at = "answered"
  /\ request' = [request EXCEPT ![r] = Idle]
  /\ UNCHANGED <<client, tokens, keyPair, admin, withheld, stopped, raced>>

Expire(t) ==
  /\ tokens[t].issued /\ ~tokens[t].expired
  /\ tokens' = [tokens EXCEPT ![t].expired = TRUE]
  /\ UNCHANGED <<client, request, keyPair, admin, withheld, stopped, raced>>

(* The process dies with its requests and starts again: without a          *)
(* configured key pair it generates one.                                   *)
Restart ==
  /\ request' = [r \in Requests |-> Idle]
  /\ IF KeyConfigured THEN UNCHANGED keyPair
     ELSE keyPair < MaxKeys /\ keyPair' = keyPair + 1
  /\ UNCHANGED <<client, tokens, admin, withheld, stopped, raced>>

(* Mutant: the token is used first and the client licensed last.           *)
ActivateUseFirst(r) ==
  \/ ActivateToken(r)
  \/ /\ At(r, "activate", "license") /\ Proceed(r, "use")
     /\ tokens' = [tokens EXCEPT ![request[r].token].used = TRUE]
     /\ UNCHANGED <<client, keyPair, admin, withheld, stopped, raced>>
  \/ /\ At(r, "activate", "use") /\ Answer(r, keyPair)
     /\ Upsert(r, MarkLicensed(request[r].read)) /\ withheld' = FALSE
     /\ UNCHANGED <<tokens, keyPair, admin, stopped>>

AdminStep(r) ==
  AdminRead(r) \/ InstallPack(r) \/ Suspend(r) \/ Reactivate(r) \/ ReissueLicense(r)
ActivateStep(r) == ActivateToken(r) \/ ActivateLicense(r) \/ ActivateUse(r)
SyncStep(r) == SyncRead(r) \/ Heartbeat(r) \/ Counters(r)

(* The cloud by itself: any request, at any time, with any token.          *)
CloudNext ==
  \/ AdminCreate \/ Restart
  \/ \E r \in Requests :
       \/ AdminStep(r) \/ ActivateStep(r) \/ SyncStep(r)
       \/ QueryFails(r) \/ Respond(r)
       \/ \E t \in Tokens :
            ActivateRead(r, t) \/ SyncArrives(r, t)
  \/ \E t \in Tokens : Expire(t)

CloudSpec == Init /\ [][CloudNext]_cloud
-----------------------------------------------------------------------------
(* The client, its tokens and the requests are of these types.             *)
CloudTypeOK ==
  /\ client \in Clients
  /\ tokens \in [Tokens -> [issued : BOOLEAN, used : BOOLEAN, expired : BOOLEAN]]
  /\ request \in [Requests -> Handlers]
  /\ keyPair \in 1..MaxKeys /\ admin \in 0..MaxAdmin
  /\ withheld \in BOOLEAN /\ stopped \in BOOLEAN /\ raced \in BOOLEAN

(* "Retry-safe order" (control-plane-api, index.ts:730): a used token belongs to a licensed   *)
(* client, so an activation whose answer was lost can be asked for again,  *)
(* wherever the handler or the process stopped.  Only an administrator     *)
(* takes the license away, or a request that overwrites what it has not    *)
(* read.                                                                   *)
UsedTokenIsLicensed ==
  (\E t \in Tokens : tokens[t].used) /\ ~withheld /\ ~raced => IsLicensed(client)

(* A suspension outlives everything the appliance sends and every request  *)
(* of an administrator but create and reactivate, unless a request that    *)
(* read the client before it writes it after.                              *)
SuspensionHolds ==
  stopped /\ ~raced => client.status = "suspended" /\ client.license = "suspended"

(* A license an administrator took away does not come back by reactivation *)
(* or by anything the appliance reports: it is issued again, by name or by *)
(* an activation.                                                          *)
WithdrawnIsReissued == withheld /\ ~raced => client.license # "active"
=============================================================================
