----------------------------- MODULE Activation -----------------------------
(***************************************************************************)
(* An appliance that activates its license against the control plane: the  *)
(* handler of POST /api/onboarding/activate on the appliance, what it      *)
(* keeps of the answer, and the crashes, lost answers and retries between  *)
(* the two.                                                                *)
(*                                                                         *)
(* The handler waits for the cloud without a limit, puts license and       *)
(* public key into the environment of the process, and writes two files    *)
(* one after the other.  A write truncates the file before it fills it.    *)
(* The onboarding command gives up after ten seconds and can be run again, *)
(* so handlers overlap; it asks again as long as the appliance is locked.  *)
(*                                                                         *)
(* A license is the number of the key pair that signed it, a public key    *)
(* the number of its pair, 0 is none and Torn a truncated file.  That a    *)
(* license expires after a year is left out, and so are a license or key   *)
(* that the environment holds from the start.                              *)
(***************************************************************************)
EXTENDS ControlPlane

CONSTANTS Calls,      \* handlers of the appliance, each with its request
          MaxFaults   \* bound on crashes, lost connections and failing writes

ASSUME CallsAssumption == Calls \subseteq Requests
ASSUME MaxFaultsAssumption == MaxFaults \in Nat

Torn  == MaxKeys + 1
Blank == [license |-> 0, publicKey |-> 0]
Progress ==
  [at : {"idle", "sent", "waiting", "open license", "license", "open key", "key"},
   key : 0..MaxKeys, alone : BOOLEAN]
NoCall == [at |-> "idle", key |-> 0, alone |-> FALSE]

VARIABLES
  installed,  \* the token the appliance was installed with
  env,        \* license and public key in the process's environment
  disk,       \* license.json and license-public-key.pem
  call,       \* the handlers of POST /api/onboarding/activate
  faults,     \* crashes, lost connections and failing writes so far
  kept,       \* history: a license was written to the end
  damaged     \* history: its writing failed, was cut, or shared with another's

appliance == <<installed, env, disk, call, faults, kept, damaged>>
vars      == <<cloud, appliance>>

ActivationInit ==
  /\ Init
  /\ installed = "none" /\ env = Blank /\ disk = Blank
  /\ call = [h \in Calls |-> NoCall]
  /\ faults = 0 /\ kept = FALSE /\ damaged = FALSE

-----------------------------------------------------------------------------
(* The environment before the files; the license must verify under the key.*)
Current(part) == IF env[part] # 0 THEN env[part] ELSE disk[part]
Verifies(license, publicKey) == license \in 1..MaxKeys /\ publicKey = license
Unlocked == Verifies(Current("license"), Current("publicKey"))

Keeping(h) == call[h].at \in {"open license", "license", "open key", "key"}

Goto(h, step) == call' = [call EXCEPT ![h].at = step]

(* GET /api/install with a token that is neither used nor expired.         *)
Install(t) ==
  /\ installed = "none"
  /\ tokens[t].issued /\ ~tokens[t].used /\ ~tokens[t].expired
  /\ installed' = t
  /\ UNCHANGED <<cloud, env, disk, call, faults, kept, damaged>>

(* The handler never looks whether it is unlocked already.                 *)
Activate(h) ==
  /\ installed # "none" /\ call[h].at = "idle" /\ request[h] = Idle
  /\ Goto(h, "sent")
  /\ UNCHANGED <<cloud, installed, env, disk, faults, kept, damaged>>

Deliver(h) ==
  /\ call[h].at = "sent" /\ ActivateRead(h, installed)
  /\ Goto(h, "waiting")
  /\ UNCHANGED <<installed, env, disk, faults, kept, damaged>>

(* persistActivatedLicense sets the environment as soon as the answer is   *)
(* there.                                                                  *)
ReceiveLicense(h) ==
  /\ call[h].at = "waiting" /\ request[h].key # 0 /\ Respond(h)
  /\ LET key   == request[h].key
         alone == \A g \in Calls : ~Keeping(g) IN
     /\ env' = [license |-> key, publicKey |-> key]
     /\ call' = [g \in Calls |->
          IF g = h THEN [at |-> "open license", key |-> key, alone |-> alone]
          ELSE [call[g] EXCEPT !.alone = FALSE]]
     /\ damaged' = (damaged \/ ~alone)
  /\ UNCHANGED <<installed, disk, faults, kept>>

ReceiveRefusal(h) ==
  /\ call[h].at = "waiting" /\ request[h].key = 0 /\ Respond(h)
  /\ call' = [call EXCEPT ![h] = NoCall]
  /\ UNCHANGED <<installed, env, disk, faults, kept, damaged>>

(* The connection breaks before the cloud has read the request, or while   *)
(* it works on it, or on the way back; it goes on with what it has.        *)
LoseConnection(h) ==
  /\ call[h].at \in {"sent", "waiting"}
  /\ faults < MaxFaults /\ faults' = faults + 1
  /\ call' = [call EXCEPT ![h] = NoCall]
  /\ UNCHANGED <<cloud, installed, env, disk, kept, damaged>>

OpenLicense(h) ==
  /\ call[h].at = "open license" /\ Goto(h, "license")
  /\ disk' = [disk EXCEPT !.license = Torn]
  /\ UNCHANGED <<cloud, installed, env, faults, kept, damaged>>

(* Mutant: a public key that is there already is not written again.        *)
WriteLicenseOnly(h) ==
  /\ call[h].at = "license"
  /\ disk' = [disk EXCEPT !.license = call[h].key]
  /\ IF disk.publicKey = 0 THEN Goto(h, "open key") /\ UNCHANGED <<kept, damaged>>
     ELSE /\ call' = [call EXCEPT ![h] = NoCall]
          /\ kept' = TRUE /\ damaged' = (damaged /\ ~call[h].alone)
  /\ UNCHANGED <<cloud, installed, env, faults>>

WriteLicense(h) ==
  /\ call[h].at = "license" /\ Goto(h, "open key")
  /\ disk' = [disk EXCEPT !.license = call[h].key]
  /\ UNCHANGED <<cloud, installed, env, faults, kept, damaged>>

OpenKey(h) ==
  /\ call[h].at = "open key" /\ Goto(h, "key")
  /\ disk' = [disk EXCEPT !.publicKey = Torn]
  /\ UNCHANGED <<cloud, installed, env, faults, kept, damaged>>

(* The last file is full and the appliance answers: activated.             *)
WriteKey(h) ==
  /\ call[h].at = "key"
  /\ call' = [call EXCEPT ![h] = NoCall]
  /\ disk' = [disk EXCEPT !.publicKey = call[h].key]
  /\ kept' = TRUE /\ damaged' = (damaged /\ ~call[h].alone)
  /\ UNCHANGED <<cloud, installed, env, faults>>

(* A directory or a file cannot be written, and the handler fails.  What   *)
(* it has put into the environment stays there, and a file it has opened   *)
(* is left truncated.                                                      *)
KeepFails(h) ==
  /\ Keeping(h)
  /\ faults < MaxFaults /\ faults' = faults + 1
  /\ call' = [call EXCEPT ![h] = NoCall]
  /\ damaged' = TRUE
  /\ UNCHANGED <<cloud, installed, env, disk, kept>>

(* The appliance restarts: its handlers and its environment are gone.      *)
Crash ==
  /\ faults < MaxFaults /\ faults' = faults + 1
  /\ env' = Blank /\ call' = [h \in Calls |-> NoCall]
  /\ damaged' = (damaged \/ \E h \in Calls : Keeping(h))
  /\ UNCHANGED <<cloud, installed, disk, kept>>

(* The cloud restarts: whoever waits for an answer has lost it.            *)
CloudRestart ==
  /\ faults < MaxFaults /\ faults' = faults + 1
  /\ Restart
  /\ call' = [h \in Calls |-> IF call[h].at = "waiting" THEN NoCall ELSE call[h]]
  /\ UNCHANGED <<installed, env, disk, kept, damaged>>
-----------------------------------------------------------------------------
CloudOnly == UNCHANGED appliance

Abandoned(h) == call[h].at # "waiting" /\ Respond(h) /\ CloudOnly

(* A tick sends the heartbeat and then the counters; ticks overlap.        *)
Sync(r) ==
  /\ \/ installed # "none" /\ SyncArrives(r, installed)
     \/ SyncStep(r)
  /\ CloudOnly

Administer(r) == (AdminStep(r) \/ Respond(r)) /\ CloudOnly
CloudActivates(h) == ActivateStep(h) /\ CloudOnly
CloudFails(r) == faults < MaxFaults /\ faults' = faults + 1 /\ QueryFails(r)
                 /\ UNCHANGED <<installed, env, disk, call, kept, damaged>>
TimePasses(t) == Expire(t) /\ CloudOnly

Keep(h) == OpenLicense(h) \/ WriteLicense(h) \/ OpenKey(h) \/ WriteKey(h)

Next ==
  \/ AdminCreate /\ CloudOnly
  \/ \E r \in Requests \ Calls : Administer(r) \/ Sync(r)
  \/ \E r \in Requests : CloudFails(r)
  \/ \E t \in Tokens : Install(t) \/ TimePasses(t)
  \/ \E h \in Calls :
       \/ Activate(h) \/ Deliver(h) \/ CloudActivates(h)
       \/ ReceiveLicense(h) \/ ReceiveRefusal(h) \/ LoseConnection(h)
       \/ Abandoned(h) \/ Keep(h) \/ KeepFails(h)
  \/ Crash \/ CloudRestart

(* What has begun goes on, on either side; and somebody runs the           *)
(* onboarding again while the appliance is locked.                         *)
Fairness ==
  /\ \A h \in Calls :
       /\ WF_vars(Deliver(h)) /\ WF_vars(CloudActivates(h))
       /\ WF_vars(ReceiveLicense(h)) /\ WF_vars(ReceiveRefusal(h))
       /\ WF_vars(Abandoned(h)) /\ WF_vars(Keep(h))
  /\ WF_vars(~Unlocked /\ \E h \in Calls : Activate(h))

Spec == ActivationInit /\ [][Next]_vars /\ Fairness
-----------------------------------------------------------------------------
TypeOK ==
  /\ CloudTypeOK
  /\ installed \in Tokens \cup {"none"}
  /\ env \in [license : 0..MaxKeys, publicKey : 0..MaxKeys]
  /\ disk \in [license : 0..Torn, publicKey : 0..Torn]
  /\ call \in [Calls -> Progress]
  /\ faults \in 0..MaxFaults /\ kept \in BOOLEAN /\ damaged \in BOOLEAN

(* A license that was written to the end is there after a restart, with    *)
(* the key it was signed with, even when the cloud has changed its key     *)
(* pair in between; unless the last writing failed, was interrupted or     *)
(* overlapped.                                                             *)
LicenseSurvivesRestart ==
  kept /\ ~damaged /\ (\A h \in Calls : ~Keeping(h)) =>
    Verifies(disk.license, disk.publicKey)

(* An appliance that holds a license has used its token, which is then its *)
(* credential for good (control-plane-api, data/index.ts:277): whatever expires while the     *)
(* answer is under way, it can go on sending heartbeats.                   *)
LicensedCanReport ==
  env.license # 0 \/ disk.license # 0 => Authenticates(installed)

(* Something but the network keeps the appliance from its license.         *)
Excused ==
  withheld \/ raced \/ (installed # "none" /\ ~Authenticates(installed))

(* An installed appliance is unlocked in the end, whatever crashed and     *)
(* whichever answer was lost, if the onboarding is run again: unless an    *)
(* administrator stopped it, its token expired unused or requests          *)
(* overwrote one another.                                                  *)
RetriesUnlock == installed # "none" ~> Unlocked \/ Excused
=============================================================================
