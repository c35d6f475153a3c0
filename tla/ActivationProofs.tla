-------------------------- MODULE ActivationProofs --------------------------
(***************************************************************************)
(* What the control plane keeps, for any number of requests, tokens and    *)
(* key pairs: first by itself (CloudSpec), then with an appliance (Spec).  *)
(*                                                                         *)
(* Handlers do not lock the client, so no step keeps anything by itself:   *)
(* every argument is that a write which does not set raced writes what the *)
(* handler read, and that what a handler reads lets it go on only if the   *)
(* client can have a license.                                              *)
(*                                                                         *)
(* Every step of Activation is a step of the ControlPlane alone or leaves  *)
(* it alone, so what is proved of the cloud holds with the appliance; and  *)
(* an appliance with a license has used its token.                         *)
(***************************************************************************)
EXTENDS Activation, TLAPS

-----------------------------------------------------------------------------
(* The cloud alone                                                         *)

(* A request that is on its way to license the client.                     *)
Licensing(r) ==
  \/ At(r, "activate", "token") \/ At(r, "activate", "license")
  \/ At(r, "reissue-license", "write")

Using(r) == At(r, "activate", "use")

(* Such a request has read a client that can have a license: this is what  *)
(* keeps it from ending a suspension, for its write is harmless only if    *)
(* that client is still the one stored.                                    *)
ReadsLicensable == \A r \in Requests : Licensing(r) => CanReceiveLicense(request[r].read)

(* The client is licensed from the step before its token is used: what     *)
(* UsedTokenIsLicensed needs when the token is marked.                     *)
UseIsLicensed ==
  /\ \/ \E t \in Tokens : tokens[t].used
     \/ \E r \in Requests : Using(r)
  /\ ~withheld /\ ~raced
  => IsLicensed(client)

IInv == ReadsLicensable /\ UseIsLicensed /\ SuspensionHolds /\ WithdrawnIsReissued

-----------------------------------------------------------------------------
(* An idle handler and an answered one are handlers.                       *)
LEMMA IdleTyped ==
  /\ NoClient \in Clients /\ Idle \in Handlers
  /\ \A key \in 0..MaxKeys :
       [Idle EXCEPT !.at = "answered", !.key = key] \in Handlers
<1>1. NoClient \in Clients
  BY DEF NoClient, Clients
<1>2. Idle \in Handlers
  BY <1>1, BoundsAssumption DEF Idle, Handlers
<1> QED BY <1>1, <1>2 DEF Idle, Handlers

(* An answer leaves every other handler alone.                             *)
LEMMA AnswerTyped ==
  ASSUME NEW r \in Requests, NEW key \in 0..MaxKeys,
         request \in [Requests -> Handlers], Answer(r, key)
  PROVE  request' \in [Requests -> Handlers]
BY IdleTyped DEF Answer

(* What the handlers write is a client.                                    *)
LEMMA WrittenTyped ==
  ASSUME NEW c \in Clients
  PROVE  MarkLicensed(c) \in Clients /\ Reactivated(c) \in Clients
BY DEF MarkLicensed, Reactivated, Clients

LEMMA TypedInit == Init => CloudTypeOK
<1> SUFFICES ASSUME Init PROVE CloudTypeOK
  OBVIOUS
<1>1. tokens \in [Tokens -> [issued : BOOLEAN, used : BOOLEAN, expired : BOOLEAN]]
  BY DEF Init
<1>2. client \in Clients /\ request \in [Requests -> Handlers]
  BY IdleTyped DEF Init
<1>3. keyPair \in 1..MaxKeys /\ admin \in 0..MaxAdmin
  BY BoundsAssumption DEF Init
<1>4. withheld \in BOOLEAN /\ stopped \in BOOLEAN /\ raced \in BOOLEAN
  BY DEF Init
<1> QED BY <1>1, <1>2, <1>3, <1>4 DEF CloudTypeOK

(* No step of the cloud takes a variable out of its type.                  *)
LEMMA TypedStep == CloudTypeOK /\ [CloudNext]_cloud => CloudTypeOK'
<1> SUFFICES ASSUME CloudTypeOK, [CloudNext]_cloud PROVE CloudTypeOK'
  OBVIOUS
<1> USE BoundsAssumption DEF CloudTypeOK
<1>0. /\ 0 \in 0..MaxKeys /\ keyPair \in 0..MaxKeys
      /\ \A r \in Requests : request[r].read \in Clients
  BY DEF Handlers
<1>1. CASE AdminCreate
  <2>1. client' \in Clients
    BY <1>1 DEF AdminCreate, NoClient, Clients
  <2>2. withheld' \in BOOLEAN
    BY <1>1 DEF AdminCreate
  <2>3. admin' \in 0..MaxAdmin
    BY <1>1 DEF AdminCreate
  <2> QED BY <1>1, <2>1, <2>2, <2>3 DEF AdminCreate
<1>2. CASE Restart
  <2>1. keyPair' \in 1..MaxKeys
    BY <1>2 DEF Restart
  <2>2. request' \in [Requests -> Handlers]
    BY <1>2, IdleTyped DEF Restart
  <2> QED BY <1>2, <2>1, <2>2 DEF Restart
<1>3. ASSUME NEW r \in Requests, AdminStep(r) PROVE CloudTypeOK'
  <2>1. CASE AdminRead(r)
    <3>1. PICK op \in AdminOps \ {"create"} :
            request' = [request EXCEPT ![r] =
                          [Idle EXCEPT !.op = op, !.at = "write", !.read = client]]
      BY <2>1 DEF AdminRead
    <3>2. [Idle EXCEPT !.op = op, !.at = "write", !.read = client] \in Handlers
      BY IdleTyped DEF Idle, Handlers
    <3> QED BY <2>1, <3>1, <3>2 DEF AdminRead
  <2>2. CASE InstallPack(r)
    BY <2>2, <1>0, AnswerTyped DEF InstallPack
  <2>3. CASE Suspend(r)
    BY <2>3, <1>0, AnswerTyped DEF Suspend, Upsert, Clients, ReadStale
  <2>4. CASE Reactivate(r)
    BY <2>4, <1>0, AnswerTyped, WrittenTyped DEF Reactivate, Upsert, ReadStale
  <2>5. CASE ReissueLicense(r)
    BY <2>5, <1>0, AnswerTyped, WrittenTyped DEF ReissueLicense, Upsert, ReadStale
  <2> QED BY <1>3, <2>1, <2>2, <2>3, <2>4, <2>5 DEF AdminStep
<1>4. ASSUME NEW r \in Requests, ActivateStep(r) PROVE CloudTypeOK'
  <2>1. CASE ActivateToken(r)
    <3>1. CASE Proceed(r, "license")
      BY <2>1, <3>1 DEF ActivateToken, Proceed, Handlers
    <3>2. CASE Answer(r, 0) \/ Answer(r, keyPair)
      BY <2>1, <3>2, <1>0, AnswerTyped DEF ActivateToken
    <3> QED BY <2>1, <3>1, <3>2 DEF ActivateToken
  <2>2. CASE ActivateLicense(r)
    <3>1. client' \in Clients /\ raced' \in BOOLEAN
      BY <2>2, <1>0, WrittenTyped DEF ActivateLicense, Upsert, ReadStale
    <3>2. request' \in [Requests -> Handlers]
      BY <2>2 DEF ActivateLicense, Proceed, Handlers
    <3> QED BY <2>2, <3>1, <3>2 DEF ActivateLicense
  <2>3. CASE ActivateUse(r)
    BY <2>3, <1>0, AnswerTyped DEF ActivateUse
  <2> QED BY <1>4, <2>1, <2>2, <2>3 DEF ActivateStep
<1>5. ASSUME NEW r \in Requests, SyncStep(r) PROVE CloudTypeOK'
  <2>1. CASE SyncRead(r)
    <3>1. [request[r] EXCEPT !.at = "write", !.read = client] \in Handlers
      BY DEF Handlers
    <3>2. request' = [request EXCEPT ![r] =
                        [request[r] EXCEPT !.at = "write", !.read = client]]
      BY <2>1 DEF SyncRead
    <3> QED BY <2>1, <3>1, <3>2 DEF SyncRead
  <2>2. CASE Heartbeat(r)
    <3> DEFINE seen   == request[r].read
               status == request[r].reported
               next   == [seen EXCEPT !.onboarding =
                            IF status = "none" THEN seen.onboarding ELSE status]
    <3>1. status \in Reported \cup {"none"} /\ seen \in Clients
      BY DEF Handlers
    <3>2. next \in Clients
      BY <3>1, ReportedAssumption DEF Clients
    <3>3. Touch(r, next) /\ Answer(r, 0)
      BY <2>2 DEF Heartbeat
    <3> HIDE DEF next
    <3>4. client' \in Clients
      BY <3>2, <3>3 DEF Touch, Clients
    <3>5. raced' \in BOOLEAN
      BY <3>3 DEF Touch, ReadStale
    <3> QED BY <2>2, <1>0, <3>3, <3>4, <3>5, AnswerTyped DEF Heartbeat
  <2>3. CASE Counters(r)
    BY <2>3, <1>0, AnswerTyped DEF Counters, Upsert, ReadStale
  <2> QED BY <1>5, <2>1, <2>2, <2>3 DEF SyncStep
<1>6. ASSUME NEW r \in Requests, QueryFails(r) \/ Respond(r) PROVE CloudTypeOK'
  BY <1>6, <1>0, AnswerTyped, IdleTyped DEF QueryFails, Respond
<1>7. ASSUME NEW r \in Requests, NEW t \in Tokens, ActivateRead(r, t)
      PROVE CloudTypeOK'
  <2>1. /\ [Idle EXCEPT !.op = "activate", !.at = "token", !.token = t,
                        !.read = client] \in Handlers
        /\ [Idle EXCEPT !.at = "answered"] \in Handlers
    BY IdleTyped DEF Idle, Handlers
  <2> QED BY <1>7, <2>1 DEF ActivateRead
<1>8. ASSUME NEW r \in Requests, NEW t \in Tokens, SyncArrives(r, t)
      PROVE CloudTypeOK'
  <2>1. ASSUME NEW op \in {"heartbeat", "counters"},
               NEW s \in Reported \cup {"none"}, SyncResolve(r, op, t, s)
        PROVE  CloudTypeOK'
    <3>1. [Idle EXCEPT !.op = op, !.at = "read", !.reported = s] \in Handlers
      BY IdleTyped DEF Idle, Handlers
    <3> QED BY <2>1, <3>1 DEF SyncResolve
  <2> QED BY <1>8, <2>1 DEF SyncArrives
<1>9. ASSUME NEW t \in Tokens, Expire(t) PROVE CloudTypeOK'
  BY <1>9 DEF Expire
<1>10. CASE UNCHANGED cloud
  BY <1>10 DEF cloud
<1> QED BY <1>1, <1>2, <1>3, <1>4, <1>5, <1>6, <1>7, <1>8, <1>9, <1>10 DEF CloudNext

(* The variables keep their types: CloudTypeOK.                            *)
THEOREM Typed == CloudSpec => []CloudTypeOK
BY TypedInit, TypedStep, PTL DEF CloudSpec

-----------------------------------------------------------------------------
(* A handler that answers, or goes elsewhere than to a license, disturbs   *)
(* nothing that is said of handlers.                                       *)
LEMMA Elsewhere ==
  ASSUME NEW r \in Requests, NEW h, CloudTypeOK, ReadsLicensable,
         request' = [request EXCEPT ![r] = h],
         ~(h.op = "activate" /\ h.at \in {"token", "license", "use"}),
         ~(h.op = "reissue-license" /\ h.at = "write")
  PROVE  ReadsLicensable' /\ \A q \in Requests : Using(q)' => Using(q)
<1>1. request'[r] = h /\ \A q \in Requests : q # r => request'[q] = request[q]
  BY DEF CloudTypeOK
<1> QED BY <1>1 DEF ReadsLicensable, Licensing, Using, At

LEMMA Answers ==
  ASSUME NEW r \in Requests, NEW key, CloudTypeOK, ReadsLicensable, Answer(r, key)
  PROVE  ReadsLicensable' /\ \A q \in Requests : Using(q)' => Using(q)
<1> DEFINE h == [Idle EXCEPT !.at = "answered", !.key = key]
<1>1. h.op = "none" /\ request' = [request EXCEPT ![r] = h]
  BY DEF Answer, Idle
<1> HIDE DEF h
<1> QED BY <1>1, Elsewhere

(* A step that leaves the client, the histories and the tokens' use alone, *)
(* and starts nobody using a token, keeps what is said of the client.      *)
LEMMA ClientKept ==
  ASSUME IInv, UNCHANGED <<client, withheld, stopped, raced>>,
         \A q \in Requests : Using(q)' => Using(q),
         \A t \in Tokens : tokens'[t].used => tokens[t].used
  PROVE  UseIsLicensed' /\ SuspensionHolds' /\ WithdrawnIsReissued'
BY DEF IInv, UseIsLicensed, SuspensionHolds, WithdrawnIsReissued, IsLicensed

(* Every step keeps the strengthened invariant.                            *)
LEMMA IInvKept == CloudTypeOK /\ IInv /\ [CloudNext]_cloud => IInv'
<1> SUFFICES ASSUME CloudTypeOK, IInv, [CloudNext]_cloud PROVE IInv'
  OBVIOUS
<1>a. ReadsLicensable /\ UseIsLicensed /\ SuspensionHolds /\ WithdrawnIsReissued
  BY DEF IInv
<1>1. CASE AdminCreate
  <2>1. ReadsLicensable' /\ \A q \in Requests : Using(q)' <=> Using(q)
    BY <1>1, <1>a DEF AdminCreate, ReadsLicensable, Licensing, Using, At
  <2>2. UseIsLicensed'
    <3>1. ~IsLicensed(NoClient)
      BY DEF IsLicensed, NoClient
    <3>2. ~withheld' => ~withheld /\ client = NoClient
      BY <1>1 DEF AdminCreate
    <3>3. UNCHANGED <<tokens, raced>>
      BY <1>1 DEF AdminCreate
    <3> QED BY <2>1, <3>1, <3>2, <3>3, <1>a DEF UseIsLicensed
  <2>3. SuspensionHolds' /\ WithdrawnIsReissued'
    BY <1>1 DEF AdminCreate, SuspensionHolds, WithdrawnIsReissued, NoClient
  <2> QED BY <2>1, <2>2, <2>3 DEF IInv
<1>2. CASE Restart
  <2>1. ReadsLicensable' /\ \A q \in Requests : Using(q)' => Using(q)
    BY <1>2 DEF Restart, ReadsLicensable, Licensing, Using, At, Idle
  <2> QED BY <1>2, <1>a, <2>1, ClientKept DEF Restart, IInv
<1>3. ASSUME NEW r \in Requests, AdminStep(r) PROVE IInv'
  <2>1. CASE AdminRead(r)
    <3>1. PICK op \in AdminOps \ {"create"} :
            /\ op \in {"install-pack", "reissue-license"} => CanReceiveLicense(client)
            /\ request' = [request EXCEPT ![r] =
                 [Idle EXCEPT !.op = op, !.at = "write", !.read = client]]
      BY <2>1 DEF AdminRead
    <3>2. request'[r].op = op /\ request'[r].at = "write" /\ request'[r].read = client
      BY <3>1 DEF Idle, CloudTypeOK
    <3>3. op # "activate"
      BY AdminOpsAssumption
    <3>4. \A q \in Requests : q # r => request'[q] = request[q]
      BY <3>1 DEF CloudTypeOK
    <3>5. ReadsLicensable' /\ \A q \in Requests : Using(q)' => Using(q)
      BY <3>1, <3>2, <3>3, <3>4, <1>a
         DEF ReadsLicensable, Licensing, Using, At, CanReceiveLicense
    <3> QED BY <2>1, <1>a, <3>5, ClientKept DEF AdminRead, IInv
  <2>2. CASE InstallPack(r)
    <3>1. ReadsLicensable' /\ \A q \in Requests : Using(q)' => Using(q)
      BY <2>2, <1>a, Answers DEF InstallPack
    <3>2. \A t \in Tokens : tokens'[t].used => tokens[t].used
      BY <2>2 DEF InstallPack, CloudTypeOK
    <3> QED BY <2>2, <3>1, <3>2, ClientKept DEF InstallPack, IInv
  <2>3. CASE Suspend(r)
    <3>1. ReadsLicensable'
      BY <2>3, <1>a, Answers DEF Suspend
    <3>2. UseIsLicensed' /\ SuspensionHolds' /\ WithdrawnIsReissued'
      BY <2>3 DEF Suspend, Upsert, UseIsLicensed, SuspensionHolds, WithdrawnIsReissued
    <3> QED BY <3>1, <3>2 DEF IInv
  <2>4. CASE Reactivate(r)
    <3>1. ReadsLicensable' /\ \A q \in Requests : Using(q)' => Using(q)
      BY <2>4, <1>a, Answers DEF Reactivate
    <3>2. /\ ~raced' => ~raced /\ client' = Reactivated(client)
          /\ UNCHANGED <<tokens, withheld>> /\ ~stopped'
      BY <2>4 DEF Reactivate, Upsert, ReadStale
    <3>3. /\ IsLicensed(client) => IsLicensed(Reactivated(client))
          /\ client.license # "active" => Reactivated(client).license # "active"
      BY DEF IsLicensed, Reactivated
    <3> QED BY <3>1, <3>2, <3>3, <1>a
            DEF IInv, UseIsLicensed, SuspensionHolds, WithdrawnIsReissued
  <2>5. CASE ReissueLicense(r)
    <3>1. ReadsLicensable'
      BY <2>5, <1>a, Answers DEF ReissueLicense
    <3>2. /\ client' = MarkLicensed(request[r].read) /\ ~withheld'
          /\ ~raced' => ~raced /\ request[r].read = client
          /\ stopped' = stopped /\ Licensing(r)
      BY <2>5 DEF ReissueLicense, Upsert, ReadStale, Licensing
    <3>3. CanReceiveLicense(request[r].read)
      BY <3>2, <1>a DEF ReadsLicensable
    <3>4. IsLicensed(client')
      BY <3>2 DEF IsLicensed, MarkLicensed
    <3>5. stopped' => raced'
      BY <3>2, <3>3, <1>a DEF SuspensionHolds, CanReceiveLicense
    <3> QED BY <3>1, <3>2, <3>4, <3>5
            DEF IInv, UseIsLicensed, SuspensionHolds, WithdrawnIsReissued, IsLicensed
  <2> QED BY <1>3, <2>1, <2>2, <2>3, <2>4, <2>5 DEF AdminStep
<1>4. ASSUME NEW r \in Requests, ActivateStep(r) PROVE IInv'
  <2>1. CASE ActivateToken(r)
    <3>1. UNCHANGED <<client, tokens, withheld, stopped, raced>>
      BY <2>1 DEF ActivateToken
    <3>2. CASE Proceed(r, "license")
      <4>1. /\ request'[r] = [request[r] EXCEPT !.at = "license"]
            /\ \A q \in Requests : q # r => request'[q] = request[q]
        BY <3>2 DEF Proceed, CloudTypeOK
      <4>2. Licensing(r) /\ request'[r].read = request[r].read
        BY <2>1, <4>1 DEF ActivateToken, Licensing, CloudTypeOK, Handlers
      <4>3. ~Using(r)'
        BY <4>1 DEF Using, At, CloudTypeOK, Handlers
      <4>4. ReadsLicensable' /\ \A q \in Requests : Using(q)' => Using(q)
        BY <4>1, <4>2, <4>3, <1>a
           DEF ReadsLicensable, Licensing, Using, At, CanReceiveLicense
      <4> QED BY <3>1, <4>4, ClientKept DEF IInv
    <3>3. CASE Answer(r, 0) \/ Answer(r, keyPair)
      <4>1. ReadsLicensable' /\ \A q \in Requests : Using(q)' => Using(q)
        BY <3>3, <1>a, Answers
      <4> QED BY <3>1, <4>1, ClientKept DEF IInv
    <3> QED BY <2>1, <3>2, <3>3 DEF ActivateToken
  <2>2. CASE ActivateLicense(r)
    <3>1. /\ request'[r] = [request[r] EXCEPT !.at = "use"]
          /\ \A q \in Requests : q # r => request'[q] = request[q]
      BY <2>2 DEF ActivateLicense, Proceed, CloudTypeOK
    <3>2. ~Licensing(r)'
      BY <2>2, <3>1 DEF ActivateLicense, Licensing, At, CloudTypeOK, Handlers
    <3>3. ReadsLicensable'
      BY <3>1, <3>2, <1>a DEF ReadsLicensable, Licensing, At, CanReceiveLicense
    <3>4. /\ client' = MarkLicensed(request[r].read) /\ ~withheld'
          /\ ~raced' => ~raced /\ request[r].read = client
          /\ stopped' = stopped /\ Licensing(r)
      BY <2>2 DEF ActivateLicense, Upsert, ReadStale, Licensing
    <3>5. CanReceiveLicense(request[r].read)
      BY <3>4, <1>a DEF ReadsLicensable
    <3>6. IsLicensed(client')
      BY <3>4 DEF IsLicensed, MarkLicensed
    <3>7. stopped' => raced'
      BY <3>4, <3>5, <1>a DEF SuspensionHolds, CanReceiveLicense
    <3> QED BY <3>3, <3>4, <3>6, <3>7
            DEF IInv, UseIsLicensed, SuspensionHolds, WithdrawnIsReissued, IsLicensed
  <2>3. CASE ActivateUse(r)
    <3>1. ReadsLicensable' /\ \A q \in Requests : Using(q)' => Using(q)
      BY <2>3, <1>a, Answers DEF ActivateUse
    <3>2. Using(r) /\ UNCHANGED <<client, withheld, stopped, raced>>
      BY <2>3 DEF ActivateUse, Using
    <3>3. ~withheld /\ ~raced => IsLicensed(client)
      BY <3>2, <1>a DEF UseIsLicensed
    <3> QED BY <3>1, <3>2, <3>3, <1>a
            DEF IInv, UseIsLicensed, SuspensionHolds, WithdrawnIsReissued, IsLicensed
  <2> QED BY <1>4, <2>1, <2>2, <2>3 DEF ActivateStep
<1>5. ASSUME NEW r \in Requests, SyncStep(r) PROVE IInv'
  <2>1. CASE SyncRead(r)
    <3> DEFINE h == [request[r] EXCEPT !.at = "write", !.read = client]
    <3>1. request' = [request EXCEPT ![r] = h]
      BY <2>1 DEF SyncRead
    <3>2. h.op = request[r].op /\ h.op \in {"heartbeat", "counters"}
      BY <2>1 DEF SyncRead, At, CloudTypeOK, Handlers
    <3> HIDE DEF h
    <3>3. ReadsLicensable' /\ \A q \in Requests : Using(q)' => Using(q)
      BY <3>1, <3>2, <1>a, Elsewhere
    <3> QED BY <2>1, <3>3, ClientKept DEF SyncRead, IInv
  <2>2. CASE Heartbeat(r)
    <3>1. ReadsLicensable' /\ \A q \in Requests : Using(q)' => Using(q)
      BY <2>2, <1>a, Answers DEF Heartbeat
    <3>2. /\ UNCHANGED <<tokens, withheld, stopped>>
          /\ ~raced' => ~raced /\ request[r].read = client
      BY <2>2 DEF Heartbeat, Touch, ReadStale
    <3>3. /\ client'.status = client.status
          /\ client'.license = request[r].read.license
      BY <2>2 DEF Heartbeat, Touch, CloudTypeOK, Handlers, Clients
    <3> QED BY <3>1, <3>2, <3>3, <1>a
            DEF IInv, UseIsLicensed, SuspensionHolds, WithdrawnIsReissued, IsLicensed
  <2>3. CASE Counters(r)
    <3>1. ReadsLicensable' /\ \A q \in Requests : Using(q)' => Using(q)
      BY <2>3, <1>a, Answers DEF Counters
    <3>2. /\ UNCHANGED <<tokens, withheld, stopped>>
          /\ ~raced' => ~raced /\ client' = client
      BY <2>3 DEF Counters, Upsert, ReadStale
    <3> QED BY <3>1, <3>2, <1>a
            DEF IInv, UseIsLicensed, SuspensionHolds, WithdrawnIsReissued, IsLicensed
  <2> QED BY <1>5, <2>1, <2>2, <2>3 DEF SyncStep
<1>6. ASSUME NEW r \in Requests, QueryFails(r) \/ Respond(r) PROVE IInv'
  <2>1. Idle.op = "none"
    BY DEF Idle
  <2>2. ReadsLicensable' /\ \A q \in Requests : Using(q)' => Using(q)
    BY <1>6, <2>1, <1>a, Answers, Elsewhere DEF QueryFails, Respond
  <2> QED BY <1>6, <2>2, ClientKept DEF QueryFails, Respond, IInv
<1>7. ASSUME NEW r \in Requests, NEW t \in Tokens, ActivateRead(r, t) PROVE IInv'
  <2>1. /\ \A q \in Requests : q # r => request'[q] = request[q]
        /\ Licensing(r)' => CanReceiveLicense(client) /\ request'[r].read = client
        /\ ~Using(r)'
    BY <1>7 DEF ActivateRead, Licensing, Using, At, Idle, CloudTypeOK
  <2>2. ReadsLicensable' /\ \A q \in Requests : Using(q)' => Using(q)
    BY <2>1, <1>a DEF ReadsLicensable, Licensing, Using, At, CanReceiveLicense
  <2> QED BY <1>7, <2>2, ClientKept DEF ActivateRead, IInv
<1>8. ASSUME NEW r \in Requests, NEW t \in Tokens, SyncArrives(r, t) PROVE IInv'
  <2>1. ASSUME NEW op \in {"counters", "heartbeat"}, NEW s, SyncResolve(r, op, t, s)
        PROVE  IInv'
    <3> DEFINE h == [Idle EXCEPT !.op = op, !.at = "read", !.reported = s]
    <3>1. h.at = "read" /\ request' = [request EXCEPT ![r] = h]
      BY <2>1 DEF SyncResolve, Idle
    <3> HIDE DEF h
    <3>2. ReadsLicensable' /\ \A q \in Requests : Using(q)' => Using(q)
      BY <3>1, <1>a, Elsewhere
    <3> QED BY <2>1, <3>2, ClientKept DEF SyncResolve, IInv
  <2> QED BY <1>8, <2>1 DEF SyncArrives
<1>9. ASSUME NEW t \in Tokens, Expire(t) PROVE IInv'
  <2>1. ReadsLicensable' /\ \A q \in Requests : Using(q)' => Using(q)
    BY <1>9, <1>a DEF Expire, ReadsLicensable, Licensing, Using, At, CanReceiveLicense
  <2>2. \A u \in Tokens : tokens'[u].used => tokens[u].used
    BY <1>9 DEF Expire, CloudTypeOK
  <2> QED BY <1>9, <2>1, <2>2, ClientKept DEF Expire, IInv
<1>10. CASE UNCHANGED cloud
  BY <1>10, <1>a DEF cloud, IInv, ReadsLicensable, Licensing, Using, At,
     CanReceiveLicense, UseIsLicensed, SuspensionHolds, WithdrawnIsReissued, IsLicensed
<1> QED BY <1>1, <1>2, <1>3, <1>4, <1>5, <1>6, <1>7, <1>8, <1>9, <1>10 DEF CloudNext

(* The strengthened invariant holds throughout.                            *)
THEOREM Strengthened == CloudSpec => []IInv
<1>1. Init => IInv
  BY DEF Init, IInv, ReadsLicensable, Licensing, Using, At, Idle, UseIsLicensed,
         SuspensionHolds, WithdrawnIsReissued
<1> QED BY <1>1, IInvKept, Typed, PTL DEF CloudSpec

(* A used token belongs to a licensed client, wherever a handler or the    *)
(* process stopped: UsedTokenIsLicensed.                                   *)
THEOREM UsedIsLicensed == CloudSpec => []UsedTokenIsLicensed
<1>1. IInv => UsedTokenIsLicensed
  BY DEF IInv, UseIsLicensed, UsedTokenIsLicensed
<1> QED BY <1>1, Strengthened, PTL

(* A suspension ends by create or reactivate, or by a request that         *)
(* overwrites what it has not read: SuspensionHolds.                       *)
THEOREM SuspensionStays == CloudSpec => []SuspensionHolds
<1>1. IInv => SuspensionHolds
  BY DEF IInv
<1> QED BY <1>1, Strengthened, PTL

(* A license that was taken away comes back only by being issued:          *)
(* WithdrawnIsReissued.                                                    *)
THEOREM WithdrawalStays == CloudSpec => []WithdrawnIsReissued
<1>1. IInv => WithdrawnIsReissued
  BY DEF IInv
<1> QED BY <1>1, Strengthened, PTL

-----------------------------------------------------------------------------
(* The cloud and the appliance                                             *)

(* The appliance's token is used, for good.                                *)
Consumed ==
  installed # "none" /\ tokens[installed].issued /\ tokens[installed].used

(* A handler's request in the cloud carries the installed token, and       *)
(* nobody has a license before that token is used.                         *)
CallRole(h) ==
  /\ call[h].at # "idle" => installed # "none"
  /\ request[h].op \in {"none", "activate"}
  /\ request[h].op = "activate" => installed # "none" /\ request[h].token = installed
  /\ At(h, "activate", "license") \/ At(h, "activate", "use") =>
       tokens[installed].issued
  /\ request[h].key # 0 => Consumed
  /\ Keeping(h) => Consumed

Holding ==
  /\ \A h \in Calls : CallRole(h)
  /\ \A r \in Requests \ Calls : request[r].op # "activate"
  /\ \A t \in Tokens : tokens[t].used => tokens[t].issued
  /\ env.license # 0 \/ disk.license # 0 => Consumed

AInv == TypeOK /\ Holding

-----------------------------------------------------------------------------
(* What a step of the composition is to the cloud.                         *)
LEMMA CloudStep == TypeOK /\ Holding /\ [Next]_vars => [CloudNext]_cloud
<1> SUFFICES ASSUME TypeOK, Holding, [Next]_vars PROVE [CloudNext]_cloud
  OBVIOUS
<1> USE CallsAssumption
<1>1. CASE AdminCreate
  BY <1>1 DEF CloudNext
<1>2. ASSUME NEW r \in Requests, Administer(r) \/ CloudFails(r) PROVE CloudNext
  BY <1>2 DEF Administer, CloudFails, CloudNext
<1>3. ASSUME NEW r \in Requests, Sync(r) PROVE CloudNext
  <2>1. CASE installed # "none" /\ SyncArrives(r, installed)
    <3>1. installed \in Tokens
      BY <2>1 DEF TypeOK
    <3> QED BY <2>1, <3>1 DEF CloudNext
  <2> QED BY <1>3, <2>1 DEF Sync, CloudNext
<1>4. ASSUME NEW t \in Tokens, TimePasses(t) PROVE CloudNext
  BY <1>4 DEF TimePasses, CloudNext
<1>5. ASSUME NEW h \in Calls, Deliver(h) PROVE CloudNext
  <2>1. installed \in Tokens
    BY <1>5 DEF Deliver, Holding, CallRole, TypeOK
  <2> QED BY <1>5, <2>1 DEF Deliver, CloudNext
<1>6. ASSUME NEW h \in Calls,
             CloudActivates(h) \/ ReceiveLicense(h) \/ ReceiveRefusal(h) \/ Abandoned(h)
      PROVE  CloudNext
  BY <1>6 DEF CloudActivates, ReceiveLicense, ReceiveRefusal, Abandoned, CloudNext
<1>7. CASE CloudRestart
  BY <1>7 DEF CloudRestart, CloudNext
<1>8. ASSUME NEW h \in Calls,
             Activate(h) \/ LoseConnection(h) \/ Keep(h) \/ KeepFails(h)
      PROVE  UNCHANGED cloud
  BY <1>8 DEF Activate, LoseConnection, Keep, OpenLicense, WriteLicense, OpenKey,
              WriteKey, KeepFails
<1>9. ASSUME NEW t \in Tokens, Install(t) PROVE UNCHANGED cloud
  BY <1>9 DEF Install
<1>10. CASE Crash \/ UNCHANGED vars
  BY <1>10 DEF Crash, vars
<1> QED BY <1>1, <1>2, <1>3, <1>4, <1>5, <1>6, <1>7, <1>8, <1>9, <1>10 DEF Next

(* The tokens: what is used stays used, and only the request of a handler  *)
(* uses one.                                                               *)
LEMMA TokensGrow ==
  ASSUME CloudTypeOK, [CloudNext]_cloud, NEW t \in Tokens
  PROVE  /\ tokens[t].issued => tokens'[t].issued
         /\ tokens[t].used => tokens'[t].used
         /\ tokens'[t].used =>
              tokens[t].used \/ \E r \in Requests : ActivateUse(r) /\ t = request[r].token
<1> USE DEF CloudTypeOK
<1>1. ASSUME NEW r \in Requests, InstallPack(r)
      PROVE  /\ tokens[t].issued => tokens'[t].issued
             /\ tokens'[t].used = tokens[t].used
  BY <1>1 DEF InstallPack
<1>2. ASSUME NEW r \in Requests, ActivateUse(r)
      PROVE  /\ tokens'[t].issued = tokens[t].issued
             /\ tokens[t].used => tokens'[t].used
             /\ tokens'[t].used => tokens[t].used \/ t = request[r].token
  BY <1>2 DEF ActivateUse
<1>3. ASSUME NEW u \in Tokens, Expire(u)
      PROVE  tokens'[t].issued = tokens[t].issued /\ tokens'[t].used = tokens[t].used
  BY <1>3 DEF Expire
<1>4. \/ \E r \in Requests : InstallPack(r) \/ ActivateUse(r)
      \/ \E u \in Tokens : Expire(u)
      \/ UNCHANGED tokens
  BY DEF CloudNext, cloud, AdminCreate, Restart, AdminStep, AdminRead, Suspend,
         Reactivate, ReissueLicense, ActivateStep, ActivateToken, ActivateLicense,
         SyncStep, SyncRead, Heartbeat, Counters, QueryFails, Respond, ActivateRead,
         SyncArrives, SyncResolve
<1> QED BY <1>1, <1>2, <1>3, <1>4

(* The appliance is installed once.                                        *)
LEMMA StaysInstalled ==
  [Next]_vars => installed' = installed \/ (installed = "none" /\ UNCHANGED <<cloud, env, disk, call>>)
BY DEF Next, vars, appliance, CloudOnly, Administer, Sync, CloudFails, TimePasses,
       Install, Activate, Deliver, CloudActivates, ReceiveLicense, ReceiveRefusal,
       LoseConnection, Abandoned, Keep, OpenLicense, WriteLicense, OpenKey, WriteKey,
       KeepFails, Crash, CloudRestart

(* A handler that is gone, and one that goes on, are handlers.             *)
LEMMA ProgressTyped ==
  /\ NoCall \in Progress
  /\ \A h \in Calls :
       call \in [Calls -> Progress] =>
         /\ [call EXCEPT ![h] = NoCall] \in [Calls -> Progress]
         /\ \A step \in {"sent", "waiting", "license", "open key", "key"} :
              Goto(h, step) => call' \in [Calls -> Progress]
<1>1. NoCall \in Progress
  BY BoundsAssumption DEF NoCall, Progress
<1>2. ASSUME NEW h \in Calls, call \in [Calls -> Progress],
             NEW step \in {"sent", "waiting", "license", "open key", "key"}, Goto(h, step)
      PROVE  call' \in [Calls -> Progress]
  <2>1. call[h] \in Progress
    BY <1>2
  <2>2. [call[h] EXCEPT !.at = step] \in Progress
    BY <1>2, <2>1 DEF Progress
  <2>3. call' = [call EXCEPT ![h] = [call[h] EXCEPT !.at = step]]
    BY <1>2 DEF Goto
  <2> QED BY <1>2, <2>2, <2>3
<1> QED BY <1>1, <1>2

(* The variables of the appliance keep their types too.                    *)
LEMMA ApplianceTyped == TypeOK /\ Holding /\ [Next]_vars => TypeOK'
<1> SUFFICES ASSUME TypeOK, Holding, [Next]_vars PROVE TypeOK'
  OBVIOUS
<1>0. CloudTypeOK'
  BY CloudStep, TypedStep DEF TypeOK
<1>a. ASSUME faults < MaxFaults, faults' = faults + 1 PROVE faults' \in 0..MaxFaults
  BY <1>a, MaxFaultsAssumption DEF TypeOK
<1>b. Torn \in 0..Torn /\ 1..MaxKeys \subseteq 0..Torn /\ 0..MaxKeys \subseteq 0..Torn
      /\ 0 \in 0..MaxKeys
  BY BoundsAssumption DEF Torn
<1> USE <1>0, CallsAssumption, ProgressTyped DEF TypeOK
<1>1. CASE AdminCreate /\ CloudOnly
  BY <1>1 DEF CloudOnly, appliance
<1>2. ASSUME NEW r \in Requests, Administer(r) \/ Sync(r) PROVE TypeOK'
  BY <1>2 DEF Administer, Sync, CloudOnly, appliance
<1>3. ASSUME NEW r \in Requests, CloudFails(r) PROVE TypeOK'
  BY <1>3, <1>a DEF CloudFails
<1>4. ASSUME NEW t \in Tokens, Install(t) \/ TimePasses(t) PROVE TypeOK'
  BY <1>4 DEF Install, TimePasses, CloudOnly, appliance
<1>6. ASSUME NEW h \in Calls, Activate(h) \/ Deliver(h) PROVE TypeOK'
  <2>1. call' \in [Calls -> Progress]
    BY <1>6 DEF Activate, Deliver
  <2> QED BY <1>6, <2>1 DEF Activate, Deliver
<1>7. ASSUME NEW h \in Calls, CloudActivates(h) \/ Abandoned(h) PROVE TypeOK'
  BY <1>7 DEF CloudActivates, Abandoned, CloudOnly, appliance
<1>8. ASSUME NEW h \in Calls, ReceiveLicense(h) PROVE TypeOK'
  <2> DEFINE key == request[h].key
             alone == \A g \in Calls : ~Keeping(g)
  <2>1. key \in 0..MaxKeys /\ alone \in BOOLEAN
    BY DEF CloudTypeOK, Handlers
  <2>2. /\ env' = [license |-> key, publicKey |-> key]
        /\ call' = [g \in Calls |->
             IF g = h THEN [at |-> "open license", key |-> key, alone |-> alone]
             ELSE [call[g] EXCEPT !.alone = FALSE]]
        /\ damaged' = (damaged \/ ~alone)
        /\ UNCHANGED <<installed, disk, faults, kept>>
    BY <1>8 DEF ReceiveLicense
  <2> HIDE DEF key, alone
  <2>3. damaged' \in BOOLEAN
    BY <2>2
  <2>4. env' \in [license : 0..MaxKeys, publicKey : 0..MaxKeys]
    BY <2>1, <2>2
  <2>5. [at |-> "open license", key |-> key, alone |-> alone] \in Progress
    BY <2>1 DEF Progress
  <2>6. \A g \in Calls : [call[g] EXCEPT !.alone = FALSE] \in Progress
    BY DEF Progress
  <2>7. call' \in [Calls -> Progress]
    BY <2>2, <2>5, <2>6
  <2> QED BY <2>2, <2>3, <2>4, <2>7
<1>9. ASSUME NEW h \in Calls, ReceiveRefusal(h) \/ LoseConnection(h) \/ KeepFails(h)
      PROVE  TypeOK'
  BY <1>9, <1>a DEF ReceiveRefusal, LoseConnection, KeepFails
<1>10. ASSUME NEW h \in Calls, Keep(h) PROVE TypeOK'
  <2>1. call[h].key \in 0..MaxKeys
    BY DEF Progress
  <2>2. \A x \in 0..Torn :
          /\ [disk EXCEPT !.license = x] \in [license : 0..Torn, publicKey : 0..Torn]
          /\ [disk EXCEPT !.publicKey = x] \in [license : 0..Torn, publicKey : 0..Torn]
    OBVIOUS
  <2>3. disk' \in [license : 0..Torn, publicKey : 0..Torn]
    BY <1>10, <1>b, <2>1, <2>2 DEF Keep, OpenLicense, WriteLicense, OpenKey, WriteKey
  <2>4. call' \in [Calls -> Progress]
    BY <1>10 DEF Keep, OpenLicense, WriteLicense, OpenKey, WriteKey
  <2>5. damaged' \in BOOLEAN /\ kept' \in BOOLEAN
    BY <1>10 DEF Keep, OpenLicense, WriteLicense, OpenKey, WriteKey
  <2> QED BY <1>10, <2>3, <2>4, <2>5
          DEF Keep, OpenLicense, WriteLicense, OpenKey, WriteKey
<1>11. CASE Crash
  <2>1. damaged' \in BOOLEAN
    BY <1>11 DEF Crash
  <2>2. env' \in [license : 0..MaxKeys, publicKey : 0..MaxKeys]
    BY <1>11, <1>b DEF Crash, Blank
  <2>3. call' \in [Calls -> Progress]
    BY <1>11 DEF Crash
  <2> QED BY <1>11, <1>a, <2>1, <2>2, <2>3 DEF Crash
<1>12. CASE CloudRestart
  <2>1. call' \in [Calls -> Progress]
    BY <1>12 DEF CloudRestart
  <2> QED BY <1>12, <1>a, <2>1 DEF CloudRestart
<1>13. CASE UNCHANGED vars
  BY <1>13 DEF vars, appliance
<1> QED BY <1>1, <1>2, <1>3, <1>4, <1>6, <1>7, <1>8, <1>9, <1>10, <1>11, <1>12, <1>13
        DEF Next

(* What is consumed stays consumed.                                        *)
LEMMA ConsumedStays == TypeOK /\ Holding /\ [Next]_vars /\ Consumed => Consumed'
<1> SUFFICES ASSUME TypeOK, Holding, [Next]_vars, Consumed PROVE Consumed'
  OBVIOUS
<1>1. installed \in Tokens /\ installed' = installed
  BY StaysInstalled DEF Consumed, TypeOK
<1> QED BY <1>1, CloudStep, TokensGrow DEF Consumed, TypeOK

(* A handler whose request is left alone, and which stays where it is or   *)
(* is gone, keeps its role.                                                *)
LEMMA RoleKept ==
  ASSUME TypeOK, Holding, [Next]_vars, NEW h \in Calls, installed' = installed,
         request'[h] = request[h], call'[h].at \in {call[h].at, "idle"}
  PROVE  CallRole(h)'
<1>1. CallRole(h)
  BY DEF Holding
<1>2. Consumed => Consumed'
  BY ConsumedStays
<1>3. installed # "none" /\ tokens[installed].issued => tokens'[installed].issued
  BY CloudStep, TokensGrow DEF TypeOK
<1>4. (At(h, "activate", "license") \/ At(h, "activate", "use"))'
        => At(h, "activate", "license") \/ At(h, "activate", "use")
  BY DEF At
<1>5. At(h, "activate", "license") \/ At(h, "activate", "use") => installed # "none"
  BY <1>1 DEF CallRole, At
<1> QED BY <1>1, <1>2, <1>3, <1>4, <1>5 DEF CallRole, Keeping

(* A used token has been issued, and no request but a handler's activates. *)
LEMMA RestKept ==
  ASSUME TypeOK, Holding, [Next]_vars,
         \A r \in Requests \ Calls : request'[r].op # "activate"
  PROVE  /\ \A r \in Requests \ Calls : request'[r].op # "activate"
         /\ \A t \in Tokens : tokens'[t].used => tokens'[t].issued
<1> SUFFICES ASSUME NEW t \in Tokens, tokens'[t].used PROVE tokens'[t].issued
  OBVIOUS
<1>1. /\ tokens[t].issued => tokens'[t].issued
      /\ tokens[t].used \/ \E r \in Requests : ActivateUse(r) /\ t = request[r].token
  BY CloudStep, TokensGrow DEF TypeOK
<1>2. ASSUME NEW r \in Requests, ActivateUse(r), t = request[r].token
      PROVE  tokens[t].issued
  <2>1. At(r, "activate", "use")
    BY <1>2 DEF ActivateUse
  <2>2. r \in Calls
    BY <2>1 DEF Holding, At
  <2>3. request[r].token = installed /\ tokens[installed].issued
    BY <2>1, <2>2 DEF Holding, CallRole, At
  <2> QED BY <1>2, <2>3
<1> QED BY <1>1, <1>2 DEF Holding

(* Every step of the two keeps what is said of handlers and licenses.      *)
LEMMA HoldingKept == TypeOK /\ Holding /\ [Next]_vars => Holding'
<1> SUFFICES ASSUME TypeOK, Holding, [Next]_vars PROVE Holding'
  OBVIOUS
<1> USE CallsAssumption
<1>a. \A r \in Requests \ Calls : request[r].op # "activate"
  BY DEF Holding
<1>b. env.license # 0 \/ disk.license # 0 => Consumed
  BY DEF Holding
<1>c. Consumed => Consumed'
  BY ConsumedStays
<1>d. DOMAIN request = Requests /\ DOMAIN call = Calls
  BY DEF TypeOK, CloudTypeOK
(* Steps that leave the requests of handlers and the appliance alone.      *)
<1>1. ASSUME installed' = installed, UNCHANGED <<env, disk>>,
             \A h \in Calls : /\ request'[h] = request[h]
                              /\ call'[h].at \in {call[h].at, "idle"},
             \A r \in Requests \ Calls : request'[r].op # "activate"
      PROVE  Holding'
  <2>1. \A h \in Calls : CallRole(h)'
    BY <1>1, RoleKept
  <2> QED BY <1>1, <1>b, <1>c, <2>1, RestKept DEF Holding
<1>2. CASE AdminCreate /\ CloudOnly
  BY <1>2, <1>1, <1>a DEF AdminCreate, CloudOnly, appliance
<1>3. ASSUME NEW r \in Requests \ Calls, Administer(r) \/ Sync(r) PROVE Holding'
  <2>1. CloudOnly
    BY <1>3 DEF Administer, Sync
  <2>2. \A h \in Calls : request'[h] = request[h]
    BY <1>3 DEF Administer, Sync, AdminStep, AdminRead, InstallPack, Suspend,
       Reactivate, ReissueLicense, SyncStep, SyncRead, Heartbeat, Counters,
       SyncArrives, SyncResolve, Respond, Answer, TypeOK, CloudTypeOK
  <2>3. \A q \in Requests : q # r => request'[q] = request[q]
    BY <1>3 DEF Administer, Sync, AdminStep, AdminRead, InstallPack, Suspend,
       Reactivate, ReissueLicense, SyncStep, SyncRead, Heartbeat, Counters,
       SyncArrives, SyncResolve, Respond, Answer, TypeOK, CloudTypeOK
  <2>4. request'[r].op # "activate"
    <3>1. CASE Respond(r)
      BY <3>1, <1>d DEF Respond, Idle
    <3>2. ASSUME NEW op \in {"counters", "heartbeat"}, NEW s,
                 SyncResolve(r, op, installed, s)
          PROVE  request'[r].op # "activate"
      BY <3>2, <1>d DEF SyncResolve, Idle
    <3>5. CASE SyncRead(r)
      BY <3>5, <1>a DEF SyncRead, TypeOK, CloudTypeOK, Handlers
    <3>6. CASE Heartbeat(r) \/ Counters(r)
      BY <3>6, <1>d DEF Heartbeat, Counters, Answer, Idle
    <3>3. CASE AdminRead(r)
      BY <3>3, <1>d, AdminOpsAssumption DEF AdminRead, Idle
    <3>4. CASE InstallPack(r) \/ Suspend(r) \/ Reactivate(r) \/ ReissueLicense(r)
      BY <3>4, <1>d DEF InstallPack, Suspend, Reactivate, ReissueLicense, Answer, Idle
    <3> QED BY <1>3, <3>1, <3>2, <3>3, <3>4, <3>5, <3>6
            DEF Administer, Sync, AdminStep, SyncArrives, SyncStep
  <2> QED BY <1>1, <1>a, <2>1, <2>2, <2>3, <2>4 DEF CloudOnly, appliance
<1>4. ASSUME NEW t \in Tokens, TimePasses(t) PROVE Holding'
  BY <1>4, <1>1, <1>a DEF TimePasses, Expire, CloudOnly, appliance
<1>5. ASSUME NEW h \in Calls, LoseConnection(h) \/ KeepFails(h) PROVE Holding'
  BY <1>5, <1>1, <1>a DEF LoseConnection, KeepFails, cloud, NoCall, TypeOK
<1>6. ASSUME NEW t \in Tokens, Install(t) PROVE Holding'
  <2>1. installed = "none" /\ ~Consumed /\ UNCHANGED <<cloud, env, disk, call>>
    BY <1>6 DEF Install, Consumed
  <2>2. ASSUME NEW h \in Calls PROVE CallRole(h)'
    <3>1. CallRole(h)
      BY DEF Holding
    <3>2. call[h].at = "idle" /\ request[h].op = "none" /\ request[h].key = 0
      BY <3>1, <2>1 DEF CallRole
    <3> QED BY <3>2, <2>1 DEF CallRole, At, Keeping, cloud
  <2> QED BY <2>1, <2>2, <1>a, <1>b, RestKept DEF Holding, cloud
<1>7. ASSUME NEW h \in Calls, Abandoned(h) PROVE Holding'
  <2>1. UNCHANGED <<installed, env, disk, call>> /\ request' = [request EXCEPT ![h] = Idle]
    BY <1>7 DEF Abandoned, Respond, CloudOnly, appliance
  <2>2. CallRole(h)'
    BY <2>1, <1>c, <1>d DEF Holding, CallRole, Keeping, At, Idle
  <2>3. \A g \in Calls : CallRole(g)'
    BY <2>1, <2>2, RoleKept DEF TypeOK, CloudTypeOK
  <2> QED BY <2>1, <2>3, <1>a, <1>b, <1>c, RestKept DEF Holding
<1>8. ASSUME NEW r \in Requests, CloudFails(r) PROVE Holding'
  <2>1. /\ UNCHANGED <<installed, env, disk, call>>
        /\ request' = [request EXCEPT ![r] = [Idle EXCEPT !.at = "answered", !.key = 0]]
    BY <1>8 DEF CloudFails, QueryFails, Answer
  <2>2. request'[r].op = "none" /\ request'[r].key = 0
    BY <2>1, <1>d DEF Idle
  <2>3. \A q \in Requests : q # r => request'[q] = request[q]
    BY <2>1, <1>d
  <2>4. ASSUME NEW h \in Calls PROVE CallRole(h)'
    <3>1. CASE h = r
      BY <3>1, <2>1, <2>2, <1>c DEF Holding, CallRole, Keeping, At
    <3>2. CASE h # r
      BY <3>2, <2>1, <2>3, RoleKept
    <3> QED BY <3>1, <3>2
  <2>5. \A q \in Requests \ Calls : request'[q].op # "activate"
    BY <2>2, <2>3, <1>a
  <2> QED BY <2>1, <2>4, <2>5, <1>b, <1>c, RestKept DEF Holding
<1>9. ASSUME NEW h \in Calls,
             Activate(h) \/ Deliver(h) \/ CloudActivates(h) \/ ReceiveLicense(h)
               \/ ReceiveRefusal(h) \/ Keep(h)
      PROVE  Holding'
  <2> DEFINE Rest == /\ \A g \in Calls : g # h => /\ request'[g] = request[g]
                                                  /\ call'[g].at = call[g].at
                     /\ \A r \in Requests \ Calls : request'[r] = request[r]
                     /\ installed' = installed
  <2>1. ASSUME Rest, CallRole(h)', env'.license # 0 \/ disk'.license # 0 => Consumed'
        PROVE  Holding'
    <3>1. \A g \in Calls : CallRole(g)'
      BY <2>1, RoleKept
    <3> QED BY <2>1, <3>1, <1>a, RestKept DEF Holding
  <2>2. CallRole(h)
    BY DEF Holding
  <2>3. CASE Activate(h)
    <3>1. Rest /\ UNCHANGED <<cloud, env, disk>>
      BY <2>3, <1>d DEF Activate, Goto, cloud
    <3>2. CallRole(h)'
      BY <2>3, <2>2, <1>c, <1>d DEF Activate, Goto, CallRole, At, Keeping, cloud
    <3> QED BY <2>1, <3>1, <3>2, <1>b, <1>c
  <2>4. CASE Deliver(h)
    <3>1. Rest /\ UNCHANGED <<tokens, env, disk>>
      BY <2>4, <1>d DEF Deliver, ActivateRead, Goto
    <3>2. /\ call'[h].at = "waiting" /\ installed # "none"
          /\ \/ request'[h].op = "activate" /\ request'[h].at = "token"
                /\ request'[h].token = installed
             \/ request'[h].op = "none"
          /\ request'[h].key = 0
      BY <2>4, <2>2, <1>d DEF Deliver, ActivateRead, Goto, CallRole, Idle, TypeOK
    <3>3. CallRole(h)'
      BY <3>1, <3>2 DEF CallRole, At, Keeping
    <3> QED BY <2>1, <3>1, <3>3, <1>b, <1>c
  <2>5. CASE CloudActivates(h)
    <3>1. UNCHANGED <<installed, env, disk, call>> /\ ActivateStep(h)
      BY <2>5 DEF CloudActivates, CloudOnly, appliance
    <3>2. Rest
      BY <3>1, <1>d DEF ActivateStep, ActivateToken, ActivateLicense, ActivateUse,
                        Proceed, Answer
    <3>3. request[h].op = "activate" /\ installed \in Tokens /\ request[h].token = installed
      BY <3>1, <2>2 DEF ActivateStep, ActivateToken, ActivateLicense, ActivateUse, At,
                        CallRole, TypeOK
    <3>4. ASSUME NEW key, Answer(h, key), key # 0 => Consumed' PROVE CallRole(h)'
      <4>1. request'[h].op = "none" /\ request'[h].key = key
        BY <3>4, <1>d DEF Answer, Idle
      <4> QED BY <3>1, <3>3, <3>4, <4>1, <2>2, <1>c DEF CallRole, At, Keeping
    <3>5. ASSUME NEW step, Proceed(h, step), UNCHANGED tokens, tokens[installed].issued
          PROVE  CallRole(h)'
      <4>0. request'[h] = [request[h] EXCEPT !.at = step]
        BY <3>5, <1>d DEF Proceed
      <4>1. /\ request'[h].op = request[h].op /\ request'[h].token = request[h].token
            /\ request'[h].key = request[h].key
        BY <4>0 DEF TypeOK, CloudTypeOK, Handlers
      <4> QED BY <3>1, <3>3, <3>5, <4>1, <2>2, <1>c DEF CallRole, Keeping
    <3>6. ASSUME ActivateToken(h) PROVE CallRole(h)'
      <4>1. UNCHANGED tokens
        BY <3>6 DEF ActivateToken
      <4>2. tokens[installed].used => Consumed'
        BY <3>1, <3>3, <4>1, <2>2 DEF Consumed, Holding, CallRole
      <4>3. CASE tokens[installed].issued /\ Proceed(h, "license")
        BY <3>5, <4>1, <4>3
      <4>4. CASE tokens[installed].used /\ Answer(h, keyPair)
        BY <3>4, <4>2, <4>4
      <4>5. CASE Answer(h, 0)
        BY <3>4, <4>5
      <4> QED BY <3>3, <3>6, <4>3, <4>4, <4>5 DEF ActivateToken
    <3>7. ASSUME ActivateLicense(h) PROVE CallRole(h)'
      <4>1. tokens[installed].issued
        BY <3>7, <2>2 DEF ActivateLicense, CallRole
      <4>2. Proceed(h, "use") /\ UNCHANGED tokens
        BY <3>7 DEF ActivateLicense
      <4> QED BY <3>5, <4>1, <4>2
    <3>8. ASSUME ActivateUse(h) PROVE CallRole(h)'
      <4>1. tokens[installed].issued
        BY <3>8, <2>2 DEF ActivateUse, CallRole
      <4>2. Consumed'
        <5>1. installed' \in Tokens /\ installed' # "none" /\ installed' = installed
          BY <3>1, <3>3, <3>8, <2>2 DEF CallRole
        <5>2. tokens' = [tokens EXCEPT ![installed].used = TRUE]
          BY <3>3, <3>8 DEF ActivateUse
        <5>3. tokens'[installed].used /\ tokens'[installed].issued
          BY <3>3, <4>1, <5>2 DEF TypeOK, CloudTypeOK
        <5> QED BY <5>1, <5>3 DEF Consumed
      <4> QED BY <3>4, <3>8, <4>2 DEF ActivateUse
    <3> QED BY <2>1, <3>1, <3>2, <3>6, <3>7, <3>8, <1>b, <1>c DEF ActivateStep
  <2>6. CASE ReceiveLicense(h)
    <3>1. /\ request[h].key # 0 /\ Consumed
          /\ request' = [request EXCEPT ![h] = Idle]
          /\ UNCHANGED <<installed, disk>>
      BY <2>6, <2>2 DEF ReceiveLicense, Respond, CallRole
    <3>2. ASSUME NEW g \in Calls, g # h PROVE call'[g].at = call[g].at
      <4>1. call'[g] = [call[g] EXCEPT !.alone = FALSE]
        BY <2>6, <3>2 DEF ReceiveLicense
      <4>2. call[g] \in Progress
        BY <3>2 DEF TypeOK
      <4> QED BY <4>1, <4>2 DEF Progress
    <3>3. CallRole(h)'
      BY <3>1, <1>c, <1>d DEF CallRole, At, Idle, Consumed
    <3> QED BY <2>1, <3>1, <3>2, <3>3, <1>c, <1>d
  <2>7. CASE ReceiveRefusal(h)
    <3>1. /\ request' = [request EXCEPT ![h] = Idle]
          /\ call' = [call EXCEPT ![h] = NoCall]
          /\ UNCHANGED <<installed, env, disk>>
      BY <2>7 DEF ReceiveRefusal, Respond
    <3>2. CallRole(h)'
      BY <3>1, <1>d DEF CallRole, At, Idle, NoCall, Keeping
    <3> QED BY <2>1, <3>1, <3>2, <1>b, <1>c, <1>d
  <2>8. CASE Keep(h)
    <3>1. Keeping(h) /\ Consumed
      BY <2>8, <2>2 DEF Keep, OpenLicense, WriteLicense, OpenKey, WriteKey, Keeping,
                        CallRole
    <3>2. Rest /\ UNCHANGED cloud
      BY <2>8, <1>d DEF Keep, OpenLicense, WriteLicense, OpenKey, WriteKey, Goto, cloud
    <3>3. CallRole(h)'
      BY <3>1, <3>2, <2>2, <1>c DEF CallRole, At, cloud, Consumed
    <3> QED BY <2>1, <3>1, <3>2, <3>3, <1>c
  <2> QED BY <1>9, <2>3, <2>4, <2>5, <2>6, <2>7, <2>8
<1>10. CASE Crash
  <2>1. /\ UNCHANGED <<cloud, installed, disk>> /\ env'.license = 0
        /\ \A h \in Calls : call'[h].at = "idle"
    BY <1>10 DEF Crash, Blank, NoCall
  <2>2. \A h \in Calls : CallRole(h)'
    BY <2>1, RoleKept DEF cloud
  <2> QED BY <2>1, <2>2, <1>a, <1>b, <1>c, RestKept DEF Holding, cloud
<1>11. CASE CloudRestart
  <2>1. /\ UNCHANGED <<installed, env, disk, tokens>>
        /\ request' = [r \in Requests |-> Idle]
        /\ \A h \in Calls : call'[h].at \in {call[h].at, "idle"}
    BY <1>11 DEF CloudRestart, Restart, NoCall
  <2>2. \A h \in Calls : CallRole(h)'
    BY <2>1, <1>c DEF Holding, CallRole, At, Idle, Keeping
  <2>3. \A r \in Requests : request'[r].op # "activate"
    BY <2>1 DEF Idle
  <2> QED BY <2>1, <2>2, <2>3, <1>b, <1>c, RestKept DEF Holding
<1>12. CASE UNCHANGED vars
  BY <1>12, <1>1, <1>a DEF vars, cloud, appliance
<1> QED BY <1>2, <1>3, <1>4, <1>5, <1>6, <1>7, <1>8, <1>9, <1>10, <1>11, <1>12 DEF Next

(* The strengthened invariant of the two.                                  *)
THEOREM Held == Spec => []AInv
<1>1. ActivationInit => AInv
  <2> SUFFICES ASSUME ActivationInit PROVE AInv
    OBVIOUS
  <2>a. /\ 0 \in 0..MaxKeys /\ 0 \in 0..Torn /\ 0 \in 0..MaxFaults
    BY BoundsAssumption, MaxFaultsAssumption DEF Torn
  <2>b. /\ env \in [license : 0..MaxKeys, publicKey : 0..MaxKeys]
        /\ disk \in [license : 0..Torn, publicKey : 0..Torn]
    BY <2>a DEF ActivationInit, Blank
  <2>c. call \in [Calls -> Progress]
    BY ProgressTyped, BoundsAssumption DEF ActivationInit, NoCall, Progress
  <2>1. TypeOK
    BY TypedInit, <2>a, <2>b, <2>c DEF ActivationInit, TypeOK
  <2>2. Holding
    BY CallsAssumption DEF ActivationInit, Init, Holding, CallRole, At, Idle, NoCall,
       Keeping, Blank
  <2> QED BY <2>1, <2>2 DEF AInv
<1>2. AInv /\ [Next]_vars => AInv'
  BY ApplianceTyped, HoldingKept DEF AInv
<1> QED BY <1>1, <1>2, PTL DEF Spec

(* Appliance and cloud keep their types: TypeOK.                           *)
THEOREM ApplianceIsTyped == Spec => []TypeOK
<1>1. AInv => TypeOK
  BY DEF AInv
<1> QED BY <1>1, Held, PTL

(* With an appliance that crashes, loses answers and retries, the cloud is *)
(* still the cloud: Activation implements ControlPlane.                    *)
THEOREM ImplementsCloud == Spec => CloudSpec
<1>1. ActivationInit => Init
  BY DEF ActivationInit
<1>2. AInv /\ [Next]_vars => [CloudNext]_cloud
  BY CloudStep DEF AInv
<1> QED BY <1>1, <1>2, Held, PTL DEF Spec, CloudSpec

(* So a lost answer can be asked for again: UsedTokenIsLicensed, here.     *)
THEOREM RetryFindsLicense == Spec => []UsedTokenIsLicensed
BY ImplementsCloud, UsedIsLicensed, PTL

(* An appliance with a license, or a trace of one, keeps its credential:   *)
(* LicensedCanReport.                                                      *)
THEOREM LicenseReports == Spec => []LicensedCanReport
<1>1. AInv => LicensedCanReport
  BY DEF AInv, Holding, Consumed, LicensedCanReport, Authenticates
<1> QED BY <1>1, Held, PTL
-----------------------------------------------------------------------------
(* Whoever writes the two files alone puts one license and its key there;  *)
(* whoever is overtaken, or overtakes, has damaged them until the next.    *)
Writing(h) ==
  Keeping(h) =>
    IF call[h].alone
    THEN /\ \A g \in Calls \ {h} : ~Keeping(g)
         /\ call[h].key \in 1..MaxKeys
         /\ call[h].at \in {"open key", "key"} => disk.license = call[h].key
    ELSE damaged

Surviving == LicenseSurvivesRestart /\ \A h \in Calls : Writing(h)

(* Steps of handlers that write nothing.                                   *)
LEMMA NobodyWrites ==
  ASSUME Surviving, UNCHANGED <<disk, kept, damaged>>,
         \A h \in Calls : /\ Keeping(h)' <=> Keeping(h)
                          /\ Keeping(h) => call'[h] = call[h]
  PROVE  Surviving'
<1>1. LicenseSurvivesRestart'
  BY DEF Surviving, LicenseSurvivesRestart, Verifies
<1>2. ASSUME NEW h \in Calls PROVE Writing(h)'
  BY <1>2 DEF Surviving, Writing
<1> QED BY <1>1, <1>2 DEF Surviving

LEMMA ReceivingKept == ASSUME TypeOK, Surviving, NEW h \in Calls, ReceiveLicense(h)
                       PROVE  Surviving'
<1> DEFINE key   == request[h].key
           alone == \A g \in Calls : ~Keeping(g)
<1>1. /\ key # 0 /\ call[h].at = "waiting"
      /\ call' = [g \in Calls |->
           IF g = h THEN [at |-> "open license", key |-> key, alone |-> alone]
           ELSE [call[g] EXCEPT !.alone = FALSE]]
      /\ damaged' = (damaged \/ ~alone) /\ UNCHANGED <<disk, kept>>
  BY DEF ReceiveLicense
<1>2. key \in 1..MaxKeys
  <2>1. request[h] \in Handlers
    BY CallsAssumption DEF TypeOK, CloudTypeOK
  <2>2. key \in 0..MaxKeys /\ MaxKeys \in Nat
    BY <2>1, BoundsAssumption DEF Handlers
  <2>3. key # 0
    BY <1>1
  <2> HIDE DEF key
  <2> QED BY <2>2, <2>3
<1>3. /\ call'[h].at = "open license" /\ call'[h].key = key /\ call'[h].alone = alone
      /\ Keeping(h)'
  BY <1>1 DEF Keeping
<1>4. ASSUME NEW g \in Calls, g # h
      PROVE  call'[g].at = call[g].at /\ call'[g].alone = FALSE
  <2>1. call[g] \in Progress /\ call'[g] = [call[g] EXCEPT !.alone = FALSE]
    BY <1>1, <1>4 DEF TypeOK
  <2> QED BY <2>1 DEF Progress
<1>5. LicenseSurvivesRestart'
  BY <1>3 DEF LicenseSurvivesRestart
<1>6. ASSUME NEW g \in Calls PROVE Writing(g)'
  <2>1. CASE g = h
    <3>1. alone => \A f \in Calls \ {h} : ~Keeping(f)'
      BY <1>4 DEF Keeping
    <3> QED BY <2>1, <3>1, <1>1, <1>2, <1>3 DEF Writing
  <2>2. CASE g # h
    <3>1. Keeping(g)' => ~alone
      BY <1>4, <2>2 DEF Keeping
    <3> QED BY <2>2, <3>1, <1>1, <1>4 DEF Writing
  <2> QED BY <2>1, <2>2
<1> QED BY <1>5, <1>6 DEF Surviving

LEMMA KeepKept == ASSUME TypeOK, Surviving, NEW h \in Calls, Keep(h) PROVE Surviving'
<1>1. Keeping(h) /\ Writing(h)
  BY DEF Keep, OpenLicense, WriteLicense, OpenKey, WriteKey, Keeping, Surviving
<1>2. \A g \in Calls : g # h => call'[g] = call[g]
  BY DEF Keep, OpenLicense, WriteLicense, OpenKey, WriteKey, Goto, TypeOK
<1>3. ASSUME NEW g \in Calls, g # h
      PROVE  (Keeping(g)' <=> Keeping(g)) /\ (call[h].alone => ~Keeping(g))
  BY <1>1, <1>2, <1>3 DEF Keeping, Writing
<1>4. call[h] \in Progress /\ DOMAIN call = Calls /\ DOMAIN disk = {"license", "publicKey"}
  BY DEF TypeOK
(* A file of the two is written, and the handler goes on.                  *)
<1>5. ASSUME NEW step \in {"license", "open key", "key"}, Goto(h, step),
             UNCHANGED <<kept, damaged>>,
             step \in {"open key", "key"} /\ call[h].alone => disk'.license = call[h].key
      PROVE  Surviving'
  <2>1. call'[h] = [call[h] EXCEPT !.at = step]
    BY <1>4, <1>5 DEF Goto
  <2>2. /\ call'[h].at = step /\ call'[h].key = call[h].key
        /\ call'[h].alone = call[h].alone /\ Keeping(h)'
    BY <1>4, <1>5, <2>1 DEF Progress, Keeping
  <2>3. LicenseSurvivesRestart'
    BY <2>2 DEF LicenseSurvivesRestart
  <2>4. Writing(h)'
    BY <1>1, <1>3, <1>5, <2>2 DEF Writing
  <2>5. ASSUME NEW g \in Calls, g # h PROVE Writing(g)'
    <3>1. Keeping(g)' => ~call[h].alone /\ damaged
      BY <1>1, <1>3, <2>5 DEF Writing
    <3>2. Keeping(g)' => ~call[g].alone
      BY <1>1, <1>3, <2>5 DEF Writing, Surviving
    <3> QED BY <1>2, <1>5, <2>5, <3>1, <3>2 DEF Writing
  <2> QED BY <2>3, <2>4, <2>5 DEF Surviving
<1>6. CASE OpenLicense(h)
  BY <1>5, <1>6 DEF OpenLicense
<1>7. CASE WriteLicense(h)
  BY <1>4, <1>5, <1>7 DEF WriteLicense
<1>8. CASE OpenKey(h)
  BY <1>1, <1>4, <1>5, <1>8 DEF OpenKey, Writing
<1>9. CASE WriteKey(h)
  <2>1. /\ call' = [call EXCEPT ![h] = NoCall] /\ damaged' = (damaged /\ ~call[h].alone)
        /\ disk' = [disk EXCEPT !.publicKey = call[h].key] /\ call[h].at = "key"
    BY <1>9 DEF WriteKey
  <2>2. ~Keeping(h)'
    BY <1>4, <2>1 DEF Keeping, NoCall
  <2>3. CASE call[h].alone
    <3>1. disk'.license = call[h].key /\ disk'.publicKey = call[h].key
          /\ call[h].key \in 1..MaxKeys
      BY <1>1, <1>4, <2>1, <2>3 DEF Writing
    <3>2. \A g \in Calls : ~Keeping(g)'
      BY <1>3, <2>2, <2>3
    <3> QED BY <3>1, <3>2 DEF Surviving, LicenseSurvivesRestart, Verifies, Writing
  <2>4. CASE ~call[h].alone
    <3>1. damaged'
      BY <1>1, <2>1, <2>4 DEF Writing
    <3>2. ASSUME NEW g \in Calls, Keeping(g)' PROVE ~call'[g].alone
      <4>1. g # h /\ Keeping(g)
        BY <1>3, <2>2, <3>2
      <4> QED BY <1>1, <1>2, <4>1 DEF Surviving, Writing
    <3> QED BY <3>1, <3>2 DEF Surviving, LicenseSurvivesRestart, Writing
  <2> QED BY <2>3, <2>4
<1> QED BY <1>6, <1>7, <1>8, <1>9 DEF Keep

(* A handler that gives up has damaged the files until the next is done.   *)
LEMMA GivingUpKept == ASSUME TypeOK, Surviving, NEW h \in Calls, KeepFails(h)
                      PROVE  Surviving'
<1>1. /\ call' = [call EXCEPT ![h] = NoCall] /\ damaged' = TRUE
      /\ DOMAIN call = Calls /\ Keeping(h)
  BY DEF KeepFails, TypeOK
<1>2. LicenseSurvivesRestart'
  BY <1>1 DEF LicenseSurvivesRestart
<1>3. ASSUME NEW g \in Calls PROVE Writing(g)'
  <2>1. CASE g = h
    BY <1>1, <2>1 DEF Writing, Keeping, NoCall
  <2>2. CASE g # h
    <3>1. call'[g] = call[g]
      BY <1>1, <2>2
    <3>2. Keeping(g) => ~call[g].alone
      BY <1>1, <2>2 DEF Surviving, Writing
    <3> QED BY <1>1, <3>1, <3>2 DEF Writing, Keeping
  <2> QED BY <2>1, <2>2
<1> QED BY <1>2, <1>3 DEF Surviving

LEMMA SurvivingKept == ASSUME TypeOK, Surviving, [Next]_vars PROVE Surviving'
<1>1. CASE \/ AdminCreate /\ CloudOnly
           \/ \E r \in Requests \ Calls : Administer(r) \/ Sync(r)
           \/ \E r \in Requests : CloudFails(r)
           \/ \E t \in Tokens : Install(t) \/ TimePasses(t)
           \/ \E h \in Calls : CloudActivates(h) \/ Abandoned(h)
           \/ UNCHANGED vars
  <2>1. UNCHANGED <<disk, call, kept, damaged>>
    BY <1>1 DEF CloudOnly, appliance, Administer, Sync, CloudFails, Install, TimePasses,
                CloudActivates, Abandoned, vars
  <2> QED BY <2>1, NobodyWrites DEF Keeping
<1>2. ASSUME NEW h \in Calls,
             Activate(h) \/ Deliver(h) \/ ReceiveRefusal(h) \/ LoseConnection(h)
      PROVE  Surviving'
  <2>1. ~Keeping(h) /\ UNCHANGED <<disk, kept, damaged>>
    BY <1>2 DEF Activate, Deliver, ReceiveRefusal, LoseConnection, Keeping
  <2>2. \A g \in Calls : g # h => call'[g] = call[g]
    BY <1>2 DEF Activate, Deliver, ReceiveRefusal, LoseConnection, Goto, TypeOK
  <2>3. ~Keeping(h)'
    <3>1. call[h] \in Progress /\ DOMAIN call = Calls
      BY DEF TypeOK
    <3>2. CASE \E step \in {"sent", "waiting"} : Goto(h, step)
      <4>1. PICK step \in {"sent", "waiting"} : call'[h] = [call[h] EXCEPT !.at = step]
        BY <3>1, <3>2 DEF Goto
      <4>2. call'[h].at = step
        BY <3>1, <4>1 DEF Progress
      <4> QED BY <4>2 DEF Keeping
    <3>3. CASE call' = [call EXCEPT ![h] = NoCall]
      BY <3>1, <3>3 DEF Keeping, NoCall
    <3> QED BY <1>2, <3>2, <3>3 DEF Activate, Deliver, ReceiveRefusal, LoseConnection
  <2> QED BY <2>1, <2>2, <2>3, NobodyWrites DEF Keeping
<1>3. CASE CloudRestart
  <2>1. /\ UNCHANGED <<disk, kept, damaged>>
        /\ \A h \in Calls : call'[h] = IF call[h].at = "waiting" THEN NoCall ELSE call[h]
    BY <1>3 DEF CloudRestart
  <2>2. ASSUME NEW h \in Calls
        PROVE  (Keeping(h)' <=> Keeping(h)) /\ (Keeping(h) => call'[h] = call[h])
    <3>1. CASE call[h].at = "waiting"
      <4>1. call'[h].at = "idle"
        BY <2>1, <3>1 DEF NoCall
      <4> QED BY <3>1, <4>1 DEF Keeping
    <3>2. CASE call[h].at # "waiting"
      BY <2>1, <3>2 DEF Keeping
    <3> QED BY <3>1, <3>2
  <2> QED BY <2>1, <2>2, NobodyWrites
<1>4. CASE Crash
  <2>1. /\ UNCHANGED <<disk, kept>> /\ \A h \in Calls : ~Keeping(h)'
        /\ damaged' = (damaged \/ \E h \in Calls : Keeping(h))
    BY <1>4 DEF Crash, Keeping, NoCall
  <2> QED BY <2>1 DEF Surviving, LicenseSurvivesRestart, Verifies, Writing
<1> QED BY <1>1, <1>2, <1>3, <1>4, ReceivingKept, KeepKept, GivingUpKept DEF Next

(* A license written to the end verifies under the key beside it, whenever *)
(* the appliance starts again (persistActivatedLicense): nothing but an    *)
(* interrupted, a failed or a shared writing can part the two files.       *)
THEOREM LicenseIsKept == Spec => []LicenseSurvivesRestart
<1>1. ActivationInit => Surviving
  <2> SUFFICES ASSUME ActivationInit PROVE Surviving
    OBVIOUS
  <2>1. kept = FALSE /\ \A h \in Calls : ~Keeping(h)
    BY DEF ActivationInit, Keeping, NoCall
  <2> QED BY <2>1 DEF Surviving, LicenseSurvivesRestart, Writing
<1>2. AInv /\ Surviving /\ [Next]_vars => Surviving'
  BY SurvivingKept DEF AInv
<1>3. Surviving => LicenseSurvivesRestart
  BY DEF Surviving
<1> QED BY <1>1, <1>2, <1>3, Held, PTL DEF Spec
=============================================================================
