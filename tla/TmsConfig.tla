----------------------------- MODULE TmsConfig ------------------------------
(***************************************************************************)
(* Configuring the connection to an HTTP TMS: under the lock of TmsLock, a *)
(* call of configureTmsHttpGeneration compares what is stored with what it *)
(* was given, and on a change writes a new credential revision, then the   *)
(* adapter's configuration, then the credentials, each by one rename.      *)
(* Then it probes the TMS and writes a receipt for revision and            *)
(* configuration.  Every error releases the lock; a crash releases nothing *)
(* and leaves the files as they are.                                       *)
(*                                                                         *)
(* Two writers of the same files take no lock: the choice of CSV files for *)
(* the TMS overwrites the configuration, and updateAllowedEnv of another   *)
(* phase reads client.env and later renames what it read, with its own     *)
(* keys changed, over it.                                                  *)
(*                                                                         *)
(* A key stands for base URL and token.  The receipt of the code has the   *)
(* base URL of the key that was probed; here it has the key.  The three    *)
(* reads of the comparison are one step, and the two of prepareProbe.      *)
(***************************************************************************)
EXTENDS TmsLock

CONSTANTS Keys,        \* credentials: base URL and token
          Configs,     \* contents of tms-adapter.yaml with an HTTP provider
          Contract,    \* the contract a configuration declares
          Wants,       \* what a call may be given: key and configuration
          Writers,     \* calls of updateAllowedEnv in other phases
          MaxImports   \* bound on choices of CSV files

NoKey    == "no key"
NoConfig == "no file"
Files    == "file_import"
Torn     == "truncated"

ASSUME ConfigsAssumption ==
  /\ Configs \cap {NoConfig, Files, Torn} = {} /\ NoKey \notin Keys
  /\ Wants \subseteq [key : Keys, config : Configs]
  /\ MaxImports \in Nat

VARIABLES
  want,      \* what each call was given
  revision,  \* tms-credential-revision, 0 for none
  adapter,   \* tms-adapter.yaml
  env,       \* the TMS credentials in client.env
  receipt,   \* tms-probe.json, of revision 0 for none
  target,    \* the revision a call in the lock is working for
  probed,    \* the configuration a call's probe has read
  copy,      \* the credentials an unlocked writer has read
  imports,   \* choices of CSV files so far
  undone     \* history: an unlocked writer brought credentials back

files == <<revision, adapter, env, receipt>>
kept == <<want, target, probed, copy, imports, undone>>
vars  == <<lock, files, kept>>

Nothing   == [key |-> NoKey, config |-> NoConfig]
NoReceipt == [revision |-> 0, config |-> NoConfig, key |-> NoKey]
Idle      == "idle"
Holders   ==
  {"holding", "revise", "adapt", "expose", "probe", "probed", "release",
   "fail"}

Init ==
  /\ LockInit
  /\ revision = 0 /\ receipt = NoReceipt
  /\ adapter = NoConfig /\ env = NoKey
  /\ want = [c \in Calls |-> Nothing]
  /\ target = [c \in Calls |-> 0] /\ probed = [c \in Calls |-> NoConfig]
  /\ copy = [w \in Writers |-> Idle]
  /\ imports = 0 /\ undone = FALSE

-----------------------------------------------------------------------------
(* A call in the lock                                                      *)

Changed(c) ==
  revision < 1 \/ env # want[c].key \/ adapter # want[c].config

(* Mutant: new credentials alone are no new generation.                    *)
BumpForConfig(c) ==
  IF revision < 1 \/ adapter # want[c].config THEN revision + 1 ELSE revision

NextRevision(c) == IF Changed(c) THEN revision + 1 ELSE revision

Compare(c) ==
  /\ At(c, {"holding"})
  /\ target' = [target EXCEPT ![c] = NextRevision(c)]
  /\ Goto(c, IF Changed(c) THEN "revise" ELSE "probe")
  /\ UNCHANGED <<choosing, ticket, mine, seen, alive, files, want, probed,
                 copy, imports, undone>>

Revise(c) ==
  /\ At(c, {"revise"}) /\ Goto(c, "adapt")
  /\ revision' = target[c]
  /\ UNCHANGED <<choosing, ticket, mine, seen, alive, adapter, env, receipt,
                 kept>>

Adapt(c) ==
  /\ At(c, {"adapt"}) /\ Goto(c, "expose")
  /\ adapter' = want[c].config
  /\ UNCHANGED <<choosing, ticket, mine, seen, alive, revision, env, receipt,
                 kept>>

Expose(c) ==
  /\ At(c, {"expose"}) /\ Goto(c, "probe")
  /\ env' = want[c].key /\ undone' = FALSE
  /\ UNCHANGED <<choosing, ticket, mine, seen, alive, revision, adapter,
                 receipt, want, target, probed, copy, imports>>

(* prepareProbe takes the hash of the configuration it finds, which must   *)
(* declare the contract of the probe.                                      *)
Conforms(c) ==
  adapter \in Configs /\ Contract[adapter] = Contract[want[c].config]

Probe(c) ==
  /\ At(c, {"probe"}) /\ Goto(c, "probed")
  /\ Conforms(c)
  /\ probed' = [probed EXCEPT ![c] = adapter]
  /\ UNCHANGED <<choosing, ticket, mine, seen, alive, files, want, target,
                 copy, imports, undone>>

Reject(c) ==
  /\ At(c, {"probe"}) /\ ~Conforms(c) /\ Goto(c, "fail")
  /\ UNCHANGED <<choosing, ticket, mine, seen, alive, files, kept>>

PersistReceipt(c) ==
  /\ At(c, {"probed"}) /\ Goto(c, "release")
  /\ receipt' = [revision |-> target[c], config |-> probed[c],
                 key |-> want[c].key]
  /\ UNCHANGED <<choosing, ticket, mine, seen, alive, revision, adapter, env,
                 kept>>

(* A write fails, the TMS does not answer as it should, or the deadline    *)
(* has passed.                                                             *)
Throw(c) ==
  /\ At(c, Holders \ {"release", "fail"}) /\ Goto(c, "fail")
  /\ UNCHANGED <<choosing, ticket, mine, seen, alive, files, kept>>

Release(c) ==
  /\ \/ At(c, {"release"}) /\ DropTicket(c, "done")
     \/ At(c, {"fail"}) /\ DropTicket(c, "failed")
  /\ UNCHANGED <<files, kept>>

-----------------------------------------------------------------------------
(* Writers without the lock                                                *)

ReadEnv(w) ==
  /\ copy[w] = Idle /\ copy' = [copy EXCEPT ![w] = env]
  /\ UNCHANGED <<lock, files, want, target, probed, imports, undone>>

RenameEnv(w) ==
  /\ copy[w] # Idle /\ copy' = [copy EXCEPT ![w] = Idle]
  /\ env' = copy[w] /\ undone' = (undone \/ copy[w] # env)
  /\ UNCHANGED <<lock, revision, adapter, receipt, want, target, probed,
                 imports>>

TruncateAdapter ==
  /\ imports < MaxImports /\ imports' = imports + 1
  /\ adapter' = Torn
  /\ UNCHANGED <<lock, revision, env, receipt, want, target, probed, copy,
                 undone>>

FillAdapter ==
  /\ adapter = Torn /\ adapter' = Files
  /\ UNCHANGED <<lock, revision, env, receipt, kept>>

-----------------------------------------------------------------------------
(* What a call does until it ends, unless it gives up or throws.           *)
Work(c) ==
  \/ LockStep(c) /\ UNCHANGED <<files, kept>>
  \/ Compare(c) \/ Revise(c) \/ Adapt(c) \/ Expose(c)
  \/ Probe(c) \/ Reject(c) \/ PersistReceipt(c) \/ Release(c)

Start(c) ==
  /\ Choose(c)
  /\ \E w \in Wants : want' = [want EXCEPT ![c] = w]
  /\ UNCHANGED <<files, target, probed, copy, imports, undone>>

Fail(c)  == (GiveUp(c) /\ UNCHANGED <<files, kept>>) \/ Throw(c)

Next ==
  \/ \E c \in Calls : Start(c) \/ Work(c) \/ Fail(c)
  \/ \E p \in Procs : Crash(p) /\ UNCHANGED <<files, kept>>
  \/ \E w \in Writers : ReadEnv(w) \/ RenameEnv(w)
  \/ TruncateAdapter \/ FillAdapter

(* The file system and the TMS answer, the latter by its deadline, and a   *)
(* timer drives the waiting loop.                                          *)
Fairness == \A c \in Calls : WF_vars(Work(c))

Spec == Init /\ [][Next]_vars /\ Fairness
-----------------------------------------------------------------------------
(* Every variable of lock and files has a value of its kind.               *)
TypeOK ==
  /\ at \in [Calls -> {"start"} \union Choosers \union Waiters \union Quitters
                        \union Holders \union Ended]
  /\ choosing \subseteq Calls /\ alive \subseteq Procs
  /\ ticket \in [Calls -> Nat] /\ mine \in [Calls -> Nat]
  /\ seen \in [Calls -> SUBSET Calls]
  /\ want \in [Calls -> Wants \union {Nothing}]
  /\ revision \in Nat /\ target \in [Calls -> Nat]
  /\ adapter \in Configs \union {NoConfig, Files, Torn}
  /\ env \in Keys \union {NoKey}
  /\ receipt \in [revision : Nat, config : Configs \union {NoConfig},
                   key : Keys \union {NoKey}]
  /\ probed \in [Calls -> Configs \union {NoConfig}]
  /\ copy \in [Writers -> Keys \union {NoKey, Idle}]
  /\ imports \in 0..MaxImports /\ undone \in BOOLEAN

(* One call at a time changes the connection, whoever crashes or gives up  *)
(* in whichever order (acquireTmsConfigLock).  The lock promises this to   *)
(* processes that see each other.                                          *)
MutualExclusion ==
  \A c, d \in Calls : At(c, Holders) /\ At(d, Holders) => c = d

(* hasMatchingTmsProbeReceipt, with the revision isTmsPhaseComplete reads. *)
HttpReady ==
  /\ adapter \in Configs /\ revision >= 1
  /\ receipt.revision = revision /\ receipt.config = adapter

(* While the receipt matches, the stored credentials are those that were   *)
(* probed: no crash or error between the renames, and no second call, lets *)
(* credentials that were never tried pass for validated ones, unless a     *)
(* writer without the lock has brought old ones back.                      *)
ReadyMeansProbed == HttpReady /\ ~undone => env = receipt.key

(* A connection that is not ready becomes ready by a new receipt only:     *)
(* what was once invalidated is never valid again by writing an old        *)
(* configuration back ("The revision is the invalidation record").         *)
OnlyReceiptsMakeReady ==
  [][~HttpReady /\ HttpReady' => receipt' # receipt]_vars

(* A call that waits in a running process gets its turn or gives up: who   *)
(* crashed before it or failed holds nobody up.                            *)
WaitersAreServed ==
  \A c \in Calls :
    At(c, Waiters) ~> ~Runs(c) \/ At(c, Holders \union Quitters \union Ended)
=============================================================================
