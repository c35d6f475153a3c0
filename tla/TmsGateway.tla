------------------------------ MODULE TmsGateway ------------------------------
(***************************************************************************)
(* The tools' way to the client's TMS: an adapter (CSV files, the client's *)
(* own SQL, or HTTP) behind a cache of two tiers, Redis in front of a SQL  *)
(* table.  Both survive the process.  The adapter is made at its first use *)
(* and remembered, made or failed, until the process ends; callers that    *)
(* come before it is there each make one, and the last one made stays.     *)
(*                                                                         *)
(* A read answers what the TMS said at some moment: here, a version of its *)
(* content.  An entity that the connection has no path or query for is     *)
(* answered with nothing.  A CSV export is written in place, so every      *)
(* other version of files is half an export.                               *)
(*                                                                         *)
(* A batch of quotes is written back lane by lane, by the graph's node or  *)
(* the legacy one.  A record is known by its attempt and its lane.  The    *)
(* agent's configuration allows these tools: one that it does not allow    *)
(* throws before anything here is reached.                                 *)
(*                                                                         *)
(* A tick is longer than a file is read or the HTTP timeout; a SQL query   *)
(* has no timeout.  A cache entry's key has the entity, and nothing of the *)
(* connection it was read through.                                         *)
(***************************************************************************)
EXTENDS Naturals, Sequences, FiniteSets

CONSTANTS
  Connection,   \* names of what tms-adapter.yaml may say, to its kind,
                \* system, the entities it reads, and whether it writes
  Systems,      \* the TMSs they lead to
  Entities,     \* what is read
  Ttl,          \* of an entity, 0 where it is never cached
  Lanes,        \* a sequence: the lanes of a batch
  Callers,
  Setups        \* what surrounds the process, see setup

Unloaded == "unloaded"
Rejected == "rejected"
Nothing  == "nothing"

ASSUME ConnectionAssumption ==
  /\ Connection \in [DOMAIN Connection ->
                       [kind : {"file_import", "sql", "http"}, system : Systems,
                        reads : SUBSET Entities, writes : BOOLEAN]]
  /\ DOMAIN Connection \cap {Unloaded, Rejected} = {}
  /\ Ttl \in [Entities -> Nat]
ASSUME CallersAssumption == IsFiniteSet(Callers)
ASSUME SetupsAssumption ==
  \A s \in Setups : /\ s.connections \cup {s.first} \subseteq DOMAIN Connection
                    /\ s.reads \subseteq Entities

VARIABLES
  setup,     \* first, the connection at first; connections, those that are set
             \* up in turn; reads, the entities that are asked for; tiers, what
             \* the environment names; bounds on ticks, changes (of a system),
             \* calls, faults, switches and restarts
  clock,
  changed,   \* of a system, the times its content changed, in order
  settings,  \* the connection that tms-adapter.yaml and the environment give
  adapter,   \* what the process remembers of the adapter
  tiers,     \* of the tiers that are named, those the process reached
  cache,     \* entries of each tier
  call,
  calls, faults, switches, restarts,
  asked,     \* of a connection, when it last answered a read
  tail,      \* of a system, whether its write-back file ends within a line
  recorded,  \* quotes a system can be asked about: <<attempt, lane>>
  reported,  \* history: quotes that were called written or queued
  cuts       \* history: how often an append was cut short

systems == <<changed, asked, tail, recorded>>
ghost   == <<reported, cuts>>
gateway == <<setup, clock, changed, settings, adapter, tiers, cache, call, calls,
             faults, switches, restarts, asked, tail, recorded, reported, cuts>>

TierNames == {"fast", "durable"}
IsWrite(c) == call[c].op = "write"
Idle == [pc |-> "idle", op |-> "read"]

GatewayInit ==
  /\ setup \in Setups
  /\ clock = 0
  /\ changed = [s \in Systems |-> <<>>]
  /\ settings = setup.first
  /\ adapter = Unloaded
  /\ tiers \in SUBSET setup.tiers
  /\ cache = [t \in TierNames |-> {}]
  /\ call = [c \in Callers |-> Idle]
  /\ calls = 0 /\ faults = 0 /\ switches = 0 /\ restarts = 0
  /\ asked = [k \in DOMAIN Connection |-> 0]
  /\ tail = [s \in Systems |-> FALSE]
  /\ recorded = {} /\ reported = {} /\ cuts = 0

-----------------------------------------------------------------------------
(* Calls                                                                   *)

At(c, pc)    == call[c].pc = pc
UnderWay(c)  == call[c].pc \notin {"idle", "done", "failed"}
Becomes(c, r) == call' = [call EXCEPT ![c] = r]
Go(c, pc)    == Becomes(c, [call[c] EXCEPT !.pc = pc])
Via(c)       == Connection[call[c].via]
Fault        == faults < setup.faults /\ faults' = faults + 1
Process      == UNCHANGED <<settings, adapter, tiers, setup>>
Count        == UNCHANGED <<clock, calls, switches, restarts>>

Read(c) ==
  /\ ~ UnderWay(c)
  /\ calls < setup.calls /\ calls' = calls + 1
  /\ \E e \in setup.reads :
       Becomes(c, [pc |-> "adapter", op |-> "read", entity |-> e, via |-> Unloaded,
                   answer |-> Nothing, at |-> clock])
  /\ Process
  /\ UNCHANGED <<clock, cache, faults, switches, restarts, systems, ghost>>

(* writebackNode.  What needs an approval does not come here.              *)
Writeback(c) ==
  /\ ~ UnderWay(c)
  /\ calls < setup.calls /\ calls' = calls + 1
  /\ \E engine \in {"agent", "legacy"} :
       Becomes(c, [pc |-> "adapter", op |-> "write", engine |-> engine,
                   attempt |-> calls, todo |-> Lanes, via |-> Unloaded,
                   status |-> <<>>])
  /\ Process
  /\ UNCHANGED <<clock, cache, faults, switches, restarts, systems, ghost>>

(* tmsAdapterPromise ??= ...(await runtimeCache()): the test comes before  *)
(* the await, the assignment after it.                                     *)
Remembered(c) ==
  /\ At(c, "adapter") /\ adapter \notin {Unloaded, Rejected}
  /\ Becomes(c, [call[c] EXCEPT !.via = adapter,
                                !.pc = IF IsWrite(c) THEN "write" ELSE "get"])
  /\ Process /\ Count /\ UNCHANGED <<cache, faults, systems, ghost>>

NotYet(c) ==
  /\ At(c, "adapter") /\ adapter = Unloaded /\ Go(c, "make")
  /\ Process /\ Count /\ UNCHANGED <<cache, faults, systems, ghost>>

Make(c) ==
  /\ At(c, "make")
  /\ adapter' = settings
  /\ Becomes(c, [call[c] EXCEPT !.via = settings,
                                !.pc = IF IsWrite(c) THEN "write" ELSE "get"])
  /\ UNCHANGED <<settings, tiers, setup>>
  /\ Count /\ UNCHANGED <<cache, faults, systems, ghost>>

-----------------------------------------------------------------------------
(* Write-back                                                              *)

Successful == {"written", "queued"}

(* The lane came back with a status, or threw.  The graph's node lets what *)
(* is thrown end the run and looks at no status; the legacy node notes     *)
(* either and goes on, and says completed if all statuses are successful.  *)
Returned(c, status) ==
  LET statuses == Append(call[c].status, status)
      last == Len(call[c].todo) = 1
  IN  Becomes(c, [call[c] EXCEPT
        !.status = statuses, !.todo = Tail(@), !.via = Unloaded,
        !.pc = IF ~ last THEN "adapter"
               ELSE IF \/ call[c].engine = "agent"
                       \/ \A i \in DOMAIN statuses : statuses[i] \in Successful
                    THEN "done" ELSE "failed"])

Threw(c) ==
  IF call[c].engine = "agent" THEN Go(c, "failed") ELSE Returned(c, "failed")

Quote(c) == <<call[c].attempt, Head(call[c].todo)>>
Reports(c, status) ==
  /\ reported' = IF status \in Successful THEN reported \cup {Quote(c)}
                 ELSE reported
  /\ Returned(c, status)

NoAdapter(c) ==
  /\ IF IsWrite(c) THEN Threw(c) ELSE Go(c, "failed")
  /\ Count /\ UNCHANGED <<settings, tiers, setup, cache, systems, ghost>>

(* The file, a variable, a header or the driver's first connection.        *)
CannotMake(c) == At(c, "make") /\ Fault /\ adapter' = Rejected /\ NoAdapter(c)

FailedBefore(c) ==
  /\ At(c, "adapter") /\ adapter = Rejected
  /\ NoAdapter(c) /\ UNCHANGED <<adapter, faults>>

Writing(c, kind) == At(c, "write") /\ Via(c).kind = kind

(* No path and no endpoint throw, no SQL statement is a status.            *)
NotWired(c) ==
  /\ At(c, "write") /\ ~ Via(c).writes
  /\ IF Via(c).kind = "sql" THEN Returned(c, "unsupported_write") ELSE Threw(c)
  /\ Process /\ Count /\ UNCHANGED <<cache, faults, systems, ghost>>

(* A line is appended at the end, wherever the end is: what follows half a *)
(* line is part of it.                                                     *)
AppendLine(s, quote) ==
  /\ recorded' = IF tail[s] THEN recorded ELSE recorded \cup {<<s, quote>>}
  /\ tail' = [tail EXCEPT ![s] = FALSE]

WriteFile(c) ==
  /\ Writing(c, "file_import") /\ Via(c).writes
  /\ AppendLine(Via(c).system, Quote(c))
  /\ Reports(c, "queued")
  /\ Process /\ Count /\ UNCHANGED <<cache, faults, changed, asked, cuts>>

(* Mutant: the result does not wait for the append.                        *)
ReportAnyway(c) ==
  /\ Writing(c, "file_import") /\ Via(c).writes /\ Fault
  /\ tail' = [tail EXCEPT ![Via(c).system] = TRUE] /\ cuts' = cuts + 1
  /\ Reports(c, "queued")
  /\ Process /\ Count /\ UNCHANGED <<cache, changed, asked, recorded>>

(* The disk is full: some of the line is there, and the call throws.       *)
WriteFileFails(c) ==
  /\ Writing(c, "file_import") /\ Via(c).writes /\ Fault
  /\ tail' = [tail EXCEPT ![Via(c).system] = TRUE] /\ cuts' = cuts + 1
  /\ Threw(c)
  /\ Process /\ Count /\ UNCHANGED <<cache, changed, asked, recorded, reported>>

(* SQL has written when the statement ends; an HTTP server says itself.    *)
WriteSql(c) ==
  /\ Writing(c, "sql") /\ Via(c).writes
  /\ recorded' = recorded \cup {<<Via(c).system, Quote(c)>>}
  /\ Reports(c, "written")
  /\ Process /\ Count /\ UNCHANGED <<cache, faults, changed, asked, tail, cuts>>

WriteHttp(c) ==
  /\ Writing(c, "http") /\ Via(c).writes
  /\ \/ /\ recorded' = recorded \cup {<<Via(c).system, Quote(c)>>}
        /\ Reports(c, "written")
     \/ Reports(c, "rejected") /\ UNCHANGED recorded
  /\ Process /\ Count /\ UNCHANGED <<cache, faults, changed, asked, tail, cuts>>

(* An error, or no answer in time: the TMS may have the quote or not.      *)
WriteUnanswered(c) ==
  /\ recorded' \in {recorded, recorded \cup {<<Via(c).system, Quote(c)>>}}
  /\ Threw(c)
  /\ Process /\ Count /\ UNCHANGED <<cache, faults, changed, asked, tail, ghost>>

WriteSqlFails(c)  == Writing(c, "sql")  /\ Via(c).writes /\ WriteUnanswered(c)
WriteHttpFails(c) == Writing(c, "http") /\ Via(c).writes /\ WriteUnanswered(c)

-----------------------------------------------------------------------------
(* Reads                                                                   *)

Entity(c) == call[c].entity
IsCached(c) == Ttl[Entity(c)] > 0 /\ tiers # {}
Answered(c, answer) ==
  Becomes(c, [call[c] EXCEPT !.answer = answer, !.at = clock, !.via = Unloaded,
                                !.pc = "done"])

(* Mutant: expiry is not looked at.                                        *)
Kept(tier, e) == {x \in cache[tier] : tier \in tiers /\ x.entity = e}

Live(tier, e) ==
  {x \in cache[tier] : tier \in tiers /\ x.entity = e /\ clock < x.expires}

GetHit(c) ==
  /\ At(c, "get") /\ IsCached(c)
  /\ \E x \in IF Live("fast", Entity(c)) # {} THEN Live("fast", Entity(c))
              ELSE Live("durable", Entity(c)) :
       Answered(c, x.answer)
  /\ Process /\ Count /\ UNCHANGED <<cache, faults, systems, ghost>>

(* Any error of a tier is a miss.  The durable tier drops what expired.    *)
GetMiss(c) ==
  /\ At(c, "get") /\ Go(c, "load")
  /\ cache' = [cache EXCEPT !.durable =
       {x \in @ : x.entity = Entity(c) /\ "durable" \in tiers => clock < x.expires}]
  /\ Process /\ Count /\ UNCHANGED <<faults, systems, ghost>>

(* What the connection says now: of an entity it does not read, nothing.   *)
Said(k, e) ==
  [from |-> k, found |-> e \in Connection[k].reads,
   version |-> Len(changed[Connection[k].system]),
   loaded |-> clock, stored |-> clock]

Loads(c) ==
  /\ asked' = [asked EXCEPT ![call[c].via] = clock]
  /\ IF IsCached(c)
     THEN Becomes(c, [call[c] EXCEPT !.answer = Said(call[c].via, Entity(c)),
                                     !.pc = "store"])
     ELSE Answered(c, Said(call[c].via, Entity(c)))
  /\ Process /\ Count /\ UNCHANGED <<cache, faults, changed, tail, recorded, ghost>>

LoadFrom(c, kind) == At(c, "load") /\ Via(c).kind = kind

LoadFile(c) == LoadFrom(c, "file_import") /\ Loads(c)
LoadSql(c)  == LoadFrom(c, "sql")  /\ Loads(c)
LoadHttp(c) == LoadFrom(c, "http") /\ Loads(c)

LoadEnds(c) ==
  Go(c, "failed") /\ Process /\ Count /\ UNCHANGED <<cache, faults, systems, ghost>>

(* The export cannot be opened, is not CSV, or a row misses a field.       *)
LoadFileFails(c) ==
  LoadFrom(c, "file_import") /\ Entity(c) \in Via(c).reads /\ LoadEnds(c)

(* The database's error, or a row that is not of the schema.               *)
LoadSqlFails(c) ==
  LoadFrom(c, "sql") /\ Entity(c) \in Via(c).reads /\ LoadEnds(c)

(* Mutant: a server that is asked may take the time it likes.              *)
LoadHttpWaits(c) ==
  LoadFrom(c, "http") /\ Entity(c) \notin Via(c).reads /\ LoadEnds(c)

(* A status, a body that is not JSON or of the schema, or no answer within *)
(* timeoutMs.                                                              *)
LoadHttpFails(c) == LoadFrom(c, "http") /\ LoadEnds(c)

(* Each tier takes the entry or fails to; the durable one may fail between *)
(* its DELETE and its INSERT.                                              *)
Outcomes(tier, entry) ==
  LET others == {x \in cache[tier] : x.entity # entry.entity}
  IN  {cache[tier]} \cup
      (IF tier \notin tiers THEN {}
       ELSE {others \cup {entry}} \cup (IF tier = "durable" THEN {others} ELSE {}))

Store(c) ==
  /\ At(c, "store")
  /\ LET answer == [call[c].answer EXCEPT !.stored = clock]
         entry  == [entity |-> Entity(c), answer |-> answer,
                    expires |-> clock + Ttl[Entity(c)]]
     IN  /\ \E f \in Outcomes("fast", entry), d \in Outcomes("durable", entry) :
              cache' = [fast |-> f, durable |-> d]
         /\ Answered(c, answer)
  /\ Process /\ Count /\ UNCHANGED <<faults, systems, ghost>>

-----------------------------------------------------------------------------
(* What surrounds the process                                              *)

Tick ==
  /\ clock < setup.ticks /\ clock' = clock + 1
  /\ \A c \in Callers : call[c].pc \in {"load", "store", "write"}
                          => Via(c).kind = "sql"
  /\ Process
  /\ UNCHANGED <<cache, call, calls, faults, switches, restarts, systems, ghost>>

Change(s) ==
  /\ \E k \in setup.connections : Connection[k].system = s
  /\ Len(changed[s]) < setup.changes
  /\ changed' = [changed EXCEPT ![s] = Append(@, clock)]
  /\ Process /\ Count
  /\ UNCHANGED <<cache, call, faults, asked, tail, recorded, ghost>>

Switch ==
  /\ switches < setup.switches /\ switches' = switches + 1
  /\ settings' \in setup.connections \ {settings}
  /\ UNCHANGED <<setup, clock, adapter, tiers, cache, call, calls, faults, restarts,
                 systems, ghost>>

(* The process ends, and the files that it was appending to may be left    *)
(* within a line.                                                          *)
Appended ==
  {Via(c).system : c \in {d \in Callers : Writing(d, "file_import") /\ Via(d).writes}}

Restart ==
  /\ restarts < setup.restarts /\ restarts' = restarts + 1
  /\ adapter' = Unloaded
  /\ tiers' \in SUBSET setup.tiers
  /\ call' = [c \in Callers |-> IF UnderWay(c) THEN Idle ELSE call[c]]
  /\ \E cut \in SUBSET Appended :
       /\ tail' = [s \in Systems |-> IF s \in cut THEN TRUE ELSE tail[s]]
       /\ cuts' = cuts + Cardinality(cut)
  /\ UNCHANGED <<setup, clock, settings, cache, calls, faults, switches, changed,
                 asked, recorded, reported>>

InSql(c) == call[c].pc \in {"load", "write"} /\ Via(c).kind = "sql"

(* What comes about without anybody outside the process and its files.     *)
Own(c) ==
  \/ Remembered(c) \/ NotYet(c) \/ Make(c) \/ CannotMake(c) \/ FailedBefore(c)
  \/ NotWired(c) \/ WriteFile(c) \/ WriteHttpFails(c)
  \/ GetHit(c) \/ GetMiss(c) \/ Store(c)
  \/ LoadFile(c) \/ LoadFileFails(c) \/ LoadHttpFails(c)

Other(c) ==
  \/ Read(c) \/ Writeback(c)
  \/ WriteFileFails(c) \/ WriteSql(c) \/ WriteSqlFails(c) \/ WriteHttp(c)
  \/ LoadSql(c) \/ LoadSqlFails(c) \/ LoadHttp(c)

GatewayNext ==
  \/ \E c \in Callers : Own(c) \/ Other(c)
  \/ Tick \/ (\E s \in Systems : Change(s)) \/ Switch \/ Restart

(* The steps of calls that are under way are finitely many: fairness to    *)
(* all of them together leaves none behind.                                *)
GatewaySpec ==
  GatewayInit /\ [][GatewayNext]_gateway /\ WF_gateway(\E c \in Callers : Own(c))

-----------------------------------------------------------------------------
(* An answer outlives neither what the TMS said nor the connection that    *)
(* said it by more than the entity's time to live and the time the load    *)
(* itself took: not through a restart, a change of the TMS, a tier that    *)
(* missed a write, or half an export that a reader met.  Entities that are *)
(* never cached are answered as they are.  (CachedTmsAdapter, the tiers)   *)
AnswersExpire ==
  \A c \in Callers : ~ IsWrite(c) /\ At(c, "done") =>
    LET a     == call[c].answer
        spare == Ttl[Entity(c)] + (a.stored - a.loaded)
        times == changed[Connection[a.from].system]
    IN  /\ call[c].at <= asked[a.from] + spare
        /\ a.found /\ a.version < Len(times)
             => call[c].at <= times[a.version + 1] + spare

(* A quote that was called written or queued is there, and each append     *)
(* that the disk or a crash cut short costs at most one of them: the one   *)
(* that was appended to the cut line.  (writeQuoteResult, appendJsonLine)  *)
LostAtMostOnce ==
  Cardinality({q \in reported : \A s \in Systems : <<s, q>> \notin recorded})
    <= cuts

(* A call through files or HTTP ends, whatever the TMS does, the process   *)
(* that waits and the caches.  A SQL query may hang.  (HttpTmsAdapter's    *)
(* timeout)                                                                *)
CallsEnd == \A c \in Callers : UnderWay(c) ~> ~ UnderWay(c) \/ InSql(c)
==============================================================================
