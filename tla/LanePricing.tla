----------------------------- MODULE LanePricing -----------------------------
(***************************************************************************)
(* The tools that price a lane, as lanes of one or several runs use them   *)
(* at the same time: the agent graph fans its lanes out, and mails and     *)
(* requests start runs that know nothing of one another.                   *)
(*                                                                         *)
(* A route is looked up in the cache in front (Redis over SQL, which       *)
(* answer as one here and may lose an entry at any write), then in         *)
(* route-cache.json, and then asked of SAKBE, once for each direction.     *)
(* The rows of the file end with the tariff week they were asked in, the   *)
(* entries in front live RouteTtl.  The file is read, changed and written  *)
(* whole, and writing it truncates it first.  Then fuel yields are read    *)
(* from the TMS through a cache of their own, quote-core computes a rate,  *)
(* and the history of the TMS decides whether the lane needs a human.      *)
(*                                                                         *)
(* The legacy workflow uses the same tools.  It reads the yields before it *)
(* looks for the route and turns what a tool throws into reasons for a     *)
(* review, where the graph's lane, and its run, fail.                      *)
(*                                                                         *)
(* A tick of the clock is longer than a lane takes, so at most one tick    *)
(* falls into it: timeouts bound every call but a yields query in SQL,     *)
(* which is taken to answer within the tick.  The legacy workflow prices   *)
(* the lanes of a mail one after the other on yields it read once; here a  *)
(* tick is longer than that batch, and each of its lanes reads them.  What *)
(* a TMS answers is cached for the same lane only, except yields.          *)
(***************************************************************************)
EXTENDS Integers, Sequences, FiniteSets

CONSTANTS
  Lanes,      \* lanes that are priced at the same time
  Manifest,   \* units, profiles and route policy of the client
  Fold,       \* texts to their normal form
  Nom,        \* folded vehicles SAKBE knows, to their axle configuration
  Setups,     \* the surroundings of the process, see setup
  None,
  WeekEnd,    \* the end of the tariff week of a time
  Week, RouteTtl, YieldTtl,
  MaxClock    \* bound on time

ASSUME TimesAssumption ==
  /\ Week \in Nat /\ RouteTtl \in Nat /\ YieldTtl \in Nat /\ MaxClock \in Nat
  /\ \A s \in Setups : s.maxClock \in 0 .. MaxClock
  /\ WeekEnd \in [0 .. MaxClock -> Nat]
  /\ \A t \in 0 .. MaxClock : t < WeekEnd[t] /\ WeekEnd[t] <= t + Week
ASSUME NoneAssumption == None # "file"

(* What QuoteManifest declares of profiles, and the schemas of requests,   *)
(* of SAKBE's answers and of the TMS: their numbers are numbers.           *)
ProfileFields == {"id", "unit", "keywords", "source", "model", "rbTable", "target",
                  "minimum", "capacity", "loadedYield", "emptyYield", "diesel",
                  "operator", "upkeep", "insuranceMin", "insuranceRate"}
Amounts == {"target", "minimum", "capacity", "loadedYield", "emptyYield", "diesel",
            "operator", "upkeep", "insuranceMin", "insuranceRate"}

IsSequence(s) == s \in Seq({s[i] : i \in DOMAIN s})

ASSUME ManifestAssumption ==
  /\ {"client", "units", "profiles"} \subseteq DOMAIN Manifest
  /\ IsSequence(Manifest.profiles)
  /\ \A i \in DOMAIN Manifest.profiles :
       LET p == Manifest.profiles[i]
       IN  /\ ProfileFields \subseteq DOMAIN p
           /\ \A f \in Amounts : p[f] \in Int
           /\ IsSequence(p.rbTable)
           /\ \A j \in DOMAIN p.rbTable : p.rbTable[j].pct \in Int
ASSUME SetupsAssumption ==
  \A s \in Setups :
    /\ \A rfq \in s.rfqs :
         rfq.weight \in Int /\ rfq.value \in Int /\ rfq.return \in BOOLEAN
    /\ \A a \in s.answers : a.km \in Int \cup {None} /\ a.tolls \in Int \cup {None}
    /\ \A table \in s.tables : \A row \in table : row.kpl \in Int

INSTANCE QuoteCore
History == INSTANCE HistoricalContext
Gate    == INSTANCE PolicyGate WITH MaxRate <- 0

VARIABLES
  clock,
  setup,    \* what surrounds the process: cacheFirst and live, the values of
            \* QUOTEOPS_SAKBE_CACHE_MODE and _LIVE_ENABLED; rfqs that come;
            \* answers SAKBE may give (km, tolls); tables the TMS may tell
            \* (sets of [id, kpl]); sources of past quotes it may have;
            \* models, the pricing models of the agent's settings, or None;
            \* maxClock, maxStarts and maxFaults, bounds on ticks, lanes and
            \* faults
  file,     \* route-cache.json
  front,    \* entries of the cache in front
  yields,   \* the cached fuel yields, or None
  config,   \* the agent configuration the process remembers
  lane,     \* the lanes under way, or how they ended
  starts, faults,
  disturbed, \* history: a lane met another that was writing the file, or a
             \* write that had begun was rejected or cut by a crash
  misspelt  \* history: roads asked of SAKBE by a word it does not know

vars == <<clock, setup, file, front, yields, config, lane, starts, faults,
          disturbed, misspelt>>

EmptyFile == [torn |-> FALSE, rows |-> {}]
TornFile  == [torn |-> TRUE, rows |-> {}]
Idle == [pc |-> "idle"]

Init ==
  /\ clock = 0
  /\ setup \in Setups
  /\ file = EmptyFile /\ front = {} /\ yields = None
  /\ config = "unread"
  /\ lane = [l \in Lanes |-> Idle]
  /\ starts = 0 /\ faults = 0
  /\ disturbed = FALSE /\ misspelt = {}

-----------------------------------------------------------------------------
(* Keys.  The road is asked for by the exact word "libre", the caches fold *)
(* the word.  The key in front has no axle configuration but the vehicle.  *)

Road(policy) == IF policy = "libre" THEN "libre" ELSE "cuota"

Legs(rfq) == {<<rfq.from, rfq.to>>} \cup
             (IF rfq.return THEN {<<rfq.to, rfq.from>>} ELSE {})

IsSupported(rfq) == Fold[rfq.vehicle] \in DOMAIN Nom

SakbeKey(rfq, leg) == <<Fold[rfq.policy], leg, Nom[Fold[rfq.vehicle]]>>

(* Mutant: the kind of road is not part of the key.                        *)
PlacesKey(rfq) == <<<<rfq.from, rfq.to>>, Fold[rfq.vehicle], rfq.return>>

RouteKey(rfq) ==
  <<<<rfq.from, rfq.to>>, Fold[rfq.vehicle], Fold[rfq.policy], rfq.return>>

(* At most one row or entry of a key is kept.                              *)
Put(s, row) == {r \in s : r.key # row.key} \cup {row}

(* Mutant: expiry is not looked at.                                        *)
Kept(s, key) == {r \in s : r.key = key}

Live(s, key) == {r \in s : r.key = key /\ clock < r.expires}

-----------------------------------------------------------------------------
(* Steps of a lane                                                         *)

At(l, pc)   == lane[l].pc = pc
Becomes(l, record) == lane' = [lane EXCEPT ![l] = record]
Go(l, pc)   == Becomes(l, [lane[l] EXCEPT !.pc = pc])
UnderWay(l) == lane[l].pc \notin {"idle", "done", "failed"}
Count       == UNCHANGED <<starts, faults>>
Fault       == faults < setup.maxFaults /\ faults' = faults + 1 /\ UNCHANGED starts
Caches      == UNCHANGED <<file, front, yields>>
Traces      == UNCHANGED <<disturbed, misspelt>>
World       == UNCHANGED <<clock, setup>>

IsAgent(l) == lane[l].rfq.engine = "agent"

(* Directions that are not known yet; the loaded one is asked for first.   *)
Missing(l) == {leg \in Legs(lane[l].rfq) : \A r \in lane[l].rows : r.leg # leg}
NextLeg(l) ==
  LET loaded == <<lane[l].rfq.from, lane[l].rfq.to>>
  IN  IF loaded \in Missing(l) THEN loaded ELSE CHOOSE g \in Missing(l) : TRUE

Start(l) ==
  /\ ~ UnderWay(l)
  /\ starts < setup.maxStarts /\ starts' = starts + 1
  /\ \E rfq \in setup.rfqs :
       Becomes(l,
         [pc |-> IF rfq.engine = "agent" THEN "tools" ELSE "yields",
          rfq |-> rfq, began |-> clock, now |-> clock, leg |-> None,
          rows |-> {}, copy |-> {},
          whole |-> TRUE, kpl |-> None, quote |-> None, priced |-> clock,
          band |-> Gate!NoBand, verdict |-> None, reasons |-> {}, cause |-> None])
  /\ UNCHANGED faults /\ UNCHANGED config /\ World /\ Caches /\ Traces

(* The first use of a tool reads agent-config.yaml.  The promise is kept,  *)
(* fulfilled or rejected, until the process ends.                          *)
LoadConfig(l) ==
  /\ lane[l].pc \in {"tools", "yields"} /\ config = "unread"
  /\ \/ config' = "read" /\ Count
     \/ config' = "failed" /\ Fault
  /\ UNCHANGED lane /\ World /\ Caches /\ Traces

(* What resolveRoute throws fails the graph's lane; the legacy node goes   *)
(* on with evidence that says so, and a reason.                            *)
Failed(l, cause) ==
  [lane[l] EXCEPT
    !.pc = IF IsAgent(l) THEN "failed" ELSE "quote",
    !.cause = cause, !.rows = {}, !.copy = {},
    !.reasons = IF IsAgent(l) THEN @ ELSE @ \cup {"route_provider_unavailable"}]

RouteFails(l, cause) == Becomes(l, Failed(l, cause))

(* So does a tool that agent-config.yaml does not allow.                   *)
ConfigFails(l) ==
  /\ At(l, "tools") /\ config = "failed"
  /\ RouteFails(l, "config")
  /\ UNCHANGED config /\ World /\ Caches /\ Count /\ Traces

AfterRoute(l) == IF IsAgent(l) THEN "yields" ELSE "quote"

FrontHit(l) ==
  /\ At(l, "tools") /\ config = "read"
  /\ \E e \in Live(front, RouteKey(lane[l].rfq)) :
       Becomes(l, [lane[l] EXCEPT !.rows = e.rows, !.pc = AfterRoute(l)])
  /\ UNCHANGED config /\ World /\ Caches /\ Count /\ Traces

(* A vehicle that SAKBE has no code for throws.                            *)
FrontMiss(l) ==
  /\ At(l, "tools") /\ config = "read"
  /\ Live(front, RouteKey(lane[l].rfq)) = {}
  /\ IF IsSupported(lane[l].rfq) THEN Go(l, "leg") ELSE RouteFails(l, "vehicle")
  /\ UNCHANGED config /\ World /\ Caches /\ Count /\ Traces

-----------------------------------------------------------------------------
(* route-cache.json                                                        *)

Writers(l) == {m \in Lanes \ {l} : At(m, "fill")}
(* Lanes that read the file in order to write it, and have not yet.        *)
Upserting(l) == {m \in Lanes \ {l} : lane[m].pc \in {"open", "fill"}}

(* A row that has not expired is taken as it is; live_only never looks.    *)
ReadRouteFile(l) ==
  /\ At(l, "leg") /\ Missing(l) # {}
  /\ setup.cacheFirst => ~ file.torn
  /\ LET found == IF setup.cacheFirst
                  THEN Live(file.rows, SakbeKey(lane[l].rfq, NextLeg(l))) ELSE {}
     IN  CASE found # {} ->
                \E row \in found : Becomes(l, [lane[l] EXCEPT !.rows = @ \cup {row}])
           [] found = {} /\ setup.live ->
                Becomes(l, [lane[l] EXCEPT !.pc = "ask", !.now = clock,
                                           !.leg = NextLeg(l)])
           [] OTHER -> RouteFails(l, "uncached")
  /\ UNCHANGED config /\ World /\ Caches /\ Count /\ Traces

(* Text that is cut short does not parse, and only the workflow catches    *)
(* what JSON.parse throws.  A reader may also meet a write half way.       *)
RouteFileUnreadable(l) ==
  /\ \/ At(l, "leg") /\ Missing(l) # {} /\ setup.cacheFirst
     \/ At(l, "reread")
  /\ file.torn \/ Writers(l) # {}
  /\ RouteFails(l, "file")
  /\ disturbed' = (disturbed \/ Writers(l) # {})
  /\ UNCHANGED misspelt /\ UNCHANGED config /\ World /\ Caches /\ Count

(* quoteLiveRoute, with its retries.                                       *)
Ask(l) ==
  /\ At(l, "ask")
  /\ LET rfq == lane[l].rfq
         leg == lane[l].leg
     IN  /\ \E a \in setup.answers :
              LET row == [key |-> SakbeKey(rfq, leg), leg |-> leg,
                          road |-> Road(rfq.policy), nom |-> Nom[Fold[rfq.vehicle]],
                          km |-> a.km, tolls |-> a.tolls,
                          asked |-> clock, expires |-> WeekEnd[lane[l].now]]
              IN  Becomes(l, IF setup.cacheFirst
                             THEN [lane[l] EXCEPT !.copy = {row}, !.pc = "reread"]
                             ELSE [lane[l] EXCEPT !.rows = @ \cup {row}, !.pc = "leg"])
         /\ misspelt' = misspelt \cup
              (IF Road(rfq.policy) # Road(Fold[rfq.policy]) THEN {Fold[rfq.policy]} ELSE {})
  /\ UNCHANGED disturbed /\ UNCHANGED config /\ World /\ Caches /\ Count

(* An error, a timeout, no destination found, or no key.                   *)
AskFails(l) ==
  /\ At(l, "ask") /\ Fault
  /\ RouteFails(l, "sakbe")
  /\ UNCHANGED config /\ World /\ Caches /\ Traces

(* Mutant: the row is written without what the file had.                   *)
Replaced(rows, new) == new

(* The file as it will be written.                                         *)
Upserted(rows, new) == {r \in rows : \A n \in new : r.key # n.key} \cup new

Reread(l) ==
  /\ At(l, "reread") /\ ~ file.torn
  /\ Becomes(l, [lane[l] EXCEPT !.copy = Upserted(file.rows, @), !.pc = "open"])
  /\ disturbed' = (disturbed \/ Upserting(l) # {})
  /\ UNCHANGED misspelt /\ UNCHANGED config /\ World /\ Caches /\ Count

(* Opening truncates the file, for every lane that has it open.            *)
OpenFile(l) ==
  /\ At(l, "open")
  /\ file' = EmptyFile
  /\ lane' = [m \in Lanes |->
       IF m = l THEN [lane[l] EXCEPT !.pc = "fill", !.whole = TRUE]
       ELSE IF At(m, "fill") THEN [lane[m] EXCEPT !.whole = TRUE] ELSE lane[m]]
  /\ UNCHANGED <<front, yields, config>> /\ World /\ Count /\ Traces

(* What is written over a longer text leaves its tail.                     *)
Filled(l) ==
  {[torn |-> FALSE, rows |-> lane[l].copy]}
  \cup (IF lane[l].whole THEN {} ELSE {TornFile})

FillFile(l) ==
  /\ At(l, "fill")
  /\ file' \in Filled(l)
  /\ lane' = [m \in Lanes |->
       IF m = l
       THEN [lane[l] EXCEPT !.pc = "leg", !.copy = {},
               !.rows = @ \cup {r \in lane[l].copy :
                                  r.key = SakbeKey(lane[l].rfq, lane[l].leg)}]
       ELSE IF At(m, "fill") THEN [lane[m] EXCEPT !.whole = FALSE] ELSE lane[m]]
  /\ UNCHANGED <<front, yields, config>> /\ World /\ Count /\ Traces

(* The directory cannot be made, or the file cannot be opened.             *)
WriteFails(l) ==
  /\ At(l, "open") /\ Fault
  /\ RouteFails(l, "write")
  /\ UNCHANGED config /\ World /\ Caches /\ Traces

(* The write is rejected once the file is truncated: the disk is full, say. *)
(* None, a part or all of the text is there by then, and it stays.         *)
FillFails(l) ==
  /\ At(l, "fill") /\ Fault
  /\ file' \in {file, TornFile} \cup Filled(l)
  /\ lane' = [m \in Lanes |->
       IF m = l THEN Failed(l, "write")
       ELSE IF At(m, "fill") /\ file' # file
            THEN [lane[m] EXCEPT !.whole = FALSE] ELSE lane[m]]
  /\ disturbed' = TRUE
  /\ UNCHANGED <<front, yields, config, misspelt>> /\ World

(* Every direction is known.  The cache in front takes the route, fails    *)
(* to, or deletes what it had and then fails to.                           *)
Store(l) ==
  /\ At(l, "leg") /\ Missing(l) = {}
  /\ LET entry == [key |-> RouteKey(lane[l].rfq), rows |-> lane[l].rows,
                   expires |-> clock + RouteTtl]
     IN  front' \in {Put(front, entry), Put(front, entry) \ {entry}, front}
  /\ Go(l, AfterRoute(l))
  /\ UNCHANGED <<file, yields, config>> /\ World /\ Count /\ Traces
-----------------------------------------------------------------------------
(* Fuel yields                                                             *)

(* The ids of the profiles that take their yields from the TMS and find    *)
(* none in what it told (None: it could not be asked).                     *)
StaleProfiles(told) ==
  {Manifest.profiles[i].id : i \in
     {j \in DOMAIN Manifest.profiles :
        /\ Manifest.profiles[j].source = "tms"
        /\ told # None => \A row \in told.table :
                            Fold[row.id] # Fold[Manifest.profiles[j].id]}}

(* One figure for the loaded and the empty kilometre; 0 if the row of the  *)
(* TMS has none.                                                           *)
OverlayTmsPerformance(told) ==
  [Manifest EXCEPT !.profiles =
     [i \in DOMAIN @ |->
        IF told = None \/ @[i].source # "tms" \/ @[i].id \in StaleProfiles(told)
        THEN @[i]
        ELSE LET row == CHOOSE r \in told.table : Fold[r.id] = Fold[@[i].id]
             IN  [@[i] EXCEPT !.loadedYield = row.kpl, !.emptyYield = row.kpl]]]

(* The legacy workflow reads the yields first, and has any stale profile   *)
(* reviewed.                                                               *)
TakeYields(l, told) ==
  Becomes(l, [lane[l] EXCEPT
    !.pc = IF IsAgent(l) THEN "quote" ELSE "tools",
    !.kpl = told,
    !.reasons = IF ~ IsAgent(l) /\ StaleProfiles(told) # {}
                THEN @ \cup {"tms_performance_stale"} ELSE @])

ValidYields == yields # None /\ clock < yields.expires

CachedYields(l) ==
  /\ At(l, "yields") /\ config = "read" /\ ValidYields
  /\ TakeYields(l, yields)
  /\ UNCHANGED config /\ World /\ Caches /\ Count /\ Traces

LoadYields(l) ==
  /\ At(l, "yields") /\ config = "read" /\ ~ ValidYields
  /\ \E table \in setup.tables :
       LET told == [table |-> table, asked |-> clock, expires |-> clock + YieldTtl]
       IN  TakeYields(l, told) /\ yields' \in {told, None, yields}
  /\ UNCHANGED <<file, front, config>> /\ World /\ Count /\ Traces

YieldsFail(l) ==
  /\ At(l, "yields")
  /\ \/ config = "failed" /\ Count
     \/ config = "read" /\ ~ ValidYields /\ Fault
  /\ TakeYields(l, None)
  /\ UNCHANGED config /\ World /\ Caches /\ Traces

-----------------------------------------------------------------------------
(* Quote, history, recommendation                                          *)

RouteEvidence(l) ==
  LET rfq == lane[l].rfq
      Row(leg) == CHOOSE r \in lane[l].rows : r.leg = leg
      loaded == Row(<<rfq.from, rfq.to>>)
      back   == Row(<<rfq.to, rfq.from>>)
      failed == [source |-> "sakbe", status |-> "failed", km |-> None,
                 minutes |-> None, tolls |-> None, needsReturn |-> FALSE,
                 kmReturn |-> None, tollsReturn |-> None]
  IN  IF lane[l].rows = {} THEN failed
      ELSE [failed EXCEPT
              !.status = "resolved", !.km = loaded.km, !.minutes = loaded.km,
              !.tolls = loaded.tolls, !.needsReturn = rfq.return,
              !.kmReturn = IF rfq.return THEN back.km ELSE None,
              !.tollsReturn = IF rfq.return THEN back.tolls ELSE None]

(* The settings of the agent may put every profile under one model.        *)
PricingModelOverlay(manifest, model) ==
  IF model = None THEN manifest
  ELSE [manifest EXCEPT !.profiles =
          [i \in DOMAIN @ |-> [@[i] EXCEPT !.model = model]]]

(* The graph has a lane reviewed if a stale profile has the very id it     *)
(* asks for.                                                               *)
QuoteLane(l, quote) ==
  IF IsAgent(l) /\ lane[l].rfq.vehicle \in StaleProfiles(lane[l].kpl)
  THEN [quote EXCEPT !.status = "REVIEW_REQUIRED",
                     !.reasons = @ \cup {"tms_performance_stale"}]
  ELSE quote

ManifestsOf(l) ==
  {PricingModelOverlay(OverlayTmsPerformance(lane[l].kpl), model) :
     model \in IF IsAgent(l) THEN setup.models ELSE {None}}

Quote(l) ==
  /\ At(l, "quote")
  /\ \E manifest \in ManifestsOf(l), route \in {RouteEvidence(l)} :
       \E p \in {ResolveProfile(lane[l].rfq, manifest)} :
       \E price \in {Price(lane[l].rfq, p, route)} :
       \E quote \in {QuoteLane(l, CalculateQuote(lane[l].rfq, p, price,
                                                Manifest.sakbeRequired, route))} :
         Becomes(l, [lane[l] EXCEPT
           !.pc = "history", !.quote = quote, !.priced = clock,
           !.reasons = IF IsAgent(l) THEN @ ELSE @ \cup quote.reasons])
  /\ UNCHANGED config /\ World /\ Caches /\ Count /\ Traces

QueryOf(rfq) ==
  [route |-> <<rfq.from, rfq.to>>, vehicle |-> rfq.vehicle,
   commodity |-> rfq.commodity, category |-> rfq.category, sector |-> rfq.sector,
   weightBand |-> rfq.weightBand, service |-> rfq.policy]

(* The graph's lane is judged by the band and what the model makes of the  *)
(* history, one of the legacy workflow needs every layer to have data.     *)
ReadHistory(l) ==
  /\ At(l, "history") /\ config = "read"
  /\ \E analysis \in {History!SearchHistoricalQuotes(source, QueryOf(lane[l].rfq)) :
                        source \in setup.sources} :
       IF IsAgent(l)
       THEN \E bounds \in {History!BandBounds(analysis)}, quality \in Gate!Qualities :
              LET band == Gate!HistoricalBand(bounds.min, bounds.max)
              IN  Becomes(l, [lane[l] EXCEPT
                    !.pc = "recommend", !.band = band,
                    !.verdict = Gate!Verdict(lane[l].quote,
                                  [quality |-> quality, band |-> band])])
       ELSE Becomes(l, [lane[l] EXCEPT
              !.pc = "recommend",
              !.reasons = IF analysis.insufficient = {} THEN @
                          ELSE @ \cup {"historical_context_insufficient"}])
  /\ UNCHANGED config /\ World /\ Caches /\ Count /\ Traces

HistoryFails(l) ==
  /\ At(l, "history")
  /\ \/ config = "failed" /\ Count
     \/ config = "read" /\ Fault
  /\ Becomes(l,
       IF IsAgent(l) THEN [lane[l] EXCEPT !.pc = "failed", !.cause = "history"]
       ELSE [lane[l] EXCEPT !.pc = "recommend",
                            !.reasons = @ \cup {"tms_historical_unavailable",
                                                "historical_context_insufficient"}])
  /\ UNCHANGED config /\ World /\ Caches /\ Traces

(* What the model suggests annotates the lane and changes no rate.         *)
Recommend(l) ==
  /\ At(l, "recommend") /\ config = "read"
  /\ Go(l, "done")
  /\ UNCHANGED config /\ World /\ Caches /\ Count /\ Traces

RecommendFails(l) ==
  /\ At(l, "recommend")
  /\ \/ config = "failed" /\ Count
     \/ config = "read" /\ Fault
  /\ Becomes(l,
       IF IsAgent(l) THEN [lane[l] EXCEPT !.pc = "failed", !.cause = "model"]
       ELSE [lane[l] EXCEPT !.pc = "done",
                            !.reasons = @ \cup {"ai_recommendation_failed"}])
  /\ UNCHANGED config /\ World /\ Caches /\ Traces

-----------------------------------------------------------------------------
(* A crash ends the lanes under way; a file that is being written is left  *)
(* as it is or cut short.  The caches survive.                             *)
Crash ==
  /\ Fault
  /\ lane' = [l \in Lanes |-> IF UnderWay(l) THEN Idle ELSE lane[l]]
  /\ config' = "unread"
  /\ IF \E l \in Lanes : At(l, "fill")
     THEN file' \in {file, TornFile} /\ disturbed' = TRUE
     ELSE UNCHANGED <<file, disturbed>>
  /\ UNCHANGED <<front, yields, misspelt>> /\ World

Tick ==
  /\ clock < setup.maxClock /\ clock' = clock + 1
  /\ \A l \in Lanes : UnderWay(l) => lane[l].began = clock
  /\ UNCHANGED <<setup, config, lane>> /\ Caches /\ Count /\ Traces

RouteStep(l) ==
  \/ LoadConfig(l) \/ ConfigFails(l) \/ FrontHit(l) \/ FrontMiss(l)
  \/ ReadRouteFile(l) \/ RouteFileUnreadable(l) \/ Ask(l) \/ AskFails(l)
  \/ Reread(l) \/ WriteFails(l) \/ OpenFile(l) \/ FillFile(l) \/ FillFails(l)
  \/ Store(l)

PriceStep(l) ==
  \/ CachedYields(l) \/ LoadYields(l) \/ YieldsFail(l)
  \/ Quote(l) \/ ReadHistory(l) \/ HistoryFails(l)
  \/ Recommend(l) \/ RecommendFails(l)

LaneStep(l) == RouteStep(l) \/ PriceStep(l)

Next ==
  \/ \E l \in Lanes : Start(l) \/ LaneStep(l)
  \/ Crash
  \/ Tick

Spec == Init /\ [][Next]_vars

-----------------------------------------------------------------------------
(* Properties                                                              *)

TypeOK ==
  /\ clock \in 0 .. MaxClock /\ config \in {"unread", "read", "failed"}
  /\ disturbed \in BOOLEAN

(* The gate, or the legacy workflow, has no reason to ask a human.         *)
Unreviewed(l) ==
  At(l, "done") /\ IF IsAgent(l) THEN lane[l].verdict = "auto" ELSE lane[l].reasons = {}

FreshYields(r, p) ==
  p.source = "tms" =>
    /\ p.id \notin StaleProfiles(r.kpl)
    /\ r.priced - r.kpl.asked <= YieldTtl + 1

(* What profile p says bears out the rate in the record of a lane.         *)
GroundedOn(r, p) ==
  /\ r.quote.profile = p.id
  /\ r.rfq.weight <= p.capacity
  /\ Manifest.sakbeRequired =>
       \A leg \in Legs(r.rfq) : \E x \in r.rows : x.leg = leg /\ x.km > 0
  /\ RealMargin(r.quote.rate, r.quote.cost) >= 100 * p.minimum
  /\ \/ r.rfq.engine = "agent" /\ r.rfq.vehicle # p.id
     \/ FreshYields(r, p)

IsGrounded(r) ==
  \E i \in DOMAIN Manifest.profiles : GroundedOn(r, Manifest.profiles[i])

(* A lane that no human needs to see was priced for a known profile it     *)
(* fits, on a SAKBE distance for each of its directions (where the         *)
(* manifest wants one), at or above the minimum margin, with yields the    *)
(* TMS told within their time to live; the graph's lane also inside the    *)
(* historical band.  Yields are let off when the graph's lane names its    *)
(* profile by another spelling than its id.                                *)
UnreviewedIsGrounded ==
  \A l \in Lanes : Unreviewed(l) =>
    /\ IsGrounded(lane[l])
    /\ IsAgent(l) => Gate!InBand(lane[l].quote.rate, lane[l].band)

(* A rate never rests on a distance or a toll SAKBE told longer ago than   *)
(* the tariff week and the life of an entry in front, one after the other. *)
RouteIsRecent ==
  \A l \in Lanes : lane[l].pc \in {"history", "recommend", "done"} =>
    \A r \in lane[l].rows : lane[l].priced - r.asked <= Week + RouteTtl

(* Whatever cache it comes from, a lane's route was asked for its own      *)
(* directions, axles and kind of road, unless a lane spelled that kind in  *)
(* a way the caches understand and SAKBE's endpoint does not.              *)
RouteIsItsOwn ==
  \A l \in Lanes : lane[l].pc # "idle" =>
    LET rfq == lane[l].rfq
    IN  \A r \in lane[l].rows :
          /\ r.leg \in Legs(rfq) /\ r.nom = Nom[Fold[rfq.vehicle]]
          /\ r.road = Road(Fold[rfq.policy]) \/ Fold[rfq.policy] \in misspelt

(* As long as no lane meets another that is writing route-cache.json, and  *)
(* no write is rejected or cut by a crash once it has truncated the file,  *)
(* the file can be read and keeps a row for each one a lane has used       *)
(* (which may be of an earlier answer: the last lane to write wins).       *)
QuietFileKeepsRows ==
  disturbed \/
  /\ ~ file.torn
  /\ \A l \in Lanes : lane[l].pc # "idle" /\ setup.cacheFirst /\ Writers(l) = {} =>
       /\ lane[l].cause # "file"
       /\ \A r \in lane[l].rows :
            At(l, "fill") \/ \E f \in file.rows : f.key = r.key
=============================================================================
