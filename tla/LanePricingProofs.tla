-------------------------- MODULE LanePricingProofs --------------------------
(***************************************************************************)
(* Four facts about the lanes of LanePricing, for every set of lanes,      *)
(* manifest, surroundings, tariff week and time to live: a rate rests on a *)
(* route that is recent, and on one that was asked for what the lane       *)
(* wants; writes of the file that go undisturbed lose no row of it; and a  *)
(* rate that no human sees is grounded.                                    *)
(*                                                                         *)
(* None is inductive.  What a lane takes from a cache is as good as what   *)
(* other lanes put there, so the invariant IInv says of every place a row  *)
(* can be in (the file, a copy of it that is about to be written, the      *)
(* cache in front, a lane) how old it may be and whom it fits.             *)
(*                                                                         *)
(* The file itself is empty between the truncation and the write, so what  *)
(* is never lost has to be looked for in the writer's copy meanwhile:      *)
(* QuietInv says that, while undisturbed, one lane at most holds the       *)
(* file, its copy covers the rows that were there, and every row a lane or *)
(* the cache in front rests on has its key in the file or in that copy.    *)
(*                                                                         *)
(* GInv, at the end, follows what reaches the rate: rows, yields, entries. *)
(***************************************************************************)
EXTENDS LanePricing, TLAPS, WellFoundedInduction

AllRfqs == UNION {s.rfqs : s \in Setups}

LaneFields == {"pc", "rfq", "began", "now", "leg", "rows", "copy", "whole", "kpl",
               "quote", "priced", "band", "verdict", "reasons", "cause"}

IsLane(r) == r = [f \in LaneFields |-> r[f]]

Over    == {"done", "failed"}
Upserts == {"reread", "open", "fill"}
Looking == {"leg", "ask"} \cup Upserts
Rated   == {"history", "recommend", "done"}

(* A row was asked for what the request wants; words are the misspelt ones.*)
Fits(x, rfq, words) ==
  /\ x.leg \in Legs(rfq) /\ x.nom = Nom[Fold[rfq.vehicle]]
  /\ x.road = Road(Fold[rfq.policy]) \/ Fold[rfq.policy] \in words

RowOK(x, words) ==
  /\ x.asked \in Int /\ x.expires \in Int /\ x.expires <= x.asked + Week
  /\ \A rfq \in AllRfqs : \A leg \in Legs(rfq) :
       x.key = SakbeKey(rfq, leg) => Fits(x, rfq, words)

EntryOK(e, words) ==
  /\ e.expires \in Int
  /\ \A x \in e.rows :
       /\ x.asked \in Int /\ e.expires <= x.asked + Week + RouteTtl
       /\ \A rfq \in AllRfqs : e.key = RouteKey(rfq) => Fits(x, rfq, words)

(* The parts of a lane's record at time c.                                 *)
Timed(r, c) ==
  /\ r.began \in Int /\ r.now \in 0 .. MaxClock /\ r.priced \in Int
  /\ r.pc \notin Over => r.began <= c /\ c <= r.began + 1
  /\ r.pc = "ask" => r.began <= r.now /\ r.now <= c

Early(r) == r.pc = "tools" \/ (r.pc = "yields" /\ r.rfq.engine # "agent")

Routed(r, words) ==
  /\ Early(r) => r.rows = {}
  /\ \A x \in r.rows : x.asked \in Int /\ Fits(x, r.rfq, words)
  /\ r.pc \in Looking => \A x \in r.rows : r.began < x.asked + Week
  /\ r.pc \notin Over => \A x \in r.rows : r.began < x.asked + Week + RouteTtl
  /\ r.pc \in Rated => \A x \in r.rows : r.priced <= x.asked + Week + RouteTtl

Copied(r, words) ==
  /\ r.pc \in {"ask"} \cup Upserts => r.leg \in Legs(r.rfq)
  /\ \A x \in r.copy : RowOK(x, words)
  /\ r.pc \in Upserts => \A x \in r.copy :
       x.key = SakbeKey(r.rfq, r.leg) => r.began < x.asked + Week
  /\ r.pc = "reread" => \E x \in r.copy : x.key = SakbeKey(r.rfq, r.leg)

LaneOK(r, c, words) ==
  r.pc = "idle" \/ (/\ IsLane(r) /\ r.rfq \in AllRfqs
                    /\ Timed(r, c) /\ Routed(r, words) /\ Copied(r, words))

LanesOK == /\ lane = [l \in Lanes |-> lane[l]]
           /\ \A l \in Lanes : LaneOK(lane[l], clock, misspelt)
FileOK  == \A x \in file.rows : RowOK(x, misspelt)
FrontOK == \A e \in front : EntryOK(e, misspelt)

IInv == TypeOK /\ setup \in Setups /\ LanesOK /\ FileOK /\ FrontOK
-----------------------------------------------------------------------------
(* What holds for some misspelt words holds for more of them.              *)

LEMMA RowsGrow ==
  ASSUME NEW x, NEW v, NEW w, v \subseteq w, RowOK(x, v) PROVE RowOK(x, w)
BY DEF RowOK, Fits

LEMMA EntriesGrow ==
  ASSUME NEW e, NEW v, NEW w, v \subseteq w, EntryOK(e, v) PROVE EntryOK(e, w)
BY DEF EntryOK, Fits

LEMMA LanesGrow ==
  ASSUME NEW r, NEW c, NEW v, NEW w, v \subseteq w, LaneOK(r, c, v)
  PROVE  LaneOK(r, c, w)
<1>1. Routed(r, v) => Routed(r, w)
  BY DEF Routed, Fits
<1>2. Copied(r, v) => Copied(r, w)
  BY RowsGrow DEF Copied
<1> QED BY <1>1, <1>2 DEF LaneOK

-----------------------------------------------------------------------------
(* How the record of a lane may change                                     *)

Carried(s, r) ==
  /\ IsLane(s)
  /\ s.rfq = r.rfq /\ s.began = r.began /\ s.now = r.now /\ s.leg = r.leg
  /\ s.rows = r.rows /\ s.copy = r.copy

(* A lane that goes on with the rows it has, and does not look for more.   *)
LEMMA Moves ==
  ASSUME NEW r, NEW s, NEW c \in Int, NEW w,
         LaneOK(r, c, w), r.pc # "idle", r.pc \notin Over, Carried(s, r),
         s.pc \notin Looking, Early(s) => s.rows = {}, s.priced \in Int,
         s.pc \in Rated => s.priced = c \/ (r.pc \in Rated /\ s.priced = r.priced)
  PROVE  LaneOK(s, c, w)
<1> USE TimesAssumption
<1>1. Timed(s, c)
  BY DEF LaneOK, Timed, Carried, Looking, Over
<1>2. Routed(s, w)
  <2>1. \A x \in s.rows : x.asked \in Int /\ Fits(x, s.rfq, w)
    BY DEF LaneOK, Routed, Carried
  <2>2. \A x \in s.rows : s.began < x.asked + Week + RouteTtl
    BY DEF LaneOK, Routed, Carried
  <2>3. ASSUME NEW x \in s.rows, s.pc \in Rated
        PROVE  s.priced <= x.asked + Week + RouteTtl
    <3>1. CASE s.priced = c
      <4>1. c <= s.began + 1 /\ s.began \in Int
        BY DEF LaneOK, Timed, Carried
      <4> QED BY <3>1, <4>1, <2>1, <2>2
    <3>2. CASE r.pc \in Rated /\ s.priced = r.priced
      BY <3>2 DEF LaneOK, Routed, Carried
    <3> QED BY <2>3, <3>1, <3>2
  <2> QED BY <2>1, <2>2, <2>3 DEF Routed
<1>3. Copied(s, w)
  BY DEF LaneOK, Copied, Carried, Looking, Upserts
<1> QED BY <1>1, <1>2, <1>3 DEF LaneOK, Carried

(* A lane whose route could not be found.                                  *)
LEMMA Fails ==
  ASSUME NEW r, NEW s, NEW c \in Int, NEW w,
         LaneOK(r, c, w), r.pc # "idle", r.pc \notin Over, IsLane(s),
         s.rfq = r.rfq, s.began = r.began, s.now = r.now, s.priced = r.priced,
         s.rows = {}, s.copy = {}, s.pc \in {"failed", "quote"}
  PROVE  LaneOK(s, c, w)
<1>1. Timed(s, c)
  BY DEF LaneOK, Timed, Over
<1>2. Routed(s, w)
  BY DEF Routed
<1>3. Copied(s, w)
  BY DEF Copied, Upserts
<1> QED BY <1>1, <1>2, <1>3 DEF LaneOK

-----------------------------------------------------------------------------
(* A step of one lane that leaves the caches and the words alone.          *)
LEMMA LaneMoves ==
  ASSUME IInv, NEW l \in Lanes, NEW s, lane' = [lane EXCEPT ![l] = s],
         LaneOK(s, clock, misspelt), TypeOK',
         UNCHANGED <<clock, setup, file, front, misspelt>>
  PROVE  IInv'
<1>1. LanesOK'
  BY DEF IInv, LanesOK
<1> QED BY <1>1 DEF IInv, FileOK, FrontOK

(* The record of a lane that is under way.                                 *)
LEMMA UnderWayIsLane ==
  ASSUME IInv, NEW l \in Lanes, lane[l].pc # "idle"
  PROVE  IsLane(lane[l]) /\ LaneOK(lane[l], clock, misspelt) /\ clock \in Int
BY TimesAssumption DEF IInv, LanesOK, LaneOK, TypeOK

(* What a lane is once its route has failed.                               *)
LEMMA FailedIsOK ==
  ASSUME IInv, NEW l \in Lanes, NEW cause, lane[l].pc # "idle",
         lane[l].pc \notin Over
  PROVE  LaneOK(Failed(l, cause), clock, misspelt)
<1> DEFINE r == lane[l]
           s == Failed(l, cause)
<1>1. IsLane(r)
  BY UnderWayIsLane
<1>2. /\ IsLane(s) /\ s.rfq = r.rfq /\ s.began = r.began /\ s.now = r.now
      /\ s.priced = r.priced /\ s.rows = {} /\ s.copy = {}
      /\ s.pc \in {"failed", "quote"}
  BY <1>1 DEF Failed, IsLane, LaneFields
<1> HIDE DEF s
<1>3. LaneOK(s, clock, misspelt)
  BY <1>2, Fails, UnderWayIsLane
<1> QED BY <1>3 DEF s

LEMMA FailureKept ==
  ASSUME IInv, NEW l \in Lanes, NEW cause, RouteFails(l, cause),
         lane[l].pc # "idle", lane[l].pc \notin Over, TypeOK',
         UNCHANGED <<clock, setup, file, front, misspelt>>
  PROVE  IInv'
BY FailedIsOK, LaneMoves DEF RouteFails, Becomes

LEMMA MoveKept ==
  ASSUME IInv, NEW l \in Lanes, NEW s, Becomes(l, s), TypeOK',
         lane[l].pc # "idle", lane[l].pc \notin Over, Carried(s, lane[l]),
         s.pc \notin Looking, Early(s) => s.rows = {}, s.priced \in Int,
         s.pc \in Rated => \/ s.priced = clock
                           \/ lane[l].pc \in Rated /\ s.priced = lane[l].priced,
         UNCHANGED <<clock, setup, file, front, misspelt>>
  PROVE  IInv'
<1>1. LaneOK(s, clock, misspelt)
  BY UnderWayIsLane, Moves
<1> QED BY <1>1, LaneMoves DEF Becomes

LEMMA PricedIsInt ==
  ASSUME IInv, NEW l \in Lanes, lane[l].pc # "idle" PROVE lane[l].priced \in Int
BY UnderWayIsLane DEF LaneOK, Timed

-----------------------------------------------------------------------------
(* The steps that price a lane                                             *)

LEMMA YieldsKept ==
  ASSUME IInv, NEW l \in Lanes, At(l, "yields"), NEW told, TakeYields(l, told),
         TypeOK', UNCHANGED <<clock, setup, file, front, misspelt>>
  PROVE  IInv'
<1> DEFINE r == lane[l]
           s == [r EXCEPT !.pc = IF IsAgent(l) THEN "quote" ELSE "tools",
                          !.kpl = told,
                          !.reasons = IF ~ IsAgent(l) /\ StaleProfiles(told) # {}
                                      THEN @ \cup {"tms_performance_stale"} ELSE @]
<1>1. Becomes(l, s)
  BY DEF TakeYields
<1>2. Carried(s, r) /\ s.priced = r.priced
      /\ s.pc = IF IsAgent(l) THEN "quote" ELSE "tools"
  BY UnderWayIsLane DEF IsLane, LaneFields, Carried, At
<1>3. Early(s) => s.rows = {}
  <2>1. Early(s) => Early(r)
    BY <1>2 DEF Early, IsAgent, At
  <2> QED BY <2>1, <1>2, UnderWayIsLane DEF LaneOK, Routed, At, Carried
<1> HIDE DEF s
<1> QED BY <1>1, <1>2, <1>3, MoveKept, PricedIsInt DEF At, Over, Looking, Upserts, Rated

LEMMA QuoteKept ==
  ASSUME IInv, TypeOK', NEW l \in Lanes, Quote(l) PROVE IInv'
<1> DEFINE r == lane[l]
<1>1. PICK quote : Becomes(l, [r EXCEPT
        !.pc = "history", !.quote = quote, !.priced = clock,
        !.reasons = IF IsAgent(l) THEN @ ELSE @ \cup quote.reasons])
  BY DEF Quote
<1> DEFINE s == [r EXCEPT !.pc = "history", !.quote = quote, !.priced = clock,
                   !.reasons = IF IsAgent(l) THEN @ ELSE @ \cup quote.reasons]
<1>2. r.pc = "quote" /\ UNCHANGED <<clock, setup, file, front, misspelt>>
  BY DEF Quote, At, World, Caches, Traces
<1>3. Carried(s, r) /\ s.priced = clock /\ s.pc = "history"
  BY <1>2, UnderWayIsLane DEF IsLane, LaneFields, Carried
<1>4. Becomes(l, s)
  BY <1>1
<1> HIDE DEF s
<1> QED BY <1>2, <1>3, <1>4, MoveKept, UnderWayIsLane
        DEF Over, Looking, Upserts, Rated, Early

(* The history and the recommendation change the reasons, the band and the *)
(* verdict.                                                                *)
LEMMA EndKept ==
  ASSUME IInv, NEW l \in Lanes, NEW s, Becomes(l, s), TypeOK',
         lane[l].pc \in {"history", "recommend"}, Carried(s, lane[l]),
         s.priced = lane[l].priced, s.pc \in {"recommend", "done", "failed"},
         UNCHANGED <<clock, setup, file, front, misspelt>>
  PROVE  IInv'
BY MoveKept, PricedIsInt DEF Over, Looking, Upserts, Rated, Early

LEMMA HistoryKept ==
  ASSUME IInv, TypeOK', NEW l \in Lanes, ReadHistory(l) PROVE IInv'
<1> DEFINE r == lane[l]
           a(band, verdict) == [r EXCEPT !.pc = "recommend", !.band = band,
                                         !.verdict = verdict]
           b(x) == [r EXCEPT !.pc = "recommend",
                      !.reasons = IF x.insufficient = {} THEN @
                                  ELSE @ \cup {"historical_context_insufficient"}]
<1>1. UNCHANGED <<clock, setup, file, front, misspelt>> /\ r.pc = "history"
  BY DEF ReadHistory, World, Caches, Traces, At
<1>2. (\E band, verdict : Becomes(l, a(band, verdict))) \/ (\E x : Becomes(l, b(x)))
  BY DEF ReadHistory
<1>3. CASE \E band, verdict : Becomes(l, a(band, verdict))
  <2>1. PICK band, verdict : Becomes(l, a(band, verdict))
    BY <1>3
  <2>2. /\ Carried(a(band, verdict), r) /\ a(band, verdict).priced = r.priced
        /\ a(band, verdict).pc = "recommend"
    BY <1>1, UnderWayIsLane DEF IsLane, LaneFields, Carried
  <2> HIDE DEF a
  <2> QED BY <1>1, <2>1, <2>2, EndKept
<1>4. CASE \E x : Becomes(l, b(x))
  <2>1. PICK x : Becomes(l, b(x))
    BY <1>4
  <2>2. Carried(b(x), r) /\ b(x).priced = r.priced /\ b(x).pc = "recommend"
    BY <1>1, UnderWayIsLane DEF IsLane, LaneFields, Carried
  <2> HIDE DEF b
  <2> QED BY <1>1, <2>1, <2>2, EndKept
<1> QED BY <1>2, <1>3, <1>4

LEMMA HistoryFailKept ==
  ASSUME IInv, TypeOK', NEW l \in Lanes, HistoryFails(l) PROVE IInv'
<1> DEFINE r == lane[l]
           s == IF IsAgent(l) THEN [r EXCEPT !.pc = "failed", !.cause = "history"]
                ELSE [r EXCEPT !.pc = "recommend",
                        !.reasons = @ \cup {"tms_historical_unavailable",
                                            "historical_context_insufficient"}]
<1>1. /\ UNCHANGED <<clock, setup, file, front, misspelt>> /\ r.pc = "history"
      /\ Becomes(l, s)
  BY DEF HistoryFails, World, Caches, Traces, At
<1>2. Carried(s, r) /\ s.priced = r.priced /\ s.pc \in {"failed", "recommend"}
  BY <1>1, UnderWayIsLane DEF IsLane, LaneFields, Carried
<1> HIDE DEF s
<1> QED BY <1>1, <1>2, EndKept

LEMMA RecommendKept ==
  ASSUME IInv, TypeOK', NEW l \in Lanes, Recommend(l) PROVE IInv'
<1> DEFINE s == [lane[l] EXCEPT !.pc = "done"]
<1>1. /\ UNCHANGED <<clock, setup, file, front, misspelt>>
      /\ lane[l].pc = "recommend" /\ Becomes(l, s)
  BY DEF Recommend, World, Caches, Traces, At, Go
<1>2. Carried(s, lane[l]) /\ s.priced = lane[l].priced /\ s.pc = "done"
  BY <1>1, UnderWayIsLane DEF IsLane, LaneFields, Carried
<1> HIDE DEF s
<1> QED BY <1>1, <1>2, EndKept

LEMMA RecommendFailKept ==
  ASSUME IInv, TypeOK', NEW l \in Lanes, RecommendFails(l) PROVE IInv'
<1> DEFINE r == lane[l]
           s == IF IsAgent(l) THEN [r EXCEPT !.pc = "failed", !.cause = "model"]
                ELSE [r EXCEPT !.pc = "done",
                               !.reasons = @ \cup {"ai_recommendation_failed"}]
<1>1. /\ UNCHANGED <<clock, setup, file, front, misspelt>> /\ r.pc = "recommend"
      /\ Becomes(l, s)
  BY DEF RecommendFails, World, Caches, Traces, At
<1>2. Carried(s, r) /\ s.priced = r.priced /\ s.pc \in {"failed", "done"}
  BY <1>1, UnderWayIsLane DEF IsLane, LaneFields, Carried
<1> HIDE DEF s
<1> QED BY <1>1, <1>2, EndKept

LEMMA PriceStepKept ==
  ASSUME IInv, TypeOK', NEW l \in Lanes, PriceStep(l) PROVE IInv'
<1>1. ASSUME CachedYields(l) \/ LoadYields(l) \/ YieldsFail(l) PROVE IInv'
  <2>1. /\ At(l, "yields") /\ \E told : TakeYields(l, told)
        /\ UNCHANGED <<clock, setup, file, front, misspelt>>
    BY <1>1 DEF CachedYields, LoadYields, YieldsFail, World, Caches, Traces
  <2> QED BY <2>1, YieldsKept
<1> QED BY <1>1, QuoteKept, HistoryKept, HistoryFailKept, RecommendKept,
          RecommendFailKept DEF PriceStep

-----------------------------------------------------------------------------
(* The steps that find its route                                           *)

(* The record of one lane changes, the caches may only get better words.   *)
LEMMA LooksKept ==
  ASSUME IInv, TypeOK', NEW l \in Lanes, NEW s, Becomes(l, s),
         misspelt \subseteq misspelt', LaneOK(s, clock, misspelt'),
         UNCHANGED <<clock, setup, file, front>>
  PROVE  IInv'
<1>1. LanesOK'
  BY LanesGrow DEF IInv, LanesOK, Becomes
<1>2. FileOK' /\ FrontOK'
  BY RowsGrow, EntriesGrow DEF IInv, FileOK, FrontOK
<1> QED BY <1>1, <1>2 DEF IInv

LEMMA StartKept ==
  ASSUME IInv, TypeOK', NEW l \in Lanes, Start(l) PROVE IInv'
<1>1. PICK rfq \in setup.rfqs : Becomes(l,
        [pc |-> IF rfq.engine = "agent" THEN "tools" ELSE "yields",
         rfq |-> rfq, began |-> clock, now |-> clock, leg |-> None,
         rows |-> {}, copy |-> {},
         whole |-> TRUE, kpl |-> None, quote |-> None, priced |-> clock,
         band |-> Gate!NoBand, verdict |-> None, reasons |-> {}, cause |-> None])
  BY DEF Start
<1> DEFINE s ==
        [pc |-> IF rfq.engine = "agent" THEN "tools" ELSE "yields",
         rfq |-> rfq, began |-> clock, now |-> clock, leg |-> None,
         rows |-> {}, copy |-> {},
         whole |-> TRUE, kpl |-> None, quote |-> None, priced |-> clock,
         band |-> Gate!NoBand, verdict |-> None, reasons |-> {}, cause |-> None]
<1>2. /\ IsLane(s) /\ s.rfq \in AllRfqs /\ s.began = clock /\ s.now = clock
      /\ s.rows = {} /\ s.copy = {} /\ s.priced = clock
      /\ s.pc \in {"tools", "yields"}
  BY DEF IInv, AllRfqs, IsLane, LaneFields
<1>3. clock \in 0 .. MaxClock /\ MaxClock \in Nat
  BY TimesAssumption DEF IInv, TypeOK
<1>4. UNCHANGED <<clock, setup, file, front, misspelt>>
  BY DEF Start, World, Caches, Traces
<1>5. Becomes(l, s)
  BY <1>1
<1> HIDE DEF s
<1>6. Timed(s, clock) /\ Routed(s, misspelt) /\ Copied(s, misspelt)
  BY <1>2, <1>3 DEF Timed, Routed, Copied, Looking, Upserts, Rated, Over
<1> QED BY <1>2, <1>4, <1>5, <1>6, LooksKept DEF LaneOK

LEMMA FailStepsKept ==
  ASSUME IInv, TypeOK', NEW l \in Lanes,
         ConfigFails(l) \/ RouteFileUnreadable(l) \/ AskFails(l) \/ WriteFails(l)
  PROVE  IInv'
<1>1. /\ UNCHANGED <<clock, setup, file, front, misspelt>>
      /\ lane[l].pc \in {"tools", "leg", "reread", "ask", "open"}
      /\ \E cause : RouteFails(l, cause)
  BY DEF ConfigFails, RouteFileUnreadable, AskFails, WriteFails, World, Caches,
         Traces, At
<1> QED BY <1>1, FailureKept DEF Over

LEMMA FrontHitKept ==
  ASSUME IInv, TypeOK', NEW l \in Lanes, FrontHit(l) PROVE IInv'
<1> DEFINE r == lane[l]
<1>1. /\ UNCHANGED <<clock, setup, file, front, misspelt>> /\ r.pc = "tools"
      /\ \E e \in Live(front, RouteKey(r.rfq)) :
           Becomes(l, [r EXCEPT !.rows = e.rows, !.pc = AfterRoute(l)])
  BY DEF FrontHit, World, Caches, Traces, At
<1>2. PICK e \in Live(front, RouteKey(r.rfq)) :
        Becomes(l, [r EXCEPT !.rows = e.rows, !.pc = AfterRoute(l)])
  BY <1>1
<1> DEFINE s == [r EXCEPT !.rows = e.rows, !.pc = AfterRoute(l)]
<1>3. /\ IsLane(s) /\ s.rfq = r.rfq /\ s.began = r.began /\ s.now = r.now
      /\ s.priced = r.priced /\ s.copy = r.copy /\ s.rows = e.rows
      /\ s.pc = AfterRoute(l)
  BY <1>1, UnderWayIsLane DEF IsLane, LaneFields
<1>4. /\ EntryOK(e, misspelt) /\ e.key = RouteKey(r.rfq) /\ clock < e.expires
  BY DEF IInv, FrontOK, Live
<1>5. Becomes(l, s)
  BY <1>2
<1>6. /\ r.rfq \in AllRfqs /\ Timed(r, clock) /\ Copied(r, misspelt)
      /\ clock \in Int
  BY <1>1, UnderWayIsLane DEF LaneOK
<1> HIDE DEF s
<1>7. s.pc \in {"yields", "quote"} /\ ~ Early(s)
  BY <1>3 DEF AfterRoute, Early, IsAgent
<1>8. Timed(s, clock)
  BY <1>1, <1>3, <1>6, <1>7 DEF Timed, Over
<1>9. Copied(s, misspelt)
  BY <1>3, <1>6, <1>7 DEF Copied, Upserts
<1>10. Routed(s, misspelt)
  <2>1. ASSUME NEW x \in s.rows
        PROVE  /\ x.asked \in Int /\ Fits(x, s.rfq, misspelt)
               /\ s.began < x.asked + Week + RouteTtl
    <3>1. /\ x.asked \in Int /\ e.expires <= x.asked + Week + RouteTtl
          /\ e.expires \in Int /\ Fits(x, s.rfq, misspelt)
      BY <1>3, <1>4, <1>6 DEF EntryOK
    <3>2. s.began <= clock /\ s.began \in Int
      BY <1>1, <1>3, <1>6 DEF Timed, Over
    <3> QED BY <3>1, <3>2, <1>4, <1>6, TimesAssumption
  <2> QED BY <2>1, <1>7 DEF Routed, Looking, Upserts, Rated
<1> QED BY <1>1, <1>3, <1>5, <1>6, <1>8, <1>9, <1>10, LooksKept DEF LaneOK

LEMMA FrontMissKept ==
  ASSUME IInv, TypeOK', NEW l \in Lanes, FrontMiss(l) PROVE IInv'
<1> DEFINE r == lane[l]
           s == [r EXCEPT !.pc = "leg"]
<1>1. /\ UNCHANGED <<clock, setup, file, front, misspelt>> /\ r.pc = "tools"
      /\ Becomes(l, s) \/ RouteFails(l, "vehicle")
  BY DEF FrontMiss, World, Caches, Traces, At, Go
<1>2. CASE RouteFails(l, "vehicle")
  BY <1>1, <1>2, FailureKept DEF Over
<1>3. CASE Becomes(l, s)
  <2>1. /\ IsLane(s) /\ s.rfq = r.rfq /\ s.began = r.began /\ s.now = r.now
        /\ s.priced = r.priced /\ s.copy = r.copy /\ s.rows = r.rows
        /\ s.pc = "leg"
    BY <1>1, UnderWayIsLane DEF IsLane, LaneFields
  <2>2. LaneOK(r, clock, misspelt) /\ r.pc = "tools"
    BY <1>1, UnderWayIsLane
  <2> HIDE DEF s
  <2>3. Timed(s, clock)
    BY <2>1, <2>2 DEF LaneOK, Timed, Over
  <2>4. Copied(s, misspelt)
    BY <2>1, <2>2 DEF LaneOK, Copied, Upserts
  <2>5. Routed(s, misspelt)
    BY <2>1, <2>2 DEF LaneOK, Routed, Early
  <2> QED BY <1>1, <1>3, <2>1, <2>2, <2>3, <2>4, <2>5, LooksKept DEF LaneOK
<1> QED BY <1>1, <1>2, <1>3

LEMMA ReadKept ==
  ASSUME IInv, TypeOK', NEW l \in Lanes, ReadRouteFile(l) PROVE IInv'
<1> DEFINE r == lane[l]
           a(row) == [r EXCEPT !.rows = @ \cup {row}]
           b == [r EXCEPT !.pc = "ask", !.now = clock, !.leg = NextLeg(l)]
<1>1. /\ UNCHANGED <<clock, setup, file, front, misspelt>> /\ r.pc = "leg"
      /\ Missing(l) # {}
  BY DEF ReadRouteFile, World, Caches, Traces, At
<1>2. \/ \E row \in Live(file.rows, SakbeKey(r.rfq, NextLeg(l))) : Becomes(l, a(row))
      \/ Becomes(l, b)
      \/ RouteFails(l, "uncached")
  BY DEF ReadRouteFile
<1>3. NextLeg(l) \in Legs(r.rfq)
  BY <1>1 DEF NextLeg, Missing
<1>4. /\ LaneOK(r, clock, misspelt) /\ IsLane(r) /\ clock \in Int
      /\ clock \in 0 .. MaxClock
  BY <1>1, UnderWayIsLane DEF IInv, TypeOK
<1>5. CASE \E row \in Live(file.rows, SakbeKey(r.rfq, NextLeg(l))) : Becomes(l, a(row))
  <2>1. PICK row \in Live(file.rows, SakbeKey(r.rfq, NextLeg(l))) : Becomes(l, a(row))
    BY <1>5
  <2> DEFINE s == a(row)
  <2>2. /\ IsLane(s) /\ s.rfq = r.rfq /\ s.began = r.began /\ s.now = r.now
        /\ s.priced = r.priced /\ s.copy = r.copy /\ s.rows = r.rows \cup {row}
        /\ s.pc = r.pc
    BY <1>4 DEF IsLane, LaneFields
  <2>3. /\ RowOK(row, misspelt) /\ clock < row.expires
        /\ row.key = SakbeKey(r.rfq, NextLeg(l))
    BY DEF Live, IInv, FileOK
  <2>4. Becomes(l, s)
    BY <2>1
  <2> HIDE DEF s
  <2>5. Fits(row, r.rfq, misspelt)
    BY <1>1, <1>3, <1>4, <2>3 DEF RowOK, LaneOK
  <2>6. row.asked \in Int /\ r.began < row.asked + Week
    <3>1. r.began \in Int /\ r.began <= clock
      BY <1>1, <1>4 DEF LaneOK, Timed, Over
    <3> QED BY <3>1, <1>4, <2>3, TimesAssumption DEF RowOK
  <2>7. Timed(s, clock) /\ Copied(s, misspelt)
    BY <1>1, <1>4, <2>2 DEF LaneOK, Timed, Copied, Over, Upserts
  <2>8. Routed(s, misspelt)
    <3>1. \A x \in s.rows : /\ x.asked \in Int /\ Fits(x, s.rfq, misspelt)
                            /\ s.began < x.asked + Week
      BY <1>1, <1>4, <2>2, <2>5, <2>6 DEF LaneOK, Routed, Looking
    <3>2. \A x \in s.rows : s.began < x.asked + Week + RouteTtl
      <4>1. s.began \in Int
        BY <1>1, <1>4, <2>2 DEF LaneOK, Timed
      <4> QED BY <3>1, <4>1, TimesAssumption
    <3> QED BY <1>1, <2>2, <3>1, <3>2 DEF Routed, Early, Looking, Rated
  <2> QED BY <1>1, <1>4, <2>2, <2>4, <2>7, <2>8, LooksKept DEF LaneOK
<1>6. CASE Becomes(l, b)
  <2>1. /\ IsLane(b) /\ b.rfq = r.rfq /\ b.began = r.began /\ b.now = clock
        /\ b.priced = r.priced /\ b.copy = r.copy /\ b.rows = r.rows
        /\ b.leg = NextLeg(l) /\ b.pc = "ask"
    BY <1>4 DEF IsLane, LaneFields
  <2> HIDE DEF b
  <2>2. Timed(b, clock)
    BY <1>1, <1>4, <2>1 DEF LaneOK, Timed, Over
  <2>3. Copied(b, misspelt)
    BY <1>1, <1>3, <1>4, <2>1 DEF LaneOK, Copied, Upserts
  <2>4. Routed(b, misspelt)
    BY <1>1, <1>4, <2>1 DEF LaneOK, Routed, Early, Looking, Over, Rated
  <2> QED BY <1>1, <1>4, <1>6, <2>1, <2>2, <2>3, <2>4, LooksKept DEF LaneOK
<1>7. CASE RouteFails(l, "uncached")
  BY <1>1, <1>7, FailureKept DEF Over
<1> QED BY <1>2, <1>5, <1>6, <1>7

LEMMA AskKept ==
  ASSUME IInv, TypeOK', NEW l \in Lanes, Ask(l) PROVE IInv'
<1> DEFINE r == lane[l]
           row(a) == [key |-> SakbeKey(r.rfq, r.leg), leg |-> r.leg,
                      road |-> Road(r.rfq.policy), nom |-> Nom[Fold[r.rfq.vehicle]],
                      km |-> a.km, tolls |-> a.tolls,
                      asked |-> clock, expires |-> WeekEnd[r.now]]
           c(a) == [r EXCEPT !.copy = {row(a)}, !.pc = "reread"]
           d(a) == [r EXCEPT !.rows = @ \cup {row(a)}, !.pc = "leg"]
<1>1. /\ UNCHANGED <<clock, setup, file, front>> /\ r.pc = "ask"
      /\ \E a : Becomes(l, c(a)) \/ Becomes(l, d(a))
      /\ misspelt \subseteq misspelt'
      /\ Road(r.rfq.policy) # Road(Fold[r.rfq.policy])
           => Fold[r.rfq.policy] \in misspelt'
  BY DEF Ask, World, Caches, At
<1>2. PICK a : Becomes(l, c(a)) \/ Becomes(l, d(a))
  BY <1>1
<1>3. /\ LaneOK(r, clock, misspelt') /\ IsLane(r) /\ clock \in Int
      /\ r.leg \in Legs(r.rfq) /\ r.rfq \in AllRfqs
  BY <1>1, UnderWayIsLane, LanesGrow DEF LaneOK, Copied
<1> DEFINE x == row(a)
<1>4. /\ x.asked = clock /\ x.expires = WeekEnd[r.now] /\ x.leg = r.leg
      /\ x.key = SakbeKey(r.rfq, r.leg) /\ x.road = Road(r.rfq.policy)
      /\ x.nom = Nom[Fold[r.rfq.vehicle]]
  OBVIOUS
<1>5. x.expires \in Int /\ x.expires <= clock + Week /\ r.began < x.expires
      /\ r.began < clock + Week /\ r.began \in Int
  <2>1. /\ r.now \in 0 .. MaxClock /\ r.began \in Int
        /\ r.began <= r.now /\ r.now <= clock
    BY <1>1, <1>3 DEF LaneOK, Timed
  <2>2. /\ WeekEnd[r.now] \in Nat /\ r.now < WeekEnd[r.now]
        /\ WeekEnd[r.now] <= r.now + Week
    BY <2>1, TimesAssumption
  <2> QED BY <2>1, <2>2, <1>3, <1>4, TimesAssumption
<1>c. /\ IsLane(c(a)) /\ c(a).rfq = r.rfq /\ c(a).began = r.began /\ c(a).now = r.now
      /\ c(a).priced = r.priced /\ c(a).copy = {x} /\ c(a).rows = r.rows
      /\ c(a).leg = r.leg /\ c(a).pc = "reread"
  BY <1>3 DEF IsLane, LaneFields
<1>d. /\ IsLane(d(a)) /\ d(a).rfq = r.rfq /\ d(a).began = r.began /\ d(a).now = r.now
      /\ d(a).priced = r.priced /\ d(a).copy = r.copy /\ d(a).rows = r.rows \cup {x}
      /\ d(a).leg = r.leg /\ d(a).pc = "leg"
  BY <1>3 DEF IsLane, LaneFields
<1> DEFINE s == c(a)
           t == d(a)
<1>e. Becomes(l, s) \/ Becomes(l, t)
  BY <1>2
<1> HIDE DEF x, s, t
<1>6. ASSUME NEW rfq \in AllRfqs, NEW leg \in Legs(rfq), x.key = SakbeKey(rfq, leg)
      PROVE  Fits(x, rfq, misspelt')
  <2>1. /\ Fold[r.rfq.policy] = Fold[rfq.policy] /\ r.leg = leg
        /\ Nom[Fold[r.rfq.vehicle]] = Nom[Fold[rfq.vehicle]]
    BY <1>4, <1>6 DEF SakbeKey
  <2> QED BY <1>1, <1>4, <2>1 DEF Fits
<1>7. RowOK(x, misspelt') /\ x.asked \in Int
  BY <1>3, <1>4, <1>5, <1>6 DEF RowOK
<1>8. Fits(x, r.rfq, misspelt')
  BY <1>3, <1>4, <1>6
<1>9. CASE Becomes(l, s)
  <2>0. /\ IsLane(s) /\ s.rfq = r.rfq /\ s.began = r.began /\ s.now = r.now
        /\ s.priced = r.priced /\ s.copy = {x} /\ s.rows = r.rows
        /\ s.leg = r.leg /\ s.pc = "reread"
    BY <1>c DEF s
  <2>1. Timed(s, clock)
    BY <1>1, <1>3, <2>0 DEF LaneOK, Timed, Over
  <2>2. Routed(s, misspelt')
    BY <1>1, <1>3, <2>0 DEF LaneOK, Routed, Early, Looking, Upserts, Over, Rated
  <2>3. Copied(s, misspelt')
    BY <1>3, <1>4, <1>5, <1>7, <2>0 DEF Copied, Upserts
  <2> QED BY <1>1, <1>3, <1>9, <2>0, <2>1, <2>2, <2>3, LooksKept DEF LaneOK
<1>10. CASE Becomes(l, t)
  <2>0. /\ IsLane(t) /\ t.rfq = r.rfq /\ t.began = r.began /\ t.now = r.now
        /\ t.priced = r.priced /\ t.copy = r.copy /\ t.rows = r.rows \cup {x}
        /\ t.leg = r.leg /\ t.pc = "leg"
    BY <1>d DEF t
  <2>1. Timed(t, clock)
    BY <1>1, <1>3, <2>0 DEF LaneOK, Timed, Over
  <2>2. \A y \in t.rows : /\ y.asked \in Int /\ Fits(y, t.rfq, misspelt')
                          /\ t.began < y.asked + Week
    BY <1>1, <1>3, <1>4, <1>5, <1>7, <1>8, <2>0 DEF LaneOK, Routed, Looking
  <2>3. \A y \in t.rows : t.began < y.asked + Week + RouteTtl
    BY <2>0, <2>2, <1>5, TimesAssumption
  <2>4. Routed(t, misspelt')
    BY <2>0, <2>2, <2>3 DEF Routed, Early, Looking, Rated
  <2>5. Copied(t, misspelt')
    BY <1>1, <1>3, <2>0 DEF LaneOK, Copied, Upserts
  <2> QED BY <1>1, <1>3, <1>10, <2>0, <2>1, <2>4, <2>5, LooksKept DEF LaneOK
<1> QED BY <1>e, <1>9, <1>10

LEMMA RereadKept ==
  ASSUME IInv, TypeOK', NEW l \in Lanes, Reread(l) PROVE IInv'
<1> DEFINE r == lane[l]
           s == [r EXCEPT !.copy = Upserted(file.rows, @), !.pc = "open"]
<1>1. /\ UNCHANGED <<clock, setup, file, front, misspelt>> /\ r.pc = "reread"
      /\ Becomes(l, s)
  BY DEF Reread, World, Caches, At
<1>2. LaneOK(r, clock, misspelt) /\ IsLane(r)
  BY <1>1, UnderWayIsLane
<1>3. /\ IsLane(s) /\ s.rfq = r.rfq /\ s.began = r.began /\ s.now = r.now
      /\ s.priced = r.priced /\ s.copy = Upserted(file.rows, r.copy)
      /\ s.rows = r.rows /\ s.leg = r.leg /\ s.pc = "open"
  BY <1>2 DEF IsLane, LaneFields
<1> HIDE DEF s
<1>4. Timed(s, clock)
  BY <1>1, <1>2, <1>3 DEF LaneOK, Timed, Over
<1>5. Routed(s, misspelt)
  BY <1>1, <1>2, <1>3 DEF LaneOK, Routed, Early, Looking, Upserts, Over, Rated
<1>6. Copied(s, misspelt)
  <2>1. \A x \in s.copy : RowOK(x, misspelt)
    BY <1>1, <1>2, <1>3 DEF LaneOK, Copied, Upserted, IInv, FileOK
  <2>2. \A x \in s.copy : x.key = SakbeKey(s.rfq, s.leg) => x \in r.copy
    BY <1>1, <1>2, <1>3 DEF LaneOK, Copied, Upserted
  <2>3. /\ s.leg \in Legs(s.rfq)
        /\ \A x \in s.copy : x.key = SakbeKey(s.rfq, s.leg) => s.began < x.asked + Week
    <3>1. /\ r.leg \in Legs(r.rfq)
          /\ \A x \in r.copy : x.key = SakbeKey(r.rfq, r.leg) => r.began < x.asked + Week
      BY <1>1, <1>2 DEF LaneOK, Copied, Upserts
    <3> QED BY <1>3, <2>2, <3>1
  <2> QED BY <2>1, <2>3, <1>3 DEF Copied, Upserts
<1> QED BY <1>1, <1>2, <1>3, <1>4, <1>5, <1>6, LooksKept DEF LaneOK

(* Which way a write goes for the file does not matter to a lane.          *)
LEMMA WholeKept ==
  ASSUME NEW r, NEW c, NEW w, NEW b, LaneOK(r, c, w), r.pc # "idle"
  PROVE  LaneOK([r EXCEPT !.whole = b], c, w)
<1> DEFINE s == [r EXCEPT !.whole = b]
<1>1. /\ IsLane(s) /\ s.pc = r.pc /\ s.rfq = r.rfq /\ s.began = r.began
      /\ s.now = r.now /\ s.priced = r.priced /\ s.copy = r.copy
      /\ s.rows = r.rows /\ s.leg = r.leg
  BY DEF LaneOK, IsLane, LaneFields
<1> HIDE DEF s
<1>2. Timed(s, c) /\ Routed(s, w) /\ Copied(s, w)
  BY <1>1 DEF LaneOK, Timed, Routed, Copied, Early
<1>3. LaneOK(s, c, w)
  BY <1>1, <1>2 DEF LaneOK
<1> QED BY <1>3 DEF s

LEMMA OpenKept ==
  ASSUME IInv, TypeOK', NEW l \in Lanes, OpenFile(l) PROVE IInv'
<1> DEFINE r == lane[l]
           s == [r EXCEPT !.pc = "fill", !.whole = TRUE]
<1>1. /\ UNCHANGED <<clock, setup, front, misspelt>> /\ r.pc = "open"
      /\ file' = EmptyFile
      /\ lane' = [m \in Lanes |->
           IF m = l THEN s
           ELSE IF At(m, "fill") THEN [lane[m] EXCEPT !.whole = TRUE] ELSE lane[m]]
  BY DEF OpenFile, World, Traces, At
<1>2. LaneOK(r, clock, misspelt) /\ IsLane(r)
  BY <1>1, UnderWayIsLane
<1>3. LaneOK(s, clock, misspelt)
  <2>1. /\ IsLane(s) /\ s.rfq = r.rfq /\ s.began = r.began /\ s.now = r.now
        /\ s.priced = r.priced /\ s.copy = r.copy
        /\ s.rows = r.rows /\ s.leg = r.leg /\ s.pc = "fill"
    BY <1>2 DEF IsLane, LaneFields
  <2> HIDE DEF s
  <2>2. Timed(s, clock)
    BY <1>1, <1>2, <2>1 DEF LaneOK, Timed, Over
  <2>3. Routed(s, misspelt)
    BY <1>1, <1>2, <2>1 DEF LaneOK, Routed, Early, Looking, Upserts, Over, Rated
  <2>4. Copied(s, misspelt)
    BY <1>1, <1>2, <2>1 DEF LaneOK, Copied, Upserts
  <2> QED BY <1>1, <1>2, <2>1, <2>2, <2>3, <2>4 DEF LaneOK
<1> HIDE DEF s
<1>4. LanesOK'
  <2>1. ASSUME NEW m \in Lanes PROVE LaneOK(lane'[m], clock, misspelt)
    <3>1. CASE m = l
      BY <1>1, <1>3, <3>1
    <3>2. CASE m # l /\ At(m, "fill")
      <4>1. LaneOK([lane[m] EXCEPT !.whole = TRUE], clock, misspelt)
        BY <3>2, WholeKept, UnderWayIsLane DEF At
      <4> QED BY <1>1, <3>2, <4>1
    <3>3. CASE m # l /\ ~ At(m, "fill")
      BY <1>1, <3>3 DEF IInv, LanesOK
    <3> QED BY <3>1, <3>2, <3>3
  <2> QED BY <1>1, <2>1 DEF LanesOK
<1>5. FileOK' /\ FrontOK'
  BY <1>1 DEF IInv, FileOK, FrontOK, EmptyFile
<1> QED BY <1>1, <1>4, <1>5 DEF IInv

LEMMA FillKept ==
  ASSUME IInv, TypeOK', NEW l \in Lanes, FillFile(l) PROVE IInv'
<1> DEFINE r == lane[l]
           mine == {x \in r.copy : x.key = SakbeKey(r.rfq, r.leg)}
           s == [r EXCEPT !.pc = "leg", !.copy = {}, !.rows = @ \cup mine]
<1>1. /\ UNCHANGED <<clock, setup, front, misspelt>> /\ r.pc = "fill"
      /\ file' \in Filled(l)
      /\ lane' = [m \in Lanes |->
           IF m = l THEN s
           ELSE IF At(m, "fill") THEN [lane[m] EXCEPT !.whole = FALSE] ELSE lane[m]]
  BY DEF FillFile, World, Traces, At
<1>2. LaneOK(r, clock, misspelt) /\ IsLane(r)
  BY <1>1, UnderWayIsLane
<1>3. /\ \A x \in r.copy : RowOK(x, misspelt)
      /\ \A x \in mine : /\ x.asked \in Int /\ Fits(x, r.rfq, misspelt)
                         /\ r.began < x.asked + Week
  BY <1>1, <1>2 DEF LaneOK, Copied, Upserts, RowOK
<1>4. LaneOK(s, clock, misspelt)
  <2>1. /\ IsLane(s) /\ s.rfq = r.rfq /\ s.began = r.began /\ s.now = r.now
        /\ s.priced = r.priced /\ s.copy = {}
        /\ s.rows = r.rows \cup mine /\ s.pc = "leg"
    BY <1>2 DEF IsLane, LaneFields
  <2> HIDE DEF s, mine
  <2>2. Timed(s, clock)
    BY <1>1, <1>2, <2>1 DEF LaneOK, Timed, Over
  <2>3. \A x \in s.rows : /\ x.asked \in Int /\ Fits(x, s.rfq, misspelt)
                          /\ s.began < x.asked + Week
    BY <1>1, <1>2, <1>3, <2>1 DEF LaneOK, Routed, Looking, Upserts
  <2>4. \A x \in s.rows : s.began < x.asked + Week + RouteTtl
    <3>1. s.began \in Int
      BY <2>2 DEF Timed
    <3> QED BY <2>3, <3>1, TimesAssumption
  <2>5. Routed(s, misspelt)
    BY <2>1, <2>3, <2>4 DEF Routed, Early, Looking, Rated
  <2>6. Copied(s, misspelt)
    BY <2>1 DEF Copied, Upserts
  <2> QED BY <1>1, <1>2, <2>1, <2>2, <2>5, <2>6 DEF LaneOK
<1> HIDE DEF s, mine
<1>5. LanesOK'
  <2>1. ASSUME NEW m \in Lanes PROVE LaneOK(lane'[m], clock, misspelt)
    <3>1. CASE m = l
      BY <1>1, <1>4, <3>1
    <3>2. CASE m # l /\ At(m, "fill")
      <4>1. LaneOK([lane[m] EXCEPT !.whole = FALSE], clock, misspelt)
        BY <3>2, WholeKept, UnderWayIsLane DEF At
      <4> QED BY <1>1, <3>2, <4>1
    <3>3. CASE m # l /\ ~ At(m, "fill")
      BY <1>1, <3>3 DEF IInv, LanesOK
    <3> QED BY <3>1, <3>2, <3>3
  <2> QED BY <1>1, <2>1 DEF LanesOK
<1>6. FileOK' /\ FrontOK'
  BY <1>1, <1>3 DEF IInv, FileOK, FrontOK, Filled, TornFile
<1> QED BY <1>1, <1>5, <1>6 DEF IInv

(* A write that fails half way leaves less than it would have written.     *)
LEMMA FillFailsKept ==
  ASSUME IInv, TypeOK', NEW l \in Lanes, FillFails(l) PROVE IInv'
<1> DEFINE s == Failed(l, "write")
<1>1. /\ UNCHANGED <<clock, setup, front, misspelt>> /\ lane[l].pc = "fill"
      /\ file' \in {file, TornFile} \cup Filled(l)
      /\ lane' = [m \in Lanes |->
           IF m = l THEN s
           ELSE IF At(m, "fill") /\ file' # file
                THEN [lane[m] EXCEPT !.whole = FALSE] ELSE lane[m]]
  BY DEF FillFails, World, At
<1>2. LaneOK(s, clock, misspelt)
  BY <1>1, FailedIsOK DEF Over
<1>3. \A x \in lane[l].copy : RowOK(x, misspelt)
  BY <1>1, UnderWayIsLane DEF LaneOK, Copied, Upserts
<1> HIDE DEF s
<1>4. LanesOK'
  <2>1. ASSUME NEW m \in Lanes PROVE LaneOK(lane'[m], clock, misspelt)
    <3>1. CASE m = l
      BY <1>1, <1>2, <3>1
    <3>2. CASE m # l /\ At(m, "fill") /\ file' # file
      <4>1. LaneOK([lane[m] EXCEPT !.whole = FALSE], clock, misspelt)
        BY <3>2, WholeKept, UnderWayIsLane DEF At
      <4> QED BY <1>1, <3>2, <4>1
    <3>3. CASE m # l /\ ~ (At(m, "fill") /\ file' # file)
      BY <1>1, <3>3 DEF IInv, LanesOK
    <3> QED BY <3>1, <3>2, <3>3
  <2> QED BY <1>1, <2>1 DEF LanesOK
<1>5. FileOK' /\ FrontOK'
  BY <1>1, <1>3 DEF IInv, FileOK, FrontOK, Filled, TornFile
<1> QED BY <1>1, <1>4, <1>5 DEF IInv

LEMMA StoreKept ==
  ASSUME IInv, TypeOK', NEW l \in Lanes, Store(l) PROVE IInv'
<1> DEFINE r == lane[l]
           e == [key |-> RouteKey(r.rfq), rows |-> r.rows,
                 expires |-> clock + RouteTtl]
           s == [r EXCEPT !.pc = AfterRoute(l)]
<1>1. /\ UNCHANGED <<clock, setup, file, misspelt>> /\ r.pc = "leg"
      /\ front' \subseteq front \cup {e} /\ Becomes(l, s)
  BY DEF Store, World, Traces, At, Go, Put
<1>2. LaneOK(r, clock, misspelt) /\ IsLane(r) /\ clock \in Int
  BY <1>1, UnderWayIsLane
<1>3. EntryOK(e, misspelt)
  <2>1. e.key = RouteKey(r.rfq) /\ e.rows = r.rows /\ e.expires = clock + RouteTtl
    OBVIOUS
  <2> HIDE DEF e
  <2>2. \A x \in e.rows : /\ x.asked \in Int /\ Fits(x, r.rfq, misspelt)
                          /\ r.began < x.asked + Week
    BY <1>1, <1>2, <2>1 DEF LaneOK, Routed, Looking
  <2>3. \A x \in e.rows : e.expires <= x.asked + Week + RouteTtl
    <3>1. r.began \in Int /\ clock <= r.began + 1
      BY <1>1, <1>2 DEF LaneOK, Timed, Over
    <3> QED BY <1>2, <2>1, <2>2, <3>1, TimesAssumption
  <2>4. ASSUME NEW x \in e.rows, NEW rfq \in AllRfqs, e.key = RouteKey(rfq)
        PROVE  Fits(x, rfq, misspelt)
    <3>1. /\ r.rfq.from = rfq.from /\ r.rfq.to = rfq.to
          /\ Fold[r.rfq.vehicle] = Fold[rfq.vehicle]
          /\ Fold[r.rfq.policy] = Fold[rfq.policy] /\ r.rfq.return = rfq.return
      BY <2>1, <2>4 DEF RouteKey
    <3>2. Legs(r.rfq) = Legs(rfq)
      BY <3>1 DEF Legs
    <3> QED BY <2>2, <3>1, <3>2 DEF Fits
  <2> QED BY <1>2, <2>1, <2>2, <2>3, <2>4, TimesAssumption DEF EntryOK
<1>4. /\ Carried(s, r) /\ s.priced = r.priced /\ s.pc \in {"yields", "quote"}
      /\ ~ Early(s)
  BY <1>2 DEF IsLane, LaneFields, Carried, AfterRoute, Early, IsAgent
<1>5. Becomes(l, s)
  BY <1>1
<1> HIDE DEF e, s
<1>6. LaneOK(s, clock, misspelt)
  BY <1>1, <1>2, <1>4, Moves, PricedIsInt DEF Over, Looking, Upserts, Rated
<1>7. LanesOK'
  BY <1>1, <1>5, <1>6 DEF IInv, LanesOK, Becomes
<1>8. FileOK' /\ FrontOK'
  BY <1>1, <1>3 DEF IInv, FileOK, FrontOK
<1> QED BY <1>1, <1>7, <1>8 DEF IInv

LEMMA RouteStepKept ==
  ASSUME IInv, TypeOK', NEW l \in Lanes, RouteStep(l) PROVE IInv'
<1>1. ASSUME LoadConfig(l) PROVE IInv'
  BY <1>1 DEF LoadConfig, World, Caches, Traces, IInv, LanesOK, FileOK, FrontOK
<1> QED BY <1>1, FailStepsKept, FrontHitKept, FrontMissKept, ReadKept, AskKept,
          RereadKept, OpenKept, FillKept, FillFailsKept, StoreKept DEF RouteStep

-----------------------------------------------------------------------------
(* Crash, time, and the theorems                                           *)

LEMMA CrashKept ==
  ASSUME IInv, TypeOK', Crash PROVE IInv'
<1>1. LanesOK'
  BY DEF Crash, World, IInv, LanesOK, LaneOK, Idle
<1>2. FileOK' /\ FrontOK'
  BY DEF Crash, World, IInv, FileOK, FrontOK, TornFile
<1> QED BY <1>1, <1>2 DEF IInv, Crash, World

LEMMA TickKept ==
  ASSUME IInv, TypeOK', Tick PROVE IInv'
<1>1. /\ clock' = clock + 1 /\ UNCHANGED <<setup, lane, file, front, misspelt>>
      /\ \A l \in Lanes : UnderWay(l) => lane[l].began = clock
      /\ clock \in Int
  BY TimesAssumption DEF Tick, Caches, Traces, IInv, TypeOK
<1>2. ASSUME NEW l \in Lanes PROVE LaneOK(lane[l], clock', misspelt)
  <2>1. CASE lane[l].pc = "idle"
    BY <2>1 DEF LaneOK
  <2>2. CASE lane[l].pc # "idle"
    <3>1. LaneOK(lane[l], clock, misspelt)
      BY <2>2, UnderWayIsLane
    <3>2. Timed(lane[l], clock')
      <4>1. lane[l].pc \notin Over => lane[l].began = clock
        BY <1>1, <2>2 DEF UnderWay, Over
      <4>2. lane[l].pc = "ask" => lane[l].pc \notin Over
        BY DEF Over
      <4> QED BY <1>1, <2>2, <3>1, <4>1, <4>2, TimesAssumption DEF LaneOK, Timed
    <3> QED BY <3>1, <3>2 DEF LaneOK
  <2> QED BY <2>1, <2>2
<1> QED BY <1>1, <1>2 DEF IInv, LanesOK, FileOK, FrontOK

LEMMA TypeStep ==
  ASSUME TypeOK, setup \in Setups, [Next]_vars PROVE TypeOK'
<1> USE TimesAssumption DEF TypeOK
<1>1. ASSUME NEW l \in Lanes, Start(l) PROVE TypeOK'
  BY <1>1 DEF Start, World, Traces
<1>2. ASSUME NEW l \in Lanes, RouteStep(l) PROVE TypeOK'
  BY <1>2 DEF RouteStep, LoadConfig, ConfigFails, FrontHit, FrontMiss, ReadRouteFile,
     RouteFileUnreadable, Ask, AskFails, Reread, OpenFile, FillFile, WriteFails,
     FillFails, Store, World, Traces
<1>3. ASSUME NEW l \in Lanes, PriceStep(l) PROVE TypeOK'
  BY <1>3 DEF PriceStep, CachedYields, LoadYields, YieldsFail, Quote, ReadHistory,
     HistoryFails, Recommend, RecommendFails, World, Traces
<1>4. ASSUME Crash PROVE TypeOK'
  BY <1>4 DEF Crash, World
<1>5. ASSUME Tick PROVE TypeOK'
  BY <1>5 DEF Tick, Traces
<1>6. ASSUME UNCHANGED vars PROVE TypeOK'
  BY <1>6 DEF vars
<1> QED BY <1>1, <1>2, <1>3, <1>4, <1>5, <1>6 DEF Next, LaneStep

LEMMA InitInv ==
  ASSUME Init PROVE IInv
<1>1. TypeOK /\ setup \in Setups
  <2>1. clock = 0 /\ config = "unread" /\ disturbed = FALSE /\ setup \in Setups
    BY DEF Init
  <2>2. 0 \in 0 .. MaxClock
    BY TimesAssumption
  <2> QED BY <2>1, <2>2 DEF TypeOK
<1>2. LanesOK
  <2>1. lane = [l \in Lanes |-> Idle] /\ \A l \in Lanes : lane[l].pc = "idle"
    BY DEF Init, Idle
  <2>2. lane = [l \in Lanes |-> lane[l]]
    BY <2>1
  <2> QED BY <2>1, <2>2 DEF LanesOK, LaneOK
<1>3. FileOK /\ FrontOK
  BY DEF Init, FileOK, FrontOK, EmptyFile
<1> QED BY <1>1, <1>2, <1>3 DEF IInv

LEMMA StepInv ==
  ASSUME IInv, [Next]_vars PROVE IInv'
<1>1. TypeOK'
  BY TypeStep DEF IInv
<1>2. ASSUME UNCHANGED vars PROVE IInv'
  BY <1>1, <1>2 DEF vars, IInv, LanesOK, FileOK, FrontOK
<1> QED BY <1>1, <1>2, StartKept, RouteStepKept, PriceStepKept, CrashKept, TickKept
        DEF Next, LaneStep

(* No lane ever rests on a route older than a tariff week and the life of  *)
(* an entry in front: the expiry tests of postSakbe's cache and of the     *)
(* runtime cache bound the age together, though neither knows the other.   *)
THEOREM RecentRoutes == Spec => []RouteIsRecent
<1>1. IInv => RouteIsRecent
  <2> SUFFICES ASSUME IInv, NEW l \in Lanes,
                      lane[l].pc \in {"history", "recommend", "done"},
                      NEW r \in lane[l].rows
               PROVE  lane[l].priced - r.asked <= Week + RouteTtl
    BY DEF RouteIsRecent
  <2>1. /\ lane[l].priced \in Int /\ r.asked \in Int
        /\ lane[l].priced <= r.asked + Week + RouteTtl
    BY UnderWayIsLane DEF LaneOK, Timed, Routed, Rated
  <2> QED BY <2>1, TimesAssumption
<1> QED BY <1>1, InitInv, StepInv, PTL DEF Spec

(* No cache key mixes up the routes of two lanes: what a lane takes from   *)
(* the cache in front or from route-cache.json was asked for its own       *)
(* directions and axles, and its kind of road unless the word was misspelt.*)
THEOREM OwnRoutes == Spec => []RouteIsItsOwn
<1>1. IInv => RouteIsItsOwn
  BY UnderWayIsLane DEF LaneOK, Routed, Fits, RouteIsItsOwn
<1> QED BY <1>1, InitInv, StepInv, PTL DEF Spec

-----------------------------------------------------------------------------
(* The file, while its writes are undisturbed                              *)

Holding == {"open", "fill"}

Covers(kept, rows) == \A x \in rows : \E k \in kept : k.key = x.key

(* Rows whose keys are in the file, or will be when the lane that has      *)
(* truncated it has filled it again.                                       *)
Safe(rows) ==
  /\ (\A m \in Lanes : ~ At(m, "fill")) => Covers(file.rows, rows)
  /\ \A m \in Lanes : At(m, "fill") => Covers(lane[m].copy, rows)

Alone ==
  \A l, m \in Lanes : lane[l].pc \in Holding /\ lane[m].pc \in Holding => l = m

Intact ==
  /\ ~ file.torn
  /\ \A l \in Lanes : /\ At(l, "fill") => lane[l].whole /\ file.rows = {}
                      /\ At(l, "open") => Covers(lane[l].copy, file.rows)

NeverUnreadable == \A l \in Lanes : lane[l].pc # "idle" => lane[l].cause # "file"

RowsSafe ==
  setup.cacheFirst =>
    /\ \A l \in Lanes : lane[l].pc # "idle" => Safe(lane[l].rows)
    /\ \A e \in front : Safe(e.rows)

Quiet == Alone /\ Intact /\ NeverUnreadable /\ RowsSafe

QuietInv == disturbed \/ Quiet

(* A step of one lane that leaves the file and the cache in front alone    *)
(* and neither starts nor ends a write.                                    *)
Aside(l, s) ==
  /\ l \in Lanes /\ lane' = [lane EXCEPT ![l] = s]
  /\ lane[l].pc # "fill" /\ s.pc \notin Holding /\ s.pc # "idle" /\ s.cause # "file"
  /\ setup.cacheFirst => Safe(s.rows)
  /\ UNCHANGED <<setup, file, front>>

LEMMA AsideQuiet ==
  ASSUME IInv, Quiet, NEW l, NEW s, Aside(l, s) PROVE Quiet'
<1>1. lane = [m \in Lanes |-> lane[m]] /\ l \in Lanes
  BY DEF IInv, LanesOK, Aside
<1>2. \A m \in Lanes : lane'[m] = IF m = l THEN s ELSE lane[m]
  BY <1>1 DEF Aside
<1>3. \A m \in Lanes : At(m, "fill")' <=> At(m, "fill")
  BY <1>2 DEF Aside, At, Holding
<1>4. \A m \in Lanes : At(m, "fill") => m # l /\ lane'[m] = lane[m]
  BY <1>2 DEF Aside, At
<1>5. ASSUME NEW rows, Safe(rows) PROVE Safe(rows)'
  BY <1>3, <1>4, <1>5 DEF Aside, Safe, Covers
<1>6. Alone'
  BY <1>2 DEF Aside, Quiet, Alone
<1>7. Intact'
  BY <1>2 DEF Aside, Quiet, Intact, Covers, At, Holding
<1>8. NeverUnreadable'
  BY <1>2 DEF Aside, Quiet, NeverUnreadable
<1>9. RowsSafe'
  BY <1>2, <1>5 DEF Aside, Quiet, RowsSafe
<1> QED BY <1>6, <1>7, <1>8, <1>9 DEF Quiet

LEMMA NothingIsSafe == Safe({})
BY DEF Safe, Covers

LEMMA FailQuiet ==
  ASSUME IInv, Quiet, NEW l \in Lanes, NEW cause, RouteFails(l, cause),
         cause # "file", lane[l].pc \notin {"idle", "fill"},
         UNCHANGED <<setup, file, front>>
  PROVE  Quiet'
<1> DEFINE r == lane[l]
           s == Failed(l, cause)
<1>1. lane' = [lane EXCEPT ![l] = s]
  BY DEF RouteFails, Becomes
<1>2. s.pc \in {"failed", "quote"} /\ s.cause = cause /\ s.rows = {}
  BY UnderWayIsLane DEF Failed, IsLane, LaneFields
<1> HIDE DEF s
<1>3. Aside(l, s)
  BY <1>1, <1>2, NothingIsSafe DEF Aside, Holding
<1> QED BY <1>3, AsideQuiet

(* A lane that goes on with the rows it has.                               *)
LEMMA OnQuiet ==
  ASSUME IInv, Quiet, NEW l \in Lanes, NEW s, Becomes(l, s),
         lane[l].pc \notin {"idle", "fill"}, s.pc \notin Holding, s.pc # "idle",
         s.rows = lane[l].rows, s.cause = lane[l].cause \/ s.cause # "file",
         UNCHANGED <<setup, file, front>>
  PROVE  Quiet'
<1>1. Aside(l, s)
  BY DEF Aside, Becomes, Quiet, RowsSafe, NeverUnreadable
<1> QED BY <1>1, AsideQuiet

LEMMA CauseNotFile ==
  ASSUME Quiet, NEW l \in Lanes, lane[l].pc # "idle" PROVE lane[l].cause # "file"
BY DEF Quiet, NeverUnreadable

LEMMA PriceQuiet ==
  ASSUME IInv, Quiet, NEW l \in Lanes, PriceStep(l) PROVE Quiet'
<1> DEFINE r == lane[l]
<1>1. /\ r.pc \in {"yields", "quote", "history", "recommend"}
      /\ UNCHANGED <<setup, file, front>>
  BY DEF PriceStep, CachedYields, LoadYields, YieldsFail, Quote, ReadHistory,
     HistoryFails, Recommend, RecommendFails, World, Caches, At
<1>2. IsLane(r)
  BY <1>1, UnderWayIsLane
<1>3. ASSUME NEW told, TakeYields(l, told) PROVE Quiet'
  <2> DEFINE s == [r EXCEPT !.pc = IF IsAgent(l) THEN "quote" ELSE "tools",
                            !.kpl = told,
                            !.reasons = IF ~ IsAgent(l) /\ StaleProfiles(told) # {}
                                        THEN @ \cup {"tms_performance_stale"} ELSE @]
  <2>1. Becomes(l, s)
    BY <1>3 DEF TakeYields
  <2>2. s.rows = r.rows /\ s.cause = r.cause /\ s.pc \in {"quote", "tools"}
    BY <1>2 DEF IsLane, LaneFields
  <2> HIDE DEF s
  <2> QED BY <1>1, <2>1, <2>2, OnQuiet DEF Holding
<1>4. ASSUME Quote(l) PROVE Quiet'
  <2>1. PICK quote : Becomes(l, [r EXCEPT
          !.pc = "history", !.quote = quote, !.priced = clock,
          !.reasons = IF IsAgent(l) THEN @ ELSE @ \cup quote.reasons])
    BY <1>4 DEF Quote
  <2> DEFINE s == [r EXCEPT !.pc = "history", !.quote = quote, !.priced = clock,
                     !.reasons = IF IsAgent(l) THEN @ ELSE @ \cup quote.reasons]
  <2>2. Becomes(l, s) /\ s.rows = r.rows /\ s.cause = r.cause /\ s.pc = "history"
    BY <1>2, <2>1 DEF IsLane, LaneFields
  <2> HIDE DEF s
  <2> QED BY <1>1, <2>2, OnQuiet DEF Holding
<1>5. ASSUME ReadHistory(l) PROVE Quiet'
  <2> DEFINE a(band, verdict) == [r EXCEPT !.pc = "recommend", !.band = band,
                                           !.verdict = verdict]
             b(x) == [r EXCEPT !.pc = "recommend",
                        !.reasons = IF x.insufficient = {} THEN @
                                    ELSE @ \cup {"historical_context_insufficient"}]
  <2>1. (\E band, verdict : Becomes(l, a(band, verdict))) \/ (\E x : Becomes(l, b(x)))
    BY <1>5 DEF ReadHistory
  <2>2. \A band, verdict : /\ a(band, verdict).pc = "recommend"
                           /\ a(band, verdict).rows = r.rows
                           /\ a(band, verdict).cause = r.cause
    BY <1>2 DEF IsLane, LaneFields
  <2>3. \A x : b(x).pc = "recommend" /\ b(x).rows = r.rows /\ b(x).cause = r.cause
    BY <1>2 DEF IsLane, LaneFields
  <2> HIDE DEF a, b
  <2> QED BY <1>1, <2>1, <2>2, <2>3, OnQuiet DEF Holding
<1>6. ASSUME HistoryFails(l) PROVE Quiet'
  <2> DEFINE s == IF IsAgent(l) THEN [r EXCEPT !.pc = "failed", !.cause = "history"]
                  ELSE [r EXCEPT !.pc = "recommend",
                          !.reasons = @ \cup {"tms_historical_unavailable",
                                              "historical_context_insufficient"}]
  <2>1. Becomes(l, s)
    BY <1>6 DEF HistoryFails
  <2>2. /\ s.rows = r.rows /\ s.cause \in {r.cause, "history"}
        /\ s.pc \in {"failed", "recommend"}
    BY <1>2 DEF IsLane, LaneFields
  <2> HIDE DEF s
  <2> QED BY <1>1, <2>1, <2>2, OnQuiet DEF Holding
<1>7. ASSUME Recommend(l) PROVE Quiet'
  <2> DEFINE s == [r EXCEPT !.pc = "done"]
  <2>1. Becomes(l, s)
    BY <1>7 DEF Recommend, Go
  <2>2. s.rows = r.rows /\ s.cause = r.cause /\ s.pc = "done"
    BY <1>2 DEF IsLane, LaneFields
  <2> HIDE DEF s
  <2> QED BY <1>1, <2>1, <2>2, OnQuiet DEF Holding
<1>8. ASSUME RecommendFails(l) PROVE Quiet'
  <2> DEFINE s == IF IsAgent(l) THEN [r EXCEPT !.pc = "failed", !.cause = "model"]
                  ELSE [r EXCEPT !.pc = "done",
                                 !.reasons = @ \cup {"ai_recommendation_failed"}]
  <2>1. Becomes(l, s)
    BY <1>8 DEF RecommendFails
  <2>2. s.rows = r.rows /\ s.cause \in {r.cause, "model"} /\ s.pc \in {"failed", "done"}
    BY <1>2 DEF IsLane, LaneFields
  <2> HIDE DEF s
  <2> QED BY <1>1, <2>1, <2>2, OnQuiet DEF Holding
<1> QED BY <1>3, <1>4, <1>5, <1>6, <1>7, <1>8
        DEF PriceStep, CachedYields, LoadYields, YieldsFail

-----------------------------------------------------------------------------
LEMMA StartQuiet ==
  ASSUME IInv, Quiet, NEW l \in Lanes, Start(l) PROVE Quiet'
<1>1. PICK rfq \in setup.rfqs : Becomes(l,
        [pc |-> IF rfq.engine = "agent" THEN "tools" ELSE "yields",
         rfq |-> rfq, began |-> clock, now |-> clock, leg |-> None,
         rows |-> {}, copy |-> {},
         whole |-> TRUE, kpl |-> None, quote |-> None, priced |-> clock,
         band |-> Gate!NoBand, verdict |-> None, reasons |-> {}, cause |-> None])
  BY DEF Start
<1> DEFINE s ==
        [pc |-> IF rfq.engine = "agent" THEN "tools" ELSE "yields",
         rfq |-> rfq, began |-> clock, now |-> clock, leg |-> None,
         rows |-> {}, copy |-> {},
         whole |-> TRUE, kpl |-> None, quote |-> None, priced |-> clock,
         band |-> Gate!NoBand, verdict |-> None, reasons |-> {}, cause |-> None]
<1>2. s.pc \in {"tools", "yields"} /\ s.rows = {} /\ s.cause = None /\ Becomes(l, s)
  BY <1>1
<1>3. lane[l].pc # "fill" /\ UNCHANGED <<setup, file, front>>
  BY DEF Start, UnderWay, World, Caches
<1> HIDE DEF s
<1>4. Aside(l, s)
  BY <1>2, <1>3, NothingIsSafe, NoneAssumption DEF Aside, Becomes, Holding
<1> QED BY <1>4, AsideQuiet

(* The steps that find a route without writing the file.                   *)
LEMMA LookQuiet ==
  ASSUME IInv, Quiet, NEW l \in Lanes,
         \/ ConfigFails(l) \/ FrontHit(l) \/ FrontMiss(l) \/ ReadRouteFile(l)
         \/ Ask(l) \/ AskFails(l) \/ WriteFails(l)
  PROVE  Quiet'
<1> DEFINE r == lane[l]
<1>1. /\ r.pc \in {"tools", "leg", "ask", "open"} /\ UNCHANGED <<setup, file, front>>
  BY DEF ConfigFails, FrontHit, FrontMiss, ReadRouteFile, Ask, AskFails,
     WriteFails, World, Caches, At
<1>2. IsLane(r)
  BY <1>1, UnderWayIsLane
<1>3. ASSUME NEW cause \in {"config", "vehicle", "uncached", "sakbe", "write"},
             RouteFails(l, cause)
      PROVE  Quiet'
  BY <1>1, <1>3, FailQuiet
<1>4. ASSUME FrontHit(l) PROVE Quiet'
  <2>1. PICK e \in front : Becomes(l, [r EXCEPT !.rows = e.rows, !.pc = AfterRoute(l)])
    BY <1>4 DEF FrontHit, Live
  <2> DEFINE s == [r EXCEPT !.rows = e.rows, !.pc = AfterRoute(l)]
  <2>2. /\ Becomes(l, s) /\ s.rows = e.rows /\ s.cause = r.cause
        /\ s.pc \in {"yields", "quote"}
    BY <1>2, <2>1 DEF IsLane, LaneFields, AfterRoute
  <2> HIDE DEF s
  <2>3. Aside(l, s)
    BY <1>1, <2>2, CauseNotFile DEF Aside, Becomes, Holding, Quiet, RowsSafe
  <2> QED BY <2>3, AsideQuiet
<1>5. ASSUME FrontMiss(l) PROVE Quiet'
  <2>1. CASE RouteFails(l, "vehicle")
    BY <2>1, <1>3
  <2>2. CASE Go(l, "leg")
    <3> DEFINE s == [r EXCEPT !.pc = "leg"]
    <3>1. Becomes(l, s) /\ s.rows = r.rows /\ s.cause = r.cause /\ s.pc = "leg"
      BY <1>2, <2>2 DEF IsLane, LaneFields, Go
    <3> HIDE DEF s
    <3> QED BY <1>1, <3>1, OnQuiet DEF Holding
  <2> QED BY <1>5, <2>1, <2>2 DEF FrontMiss
<1>6. ASSUME ReadRouteFile(l) PROVE Quiet'
  <2> DEFINE a(row) == [r EXCEPT !.rows = @ \cup {row}]
             b == [r EXCEPT !.pc = "ask", !.now = clock, !.leg = NextLeg(l)]
  <2>1. \/ \E row \in file.rows : setup.cacheFirst /\ Becomes(l, a(row))
        \/ Becomes(l, b)
        \/ RouteFails(l, "uncached")
    BY <1>6 DEF ReadRouteFile, Live
  <2>2. ASSUME NEW row \in file.rows, Becomes(l, a(row)) PROVE Quiet'
    <3>1. r.pc = "leg"
      BY <1>6 DEF ReadRouteFile, At
    <3>2. /\ a(row).rows = r.rows \cup {row} /\ a(row).cause = r.cause
          /\ a(row).pc = "leg"
      BY <1>2, <3>1 DEF IsLane, LaneFields
    <3>3. \A m \in Lanes : ~ At(m, "fill")
      BY DEF Quiet, Intact
    <3>4. setup.cacheFirst => Safe(r.rows \cup {row})
      BY <3>1, <3>3 DEF Quiet, RowsSafe, Safe, Covers
    <3> HIDE DEF a
    <3>5. Aside(l, a(row))
      BY <1>1, <2>2, <3>1, <3>2, <3>4, CauseNotFile DEF Aside, Becomes, Holding
    <3> QED BY <3>5, AsideQuiet
  <2>3. ASSUME Becomes(l, b) PROVE Quiet'
    <3>1. b.rows = r.rows /\ b.cause = r.cause /\ b.pc = "ask"
      BY <1>2 DEF IsLane, LaneFields
    <3> HIDE DEF b
    <3> QED BY <1>1, <2>3, <3>1, OnQuiet DEF Holding
  <2> QED BY <2>1, <2>2, <2>3, <1>3
<1>7. ASSUME Ask(l) PROVE Quiet'
  <2> DEFINE a(row) == [r EXCEPT !.copy = {row}, !.pc = "reread"]
             b(row) == [r EXCEPT !.rows = @ \cup {row}, !.pc = "leg"]
  <2>1. PICK row : Becomes(l, IF setup.cacheFirst THEN a(row) ELSE b(row))
    BY <1>7 DEF Ask
  <2>2. CASE setup.cacheFirst
    <3>1. a(row).rows = r.rows /\ a(row).cause = r.cause /\ a(row).pc = "reread"
      BY <1>2 DEF IsLane, LaneFields
    <3> HIDE DEF a
    <3> QED BY <1>1, <2>1, <2>2, <3>1, OnQuiet DEF Holding
  <2>3. CASE ~ setup.cacheFirst
    <3>1. b(row).cause = r.cause /\ b(row).pc = "leg"
      BY <1>2 DEF IsLane, LaneFields
    <3> HIDE DEF b
    <3>2. Aside(l, b(row))
      BY <1>1, <2>1, <2>3, <3>1, <1>7, CauseNotFile DEF Aside, Becomes, Holding
    <3> QED BY <3>2, AsideQuiet
  <2> QED BY <2>2, <2>3
<1>8. ASSUME ConfigFails(l) \/ AskFails(l) \/ WriteFails(l) PROVE Quiet'
  BY <1>3, <1>8 DEF ConfigFails, AskFails, WriteFails
<1> QED BY <1>4, <1>5, <1>6, <1>7, <1>8

-----------------------------------------------------------------------------
(* The steps that write the file                                           *)

LEMMA RereadQuiet ==
  ASSUME IInv, Quiet, NEW l \in Lanes, Reread(l), ~ disturbed' PROVE Quiet'
<1> DEFINE r == lane[l]
           s == [r EXCEPT !.copy = Upserted(file.rows, @), !.pc = "open"]
<1>1. /\ r.pc = "reread" /\ Becomes(l, s) /\ UNCHANGED <<setup, file, front>>
      /\ \A m \in Lanes : m # l => lane[m].pc \notin Holding
  BY DEF Reread, World, Caches, At, Upserting, Holding
<1>2. /\ s.copy = Upserted(file.rows, r.copy) /\ s.pc = "open" /\ s.rows = r.rows
      /\ s.cause = r.cause
  BY <1>1, UnderWayIsLane DEF IsLane, LaneFields
<1>3. Covers(s.copy, file.rows)
  BY <1>2 DEF Covers, Upserted
<1> HIDE DEF s
<1>4. lane = [m \in Lanes |-> lane[m]]
  BY DEF IInv, LanesOK
<1>5. \A m \in Lanes : lane'[m] = IF m = l THEN s ELSE lane[m]
  BY <1>1, <1>4 DEF Becomes
<1>6. \A m \in Lanes : ~ At(m, "fill") /\ ~ At(m, "fill")'
  BY <1>1, <1>2, <1>5 DEF At, Holding
<1>7. Alone'
  BY <1>1, <1>5 DEF Alone
<1>8. Intact'
  BY <1>1, <1>2, <1>3, <1>5, <1>6 DEF Quiet, Intact, At, Holding, Covers
<1>9. NeverUnreadable'
  BY <1>1, <1>2, <1>5 DEF Quiet, NeverUnreadable
<1>10. RowsSafe'
  BY <1>1, <1>2, <1>5, <1>6 DEF Quiet, RowsSafe, Safe, Covers
<1> QED BY <1>7, <1>8, <1>9, <1>10 DEF Quiet

(* Between truncating the file and filling it, its rows are in the copy.   *)
LEMMA OpenQuiet ==
  ASSUME IInv, Quiet, NEW l \in Lanes, OpenFile(l) PROVE Quiet'
<1> DEFINE r == lane[l]
           s == [r EXCEPT !.pc = "fill", !.whole = TRUE]
<1>1. /\ r.pc = "open" /\ UNCHANGED <<setup, front>> /\ file' = EmptyFile
      /\ lane' = [m \in Lanes |->
           IF m = l THEN s
           ELSE IF At(m, "fill") THEN [lane[m] EXCEPT !.whole = TRUE] ELSE lane[m]]
  BY DEF OpenFile, World, At
<1>2. /\ s.copy = r.copy /\ s.pc = "fill" /\ s.rows = r.rows /\ s.whole
      /\ s.cause = r.cause
  BY <1>1, UnderWayIsLane DEF IsLane, LaneFields
<1> HIDE DEF s
<1>3. \A m \in Lanes : m # l => lane[m].pc \notin Holding
  BY <1>1 DEF Quiet, Alone, Holding
<1>4. \A m \in Lanes : lane'[m] = IF m = l THEN s ELSE lane[m]
  BY <1>1, <1>3 DEF At, Holding
<1>5. \A m \in Lanes : ~ At(m, "fill") /\ (At(m, "fill")' <=> m = l)
  BY <1>1, <1>2, <1>3, <1>4 DEF At, Holding
<1>6. Covers(r.copy, file.rows)
  BY <1>1 DEF Quiet, Intact, At
<1>7. ASSUME NEW rows, Safe(rows) PROVE Safe(rows)'
  BY <1>2, <1>4, <1>5, <1>6, <1>7 DEF Safe, Covers
<1>8. Alone'
  BY <1>3, <1>4 DEF Alone
<1>9. Intact'
  BY <1>1, <1>2, <1>3, <1>4, <1>5 DEF Intact, At, EmptyFile, Holding
<1>10. NeverUnreadable'
  BY <1>1, <1>2, <1>4 DEF Quiet, NeverUnreadable
<1>11. RowsSafe'
  BY <1>1, <1>2, <1>4, <1>7 DEF Quiet, RowsSafe
<1> QED BY <1>8, <1>9, <1>10, <1>11 DEF Quiet

LEMMA FillQuiet ==
  ASSUME IInv, Quiet, NEW l \in Lanes, FillFile(l) PROVE Quiet'
<1> DEFINE r == lane[l]
           mine == {x \in r.copy : x.key = SakbeKey(r.rfq, r.leg)}
           s == [r EXCEPT !.pc = "leg", !.copy = {}, !.rows = @ \cup mine]
<1>1. /\ UNCHANGED <<setup, front>> /\ r.pc = "fill" /\ r.whole
      /\ file' \in Filled(l)
      /\ lane' = [m \in Lanes |->
           IF m = l THEN s
           ELSE IF At(m, "fill") THEN [lane[m] EXCEPT !.whole = FALSE] ELSE lane[m]]
  BY DEF FillFile, World, At, Quiet, Intact
<1>2. file' = [torn |-> FALSE, rows |-> r.copy]
  BY <1>1 DEF Filled
<1>3. /\ s.pc = "leg" /\ s.rows = r.rows \cup mine /\ s.cause = r.cause
  BY <1>1, UnderWayIsLane DEF IsLane, LaneFields
<1>4. mine \subseteq r.copy
  OBVIOUS
<1> HIDE DEF s, mine
<1>5. \A m \in Lanes : m # l => lane[m].pc \notin Holding
  BY <1>1 DEF Quiet, Alone, Holding
<1>6. \A m \in Lanes : lane'[m] = IF m = l THEN s ELSE lane[m]
  BY <1>1, <1>5 DEF At, Holding
<1>7. \A m \in Lanes : ~ At(m, "fill")' /\ (At(m, "fill") <=> m = l)
  BY <1>1, <1>3, <1>5, <1>6 DEF At, Holding
<1>8. ASSUME NEW rows, Safe(rows) PROVE Safe(rows)'
  BY <1>2, <1>7, <1>8 DEF Safe, Covers
<1>9. ASSUME NEW rows, Safe(rows), NEW more, more \subseteq r.copy
      PROVE  Safe(rows \cup more)'
  BY <1>2, <1>7, <1>8, <1>9 DEF Safe, Covers
<1>10. Alone'
  BY <1>3, <1>5, <1>6 DEF Alone, Holding
<1>11. Intact'
  BY <1>2, <1>3, <1>5, <1>6, <1>7 DEF Intact, At, Holding
<1>12. NeverUnreadable'
  BY <1>1, <1>3, <1>6 DEF Quiet, NeverUnreadable
<1>13. RowsSafe'
  <2>1. ASSUME setup.cacheFirst, NEW m \in Lanes, lane'[m].pc # "idle",
               NEW rows, rows = lane'[m].rows
        PROVE  Safe(rows)'
    <3>1. CASE m = l
      <4>1. PICK more : more = mine
        OBVIOUS
      <4>2. PICK old : old = r.rows
        OBVIOUS
      <4>3. Safe(old)
        BY <1>1, <2>1, <4>2 DEF Quiet, RowsSafe
      <4>4. rows = old \cup more /\ more \subseteq r.copy
        BY <1>3, <1>4, <1>6, <2>1, <3>1, <4>1, <4>2
      <4> QED BY <1>9, <4>3, <4>4
    <3>2. CASE m # l
      BY <1>6, <1>8, <2>1, <3>2 DEF Quiet, RowsSafe
    <3> QED BY <3>1, <3>2
  <2> QED BY <1>1, <1>8, <2>1 DEF Quiet, RowsSafe
<1> QED BY <1>10, <1>11, <1>12, <1>13 DEF Quiet

LEMMA StoreQuiet ==
  ASSUME IInv, Quiet, NEW l \in Lanes, Store(l) PROVE Quiet'
<1> DEFINE r == lane[l]
           e == [key |-> RouteKey(r.rfq), rows |-> r.rows,
                 expires |-> clock + RouteTtl]
           s == [r EXCEPT !.pc = AfterRoute(l)]
<1>1. /\ UNCHANGED <<setup, file>> /\ r.pc = "leg"
      /\ front' \subseteq front \cup {e} /\ Becomes(l, s)
  BY DEF Store, World, At, Go, Put
<1>2. s.pc \in {"yields", "quote"} /\ s.rows = r.rows /\ s.cause = r.cause
  BY <1>1, UnderWayIsLane DEF IsLane, LaneFields, AfterRoute
<1>3. e.rows = r.rows
  OBVIOUS
<1> HIDE DEF s, e
<1>4. lane = [m \in Lanes |-> lane[m]]
  BY DEF IInv, LanesOK
<1>5. \A m \in Lanes : lane'[m] = IF m = l THEN s ELSE lane[m]
  BY <1>1, <1>4 DEF Becomes
<1>6. \A m \in Lanes : At(m, "fill")' <=> At(m, "fill")
  BY <1>1, <1>2, <1>5 DEF At
<1>7. \A m \in Lanes : At(m, "fill") => lane'[m] = lane[m]
  BY <1>1, <1>5 DEF At
<1>8. ASSUME NEW rows, Safe(rows) PROVE Safe(rows)'
  BY <1>1, <1>6, <1>7, <1>8 DEF Safe, Covers
<1>9. Alone'
  BY <1>2, <1>5 DEF Quiet, Alone, Holding
<1>10. Intact'
  BY <1>1, <1>2, <1>5, <1>6 DEF Quiet, Intact, At, Covers
<1>11. NeverUnreadable'
  BY <1>1, <1>2, <1>5 DEF Quiet, NeverUnreadable
<1>12. RowsSafe'
  BY <1>1, <1>2, <1>3, <1>5, <1>8 DEF Quiet, RowsSafe
<1> QED BY <1>9, <1>10, <1>11, <1>12 DEF Quiet

LEMMA CrashQuiet ==
  ASSUME IInv, Quiet, Crash, ~ disturbed' PROVE Quiet'
<1>1. /\ \A m \in Lanes : ~ At(m, "fill")
      /\ UNCHANGED <<setup, file, front>>
      /\ lane' = [m \in Lanes |-> IF UnderWay(m) THEN Idle ELSE lane[m]]
  BY DEF Crash, World
<1>2. \A m \in Lanes : lane'[m].pc # "idle" =>
        lane'[m] = lane[m] /\ lane'[m].pc \notin Holding
  BY <1>1 DEF UnderWay, Idle, Holding
<1>3. \A m \in Lanes : lane'[m].pc \notin Holding
  BY <1>2 DEF Holding
<1>4. ASSUME NEW rows, Safe(rows) PROVE Safe(rows)'
  BY <1>1, <1>3, <1>4 DEF Safe, Covers, At, Holding
<1>5. Alone' /\ Intact'
  BY <1>1, <1>3 DEF Quiet, Alone, Intact, At, Holding
<1>6. NeverUnreadable' /\ RowsSafe'
  BY <1>1, <1>2, <1>4 DEF Quiet, NeverUnreadable, RowsSafe
<1> QED BY <1>5, <1>6 DEF Quiet

LEMMA StillQuiet ==
  ASSUME Quiet, UNCHANGED <<setup, file, front, lane>> PROVE Quiet'
BY DEF Quiet, Alone, Intact, NeverUnreadable, RowsSafe, Safe, Covers, At

LEMMA QuietStep ==
  ASSUME IInv, QuietInv, [Next]_vars PROVE QuietInv'
<1>1. disturbed => disturbed'
  <2>1. ASSUME NEW l \in Lanes, RouteStep(l) PROVE disturbed => disturbed'
    BY <2>1 DEF RouteStep, LoadConfig, ConfigFails, FrontHit, FrontMiss,
       ReadRouteFile, RouteFileUnreadable, Ask, AskFails, Reread, OpenFile,
       FillFile, WriteFails, FillFails, Store, Traces
  <2>2. ASSUME NEW l \in Lanes, PriceStep(l) PROVE disturbed => disturbed'
    BY <2>2 DEF PriceStep, CachedYields, LoadYields, YieldsFail, Quote,
       ReadHistory, HistoryFails, Recommend, RecommendFails, Traces
  <2> QED BY <2>1, <2>2 DEF Next, LaneStep, Start, Crash, Tick, Traces, vars
<1>2. ASSUME Quiet, ~ disturbed', NEW l \in Lanes, RouteStep(l) PROVE Quiet'
  <2>1. ASSUME LoadConfig(l) PROVE Quiet'
    BY <1>2, <2>1, StillQuiet DEF LoadConfig, World, Caches
  <2>2. ~ RouteFileUnreadable(l) /\ ~ FillFails(l)
    BY <1>2 DEF RouteFileUnreadable, FillFails, Quiet, Intact
  <2> QED BY <1>2, <2>1, <2>2, LookQuiet, RereadQuiet, OpenQuiet, FillQuiet,
            StoreQuiet DEF RouteStep
<1>3. ASSUME Quiet, Tick \/ UNCHANGED vars PROVE Quiet'
  BY <1>3, StillQuiet DEF Tick, Caches, vars
<1> QED BY <1>1, <1>2, <1>3, StartQuiet, PriceQuiet, CrashQuiet
        DEF QuietInv, Next, LaneStep

(* As long as no lane meets another that writes route-cache.json and every *)
(* write that truncated the file ends (upsertCache is a plain writeFile),  *)
(* no interleaving of lanes cuts the file short, fails a lane on reading   *)
(* it, or loses a row that a lane rests on: upsertCache keeps what it read.*)
THEOREM QuietFile == Spec => []QuietFileKeepsRows
<1>1. Init => QuietInv
  BY DEF Init, QuietInv, Quiet, Alone, Intact, NeverUnreadable, RowsSafe, Idle,
     EmptyFile, Holding, At
<1>2. QuietInv => QuietFileKeepsRows
  BY DEF QuietInv, Quiet, Intact, NeverUnreadable, RowsSafe, Safe, Covers,
     QuietFileKeepsRows, Writers, At
<1> QED BY <1>1, <1>2, InitInv, StepInv, QuietStep, PTL DEF Spec

-----------------------------------------------------------------------------
(* What a lane that nobody sees rests on.  Numbers are numbers wherever a  *)
(* row, a yield or an entry can be (Whole, ToldOK, BackedEntry); a lane    *)
(* past its route has rows for every direction or none; a lane of the      *)
(* legacy workflow remembers stale yields as a reason, so it has none left *)
(* when it has no reason; and a rate that no one has a reason to look at   *)
(* is grounded from the step that computes it on (Backed).                 *)

Whole(x) == x.km \in Int \cup {None} /\ x.tolls \in Int \cup {None}

AllTables == UNION {s.tables : s \in Setups}

ToldOK(t) == t = None \/ ( /\ t.table \in AllTables
                         /\ t.asked \in Int /\ t.expires \in Int
                         /\ t.expires <= t.asked + YieldTtl)

CoversLegs(rows, rfq) == \A leg \in Legs(rfq) : \E x \in rows : x.leg = leg

(* What a lane asks no human to look at, once it has a rate.               *)
Unseen(r) ==
  IF r.rfq.engine = "agent" THEN r.quote.status = "APPROVED" ELSE r.reasons = {}

Backed(r) ==
  /\ \A x \in r.rows \cup r.copy : Whole(x)
  /\ r.pc \notin Looking /\ r.rows # {} => CoversLegs(r.rows, r.rfq)
  /\ ToldOK(r.kpl)
  /\ r.kpl = None \/ r.began <= r.kpl.asked + YieldTtl
  /\ r.rfq.engine # "agent" /\ r.pc # "yields" /\ r.reasons = {}
       => StaleProfiles(r.kpl) = {}
  /\ r.pc \in Rated /\ Unseen(r) => IsGrounded(r)
  /\ r.pc \in {"recommend", "done"} /\ r.rfq.engine = "agent" /\ r.verdict = "auto"
       => r.quote.status = "APPROVED" /\ Gate!InBand(r.quote.rate, r.band)

BackedEntry(e) ==
  /\ \A x \in e.rows : Whole(x)
  /\ \A rfq \in AllRfqs : e.key = RouteKey(rfq) => CoversLegs(e.rows, rfq)

GInv ==
  /\ \A l \in Lanes : lane[l].pc = "idle" \/ Backed(lane[l])
  /\ \A x \in file.rows : Whole(x)
  /\ \A e \in front : BackedEntry(e)
  /\ ToldOK(yields)

-----------------------------------------------------------------------------
(* Every set of indices has a first.                                       *)
Less == {ss \in Nat \X Nat : ss[1] < ss[2]}

LEMMA FirstIndex ==
  ASSUME NEW n \in Nat, NEW S, S \subseteq 1 .. n, S # {}
  PROVE  \E i \in S : \A j \in 1 .. i - 1 : j \notin S
<1>1. S \subseteq Nat
  OBVIOUS
<1>2. IsWellFoundedOn(Less, Nat)
  BY NatLessThanWellFounded DEF OpToRel, Less
<1>3. PICK i \in S : \A j \in S : ~ (<<j, i>> \in Less)
  BY <1>1, <1>2, WFMin
<1>4. ASSUME NEW j \in 1 .. i - 1, j \in S PROVE FALSE
  <2>1. i \in Nat /\ j \in Nat /\ j < i
    BY <1>1, <1>4
  <2>2. <<j, i>> \in Less
    BY <2>1 DEF Less
  <2> QED BY <1>3, <1>4, <2>2
<1> QED BY <1>3, <1>4

LEMMA RbIsWhole ==
  ASSUME NEW km, NEW table, IsSequence(table),
         \A j \in DOMAIN table : table[j].pct \in Int
  PROVE  LookupRb(km, table) \in Int
<1> DEFINE Reaches(b) == b.upTo = None \/ km <= b.upTo
           S == {j \in DOMAIN table : Reaches(table[j])}
<1>1. PICK n \in Nat : DOMAIN table = 1 .. n
  BY DEF IsSequence
<1>2. CASE S = {}
  BY <1>2 DEF LookupRb, FirstOf
<1>3. CASE S # {}
  <2>1. \E i \in DOMAIN table : Reaches(table[i]) /\ \A j \in 1 .. i - 1 : ~ Reaches(table[j])
    <3>1. PICK i \in S : \A j \in 1 .. i - 1 : j \notin S
      BY <1>1, <1>3, FirstIndex
    <3> QED BY <1>1, <3>1
  <2> DEFINE c == CHOOSE i \in DOMAIN table :
                    Reaches(table[i]) /\ \A j \in 1 .. i - 1 : ~ Reaches(table[j])
  <2>2. c \in DOMAIN table
    BY <2>1
  <2>3. LookupRb(km, table) = IF table[c] = None THEN 50 ELSE table[c].pct
    BY <1>3 DEF LookupRb, FirstOf
  <2> HIDE DEF c
  <2> QED BY <2>2, <2>3
<1> QED BY <1>2, <1>3

LEMMA ResolveFinds ==
  ASSUME NEW rfq, NEW m, NEW n \in Nat, DOMAIN m.profiles = 1 .. n
  PROVE  \/ ResolveProfile(rfq, m) = None
         \/ \E i \in DOMAIN m.profiles : ResolveProfile(rfq, m) = m.profiles[i]
<1> DEFINE unit == ResolveBusinessUnit(rfq, m.units)
           s == m.profiles
           Named(p) == p.unit = unit /\ Fold[p.id] = Fold[rfq.vehicle]
           Mentioned(p) == p.unit = unit /\ Fold[rfq.vehicle] \in p.keywords
           byName == FirstOf(s, Named)
           other == FirstOf(s, Mentioned)
<1>1. DOMAIN s = 1 .. n
  OBVIOUS
<1>2. byName = None \/ \E i \in DOMAIN s : byName = s[i]
  <2> DEFINE S == {j \in DOMAIN s : Named(s[j])}
  <2>1. CASE S = {}
    BY <2>1 DEF FirstOf
  <2>2. CASE S # {}
    <3>1. \E i \in DOMAIN s : Named(s[i]) /\ \A j \in 1 .. i - 1 : ~ Named(s[j])
      <4>1. PICK i \in S : \A j \in 1 .. i - 1 : j \notin S
        BY <1>1, <2>2, FirstIndex
      <4> QED BY <1>1, <4>1
    <3> DEFINE c == CHOOSE i \in DOMAIN s :
                      Named(s[i]) /\ \A j \in 1 .. i - 1 : ~ Named(s[j])
    <3>2. c \in DOMAIN s
      BY <3>1
    <3>3. byName = s[c]
      BY <2>2 DEF FirstOf
    <3> QED BY <3>2, <3>3
  <2> QED BY <2>1, <2>2
<1>3. other = None \/ \E i \in DOMAIN s : other = s[i]
  <2> DEFINE S == {j \in DOMAIN s : Mentioned(s[j])}
  <2>1. CASE S = {}
    BY <2>1 DEF FirstOf
  <2>2. CASE S # {}
    <3>1. \E i \in DOMAIN s : Mentioned(s[i]) /\ \A j \in 1 .. i - 1 : ~ Mentioned(s[j])
      <4>1. PICK i \in S : \A j \in 1 .. i - 1 : j \notin S
        BY <1>1, <2>2, FirstIndex
      <4> QED BY <1>1, <4>1
    <3> DEFINE c == CHOOSE i \in DOMAIN s :
                      Mentioned(s[i]) /\ \A j \in 1 .. i - 1 : ~ Mentioned(s[j])
    <3>2. c \in DOMAIN s
      BY <3>1
    <3>3. other = s[c]
      BY <2>2 DEF FirstOf
    <3> QED BY <3>2, <3>3
  <2> QED BY <2>1, <2>2
<1>4. ResolveProfile(rfq, m) = IF rfq.client # m.client THEN None
                               ELSE IF byName # None THEN byName ELSE other
  BY DEF ResolveProfile
<1> HIDE DEF byName, other
<1> QED BY <1>2, <1>3, <1>4

-----------------------------------------------------------------------------
(* Profiles and prices                                                     *)

(* A profile that can be priced.                                           *)
Priceable(p) ==
  /\ \A f \in Amounts : p[f] \in Int
  /\ IsSequence(p.rbTable) /\ \A j \in DOMAIN p.rbTable : p.rbTable[j].pct \in Int

(* The same profile for what a human would look at.                        *)
SameTerms(p, q) == p.id = q.id /\ p.minimum = q.minimum /\ p.capacity = q.capacity

LEMMA OverlayDomain ==
  ASSUME NEW told, NEW model
  PROVE  DOMAIN PricingModelOverlay(OverlayTmsPerformance(told), model).profiles
           = DOMAIN Manifest.profiles
<1> DEFINE o == OverlayTmsPerformance(told)
<1>1. "profiles" \in DOMAIN o /\ DOMAIN o.profiles = DOMAIN Manifest.profiles
  BY ManifestAssumption DEF OverlayTmsPerformance
<1> HIDE DEF o
<1>2. DOMAIN PricingModelOverlay(o, model).profiles = DOMAIN Manifest.profiles
  BY <1>1 DEF PricingModelOverlay
<1> QED BY <1>2 DEF o

LEMMA OverlayKeeps ==
  ASSUME NEW told, ToldOK(told), NEW model, NEW i \in DOMAIN Manifest.profiles,
         NEW m, m = PricingModelOverlay(OverlayTmsPerformance(told), model)
  PROVE  /\ Priceable(m.profiles[i])
         /\ SameTerms(m.profiles[i], Manifest.profiles[i])
<1> DEFINE q == Manifest.profiles[i]
           Row(p) == CHOOSE r \in told.table : Fold[r.id] = Fold[p.id]
           Overlaid(j) ==
             IF \/ told = None \/ Manifest.profiles[j].source # "tms"
                \/ Manifest.profiles[j].id \in StaleProfiles(told)
             THEN Manifest.profiles[j]
             ELSE [Manifest.profiles[j] EXCEPT
                     !.loadedYield = Row(Manifest.profiles[j]).kpl,
                     !.emptyYield = Row(Manifest.profiles[j]).kpl]
           o == OverlayTmsPerformance(told)
           p == Overlaid(i)
<1>1. ProfileFields \subseteq DOMAIN q /\ Priceable(q)
  BY ManifestAssumption DEF Priceable
<1>2. /\ o.profiles = [j \in DOMAIN Manifest.profiles |-> Overlaid(j)]
      /\ "profiles" \in DOMAIN o
  BY ManifestAssumption DEF OverlayTmsPerformance
<1>3. o.profiles[i] = p /\ DOMAIN o.profiles = DOMAIN Manifest.profiles
  BY <1>2
<1>4. ProfileFields \subseteq DOMAIN p /\ Priceable(p) /\ SameTerms(p, q)
  <2>1. CASE p = q
    BY <1>1, <2>1 DEF SameTerms
  <2>2. CASE told # None /\ q.source = "tms" /\ q.id \notin StaleProfiles(told)
    <3>1. \E r \in told.table : Fold[r.id] = Fold[q.id]
      BY <2>2 DEF StaleProfiles
    <3>2. Row(q) \in told.table
      BY <3>1
    <3>3. Row(q).kpl \in Int
      BY <2>2, <3>2, SetupsAssumption DEF ToldOK, AllTables
    <3>4. p = [q EXCEPT !.loadedYield = Row(q).kpl, !.emptyYield = Row(q).kpl]
      BY <2>2
    <3> DEFINE k == Row(q).kpl
    <3>5. k \in Int /\ p = [q EXCEPT !.loadedYield = k, !.emptyYield = k]
      BY <3>3, <3>4
    <3> HIDE DEF k, Row, p
    <3>6. DOMAIN p = DOMAIN q
      BY <3>5
    <3>7. /\ p.loadedYield = k /\ p.emptyYield = k
          /\ \A f \in ProfileFields \ {"loadedYield", "emptyYield"} : p[f] = q[f]
      BY <1>1, <3>5 DEF ProfileFields
    <3>8. \A f \in Amounts : p[f] \in Int
      <4>1. \A f \in Amounts : q[f] \in Int
        BY <1>1 DEF Priceable
      <4>2. Amounts \subseteq ProfileFields
        BY DEF Amounts, ProfileFields
      <4> QED BY <3>5, <3>7, <4>1, <4>2
    <3>9. p.rbTable = q.rbTable /\ p.id = q.id /\ p.minimum = q.minimum
          /\ p.capacity = q.capacity
      BY <3>7 DEF ProfileFields
    <3> QED BY <1>1, <3>6, <3>8, <3>9 DEF Priceable, SameTerms
  <2> QED BY <2>1, <2>2
<1>5. CASE model = None
  BY <1>3, <1>4, <1>5 DEF PricingModelOverlay
<1>6. CASE model # None
  <2> HIDE DEF o, p
  <2>1. m = [o EXCEPT !.profiles =
               [j \in DOMAIN o.profiles |-> [o.profiles[j] EXCEPT !.model = model]]]
    BY <1>6 DEF PricingModelOverlay, o
  <2>2. m.profiles = [j \in DOMAIN o.profiles |-> [o.profiles[j] EXCEPT !.model = model]]
    BY <1>2, <2>1
  <2>3. m.profiles[i] = [p EXCEPT !.model = model]
    BY <1>3, <2>2
  <2>4. \A f \in ProfileFields \ {"model"} : m.profiles[i][f] = p[f]
    BY <1>4, <2>3 DEF ProfileFields
  <2>5. \A f \in Amounts \cup {"rbTable", "id"} : m.profiles[i][f] = p[f]
    BY <2>4 DEF Amounts, ProfileFields
  <2>6. \A f \in Amounts : m.profiles[i][f] \in Int
    BY <1>4, <2>5 DEF Priceable
  <2>7. /\ m.profiles[i].rbTable = p.rbTable /\ m.profiles[i].id = p.id
        /\ m.profiles[i].minimum = p.minimum /\ m.profiles[i].capacity = p.capacity
    BY <2>5 DEF Amounts
  <2> QED BY <1>4, <2>3, <2>6, <2>7 DEF Priceable, SameTerms
<1> QED BY <1>5, <1>6

-----------------------------------------------------------------------------
LEMMA RoundedIsWhole ==
  ASSUME NEW a \in Int, NEW b \in Int, b > 0 PROVE Rounded(a, b) \in Int
BY DEF Rounded

LEMMA AmountIsWhole ==
  ASSUME NEW x, x \in Int \cup {None}
  PROVE  /\ Amount(x) \in Int
         /\ Amount(x) # 0 => x \in Int /\ x > 0
BY DEF Amount, Known, Larger

WholeRoute(route) ==
  \A x \in {route.km, route.kmReturn, route.tolls, route.tollsReturn} :
    x \in Int \cup {None}

LEMMA ProductIsWhole ==
  ASSUME NEW a \in Int, NEW b \in Int PROVE a * b \in Int
OBVIOUS

LEMMA BaseIsWhole ==
  ASSUME NEW p, NEW route, Priceable(p), WholeRoute(route)
  PROVE  RbBaseCost(p, route) \in Int /\ KmOperational(route) \in Int
<1> DEFINE loaded == Larger(1, p.loadedYield)
           empty  == Larger(1, p.emptyYield)
<1>1. /\ p.loadedYield \in Int /\ p.emptyYield \in Int
      /\ p.diesel \in Int /\ p.operator \in Int
  BY DEF Priceable, Amounts
<1>2. /\ loaded \in Int /\ loaded > 0
      /\ empty \in Int /\ empty > 0
  BY <1>1 DEF Larger
<1>3. /\ Amount(route.km) \in Int /\ Amount(route.kmReturn) \in Int
      /\ Amount(route.tolls) \in Int /\ Amount(route.tollsReturn) \in Int
  BY AmountIsWhole DEF WholeRoute
<1>4. RbBaseCost(p, route) =
        Rounded(10 * p.diesel * (Amount(route.km) * empty
                                 + Amount(route.kmReturn) * loaded), loaded * empty)
        + Amount(route.tolls) + Amount(route.tollsReturn)
        + KmOperational(route) * p.operator
  BY DEF RbBaseCost
<1> HIDE DEF loaded, empty
<1>5. loaded * empty \in Int /\ loaded * empty > 0
  BY <1>2
<1>6. KmOperational(route) \in Int
  BY <1>3 DEF KmOperational
<1>7. Amount(route.km) * empty + Amount(route.kmReturn) * loaded \in Int
  <2>1. Amount(route.km) * empty \in Int /\ Amount(route.kmReturn) * loaded \in Int
    BY <1>2, <1>3, ProductIsWhole
  <2> QED BY <2>1
<1>8. 10 * p.diesel * (Amount(route.km) * empty + Amount(route.kmReturn) * loaded) \in Int
  <2>1. 10 * p.diesel \in Int
    BY <1>1
  <2> QED BY <1>7, <2>1, ProductIsWhole
<1>9. KmOperational(route) * p.operator \in Int
  BY <1>1, <1>6, ProductIsWhole
<1>10. Rounded(10 * p.diesel * (Amount(route.km) * empty
                               + Amount(route.kmReturn) * loaded), loaded * empty) \in Int
  BY <1>5, <1>8, RoundedIsWhole
<1> QED BY <1>3, <1>4, <1>6, <1>9, <1>10

LEMMA PriceIsWhole ==
  ASSUME NEW rfq, NEW p, NEW route, p # None, Priceable(p), WholeRoute(route),
         rfq.value \in Int
  PROVE  /\ Price(rfq, p, route).cost \in Int
         /\ Price(rfq, p, route).rate \in Int
<1> DEFINE pct == IF p.model = "profitability"
                  THEN LookupRb(KmOperational(route), p.rbTable) ELSE p.target
           cost == IF p.model = "profitability" THEN RbBaseCost(p, route)
                   ELSE FormulaCost(p, route, rfq.value)
           safe == IF IsValidMargin(pct) THEN pct ELSE 0
<1>1. /\ p.target \in Int /\ p.upkeep \in Int /\ p.insuranceMin \in Int
      /\ p.insuranceRate \in Int
  BY DEF Priceable, Amounts
<1>2. RbBaseCost(p, route) \in Int /\ KmOperational(route) \in Int
  BY BaseIsWhole
<1>3. LookupRb(KmOperational(route), p.rbTable) \in Int
  BY RbIsWhole DEF Priceable
<1>4. FormulaCost(p, route, rfq.value) \in Int
  <2>1. KmOperational(route) * p.upkeep \in Int /\ rfq.value * p.insuranceRate \in Int
    BY <1>1, <1>2, ProductIsWhole
  <2>2. Rounded(rfq.value * p.insuranceRate, 100) \in Int
    BY <2>1, RoundedIsWhole
  <2>3. Larger(p.insuranceMin, Rounded(rfq.value * p.insuranceRate, 100)) \in Int
    BY <1>1, <2>2 DEF Larger
  <2> QED BY <1>2, <2>1, <2>3 DEF FormulaCost
<1>5. cost \in Int /\ pct \in Int
  BY <1>1, <1>2, <1>3, <1>4
<1>6. Price(rfq, p, route) = [cost |-> cost, pct |-> pct, rate |-> Markup(cost, safe)]
  BY DEF Price
<1> HIDE DEF cost, pct
<1>7. safe \in Int /\ 100 - safe > 0
  BY <1>5 DEF IsValidMargin
<1>8. Markup(cost, safe) \in Int
  BY <1>5, <1>7, RoundedIsWhole DEF Markup
<1> QED BY <1>5, <1>6, <1>8

LEMMA MarginIsWhole ==
  ASSUME NEW rate \in Int, NEW cost \in Int PROVE RealMargin(rate, cost) \in Int
<1>1. CASE rate > 0
  BY <1>1, RoundedIsWhole DEF RealMargin
<1>2. CASE ~ (rate > 0)
  BY <1>2 DEF RealMargin
<1> QED BY <1>1, <1>2

-----------------------------------------------------------------------------
(* The evidence tells the distances of the rows.                           *)
LEMMA EvidenceIsOfRows ==
  ASSUME NEW l \in Lanes, lane[l].rfq.return \in BOOLEAN,
         \A x \in lane[l].rows : Whole(x),
         lane[l].rows # {} => CoversLegs(lane[l].rows, lane[l].rfq)
  PROVE  /\ WholeRoute(RouteEvidence(l))
         /\ EvidenceReasons(RouteEvidence(l)) = {} =>
              \A leg \in Legs(lane[l].rfq) :
                \E x \in lane[l].rows : x.leg = leg /\ x.km > 0
<1> DEFINE rfq == lane[l].rfq
           rows == lane[l].rows
           Row(leg) == CHOOSE r \in rows : r.leg = leg
           loaded == Row(<<rfq.from, rfq.to>>)
           back   == Row(<<rfq.to, rfq.from>>)
           route  == RouteEvidence(l)
           failed == [source |-> "sakbe", status |-> "failed", km |-> None,
                      minutes |-> None, tolls |-> None, needsReturn |-> FALSE,
                      kmReturn |-> None, tollsReturn |-> None]
<1>1. CASE rows = {}
  <2>1. route = failed
    BY <1>1 DEF RouteEvidence
  <2>2. WholeRoute(route)
    BY <2>1 DEF WholeRoute
  <2>3. EvidenceReasons(route) # {}
    BY <2>1 DEF EvidenceReasons
  <2> QED BY <2>2, <2>3
<1>2. CASE rows # {}
  <2>1. \A leg \in Legs(rfq) : Row(leg) \in rows /\ Row(leg).leg = leg
    BY <1>2 DEF CoversLegs
  <2>2. /\ <<rfq.from, rfq.to>> \in Legs(rfq)
        /\ rfq.return => <<rfq.to, rfq.from>> \in Legs(rfq)
    BY DEF Legs
  <2>3. /\ route.km = loaded.km /\ route.tolls = loaded.tolls
        /\ route.needsReturn = rfq.return
        /\ route.kmReturn = IF rfq.return THEN back.km ELSE None
        /\ route.tollsReturn = IF rfq.return THEN back.tolls ELSE None
    BY <1>2 DEF RouteEvidence
  <2>4. Whole(loaded) /\ (rfq.return => Whole(back))
    BY <2>1, <2>2
  <2> HIDE DEF loaded, back, route
  <2>5. WholeRoute(route)
    BY <2>3, <2>4 DEF WholeRoute, Whole
  <2>6. ASSUME EvidenceReasons(route) = {}, NEW leg \in Legs(rfq)
        PROVE  \E x \in rows : x.leg = leg /\ x.km > 0
    <3>1. /\ Amount(route.km) # 0
          /\ route.needsReturn => Amount(route.kmReturn) # 0
      BY <2>6 DEF EvidenceReasons
    <3>2. loaded.km > 0
      BY <2>3, <2>4, <3>1, AmountIsWhole DEF Whole
    <3>3. rfq.return => back.km > 0
      BY <2>3, <2>4, <3>1, AmountIsWhole DEF Whole
    <3>4. CASE leg = <<rfq.from, rfq.to>>
      BY <2>1, <2>2, <3>2, <3>4 DEF loaded
    <3>5. CASE rfq.return /\ leg = <<rfq.to, rfq.from>>
      BY <2>1, <2>2, <3>3, <3>5 DEF back
    <3> QED BY <2>6, <3>4, <3>5 DEF Legs
  <2> QED BY <2>5, <2>6 DEF route
<1> QED BY <1>1, <1>2

(* What CalculateQuote has no reason to have reviewed.                     *)
LEMMA NoReasons ==
  ASSUME NEW rfq, NEW p, NEW route, NEW required,
         LET price == Price(rfq, p, route)
         IN  CalculateQuote(rfq, p, price, required, route).reasons = {},
         p # None => Priceable(p), WholeRoute(route),
         rfq.value \in Int, rfq.weight \in Int
  PROVE  LET quote == CalculateQuote(rfq, p, Price(rfq, p, route), required, route)
         IN  /\ p # None /\ quote.profile = p.id
             /\ required => EvidenceReasons(route) = {}
             /\ rfq.weight <= p.capacity
             /\ RealMargin(quote.rate, quote.cost) >= 100 * p.minimum
<1> DEFINE price == Price(rfq, p, route)
           quote == CalculateQuote(rfq, p, price, required, route)
<1>1. p # None
  BY DEF CalculateQuote
<1>2. p.capacity \in Int /\ p.minimum \in Int
  BY <1>1 DEF Priceable, Amounts
<1>3. price.cost \in Int /\ price.rate \in Int
  BY <1>1, PriceIsWhole
<1>4. quote.profile = p.id /\ quote.rate = price.rate /\ quote.cost = price.cost
  BY <1>1 DEF CalculateQuote
<1> HIDE DEF price
<1>5. /\ required => EvidenceReasons(route) = {}
      /\ ~ (rfq.weight > p.capacity)
      /\ IsValidMargin(p.minimum)
      /\ ~ (IsValidMargin(p.minimum)
            /\ RealMargin(price.rate, price.cost) < 100 * p.minimum)
  BY <1>1 DEF CalculateQuote, price
<1>6. RealMargin(price.rate, price.cost) \in Int
  BY <1>3, MarginIsWhole
<1>7. RealMargin(price.rate, price.cost) >= 100 * p.minimum
  BY <1>2, <1>5, <1>6
<1>8. rfq.weight <= p.capacity
  BY <1>2, <1>5
<1> QED BY <1>1, <1>4, <1>5, <1>7, <1>8 DEF price

LEMMA QuoteGrounds ==
  ASSUME IInv, NEW l \in Lanes, At(l, "quote"), Backed(lane[l]),
         NEW manifest \in ManifestsOf(l), NEW p, NEW quote, NEW s,
         p = ResolveProfile(lane[l].rfq, manifest),
         quote = CalculateQuote(lane[l].rfq, p,
                   Price(lane[l].rfq, p, RouteEvidence(l)),
                   Manifest.sakbeRequired, RouteEvidence(l)),
         s.rfq = lane[l].rfq, s.rows = lane[l].rows, s.kpl = lane[l].kpl,
         s.priced = clock, s.quote = QuoteLane(l, quote),
         IF IsAgent(l) THEN s.quote.status = "APPROVED"
         ELSE lane[l].reasons = {} /\ s.quote.reasons = {}
  PROVE  IsGrounded(s)
<1> DEFINE r == lane[l]
           route == RouteEvidence(l)
<1>1. /\ IsLane(r) /\ r.rfq \in AllRfqs /\ r.began \in Int /\ clock \in Int
      /\ clock <= r.began + 1
  BY UnderWayIsLane DEF At, LaneOK, Timed, Over
<1>2. r.rfq.weight \in Int /\ r.rfq.value \in Int /\ r.rfq.return \in BOOLEAN
  BY <1>1, SetupsAssumption DEF AllRfqs
<1>3. /\ WholeRoute(route)
      /\ EvidenceReasons(route) = {} =>
           \A leg \in Legs(r.rfq) : \E x \in r.rows : x.leg = leg /\ x.km > 0
  BY <1>2, EvidenceIsOfRows DEF Backed, At, Looking, Upserts
<1>4. PICK model : manifest = PricingModelOverlay(OverlayTmsPerformance(r.kpl), model)
  BY DEF ManifestsOf
<1>5. \A i \in DOMAIN Manifest.profiles :
        /\ Priceable(manifest.profiles[i])
        /\ SameTerms(manifest.profiles[i], Manifest.profiles[i])
  BY <1>4, OverlayKeeps DEF Backed
<1>6. PICK n \in Nat : DOMAIN Manifest.profiles = 1 .. n
  BY ManifestAssumption DEF IsSequence
<1>7. p # None => \E i \in DOMAIN Manifest.profiles : p = manifest.profiles[i]
  BY <1>4, <1>6, OverlayDomain, ResolveFinds
<1>8. /\ quote.reasons = {}
      /\ IsAgent(l) => r.rfq.vehicle \notin StaleProfiles(r.kpl)
      /\ ~ IsAgent(l) => r.reasons = {}
      /\ s.quote = quote
  <2>1. /\ DOMAIN quote = {"status", "profile", "cost", "rate", "reasons"}
        /\ quote.status = IF quote.reasons = {} THEN "APPROVED" ELSE "REVIEW_REQUIRED"
    BY DEF CalculateQuote
  <2> DEFINE stale == IsAgent(l) /\ r.rfq.vehicle \in StaleProfiles(r.kpl)
             marked == [quote EXCEPT !.status = "REVIEW_REQUIRED",
                                     !.reasons = @ \cup {"tms_performance_stale"}]
  <2>2. s.quote = IF stale THEN marked ELSE quote
    BY DEF QuoteLane
  <2>3. marked.status = "REVIEW_REQUIRED"
    BY <2>1
  <2> HIDE DEF marked
  <2>4. ~ stale
    BY <2>2, <2>3
  <2> QED BY <2>1, <2>2, <2>4
<1>9. /\ p # None /\ quote.profile = p.id
      /\ Manifest.sakbeRequired => EvidenceReasons(route) = {}
      /\ r.rfq.weight <= p.capacity
      /\ RealMargin(quote.rate, quote.cost) >= 100 * p.minimum
  <2>1. p # None => Priceable(p)
    BY <1>5, <1>7
  <2> QED BY <1>2, <1>3, <1>8, <2>1, NoReasons
<1>10. PICK i \in DOMAIN Manifest.profiles : p = manifest.profiles[i]
  BY <1>7, <1>9
<1> DEFINE q == Manifest.profiles[i]
<1>11. q.id = p.id /\ q.capacity = p.capacity /\ q.minimum = p.minimum
  BY <1>5, <1>10 DEF SameTerms
<1>12. \/ s.rfq.engine = "agent" /\ s.rfq.vehicle # q.id
       \/ FreshYields(s, q)
  <2>1. ASSUME q.source = "tms", q.id \notin StaleProfiles(r.kpl)
        PROVE  FreshYields(s, q)
    <3>1. r.kpl # None
      BY <2>1 DEF StaleProfiles
    <3>2. r.kpl.asked \in Int /\ r.began <= r.kpl.asked + YieldTtl
      BY <3>1 DEF Backed, ToldOK
    <3>3. clock - r.kpl.asked <= YieldTtl + 1
      <4>1. /\ r.began \in Int /\ clock \in Int /\ YieldTtl \in Int
            /\ clock <= r.began + 1
        BY <1>1, TimesAssumption
      <4>2. ASSUME NEW b \in Int, NEW t \in Int, b <= t + YieldTtl, clock <= b + 1
            PROVE  clock - t <= YieldTtl + 1
        BY <4>1, <4>2
      <4> QED BY <3>2, <4>1, <4>2
    <3>4. s.priced - s.kpl.asked <= YieldTtl + 1 /\ q.id \notin StaleProfiles(s.kpl)
      BY <2>1, <3>3
    <3> QED BY <3>4 DEF FreshYields
  <2>2. CASE ~ IsAgent(l)
    <3>1. StaleProfiles(r.kpl) = {}
      BY <1>8, <2>2 DEF Backed, IsAgent, At
    <3> QED BY <2>1, <3>1 DEF FreshYields
  <2>3. CASE IsAgent(l)
    BY <1>8, <2>1, <2>3 DEF IsAgent, FreshYields
  <2> QED BY <2>2, <2>3
<1>13. GroundedOn(s, q)
  BY <1>3, <1>8, <1>9, <1>11, <1>12 DEF GroundedOn
<1> QED BY <1>13 DEF IsGrounded

-----------------------------------------------------------------------------
(* A lane that has no rate yet.                                            *)
LEMMA Unrated ==
  ASSUME NEW r, NEW s, Backed(r), r.pc # "yields", s.pc \notin Rated,
         s.rfq = r.rfq, s.kpl = r.kpl, s.began = r.began,
         s.reasons = {} => r.reasons = {},
         \A x \in s.rows \cup s.copy : Whole(x),
         s.pc \in Looking \/ s.rows = {} \/ CoversLegs(s.rows, s.rfq)
  PROVE  Backed(s)
BY DEF Backed, Rated

(* What rests on a record rests on its route, yields and rate.             *)
LEMMA GroundsKept ==
  ASSUME NEW r, NEW s, IsGrounded(r), s.rfq = r.rfq, s.kpl = r.kpl,
         s.rows = r.rows, s.quote = r.quote, s.priced = r.priced
  PROVE  IsGrounded(s)
<1>1. PICK i \in DOMAIN Manifest.profiles : GroundedOn(r, Manifest.profiles[i])
  BY DEF IsGrounded
<1>2. GroundedOn(s, Manifest.profiles[i])
  BY <1>1 DEF GroundedOn, FreshYields
<1> QED BY <1>2 DEF IsGrounded

(* A lane that has its rate.                                               *)
LEMMA Ends ==
  ASSUME NEW r, NEW s, Backed(r), r.pc \in {"history", "recommend"},
         s.pc \in {"recommend", "done", "failed"},
         s.rfq = r.rfq, s.kpl = r.kpl, s.began = r.began, s.rows = r.rows,
         s.copy = r.copy, s.quote = r.quote, s.priced = r.priced,
         s.reasons = {} => r.reasons = {},
         s.pc # "failed" /\ s.rfq.engine = "agent" /\ s.verdict = "auto" =>
           s.quote.status = "APPROVED" /\ Gate!InBand(s.quote.rate, s.band)
  PROVE  Backed(s)
<1>1. r.pc \in Rated /\ r.pc # "yields" /\ r.pc \notin Looking
  BY DEF Rated, Looking, Upserts
<1>2. Unseen(s) => Unseen(r)
  BY DEF Unseen
<1>3. Unseen(s) => IsGrounded(s)
  BY <1>1, <1>2, GroundsKept DEF Backed
<1> QED BY <1>1, <1>3 DEF Backed

LEMMA LaneGrounds ==
  ASSUME IInv, GInv, NEW l \in Lanes, NEW s, Becomes(l, s), Backed(s),
         UNCHANGED <<file, front>>, ToldOK(yields')
  PROVE  GInv'
<1>1. \A m \in Lanes : lane'[m] = IF m = l THEN s ELSE lane[m]
  BY DEF Becomes, IInv, LanesOK
<1> QED BY <1>1 DEF GInv

LEMMA FailedIsBacked ==
  ASSUME IInv, GInv, NEW l \in Lanes, NEW cause,
         lane[l].pc \notin {"idle", "yields"}
  PROVE  Backed(Failed(l, cause))
<1> DEFINE r == lane[l]
           s == Failed(l, cause)
<1>1. /\ s.pc \in {"failed", "quote"} /\ s.rows = {} /\ s.copy = {}
      /\ s.rfq = r.rfq /\ s.kpl = r.kpl /\ s.began = r.began
      /\ s.reasons = {} => r.reasons = {}
  BY UnderWayIsLane DEF Failed, IsLane, LaneFields
<1>2. Backed(r)
  BY DEF GInv
<1> HIDE DEF s
<1>3. Backed(s)
  BY <1>1, <1>2, Unrated DEF Rated
<1> QED BY <1>3 DEF s

LEMMA FailGrounds ==
  ASSUME IInv, GInv, NEW l \in Lanes, NEW cause, RouteFails(l, cause),
         lane[l].pc \notin {"idle", "yields"}, UNCHANGED <<file, front, yields>>
  PROVE  GInv'
BY FailedIsBacked, LaneGrounds DEF RouteFails, GInv

LEMMA YieldsGround ==
  ASSUME IInv, GInv, NEW l \in Lanes, At(l, "yields"), NEW told, TakeYields(l, told),
         ToldOK(told), told = None \/ clock <= told.asked + YieldTtl,
         UNCHANGED <<file, front>>, ToldOK(yields')
  PROVE  GInv'
<1> DEFINE r == lane[l]
           s == [r EXCEPT !.pc = IF IsAgent(l) THEN "quote" ELSE "tools",
                          !.kpl = told,
                          !.reasons = IF ~ IsAgent(l) /\ StaleProfiles(told) # {}
                                      THEN @ \cup {"tms_performance_stale"} ELSE @]
<1>1. Becomes(l, s)
  BY DEF TakeYields
<1>2. /\ IsLane(r) /\ r.began \in Int /\ r.began <= clock /\ clock \in Int
      /\ Backed(r)
  BY UnderWayIsLane DEF LaneOK, Timed, At, Over, GInv
<1>3. /\ s.pc \in {"quote", "tools"} /\ s.rows = r.rows /\ s.copy = r.copy
      /\ s.rfq = r.rfq /\ s.kpl = told /\ s.began = r.began
      /\ s.reasons = IF ~ IsAgent(l) /\ StaleProfiles(told) # {}
                     THEN r.reasons \cup {"tms_performance_stale"} ELSE r.reasons
  BY <1>2 DEF IsLane, LaneFields
<1>4. r.rows # {} => CoversLegs(r.rows, r.rfq)
  BY <1>2 DEF Backed, At, Looking, Upserts
<1>5. told = None \/ r.began <= told.asked + YieldTtl
  BY <1>2, TimesAssumption DEF ToldOK
<1>6. \A x \in r.rows \cup r.copy : Whole(x)
  BY <1>2 DEF Backed
<1> HIDE DEF s
<1>7. Backed(s)
  BY <1>3, <1>4, <1>5, <1>6 DEF Backed, Rated, Looking, IsAgent
<1> QED BY <1>1, <1>7, LaneGrounds

LEMMA YieldStepsGround ==
  ASSUME IInv, GInv, NEW l \in Lanes,
         CachedYields(l) \/ LoadYields(l) \/ YieldsFail(l)
  PROVE  GInv'
<1>1. At(l, "yields") /\ UNCHANGED <<file, front>>
  BY DEF CachedYields, LoadYields, YieldsFail, Caches
<1>2. clock \in Int /\ setup \in Setups /\ ToldOK(yields)
  BY <1>1, UnderWayIsLane DEF At, IInv, GInv
<1>3. CASE CachedYields(l)
  <2>1. TakeYields(l, yields) /\ UNCHANGED yields /\ yields # None
        /\ clock < yields.expires
    BY <1>3 DEF CachedYields, ValidYields, Caches
  <2>2. clock <= yields.asked + YieldTtl
    BY <1>2, <2>1, TimesAssumption DEF ToldOK
  <2> QED BY <1>1, <1>2, <2>1, <2>2, YieldsGround
<1>4. CASE LoadYields(l)
  <2>1. PICK table \in setup.tables :
          LET told == [table |-> table, asked |-> clock, expires |-> clock + YieldTtl]
          IN  TakeYields(l, told) /\ yields' \in {told, None, yields}
    BY <1>4 DEF LoadYields
  <2> DEFINE told == [table |-> table, asked |-> clock, expires |-> clock + YieldTtl]
  <2>2. /\ table \in AllTables /\ told.table = table /\ told.asked = clock
        /\ told.expires = clock + YieldTtl
    BY <1>2 DEF AllTables
  <2>3. TakeYields(l, told) /\ yields' \in {told, None, yields}
    BY <2>1
  <2> HIDE DEF told
  <2>4. ToldOK(told) /\ clock <= told.asked + YieldTtl
    BY <1>2, <2>2, TimesAssumption DEF ToldOK
  <2>5. ToldOK(yields')
    BY <1>2, <2>3, <2>4 DEF ToldOK
  <2> QED BY <1>1, <2>3, <2>4, <2>5, YieldsGround
<1>5. CASE YieldsFail(l)
  <2>1. TakeYields(l, None) /\ UNCHANGED yields /\ ToldOK(None)
    BY <1>5 DEF YieldsFail, Caches, ToldOK
  <2> QED BY <1>1, <1>2, <2>1, YieldsGround
<1> QED BY <1>3, <1>4, <1>5

LEMMA QuoteStepGrounds ==
  ASSUME IInv, GInv, NEW l \in Lanes, Quote(l) PROVE GInv'
<1> DEFINE r == lane[l]
           route == RouteEvidence(l)
           Calc(p) == CalculateQuote(r.rfq, p, Price(r.rfq, p, route),
                                     Manifest.sakbeRequired, route)
           S(quote) == [r EXCEPT !.pc = "history", !.quote = quote, !.priced = clock,
                          !.reasons = IF IsAgent(l) THEN @ ELSE @ \cup quote.reasons]
<1>1. At(l, "quote") /\ UNCHANGED <<file, front, yields>>
  BY DEF Quote, Caches
<1>2. \E manifest \in ManifestsOf(l) : \E p \in {ResolveProfile(r.rfq, manifest)} :
        Becomes(l, S(QuoteLane(l, Calc(p))))
  BY DEF Quote
<1>3. PICK manifest \in ManifestsOf(l) :
        \E p \in {ResolveProfile(r.rfq, manifest)} : Becomes(l, S(QuoteLane(l, Calc(p))))
  BY <1>2
<1>p. PICK p : /\ p = ResolveProfile(r.rfq, manifest)
               /\ Becomes(l, S(QuoteLane(l, Calc(p))))
  BY <1>3
<1> DEFINE quote == Calc(p)
           q == QuoteLane(l, quote)
           s == S(q)
<1>4. IsLane(r) /\ Backed(r) /\ ToldOK(yields')
  BY <1>1, UnderWayIsLane DEF At, GInv
<1>5. quote = CalculateQuote(r.rfq, p, Price(r.rfq, p, route),
                             Manifest.sakbeRequired, route)
  OBVIOUS
<1>6. Becomes(l, s) /\ q = QuoteLane(l, quote)
  BY <1>p
<1> HIDE DEF q, quote, route
<1>7. /\ s.rfq = r.rfq /\ s.rows = r.rows /\ s.copy = r.copy /\ s.kpl = r.kpl
      /\ s.began = r.began /\ s.priced = clock /\ s.quote = q /\ s.pc = "history"
      /\ s.reasons = IF IsAgent(l) THEN r.reasons ELSE r.reasons \cup q.reasons
  BY <1>4 DEF IsLane, LaneFields
<1> HIDE DEF s
<1>8. ASSUME Unseen(s)
      PROVE  IF IsAgent(l) THEN s.quote.status = "APPROVED"
             ELSE r.reasons = {} /\ s.quote.reasons = {}
  BY <1>7, <1>8 DEF Unseen, IsAgent
<1>9. Unseen(s) => IsGrounded(s)
  <2> SUFFICES ASSUME Unseen(s) PROVE IsGrounded(s)
    OBVIOUS
  <2> USE DEF route
  <2> QED BY <1>1, <1>p, <1>4, <1>5, <1>6, <1>7, <1>8, QuoteGrounds
<1>10. Backed(s)
  <2>1. r.pc = "quote"
    BY <1>1 DEF At
  <2>2. s.reasons = {} => r.reasons = {}
    BY <1>7
  <2> QED BY <1>4, <1>7, <1>9, <2>1, <2>2 DEF Backed, Looking, Upserts
<1> QED BY <1>1, <1>4, <1>6, <1>10, LaneGrounds

-----------------------------------------------------------------------------
(* The gate lets a lane out only with an approved rate inside the band.    *)
LEMMA AutoIsApproved ==
  ASSUME NEW q, NEW quality, NEW band,
         Gate!Verdict(q, [quality |-> quality, band |-> band]) = "auto"
  PROVE  q.status = "APPROVED" /\ Gate!InBand(q.rate, band)
<1> DEFINE h == [quality |-> quality, band |-> band]
<1>1. CASE Gate!Unknown(h)
  BY <1>1 DEF Gate!Verdict
<1>2. CASE ~ Gate!Unknown(h) /\ Gate!Suspicious(q, h)
  BY <1>2 DEF Gate!Verdict
<1>3. CASE ~ Gate!Suspicious(q, h)
  BY <1>3 DEF Gate!Suspicious
<1> QED BY <1>1, <1>2, <1>3

LEMMA EndGrounds ==
  ASSUME IInv, GInv, NEW l \in Lanes, NEW s, Becomes(l, s),
         lane[l].pc \in {"history", "recommend"},
         s.pc \in {"recommend", "done", "failed"},
         s.rfq = lane[l].rfq, s.kpl = lane[l].kpl, s.began = lane[l].began,
         s.rows = lane[l].rows, s.copy = lane[l].copy, s.quote = lane[l].quote,
         s.priced = lane[l].priced, s.reasons = {} => lane[l].reasons = {},
         s.pc # "failed" /\ s.rfq.engine = "agent" /\ s.verdict = "auto" =>
           s.quote.status = "APPROVED" /\ Gate!InBand(s.quote.rate, s.band),
         UNCHANGED <<file, front, yields>>
  PROVE  GInv'
<1>1. Backed(lane[l]) /\ ToldOK(yields')
  BY DEF GInv
<1>2. Backed(s)
  BY <1>1, Ends
<1> QED BY <1>1, <1>2, LaneGrounds

LEMMA HistoryGrounds ==
  ASSUME IInv, GInv, NEW l \in Lanes, ReadHistory(l) PROVE GInv'
<1> DEFINE r == lane[l]
           a(band, verdict) == [r EXCEPT !.pc = "recommend", !.band = band,
                                         !.verdict = verdict]
           b(x) == [r EXCEPT !.pc = "recommend",
                      !.reasons = IF x.insufficient = {} THEN @
                                  ELSE @ \cup {"historical_context_insufficient"}]
<1>1. UNCHANGED <<file, front, yields>> /\ r.pc = "history" /\ IsLane(r)
  BY UnderWayIsLane DEF ReadHistory, Caches, At
<1>2. \/ \E quality, band :
           Becomes(l, a(band, Gate!Verdict(r.quote, [quality |-> quality, band |-> band])))
      \/ ~ IsAgent(l) /\ \E x : Becomes(l, b(x))
  BY DEF ReadHistory
<1>3. CASE \E quality, band :
           Becomes(l, a(band, Gate!Verdict(r.quote, [quality |-> quality, band |-> band])))
  <2>1. PICK quality, band :
           Becomes(l, a(band, Gate!Verdict(r.quote, [quality |-> quality, band |-> band])))
    BY <1>3
  <2> DEFINE v == Gate!Verdict(r.quote, [quality |-> quality, band |-> band])
             s == a(band, v)
  <2>2. v = "auto" => r.quote.status = "APPROVED" /\ Gate!InBand(r.quote.rate, band)
    BY AutoIsApproved
  <2>3. Becomes(l, s)
    BY <2>1
  <2> HIDE DEF v
  <2>4. /\ s.pc = "recommend" /\ s.rfq = r.rfq /\ s.kpl = r.kpl /\ s.began = r.began
        /\ s.rows = r.rows /\ s.copy = r.copy /\ s.quote = r.quote
        /\ s.priced = r.priced /\ s.reasons = r.reasons
        /\ s.verdict = v /\ s.band = band
    BY <1>1 DEF IsLane, LaneFields
  <2> HIDE DEF s
  <2> QED BY <1>1, <2>2, <2>3, <2>4, EndGrounds
<1>4. CASE ~ IsAgent(l) /\ \E x : Becomes(l, b(x))
  <2>1. PICK x : Becomes(l, b(x))
    BY <1>4
  <2> DEFINE s == b(x)
  <2>2. /\ s.pc = "recommend" /\ s.rfq = r.rfq /\ s.kpl = r.kpl /\ s.began = r.began
        /\ s.rows = r.rows /\ s.copy = r.copy /\ s.quote = r.quote
        /\ s.priced = r.priced /\ (s.reasons = {} => r.reasons = {})
    BY <1>1 DEF IsLane, LaneFields
  <2>3. Becomes(l, s)
    BY <2>1
  <2> HIDE DEF s
  <2> QED BY <1>1, <1>4, <2>2, <2>3, EndGrounds DEF IsAgent
<1> QED BY <1>2, <1>3, <1>4

LEMMA LateGrounds ==
  ASSUME IInv, GInv, NEW l \in Lanes,
         HistoryFails(l) \/ Recommend(l) \/ RecommendFails(l)
  PROVE  GInv'
<1> DEFINE r == lane[l]
           a(cause) == [r EXCEPT !.pc = "failed", !.cause = cause]
           b(pc, more) == [r EXCEPT !.pc = pc, !.reasons = @ \cup more]
           c == [r EXCEPT !.pc = "done"]
<1>1. /\ UNCHANGED <<file, front, yields>> /\ r.pc \in {"history", "recommend"}
      /\ IsLane(r) /\ Backed(r)
  BY UnderWayIsLane DEF HistoryFails, Recommend, RecommendFails, Caches, At, GInv
<1>2. \/ \E cause : Becomes(l, a(cause))
      \/ ~ IsAgent(l) /\ \E pc \in {"recommend", "done"} : \E more : Becomes(l, b(pc, more))
      \/ r.pc = "recommend" /\ Becomes(l, c)
  BY DEF HistoryFails, Recommend, RecommendFails, Go, At
<1>3. CASE \E cause : Becomes(l, a(cause))
  <2>1. PICK cause : Becomes(l, a(cause))
    BY <1>3
  <2> DEFINE s == a(cause)
  <2>2. /\ s.pc = "failed" /\ s.rfq = r.rfq /\ s.kpl = r.kpl /\ s.began = r.began
        /\ s.rows = r.rows /\ s.copy = r.copy /\ s.quote = r.quote
        /\ s.priced = r.priced /\ s.reasons = r.reasons
    BY <1>1 DEF IsLane, LaneFields
  <2>3. Becomes(l, s)
    BY <2>1
  <2> HIDE DEF s
  <2> QED BY <1>1, <2>2, <2>3, EndGrounds
<1>4. CASE ~ IsAgent(l) /\ \E pc \in {"recommend", "done"} : \E more : Becomes(l, b(pc, more))
  <2>1. PICK pc \in {"recommend", "done"} : \E more : Becomes(l, b(pc, more))
    BY <1>4
  <2>m. PICK more : Becomes(l, b(pc, more))
    BY <2>1
  <2> DEFINE s == b(pc, more)
  <2>2. /\ s.pc = pc /\ s.rfq = r.rfq /\ s.kpl = r.kpl /\ s.began = r.began
        /\ s.rows = r.rows /\ s.copy = r.copy /\ s.quote = r.quote
        /\ s.priced = r.priced /\ (s.reasons = {} => r.reasons = {})
    BY <1>1 DEF IsLane, LaneFields
  <2>3. Becomes(l, s)
    BY <2>m
  <2> HIDE DEF s
  <2> QED BY <1>1, <1>4, <2>2, <2>3, EndGrounds DEF IsAgent
<1>5. CASE r.pc = "recommend" /\ Becomes(l, c)
  <2>1. /\ c.pc = "done" /\ c.rfq = r.rfq /\ c.kpl = r.kpl /\ c.began = r.began
        /\ c.rows = r.rows /\ c.copy = r.copy /\ c.quote = r.quote
        /\ c.priced = r.priced /\ c.reasons = r.reasons
        /\ c.verdict = r.verdict /\ c.band = r.band
    BY <1>1 DEF IsLane, LaneFields
  <2>2. r.rfq.engine = "agent" /\ r.verdict = "auto" =>
          r.quote.status = "APPROVED" /\ Gate!InBand(r.quote.rate, r.band)
    BY <1>1, <1>5 DEF Backed
  <2> HIDE DEF c
  <2> QED BY <1>1, <1>5, <2>1, <2>2, EndGrounds
<1> QED BY <1>2, <1>3, <1>4, <1>5

LEMMA PriceStepGrounds ==
  ASSUME IInv, GInv, NEW l \in Lanes, PriceStep(l) PROVE GInv'
BY YieldStepsGround, QuoteStepGrounds, HistoryGrounds, LateGrounds DEF PriceStep

-----------------------------------------------------------------------------
LEMMA StartGrounds ==
  ASSUME IInv, GInv, NEW l \in Lanes, Start(l) PROVE GInv'
<1> DEFINE S(rfq) ==
        [pc |-> IF rfq.engine = "agent" THEN "tools" ELSE "yields",
         rfq |-> rfq, began |-> clock, now |-> clock, leg |-> None,
         rows |-> {}, copy |-> {},
         whole |-> TRUE, kpl |-> None, quote |-> None, priced |-> clock,
         band |-> Gate!NoBand, verdict |-> None, reasons |-> {}, cause |-> None]
<1>1. PICK rfq : Becomes(l, S(rfq))
  BY DEF Start
<1> DEFINE s == S(rfq)
<1>2. /\ s.pc = IF rfq.engine = "agent" THEN "tools" ELSE "yields"
      /\ s.rfq = rfq /\ s.rows = {} /\ s.copy = {} /\ s.kpl = None
      /\ Becomes(l, s)
  BY <1>1
<1>3. UNCHANGED <<file, front>> /\ ToldOK(yields')
  BY DEF Start, Caches, GInv
<1> HIDE DEF s
<1>4. Backed(s)
  BY <1>2 DEF Backed, ToldOK, Rated
<1> QED BY <1>2, <1>3, <1>4, LaneGrounds

(* The steps that find a route without writing anything.                   *)
LEMMA LookGrounds ==
  ASSUME IInv, GInv, NEW l \in Lanes,
         \/ ConfigFails(l) \/ FrontHit(l) \/ FrontMiss(l) \/ ReadRouteFile(l)
         \/ RouteFileUnreadable(l) \/ Ask(l) \/ AskFails(l) \/ WriteFails(l)
         \/ Reread(l)
  PROVE  GInv'
<1> DEFINE r == lane[l]
<1>1. /\ r.pc \in {"tools"} \cup Looking /\ UNCHANGED <<file, front, yields>>
  BY DEF ConfigFails, FrontHit, FrontMiss, ReadRouteFile, RouteFileUnreadable,
     Ask, AskFails, WriteFails, Reread, Caches, At, Looking, Upserts
<1>2. /\ IsLane(r) /\ Backed(r) /\ ToldOK(yields') /\ r.rfq \in AllRfqs
      /\ setup \in Setups
  BY <1>1, UnderWayIsLane DEF GInv, Looking, Upserts, LaneOK, IInv
<1>3. ASSUME NEW cause, RouteFails(l, cause) PROVE GInv'
  BY <1>1, <1>3, FailGrounds DEF Looking, Upserts
<1>4. ASSUME NEW s, Becomes(l, s), s.pc \notin Rated,
             s.rfq = r.rfq, s.kpl = r.kpl, s.began = r.began, s.reasons = r.reasons,
             \A x \in s.rows \cup s.copy : Whole(x),
             s.pc \in Looking \/ CoversLegs(s.rows, s.rfq)
      PROVE  GInv'
  <2>1. Backed(s)
    BY <1>1, <1>2, <1>4, Unrated DEF Looking, Upserts
  <2> QED BY <1>1, <1>2, <1>4, <2>1, LaneGrounds
<1>5. \A x \in r.rows \cup r.copy : Whole(x)
  BY <1>2 DEF Backed
<1>6. ASSUME FrontHit(l) PROVE GInv'
  <2>1. PICK e \in front : /\ e.key = RouteKey(r.rfq)
                           /\ Becomes(l, [r EXCEPT !.rows = e.rows, !.pc = AfterRoute(l)])
    BY <1>6 DEF FrontHit, Live
  <2> DEFINE s == [r EXCEPT !.rows = e.rows, !.pc = AfterRoute(l)]
  <2>2. /\ s.rows = e.rows /\ s.pc \in {"yields", "quote"} /\ s.copy = r.copy
        /\ s.rfq = r.rfq /\ s.kpl = r.kpl /\ s.began = r.began /\ s.reasons = r.reasons
        /\ Becomes(l, s)
    BY <1>2, <2>1 DEF IsLane, LaneFields, AfterRoute
  <2>3. (\A x \in e.rows : Whole(x)) /\ CoversLegs(e.rows, r.rfq)
    BY <1>2, <2>1 DEF GInv, BackedEntry
  <2> HIDE DEF s
  <2> QED BY <1>4, <1>5, <2>2, <2>3 DEF Rated
<1>7. ASSUME FrontMiss(l) PROVE GInv'
  <2>1. CASE Go(l, "leg")
    <3> DEFINE s == [r EXCEPT !.pc = "leg"]
    <3>1. /\ s.rows = r.rows /\ s.pc = "leg" /\ s.copy = r.copy
          /\ s.rfq = r.rfq /\ s.kpl = r.kpl /\ s.began = r.began
          /\ s.reasons = r.reasons /\ Becomes(l, s)
      BY <1>2, <2>1 DEF IsLane, LaneFields, Go
    <3> HIDE DEF s
    <3> QED BY <1>4, <1>5, <3>1 DEF Rated, Looking
  <2> QED BY <1>3, <1>7, <2>1 DEF FrontMiss
<1>8. ASSUME ReadRouteFile(l) PROVE GInv'
  <2> DEFINE a(row) == [r EXCEPT !.rows = @ \cup {row}]
             b == [r EXCEPT !.pc = "ask", !.now = clock, !.leg = NextLeg(l)]
  <2>1. \/ \E row \in file.rows : Becomes(l, a(row))
        \/ Becomes(l, b)
        \/ RouteFails(l, "uncached")
    BY <1>8 DEF ReadRouteFile, Live
  <2>2. r.pc = "leg"
    BY <1>8 DEF ReadRouteFile, At
  <2>3. ASSUME NEW row \in file.rows, Becomes(l, a(row)) PROVE GInv'
    <3>1. /\ a(row).rows = r.rows \cup {row} /\ a(row).pc = "leg"
          /\ a(row).copy = r.copy /\ a(row).rfq = r.rfq /\ a(row).kpl = r.kpl
          /\ a(row).began = r.began /\ a(row).reasons = r.reasons
      BY <1>2, <2>2 DEF IsLane, LaneFields
    <3>2. Whole(row)
      BY DEF GInv
    <3> HIDE DEF a
    <3> QED BY <1>4, <1>5, <2>3, <3>1, <3>2 DEF Rated, Looking
  <2>4. ASSUME Becomes(l, b) PROVE GInv'
    <3>1. /\ b.rows = r.rows /\ b.pc = "ask" /\ b.copy = r.copy /\ b.rfq = r.rfq
          /\ b.kpl = r.kpl /\ b.began = r.began /\ b.reasons = r.reasons
      BY <1>2 DEF IsLane, LaneFields
    <3> HIDE DEF b
    <3> QED BY <1>4, <1>5, <2>4, <3>1 DEF Rated, Looking
  <2> QED BY <1>3, <2>1, <2>3, <2>4
<1>9. ASSUME Ask(l) PROVE GInv'
  <2> DEFINE row(w) == [key |-> SakbeKey(r.rfq, r.leg), leg |-> r.leg,
                        road |-> Road(r.rfq.policy), nom |-> Nom[Fold[r.rfq.vehicle]],
                        km |-> w.km, tolls |-> w.tolls,
                        asked |-> clock, expires |-> WeekEnd[r.now]]
             a(x) == [r EXCEPT !.copy = {x}, !.pc = "reread"]
             b(x) == [r EXCEPT !.rows = @ \cup {x}, !.pc = "leg"]
  <2>1. \E w \in setup.answers : Becomes(l, a(row(w))) \/ Becomes(l, b(row(w)))
    BY <1>9 DEF Ask
  <2>2. PICK w \in setup.answers :
          \E x : x = row(w) /\ (Becomes(l, a(x)) \/ Becomes(l, b(x)))
    BY <2>1
  <2>x. PICK x : x = row(w) /\ (Becomes(l, a(x)) \/ Becomes(l, b(x)))
    BY <2>2
  <2>3. Whole(x)
    <3>1. w.km \in Int \cup {None} /\ w.tolls \in Int \cup {None}
      BY <1>2, SetupsAssumption
    <3>2. x.km = w.km /\ x.tolls = w.tolls
      BY <2>x
    <3> QED BY <3>1, <3>2 DEF Whole
  <2> HIDE DEF row
  <2>4. ASSUME Becomes(l, a(x)) PROVE GInv'
    <3>1. /\ a(x).rows = r.rows /\ a(x).pc = "reread" /\ a(x).copy = {x}
          /\ a(x).rfq = r.rfq /\ a(x).kpl = r.kpl /\ a(x).began = r.began
          /\ a(x).reasons = r.reasons
      BY <1>2 DEF IsLane, LaneFields
    <3> HIDE DEF a
    <3> QED BY <1>4, <1>5, <2>3, <2>4, <3>1 DEF Rated, Looking, Upserts
  <2>5. ASSUME Becomes(l, b(x)) PROVE GInv'
    <3>1. /\ b(x).rows = r.rows \cup {x} /\ b(x).pc = "leg" /\ b(x).copy = r.copy
          /\ b(x).rfq = r.rfq /\ b(x).kpl = r.kpl /\ b(x).began = r.began
          /\ b(x).reasons = r.reasons
      BY <1>2 DEF IsLane, LaneFields
    <3> HIDE DEF b
    <3> QED BY <1>4, <1>5, <2>3, <2>5, <3>1 DEF Rated, Looking
  <2> QED BY <2>x, <2>4, <2>5
<1>10. ASSUME Reread(l) PROVE GInv'
  <2> DEFINE s == [r EXCEPT !.copy = Upserted(file.rows, @), !.pc = "open"]
  <2>1. /\ s.rows = r.rows /\ s.pc = "open" /\ s.copy = Upserted(file.rows, r.copy)
        /\ s.rfq = r.rfq /\ s.kpl = r.kpl /\ s.began = r.began
        /\ s.reasons = r.reasons /\ Becomes(l, s)
    BY <1>2, <1>10 DEF IsLane, LaneFields, Reread
  <2>2. \A x \in s.copy : Whole(x)
    BY <1>5, <2>1 DEF Upserted, GInv
  <2> HIDE DEF s
  <2> QED BY <1>4, <1>5, <2>1, <2>2 DEF Rated, Looking, Upserts
<1>11. ASSUME \/ ConfigFails(l) \/ RouteFileUnreadable(l) \/ AskFails(l)
              \/ WriteFails(l)
       PROVE  GInv'
  BY <1>3, <1>11 DEF ConfigFails, RouteFileUnreadable, AskFails, WriteFails
<1> QED BY <1>6, <1>7, <1>8, <1>9, <1>10, <1>11

(* Which way a write of the file goes does not matter to a lane.           *)
LEMMA WholeGrounds ==
  ASSUME NEW r, NEW b, IsLane(r), Backed(r)
  PROVE  Backed([r EXCEPT !.whole = b])
<1> DEFINE s == [r EXCEPT !.whole = b]
<1>1. /\ s.pc = r.pc /\ s.rfq = r.rfq /\ s.kpl = r.kpl /\ s.began = r.began
      /\ s.rows = r.rows /\ s.copy = r.copy /\ s.quote = r.quote
      /\ s.priced = r.priced /\ s.reasons = r.reasons
      /\ s.verdict = r.verdict /\ s.band = r.band
  BY DEF IsLane, LaneFields
<1> HIDE DEF s
<1>2. IsGrounded(r) => IsGrounded(s)
  BY <1>1, GroundsKept
<1>3. Backed(s)
  BY <1>1, <1>2 DEF Backed, Unseen
<1> QED BY <1>3 DEF s

LEMMA OpenGrounds ==
  ASSUME IInv, GInv, NEW l \in Lanes, OpenFile(l) PROVE GInv'
<1> DEFINE r == lane[l]
           s == [r EXCEPT !.pc = "fill", !.whole = TRUE]
<1>1. /\ UNCHANGED <<front, yields>> /\ r.pc = "open" /\ file' = EmptyFile
      /\ lane' = [m \in Lanes |->
           IF m = l THEN s
           ELSE IF At(m, "fill") THEN [lane[m] EXCEPT !.whole = TRUE] ELSE lane[m]]
  BY DEF OpenFile, At
<1>2. IsLane(r) /\ Backed(r)
  BY <1>1, UnderWayIsLane DEF GInv
<1>3. /\ s.rows = r.rows /\ s.pc = "fill" /\ s.copy = r.copy /\ s.rfq = r.rfq
      /\ s.kpl = r.kpl /\ s.began = r.began /\ s.reasons = r.reasons
  BY <1>2 DEF IsLane, LaneFields
<1> HIDE DEF s
<1>4. \A x \in r.rows \cup r.copy : Whole(x)
  BY <1>2 DEF Backed
<1>5. Backed(s)
  BY <1>1, <1>2, <1>3, <1>4, Unrated DEF Rated, Looking, Upserts
<1>6. ASSUME NEW m \in Lanes PROVE lane'[m].pc = "idle" \/ Backed(lane'[m])
  <2>1. CASE At(m, "fill")
    <3>1. Backed([lane[m] EXCEPT !.whole = TRUE])
      BY <2>1, UnderWayIsLane, WholeGrounds DEF At, GInv
    <3> QED BY <1>1, <1>5, <3>1, <2>1
  <2>2. CASE ~ At(m, "fill")
    BY <1>1, <1>5, <2>2 DEF GInv
  <2> QED BY <2>1, <2>2
<1> QED BY <1>1, <1>6 DEF GInv, EmptyFile

LEMMA FillGrounds ==
  ASSUME IInv, GInv, NEW l \in Lanes, FillFile(l) PROVE GInv'
<1> DEFINE r == lane[l]
           mine == {x \in r.copy : x.key = SakbeKey(r.rfq, r.leg)}
           s == [r EXCEPT !.pc = "leg", !.copy = {}, !.rows = @ \cup mine]
<1>1. /\ UNCHANGED <<front, yields>> /\ r.pc = "fill" /\ file' \in Filled(l)
      /\ lane' = [m \in Lanes |->
           IF m = l THEN s
           ELSE IF At(m, "fill") THEN [lane[m] EXCEPT !.whole = FALSE] ELSE lane[m]]
  BY DEF FillFile, At
<1>2. IsLane(r) /\ Backed(r)
  BY <1>1, UnderWayIsLane DEF GInv
<1>3. /\ s.rows = r.rows \cup mine /\ s.pc = "leg" /\ s.copy = {} /\ s.rfq = r.rfq
      /\ s.kpl = r.kpl /\ s.began = r.began /\ s.reasons = r.reasons
  BY <1>2 DEF IsLane, LaneFields
<1> HIDE DEF s
<1>4. \A x \in r.rows \cup r.copy : Whole(x)
  BY <1>2 DEF Backed
<1>5. Backed(s)
  BY <1>1, <1>2, <1>3, <1>4, Unrated DEF Rated, Looking, Upserts
<1>6. ASSUME NEW m \in Lanes PROVE lane'[m].pc = "idle" \/ Backed(lane'[m])
  <2>1. CASE At(m, "fill")
    <3>1. Backed([lane[m] EXCEPT !.whole = FALSE])
      BY <2>1, UnderWayIsLane, WholeGrounds DEF At, GInv
    <3> QED BY <1>1, <1>5, <3>1, <2>1
  <2>2. CASE ~ At(m, "fill")
    BY <1>1, <1>5, <2>2 DEF GInv
  <2> QED BY <2>1, <2>2
<1>7. \A x \in file'.rows : Whole(x)
  BY <1>1, <1>4 DEF Filled, TornFile
<1> QED BY <1>1, <1>6, <1>7 DEF GInv

LEMMA FillFailsGrounds ==
  ASSUME IInv, GInv, NEW l \in Lanes, FillFails(l) PROVE GInv'
<1> DEFINE s == Failed(l, "write")
<1>1. /\ UNCHANGED <<front, yields>> /\ lane[l].pc = "fill"
      /\ file' \in {file, TornFile} \cup Filled(l)
      /\ lane' = [m \in Lanes |->
           IF m = l THEN s
           ELSE IF At(m, "fill") /\ file' # file
                THEN [lane[m] EXCEPT !.whole = FALSE] ELSE lane[m]]
  BY DEF FillFails, At
<1>2. Backed(s)
  BY <1>1, FailedIsBacked
<1> HIDE DEF s
<1>3. ASSUME NEW m \in Lanes PROVE lane'[m].pc = "idle" \/ Backed(lane'[m])
  <2>1. CASE At(m, "fill")
    <3>1. Backed([lane[m] EXCEPT !.whole = FALSE])
      BY <2>1, UnderWayIsLane, WholeGrounds DEF At, GInv
    <3>2. Backed(lane[m])
      BY <2>1 DEF At, GInv
    <3> QED BY <1>1, <1>2, <3>1, <3>2
  <2>2. CASE ~ At(m, "fill")
    BY <1>1, <1>2, <2>2 DEF GInv
  <2> QED BY <2>1, <2>2
<1>4. \A x \in lane[l].copy : Whole(x)
  BY <1>1 DEF GInv, Backed
<1>5. \A x \in file'.rows : Whole(x)
  BY <1>1, <1>4 DEF GInv, Filled, TornFile
<1> QED BY <1>1, <1>3, <1>5 DEF GInv

LEMMA StoreGrounds ==
  ASSUME IInv, GInv, NEW l \in Lanes, Store(l) PROVE GInv'
<1> DEFINE r == lane[l]
           e == [key |-> RouteKey(r.rfq), rows |-> r.rows,
                 expires |-> clock + RouteTtl]
           s == [r EXCEPT !.pc = AfterRoute(l)]
<1>1. /\ UNCHANGED <<file, yields>> /\ r.pc = "leg" /\ Missing(l) = {}
      /\ front' \subseteq front \cup {e} /\ Becomes(l, s)
  BY DEF Store, At, Go, Put
<1>2. IsLane(r) /\ Backed(r) /\ ToldOK(yields')
  BY <1>1, UnderWayIsLane DEF GInv
<1>3. /\ s.rows = r.rows /\ s.pc \in {"yields", "quote"} /\ s.copy = r.copy
      /\ s.rfq = r.rfq /\ s.kpl = r.kpl /\ s.began = r.began
      /\ s.reasons = r.reasons
  BY <1>2 DEF IsLane, LaneFields, AfterRoute
<1>4. \A x \in r.rows \cup r.copy : Whole(x)
  BY <1>2 DEF Backed
<1>5. CoversLegs(r.rows, r.rfq)
  BY <1>1 DEF Missing, CoversLegs
<1>6. BackedEntry(e)
  <2>1. ASSUME NEW rfq \in AllRfqs, RouteKey(r.rfq) = RouteKey(rfq)
        PROVE  CoversLegs(r.rows, rfq)
    <3>1. rfq.from = r.rfq.from /\ rfq.to = r.rfq.to /\ rfq.return = r.rfq.return
      BY <2>1 DEF RouteKey
    <3>2. Legs(rfq) = Legs(r.rfq)
      BY <3>1 DEF Legs
    <3> QED BY <1>5, <3>2 DEF CoversLegs
  <2> QED BY <1>4, <2>1 DEF BackedEntry
<1> HIDE DEF s, e
<1>7. Backed(s)
  BY <1>1, <1>2, <1>3, <1>4, <1>5, Unrated DEF Rated
<1>8. \A m \in Lanes : lane'[m] = IF m = l THEN s ELSE lane[m]
  BY <1>1 DEF Becomes, IInv, LanesOK
<1> QED BY <1>1, <1>6, <1>7, <1>8 DEF GInv

LEMMA CrashGrounds ==
  ASSUME IInv, GInv, Crash PROVE GInv'
<1>1. /\ UNCHANGED <<front, yields>> /\ file' \in {file, TornFile}
      /\ \A m \in Lanes : lane'[m] \in {Idle, lane[m]}
  BY DEF Crash
<1>2. \A m \in Lanes : lane'[m].pc = "idle" \/ Backed(lane'[m])
  BY <1>1 DEF GInv, Idle
<1>3. \A x \in file'.rows : Whole(x)
  BY <1>1 DEF GInv, TornFile
<1> QED BY <1>1, <1>2, <1>3 DEF GInv

LEMMA GroundStep ==
  ASSUME IInv, GInv, [Next]_vars PROVE GInv'
<1>1. ASSUME UNCHANGED <<file, front, yields, lane>> PROVE GInv'
  BY <1>1 DEF GInv
<1>2. ASSUME NEW l \in Lanes, RouteStep(l) PROVE GInv'
  <2>1. CASE LoadConfig(l)
    BY <1>1, <2>1 DEF LoadConfig, Caches
  <2> QED BY <1>2, <2>1, LookGrounds, OpenGrounds, FillGrounds,
          FillFailsGrounds, StoreGrounds DEF RouteStep
<1>3. ASSUME Tick \/ UNCHANGED vars PROVE GInv'
  BY <1>1, <1>3 DEF Tick, Caches, vars
<1> QED BY <1>2, <1>3, StartGrounds, PriceStepGrounds, CrashGrounds
        DEF Next, LaneStep

(* Whatever caches, crashes and other lanes do, a rate that leaves without *)
(* a human is one the deterministic core had no reason to have reviewed,   *)
(* and what it rested on is what UnreviewedIsGrounded says.                *)
THEOREM Grounded == Spec => []UnreviewedIsGrounded
<1>1. Init => GInv
  BY DEF Init, GInv, Idle, EmptyFile, ToldOK
<1>2. IInv /\ GInv => UnreviewedIsGrounded
  <2> SUFFICES ASSUME GInv, NEW l \in Lanes, Unreviewed(l)
               PROVE  /\ IsGrounded(lane[l])
                      /\ IsAgent(l) => Gate!InBand(lane[l].quote.rate, lane[l].band)
    BY DEF UnreviewedIsGrounded
  <2>1. Backed(lane[l]) /\ lane[l].pc = "done"
    BY DEF GInv, Unreviewed, At
  <2> QED BY <2>1 DEF Backed, Unreviewed, Unseen, Rated, IsAgent
<1> QED BY <1>1, <1>2, InitInv, StepInv, GroundStep, PTL DEF Spec
=============================================================================
