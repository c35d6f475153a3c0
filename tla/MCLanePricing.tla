---------------------------- MODULE MCLanePricing ----------------------------
(***************************************************************************)
(* An instance of LanePricing: two lanes between two cities, a truck with  *)
(* yields from the TMS and one without, road kinds in three spellings.     *)
(* A tariff week, an entry in front and yields live one tick.              *)
(***************************************************************************)
EXTENDS LanePricing

CONSTANTS l1, l2, none

Texts == {"tracto", "TRACTO", "torton", "lancha", "cuota", "libre", "LIBRE",
          "w1", "w2", none}

MCFold == [t \in Texts |-> CASE t = "TRACTO" -> "tracto"
                             [] t = "LIBRE"  -> "libre"
                             [] OTHER        -> t]

MCNom == [v \in {"tracto", "torton"} |-> IF v = "tracto" THEN "T3S2" ELSE "C3"]

MCManifest ==
  [client |-> "acme", sakbeRequired |-> TRUE,
   units |-> <<[id |-> "u1", domains |-> {"acme.mx"}, default |-> FALSE],
               [id |-> "u2", domains |-> {}, default |-> TRUE]>>,
   profiles |->
     <<[id |-> "tracto", unit |-> "u1", keywords |-> {}, source |-> "tms",
        model |-> "profitability", rbTable |-> <<[upTo |-> 250, pct |-> 50],
                                                 [upTo |-> none, pct |-> 10]>>,
        target |-> 30, minimum |-> 20, capacity |-> 20, loadedYield |-> 20,
        emptyYield |-> 25, diesel |-> 20, operator |-> 3, upkeep |-> 1,
        insuranceMin |-> 5, insuranceRate |-> 1],
       [id |-> "torton", unit |-> "u2", keywords |-> {"tracto"}, source |-> "manifest",
        model |-> "formula", rbTable |-> <<>>,
        target |-> 30, minimum |-> 20, capacity |-> 10, loadedYield |-> 30,
        emptyYield |-> 40, diesel |-> 20, operator |-> 3, upkeep |-> 1,
        insuranceMin |-> 5, insuranceRate |-> 1]>>]

Rfq(engine, vehicle, policy, return, domain, weight) ==
  [engine |-> engine, from |-> "mty", to |-> "mex", return |-> return,
   vehicle |-> vehicle, policy |-> policy, unit |-> none, domain |-> domain,
   client |-> "acme", weight |-> weight, value |-> 1000, commodity |-> none,
   category |-> none, sector |-> none, weightBand |-> "w1"]

Tracto  == Rfq("agent", "tracto", "cuota", FALSE, "acme.mx", 15)
Loud    == Rfq("agent", "TRACTO", "LIBRE", FALSE, "acme.mx", 15)
Round   == Rfq("legacy", "tracto", "libre", TRUE, "acme.mx", 15)
Boat    == Rfq("legacy", "lancha", "cuota", FALSE, "else.mx", 15)
Torton  == Rfq("agent", "torton", "cuota", TRUE, "else.mx", 5)
Keyword == Rfq("legacy", "tracto", "cuota", FALSE, "else.mx", 15)

Good == [km |-> 100, tolls |-> 50]
Lost == [km |-> 0, tolls |-> 0]

Told == {[id |-> "TRACTO", kpl |-> 25]}

Record(vehicle, service, rate) ==
  [route |-> <<"mty", "mex">>, vehicle |-> vehicle, commodity |-> none,
   category |-> none, sector |-> none, weightBand |-> "w1", service |-> service,
   rate |-> rate, inWindow |-> TRUE]

Unset == [kind |-> "unset"]
Rows  == [kind |-> "rows",
          rows |-> {Record("tracto", "cuota", 2000), Record("tracto", "cuota", 2800),
                    Record("tracto", "libre", 5000), Record("torton", "cuota", 2500)}]
Own   == [kind |-> "analysis",
          analysis |-> [comparables |-> <<[layer |-> "sector", min |-> 1000, max |-> 1500],
                                          [layer |-> "route_unit_cost", min |-> 2000,
                                           max |-> 3000]>>,
                        insufficient |-> {}]]

Setup(rfqs, bounds) ==
  [cacheFirst |-> TRUE, live |-> TRUE, rfqs |-> rfqs, answers |-> {Good},
   tables |-> {Told}, sources |-> {Rows}, models |-> {none},
   maxClock |-> bounds[1], maxStarts |-> bounds[2], maxFaults |-> bounds[3]]

(* Where lanes meet, where time passes and caches expire, where the data   *)
(* varies, and the two other modes of the SAKBE cache.                     *)
MCSetups ==
  {Setup({Tracto, Loud}, <<0, 2, 1>>),
   Setup({Loud, Round}, <<0, 2, 0>>),
   Setup({Tracto}, <<3, 2, 0>>),
   Setup({Round}, <<1, 1, 1>>),
   [Setup({Tracto, Torton}, <<1, 1, 1>>)
      EXCEPT !.answers = {Good, Lost}, !.sources = {Rows, Own}],
   [Setup({Tracto, Loud, Keyword}, <<1, 1, 1>>)
      EXCEPT !.cacheFirst = FALSE, !.tables = {{}, Told},
             !.sources = {Unset, Rows, Own}, !.models = {none, "formula"}],
   [Setup({Tracto, Boat}, <<0, 2, 0>>) EXCEPT !.live = FALSE]}

MCWeekEnd == [t \in 0 .. MaxClock |-> t + 1]
=============================================================================
