-------------------------- MODULE HistoricalContext --------------------------
(***************************************************************************)
(* What the TMS says of past quotes, and the band a rate is judged by.     *)
(*                                                                         *)
(* The CSV files, the SQL queries and an HTTP TMS that returns rows hand   *)
(* their rows to one analysis, which looks for comparables in five layers, *)
(* from the same route to the same kind of service.  An HTTP TMS may also  *)
(* return an analysis of its own, which is taken as it comes.              *)
(*                                                                         *)
(* A record is what is left of a row that has a rate; a field that is      *)
(* missing is None.  Weight bands are what they are called, dates are told *)
(* apart only by whether they are inside the window.  Averages and         *)
(* quartiles of a layer go to the language model only and are left out.    *)
(***************************************************************************)
EXTENDS Integers, Sequences

CONSTANTS Fold, None

Same(a, b) == Fold[a] = Fold[b]
MatchesOptional(actual, expected) == expected = None \/ Same(actual, expected)

SearchLayers ==
  <<"route_unit_cost", "commodity_category", "sector", "weight_band", "service_type">>

(* A layer is searched if the request has what it compares; the weight     *)
(* layer is reported as insufficient without a weight, the first always.   *)
Searched(layer, query) ==
  CASE layer = "commodity_category" -> query.category # None
    [] layer = "sector"             -> query.sector # None
    [] layer = "service_type"       -> query.service # None
    [] OTHER                        -> TRUE

InLayer(layer, record, query) ==
  CASE layer = "route_unit_cost" ->
         /\ record.route = query.route
         /\ MatchesOptional(record.commodity, query.commodity)
         /\ MatchesOptional(record.category, query.category)
         /\ MatchesOptional(record.sector, query.sector)
    [] layer = "commodity_category" ->
         /\ Same(record.category, query.category)
         /\ MatchesOptional(record.sector, query.sector)
    [] layer = "sector"       -> Same(record.sector, query.sector)
    [] layer = "weight_band"  -> /\ query.weightBand # None
                                 /\ record.weightBand = query.weightBand
    [] layer = "service_type" -> Same(record.service, query.service)

(* The rates each searched layer found.                                    *)
RatesByLayer(rows, query) ==
  [layer \in {SearchLayers[i] : i \in {j \in DOMAIN SearchLayers :
                                         Searched(SearchLayers[j], query)}} |->
     {r.rate : r \in {q \in rows : /\ q.rate # None /\ q.inWindow
                                   /\ MatchesOptional(q.vehicle, query.vehicle)
                                   /\ InLayer(layer, q, query)}}]

Comparable(layer, rates) ==
  [layer |-> layer,
   min |-> CHOOSE x \in rates : \A y \in rates : x <= y,
   max |-> CHOOSE x \in rates : \A y \in rates : y <= x]

AnalyzeHistoricalQuotes(found) ==
  LET HasAny(layer) == layer \in DOMAIN found /\ found[layer] # {}
      layers == SelectSeq(SearchLayers, HasAny)
  IN  [comparables  |-> [i \in DOMAIN layers |-> Comparable(layers[i], found[layers[i]])],
       insufficient |-> {layer \in DOMAIN found : found[layer] = {}}]

-----------------------------------------------------------------------------
(* What an adapter answers.  Without a file or a query there are no rows;  *)
(* one that cannot be read, a status that is not ok or a body that is not  *)
(* of the schema throws.                                                   *)

SearchHistoricalQuotes(source, query) ==
  IF source.kind = "analysis" THEN source.analysis
  ELSE LET rows == IF source.kind = "rows" THEN source.rows ELSE {}
       IN  CHOOSE a \in {AnalyzeHistoricalQuotes(found) :
                           found \in {RatesByLayer(rows, query)}} : TRUE

(* The runtime selects the layer of the same route, or the first; its      *)
(* maximum is the context's, the minimum that of the first comparable.     *)
SelectedComparable(analysis) ==
  LET cs == analysis.comparables
      OnRoute == {i \in DOMAIN cs : cs[i].layer = "route_unit_cost"}
  IN  CASE OnRoute # {} -> cs[CHOOSE i \in OnRoute : \A j \in OnRoute : i <= j]
        [] OnRoute = {} /\ cs # <<>> -> cs[1]
        [] OTHER -> None

(* -1 stands for a bound that is not known.                                *)
BandBounds(analysis) ==
  IF analysis.comparables = <<>> THEN [min |-> -1, max |-> -1]
  ELSE [min |-> analysis.comparables[1].min, max |-> SelectedComparable(analysis).max]
=============================================================================
