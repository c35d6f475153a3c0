------------------------------ MODULE QuoteCore ------------------------------
(***************************************************************************)
(* quote-core: the deterministic rate of one lane.  The profile of the     *)
(* manifest is found, the route evidence is judged, a cost is computed and *)
(* marked up, and every reason to have a human look at it is collected.    *)
(*                                                                         *)
(* Money is whole (the code rounds doubles to cents), fuel yields are in   *)
(* tenths of a kilometre per litre, margins in hundredths.  Text is a      *)
(* model value.  Fold maps it to what its normalisation yields; keywords   *)
(* are the folded texts that mention one of a unit's or profile's words.   *)
(***************************************************************************)
EXTENDS Integers, Sequences

CONSTANTS Fold,   \* a text without its accents, case and blanks
          None    \* null, undefined, or nothing found

(* The first element of a sequence that passes a test.                     *)
FirstOf(s, Test(_)) ==
  IF \E i \in DOMAIN s : Test(s[i])
  THEN s[CHOOSE i \in DOMAIN s : Test(s[i]) /\ \A j \in 1 .. i - 1 : ~ Test(s[j])]
  ELSE None

-----------------------------------------------------------------------------
(* Profiles                                                                *)

(* A unit named in the request is taken as it is; otherwise the sender's   *)
(* domain, the default and the first unit are tried.                       *)
ResolveBusinessUnit(rfq, units) ==
  LET OfDomain(u)  == rfq.domain \in u.domains
      IsDefault(u) == u.default
      Any(u)       == TRUE
      found == <<FirstOf(units, OfDomain), FirstOf(units, IsDefault),
                 FirstOf(units, Any)>>
      Found(u) == u # None
      unit == FirstOf(found, Found)
  IN  IF rfq.unit # None THEN rfq.unit
      ELSE IF unit = None THEN None ELSE unit.id

(* By its folded id, else by a keyword, among the profiles of the unit.    *)
ResolveProfile(rfq, manifest) ==
  LET unit == ResolveBusinessUnit(rfq, manifest.units)
      Named(p)     == p.unit = unit /\ Fold[p.id] = Fold[rfq.vehicle]
      Mentioned(p) == p.unit = unit /\ Fold[rfq.vehicle] \in p.keywords
      byName == FirstOf(manifest.profiles, Named)
  IN  IF rfq.client # manifest.client THEN None
      ELSE IF byName # None THEN byName
      ELSE FirstOf(manifest.profiles, Mentioned)

-----------------------------------------------------------------------------
(* Evidence                                                                *)

Known(x)  == x # None
Larger(a, b) == IF a > b THEN a ELSE b
Amount(x) == IF Known(x) THEN Larger(0, x) ELSE 0

(* Mutant: a distance of 0 will do.                                        *)
AnyDistance(route) ==
  IF route.source # "sakbe" \/ route.status # "resolved" \/ ~ Known(route.km)
  THEN {"route_evidence_missing"} ELSE {}

EvidenceReasons(route) ==
  (IF route.source # "sakbe" THEN {"route_evidence_source_not_sakbe"} ELSE {})
  \cup (IF route.status # "resolved" \/ Amount(route.km) = 0
           \/ ~ Known(route.minutes)
        THEN {"route_evidence_missing"} ELSE {})
  \cup (IF ~ Known(route.tolls) THEN {"toll_evidence_missing"} ELSE {})
  \cup (IF route.needsReturn /\ Amount(route.kmReturn) = 0
        THEN {"return_route_evidence_missing"} ELSE {})
  \cup (IF route.needsReturn /\ ~ Known(route.tollsReturn)
        THEN {"return_toll_evidence_missing"} ELSE {})

-----------------------------------------------------------------------------
(* Costs and rates                                                         *)

Rounded(a, b) == (2 * a + b) \div (2 * b)   \* half up, for b > 0

IsValidMargin(pct) == 0 <= pct /\ pct < 100

LookupRb(km, table) ==
  LET Reaches(b) == b.upTo = None \/ km <= b.upTo
      bracket == FirstOf(table, Reaches)
  IN  IF bracket = None THEN 50 ELSE bracket.pct

KmOperational(route) == Amount(route.km) + Amount(route.kmReturn)

(* Fuel, tolls and the operator: the base of the profitability model.  A   *)
(* yield below a tenth counts as a tenth.                                  *)
RbBaseCost(p, route) ==
  LET loaded == Larger(1, p.loadedYield)
      empty  == Larger(1, p.emptyYield)
      fuel   == Rounded(10 * p.diesel * (Amount(route.km) * empty
                                         + Amount(route.kmReturn) * loaded),
                        loaded * empty)
  IN  fuel + Amount(route.tolls) + Amount(route.tollsReturn)
      + KmOperational(route) * p.operator

FormulaCost(p, route, value) ==
  RbBaseCost(p, route) + KmOperational(route) * p.upkeep
  + Larger(p.insuranceMin, Rounded(value * p.insuranceRate, 100))

Markup(cost, pct) == Rounded(100 * cost, 100 - pct)

(* In hundredths of a hundredth.                                           *)
RealMargin(rate, cost) ==
  IF rate > 0 THEN Rounded(10000 * (rate - cost), rate) ELSE 0

-----------------------------------------------------------------------------
(* p is the profile that ResolveProfile found for the request, or None.    *)
Price(rfq, p, route) ==
  LET rb   == LookupRb(KmOperational(route), p.rbTable)
      pct  == IF p.model = "profitability" THEN rb ELSE p.target
      cost == IF p.model = "profitability" THEN RbBaseCost(p, route)
              ELSE FormulaCost(p, route, rfq.value)
  IN  IF p = None THEN [cost |-> 0, rate |-> 0, pct |-> 0]
      ELSE [cost |-> cost, pct |-> pct,
            rate |-> Markup(cost, IF IsValidMargin(pct) THEN pct ELSE 0)]

(* The price is that of the same request, profile and route.               *)
CalculateQuote(rfq, p, price, required, route) ==
  LET evidence == IF required THEN EvidenceReasons(route) ELSE {}
      policy ==
        (IF rfq.weight > p.capacity THEN {"payload_capacity_exceeded"} ELSE {})
        \cup (IF ~ IsValidMargin(p.target) \/ ~ IsValidMargin(p.minimum)
                 \/ ~ IsValidMargin(price.pct)
              THEN {"invalid_margin_policy"} ELSE {})
        \cup (IF IsValidMargin(p.minimum)
                 /\ RealMargin(price.rate, price.cost) < 100 * p.minimum
              THEN {"margin_below_minimum"} ELSE {})
      reasons == evidence \cup (IF p = None THEN {"operating_profile_missing"}
                                ELSE policy)
  IN  [status |-> IF reasons = {} THEN "APPROVED" ELSE "REVIEW_REQUIRED",
       profile |-> IF p = None THEN None ELSE p.id,
       cost |-> price.cost, rate |-> price.rate, reasons |-> reasons]
=============================================================================
