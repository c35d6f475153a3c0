----------------------------- MODULE PolicyGate -----------------------------
(***************************************************************************)
(* The deterministic policy gate of the quote agent, one lane at a time.   *)
(*                                                                         *)
(* A lane is judged from the quote that quote-core computed for it and     *)
(* from the historical context the TMS returned.  The language model never *)
(* decides: it annotates the recommendation, and its suggested rate is     *)
(* clamped into the historical band.                                       *)
(*                                                                         *)
(* Rates are whole numbers of pesos.  The code compares IEEE doubles; the  *)
(* thirds of a band are compared here without dividing.                    *)
(***************************************************************************)
EXTENDS Integers

CONSTANT MaxRate   \* bound on every rate, for the enumerations only

ASSUME MaxRateAssumption == MaxRate \in Nat

Rates == 0 .. MaxRate

NoBand  == [min |-> -1, max |-> -1]
NoQuote == [status |-> "MISSING", rate |-> 0]

Qualities == {"good", "thin", "none"}
Verdicts  == {"auto", "needs_review", "unknown_route"}

Bands  == {b \in [min : Rates, max : Rates] : b.min <= b.max} \cup {NoBand}
Quotes == [status : {"APPROVED", "REVIEW_REQUIRED"}, rate : Rates] \cup {NoQuote}
Histories == [quality : Qualities, band : Bands]

(* The band of a historical context: both bounds known and in order.       *)
HistoricalBand(min, max) ==
  IF min >= 0 /\ max >= min THEN [min |-> min, max |-> max] ELSE NoBand

(* The rate the model suggests, kept inside the band when there is one.    *)
Clamp(band, suggested) ==
  IF band = NoBand THEN suggested
  ELSE IF suggested > band.max THEN band.max
  ELSE IF suggested < band.min THEN band.min
  ELSE suggested

InBand(rate, band) == band.min <= rate /\ rate <= band.max

IsCentralThird(rate, band) ==
  LET width == band.max - band.min
  IN  /\ width > 0
      /\ 3 * rate >= 3 * band.min + width
      /\ 3 * rate <= 3 * band.max - width

Unknown(h)         == h.quality = "none" \/ h.band = NoBand
Suspicious(q, h)   == q.status # "APPROVED" \/ ~ InBand(q.rate, h.band)

(* policyGate adds the reason mid_band_confirmation_required exactly here, *)
(* and approvalPrompt looks for that reason.                               *)
NeedsConfirmation(q, h) ==
  /\ ~ Unknown(h)
  /\ ~ Suspicious(q, h)
  /\ IsCentralThird(q.rate, h.band)

Verdict(q, h) ==
  CASE Unknown(h)                                            -> "unknown_route"
    [] ~ Unknown(h) /\ (Suspicious(q, h) \/ NeedsConfirmation(q, h))
                                                             -> "needs_review"
    [] OTHER                                                 -> "auto"
=============================================================================
