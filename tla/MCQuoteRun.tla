----------------------------- MODULE MCQuoteRun -----------------------------
(* The instance of QuoteRun that TLC checks: a lane of each kind the gate  *)
(* tells apart, in a band from 0 to 6 whose central third is 2 to 4.       *)
EXTENDS QuoteRun, TLC

band == [min |-> 0, max |-> 6]

Lane(status, rate, quality) ==
  [quote |-> [status |-> status, rate |-> rate],
   history |-> [quality |-> quality, band |-> band]]

MCAssessments == {Lane("APPROVED", 1, "good"),         \* auto
                  Lane("APPROVED", 3, "good"),         \* asks for confirmation
                  Lane("APPROVED", 1, "none")}         \* unknown_route

Symmetry == Permutations(Deciders)
=============================================================================
