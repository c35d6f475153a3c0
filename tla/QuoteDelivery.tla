--------------------------- MODULE QuoteDelivery ---------------------------
(***************************************************************************)
(* What a quote run promises to the outside world, without graph nodes,    *)
(* status rows, processes or failures: consent is settled once, a quote    *)
(* leaves at most once and only with consent, and what is booked in the    *)
(* TMS is, line by line and in order, what the requester was told.         *)
(***************************************************************************)
EXTENDS Sequences, Naturals

CONSTANT Offers   \* the quotes that can be sent: sequences of lines

VARIABLES consent,   \* "undecided", "granted" or "withheld"
          sent,      \* the quotes the requester received
          booked     \* the lines written to the TMS

vars == <<consent, sent, booked>>

Init == consent = "undecided" /\ sent = <<>> /\ booked = <<>>

Decide ==
  /\ consent = "undecided"
  /\ consent' \in {"granted", "withheld"}
  /\ UNCHANGED <<sent, booked>>

Send ==
  /\ consent = "granted"
  /\ sent = <<>>
  /\ Len(sent') = 1
  /\ sent'[1] \in Offers
  /\ UNCHANGED <<consent, booked>>

Book ==
  /\ sent # <<>>
  /\ booked = <<>>
  /\ \E k \in 1 .. Len(sent[1]) : booked' = SubSeq(sent[1], 1, k)
  /\ UNCHANGED <<consent, sent>>

Next == Decide \/ Send \/ Book

Spec == Init /\ [][Next]_vars
=============================================================================
