----------------------------- MODULE MCOnboarding -----------------------------
(***************************************************************************)
(* Two mail servers with one account each, and a mailbox of Outlook.       *)
(***************************************************************************)
EXTENDS Onboarding

MCAccounts == {<<"h1", "s1">>, <<"h2", "s2">>}
=============================================================================
