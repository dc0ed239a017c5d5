----------------------------- MODULE MC_LiteText -----------------------------
(* LiteText for one identity that has the text open on two devices.  Two      *)
(* authors are one of the parts of MC_Services.                               *)
EXTENDS LiteText, TLC

CONSTANTS d1, d2

SiteOrder == d1 :> 1 @@ d2 :> 2
OneAuthor == d1 :> "alice" @@ d2 :> "alice"
=============================================================================
