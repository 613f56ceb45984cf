---------------------------- MODULE MCReviewData ----------------------------
(* ReviewData for TLC: a person with a token and one without. *)
EXTENDS ReviewData
CONSTANTS Ann, Bob
PeopleDef == {Ann, Bob}
TokensDef == {Ann}
=============================================================================
