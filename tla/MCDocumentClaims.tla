--------------------------- MODULE MCDocumentClaims ---------------------------
(***************************************************************************)
(* An instance of DocumentClaims for TLC: an old and a new filing that     *)
(* differ about one relationship, one segment and one guidance thread, and *)
(* an exhibit, known with the new filing, that adds a figure to its basis  *)
(* and ends in a number without a scale.                                   *)
(***************************************************************************)
EXTENDS DocumentClaims

Said(x)       == [kind |-> "relationship", edge |-> "supplier", exposure |-> x]
Fact(b, p, v) == [kind |-> "fact", key |-> "segment", basis |-> b, period |-> p, value |-> v]
Sentence(x)   == [kind |-> "sentence", thread |-> "revenue", text |-> x]

Filed == [old |-> 1, new |-> 2, exhibit |-> 2]

Filings ==
    [old     |-> <<Said("low"), Fact("b1", 1, 5), Sentence("cautious"), Sentence("firm")>>,
     new     |-> <<Said("low"), Fact("b2", 1, 6), Sentence("bold")>>,
     exhibit |-> <<Fact("b2", 2, 6), Sentence("vague")>>]

Wording ==
    [cautious |-> [kind |-> "range", low |-> 4, high |-> 6, value |-> 5],
     bold     |-> [kind |-> "range", low |-> 6, high |-> 8, value |-> 7],
     firm     |-> [kind |-> "qualitative", low |-> 0, high |-> 0, value |-> 0],
     vague    |-> [kind |-> "unscaled", low |-> 0, high |-> 0, value |-> 0]]

=============================================================================
