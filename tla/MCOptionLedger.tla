---------------------------- MODULE MCOptionLedger ----------------------------
(***************************************************************************)
(* Instances of OptionLedger for TLC: a lot of two shares, so that half a  *)
(* lot is held after an odd trade, and positions of two contracts, so that *)
(* every leg can be closed in part.                                        *)
(***************************************************************************)
EXTENDS OptionLedger

ALeg(type, side, strike, premium, n) ==
    [type |-> type, side |-> side, strike |-> strike, expiration |-> 1,
     premium |-> premium, quantity |-> n, closed |-> 0]

Position(legs, shares, basis) == [legs |-> legs, shares |-> shares, basis |-> basis]

CoveredCall   == Position(<<ALeg("call", "short", 6, 2, 2)>>, 4, 4)
BullPutSpread == Position(<<ALeg("put", "short", 6, 2, 2), ALeg("put", "long", 4, 1, 2)>>, 0, 4)
Conversion    == Position(<<ALeg("put", "long", 6, 1, 2), ALeg("call", "short", 6, 2, 2)>>, 4, 6)
LongCall      == Position(<<ALeg("call", "long", 4, 2, 1)>>, 0, 4)

AllPositions == {CoveredCall, BullPutSpread, Conversion, LongCall}
OnlySpread   == {BullPutSpread}
HedgeAndPut  == {ALeg("call", "long", 7, 1, 1), ALeg("put", "short", 4, 1, 1)}

=============================================================================
