-------------------------- MODULE MCCompanyIdentity --------------------------
(***************************************************************************)
(* Instances of CompanyIdentity for TLC.                                   *)
(***************************************************************************)
EXTENDS CompanyIdentity, TLC

TickerSymmetry == Permutations(Tickers)

=============================================================================
