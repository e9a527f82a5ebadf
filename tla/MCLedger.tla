------------------------------ MODULE MCLedger -----------------------------
(* Three transactions on three accounts: 2 and 3 each match 1.             *)
EXTENDS Ledger, TLC

MCLinkable == {<<1, 2>>, <<1, 3>>}
MCBatch == {2, 3}
MCOldLinks == {<<1, 1>>, <<3, 2>>}
MCFilters == {{2, 3}}
Symmetry == Permutations(Requests)
=============================================================================
