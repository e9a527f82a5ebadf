---------------------------- MODULE MCBankSync ------------------------------
(* BankSync on small instances: the same module under several sets of      *)
(* bounds, one .cfg each.                                                  *)
EXTENDS BankSync, TLC

(* No caller in src/ passes `force`.                                       *)
OnlyUnattended == {FALSE}
OpenEnded == {None}
ShortTerm == {2}
EitherTerm == {None, 1}         \* open-ended, or lapsing after a tick
Symmetry == Permutations(Conns) \cup Permutations(Accounts)
              \cup Permutations(Syncs) \cup Permutations(Callbacks)
              \cup Permutations(Requests) \cup Permutations(Bookings)
=============================================================================
