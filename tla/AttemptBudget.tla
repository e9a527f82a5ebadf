--------------------------- MODULE AttemptBudget ----------------------------
(***************************************************************************)
(* The sign-in attempt budget: claimAttempt counts, writes its row, counts *)
(* again with that row, and settleAttempt keeps or deletes the row once    *)
(* the credential was judged (src/lib/server/auth/rateLimit.ts).           *)
(*                                                                         *)
(* Each database statement is one step, and the two counts of tripOf are   *)
(* two statements in either order.  One kind of attempt is modelled: the   *)
(* kinds share the table and no counter.  A counter is a dimension (the    *)
(* subject or the address) and a key in it; hashing a key is left out.     *)
(***************************************************************************)
EXTENDS Integers, FiniteSets

CONSTANTS
    Attempts,       \* calls of claimAttempt whose row may still matter
    Keys,           \* subjects and addresses
    Callers,        \* who attempts: a subject and an address
    None,           \* no row, no key
    MaxAttempts,    \* MAX_ATTEMPTS
    Window,         \* WINDOW_MS, in clock ticks
    SlowestClaim,   \* ticks from the start of a claim to its last count
    MaxClock        \* where the clock stops (a bound)

ASSUME NoneAssumption == None \notin Int \cup Keys

ASSUME CallerAssumption == Callers \subseteq [{"subject", "address"} -> Keys]

ASSUME BudgetAssumption ==
    /\ MaxAttempts \in Nat \ {0}
    /\ Window \in Nat \ {0}
    /\ SlowestClaim \in 0 .. Window
    /\ MaxClock \in Nat

VARIABLES
    clock,      \* the server's clock
    claim,      \* the locals of each call
    row         \* LoginAttempt: createdAt of each call's row, or None

vars == <<clock, claim, row>>

-----------------------------------------------------------------------------
Dims == {"subject", "address"}

Claim ==
    [pc: {"idle", "check", "inserted", "recount", "admitted", "kept", "stuck"},
     key: [Dims -> Keys \cup {None}], opened: Nat, at: Nat, from: Int,
     todo: SUBSET Dims, full: BOOLEAN]

NoClaim == [pc |-> "idle", key |-> [d \in Dims |-> None], opened |-> 0,
            at |-> 0, from |-> 0, todo |-> {}, full |-> FALSE]

PC(r) == claim[r].pc

Claiming(r) == PC(r) \in {"check", "inserted", "recount"}

(* tripOf begins: its window is fixed before either count is read.         *)
Counting(c, pc) ==
    [pc |-> pc, key |-> c.key, opened |-> c.opened, at |-> c.at,
     from |-> clock - Window, todo |-> Dims, full |-> FALSE]

(* What is remembered of a call that counts no more.                       *)
Done(c, pc) == [pc |-> pc, key |-> c.key, opened |-> 0, at |-> c.at,
                from |-> 0, todo |-> {}, full |-> FALSE]

(* The rows one count of r sees.                                           *)
Counted(r, d) ==
    {s \in Attempts : /\ row[s] # None
                      /\ claim[s].key[d] = claim[r].key[d]
                      /\ row[s] >= claim[r].from}

(* countsOwnRow: the caller's own row may be the last one of the budget.   *)
Limit(r) == IF PC(r) = "recount" THEN MaxAttempts + 1 ELSE MaxAttempts

(* deleteExpiredAttempts, of rows four windows old.                        *)
TooEarly(t) == t < clock                           \* mutant: no retention
Expired(t)  == t < clock - 4 * Window

Unexpired(rows) == [s \in Attempts |->
                      IF rows[s] # None /\ Expired(rows[s]) THEN None
                      ELSE rows[s]]

-----------------------------------------------------------------------------
Init ==
    /\ clock = 0
    /\ row = [r \in Attempts |-> None]
    /\ claim = [r \in Attempts |-> NoClaim]

(* The clock; no claim takes longer than SlowestClaim.                     *)
Tick ==
    /\ clock < MaxClock
    /\ \A r \in Attempts : Claiming(r) => clock - claim[r].opened < SlowestClaim
    /\ clock' = clock + 1
    /\ UNCHANGED <<claim, row>>

-----------------------------------------------------------------------------
(* claimAttempt                                                            *)

Open(r, key) ==
    /\ PC(r) = "idle"
    /\ claim' = [claim EXCEPT ![r] =
                   Counting([NoClaim EXCEPT !.key = key, !.opened = clock],
                            "check")]
    /\ UNCHANGED <<clock, row>>

Count(r, d) ==
    /\ PC(r) \in {"check", "recount"}
    /\ d \in claim[r].todo
    /\ claim' = [claim EXCEPT ![r] =
                   [claim[r] EXCEPT
                      !.todo = claim[r].todo \ {d},
                      !.full = claim[r].full
                                 \/ Cardinality(Counted(r, d)) >= Limit(r)]]
    /\ UNCHANGED <<clock, row>>

(* The first counts refuse: nothing was written.                           *)
Refuse(r) ==
    /\ PC(r) = "check"
    /\ claim[r].todo = {}
    /\ claim[r].full
    /\ claim' = [claim EXCEPT ![r] = NoClaim]
    /\ UNCHANGED <<clock, row>>

Insert(r) ==
    /\ PC(r) = "check"
    /\ claim[r].todo = {}
    /\ ~claim[r].full
    /\ row' = [row EXCEPT ![r] = clock]
    /\ claim' = [claim EXCEPT ![r] = [claim[r] EXCEPT !.pc = "inserted",
                                                      !.at = clock]]
    /\ UNCHANGED clock

Recount(r) ==
    /\ PC(r) = "inserted"
    /\ claim' = [claim EXCEPT ![r] = Counting(claim[r], "recount")]
    /\ UNCHANGED <<clock, row>>

(* The second counts refuse: the call deletes its own row.                 *)
LeftThere(r) == row                                \* mutant: no delete
Deleted(r)   == [row EXCEPT ![r] = None]

Withdraw(r) ==
    /\ PC(r) = "recount"
    /\ claim[r].todo = {}
    /\ claim[r].full
    /\ row' = Deleted(r)
    /\ claim' = [claim EXCEPT ![r] = NoClaim]
    /\ UNCHANGED clock

AnyCount(r)   == TRUE                              \* mutant: before #714
UnderLimit(r) == ~claim[r].full

Admit(r) ==
    /\ PC(r) = "recount"
    /\ claim[r].todo = {}
    /\ UnderLimit(r)
    /\ claim' = [claim EXCEPT ![r] = Done(claim[r], "admitted")]
    /\ UNCHANGED <<clock, row>>

-----------------------------------------------------------------------------
(* settleAttempt, in the caller's finally: kept when the credential was    *)
(* wrong, and the expired rows swept; deleted otherwise.                   *)

SettleWrong(r) ==
    /\ PC(r) = "admitted"
    /\ row' = Unexpired(row)
    /\ claim' = [claim EXCEPT ![r] = Done(claim[r], "kept")]
    /\ UNCHANGED clock

SettleRight(r) ==
    /\ PC(r) = "admitted"
    /\ row' = Deleted(r)
    /\ claim' = [claim EXCEPT ![r] = NoClaim]
    /\ UNCHANGED clock

(* Another kind is recorded: recordAttempt sweeps the table as well.       *)
Sweep ==
    /\ row' = Unexpired(row)
    /\ UNCHANGED <<clock, claim>>

(* The database throws, or the process stops: a row already written stays, *)
(* and counts as a failure.                                                *)
Break(r) ==
    /\ PC(r) \in {"check", "inserted", "recount", "admitted"}
    /\ claim' = [claim EXCEPT ![r] =
                   CASE PC(r) = "check"    -> NoClaim
                     [] PC(r) = "admitted" -> Done(claim[r], "kept")
                     [] OTHER              -> Done(claim[r], "stuck")]
    /\ UNCHANGED <<clock, row>>

-----------------------------------------------------------------------------
Next ==
    \/ Tick
    \/ Sweep
    \/ \E r \in Attempts :
          \/ \E key \in Callers : Open(r, key)
          \/ \E d \in Dims : Count(r, d)
          \/ Refuse(r)
          \/ Insert(r)
          \/ Recount(r)
          \/ Withdraw(r)
          \/ Admit(r)
          \/ SettleWrong(r)
          \/ SettleRight(r)
          \/ Break(r)

Spec == Init /\ [][Next]_vars
-----------------------------------------------------------------------------
(* Properties.                                                             *)

(* Type invariant.                                                         *)
TypeOK ==
    /\ clock \in 0 .. MaxClock
    /\ claim \in [Attempts -> Claim]
    /\ row \in [Attempts -> Nat \cup {None}]

(* The credentials judged, or about to be, for one key of a dimension,     *)
(* whose rows were written in one stretch of the clock.                    *)
Stretch(x) == x .. x + (Window - SlowestClaim)

Judged(d, k, x) ==
    {r \in Attempts : /\ PC(r) \in {"admitted", "kept"}
                      /\ claim[r].key[d] = k
                      /\ claim[r].at \in Stretch(x)}

(* At most the maximum is admitted per key and window, whatever the        *)
(* concurrency (240-247): exactly, per window less the time a claim may    *)
(* take from its start to its last count.                                  *)
BudgetKept ==
    \A d \in Dims, k \in Keys, x \in 0 .. MaxClock :
       Cardinality(Judged(d, k, x)) <= MaxAttempts

(* The counters of the present window hold the failures and the claims in  *)
(* flight, all of them and nothing else: a correct credential and a        *)
(* refused burst cost nothing, and no failure is forgotten (255-259).      *)
OnlyFailuresCount ==
    \A r \in Attempts :
       /\ PC(r) = "idle" => row[r] = None
       /\ PC(r) \in {"kept", "stuck"} /\ claim[r].at >= clock - Window
             => row[r] # None
=============================================================================
