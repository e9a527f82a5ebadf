-------------------------------- MODULE Books ------------------------------
(***************************************************************************)
(* One member's server process: its imports (module Imports) and its net   *)
(* worth requests and bank syncs (module NetWorth).  The two share the     *)
(* process and no row: when it stops, everything in flight in either stops *)
(* with it, and the boot repair is over before it serves again.  A step of *)
(* one commutes with a step of the other, and every property is about one  *)
(* of them, so a behaviour here has requests of only one of the two.       *)
(***************************************************************************)
EXTENDS Integers, FiniteSets

CONSTANTS
    Requests,
    Rows, Readings, Amount, Expenses, Mirror, Divided, First, FirstReading, Nobody, MaxFaults,
    Lines, Banked, Orphans, Manual, Unlinked, Figures, MaxSnapshots, MaxRestarts,
    MaxImports          \* imports and cancellations among the requests (a bound)

VARIABLES
    holder, batches, pc, ask, candidates, todo, duplicates, landed, counted, interrupted,
    removed, shared, beside, absorbed, faults,
    link, attached, live, cash, headline, snapshots, now, at, line, started,
    queue, readLinks, found, returned, restarts

I == INSTANCE Imports
W == INSTANCE NetWorth

ASSUME ConstantsAssumption == I!ImportConstants /\ W!WorthConstants

importVars == <<holder, batches, pc, ask, candidates, todo, duplicates, landed, counted,
                interrupted, removed, shared, beside, absorbed, faults>>
worthVars == <<link, attached, live, cash, headline, snapshots, now, at, line,
               started, queue, readLinks, found, returned, restarts>>
vars == <<importVars, worthVars>>

-----------------------------------------------------------------------------
Init == I!Init /\ W!WorthInit

Importing == {r \in Requests : pc[r] # "idle"}
Valuing == {r \in Requests : at[r] # "idle"}

Import(r) ==
    /\ at[r] = "idle"
    /\ \/ /\ Cardinality(Importing) < MaxImports
          /\ Valuing = {}
          /\ I!Asks(r)
       \/ I!Runs(r)
    /\ UNCHANGED worthVars

Value(r) ==
    /\ pc[r] = "idle"
    /\ \/ Importing = {} /\ W!AsksWorth(r)
       \/ W!RunsWorth(r)
    /\ UNCHANGED importVars

Restart == W!Restart /\ I!StopAll

Answered(r) == (pc[r] # "idle" /\ ~I!InFlight(r)) \/ at[r] \in {"done", "refused", "stopped"}
AllAnswered ==
    /\ \A r \in Requests : Answered(r) \/ r \notin Importing \cup Valuing
    /\ UNCHANGED vars

Next ==
    \/ \E r \in Requests : Import(r) \/ Value(r)
    \/ Restart
    \/ AllAnswered

Spec == Init /\ [][Next]_vars

-----------------------------------------------------------------------------
TypeOK == I!TypeOK /\ W!WorthTypeOK

(* +page.server.ts:600-634, persist.ts:701-706.  See Imports.              *)
NothingLostUnlessShared == I!NothingLostUnlessShared

(* writeImport.ts:14-29.  See Imports.                                     *)
RefusalsTrue == I!RefusalsTrue

(* persist.ts:751-755, 903-913.  See Imports.                              *)
CountIsLedger == I!CountIsLedger

(* collision.ts:31-46.  See Imports.                                       *)
DoubledOnlyIfOverlapped == I!DoubledOnlyIfOverlapped

(* domain/netWorthLink.ts:4.  See NetWorth.                                *)
FedOnceUnlessReturned == W!FedOnceUnlessReturned

(* net-worth/service.ts:193-200, 204-210.  See NetWorth.                   *)
BankLinksStand == W!BankLinksStand

(* net-worth/service.ts:177-187, 370-377.  See NetWorth.                   *)
HeadlineIsNewest == W!HeadlineIsNewest
=============================================================================
