------------------------------- MODULE Ledger ------------------------------
(***************************************************************************)
(* The transactions of one member with their tags: the requests of         *)
(* Transactions and of Tags, one set of them, over one store.  A deleted   *)
(* transaction takes its links with it.                                    *)
(*                                                                         *)
(* Only a deletion changes what both modules use.  So that the states of   *)
(* the two add up instead of multiplying, a request about tags runs beside *)
(* other requests about tags and deletions only.                           *)
(***************************************************************************)
EXTENDS Integers, FiniteSets

CONSTANTS
    Requests, Transactions,
    Nobody, Unpaired, Linkable, Batch,
    Names, NoName, OldLinks, Filters, MaxTags, MaxLinkAttempts, MaxRows,
    MaxBeside           \* requests beside one about tags (a bound)

VARIABLES
    present,
    partner, parts, rowLock, kind, pc, legs, list, want, clears, dooms, drops,
    relinked,
    nameOf, made, links, task, at, targets, names, selected, resolved, read,
    try, given, unlinked, excused, disturbed

T == INSTANCE Transactions
G == INSTANCE Tags

ASSUME ConstantsAssumption == T!TransactionConstants /\ G!TagConstants

ledgerVars == <<present, partner, parts, rowLock, kind, pc, legs, list, want,
                clears, dooms, drops, relinked>>
tagVars == <<nameOf, made, links, task, at, targets, names, selected, resolved,
             read, try, given, unlinked, excused, disturbed>>
vars == <<ledgerVars, tagVars>>

-----------------------------------------------------------------------------
Init == T!Init /\ G!TagInit

Begun(r) == pc[r] # "idle" \/ at[r] # "idle"
MayBegin(r) == Cardinality({q \in Requests \ {r} : Begun(q)}) <= MaxBeside

Tagging == {r \in Requests : task[r] # "none"}

(* A request about transactions; their links go when it deletes them.      *)
Transact(r) ==
    /\ at[r] = "idle"
    /\ T!Asks(r) \/ T!Runs(r)
    /\ Tagging # {} => kind'[r] = "delete" /\ MayBegin(r)
    /\ IF present' = present THEN UNCHANGED tagVars ELSE G!Cascade(present \ present')

(* A request about tags.                                                   *)
Tag(r) ==
    /\ pc[r] = "idle"
    /\ \/ /\ MayBegin(r)
          /\ \A q \in Requests : kind[q] \in {"none", "delete"}
          /\ G!AsksTags(r)
       \/ G!RunsTags(r)
    /\ UNCHANGED ledgerVars

Answered(r) == T!Answered(r) \/ at[r] \in {"done"} \cup G!Broken

AllAnswered ==
    /\ \A r \in Requests : Answered(r) \/ (Tagging # {} /\ ~Begun(r))
    /\ UNCHANGED vars

Next ==
    \/ \E r \in Requests : Transact(r) \/ Tag(r)
    \/ AllAnswered

Spec == Init /\ [][Next]_vars

-----------------------------------------------------------------------------
TypeOK == T!TypeOK /\ G!TagTypeOK

(* transferPairs.ts:129-135, splits.ts:148-149.  See Transactions.         *)
PairsMutualUnlessOvertaken == T!PairsMutualUnlessOvertaken

(* domain/transferPair.ts:50, splits.ts:148.  See Transactions.            *)
SplitNeverPaired == T!SplitNeverPaired

(* splits.ts:60-62.  See Transactions.                                     *)
PartsWhole == T!PartsWhole

(* transferPairs.ts:75-77.  See Transactions.                              *)
ConfirmsNeverCircle == T!ConfirmsNeverCircle

(* service.ts:279-283, 333-342.  See Tags.                                 *)
OrphansExplained == G!OrphansExplained

(* service.ts:295-297.  See Tags.                                          *)
FailedEditsUnlinkNothing == G!FailedEditsUnlinkNothing

(* service.ts:185-190.  See Tags.                                          *)
CapKeptUnlessRaced == G!CapKeptUnlessRaced
=============================================================================
