---------------------------- MODULE Transactions ---------------------------
(***************************************************************************)
(* One member's transactions: their parts, their transfer pairs and their  *)
(* deletion (src/lib/server/transactions/splits.ts, transferPairs.ts,      *)
(* domain/transferPair.ts, import/deleteBatch.ts, /transactions).          *)
(*                                                                         *)
(* Every request is made once.  A transaction runs statement by statement  *)
(* under read committed: a statement sees what is committed when it        *)
(* starts, visits its rows in an order the engine chooses, waits for a row *)
(* another transaction has locked and judges it again; its writes are seen *)
(* when it commits.  A transaction is a number, in the order of the ids.   *)
(* The parts of one edit, whose sum is checked before they are written,    *)
(* are the edit's name.  Amounts, categories, notes, a batch's own row and *)
(* the restore are left out.                                               *)
(***************************************************************************)
EXTENDS Integers, FiniteSets

CONSTANTS
    Requests,
    Transactions,   \* ids, in order
    Nobody,         \* no lock holder
    Unpaired,       \* no other leg
    Linkable,       \* pairs of legs that linkRefusal accepts unsplit
    Batch           \* the transactions of one import

(* What the constants are; assumed by Ledger, and by every theorem.        *)
TransactionConstants ==
    /\ Transactions \subseteq Nat /\ IsFiniteSet(Transactions)
    /\ Unpaired \notin Transactions
    /\ Nobody \notin Requests
    /\ Linkable \subseteq {p \in Transactions \X Transactions : p[1] < p[2]}
    /\ Batch \subseteq Transactions

VARIABLES
    present,        \* the stored transactions
    partner,        \* transferPairId
    parts,          \* the edits whose parts a transaction has
    rowLock,
    kind, pc,       \* of each request
    legs,           \* the transactions it is about
    list,           \* the pairs it has still to link or to undo
    want,           \* rows its statement has still to visit
    clears,         \* rows it leaves unpaired when it commits
    dooms,          \* rows it deletes when it commits
    drops,          \* parts it deletes when it commits
    \* History.
    relinked        \* an undo met a leg of its pair linked after it began

stored == <<present, partner, parts>>
vars == <<stored, rowLock, kind, pc, legs, list, want, clears, dooms, drops,
          relinked>>

-----------------------------------------------------------------------------
Legs(p) == {p[1], p[2]}

Other(p, t) == IF t = p[1] THEN p[2] ELSE p[1]

Open(t) == partner[t] = Unpaired /\ parts[t] = {}

(* pairRefusal, and the condition of each of the two writes.               *)
PartsUnread(p) ==                                  \* mutant: as proposed
    \A t \in Legs(p) : partner[t] = Unpaired
PairAccepted(p) == \A t \in Legs(p) : Open(t)

Candidates(t) == {u \in present : Open(u) /\ (<<t, u>> \in Linkable \/ <<u, t>> \in Linkable)}

(* proposeTransferPairs: each is the other's only candidate.               *)
Proposed ==
    {p \in Linkable :
        /\ Legs(p) \subseteq present
        /\ \A t \in Legs(p) : Open(t) /\ Candidates(t) = {Other(p, t)}}

(* The rows each clearing statement matches.                               *)
JustOne(t) == {t}                                  \* mutant: before #1189
CutBySplit(t) == {t} \cup {u \in present : partner[u] = t}

AnyPair(S, t) == partner[t] # Unpaired             \* mutant: unguarded
StillNames(S, t) == partner[t] \in S

CutByDelete(gone) == {u \in present \ gone : partner[u] \in gone}

(* The legs are locked in the order of their ids.                          *)
AnyOrder(r, t) == TRUE                             \* mutant: as received
NextInOrder(r, t) == \A u \in want[r] : t <= u

Free(r, t) == rowLock[t] \in {r, Nobody}

Goto(r, place) == pc' = [pc EXCEPT ![r] = place]

Unlocked(r, t) == UNCHANGED rowLock                \* mutant: an ownership read
Lock(r, t) == rowLock' = [rowLock EXCEPT ![t] = r]

Wants(r, S) == want' = [want EXCEPT ![r] = S]

(* The transaction ends, and another may follow.                           *)
Ends(r, place) ==
    /\ Goto(r, place)
    /\ rowLock' = [t \in Transactions |-> IF rowLock[t] = r THEN Nobody ELSE rowLock[t]]
    /\ Wants(r, {})
    /\ clears' = [clears EXCEPT ![r] = {}]
    /\ dooms' = [dooms EXCEPT ![r] = {}]
    /\ drops' = [drops EXCEPT ![r] = {}]

RollsBack(r, place) == Ends(r, place) /\ UNCHANGED <<stored, kind, legs, list, relinked>>

-----------------------------------------------------------------------------
(* Two legs may be paired already.                                         *)
Init ==
    /\ present = Transactions
    /\ \/ partner = [t \in Transactions |-> Unpaired]
       \/ \E p \in Linkable : partner = [t \in Transactions |->
               IF t \in Legs(p) THEN Other(p, t) ELSE Unpaired]
    /\ parts = [t \in Transactions |-> {}]
    /\ rowLock = [t \in Transactions |-> Nobody]
    /\ kind = [r \in Requests |-> "none"]
    /\ pc = [r \in Requests |-> "idle"]
    /\ legs = [r \in Requests |-> {}]
    /\ list = [r \in Requests |-> {}]
    /\ want = [r \in Requests |-> {}]
    /\ clears = [r \in Requests |-> {}]
    /\ dooms = [r \in Requests |-> {}]
    /\ drops = [r \in Requests |-> {}]
    /\ relinked = FALSE

Begins(r, k, S) ==
    /\ pc[r] = "idle"
    /\ kind' = [kind EXCEPT ![r] = k]
    /\ legs' = [legs EXCEPT ![r] = S]
    /\ UNCHANGED <<stored, rowLock, clears, dooms, drops,
          relinked>>

-----------------------------------------------------------------------------
(* Linking two legs: « Link », and « Link all » one pair after another.    *)

AskConfirm(r, p) ==
    /\ Begins(r, "confirm", Legs(p))
    /\ list' = [list EXCEPT ![r] = {p}]
    /\ Wants(r, Legs(p))
    /\ Goto(r, "locking")

AskPairAll(r) ==
    /\ Begins(r, "pairAll", {})
    /\ list' = [list EXCEPT ![r] = Proposed]
    /\ Goto(r, "next")
    /\ UNCHANGED want

NextPair(r) ==
    /\ pc[r] = "next"
    /\ IF list[r] = {}
       THEN Goto(r, "done") /\ UNCHANGED <<legs, want>>
       ELSE \E p \in list[r] :
              /\ \A q \in list[r] : p[1] <= q[1]
              /\ legs' = [legs EXCEPT ![r] = Legs(p)]
              /\ Wants(r, Legs(p))
              /\ Goto(r, "locking")
    /\ UNCHANGED <<stored, rowLock, kind, list, clears, dooms, drops, relinked>>

(* Linked or refused, « Link all » goes on with the next pair.             *)
Linked(r) == IF kind[r] = "pairAll" THEN "next" ELSE "done"

Skips(r) == list' = [list EXCEPT ![r] = {p \in list[r] : Legs(p) # legs[r]}]

LockLeg(r, t) ==
    /\ pc[r] = "locking"
    /\ t \in want[r]
    /\ NextInOrder(r, t)
    /\ Free(r, t)
    /\ IF t \in present
       THEN /\ Lock(r, t)
            /\ Wants(r, want[r] \ {t})
            /\ Goto(r, IF want[r] # {t} THEN "locking"
                       ELSE IF kind[r] \in {"confirm", "pairAll"} THEN "link" ELSE "locked")
            /\ UNCHANGED <<stored, kind, legs, list, clears, dooms, drops, relinked>>
       ELSE Ends(r, Linked(r)) /\ Skips(r) /\ UNCHANGED <<stored, kind, legs, relinked>>

(* Both legs are locked: read again, judged, written and committed.        *)
Link(r) ==
    /\ pc[r] = "link"
    /\ \E p \in list[r] :
         /\ Legs(p) = legs[r]
         /\ partner' = [t \in Transactions |->
               IF PairAccepted(p) /\ t \in legs[r] THEN Other(p, t) ELSE partner[t]]
    /\ Ends(r, Linked(r))
    /\ Skips(r)
    /\ UNCHANGED <<present, parts, kind, legs, relinked>>

-----------------------------------------------------------------------------
(* Répartition: replaceSplits and clearSplits, one locked parent.          *)

AskSplit(r, k, t) ==
    /\ Begins(r, k, {t})
    /\ Wants(r, {t})
    /\ Goto(r, "locking")
    /\ UNCHANGED list

(* An amount, a note, a category or the sum is refused.                    *)
RefuseSplit(r) ==
    /\ pc[r] = "locked"
    /\ kind[r] = "split"
    /\ RollsBack(r, "done")

(* Its pair is cut first; clearing the parts leaves any pair alone.        *)
FindCut(r) ==
    /\ pc[r] = "locked"
    /\ kind[r] = "split"
    /\ \E t \in legs[r] : Wants(r, CutBySplit(t))
    /\ Goto(r, "cutting")
    /\ UNCHANGED <<stored, rowLock, kind, legs, list, clears, dooms, drops,
          relinked>>

-----------------------------------------------------------------------------
(* « Undo » and « Unlink »: the pairs the page names.                      *)

AskUndo(r, pairs) ==
    /\ Begins(r, "undo", UNION {Legs(p) : p \in pairs})
    /\ list' = [list EXCEPT ![r] = pairs]
    /\ Goto(r, IF UNION {Legs(p) : p \in pairs} \subseteq present THEN "undoing" ELSE "done")
    /\ UNCHANGED want

(* clearReadPair: each leg, only while it still names the other.           *)
FindPair(r, p) ==
    /\ pc[r] = "undoing"
    /\ p \in list[r]
    /\ list' = [list EXCEPT ![r] = list[r] \ {p}]
    /\ legs' = [legs EXCEPT ![r] = Legs(p)]
    /\ Wants(r, {t \in Legs(p) \cap present : StillNames(Legs(p), t)})
    /\ Goto(r, "cutting")
    /\ UNCHANGED <<stored, rowLock, kind, clears, dooms, drops, relinked>>

(* The row as it is now, against the statement that wants it.              *)
StillMatches(r, t) ==
    CASE kind[r] = "split"  -> t \in legs[r] \/ partner[t] \in legs[r]
      [] kind[r] = "undo"   -> StillNames(legs[r], t)
      [] kind[r] = "delete" -> partner[t] \in dooms[r]

(* Another request linked the pair again between the visits of its legs.   *)
Overtaken(r, t) ==
    /\ kind[r] = "undo"
    /\ StillMatches(r, t)
    /\ \E u \in legs[r] \ {t} : u \notin want[r] /\ u \notin clears[r]

CutOne(r, t) ==
    /\ pc[r] = "cutting"
    /\ t \in want[r]
    /\ Free(r, t)
    /\ Wants(r, want[r] \ {t})
    /\ IF t \in present /\ StillMatches(r, t)
       THEN Lock(r, t) /\ clears' = [clears EXCEPT ![r] = clears[r] \cup {t}]
       ELSE UNCHANGED <<rowLock, clears>>
    /\ relinked' = (relinked \/ Overtaken(r, t))
    /\ UNCHANGED <<stored, kind, pc, legs, list, dooms, drops>>

-----------------------------------------------------------------------------
(* A transaction, or an import with its transactions.                      *)

AskDelete(r, S) ==
    /\ Begins(r, "delete", S)
    /\ Wants(r, S \cap present)
    /\ Goto(r, "deleting")
    /\ UNCHANGED list

DeleteOne(r, t) ==
    /\ pc[r] = "deleting"
    /\ t \in want[r]
    /\ Free(r, t)
    /\ Wants(r, want[r] \ {t})
    /\ IF t \in present
       THEN Lock(r, t) /\ dooms' = [dooms EXCEPT ![r] = dooms[r] \cup {t}]
       ELSE UNCHANGED <<rowLock, dooms>>
    /\ UNCHANGED <<stored, kind, pc, legs, list, clears, drops, relinked>>

(* ON DELETE SET NULL, the other leg of each row.                          *)
FindOtherLegs(r) ==
    /\ pc[r] = "deleting"
    /\ want[r] = {}
    /\ Wants(r, CutByDelete(dooms[r]))
    /\ Goto(r, "cutting")
    /\ UNCHANGED <<stored, rowLock, kind, legs, list, clears, dooms, drops,
          relinked>>

-----------------------------------------------------------------------------
(* The statement that deletes the parts sees those there are now.          *)
FindParts(r) ==
    /\ \/ pc[r] = "locked" /\ kind[r] = "clear"
       \/ pc[r] = "cutting" /\ kind[r] = "split" /\ want[r] = {}
    /\ drops' = [drops EXCEPT ![r] = UNION {parts[t] : t \in legs[r]}]
    /\ Goto(r, "commit")
    /\ UNCHANGED <<stored, rowLock, kind, legs, list, want, clears, dooms, relinked>>

AllCut(r) ==
    /\ pc[r] = "cutting"
    /\ kind[r] \in {"undo", "delete"}
    /\ want[r] = {}
    /\ Goto(r, IF kind[r] = "undo" /\ list[r] # {} THEN "undoing" ELSE "commit")
    /\ UNCHANGED <<stored, rowLock, kind, legs, list, want, clears, dooms, drops, relinked>>

Commit(r) ==
    /\ pc[r] = "commit"
    /\ present' = present \ dooms[r]
    /\ partner' = [t \in Transactions |->
                     IF t \in clears[r] \cup dooms[r] THEN Unpaired ELSE partner[t]]
    /\ parts' = [t \in Transactions |->
                   IF t \in dooms[r] THEN {}
                   ELSE IF t \in legs[r]
                   THEN (parts[t] \ drops[r]) \cup (IF kind[r] = "split" THEN {r} ELSE {})
                   ELSE parts[t]]
    /\ Ends(r, "done")
    /\ UNCHANGED <<kind, legs, list, relinked>>

-----------------------------------------------------------------------------
(* The row locks r waits for, and who has them.                            *)
Asked(r) ==
    CASE pc[r] = "locking" -> {t \in want[r] : NextInOrder(r, t)}
      [] pc[r] \in {"cutting", "deleting"} -> want[r]
      [] OTHER -> {}

Holders(r) == {rowLock[t] : t \in Asked(r)} \ {r, Nobody}

Circle(S) == S # {} /\ \A q \in S : Holders(q) \cap S # {}

(* The database refuses one of a circle; nothing here asks again.          *)
Abort(r) ==
    /\ \E S \in SUBSET Requests : r \in S /\ Circle(S)
    /\ RollsBack(r, "failed")

Asks(r) ==
    \/ \E p \in Linkable : AskConfirm(r, p)
    \/ AskPairAll(r)
    \/ \E k \in {"split", "clear"}, t \in Transactions : AskSplit(r, k, t)
    \/ \E pairs \in SUBSET Linkable : pairs # {} /\ AskUndo(r, pairs)
    \/ \E S \in {{t} : t \in Transactions} \cup {Batch} : AskDelete(r, S)

Runs(r) ==
    \/ NextPair(r) \/ \E t \in Transactions : LockLeg(r, t) \/ CutOne(r, t) \/ DeleteOne(r, t)
    \/ Link(r)
    \/ RefuseSplit(r) \/ FindCut(r) \/ FindParts(r)
    \/ \E p \in list[r] : FindPair(r, p)
    \/ FindOtherLegs(r) \/ AllCut(r)
    \/ Commit(r)
    \/ Abort(r)

Answered(r) == pc[r] \in {"done", "failed"}

AllAnswered == (\A r \in Requests : Answered(r)) /\ UNCHANGED vars

Next == (\E r \in Requests : Asks(r) \/ Runs(r)) \/ AllAnswered

Spec == Init /\ [][Next]_vars

-----------------------------------------------------------------------------
TypeOK ==
    /\ present \in SUBSET Transactions
    /\ partner \in [Transactions -> Transactions \cup {Unpaired}]
    /\ parts \in [Transactions -> SUBSET Requests]
    /\ rowLock \in [Transactions -> Requests \cup {Nobody}]
    /\ kind \in [Requests -> {"none", "confirm", "pairAll", "split", "clear", "undo", "delete"}]
    /\ pc \in [Requests -> {"idle", "next", "locking", "locked", "link", "undoing",
                            "cutting", "deleting", "commit", "done", "failed"}]
    /\ legs \in [Requests -> SUBSET Transactions]
    /\ list \in [Requests -> SUBSET Linkable]
    /\ want \in [Requests -> SUBSET Transactions]
    /\ clears \in [Requests -> SUBSET Transactions]
    /\ dooms \in [Requests -> SUBSET Transactions]
    /\ drops \in [Requests -> SUBSET Requests]
    /\ relinked \in BOOLEAN

(* transferPairs.ts:129-135, splits.ts:148-149.  However links, splits,    *)
(* undos and deletions interleave, a leg names a stored leg that names it  *)
(* back, and neither has parts; one-sided pairs come only from an undo     *)
(* that the same two legs' own unlinking and relinking overtook.           *)
PairsMutual ==
    \A t \in present :
        partner[t] # Unpaired =>
            partner[t] \in present /\ partner[partner[t]] = t
PairsMutualUnlessOvertaken == relinked \/ PairsMutual

SplitNeverPaired == \A t \in present : parts[t] # {} => partner[t] = Unpaired

(* splits.ts:60-62.  The parts of a transaction all come from one edit, so *)
(* they sum to its amount whatever edits raced.                            *)
PartsWhole == \A t \in Transactions : Cardinality(parts[t]) <= 1

(* transferPairs.ts:75-77.  Requests that only link never wait in a        *)
(* circle, in whatever order their legs were named.                        *)
ConfirmsNeverCircle ==
    \A S \in SUBSET {r \in Requests : kind[r] \in {"confirm", "pairAll"}} : ~Circle(S)
=============================================================================
