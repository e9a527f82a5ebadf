---------------------------- MODULE LedgerProofs ----------------------------
(* Theorems about the transactions and the tags of Ledger, for every value *)
(* of the constants that TransactionConstants and TagConstants admit.      *)
EXTENDS Ledger, FiniteSetTheorems, WellFoundedInduction, TLAPS

-----------------------------------------------------------------------------
(* The inductive invariant.                                                *)

Linking == {"confirm", "pairAll"}
Splitting == {"split", "clear"}
Resting(r) == pc[r] \in {"idle", "next", "done", "failed"}
Finding(r) == pc[r] \in {"cutting", "commit"}

(* Where a request can be, by its kind, and what is empty there.           *)
Fits(r) ==
    /\ pc[r] = "next" => kind[r] = "pairAll"
    /\ pc[r] = "locking" => kind[r] \in Linking \cup Splitting
    /\ pc[r] = "link" => kind[r] \in Linking
    /\ pc[r] = "locked" => kind[r] \in Splitting
    /\ pc[r] = "undoing" => kind[r] = "undo"
    /\ pc[r] = "deleting" => kind[r] = "delete"
    /\ pc[r] = "cutting" => kind[r] \in {"split", "undo", "delete"}
    /\ pc[r] = "commit" => kind[r] \in Splitting \cup {"undo", "delete"}

Emptied(r) ==
    /\ pc[r] \notin {"locking", "cutting", "deleting"} => want[r] = {}
    /\ pc[r] \notin {"cutting", "undoing", "commit"} \/ kind[r] = "clear" => clears[r] = {}
    /\ kind[r] # "delete" \/ Resting(r) => dooms[r] = {}
    /\ kind[r] \notin Splitting \/ pc[r] # "commit" => drops[r] = {}

Aimed(r) ==
    /\ kind[r] \in Splitting => \E t \in Transactions : legs[r] = {t}
    /\ pc[r] = "locking" => want[r] \subseteq legs[r]

(* What a request has locked.                                              *)
Holds(r) ==
    /\ Resting(r) => \A t \in Transactions : rowLock[t] # r
    /\ \A t \in clears[r] \cup dooms[r] : rowLock[t] = r
    /\ pc[r] = "locking" => \A t \in legs[r] \ want[r] : rowLock[t] = r
    /\ pc[r] \in {"link", "locked"} \/ (kind[r] \in Splitting /\ Finding(r))
         => \A t \in legs[r] : rowLock[t] = r

(* A request that links holds the legs that come before those it waits for.*)
InOrder(r) ==
    kind[r] \in Linking =>
        /\ \A t \in Transactions : rowLock[t] = r => t \in legs[r] \ want[r]
        /\ pc[r] = "locking" => \A t \in legs[r] \ want[r] : \A u \in want[r] : t < u

(* What an edit of the parts replaces and cuts.                            *)
Replaces(r) ==
    /\ kind[r] \in Splitting /\ pc[r] = "commit" => \A t \in legs[r] : parts[t] \subseteq drops[r]
    /\ kind[r] = "split" /\ Finding(r) => legs[r] \subseteq want[r] \cup clears[r]

Own(r) == Fits(r) /\ Emptied(r) /\ Aimed(r) /\ Holds(r) /\ InOrder(r) /\ Replaces(r)

(* The rows a request cuts are cut on both sides.                          *)
UndoClosed(r) ==
    kind[r] = "undo" =>
        /\ pc[r] = "cutting" => want[r] \subseteq legs[r]
        /\ \A t \in clears[r] :
             \/ partner[t] \in clears[r]
             \/ pc[r] = "cutting" /\ t \in legs[r] /\ partner[t] \in legs[r] \cap want[r]

SplitClosed(r) ==
    kind[r] = "split" /\ Finding(r) =>
        \A t \in legs[r] :
          /\ partner[t] # Unpaired => partner[t] \in want[r] \cup clears[r]
          /\ \A u \in clears[r] : u = t \/ partner[u] = t

DeleteClosed(r) ==
    kind[r] = "delete" /\ Finding(r) =>
        /\ \A t \in dooms[r] :
             partner[t] # Unpaired => partner[t] \in dooms[r] \cup want[r] \cup clears[r]
        /\ \A u \in clears[r] : partner[u] \in dooms[r]

Closed(r) == UndoClosed(r) /\ SplitClosed(r) /\ DeleteClosed(r)

LockedPresent == \A t \in Transactions : rowLock[t] # Nobody => t \in present

NotSelf == \A t \in Transactions : partner[t] # t

PartsOne == \A t \in Transactions : \A a, b \in parts[t] : a = b

Rows == LockedPresent /\ NotSelf /\ PartsOne /\ T!SplitNeverPaired

Mutual == T!PairsMutual /\ \A r \in Requests : Closed(r)

IInv == T!TypeOK /\ (\A r \in Requests : Own(r)) /\ Rows /\ (relinked \/ Mutual)

-----------------------------------------------------------------------------
(* The types.                                                              *)
LEMMA InitTypes ==
    ASSUME T!TransactionConstants, T!Init
    PROVE  T!TypeOK
<1>1. partner \in [Transactions -> Transactions \cup {Unpaired}]
  BY DEF T!Init, T!TransactionConstants, T!Legs, T!Other
<1> QED BY <1>1 DEF T!Init, T!TypeOK

(* The end of a transaction keeps the types.                                 *)
LEMMA EndsTypes ==
    ASSUME T!TypeOK, NEW r \in Requests, NEW place \in {"next", "done", "failed"}, T!Ends(r, place)
    PROVE  /\ pc' \in [Requests -> {"idle", "next", "locking", "locked", "link", "undoing",
                                     "cutting", "deleting", "commit", "done", "failed"}]
           /\ rowLock' \in [Transactions -> Requests \cup {Nobody}]
           /\ want' \in [Requests -> SUBSET Transactions]
           /\ clears' \in [Requests -> SUBSET Transactions]
           /\ dooms' \in [Requests -> SUBSET Transactions]
           /\ drops' \in [Requests -> SUBSET Requests]
<1>1. pc' = [pc EXCEPT ![r] = place]
  BY DEF T!Ends, T!Goto
<1>2. /\ rowLock' = [t \in Transactions |-> IF rowLock[t] = r THEN Nobody ELSE rowLock[t]]
      /\ want' = [want EXCEPT ![r] = {}]
      /\ clears' = [clears EXCEPT ![r] = {}]
      /\ dooms' = [dooms EXCEPT ![r] = {}]
      /\ drops' = [drops EXCEPT ![r] = {}]
  BY DEF T!Ends, T!Wants
<1> QED BY <1>1, <1>2 DEF T!TypeOK

(* A request that begins keeps the types.                                    *)
LEMMA AsksTypes ==
    ASSUME T!TransactionConstants, T!TypeOK, NEW r \in Requests, T!Asks(r)
    PROVE  T!TypeOK'
<1>0. Linkable \subseteq Transactions \X Transactions /\ Batch \subseteq Transactions
  BY DEF T!TransactionConstants
<1>1. \A p \in Linkable : T!Legs(p) \subseteq Transactions
  BY <1>0 DEF T!Legs
<1>2. ASSUME NEW p \in Linkable, T!AskConfirm(r, p) PROVE T!TypeOK'
  BY <1>1, <1>2 DEF T!AskConfirm, T!Begins, T!Wants, T!Goto, T!TypeOK, T!stored
<1>3. CASE T!AskPairAll(r)
  <2>1. T!Proposed \subseteq Linkable
    BY DEF T!Proposed
  <2> QED BY <1>3, <2>1 DEF T!AskPairAll, T!Begins, T!Goto, T!TypeOK, T!stored
<1>4. ASSUME NEW k \in {"split", "clear"}, NEW t \in Transactions, T!AskSplit(r, k,
   t) PROVE T!TypeOK'
  BY <1>4 DEF T!AskSplit, T!Begins, T!Wants, T!Goto, T!TypeOK, T!stored
<1>5. ASSUME NEW pairs \in SUBSET Linkable, T!AskUndo(r, pairs) PROVE T!TypeOK'
  <2>1. UNION {T!Legs(p) : p \in pairs} \subseteq Transactions
    BY <1>1
  <2> QED BY <1>5, <2>1 DEF T!AskUndo, T!Begins, T!Goto, T!TypeOK, T!stored
<1>6. ASSUME NEW S \in {{t} : t \in Transactions} \cup {Batch}, T!AskDelete(r, S) PROVE T!TypeOK'
  <2>1. S \subseteq Transactions /\ S \cap present \subseteq Transactions
    BY <1>0
  <2> QED BY <1>6, <2>1 DEF T!AskDelete, T!Begins, T!Wants, T!Goto, T!TypeOK, T!stored
<1> QED BY <1>2, <1>3, <1>4, <1>5, <1>6 DEF T!Asks

(* A request that goes on keeps the types.                                   *)
LEMMA RunsTypes ==
    ASSUME T!TransactionConstants, T!TypeOK, NEW r \in Requests, T!Runs(r)
    PROVE  T!TypeOK'
<1>0. Linkable \subseteq Transactions \X Transactions
  BY DEF T!TransactionConstants
<1>1. \A p \in Linkable : T!Legs(p) \subseteq Transactions
  BY <1>0 DEF T!Legs
<1>2. CASE T!NextPair(r)
  <2>1. CASE list[r] = {}
    BY <1>2, <2>1 DEF T!NextPair, T!Goto, T!TypeOK, T!stored
  <2>2. CASE list[r] # {}
    <3>1. PICK p \in list[r] : legs' = [legs EXCEPT ![r] = T!Legs(p)] /\ T!Wants(r,
       T!Legs(p)) /\ T!Goto(r, "locking")
      BY <1>2, <2>2 DEF T!NextPair
    <3>2. T!Legs(p) \subseteq Transactions
      BY <1>1 DEF T!TypeOK
    <3> QED BY <1>2, <3>1, <3>2 DEF T!NextPair, T!Wants, T!Goto, T!TypeOK, T!stored
  <2> QED BY <2>1, <2>2
<1>3. ASSUME NEW t \in Transactions, T!LockLeg(r, t) PROVE T!TypeOK'
  <2>1. CASE t \in present
    <3>1. PICK place \in {"locking", "link", "locked"} : T!Goto(r, place)
      BY <1>3, <2>1 DEF T!LockLeg
    <3>2. want[r] \ {t} \subseteq Transactions
      BY DEF T!TypeOK
    <3> QED BY <1>3, <2>1, <3>1, <3>2 DEF T!LockLeg, T!Lock, T!Wants, T!Goto, T!TypeOK, T!stored
  <2>2. CASE t \notin present
    <3>1. T!Linked(r) \in {"next", "done", "failed"} /\ T!Ends(r, T!Linked(r)) /\ T!Skips(r)
          /\ UNCHANGED <<T!stored, kind, legs, relinked>>
      BY <1>3, <2>2 DEF T!LockLeg, T!Linked
    <3>2. list' \in [Requests -> SUBSET Linkable]
      <4> DEFINE L == {p \in list[r] : T!Legs(p) # legs[r]}
      <4>1. L \subseteq Linkable
        BY DEF T!TypeOK
      <4>2. list' = [list EXCEPT ![r] = L]
        BY <3>1 DEF T!Skips
      <4> HIDE DEF L
      <4> QED BY <4>1, <4>2 DEF T!TypeOK
    <3> QED BY <3>1, <3>2, EndsTypes DEF T!TypeOK, T!stored
  <2> QED BY <2>1, <2>2
<1>4. CASE T!Link(r)
  <2>1. T!Linked(r) \in {"next", "done", "failed"} /\ T!Ends(r, T!Linked(r)) /\ T!Skips(r)
        /\ UNCHANGED <<present, parts, kind, legs, relinked>>
    BY <1>4 DEF T!Link, T!Linked
  <2>2. list' \in [Requests -> SUBSET Linkable]
    <3> DEFINE L == {p \in list[r] : T!Legs(p) # legs[r]}
    <3>1. L \subseteq Linkable
      BY DEF T!TypeOK
    <3>2. list' = [list EXCEPT ![r] = L]
      BY <2>1 DEF T!Skips
    <3> HIDE DEF L
    <3> QED BY <3>1, <3>2 DEF T!TypeOK
  <2>3. PICK p \in list[r] :
          partner' = [t \in Transactions |->
               IF T!PairAccepted(p) /\ t \in legs[r] THEN T!Other(p, t) ELSE partner[t]]
    BY <1>4 DEF T!Link
  <2>4. \A t \in Transactions : T!Other(p, t) \in Transactions
    BY <1>0 DEF T!Other, T!TypeOK
  <2>5. partner' \in [Transactions -> Transactions \cup {Unpaired}]
    BY <2>3, <2>4 DEF T!TypeOK
  <2> QED BY <2>1, <2>2, <2>5, EndsTypes DEF T!TypeOK
<1>5. CASE T!RefuseSplit(r)
  BY <1>5, EndsTypes DEF T!RefuseSplit, T!RollsBack, T!TypeOK, T!stored
<1>6. CASE T!FindCut(r)
  <2>1. PICK t \in legs[r] : T!Wants(r, T!CutBySplit(t))
    BY <1>6 DEF T!FindCut
  <2>2. T!CutBySplit(t) \subseteq Transactions
    BY DEF T!CutBySplit, T!TypeOK
  <2> QED BY <1>6, <2>1, <2>2 DEF T!FindCut, T!Wants, T!Goto, T!TypeOK, T!stored
<1>7. CASE T!FindParts(r)
  <2> DEFINE D == UNION {parts[t] : t \in legs[r]}
  <2>1. D \subseteq Requests
    BY DEF T!TypeOK
  <2>2. drops' = [drops EXCEPT ![r] = D]
    BY <1>7 DEF T!FindParts
  <2> HIDE DEF D
  <2> QED BY <1>7, <2>1, <2>2 DEF T!FindParts, T!Goto, T!TypeOK, T!stored
<1>8. ASSUME NEW p \in list[r], T!FindPair(r, p) PROVE T!TypeOK'
  <2>1. T!Legs(p) \subseteq Transactions /\ {t \in T!Legs(p) \cap present : T!StillNames(T!Legs(p), t)} \subseteq Transactions
    BY <1>1 DEF T!TypeOK
  <2>2. list[r] \ {p} \subseteq Linkable
    BY DEF T!TypeOK
  <2> QED BY <1>8, <2>1, <2>2 DEF T!FindPair, T!Wants, T!Goto, T!TypeOK, T!stored
<1>9. CASE T!FindOtherLegs(r)
  <2>1. T!CutByDelete(dooms[r]) \subseteq Transactions
    BY DEF T!CutByDelete, T!TypeOK
  <2> QED BY <1>9, <2>1 DEF T!FindOtherLegs, T!Wants, T!Goto, T!TypeOK, T!stored
<1>10. CASE T!AllCut(r)
  <2>1. PICK place \in {"undoing", "commit"} : T!Goto(r, place)
    BY <1>10 DEF T!AllCut
  <2> QED BY <1>10, <2>1 DEF T!AllCut, T!Goto, T!TypeOK, T!stored
<1>11. CASE T!Commit(r)
  <2>1. present' \in SUBSET Transactions
    BY <1>11 DEF T!Commit, T!TypeOK
  <2>2. partner' \in [Transactions -> Transactions \cup {Unpaired}]
    BY <1>11 DEF T!Commit, T!TypeOK
  <2>3. parts' \in [Transactions -> SUBSET Requests]
    <3> DEFINE P(t) == IF t \in dooms[r] THEN {}
                       ELSE IF t \in legs[r]
                       THEN (parts[t] \ drops[r]) \cup (IF kind[r] = "split" THEN {r} ELSE {})
                       ELSE parts[t]
    <3>1. \A t \in Transactions : P(t) \in SUBSET Requests
      BY DEF T!TypeOK
    <3>2. parts' = [t \in Transactions |-> P(t)]
      BY <1>11 DEF T!Commit
    <3> HIDE DEF P
    <3> QED BY <3>1, <3>2
  <2>4. T!Ends(r, "done") /\ UNCHANGED <<kind, legs, list, relinked>>
    BY <1>11 DEF T!Commit
  <2> QED BY <2>1, <2>2, <2>3, <2>4, EndsTypes DEF T!TypeOK
<1>12. CASE T!Abort(r)
  BY <1>12, EndsTypes DEF T!Abort, T!RollsBack, T!TypeOK, T!stored
<1>13. ASSUME NEW t \in Transactions, T!CutOne(r, t) PROVE T!TypeOK'
  <2>1. want[r] \ {t} \subseteq Transactions
    BY DEF T!TypeOK
  <2>2. relinked' \in BOOLEAN
    BY <1>13, Zenon DEF T!CutOne, T!Overtaken, T!TypeOK
  <2>3. /\ rowLock' \in [Transactions -> Requests \cup {Nobody}]
        /\ clears' \in [Requests -> SUBSET Transactions]
    <3>1. CASE t \in present /\ T!StillMatches(r, t)
      <4>1. clears[r] \cup {t} \subseteq Transactions
        BY DEF T!TypeOK
      <4> QED BY <1>13, <3>1, <4>1 DEF T!CutOne, T!Lock, T!TypeOK
    <3>2. CASE ~(t \in present /\ T!StillMatches(r, t))
      BY <1>13, <3>2 DEF T!CutOne, T!TypeOK
    <3> QED BY <3>1, <3>2
  <2> QED BY <1>13, <2>1, <2>2, <2>3 DEF T!CutOne, T!Wants, T!TypeOK, T!stored
<1>14. ASSUME NEW t \in Transactions, T!DeleteOne(r, t) PROVE T!TypeOK'
  <2>1. want[r] \ {t} \subseteq Transactions /\ dooms[r] \cup {t} \subseteq Transactions
    BY DEF T!TypeOK
  <2>2. CASE t \in present
    BY <1>14, <2>1, <2>2 DEF T!DeleteOne, T!Lock, T!Wants, T!TypeOK, T!stored
  <2>3. CASE t \notin present
    BY <1>14, <2>1, <2>3 DEF T!DeleteOne, T!Wants, T!TypeOK, T!stored
  <2> QED BY <2>2, <2>3
<1> QED BY <1>2, <1>3, <1>4, <1>5, <1>6, <1>7, <1>8, <1>9, <1>10, <1>11, <1>12, <1>13,
   <1>14 DEF T!Runs

(* Every step keeps the types.                                               *)
LEMMA NextTypes ==
    ASSUME T!TransactionConstants, T!TypeOK, [T!Next]_(T!vars)
    PROVE  T!TypeOK'
<1>1. CASE UNCHANGED T!vars
  BY <1>1 DEF T!vars, T!stored, T!TypeOK
<1> QED BY <1>1, AsksTypes, RunsTypes DEF T!Next, T!AllAnswered

-----------------------------------------------------------------------------
(* A step leaves the other requests, and the rows they have locked, as     *)
(* they are.                                                               *)
Frame(r) ==
    /\ \A q \in Requests \ {r} :
         /\ kind'[q] = kind[q] /\ pc'[q] = pc[q] /\ legs'[q] = legs[q] /\ want'[q] = want[q]
         /\ clears'[q] = clears[q] /\ dooms'[q] = dooms[q] /\ drops'[q] = drops[q]
         /\ \A t \in Transactions : rowLock'[t] = q <=> rowLock[t] = q
    /\ \A t \in Transactions :
         rowLock[t] # r =>
           /\ partner'[t] = partner[t]
           /\ parts'[t] = parts[t]
           /\ t \in present' <=> t \in present

(* What one request may rely on survives the step of another.                *)
LEMMA FrameOwn ==
    ASSUME T!TypeOK, NEW r \in Requests, NEW q \in Requests \ {r}, Frame(r), Own(q)
    PROVE  Own(q)'
<1>1. /\ kind'[q] = kind[q] /\ pc'[q] = pc[q] /\ legs'[q] = legs[q] /\ want'[q] = want[q]
      /\ clears'[q] = clears[q] /\ dooms'[q] = dooms[q] /\ drops'[q] = drops[q]
      /\ \A t \in Transactions : rowLock'[t] = q <=> rowLock[t] = q
  BY DEF Frame
<1>2. /\ legs[q] \subseteq Transactions /\ clears[q] \subseteq Transactions
      /\ dooms[q] \subseteq Transactions /\ want[q] \subseteq Transactions
  BY DEF T!TypeOK
<1>3. Fits(q)' /\ Emptied(q)' /\ Aimed(q)'
  BY <1>1 DEF Own, Fits, Emptied, Aimed, Resting
<1>4. Holds(q)' /\ InOrder(q)'
  BY <1>1, <1>2 DEF Own, Holds, InOrder, Resting, Finding
<1>5. Replaces(q)'
  <2>1. ASSUME kind[q] \in Splitting, pc[q] = "commit", NEW t \in legs[q]
        PROVE  parts'[t] = parts[t]
    BY <1>2, <2>1 DEF Own, Holds, Finding, Frame
  <2> QED BY <1>1, <2>1 DEF Own, Replaces, Finding
<1> QED BY <1>3, <1>4, <1>5 DEF Own

(* A request that begins has what it may rely on.                            *)
LEMMA AsksOwn ==
    ASSUME T!TransactionConstants, T!TypeOK, NEW r \in Requests, Own(r), T!Asks(r), T!TypeOK'
    PROVE  Own(r)' /\ Frame(r)
<1>1. Frame(r)
  BY DEF T!Asks, T!AskConfirm, T!AskPairAll, T!AskSplit, T!AskUndo, T!AskDelete, T!Begins,
     T!Wants, T!Goto,
         Frame, T!stored, T!TypeOK
<1>2. /\ pc[r] = "idle" /\ pc'[r] \in {"locking", "next", "undoing", "done", "deleting"}
      /\ clears'[r] = {} /\ dooms'[r] = {} /\ drops'[r] = {}
      /\ \A t \in Transactions : rowLock'[t] # r
      /\ pc'[r] = "next" => kind'[r] = "pairAll"
      /\ pc'[r] = "undoing" => kind'[r] = "undo"
      /\ pc'[r] = "deleting" => kind'[r] = "delete"
      /\ pc'[r] = "locking" => kind'[r] \in {"confirm"} \cup Splitting /\ want'[r] = legs'[r]
      /\ pc'[r] \notin {"locking", "deleting"} => want'[r] = {}
      /\ kind'[r] \in Splitting => \E t \in Transactions : legs'[r] = {t}
  <2>1. /\ pc[r] = "idle" /\ clears'[r] = {} /\ dooms'[r] = {} /\ drops'[r] = {} /\ want[r] = {}
        /\ \A t \in Transactions : rowLock'[t] # r
    BY DEF T!Asks, T!AskConfirm, T!AskPairAll, T!AskSplit, T!AskUndo, T!AskDelete, T!Begins,
       T!stored, Own,
           Emptied, Holds, Resting, Splitting, T!TypeOK
  <2>2. ASSUME NEW p \in Linkable, T!AskConfirm(r, p)
        PROVE  pc'[r] = "locking" /\ kind'[r] = "confirm" /\ want'[r] = legs'[r]
    BY <2>2 DEF T!AskConfirm, T!Begins, T!Wants, T!Goto, T!TypeOK
  <2>3. CASE T!AskPairAll(r)
    <3>1. pc'[r] = "next" /\ kind'[r] = "pairAll" /\ want'[r] = {}
      BY <2>1, <2>3 DEF T!AskPairAll, T!Begins, T!Goto, T!TypeOK
    <3> QED BY <2>1, <3>1 DEF Splitting
  <2>4. ASSUME NEW k \in {"split", "clear"}, NEW t \in Transactions, T!AskSplit(r, k, t)
        PROVE  pc'[r] = "locking" /\ kind'[r] = k /\ want'[r] = legs'[r] /\ legs'[r] = {t}
    BY <2>4 DEF T!AskSplit, T!Begins, T!Wants, T!Goto, T!TypeOK
  <2>5. ASSUME NEW pairs \in SUBSET Linkable, T!AskUndo(r, pairs)
        PROVE  pc'[r] \in {"undoing", "done"} /\ kind'[r] = "undo" /\ want'[r] = {}
    BY <2>1, <2>5 DEF T!AskUndo, T!Begins, T!Goto, T!TypeOK
  <2>6. ASSUME NEW S, T!AskDelete(r, S)
        PROVE  pc'[r] = "deleting" /\ kind'[r] = "delete"
    BY <2>6 DEF T!AskDelete, T!Begins, T!Goto, T!TypeOK
  <2> QED BY <2>1, <2>2, <2>3, <2>4, <2>5, <2>6 DEF T!Asks, Splitting
<1>3. Own(r)'
  BY <1>2 DEF Own, Fits, Emptied, Aimed, Holds, InOrder, Replaces, Resting, Finding, Linking,
              Splitting
<1> QED BY <1>1, <1>3

(* The end of a transaction, whatever it wrote.                            *)
LEMMA EndsOwn ==
    ASSUME T!TransactionConstants, T!TypeOK, NEW r \in Requests,
           NEW place \in {"next", "done", "failed"}, T!Ends(r, place), Own(r),
           UNCHANGED <<kind, legs>>, place = "next" => kind[r] = "pairAll"
    PROVE  /\ Own(r)'
           /\ \A q \in Requests \ {r} :
                /\ kind'[q] = kind[q] /\ pc'[q] = pc[q] /\ legs'[q] = legs[q]
                /\ want'[q] = want[q] /\ clears'[q] = clears[q] /\ dooms'[q] = dooms[q]
                /\ drops'[q] = drops[q]
                /\ \A t \in Transactions : rowLock'[t] = q <=> rowLock[t] = q
<1>1. /\ pc' = [pc EXCEPT ![r] = place]
      /\ rowLock' = [t \in Transactions |-> IF rowLock[t] = r THEN Nobody ELSE rowLock[t]]
      /\ want' = [want EXCEPT ![r] = {}]
      /\ clears' = [clears EXCEPT ![r] = {}]
      /\ dooms' = [dooms EXCEPT ![r] = {}]
      /\ drops' = [drops EXCEPT ![r] = {}]
  BY DEF T!Ends, T!Goto, T!Wants
<1>2. Nobody \notin Requests
  BY DEF T!TransactionConstants
<1>3. /\ pc'[r] = place /\ want'[r] = {} /\ clears'[r] = {} /\ dooms'[r] = {} /\ drops'[r] = {}
      /\ kind'[r] = kind[r] /\ legs'[r] = legs[r]
      /\ \A t \in Transactions : rowLock'[t] # r
  BY <1>1, <1>2 DEF T!TypeOK
<1>4. Own(r)'
  BY <1>3 DEF Own, Fits, Emptied, Aimed, Holds, InOrder, Replaces, Resting, Finding, Splitting
<1>5. ASSUME NEW q \in Requests \ {r}
      PROVE  /\ kind'[q] = kind[q] /\ pc'[q] = pc[q] /\ legs'[q] = legs[q]
             /\ want'[q] = want[q] /\ clears'[q] = clears[q] /\ dooms'[q] = dooms[q]
             /\ drops'[q] = drops[q]
             /\ \A t \in Transactions : rowLock'[t] = q <=> rowLock[t] = q
  BY <1>1, <1>2 DEF T!TypeOK
<1> QED BY <1>4, <1>5

(* A request that goes on keeps what it may rely on.                         *)
LEMMA RunsOwn ==
    ASSUME T!TransactionConstants, T!TypeOK, NEW r \in Requests, Own(r), LockedPresent,
       T!Runs(r), T!TypeOK'
    PROVE  Own(r)' /\ Frame(r)
<1>0. Nobody \notin Requests
  BY DEF T!TransactionConstants
<1>2. CASE T!NextPair(r)
  <2>1. Frame(r)
    BY <1>2 DEF T!NextPair, Frame, T!Goto, T!Wants, T!stored, T!TypeOK
  <2>2. CASE list[r] = {}
    <3>1. /\ pc[r] = "next" /\ pc'[r] = "done"
          /\ UNCHANGED <<rowLock, parts, kind, legs, want, clears, dooms, drops>>
      BY <1>2, <2>2 DEF T!NextPair, T!Goto, T!stored, T!TypeOK
    <3> QED BY <2>1, <3>1 DEF Own, Fits, Emptied, Aimed, Holds, InOrder, Replaces, Resting, Finding,
                              Splitting, Linking
  <2>3. CASE list[r] # {}
    <3>1. PICK p \in list[r] : legs' = [legs EXCEPT ![r] = T!Legs(p)] /\ T!Wants(r,
       T!Legs(p)) /\ T!Goto(r, "locking")
      BY <1>2, <2>3 DEF T!NextPair
    <3>2. /\ pc[r] = "next" /\ pc'[r] = "locking" /\ want'[r] = legs'[r]
          /\ UNCHANGED <<rowLock, parts, kind, clears, dooms, drops>>
      BY <1>2, <3>1 DEF T!NextPair, T!Goto, T!Wants, T!stored, T!TypeOK
    <3> QED BY <2>1, <3>2 DEF Own, Fits, Emptied, Aimed, Holds, InOrder, Replaces, Resting, Finding,
                              Splitting, Linking
  <2> QED BY <2>2, <2>3
<1>3. ASSUME NEW t \in Transactions, T!LockLeg(r, t) PROVE Own(r)' /\ Frame(r)
  <2>0. pc[r] = "locking" /\ t \in want[r] /\ T!NextInOrder(r, t) /\ rowLock[t] \in {r, Nobody}
    BY <1>3 DEF T!LockLeg, T!Free
  <2>1. CASE t \in present
    <3>1. /\ rowLock' = [rowLock EXCEPT ![t] = r]
          /\ want' = [want EXCEPT ![r] = want[r] \ {t}]
          /\ UNCHANGED <<T!stored, kind, legs, list, clears, dooms, drops, relinked>>
      BY <1>3, <2>1 DEF T!LockLeg, T!Lock, T!Wants
    <3>2. pc' = [pc EXCEPT ![r] = IF want[r] # {t} THEN "locking"
                       ELSE IF kind[r] \in {"confirm", "pairAll"} THEN "link" ELSE "locked"]
      BY <1>3, <2>1 DEF T!LockLeg, T!Goto
    <3>3. Frame(r)
      <4>1. \A q \in Requests \ {r} : \A u \in Transactions : rowLock'[u] = q <=> rowLock[u] = q
        BY <1>0, <2>0, <3>1 DEF T!TypeOK
      <4> QED BY <3>1, <3>2, <4>1 DEF Frame, T!stored, T!TypeOK
    <3>4. /\ want'[r] = want[r] \ {t}
          /\ pc'[r] = IF want[r] # {t} THEN "locking"
                       ELSE IF kind[r] \in Linking THEN "link" ELSE "locked"
          /\ rowLock'[t] = r /\ \A u \in Transactions \ {t} : rowLock'[u] = rowLock[u]
          /\ UNCHANGED <<parts, kind, legs, clears, dooms, drops>>
      BY <3>1, <3>2 DEF T!TypeOK, Linking, T!stored
    <3>5. Fits(r)' /\ Emptied(r)' /\ Aimed(r)'
      BY <2>0, <3>4 DEF Own, Fits, Emptied, Aimed, Resting, Splitting, Linking
    <3>6. Holds(r)'
      BY <2>0, <3>4 DEF Own, Fits, Emptied, Aimed, Holds, Resting, Finding, Splitting, Linking,
         T!TypeOK
    <3>7. InOrder(r)'
      <4> SUFFICES ASSUME kind[r] \in Linking PROVE InOrder(r)'
        BY <3>4 DEF InOrder
      <4>1. t \in legs[r]
        BY <2>0 DEF Own, Aimed
      <4>2. \A u \in Transactions : rowLock'[u] = r => u \in legs[r] \ (want[r] \ {t})
        BY <3>4, <4>1 DEF Own, InOrder
      <4>3. \A a \in legs[r] \ (want[r] \ {t}) : \A u \in want[r] \ {t} : a < u
        <5> SUFFICES ASSUME NEW a \in legs[r] \ (want[r] \ {t}), NEW u \in want[r] \ {t} PROVE a < u
          OBVIOUS
        <5>1. a \in Nat /\ u \in Nat
          BY DEF T!TypeOK, T!TransactionConstants
        <5>2. CASE a = t
          <6>1. t <= u /\ t # u
            BY <2>0 DEF T!NextInOrder
          <6> QED BY <5>1, <5>2, <6>1
        <5>3. CASE a # t
          BY <2>0, <5>3 DEF Own, InOrder
        <5> QED BY <5>2, <5>3
      <4> QED BY <3>4, <4>2, <4>3 DEF InOrder
    <3>8. Replaces(r)'
      BY <2>0, <3>4 DEF Own, Replaces, Finding
    <3> QED BY <3>3, <3>5, <3>6, <3>7, <3>8 DEF Own
  <2>2. CASE t \notin present
    <3>1. /\ T!Ends(r, T!Linked(r)) /\ T!Linked(r) \in {"next", "done", "failed"}
          /\ T!Linked(r) = "next" => kind[r] = "pairAll"
          /\ UNCHANGED <<T!stored, kind, legs>>
      BY <1>3, <2>2 DEF T!LockLeg, T!Linked
    <3> QED BY <3>1, EndsOwn DEF Frame, T!stored
  <2> QED BY <2>1, <2>2
<1>4. CASE T!Link(r)
  <2>1. /\ T!Ends(r, T!Linked(r)) /\ T!Linked(r) \in {"next", "done", "failed"}
        /\ T!Linked(r) = "next" => kind[r] = "pairAll"
        /\ pc[r] = "link"
        /\ UNCHANGED <<present, parts, kind, legs>>
    BY <1>4 DEF T!Link, T!Linked
  <2>2. \A t \in Transactions : rowLock[t] # r => partner'[t] = partner[t]
    <3>1. \A t \in legs[r] : rowLock[t] = r
      BY <2>1 DEF Own, Holds
    <3> QED BY <1>4, <3>1 DEF T!Link
  <2> QED BY <2>1, <2>2, EndsOwn DEF Frame
<1>5. CASE T!RefuseSplit(r) \/ T!Abort(r)
  <2>1. /\ \E place \in {"done", "failed"} : T!Ends(r, place)
        /\ UNCHANGED <<T!stored, kind, legs>>
    BY <1>5 DEF T!RefuseSplit, T!Abort, T!RollsBack
  <2> QED BY <2>1, EndsOwn DEF Frame, T!stored
<1>6. CASE T!FindCut(r)
  <2>1. PICK t \in legs[r] : T!Wants(r, T!CutBySplit(t))
    BY <1>6 DEF T!FindCut
  <2>2. /\ pc[r] = "locked" /\ kind[r] = "split" /\ pc'[r] = "cutting" /\ want'[r] = T!CutBySplit(t)
        /\ UNCHANGED <<rowLock, parts, kind, legs, clears, dooms, drops>>
    BY <1>6, <2>1 DEF T!FindCut, T!Wants, T!Goto, T!TypeOK, T!stored
  <2>3. Frame(r)
    BY <1>6, <2>1 DEF T!FindCut, Frame, T!Goto, T!Wants, T!stored, T!TypeOK
  <2>4. legs[r] = {t} /\ t \in T!CutBySplit(t)
    BY <2>2 DEF Own, Aimed, Splitting, T!CutBySplit
  <2>5. Own(r)'
    BY <2>2, <2>4 DEF Own, Fits, Emptied, Aimed, Holds, InOrder, Replaces, Resting, Finding,
                      Splitting, Linking
  <2> QED BY <2>3, <2>5
<1>7. CASE T!FindParts(r)
  <2>1. /\ \/ pc[r] = "locked" /\ kind[r] = "clear"
           \/ pc[r] = "cutting" /\ kind[r] = "split" /\ want[r] = {}
        /\ pc'[r] = "commit" /\ drops'[r] = UNION {parts[t] : t \in legs[r]}
        /\ UNCHANGED <<T!stored, rowLock, kind, legs, list, want, clears, dooms, relinked>>
    BY <1>7 DEF T!FindParts, T!Goto, T!TypeOK
  <2>2. Frame(r)
    BY <1>7 DEF T!FindParts, Frame, T!Goto, T!stored, T!TypeOK
  <2>3. Fits(r)' /\ Emptied(r)' /\ Aimed(r)'
    BY <2>1 DEF Own, Fits, Emptied, Aimed, Resting, Splitting
  <2>4. Holds(r)' /\ InOrder(r)'
    BY <2>1 DEF Own, Fits, Emptied, Aimed, Holds, InOrder, Resting, Finding, Splitting, Linking
  <2>5. Replaces(r)'
    BY <2>1 DEF Own, Replaces, Finding, Splitting, T!stored
  <2> QED BY <2>2, <2>3, <2>4, <2>5 DEF Own
<1>8. ASSUME NEW p \in list[r], T!FindPair(r, p) PROVE Own(r)' /\ Frame(r)
  <2>1. /\ pc[r] = "undoing" /\ pc'[r] = "cutting"
        /\ UNCHANGED <<T!stored, rowLock, kind, clears, dooms, drops>>
    BY <1>8 DEF T!FindPair, T!Goto, T!TypeOK
  <2>2. Frame(r)
    BY <1>8 DEF T!FindPair, Frame, T!Goto, T!Wants, T!stored, T!TypeOK
  <2>3. kind[r] = "undo"
    BY <2>1 DEF Own, Fits
  <2>4. Own(r)'
    BY <2>1, <2>3 DEF Own, Fits, Emptied, Aimed, Holds, InOrder, Replaces, Resting, Finding,
                      Splitting, Linking, T!stored
  <2> QED BY <2>2, <2>4
<1>9. CASE T!FindOtherLegs(r)
  <2>1. /\ pc[r] = "deleting" /\ pc'[r] = "cutting"
        /\ UNCHANGED <<T!stored, rowLock, kind, legs, clears, dooms, drops>>
    BY <1>9 DEF T!FindOtherLegs, T!Goto, T!TypeOK
  <2>2. Frame(r)
    BY <1>9 DEF T!FindOtherLegs, Frame, T!Goto, T!Wants, T!stored, T!TypeOK
  <2>3. kind[r] = "delete"
    BY <2>1 DEF Own, Fits
  <2>4. Own(r)'
    BY <2>1, <2>3 DEF Own, Fits, Emptied, Aimed, Holds, InOrder, Replaces, Resting, Finding,
                      Splitting, Linking, T!stored
  <2> QED BY <2>2, <2>4
<1>10. CASE T!AllCut(r)
  <2>1. /\ pc[r] = "cutting" /\ kind[r] \in {"undo", "delete"} /\ want[r] = {}
        /\ pc'[r] = (IF kind[r] = "undo" /\ list[r] # {} THEN "undoing" ELSE "commit")
        /\ UNCHANGED <<T!stored, rowLock, kind, legs, want, clears, dooms, drops>>
    BY <1>10 DEF T!AllCut, T!Goto, T!TypeOK
  <2>2. Frame(r)
    BY <1>10 DEF T!AllCut, Frame, T!Goto, T!stored, T!TypeOK
  <2>3. Own(r)'
    BY <2>1 DEF Own, Fits, Emptied, Aimed, Holds, InOrder, Replaces, Resting, Finding,
                Splitting, Linking, T!stored
  <2> QED BY <2>2, <2>3
<1>11. CASE T!Commit(r)
  <2>1. T!Ends(r, "done") /\ pc[r] = "commit" /\ UNCHANGED <<kind, legs>>
    BY <1>11 DEF T!Commit
  <2>2. \A t \in Transactions :
          rowLock[t] # r => t \notin clears[r] \cup dooms[r]
    BY <2>1 DEF Own, Holds
  <2>3. ASSUME NEW t \in Transactions, rowLock[t] # r
        PROVE  partner'[t] = partner[t] /\ (t \in present' <=> t \in present)
    BY <1>11, <2>2, <2>3 DEF T!Commit
  <2>4. ASSUME NEW t \in Transactions, rowLock[t] # r PROVE parts'[t] = parts[t]
    <3>1. CASE kind[r] \in Splitting
      <4>1. t \notin legs[r]
        BY <2>1, <2>4, <3>1 DEF Own, Holds, Finding
      <4> QED BY <1>11, <2>2, <2>4, <4>1 DEF T!Commit
    <3>2. CASE kind[r] \notin Splitting
      <4>1. drops[r] = {} /\ kind[r] # "split"
        BY <3>2 DEF Own, Emptied, Splitting
      <4>2. (parts[t] \ drops[r]) \cup (IF kind[r] = "split" THEN {r} ELSE {}) = parts[t]
        BY <4>1
      <4> QED BY <1>11, <2>2, <2>4, <4>2 DEF T!Commit
    <3> QED BY <3>1, <3>2
  <2> QED BY <2>1, <2>3, <2>4, EndsOwn DEF Frame
<1>12. ASSUME NEW t \in Transactions, T!CutOne(r, t) PROVE Own(r)' /\ Frame(r)
  <2>1. /\ pc[r] = "cutting" /\ t \in want[r] /\ rowLock[t] \in {r, Nobody}
        /\ want' = [want EXCEPT ![r] = want[r] \ {t}]
        /\ UNCHANGED <<T!stored, kind, pc, legs, dooms, drops>>
    BY <1>12 DEF T!CutOne, T!Free, T!Wants
  <2>2. CASE t \in present /\ T!StillMatches(r, t)
    <3>1. rowLock' = [rowLock EXCEPT ![t] = r] /\ clears' = [clears EXCEPT ![r] = clears[r] \cup {t}]
      BY <1>12, <2>2 DEF T!CutOne, T!Lock
    <3>2. Frame(r)
      <4>1. \A q \in Requests \ {r} : \A u \in Transactions : rowLock'[u] = q <=> rowLock[u] = q
        BY <1>0, <2>1, <3>1 DEF T!TypeOK
      <4> QED BY <2>1, <3>1, <4>1 DEF Frame, T!stored, T!TypeOK
    <3>3. /\ want'[r] = want[r] \ {t} /\ clears'[r] = clears[r] \cup {t}
          /\ rowLock'[t] = r /\ \A u \in Transactions \ {t} : rowLock'[u] = rowLock[u]
      BY <2>1, <3>1 DEF T!TypeOK
    <3>4. Fits(r)' /\ Emptied(r)' /\ Aimed(r)'
      BY <2>1, <3>3 DEF Own, Fits, Emptied, Aimed, Resting, Splitting
    <3>5. Holds(r)'
      BY <2>1, <3>3 DEF Own, Fits, Holds, Resting, Finding, Splitting, T!TypeOK
    <3>6. InOrder(r)' /\ Replaces(r)'
      BY <2>1, <3>3 DEF Own, Fits, InOrder, Replaces, Finding, Linking, Splitting
    <3> QED BY <3>2, <3>4, <3>5, <3>6 DEF Own
  <2>3. CASE ~(t \in present /\ T!StillMatches(r, t))
    <3>1. UNCHANGED <<rowLock, clears>>
      BY <1>12, <2>3 DEF T!CutOne
    <3>2. Frame(r)
      BY <2>1, <3>1 DEF Frame, T!stored, T!TypeOK
    <3>3. want'[r] = want[r] \ {t}
      BY <2>1 DEF T!TypeOK
    <3>4. Fits(r)' /\ Emptied(r)' /\ Aimed(r)' /\ Holds(r)'
      BY <2>1, <3>1, <3>3 DEF Own, Fits, Emptied, Aimed, Holds, Resting, Finding, Splitting
    <3>5. ~(kind[r] = "split" /\ t \in legs[r])
      <4> SUFFICES ASSUME kind[r] = "split", t \in legs[r] PROVE FALSE
        OBVIOUS
      <4>1. rowLock[t] = r
        BY <2>1 DEF Own, Holds, Finding, Splitting
      <4>2. t \in present
        BY <1>0, <4>1 DEF LockedPresent
      <4> QED BY <2>3, <4>2 DEF T!StillMatches
    <3>6. InOrder(r)' /\ Replaces(r)'
      BY <2>1, <3>1, <3>3, <3>5 DEF Own, Fits, Aimed, InOrder, Replaces, Finding, Linking, Splitting
    <3> QED BY <3>2, <3>4, <3>6 DEF Own
  <2> QED BY <2>2, <2>3
<1>13. ASSUME NEW t \in Transactions, T!DeleteOne(r, t) PROVE Own(r)' /\ Frame(r)
  <2>1. /\ pc[r] = "deleting" /\ t \in want[r] /\ rowLock[t] \in {r, Nobody}
        /\ want' = [want EXCEPT ![r] = want[r] \ {t}]
        /\ UNCHANGED <<T!stored, kind, pc, legs, clears, drops>>
    BY <1>13 DEF T!DeleteOne, T!Free, T!Wants
  <2>2. CASE t \in present
    <3>1. rowLock' = [rowLock EXCEPT ![t] = r] /\ dooms' = [dooms EXCEPT ![r] = dooms[r] \cup {t}]
      BY <1>13, <2>2 DEF T!DeleteOne, T!Lock
    <3>2. Frame(r)
      <4>1. \A q \in Requests \ {r} : \A u \in Transactions : rowLock'[u] = q <=> rowLock[u] = q
        BY <1>0, <2>1, <3>1 DEF T!TypeOK
      <4> QED BY <2>1, <3>1, <4>1 DEF Frame, T!stored, T!TypeOK
    <3>3. /\ dooms'[r] = dooms[r] \cup {t}
          /\ rowLock'[t] = r /\ \A u \in Transactions \ {t} : rowLock'[u] = rowLock[u]
      BY <3>1 DEF T!TypeOK
    <3>4. Own(r)'
      BY <2>1, <3>3 DEF Own, Fits, Emptied, Aimed, Holds, InOrder, Replaces, Resting, Finding,
                        Splitting, Linking, T!TypeOK
    <3> QED BY <3>2, <3>4
  <2>3. CASE t \notin present
    <3>1. UNCHANGED <<rowLock, dooms>>
      BY <1>13, <2>3 DEF T!DeleteOne
    <3>2. Frame(r)
      BY <2>1, <3>1 DEF Frame, T!stored, T!TypeOK
    <3>3. Own(r)'
      BY <2>1, <3>1 DEF Own, Fits, Emptied, Aimed, Holds, InOrder, Replaces, Resting, Finding,
                        Splitting, Linking
    <3> QED BY <3>2, <3>3
  <2> QED BY <2>2, <2>3
<1> QED BY <1>2, <1>3, <1>4, <1>5, <1>6, <1>7, <1>8, <1>9, <1>10, <1>11, <1>12, <1>13 DEF T!Runs

-----------------------------------------------------------------------------
(* The stored rows, and the pairs.                                         *)

(* What is stored changes only when two legs are linked, or at a commit.   *)
LEMMA StoredChanges ==
    ASSUME NEW r \in Requests, T!Asks(r) \/ T!Runs(r)
    PROVE  T!Link(r) \/ T!Commit(r) \/ UNCHANGED T!stored
BY Zenon DEF T!Asks, T!Runs, T!AskConfirm, T!AskPairAll, T!AskSplit, T!AskUndo, T!AskDelete,
   T!Begins, T!NextPair,
    T!LockLeg, T!RefuseSplit, T!FindCut, T!FindParts, T!FindPair, T!FindOtherLegs, T!AllCut,
       T!Abort, T!RollsBack,
    T!CutOne, T!DeleteOne

(* A row that a request locks is stored.                                   *)
LEMMA LocksPresent ==
    ASSUME T!TypeOK, NEW r \in Requests, T!Asks(r) \/ T!Runs(r), LockedPresent,
       T!TransactionConstants,
           NEW t \in Transactions, rowLock'[t] = r
    PROVE  /\ ~T!Link(r) /\ ~T!Commit(r)
           /\ t \in present
<1>0. Nobody \notin Requests
  BY DEF T!TransactionConstants
<1>1. ASSUME NEW place, T!Ends(r, place) PROVE FALSE
  BY <1>0, <1>1 DEF T!Ends
<1>2. ~T!Link(r) /\ ~T!Commit(r)
  BY <1>1 DEF T!Link, T!Commit
<1>3. CASE rowLock'[t] = rowLock[t]
  BY <1>0, <1>2, <1>3 DEF LockedPresent
<1>4. CASE rowLock'[t] # rowLock[t]
  <2>1. ASSUME UNCHANGED rowLock PROVE FALSE
    BY <1>4, <2>1
  <2>2. \E u \in Transactions : T!LockLeg(r, u) \/ T!CutOne(r, u) \/ T!DeleteOne(r, u)
    BY <1>1, <1>2, <2>1, Zenon DEF T!Asks, T!Runs, T!AskConfirm, T!AskPairAll, T!AskSplit,
       T!AskUndo, T!AskDelete,
       T!Begins, T!NextPair, T!RefuseSplit, T!FindCut, T!FindParts, T!FindPair, T!FindOtherLegs,
          T!AllCut, T!Abort,
       T!RollsBack
  <2>3. PICK u \in Transactions : u \in present /\ T!Lock(r, u)
    <3>1. ASSUME NEW u \in Transactions, T!LockLeg(r, u) PROVE u \in present /\ T!Lock(r, u)
      BY <1>1, <3>1 DEF T!LockLeg
    <3>2. ASSUME NEW u \in Transactions, T!CutOne(r, u) PROVE u \in present /\ T!Lock(r, u)
      BY <2>1, <3>2 DEF T!CutOne
    <3>3. ASSUME NEW u \in Transactions, T!DeleteOne(r, u) PROVE u \in present /\ T!Lock(r, u)
      BY <2>1, <3>3 DEF T!DeleteOne
    <3> QED BY <2>2, <3>1, <3>2, <3>3
  <2>4. rowLock' = [rowLock EXCEPT ![u] = r]
    BY <2>3 DEF T!Lock
  <2>5. t = u
    BY <1>4, <2>4 DEF T!TypeOK
  <2> QED BY <1>2, <2>3, <2>5
<1> QED BY <1>2, <1>3, <1>4

(* The legs of a pair that may be linked are two transactions.               *)
LEMMA LinkableApart ==
    ASSUME T!TransactionConstants, NEW p \in Linkable
    PROVE  p[1] \in Transactions /\ p[2] \in Transactions /\ p[1] # p[2]
<1>1. p \in Transactions \X Transactions /\ p[1] < p[2] /\ Transactions \subseteq Nat
  BY DEF T!TransactionConstants
<1>2. p[1] \in Transactions /\ p[2] \in Transactions /\ p[1] \in Nat /\ p[2] \in Nat
  BY <1>1
<1> QED BY <1>1, <1>2

(* Two legs linked: what the locked rows become.                           *)
LEMMA LinkWrites ==
    ASSUME T!TransactionConstants, T!TypeOK, NEW r \in Requests, Own(r), LockedPresent, T!Link(r)
    PROVE  \/ UNCHANGED T!stored
           \/ \E a, b \in present :
                /\ a # b /\ T!Open(a) /\ T!Open(b)
                /\ rowLock[a] = r /\ rowLock[b] = r
                /\ UNCHANGED <<present, parts>>
                /\ partner' = [t \in Transactions |-> IF t = a THEN b ELSE IF t = b THEN a ELSE partner[t]]
<1>1. PICK p \in list[r] :
        /\ T!Legs(p) = legs[r]
        /\ partner' = [t \in Transactions |->
               IF T!PairAccepted(p) /\ t \in legs[r] THEN T!Other(p, t) ELSE partner[t]]
  BY DEF T!Link
<1>2. p[1] \in Transactions /\ p[2] \in Transactions /\ p[1] # p[2]
  BY LinkableApart DEF T!TypeOK
<1>3. pc[r] = "link" /\ UNCHANGED <<present, parts>>
  BY DEF T!Link
<1>4. CASE T!PairAccepted(p)
  <2>1. p[1] \in Transactions /\ p[2] \in Transactions /\ p[1] # p[2]
    BY <1>2
  <2>2. rowLock[p[1]] = r /\ rowLock[p[2]] = r
    BY <1>1, <1>3 DEF Own, Holds, T!Legs
  <2>3. p[1] \in present /\ p[2] \in present
    BY <2>1, <2>2 DEF LockedPresent, T!TransactionConstants
  <2>4. T!Open(p[1]) /\ T!Open(p[2])
    BY <1>4 DEF T!PairAccepted, T!Legs
  <2>5. \A t \in Transactions : (IF T!PairAccepted(p) /\ t \in legs[r] THEN T!Other(p,
     t) ELSE partner[t])
           = (IF t = p[1] THEN p[2] ELSE IF t = p[2] THEN p[1] ELSE partner[t])
    BY <1>1, <1>4 DEF T!Legs, T!Other
  <2>6. partner' = [t \in Transactions |-> IF t = p[1] THEN p[2] ELSE IF t = p[2] THEN p[1] ELSE partner[t]]
    BY <1>1, <2>5
  <2> QED BY <1>3, <2>1, <2>2, <2>3, <2>4, <2>6
<1>5. CASE ~T!PairAccepted(p)
  <2>1. partner' = partner
    BY <1>1, <1>5 DEF T!TypeOK
  <2> QED BY <1>3, <2>1 DEF T!stored
<1> QED BY <1>4, <1>5

(* A step keeps what is true of every row.                                   *)
LEMMA RowsStep ==
    ASSUME T!TransactionConstants, T!TypeOK, NEW r \in Requests, Own(r), Rows,
           T!Asks(r) \/ T!Runs(r), Frame(r), T!TypeOK'
    PROVE  Rows'
<1>1. LockedPresent'
  <2> SUFFICES ASSUME NEW t \in Transactions, rowLock'[t] # Nobody PROVE t \in present'
    BY DEF LockedPresent
  <2>1. CASE rowLock'[t] = r
    <3>1. ~T!Link(r) /\ ~T!Commit(r) /\ t \in present
      BY <2>1, LocksPresent DEF Rows
    <3> QED BY <3>1, StoredChanges DEF T!stored
  <2>2. CASE rowLock'[t] # r
    <3>1. rowLock'[t] \in Requests \ {r}
      BY <2>2 DEF T!TypeOK
    <3>2. rowLock[t] = rowLock'[t]
      BY <3>1 DEF Frame
    <3> QED BY <2>2, <3>2 DEF Rows, LockedPresent, Frame
  <2> QED BY <2>1, <2>2
<1>2. CASE UNCHANGED T!stored
  BY <1>1, <1>2 DEF Rows, NotSelf, PartsOne, T!SplitNeverPaired, T!stored
<1>3. CASE T!Link(r) /\ ~UNCHANGED T!stored
  <2>1. PICK a \in present, b \in present :
                /\ a # b /\ T!Open(a) /\ T!Open(b)
                /\ UNCHANGED <<present, parts>>
                /\ partner' = [t \in Transactions |-> IF t = a THEN b ELSE IF t = b THEN a ELSE partner[t]]
    BY <1>3, LinkWrites DEF Rows
  <2>2. NotSelf'
    BY <2>1 DEF Rows, NotSelf
  <2>3. T!SplitNeverPaired'
    BY <2>1 DEF Rows, T!SplitNeverPaired, T!Open, T!TypeOK
  <2> QED BY <1>1, <2>1, <2>2, <2>3 DEF Rows, PartsOne
<1>4. CASE T!Commit(r)
  <2>1. /\ pc[r] = "commit"
        /\ present' = present \ dooms[r]
        /\ \A t \in Transactions :
             partner'[t] = IF t \in clears[r] \cup dooms[r] THEN Unpaired ELSE partner[t]
        /\ \A t \in Transactions :
             parts'[t] = IF t \in dooms[r] THEN {}
                         ELSE IF t \in legs[r]
                         THEN (parts[t] \ drops[r]) \cup (IF kind[r] = "split" THEN {r} ELSE {})
                         ELSE parts[t]
    BY <1>4 DEF T!Commit
  <2>2. NotSelf'
    BY <2>1 DEF Rows, NotSelf, T!TransactionConstants
  <2>3. want[r] = {} /\ (kind[r] \in Splitting \/ drops[r] = {})
    BY <2>1 DEF Own, Emptied
  <2>4. PartsOne'
    <3> SUFFICES ASSUME NEW t \in Transactions, NEW a \in parts'[t], NEW b \in parts'[t] PROVE a = b
      BY DEF PartsOne
    <3>1. CASE kind[r] = "split" /\ t \in legs[r]
      <4>1. parts[t] \ drops[r] = {}
        BY <2>1, <3>1 DEF Own, Replaces, Splitting
      <4>2. parts'[t] \subseteq {r}
        <5>1. CASE t \in dooms[r]
          BY <2>1, <5>1
        <5>2. CASE t \notin dooms[r]
          <6>1. parts'[t] = (parts[t] \ drops[r]) \cup {r}
            BY <2>1, <3>1, <5>2
          <6> QED BY <4>1, <6>1
        <5> QED BY <5>1, <5>2
      <4> QED BY <4>2
    <3>2. CASE ~(kind[r] = "split" /\ t \in legs[r])
      <4>1. a \in parts[t] /\ b \in parts[t]
        BY <2>1, <3>2
      <4> QED BY <4>1 DEF Rows, PartsOne
    <3> QED BY <3>1, <3>2
  <2>5. T!SplitNeverPaired'
    <3> SUFFICES ASSUME NEW t \in present', parts'[t] # {}, partner'[t] # Unpaired PROVE FALSE
      BY DEF T!SplitNeverPaired
    <3>1. t \in present /\ t \in Transactions
      BY <2>1 DEF T!TypeOK
    <3>2. partner[t] # Unpaired /\ t \notin clears[r]
      BY <2>1, <3>1
    <3>3. CASE kind[r] = "split" /\ t \in legs[r]
      BY <2>1, <2>3, <3>2, <3>3 DEF Own, Replaces, Finding
    <3>4. CASE ~(kind[r] = "split" /\ t \in legs[r])
      <4>1. parts[t] # {}
        BY <2>1, <3>1, <3>4
      <4> QED BY <3>1, <3>2, <4>1 DEF Rows, T!SplitNeverPaired
    <3> QED BY <3>3, <3>4
  <2> QED BY <1>1, <2>2, <2>4, <2>5 DEF Rows
<1> QED BY <1>2, <1>3, <1>4, StoredChanges

-----------------------------------------------------------------------------
(* The cuts of one request stay closed under the step of another.            *)
LEMMA FrameClosed ==
    ASSUME T!TypeOK, NEW r \in Requests, NEW q \in Requests \ {r}, Frame(r), Own(q), Closed(q)
    PROVE  Closed(q)'
<1>1. /\ kind'[q] = kind[q] /\ pc'[q] = pc[q] /\ legs'[q] = legs[q] /\ want'[q] = want[q]
      /\ clears'[q] = clears[q] /\ dooms'[q] = dooms[q]
  BY DEF Frame
<1>2. legs[q] \subseteq Transactions /\ clears[q] \subseteq Transactions /\ dooms[q] \subseteq Transactions
  BY DEF T!TypeOK
<1>3. \A t \in clears[q] \cup dooms[q] : partner'[t] = partner[t]
  BY <1>2 DEF Own, Holds, Frame
<1>4. UndoClosed(q)'
  BY <1>1, <1>3 DEF Closed, UndoClosed
<1>5. SplitClosed(q)'
  <2>1. kind[q] = "split" /\ Finding(q) => \A t \in legs[q] : partner'[t] = partner[t]
    BY <1>2 DEF Own, Holds, Frame, Splitting
  <2> QED BY <1>1, <1>3, <2>1 DEF Closed, SplitClosed, Finding
<1>6. DeleteClosed(q)'
  BY <1>1, <1>3 DEF Closed, DeleteClosed, Finding
<1> QED BY <1>4, <1>5, <1>6 DEF Closed

(* With nothing cut and nothing being cut, there is nothing to close.      *)
LEMMA ClosedTrivially ==
    ASSUME NEW r \in Requests, clears[r] = {}, ~Finding(r)
    PROVE  Closed(r)
BY DEF Closed, UndoClosed, SplitClosed, DeleteClosed, Finding

(* The cuts of a request, row by row.                                      *)
LEMMA ClosedStep ==
    ASSUME T!TransactionConstants, T!TypeOK, NEW r \in Requests, Own(r), Rows,
       T!Asks(r) \/ T!Runs(r),
           Own(r)', T!TypeOK', T!PairsMutual, Closed(r), ~relinked'
    PROVE  Closed(r)'
<1>1. CASE Own(r)' /\ ~Finding(r)' /\ pc'[r] # "undoing"
  BY <1>1, ClosedTrivially DEF Own, Emptied, Finding, Closed, UndoClosed, SplitClosed, DeleteClosed
<1>2. CASE Finding(r)' \/ pc'[r] = "undoing"
  <2>1. CASE T!Asks(r)
    <3>1. pc[r] = "idle" /\ clears' = clears /\ pc'[r] \in {"locking", "next", "undoing", "done",
       "deleting"}
      <4>1. pc[r] = "idle" /\ clears' = clears
        BY <2>1 DEF T!Asks, T!AskConfirm, T!AskPairAll, T!AskSplit, T!AskUndo, T!AskDelete, T!Begins
      <4>2. \E place \in {"locking", "next", "undoing", "done", "deleting"} : T!Goto(r, place)
        BY <2>1, Zenon DEF T!Asks, T!AskConfirm, T!AskPairAll, T!AskSplit, T!AskUndo, T!AskDelete
      <4> QED BY <4>1, <4>2 DEF T!Goto, T!TypeOK
    <3> QED BY <3>1 DEF Own, Emptied, Finding, Closed, UndoClosed, SplitClosed, DeleteClosed
  <2>2. CASE T!Runs(r)
    <3>1. ASSUME NEW place \in {"next", "done", "failed"}, T!Ends(r, place) PROVE FALSE
      <4>1. pc'[r] = place
        BY <3>1 DEF T!Ends, T!Goto, T!TypeOK
      <4> QED BY <1>2, <4>1 DEF Finding
    <3>2. ~T!Link(r) /\ ~T!Commit(r) /\ ~T!RefuseSplit(r) /\ ~T!Abort(r)
      BY <3>1 DEF T!Link, T!Commit, T!RefuseSplit, T!Abort, T!RollsBack, T!Linked
    <3>3. ~T!NextPair(r)
      BY <1>2 DEF T!NextPair, T!Goto, Finding, T!TypeOK
    <3>4. ASSUME NEW t \in Transactions PROVE ~T!LockLeg(r, t) /\ ~T!DeleteOne(r, t)
      <4>1. ~T!LockLeg(r, t)
        <5> SUFFICES ASSUME T!LockLeg(r, t) PROVE FALSE
          OBVIOUS
        <5>1. CASE t \in present
          BY <1>2, <5>1 DEF T!LockLeg, T!Goto, Finding, T!TypeOK
        <5>2. CASE t \notin present
          BY <3>1, <5>2 DEF T!LockLeg, T!Linked
        <5> QED BY <5>1, <5>2
      <4>2. ~T!DeleteOne(r, t)
        BY <1>2 DEF T!DeleteOne, Finding
      <4> QED BY <4>1, <4>2
    <3>5. CASE T!FindCut(r)
      <4>1. PICK t \in legs[r] : T!Wants(r, T!CutBySplit(t))
        BY <3>5 DEF T!FindCut
      <4>2. /\ pc[r] = "locked" /\ kind[r] = "split" /\ want'[r] = T!CutBySplit(t)
            /\ UNCHANGED <<T!stored, rowLock, kind, legs, clears, dooms>>
        BY <3>5, <4>1 DEF T!FindCut, T!Wants, T!TypeOK
      <4>3. legs[r] = {t} /\ clears[r] = {} /\ rowLock[t] = r /\ t \in Transactions
        BY <4>2 DEF Own, Aimed, Emptied, Holds, Splitting
      <4>4. t \in present
        BY <4>3 DEF Rows, LockedPresent, T!TransactionConstants
      <4>5. partner[t] # Unpaired => partner[t] \in T!CutBySplit(t)
        BY <4>4 DEF T!PairsMutual, T!CutBySplit
      <4> QED BY <4>2, <4>3, <4>5 DEF Closed, UndoClosed, SplitClosed, DeleteClosed, T!stored
    <3>6. CASE T!FindParts(r)
      <4>1. /\ \/ pc[r] = "locked" /\ kind[r] = "clear"
               \/ pc[r] = "cutting" /\ kind[r] = "split" /\ want[r] = {}
            /\ UNCHANGED <<T!stored, kind, legs, want, clears, dooms>>
        BY <3>6 DEF T!FindParts
      <4> QED BY <4>1 DEF Closed, UndoClosed, SplitClosed, DeleteClosed, Finding, T!stored
    <3>7. ASSUME NEW p \in list[r], T!FindPair(r, p) PROVE Closed(r)'
      <4>1. /\ pc[r] = "undoing" /\ pc'[r] = "cutting"
            /\ legs'[r] = T!Legs(p) /\ want'[r] = {t \in T!Legs(p) \cap present : T!StillNames(T!Legs(p), t)}
            /\ UNCHANGED <<T!stored, kind, clears, dooms>>
        BY <3>7 DEF T!FindPair, T!Goto, T!Wants, T!TypeOK
      <4>2. kind[r] = "undo"
        BY <4>1 DEF Own, Fits
      <4> QED BY <4>1, <4>2 DEF Closed, UndoClosed, SplitClosed, DeleteClosed, T!stored
    <3>8. CASE T!FindOtherLegs(r)
      <4>1. /\ pc[r] = "deleting" /\ pc'[r] = "cutting" /\ want'[r] = T!CutByDelete(dooms[r])
            /\ UNCHANGED <<T!stored, rowLock, kind, legs, clears, dooms>>
        BY <3>8 DEF T!FindOtherLegs, T!Goto, T!Wants, T!TypeOK
      <4>2. kind[r] = "delete" /\ clears[r] = {}
        BY <4>1 DEF Own, Fits, Emptied
      <4>3. ASSUME NEW t \in dooms[r], partner[t] # Unpaired
            PROVE  partner[t] \in dooms[r] \cup T!CutByDelete(dooms[r])
        <5>1. t \in Transactions /\ rowLock[t] = r
          BY DEF Own, Holds, T!TypeOK
        <5>2. t \in present
          BY <5>1 DEF Rows, LockedPresent, T!TransactionConstants
        <5>3. partner[t] \in present /\ partner[partner[t]] = t
          BY <4>3, <5>2 DEF T!PairsMutual
        <5> QED BY <5>3 DEF T!CutByDelete
      <4> QED BY <4>1, <4>2, <4>3 DEF Closed, UndoClosed, SplitClosed, DeleteClosed, T!stored
    <3>9. CASE T!AllCut(r)
      <4>1. /\ pc[r] = "cutting" /\ kind[r] \in {"undo", "delete"} /\ want[r] = {}
            /\ UNCHANGED <<T!stored, kind, legs, want, clears, dooms>>
        BY <3>9 DEF T!AllCut
      <4> QED BY <4>1 DEF Closed, UndoClosed, SplitClosed, DeleteClosed, Finding, T!stored
    <3>10. ASSUME NEW t \in Transactions, T!CutOne(r, t) PROVE Closed(r)'
      <4>1. /\ pc[r] = "cutting" /\ t \in want[r] /\ want'[r] = want[r] \ {t}
            /\ UNCHANGED <<T!stored, kind, pc, legs, dooms>>
            /\ ~T!Overtaken(r, t)
        BY <3>10, Zenon DEF T!CutOne, T!Wants, T!TypeOK
      <4>1a. want'[r] = want[r] \ {t}
        BY <4>1
      <4>2. \A u \in clears[r] \cup dooms[r] : u \in present /\ u \in Transactions
        BY DEF Own, Holds, Rows, LockedPresent, T!TransactionConstants, T!TypeOK
      <4>3. kind[r] = "split" => \A u \in legs[r] : u \in present /\ u \in Transactions
        BY <4>1 DEF Own, Holds, Rows, LockedPresent, T!TransactionConstants, T!TypeOK, Finding,
           Splitting
      <4>4. CASE t \in present /\ T!StillMatches(r, t)
        <5>1. clears'[r] = clears[r] \cup {t}
          BY <3>10, <4>4 DEF T!CutOne, T!TypeOK
        <5>2. UndoClosed(r)'
          <6> SUFFICES ASSUME kind[r] = "undo" PROVE UndoClosed(r)'
            BY <4>1 DEF UndoClosed
          <6>1. t \in legs[r] /\ partner[t] \in legs[r] /\ partner[t] # t
            BY <4>1, <4>4 DEF Closed, UndoClosed, T!StillMatches, T!StillNames, Rows, NotSelf
          <6>2. partner[t] \in want[r] \/ partner[t] \in clears[r]
            BY <4>1, <4>4, <6>1 DEF T!Overtaken
          <6> QED BY <4>1, <5>1, <6>1, <6>2 DEF Closed, UndoClosed, T!stored
        <5>3. SplitClosed(r)'
          BY <4>1, <4>4, <5>1 DEF Closed, SplitClosed, T!StillMatches, Own, Aimed, Splitting,
             Finding, T!stored
        <5>4. DeleteClosed(r)'
          BY <4>1, <4>4, <5>1 DEF Closed, DeleteClosed, T!StillMatches, Finding, T!stored
        <5> QED BY <5>2, <5>3, <5>4 DEF Closed
      <4>5. CASE ~(t \in present /\ T!StillMatches(r, t))
        <5>1. clears'[r] = clears[r]
          BY <3>10, <4>5 DEF T!CutOne
        <5>2. ASSUME NEW u \in present, partner[u] = t PROVE t \in present /\ partner[t] = u
          <6>1. t # Unpaired
            BY DEF T!TransactionConstants
          <6> QED BY <5>2, <6>1 DEF T!PairsMutual
        <5>3. UndoClosed(r)'
          <6> SUFFICES ASSUME kind[r] = "undo" PROVE UndoClosed(r)'
            BY <4>1 DEF UndoClosed
          <6>1. ASSUME NEW u \in clears[r], u \in legs[r], partner[u] = t PROVE FALSE
            <7>1. t \in present /\ partner[t] = u
              BY <4>2, <5>2, <6>1
            <7> QED BY <4>5, <6>1, <7>1 DEF T!StillMatches, T!StillNames
          <6> QED BY <4>1, <5>1, <6>1 DEF Closed, UndoClosed, T!stored
        <5>4. SplitClosed(r)'
          <6> SUFFICES ASSUME kind[r] = "split" PROVE SplitClosed(r)'
            BY <4>1 DEF SplitClosed
          <6>1. ASSUME NEW u \in legs[r], partner[u] = t PROVE FALSE
            <7>1. t \in present /\ partner[t] = u
              BY <4>3, <5>2, <6>1
            <7> QED BY <4>5, <7>1 DEF T!StillMatches
          <6> QED BY <4>1, <5>1, <6>1 DEF Closed, SplitClosed, Finding, T!stored
        <5>5. DeleteClosed(r)'
          <6> SUFFICES ASSUME kind[r] = "delete" PROVE DeleteClosed(r)'
            BY <4>1 DEF DeleteClosed
          <6>1. ASSUME NEW u \in dooms[r], partner[u] = t PROVE FALSE
            <7>1. t \in present /\ partner[t] = u
              BY <4>2, <5>2, <6>1
            <7> QED BY <4>5, <7>1 DEF T!StillMatches
          <6> QED BY <4>1, <5>1, <6>1 DEF Closed, DeleteClosed, Finding, T!stored
        <5> QED BY <5>3, <5>4, <5>5 DEF Closed
      <4> QED BY <4>4, <4>5
    <3> QED BY <2>2, <3>2, <3>3, <3>4, <3>5, <3>6, <3>7, <3>8, <3>9, <3>10 DEF T!Runs
  <2> QED BY <2>1, <2>2
<1> QED BY <1>1, <1>2

(* The pairs stay mutual.                                                  *)
LEMMA MutualStep ==
    ASSUME T!TransactionConstants, T!TypeOK, NEW r \in Requests, Own(r), Rows,
       T!Asks(r) \/ T!Runs(r),
           T!PairsMutual, Closed(r)
    PROVE  T!PairsMutual'
<1>1. CASE UNCHANGED T!stored
  BY <1>1 DEF T!PairsMutual, T!stored
<1>2. CASE T!Link(r) /\ ~UNCHANGED T!stored
  <2>1. PICK a \in present, b \in present :
                /\ a # b /\ T!Open(a) /\ T!Open(b)
                /\ UNCHANGED <<present, parts>>
                /\ partner' = [t \in Transactions |-> IF t = a THEN b ELSE IF t = b THEN a ELSE partner[t]]
    BY <1>2, LinkWrites DEF Rows
  <2>2. ASSUME NEW t \in present, t # a, t # b, partner[t] # Unpaired
        PROVE  partner[t] \in present /\ partner[partner[t]] = t /\ partner[t] # a /\ partner[t] # b
    <3>1. partner[t] \in present /\ partner[partner[t]] = t
      BY <2>2 DEF T!PairsMutual
    <3> QED BY <2>1, <3>1 DEF T!Open, T!TypeOK, T!TransactionConstants
  <2> QED BY <2>1, <2>2 DEF T!PairsMutual, T!TypeOK
<1>3. CASE T!Commit(r)
  <2>1. /\ pc[r] = "commit"
        /\ present' = present \ dooms[r]
        /\ \A t \in Transactions :
             partner'[t] = IF t \in clears[r] \cup dooms[r] THEN Unpaired ELSE partner[t]
    BY <1>3 DEF T!Commit
  <2> DEFINE C == clears[r] \cup dooms[r]
  <2>2. want[r] = {} /\ kind[r] \in Splitting \cup {"undo", "delete"}
        /\ (kind[r] = "clear" => clears[r] = {}) /\ (kind[r] # "delete" => dooms[r] = {})
    BY <2>1 DEF Own, Fits, Emptied
  <2>3. ASSUME NEW u \in C, partner[u] # Unpaired PROVE partner[u] \in C
    <3>1. CASE kind[r] = "undo"
      BY <2>1, <2>2, <2>3, <3>1 DEF Closed, UndoClosed
    <3>2. CASE kind[r] = "split"
      BY <2>1, <2>2, <2>3, <3>2 DEF Closed, SplitClosed, Finding, Own, Aimed, Replaces, Splitting
    <3>3. CASE kind[r] = "delete"
      BY <2>1, <2>2, <2>3, <3>3 DEF Closed, DeleteClosed, Finding
    <3> QED BY <2>2, <3>1, <3>2, <3>3 DEF Splitting
  <2>4. ASSUME NEW t \in present', partner'[t] # Unpaired
        PROVE  partner'[t] \in present' /\ partner'[partner'[t]] = t
    <3>1. t \in present /\ t \in Transactions /\ t \notin C /\ partner'[t] = partner[t] /\ partner[t] # Unpaired
      BY <2>1, <2>4 DEF T!TypeOK
    <3>2. partner[t] \in present /\ partner[t] \in Transactions /\ partner[partner[t]] = t
      BY <3>1 DEF T!PairsMutual, T!TypeOK
    <3>3. t # Unpaired
      BY <3>1 DEF T!TransactionConstants
    <3>4. partner[t] \notin C
      BY <2>3, <3>1, <3>2, <3>3
    <3> QED BY <2>1, <3>1, <3>2, <3>4
  <2> QED BY <2>4 DEF T!PairsMutual
<1> QED BY <1>1, <1>2, <1>3, StoredChanges

-----------------------------------------------------------------------------
(* The invariant holds at the start.                                         *)
LEMMA InitIInv ==
    ASSUME T!TransactionConstants, T!Init
    PROVE  IInv
<1>1. T!TypeOK
  BY InitTypes
<1>2. ASSUME NEW r \in Requests PROVE Own(r) /\ Closed(r)
  <2>1. Own(r)
    BY DEF T!Init, Own, Fits, Emptied, Aimed, Holds, InOrder, Replaces, Resting, Finding, Linking,
           Splitting, T!TransactionConstants
  <2>2. Closed(r)
    BY DEF T!Init, Closed, UndoClosed, SplitClosed, DeleteClosed, Finding
  <2> QED BY <2>1, <2>2
<1>3. \/ partner = [t \in Transactions |-> Unpaired]
      \/ \E p \in Linkable : partner = [t \in Transactions |->
               IF t \in T!Legs(p) THEN T!Other(p, t) ELSE Unpaired]
  BY DEF T!Init
<1>4. \A p \in Linkable : p[1] \in Transactions /\ p[2] \in Transactions /\ p[1] # p[2]
  BY LinkableApart
<1>5. NotSelf
  BY <1>3, <1>4 DEF NotSelf, T!Legs, T!Other, T!TransactionConstants
<1>6. T!PairsMutual
  BY <1>3, <1>4 DEF T!PairsMutual, T!Legs, T!Other, T!Init, T!TransactionConstants
<1>7. Rows
  BY <1>5 DEF Rows, T!Init, LockedPresent, PartsOne, T!SplitNeverPaired
<1> QED BY <1>1, <1>2, <1>6, <1>7 DEF IInv, Mutual

(* The invariant survives every step.                                        *)
LEMMA NextIInv ==
    ASSUME T!TransactionConstants, IInv, [T!Next]_(T!vars)
    PROVE  IInv'
<1>1. T!TypeOK'
  BY NextTypes DEF IInv
<1>2. CASE UNCHANGED T!vars
  BY <1>1, <1>2 DEF T!vars, T!stored, IInv, Own, Fits, Emptied, Aimed, Holds, InOrder, Replaces,
     Resting,
     Finding, Rows, LockedPresent, NotSelf, PartsOne, T!SplitNeverPaired, Mutual, T!PairsMutual,
        Closed,
     UndoClosed, SplitClosed, DeleteClosed
<1>3. ASSUME NEW r \in Requests, T!Asks(r) \/ T!Runs(r) PROVE IInv'
  <2>1. Own(r) /\ T!TypeOK /\ Rows
    BY DEF IInv
  <2>2. Own(r)' /\ Frame(r)
    BY <1>1, <1>3, <2>1, AsksOwn, RunsOwn DEF Rows
  <2>3. ASSUME NEW q \in Requests PROVE Own(q)'
    <3>1. CASE q = r
      BY <2>2, <3>1
    <3>2. CASE q # r
      BY <2>1, <2>2, <3>2, FrameOwn DEF IInv
    <3> QED BY <3>1, <3>2
  <2>4. Rows'
    BY <1>1, <1>3, <2>1, <2>2, RowsStep
  <2>5. relinked => relinked'
    BY <1>3, Zenon DEF T!Asks, T!Runs, T!AskConfirm, T!AskPairAll, T!AskSplit, T!AskUndo,
       T!AskDelete, T!Begins,
       T!NextPair, T!LockLeg, T!Link, T!RefuseSplit, T!FindCut, T!FindParts, T!FindPair,
          T!FindOtherLegs, T!AllCut,
       T!Commit, T!Abort, T!RollsBack, T!CutOne, T!DeleteOne
  <2>6. ASSUME ~relinked' PROVE Mutual'
    <3>1. T!PairsMutual /\ \A q \in Requests : Closed(q)
      BY <2>5, <2>6 DEF IInv, Mutual
    <3>2. T!PairsMutual'
      BY <1>3, <2>1, <3>1, MutualStep
    <3>3. Closed(r)'
      BY <1>1, <1>3, <2>1, <2>2, <2>6, <3>1, ClosedStep
    <3>4. ASSUME NEW q \in Requests \ {r} PROVE Closed(q)'
      BY <2>1, <2>2, <3>1, FrameClosed DEF IInv
    <3> QED BY <3>2, <3>3, <3>4 DEF Mutual
  <2> QED BY <1>1, <2>3, <2>4, <2>6 DEF IInv
<1> QED BY <1>2, <1>3 DEF T!Next, T!AllAnswered

(* What Ledger does to the transactions are steps of Transactions.         *)
LEMMA TransactionSteps == [Next]_vars => [T!Next]_(T!vars)
<1> SUFFICES ASSUME [Next]_vars PROVE [T!Next]_(T!vars)
  OBVIOUS
<1>1. ASSUME NEW r \in Requests, Transact(r) PROVE T!Next
  BY <1>1 DEF Transact, T!Next
<1>2. ASSUME NEW r \in Requests, Tag(r) PROVE UNCHANGED T!vars
  BY <1>2 DEF Tag, ledgerVars, T!vars, T!stored
<1>3. ASSUME AllAnswered \/ UNCHANGED vars PROVE UNCHANGED T!vars
  BY <1>3 DEF AllAnswered, vars, ledgerVars, T!vars, T!stored
<1> QED BY <1>1, <1>2, <1>3 DEF Next

(* The transactions of Ledger are those of Transactions: requests about    *)
(* tags add nothing to what happens to them.                               *)
THEOREM LedgerKeepsTransactions == Spec => T!Spec
<1>1. Init => T!Init
  BY DEF Init
<1> QED BY <1>1, TransactionSteps, PTL DEF Spec, T!Spec

(* The inductive invariant holds in every state of every behaviour.        *)
LEMMA Invariant == Spec => []IInv
<1>1. Init => IInv
  BY InitIInv, ConstantsAssumption DEF Init
<1>2. IInv /\ [Next]_vars => IInv'
  BY NextIInv, TransactionSteps, ConstantsAssumption
<1> QED BY <1>1, <1>2, PTL DEF Spec

-----------------------------------------------------------------------------
(* A finite set of naturals has a largest element: the one with the fewest *)
(* above it.                                                               *)
LEMMA SmallestOf ==
    ASSUME NEW M, M \subseteq Nat, M # {}
    PROVE  \E m \in M : \A n \in M : m <= n
<1> DEFINE R == {ss \in Nat \X Nat : ss[1] < ss[2]}
<1>1. IsWellFoundedOn(R, Nat)
  BY NatLessThanWellFounded DEF OpToRel
<1> HIDE DEF R
<1>2. \E x \in M : \A y \in M : ~(<<y, x>> \in R)
  BY <1>1, WFMin, Zenon
<1>3. PICK m \in M : \A n \in M : ~(<<n, m>> \in R)
  BY <1>2
<1>4. ASSUME NEW n \in M PROVE m <= n
  <2>1. <<n, m>> \notin R /\ m \in Nat /\ n \in Nat
    BY <1>3
  <2> QED BY <2>1 DEF R
<1> QED BY <1>3, <1>4

LEMMA LargestOf ==
    ASSUME NEW M, M \subseteq Nat, M # {}, IsFiniteSet(M)
    PROVE  \E m \in M : \A n \in M : n <= m
<1> DEFINE Above(m) == {n \in M : m < n}
<1>1. ASSUME NEW m \in M PROVE IsFiniteSet(Above(m)) /\ Cardinality(Above(m)) \in Nat
  <2>1. Above(m) \in SUBSET M
    OBVIOUS
  <2>2. IsFiniteSet(Above(m))
    BY <2>1, FS_Subset
  <2> QED BY <2>2, FS_CardinalityType
<1> DEFINE C == {Cardinality(Above(m)) : m \in M}
<1>2. C \subseteq Nat /\ C # {}
  BY <1>1
<1> HIDE DEF C
<1>3. \E c \in C : \A d \in C : c <= d
  BY <1>2, SmallestOf
<1> USE DEF C
<1>4. PICK m \in M : \A n \in M : Cardinality(Above(m)) <= Cardinality(Above(n))
  BY <1>3
<1>5. ASSUME NEW n \in M, m < n PROVE FALSE
  <2>1. Above(n) \subseteq Above(m) /\ n \in Above(m) /\ n \notin Above(n)
    <3>1. M \subseteq Nat /\ m \in Nat /\ n \in Nat
      OBVIOUS
    <3>2. ASSUME NEW k \in M, n < k PROVE m < k
      <4>1. k \in Nat
        BY <3>1
      <4> QED BY <1>5, <3>1, <3>2, <4>1
    <3>3. ~(n < n)
      BY <3>1
    <3> QED BY <1>5, <3>2, <3>3
  <2>2. Above(n) \in SUBSET Above(m) /\ Above(n) # Above(m)
    BY <2>1
  <2>3. Cardinality(Above(n)) <= Cardinality(Above(m))
        /\ (Cardinality(Above(n)) = Cardinality(Above(m)) => Above(n) = Above(m))
    BY <1>1, <2>2, FS_Subset
  <2> QED BY <1>1, <1>4, <2>2, <2>3
<1>6. \A n \in M : n <= m
  BY <1>5
<1> QED BY <1>6

(* The finite sets of the instance are the finite sets.                    *)
LEMMA SameSizes ==
    ASSUME NEW S
    PROVE  /\ T!Cardinality(S) = Cardinality(S)
           /\ T!IsFiniteSet(S) <=> IsFiniteSet(S)
<1>1. T!Cardinality(S) = Cardinality(S)
  BY DEF T!Cardinality, Cardinality
<1>2. T!IsFiniteSet(S) <=> IsFiniteSet(S)
  BY DEF T!IsFiniteSet, IsFiniteSet
<1> QED BY <1>1, <1>2

(* The request of a circle that waits for the latest leg waits for one     *)
(* that holds it, and that one waits for a later leg still.                *)
LEMMA NoCircle ==
    ASSUME T!TransactionConstants, IInv
    PROVE  T!ConfirmsNeverCircle
<1> SUFFICES ASSUME NEW S \in SUBSET {r \in Requests : kind[r] \in Linking}, T!Circle(S)
             PROVE  FALSE
  BY DEF T!ConfirmsNeverCircle, Linking
<1>1. S # {} /\ \A q \in S : T!Holders(q) \cap S # {}
  BY DEF T!Circle
<1>2. ASSUME NEW q \in S, NEW t \in T!Asked(q)
      PROVE  pc[q] = "locking" /\ t \in want[q] /\ (\A u \in want[q] : t <= u) /\ t \in Transactions
  <2>1. q \in Requests /\ Own(q) /\ kind[q] \in Linking
    BY DEF IInv
  <2>2. pc[q] \notin {"cutting", "deleting"}
    BY <2>1 DEF Own, Fits, Linking
  <2>3. pc[q] = "locking"
    BY <1>2, <2>2 DEF T!Asked
  <2>4. T!Asked(q) = {u \in want[q] : T!NextInOrder(q, u)}
    BY <2>3 DEF T!Asked
  <2> QED BY <2>1, <2>3, <2>4 DEF T!NextInOrder, IInv, T!TypeOK
<1> DEFINE M == UNION {T!Asked(q) : q \in S}
<1>3. M \in SUBSET Transactions
  BY <1>2
<1>4. M \subseteq Nat /\ IsFiniteSet(M)
  BY <1>3, FS_Subset, SameSizes DEF T!TransactionConstants
<1>5. ASSUME NEW q \in S PROVE \E p \in S, t \in T!Asked(q) : rowLock[t] = p /\ p # q
  BY <1>1 DEF T!Holders
<1>6. M # {}
  BY <1>1, <1>5
<1>7. PICK m \in M : \A n \in M : n <= m
  <2> HIDE DEF M
  <2> QED BY <1>4, <1>6, LargestOf
<1>8. PICK q \in S : m \in T!Asked(q)
  OBVIOUS
<1>9. PICK p \in S, t \in T!Asked(q) : rowLock[t] = p /\ p # q
  BY <1>5
<1>10. t = m
  <2>1. t <= m /\ m <= t /\ t \in Nat /\ m \in Nat
    BY <1>2, <1>8, <1>9, <1>4
  <2> QED BY <2>1
<1>11. PICK n \in T!Asked(p) : TRUE
  BY <1>5
<1>12. m < n
  <2>1. pc[p] = "locking" /\ n \in want[p] /\ kind[p] \in Linking /\ InOrder(p)
    BY <1>2, <1>11 DEF IInv, Own
  <2>2. m \in legs[p] \ want[p]
    BY <1>3, <1>9, <1>10, <2>1 DEF InOrder
  <2> QED BY <2>1, <2>2 DEF InOrder
<1>13. n <= m /\ n \in Nat /\ m \in Nat
  BY <1>4, <1>7, <1>11
<1> QED BY <1>12, <1>13

-----------------------------------------------------------------------------
(* The type invariant.                                                     *)
THEOREM TransactionTypes == Spec => []T!TypeOK
<1>1. IInv => T!TypeOK
  BY DEF IInv
<1> QED BY <1>1, Invariant, PTL

(* transferPairs.ts:129-135.  In every interleaving, for any number of     *)
(* requests, a leg names a stored leg that names it back, unless an undo   *)
(* was overtaken by the unlinking and relinking of its own legs.           *)
THEOREM PairsStayMutual == Spec => []PairsMutualUnlessOvertaken
<1>1. IInv => PairsMutualUnlessOvertaken
  BY Zenon DEF IInv, Mutual, PairsMutualUnlessOvertaken, T!PairsMutualUnlessOvertaken
<1> QED BY <1>1, Invariant, PTL

(* splits.ts:148-149.  A transaction with parts is never a leg.            *)
THEOREM PartsOrPair == Spec => []SplitNeverPaired
<1>1. IInv => SplitNeverPaired
  BY DEF IInv, Rows, SplitNeverPaired, T!SplitNeverPaired
<1> QED BY <1>1, Invariant, PTL

(* splits.ts:60-62.  The parts of a transaction are those of one edit.     *)
THEOREM PartsOfOneEdit == Spec => []PartsWhole
<1>1. ASSUME IInv PROVE PartsWhole
  <2> SUFFICES ASSUME NEW t \in Transactions PROVE Cardinality(parts[t]) <= 1
    BY SameSizes DEF PartsWhole, T!PartsWhole
  <2>1. \A a, b \in parts[t] : a = b
    BY <1>1 DEF IInv, Rows, PartsOne
  <2>2. CASE parts[t] = {}
    BY <2>2, FS_EmptySet
  <2>3. CASE parts[t] # {}
    <3>1. PICK a \in parts[t] : TRUE
      BY <2>3
    <3>2. parts[t] = {a}
      BY <2>1
    <3>3. Cardinality({a}) = 1
      BY FS_Singleton
    <3> QED BY <3>2, <3>3
  <2> QED BY <2>2, <2>3
<1>2. IInv => PartsWhole
  BY <1>1
<1> QED BY <1>2, Invariant, PTL

(* transferPairs.ts:75-77.  Requests that only link legs, however many and *)
(* in whatever order their legs are named, never wait in a circle.         *)
THEOREM LinkingNeverCircles == Spec => []ConfirmsNeverCircle
<1>1. IInv => ConfirmsNeverCircle
  BY NoCircle, ConstantsAssumption DEF ConfirmsNeverCircle
<1> QED BY <1>1, Invariant, PTL

-----------------------------------------------------------------------------
(* What the others keep while request r asks or runs.                      *)
OthersKeep(r) ==
    \A q \in Requests \ {r} :
        /\ at'[q] = at[q] /\ task'[q] = task[q]
        /\ targets'[q] = targets[q] /\ names'[q] = names[q]
        /\ selected'[q] = selected[q] /\ resolved'[q] = resolved[q]
        /\ read'[q] = read[q] /\ unlinked'[q] = unlinked[q]

(* A request that asks about tags keeps the types.                         *)
LEMMA AsksTagTypes ==
    ASSUME G!TagConstants, G!TagTypeOK, NEW r \in Requests, G!AsksTags(r)
    PROVE  G!TagTypeOK' /\ OthersKeep(r)
<1> USE DEF G!TagTypeOK, OthersKeep, G!tagStore, G!progress, G!history, G!Step, G!Asks
<1>1. ASSUME NEW t \in Transactions, NEW N \in SUBSET Names, G!AskEdit(r, t, N)
      PROVE  G!TagTypeOK' /\ OthersKeep(r)
  BY <1>1 DEF G!AskEdit
<1>2. ASSUME NEW S \in Filters, NEW n \in Names, G!AskBulk(r, S, n)
      PROVE  G!TagTypeOK' /\ OthersKeep(r)
  BY <1>2 DEF G!AskBulk, G!TagConstants
<1>3. ASSUME NEW q \in Requests, G!AskUndoBulk(r, q)
      PROVE  G!TagTypeOK' /\ OthersKeep(r)
  <2>1. {l[1] : l \in given[q]} \subseteq Transactions
    BY DEF G!Links
  <2> QED BY <1>3, <2>1 DEF G!AskUndoBulk
<1>4. ASSUME NEW i \in G!Stored, G!DeleteTag(r, i)
      PROVE  G!TagTypeOK' /\ OthersKeep(r)
  <2>1. links' \subseteq links /\ disturbed' \subseteq Requests
    BY <1>4 DEF G!DeleteTag, G!Relinks
  <2> QED BY <1>4, <2>1 DEF G!DeleteTag, G!Stored
<1>5. ASSUME NEW i \in G!Stored, NEW n \in Names, G!RenameTag(r, i, n)
      PROVE  G!TagTypeOK' /\ OthersKeep(r)
  BY <1>5 DEF G!RenameTag, G!Stored, G!Excuses
<1> QED BY <1>1, <1>2, <1>3, <1>4, <1>5 DEF G!AsksTags

(* An attempt that ends keeps the types.                                   *)
LEMMA RetryTypes ==
    ASSUME G!TagTypeOK, NEW r \in Requests, G!Retry(r) \/ G!Throw(r)
    PROVE  /\ at' \in [Requests -> {"idle", "resolve", "count", "insert", "recheck", "remove",
                                    "prune", "done"} \cup G!Broken]
           /\ selected' \in [Requests -> SUBSET (Names \X (G!Tags \cup {0}))]
           /\ resolved' \in [Requests -> SUBSET (Names \X G!Tags)]
           /\ try' \in [Requests -> Nat]
           /\ excused' \in SUBSET G!Tags
           /\ \A q \in Requests \ {r} :
                at'[q] = at[q] /\ selected'[q] = selected[q] /\ resolved'[q] = resolved[q]
<1>1. G!Named(names[r]) \subseteq G!Tags
  BY DEF G!Named, G!Stored
<1> QED BY <1>1 DEF G!TagTypeOK, G!Retry, G!Throw, G!Step, G!Excuses, G!Broken

(* A request that goes on keeps the types.                                 *)
LEMMA RunsTagTypes ==
    ASSUME G!TagConstants, G!TagTypeOK, NEW r \in Requests, G!RunsTags(r)
    PROVE  G!TagTypeOK' /\ OthersKeep(r)
<1> USE DEF G!TagTypeOK, OthersKeep, G!tagStore, G!progress, G!history
<1>1. ASSUME NEW n \in names[r], G!Select(r, n) PROVE G!TagTypeOK' /\ OthersKeep(r)
  <2>1. {<<n, i>> : i \in IF G!Named({n}) = {} THEN {0} ELSE G!Named({n})}
          \subseteq Names \X (G!Tags \cup {0})
    BY DEF G!Named, G!Stored
  <2> QED BY <1>1, <2>1 DEF G!Select
<1>2. ASSUME NEW x \in selected[r], NEW i \in G!Tags, G!Resolves(r, x, i)
      PROVE  /\ selected' \in [Requests -> SUBSET (Names \X (G!Tags \cup {0}))]
             /\ resolved' \in [Requests -> SUBSET (Names \X G!Tags)]
             /\ OthersKeep(r)
  <2>1. selected[r] \ {x} \subseteq Names \X (G!Tags \cup {0}) /\ x[1] \in Names
    OBVIOUS
  <2>2. resolved[r] \cup {<<x[1], i>>} \subseteq Names \X G!Tags
    BY <2>1
  <2> QED BY <1>2, <2>1, <2>2 DEF G!Resolves
<1>3. ASSUME NEW x \in selected[r], G!Update(r, x) PROVE G!TagTypeOK' /\ OthersKeep(r)
  BY <1>2, <1>3 DEF G!Update, G!Resolves, G!Stored
<1>4. ASSUME NEW x \in selected[r], G!Insert(r, x) PROVE G!TagTypeOK' /\ OthersKeep(r)
  <2>1. made + 1 \in G!Tags
    BY <1>4 DEF G!Insert, G!Tags, G!TagConstants
  <2>2. x[1] \in Names
    OBVIOUS
  <2> QED BY <1>2, <1>4, <2>1, <2>2 DEF G!Insert, G!Resolves
<1>5. ASSUME NEW x \in selected[r], G!InsertAgain(r, x) PROVE G!TagTypeOK' /\ OthersKeep(r)
  <2>1. selected[r] \ {x} \subseteq Names \X (G!Tags \cup {0})
    OBVIOUS
  <2> QED BY <1>5, <2>1 DEF G!InsertAgain
<1>6. ASSUME NEW x \in selected[r], G!Vanish(r, x) PROVE G!TagTypeOK' /\ OthersKeep(r)
  <2>1. G!Retry(r)
    BY <1>6 DEF G!Vanish
  <2> QED BY <1>6, <2>1, RetryTypes DEF G!Vanish
<1>7. CASE G!ReadLinks(r)
  <2>1. G!OfTransactions(targets[r]) \subseteq G!Links /\ links \cap G!Wanted(r) \subseteq G!Links
    BY DEF G!OfTransactions
  <2>2. \A place \in {"insert", "done", "count"} : G!Step(r, place) =>
           at' \in [Requests -> {"idle", "resolve", "count", "insert", "recheck", "remove",
                                 "prune", "done"} \cup G!Broken]
    BY DEF G!Step
  <2>3. \E place \in {"insert", "done", "count"} : G!Step(r, place)
    BY <1>7 DEF G!ReadLinks, G!After
  <2>4. \E S \in SUBSET G!Links : read' = [read EXCEPT ![r] = S]
    BY <1>7, <2>1 DEF G!ReadLinks
  <2> QED BY <1>7, <2>2, <2>3, <2>4 DEF G!ReadLinks, G!Step
<1>8. CASE G!CountTags(r)
  <2>1. G!Named(names[r]) \subseteq G!Tags
    BY DEF G!Named, G!Stored
  <2> QED BY <1>8, <2>1 DEF G!CountTags, G!Step, G!Excuses
<1>9. CASE G!InsertLinks(r)
  <2>0. ~G!Dangling(r)
    BY <1>9 DEF G!InsertLinks
  <2>1. G!Added(r) \subseteq G!Links
    <3> SUFFICES ASSUME NEW l \in targets[r] \X G!Chosen(r) PROVE l \in G!Links
      BY DEF G!Added, G!Wanted
    <3>1. G!Chosen(r) \subseteq G!Tags
      BY DEF G!Chosen
    <3> QED BY <3>1 DEF G!Links
  <2>2. links' \subseteq G!Links /\ disturbed' \subseteq Requests
    BY <1>9, <2>1 DEF G!InsertLinks, G!Relinks
  <2> QED BY <1>9, <2>1, <2>2 DEF G!InsertLinks, G!Inserted, G!After, G!Step
<1>10. CASE G!LinkExists(r)
  <2>1. G!Throw(r)
    BY <1>10 DEF G!LinkExists
  <2> QED BY <1>10, <2>1, RetryTypes DEF G!LinkExists
<1>11. CASE G!LinkDangles(r)
  <2>1. CASE G!Retry(r)
    BY <1>11, <2>1, RetryTypes DEF G!LinkDangles
  <2>2. CASE G!Step(r, "recheck") /\ UNCHANGED <<selected, resolved, try, excused>>
    BY <1>11, <2>2 DEF G!LinkDangles, G!Step
  <2> QED BY <1>11, <2>1, <2>2 DEF G!LinkDangles
<1>12. CASE G!Recheck(r)
  <2>1. G!Retry(r) \/ G!Throw(r)
    BY <1>12 DEF G!Recheck
  <2> QED BY <1>12, <2>1, RetryTypes DEF G!Recheck
<1>13. CASE G!RemoveLinks(r)
  <2>1. links' \subseteq links /\ disturbed' \subseteq Requests
    BY <1>13 DEF G!RemoveLinks, G!Relinks
  <2>2. unlinked[r] \cup (links \cap G!Removed(r)) \subseteq G!Links
    OBVIOUS
  <2> QED BY <1>13, <2>1, <2>2 DEF G!RemoveLinks, G!After, G!Step
<1>14. CASE G!Prune(r)
  BY <1>14 DEF G!Prune, G!Step
<1>15. CASE G!Break(r)
  <2>1. G!Named(names[r]) \cup G!TagsIn(read[r]) \subseteq G!Tags
    BY DEF G!Named, G!Stored, G!TagsIn, G!Links
  <2>2. \E place \in G!Broken : G!Step(r, place)
    BY <1>15 DEF G!Break, G!Broken
  <2>3. /\ at' \in [Requests -> {"idle", "resolve", "count", "insert", "recheck", "remove",
                                 "prune", "done"} \cup G!Broken]
        /\ \A q \in Requests \ {r} : at'[q] = at[q]
    BY <2>2 DEF G!Step
  <2> QED BY <1>15, <2>1, <2>3 DEF G!Break, G!Excuses
<1> QED BY <1>1, <1>3, <1>4, <1>5, <1>6, <1>7, <1>8, <1>9, <1>10, <1>11, <1>12, <1>13, <1>14,
           <1>15
        DEF G!RunsTags

(* A deletion keeps the types.                                             *)
LEMMA CascadeTypes ==
    ASSUME G!TagTypeOK, NEW S \in SUBSET Transactions, present' = present \ S, G!Cascade(S)
    PROVE  G!TagTypeOK'
<1>1. G!TagsIn(G!OfTransactions(S)) \subseteq G!Tags
  BY DEF G!TagsIn, G!OfTransactions, G!TagTypeOK, G!Links
<1>2. links' \subseteq links /\ disturbed' \subseteq Requests
  BY DEF G!Cascade, G!Relinks, G!TagTypeOK
<1> QED BY <1>1, <1>2 DEF G!Cascade, G!Excuses, G!progress, G!TagTypeOK

-----------------------------------------------------------------------------
(* The inductive invariant of the tags.                                    *)

(* Where a request about tags can be.                                      *)
Placed(r) ==
    /\ at[r] \in {"resolve", "insert"} => task[r] \in {"edit", "bulk"}
    /\ at[r] = "count" => task[r] = "bulk"
    /\ at[r] = "recheck" => task[r] = "edit"
    /\ at[r] \in {"resolve", "count", "insert", "recheck"} => targets[r] # {}
    /\ at[r] \notin {"prune", "done", "unpruned"} => unlinked[r] = {}

(* It resolves each of its names once.                                     *)
Resolving(r) ==
    /\ at[r] # "resolve" => selected[r] = {}
    /\ at[r] = "idle" => resolved[r] = {}
    /\ \A x \in selected[r] \cup resolved[r] : x[1] \in names[r]
    /\ \A x \in selected[r], y \in resolved[r] : x[1] # y[1]
    /\ \A x, y \in selected[r] : x[1] = y[1] => x = y
    /\ \A x, y \in resolved[r] : x[1] = y[1] => x = y

Bounded(r) ==
    /\ r \in disturbed => at[r] # "idle"
    /\ task[r] = "edit" => Cardinality(names[r]) <= MaxTags
    /\ task[r] = "bulk" => \A m, n \in names[r] : m = n

(* What it read is what its transactions have, and then what it wrote too. *)
UpToDate(r) ==
    r \notin disturbed =>
        /\ task[r] = "edit" /\ at[r] = "insert" => G!OfTransactions(targets[r]) = read[r]
        /\ task[r] = "edit" /\ at[r] = "remove"
             => G!OfTransactions(targets[r]) = read[r] \cup G!Wanted(r)
        /\ task[r] = "bulk" /\ at[r] = "insert" => ~G!OverCap(r)

Tagged(r) == Placed(r) /\ Resolving(r) /\ Bounded(r) /\ UpToDate(r)

(* A tag has one name, and a name has one tag.                             *)
Naming ==
    /\ \A i \in G!Stored : i <= made
    /\ \A i, j \in G!Stored : nameOf[i] = nameOf[j] => i = j

(* Request r has still to find tag i, or to link it.                       *)
WillLink(r, i) ==
    /\ nameOf[i] \in names[r]
    /\ \/ /\ at[r] = "resolve"
          /\ \A x \in selected[r] \cup resolved[r] : x[1] = nameOf[i] => x[2] \in {0, i}
       \/ /\ at[r] \in {"count", "insert", "recheck"}
          /\ i \in G!Chosen(r) /\ i \notin G!TagsIn(read[r])

WillPrune(r, i) == at[r] = "prune" /\ i \in G!TagsIn(G!Removed(r))

InHand(i) == i \in excused \/ \E r \in Requests : WillLink(r, i) \/ WillPrune(r, i)

Handled == \A i \in G!Unused : InHand(i)

(* Only an edit that has still to remove what it replaces, or that broke   *)
(* there, or a request whose transactions another changed, takes a         *)
(* transaction past the cap.                                               *)
Excess(t, r) ==
    /\ t \in targets[r]
    /\ r \in disturbed \/ (task[r] = "edit" /\ at[r] \in {"remove", "halfway"})

Capped == \A t \in present : Cardinality(G!TagsOf(t)) <= MaxTags \/ \E r \in Requests : Excess(t, r)

TagIInv == G!TagTypeOK /\ (\A r \in Requests : Tagged(r)) /\ Naming /\ Handled /\ Capped

-----------------------------------------------------------------------------
(* Every change of the links tells the requests it overtakes.              *)
Tells ==
    disturbed' = disturbed \cup
        {q \in Requests : G!Writing(q) /\ at'[q] = at[q] /\
            \E l \in (links \cup links') \ (links \cap links') : l[1] \in targets[q]}

(* Relinks is how links change, or they do not.                            *)
LEMMA RelinksTell == ASSUME NEW S, G!Relinks(S) PROVE Tells
BY DEF G!Relinks, Tells

LEMMA SameLinksTell == ASSUME UNCHANGED <<links, disturbed>> PROVE Tells
BY DEF Tells

LEMMA StepsTell ==
    ASSUME NEW r \in Requests, G!AsksTags(r) \/ G!RunsTags(r)
    PROVE  Tells
<1> USE DEF G!tagStore, G!progress, G!history
<1>1. ASSUME NEW t \in Transactions, NEW N \in SUBSET Names, G!AskEdit(r, t, N) PROVE Tells
  BY <1>1, SameLinksTell DEF G!AskEdit
<1>2. ASSUME NEW S \in Filters, NEW n \in Names, G!AskBulk(r, S, n) PROVE Tells
  BY <1>2, SameLinksTell DEF G!AskBulk
<1>3. ASSUME NEW q \in Requests, G!AskUndoBulk(r, q) PROVE Tells
  BY <1>3, SameLinksTell DEF G!AskUndoBulk
<1>4. ASSUME NEW i, G!DeleteTag(r, i) PROVE Tells
  BY <1>4, RelinksTell DEF G!DeleteTag
<1>5. ASSUME NEW i, NEW n, G!RenameTag(r, i, n) PROVE Tells
  BY <1>5, SameLinksTell DEF G!RenameTag
<1>6. ASSUME NEW n, G!Select(r, n) PROVE Tells
  BY <1>6, SameLinksTell DEF G!Select
<1>7. ASSUME NEW x, G!Update(r, x) \/ G!Insert(r, x) \/ G!InsertAgain(r, x) \/ G!Vanish(r, x) PROVE Tells
  BY <1>7, SameLinksTell DEF G!Update, G!Insert, G!Resolves, G!InsertAgain, G!Vanish
<1>8. CASE G!InsertLinks(r)
  BY <1>8, RelinksTell DEF G!InsertLinks
<1>9. CASE G!RemoveLinks(r)
  BY <1>9, RelinksTell DEF G!RemoveLinks
<1>10. CASE G!ReadLinks(r) \/ G!CountTags(r) \/ G!LinkExists(r) \/ G!LinkDangles(r) \/ G!Recheck(r)
            \/ G!Prune(r) \/ G!Break(r)
  BY <1>10, SameLinksTell
     DEF G!ReadLinks, G!CountTags, G!LinkExists, G!LinkDangles, G!Recheck, G!Prune, G!Break
<1> QED BY <1>1, <1>2, <1>3, <1>4, <1>5, <1>6, <1>7, <1>8, <1>9, <1>10
        DEF G!AsksTags, G!RunsTags

(* A request that was writing and was not told has what it had.            *)
LEMMA Untold ==
    ASSUME G!TagTypeOK, G!TagTypeOK', Tells, NEW q \in Requests, q \notin disturbed', G!Writing(q),
           at'[q] = at[q], targets'[q] = targets[q]
    PROVE  /\ q \notin disturbed
           /\ G!OfTransactions(targets[q])' = G!OfTransactions(targets[q])
           /\ \A t \in targets[q] : G!TagsOf(t)' = G!TagsOf(t)
<1>1. q \notin disturbed /\ \A l \in (links \cup links') \ (links \cap links') : l[1] \notin targets[q]
  BY DEF Tells
<1>2. \A l \in links \cup links' : l[1] \in targets[q] => (l \in links <=> l \in links')
  BY <1>1
<1>3. G!OfTransactions(targets[q])' = G!OfTransactions(targets[q])
  BY <1>2 DEF G!OfTransactions
<1>4. ASSUME NEW t \in targets[q] PROVE G!TagsOf(t)' = G!TagsOf(t)
  <2>1. \A i : <<t, i>> \in links <=> <<t, i>> \in links'
    BY <1>2
  <2> QED BY <2>1 DEF G!TagsOf
<1> QED BY <1>1, <1>3, <1>4

(* A step of another request keeps a request's part.                       *)
LEMMA FrameTagged ==
    ASSUME G!TagTypeOK, G!TagTypeOK', Tells, NEW q \in Requests, Tagged(q),
           at'[q] = at[q], task'[q] = task[q], targets'[q] = targets[q], names'[q] = names[q],
           selected'[q] = selected[q], resolved'[q] = resolved[q], read'[q] = read[q],
           unlinked'[q] = unlinked[q]
    PROVE  Tagged(q)'
<1>1. Placed(q)' /\ Resolving(q)'
  BY DEF Tagged, Placed, Resolving
<1>2. Bounded(q)'
  <2>1. q \in disturbed' => q \in disturbed \/ G!Writing(q)
    BY DEF Tells
  <2> QED BY <2>1 DEF Tagged, Bounded, G!Writing
<1>3. UpToDate(q)'
  <2> SUFFICES ASSUME q \notin disturbed', at[q] \in {"insert", "remove"}
               PROVE  UpToDate(q)'
    BY DEF UpToDate
  <2>1. /\ q \notin disturbed
        /\ G!OfTransactions(targets[q])' = G!OfTransactions(targets[q])
        /\ \A t \in targets[q] : G!TagsOf(t)' = G!TagsOf(t)
    BY Untold DEF G!Writing
  <2>2. G!Chosen(q)' = G!Chosen(q) /\ G!Wanted(q)' = G!Wanted(q) /\ G!Added(q)' = G!Added(q)
    BY DEF G!Chosen, G!Wanted, G!Added
  <2>3. \A l \in G!Added(q) : l[1] \in targets[q]
    BY DEF G!Added, G!Wanted
  <2>4. G!OverCap(q)' <=> G!OverCap(q)
    BY <2>1, <2>2, <2>3 DEF G!OverCap
  <2> QED BY <2>1, <2>2, <2>4 DEF Tagged, UpToDate
<1> QED BY <1>1, <1>2, <1>3 DEF Tagged


(* The sizes of sets in Tags are their sizes.                              *)
LEMMA SameTagSizes ==
    ASSUME NEW S
    PROVE  /\ G!Cardinality(S) = Cardinality(S)
           /\ G!IsFiniteSet(S) <=> IsFiniteSet(S)
<1>1. G!Cardinality(S) = Cardinality(S)
  BY DEF G!Cardinality, Cardinality
<1>2. G!IsFiniteSet(S) <=> IsFiniteSet(S)
  BY DEF G!IsFiniteSet, IsFiniteSet
<1> QED BY <1>1, <1>2

LEMMA AsksTagged ==
    ASSUME G!TagConstants, G!TagTypeOK, G!TagTypeOK', NEW r \in Requests, Tagged(r), G!AsksTags(r)
    PROVE  Tagged(r)'
<1>0. /\ at[r] = "idle" /\ selected[r] = {} /\ resolved[r] = {} /\ unlinked[r] = {}
      /\ at'[r] # "idle" /\ at'[r] \in {"resolve", "remove", "done"}
      /\ r \notin disturbed /\ r \notin disturbed'
      /\ selected'[r] = {} /\ resolved'[r] = {} /\ unlinked'[r] = {}
      /\ at'[r] = "resolve" => task'[r] \in {"edit", "bulk"} /\ targets'[r] # {}
      /\ at'[r] = "remove" => task'[r] = "undoBulk"
      /\ task'[r] = "edit" => Cardinality(names'[r]) <= MaxTags
      /\ task'[r] = "bulk" => \A m, n \in names'[r] : m = n
  <2> USE DEF G!Asks, G!Step, G!TagTypeOK
  <2>1. at[r] = "idle"
    BY DEF G!AsksTags, G!AskEdit, G!AskBulk, G!AskUndoBulk, G!DeleteTag, G!RenameTag
  <2>2. selected[r] = {} /\ resolved[r] = {} /\ unlinked[r] = {} /\ r \notin disturbed
    BY <2>1 DEF Tagged, Placed, Resolving, Bounded
  <2>3. r \notin disturbed'
    <3>1. Tells
      BY StepsTell
    <3> QED BY <2>1, <2>2, <3>1 DEF Tells, G!Writing
  <2> DEFINE Here == /\ at'[r] # "idle" /\ at'[r] \in {"resolve", "remove", "done"}
                     /\ selected'[r] = {} /\ resolved'[r] = {} /\ unlinked'[r] = {}
                     /\ at'[r] = "resolve" => task'[r] \in {"edit", "bulk"} /\ targets'[r] # {}
                     /\ at'[r] = "remove" => task'[r] = "undoBulk"
                     /\ task'[r] = "edit" => Cardinality(names'[r]) <= MaxTags
                     /\ task'[r] = "bulk" => \A m, n \in names'[r] : m = n
  <2>4. ASSUME NEW t \in Transactions, NEW N \in SUBSET Names, G!AskEdit(r, t, N) PROVE Here
    BY <2>2, <2>4, SameTagSizes DEF G!AskEdit
  <2>5. ASSUME NEW S \in Filters, NEW n \in Names, G!AskBulk(r, S, n) PROVE Here
    BY <2>2, <2>5 DEF G!AskBulk
  <2>6. ASSUME NEW q \in Requests, G!AskUndoBulk(r, q) PROVE Here
    BY <2>2, <2>6 DEF G!AskUndoBulk
  <2>7. ASSUME NEW i, G!DeleteTag(r, i) PROVE Here
    BY <2>2, <2>7 DEF G!DeleteTag
  <2>8. ASSUME NEW i, NEW n, G!RenameTag(r, i, n) PROVE Here
    BY <2>2, <2>8 DEF G!RenameTag
  <2> QED BY <2>1, <2>2, <2>3, <2>4, <2>5, <2>6, <2>7, <2>8 DEF G!AsksTags
<1> QED BY <1>0 DEF Tagged, Placed, Resolving, Bounded, UpToDate

(* The next attempt, or the failure, begins from nothing.                  *)
LEMMA RetryTagged ==
    ASSUME G!TagTypeOK, NEW r \in Requests, Tagged(r),
           at[r] \in {"resolve", "insert", "recheck"},
           G!Retry(r) \/ (G!Throw(r) /\ at[r] # "resolve"),
           UNCHANGED <<task, targets, names, unlinked, disturbed>>
    PROVE  Tagged(r)'
<1>1. /\ at'[r] \in {"resolve", "failed"}
      /\ selected'[r] = {} /\ resolved'[r] \subseteq resolved[r]
  BY DEF G!Retry, G!Throw, G!Step, G!TagTypeOK, Tagged, Resolving
<1>2. Placed(r)'
  BY <1>1 DEF Tagged, Placed
<1>3. Resolving(r)'
  BY <1>1 DEF Tagged, Resolving
<1> QED BY <1>1, <1>2, <1>3 DEF Tagged, Bounded, UpToDate

(* A request that resolves a name keeps its part.                          *)
LEMMA ResolvesTagged ==
    ASSUME G!TagTypeOK, G!TagTypeOK', Tells, NEW r \in Requests, Tagged(r),
           NEW x \in selected[r], NEW i \in G!Tags, G!Resolves(r, x, i)
    PROVE  Tagged(r)'
<1>1. at[r] = "resolve" /\ at'[r] = "resolve"
  BY DEF Tagged, Resolving, G!Resolves
<1>2. /\ selected'[r] = selected[r] \ {x} /\ resolved'[r] = resolved[r] \cup {<<x[1], i>>}
      /\ UNCHANGED <<task, targets, names, unlinked, disturbed>>
  BY DEF G!Resolves, G!TagTypeOK, G!history
<1>3. Resolving(r)'
  BY <1>1, <1>2 DEF Tagged, Resolving
<1> QED BY <1>1, <1>2, <1>3 DEF Tagged, Placed, Bounded, UpToDate

(* A request that goes on keeps its part.                                  *)
LEMMA RunsTagged ==
    ASSUME G!TagConstants, G!TagTypeOK, G!TagTypeOK', Naming, NEW r \in Requests, Tagged(r),
           G!RunsTags(r)
    PROVE  Tagged(r)'
<1> USE DEF G!tagStore, G!progress, G!history
<1>0. Tells
  BY StepsTell
<1>1. ASSUME NEW n \in names[r], G!Select(r, n) PROVE Tagged(r)'
  <2> DEFINE F == {<<n, i>> : i \in IF G!Named({n}) = {} THEN {0} ELSE G!Named({n})}
  <2>1. at[r] = "resolve" /\ UNCHANGED <<at, task, targets, names, resolved, unlinked, disturbed>>
        /\ selected'[r] = selected[r] \cup F /\ \A x \in selected[r] \cup resolved[r] : x[1] # n
    BY <1>1 DEF G!Select, G!TagTypeOK
  <2>2. \A x \in F : x[1] = n
    OBVIOUS
  <2>3. \A x, y \in F : x = y
    <3>1. \A i, j \in G!Named({n}) : i = j
      BY DEF G!Named, Naming
    <3> QED BY <3>1
  <2> HIDE DEF F
  <2>4. Resolving(r)'
    BY <2>1, <2>2, <2>3 DEF Tagged, Resolving
  <2> QED BY <2>1, <2>4 DEF Tagged, Placed, Bounded, UpToDate
<1>2. ASSUME NEW x \in selected[r], G!Update(r, x) PROVE Tagged(r)'
  <2>1. x[2] \in G!Tags /\ G!Resolves(r, x, x[2])
    BY <1>2 DEF G!Update, G!Stored
  <2> QED BY <1>0, <2>1, ResolvesTagged
<1>3. ASSUME NEW x \in selected[r], G!Insert(r, x) PROVE Tagged(r)'
  <2>1. made + 1 \in G!Tags /\ G!Resolves(r, x, made + 1)
    BY <1>3 DEF G!Insert, G!TagTypeOK, G!Tags, G!TagConstants
  <2> QED BY <1>0, <2>1, ResolvesTagged
<1>4. ASSUME NEW x \in selected[r], G!InsertAgain(r, x) PROVE Tagged(r)'
  <2>1. UNCHANGED <<at, task, targets, names, resolved, unlinked, disturbed>>
        /\ selected'[r] = selected[r] \ {x}
    BY <1>4 DEF G!InsertAgain, G!TagTypeOK
  <2>2. Resolving(r)'
    BY <2>1 DEF Tagged, Resolving
  <2> QED BY <1>4, <2>1, <2>2 DEF Tagged, Placed, Resolving, Bounded, UpToDate
<1>5. ASSUME NEW x \in selected[r], G!Vanish(r, x) PROVE Tagged(r)'
  <2>1. at[r] = "resolve"
    BY DEF Tagged, Resolving
  <2> QED BY <1>5, <2>1, RetryTagged DEF G!Vanish
<1>6. CASE G!ReadLinks(r)
  <2>1. at[r] = "resolve" /\ UNCHANGED <<links, task, targets, names, selected, resolved, unlinked, disturbed>>
        /\ {x[1] : x \in resolved[r]} = names[r]
    BY <1>6 DEF G!ReadLinks
  <2>2. selected[r] = {}
    <3> SUFFICES ASSUME NEW x \in selected[r] PROVE FALSE
      OBVIOUS
    <3>1. x[1] \in {y[1] : y \in resolved[r]}
      BY <2>1 DEF Tagged, Resolving
    <3>2. PICK y \in resolved[r] : y[1] = x[1]
      BY <3>1
    <3> QED BY <3>2 DEF Tagged, Resolving
  <2>3. CASE task[r] = "edit"
    <3>1. at'[r] = "insert" /\ read'[r] = G!OfTransactions(targets[r])
      BY <1>6, <2>3 DEF G!ReadLinks, G!Step, G!After, G!TagTypeOK
    <3>2. G!OfTransactions(targets[r])' = G!OfTransactions(targets[r])
      BY <2>1 DEF G!OfTransactions
    <3>3. UpToDate(r)'
      BY <2>1, <2>3, <3>1, <3>2 DEF UpToDate
    <3> QED BY <2>1, <2>2, <2>3, <3>1, <3>3 DEF Tagged, Placed, Resolving, Bounded
  <2>4. CASE task[r] # "edit"
    <3>1. at'[r] \in {"done", "count"} /\ task[r] = "bulk"
      BY <1>6, <2>1, <2>4 DEF G!ReadLinks, G!Step, G!TagTypeOK, Tagged, Placed
    <3> QED BY <2>1, <2>2, <3>1 DEF Tagged, Placed, Resolving, Bounded, UpToDate
  <2> QED BY <2>3, <2>4
<1>7. CASE G!CountTags(r)
  <2>1. at[r] = "count" /\ UNCHANGED <<links, task, targets, names, selected, resolved, read, unlinked, disturbed>>
    BY <1>7 DEF G!CountTags
  <2>2. at'[r] \in {"insert", "done"} /\ (at'[r] = "insert" => ~G!OverCap(r)) /\ task[r] = "bulk"
    BY <1>7, <2>1 DEF G!CountTags, G!Step, G!TagTypeOK, Tagged, Placed
  <2>3. G!OverCap(r)' <=> G!OverCap(r)
    BY <2>1 DEF G!OverCap, G!Added, G!Wanted, G!Chosen, G!TagsOf
  <2>4. UpToDate(r)'
    BY <2>1, <2>2, <2>3 DEF UpToDate
  <2> QED BY <2>1, <2>2, <2>4 DEF Tagged, Placed, Resolving, Bounded
<1>8. CASE G!InsertLinks(r)
  <2>1. at[r] = "insert" /\ UNCHANGED <<task, targets, names, selected, resolved, read, unlinked>>
        /\ links' = links \cup G!Added(r)
    BY <1>8 DEF G!InsertLinks, G!Relinks
  <2>2. IF task[r] = "edit" THEN at'[r] = "remove" ELSE at'[r] = "done"
    BY <1>8 DEF G!InsertLinks, G!Step, G!TagTypeOK, G!Inserted, G!After
  <2>3. r \in disturbed' <=> r \in disturbed
    BY <1>0, <2>1, <2>2 DEF Tells
  <2>4. UpToDate(r)'
    <3> SUFFICES ASSUME r \notin disturbed, task[r] = "edit"
                 PROVE  G!OfTransactions(targets[r])' = (read[r] \cup G!Wanted(r))'
      BY <2>1, <2>2, <2>3 DEF UpToDate
    <3>1. G!OfTransactions(targets[r]) = read[r]
      BY <2>1 DEF Tagged, UpToDate
    <3>2. G!Wanted(r)' = G!Wanted(r) /\ \A l \in G!Added(r) : l[1] \in targets[r]
      BY <2>1 DEF G!Wanted, G!Chosen, G!Added
    <3>3. G!OfTransactions(targets[r])' = G!OfTransactions(targets[r]) \cup G!Added(r)
      BY <2>1, <3>2 DEF G!OfTransactions
    <3>4. read[r] \cup G!Added(r) = read[r] \cup G!Wanted(r)
      BY DEF G!Added
    <3> QED BY <2>1, <3>1, <3>2, <3>3, <3>4
  <2> QED BY <2>1, <2>2, <2>3, <2>4 DEF Tagged, Placed, Resolving, Bounded
<1>9. CASE G!LinkExists(r)
  BY <1>9, RetryTagged DEF G!LinkExists
<1>10. CASE G!LinkDangles(r)
  <2>1. CASE G!Retry(r)
    BY <1>10, <2>1, RetryTagged DEF G!LinkDangles
  <2>2. CASE task[r] = "edit" /\ G!Step(r, "recheck") /\ UNCHANGED <<selected, resolved, try, excused>>
    <3>1. at[r] = "insert" /\ at'[r] = "recheck"
          /\ UNCHANGED <<task, targets, names, selected, resolved, unlinked, disturbed>>
      BY <1>10, <2>2 DEF G!LinkDangles, G!Step, G!TagTypeOK
    <3> QED BY <2>2, <3>1 DEF Tagged, Placed, Resolving, Bounded, UpToDate
  <2> QED BY <1>10, <2>1, <2>2 DEF G!LinkDangles
<1>11. CASE G!Recheck(r)
  BY <1>11, RetryTagged DEF G!Recheck
<1>12. CASE G!RemoveLinks(r)
  <2>1. at[r] = "remove" /\ at'[r] = "prune"
        /\ UNCHANGED <<task, targets, names, selected, resolved>>
    BY <1>12 DEF G!RemoveLinks, G!Step, G!After, G!TagTypeOK
  <2>2. r \in disturbed' <=> r \in disturbed
    BY <1>0, <2>1 DEF Tells
  <2> QED BY <2>1, <2>2 DEF Tagged, Placed, Resolving, Bounded, UpToDate
<1>13. CASE G!Prune(r)
  <2>1. at[r] = "prune" /\ at'[r] = "done"
        /\ UNCHANGED <<task, targets, names, selected, resolved, unlinked, disturbed>>
    BY <1>13 DEF G!Prune, G!Step, G!TagTypeOK
  <2> QED BY <2>1 DEF Tagged, Placed, Resolving, Bounded, UpToDate
<1>14. CASE G!Break(r)
  <2>1. /\ at'[r] \in G!Broken /\ at[r] # "idle" /\ selected'[r] = {}
        /\ UNCHANGED <<task, targets, names, resolved, unlinked, disturbed>>
    BY <1>14 DEF G!Break, G!Step, G!Broken, G!TagTypeOK
  <2>2. at'[r] = "unpruned" \/ at[r] \notin {"prune", "done", "unpruned"}
    BY <1>14 DEF G!Break, G!Step, G!TagTypeOK
  <2>3. Placed(r)'
    BY <2>1, <2>2 DEF Tagged, Placed, G!Broken
  <2>4. Resolving(r)'
    BY <2>1 DEF Tagged, Resolving, G!Broken
  <2> QED BY <2>1, <2>3, <2>4 DEF Tagged, Bounded, UpToDate, G!Broken
<1> QED BY <1>1, <1>2, <1>3, <1>4, <1>5, <1>6, <1>7, <1>8, <1>9, <1>10, <1>11, <1>12, <1>13, <1>14
        DEF G!RunsTags

-----------------------------------------------------------------------------
(* A tag keeps its name, and a name its tag.                               *)
LEMMA NamingStep ==
    ASSUME G!TagConstants, G!TagTypeOK, Naming, NEW r \in Requests,
           G!AsksTags(r) \/ G!RunsTags(r)
    PROVE  Naming'
<1> USE DEF G!tagStore, G!progress, G!history
<1>0. ASSUME UNCHANGED made, NEW N \in SUBSET G!Tags,
             \A i \in G!Tags \ N : nameOf'[i] = nameOf[i], \A i \in N : nameOf'[i] = NoName
      PROVE  Naming'
  <2>1. \A i \in G!Stored' : i \in G!Stored /\ nameOf'[i] = nameOf[i]
    BY <1>0 DEF G!Stored
  <2> QED BY <1>0, <2>1 DEF Naming
<1>1. UNCHANGED <<nameOf, made>> => Naming'
  BY DEF Naming, G!Stored
<1>2. ASSUME NEW i \in G!Stored, G!DeleteTag(r, i) PROVE Naming'
  <2>1. made' = made /\ nameOf' = [nameOf EXCEPT ![i] = NoName] /\ {i} \in SUBSET G!Tags
    BY <1>2 DEF G!DeleteTag, G!Stored
  <2> QED BY <1>0, <2>1 DEF G!TagTypeOK
<1>3. ASSUME NEW i \in G!Stored, NEW n \in Names, G!RenameTag(r, i, n) PROVE Naming'
  <2>1. CASE \E j \in G!Tags \ {i} : nameOf[j] = n
    BY <1>1, <1>3, <2>1 DEF G!RenameTag
  <2>2. CASE ~\E j \in G!Tags \ {i} : nameOf[j] = n
    <3>1. made' = made /\ nameOf' = [nameOf EXCEPT ![i] = n]
      BY <1>3, <2>2 DEF G!RenameTag
    <3>2. \A j \in G!Stored' : j \in G!Stored /\ (j # i => nameOf'[j] = nameOf[j] /\ nameOf[j] # n)
                              /\ (j = i => nameOf'[j] = n)
      BY <2>2, <3>1 DEF G!Stored, G!TagTypeOK
    <3> QED BY <3>1, <3>2 DEF Naming
  <2> QED BY <2>1, <2>2
<1>4. ASSUME NEW x \in selected[r], G!Insert(r, x) PROVE Naming'
  <2>1. /\ made' = made + 1 /\ made + 1 \in G!Tags /\ made \in Nat
        /\ nameOf' = [nameOf EXCEPT ![made + 1] = x[1]]
    BY <1>4 DEF G!Insert, G!TagTypeOK, G!Tags, G!TagConstants
  <2>2. \A j \in G!Stored : nameOf[j] # x[1]
    BY <1>4 DEF G!Insert, G!Named
  <2>3. \A j \in G!Stored' : \/ j = made + 1 /\ nameOf'[j] = x[1]
                             \/ j \in G!Stored /\ nameOf'[j] = nameOf[j]
    BY <2>1 DEF G!Stored, G!TagTypeOK
  <2>4. \A j \in G!Stored : j <= made /\ j \in Nat
    BY DEF Naming, G!Stored, G!Tags
  <2>5. \A j \in G!Stored' : j <= made'
    BY <2>1, <2>3, <2>4
  <2>6. \A i, j \in G!Stored' : nameOf'[i] = nameOf'[j] => i = j
    BY <2>2, <2>3 DEF Naming
  <2> QED BY <2>5, <2>6 DEF Naming
<1>5. CASE G!Prune(r)
  <2>1. G!Prunable(r) \subseteq G!Tags
    BY DEF G!Prunable, G!Unused, G!Stored
  <2> QED BY <1>0, <1>5, <2>1 DEF G!Prune, G!TagTypeOK
<1> QED BY <1>1, <1>2, <1>3, <1>4, <1>5
        DEF G!AsksTags, G!RunsTags, G!AskEdit, G!AskBulk, G!AskUndoBulk, G!Select, G!Update,
            G!InsertAgain, G!Vanish, G!ReadLinks, G!CountTags, G!InsertLinks, G!LinkExists,
            G!LinkDangles, G!Recheck, G!RemoveLinks, G!Break

-----------------------------------------------------------------------------
(* An unused tag that was unused stays in hand when request r keeps it so, *)
(* or leaves it excused.                                                   *)
LEMMA StaysInHand ==
    ASSUME NEW r \in Requests, OthersKeep(r), Handled, excused \subseteq excused',
           NEW i \in G!Unused, nameOf'[i] = nameOf[i],
           WillLink(r, i) \/ WillPrune(r, i) =>
               i \in excused' \/ WillLink(r, i)' \/ WillPrune(r, i)'
    PROVE  InHand(i)'
<1>1. CASE i \in excused
  BY <1>1 DEF InHand
<1>2. ASSUME NEW q \in Requests \ {r}, WillLink(q, i) \/ WillPrune(q, i) PROVE InHand(i)'
  <2>1. /\ at'[q] = at[q] /\ targets'[q] = targets[q] /\ names'[q] = names[q]
        /\ selected'[q] = selected[q] /\ resolved'[q] = resolved[q] /\ read'[q] = read[q]
    BY DEF OthersKeep
  <2>2. WillLink(q, i) => WillLink(q, i)'
    BY <2>1 DEF WillLink, G!Chosen, G!TagsIn
  <2>3. WillPrune(q, i) => WillPrune(q, i)'
    BY <2>1 DEF WillPrune, G!Removed, G!Wanted, G!Chosen, G!TagsIn
  <2> QED BY <1>2, <2>2, <2>3 DEF InHand
<1>3. CASE WillLink(r, i) \/ WillPrune(r, i)
  BY <1>3 DEF InHand
<1> QED BY <1>1, <1>2, <1>3 DEF Handled, InHand

(* A request that begins leaves every unused tag in some request's hands.  *)
LEMMA AsksHandled ==
    ASSUME G!TagConstants, G!TagTypeOK, Handled, NEW r \in Requests, G!AsksTags(r)
    PROVE  Handled'
<1>0. OthersKeep(r)
  BY AsksTagTypes
<1>1. at[r] = "idle"
  BY DEF G!AsksTags, G!AskEdit, G!AskBulk, G!AskUndoBulk, G!DeleteTag, G!RenameTag, G!Asks
<1>2. \A i : ~WillLink(r, i) /\ ~WillPrune(r, i)
  BY <1>1 DEF WillLink, WillPrune
<1> USE DEF G!tagStore, G!Relinks, G!Excuses
<1>3. excused \subseteq excused'
  BY DEF G!AsksTags, G!AskEdit, G!AskBulk, G!AskUndoBulk, G!DeleteTag, G!RenameTag
<1>4. ASSUME UNCHANGED <<nameOf, links>> PROVE Handled'
  <2> SUFFICES ASSUME NEW i \in G!Unused' PROVE InHand(i)'
    BY DEF Handled
  <2>1. i \in G!Unused
    BY <1>4 DEF G!Unused, G!Stored
  <2> QED BY <1>0, <1>2, <1>3, <1>4, <2>1, StaysInHand
<1>5. ASSUME NEW k \in G!Stored, G!DeleteTag(r, k) PROVE Handled'
  <2> SUFFICES ASSUME NEW i \in G!Unused' PROVE InHand(i)'
    BY DEF Handled
  <2>1. nameOf' = [nameOf EXCEPT ![k] = NoName] /\ links' = {l \in links : l[2] # k}
    BY <1>5 DEF G!DeleteTag
  <2>2. i \in G!Unused /\ nameOf'[i] = nameOf[i]
    BY <2>1 DEF G!Unused, G!Stored, G!TagTypeOK
  <2> QED BY <1>0, <1>2, <1>3, <2>2, StaysInHand
<1>6. ASSUME NEW k \in G!Stored, NEW n \in Names, G!RenameTag(r, k, n) PROVE Handled'
  <2> SUFFICES ASSUME NEW i \in G!Unused' PROVE InHand(i)'
    BY DEF Handled
  <2>1. i = k => i \in excused' \/ UNCHANGED nameOf
    BY <1>6 DEF G!RenameTag
  <2>2. i # k \/ UNCHANGED nameOf => i \in G!Unused /\ nameOf'[i] = nameOf[i]
    BY <1>6 DEF G!RenameTag, G!Unused, G!Stored, G!TagTypeOK
  <2>3. CASE i \in excused'
    BY <2>3 DEF InHand
  <2> QED BY <1>0, <1>2, <1>3, <2>1, <2>2, <2>3, StaysInHand
<1> QED BY <1>4, <1>5, <1>6 DEF G!AsksTags, G!AskEdit, G!AskBulk, G!AskUndoBulk

(* An attempt that ends takes the request back to its names, or excuses    *)
(* them.                                                                   *)
LEMMA RetryHandled ==
    ASSUME G!TagTypeOK, NEW r \in Requests, NEW i \in G!Unused, G!Retry(r) \/ G!Throw(r),
           at[r] # "prune", UNCHANGED <<nameOf, names>>, WillLink(r, i) \/ WillPrune(r, i)
    PROVE  i \in excused' \/ WillLink(r, i)'
<1>1. i \in G!Named(names[r])
  BY DEF G!Named, G!Unused, WillLink, WillPrune
<1>2. CASE G!Excuses(G!Named(names[r]))
  BY <1>1, <1>2 DEF G!Excuses
<1>3. CASE at'[r] = "resolve" /\ selected'[r] = {} /\ resolved'[r] = {}
  BY <1>3 DEF WillLink, WillPrune
<1> QED BY <1>2, <1>3 DEF G!Retry, G!Throw, G!Step, G!TagTypeOK

(* A request that goes on leaves every unused tag in some request's hands. *)
LEMMA RunsHandled ==
    ASSUME G!TagConstants, G!TagTypeOK, NEW r \in Requests, Tagged(r), Naming, Handled,
           G!RunsTags(r)
    PROVE  Handled'
<1> SUFFICES ASSUME NEW i \in G!Unused' PROVE InHand(i)'
  BY DEF Handled
<1>0. OthersKeep(r)
  BY RunsTagTypes
<1> USE DEF G!tagStore, G!progress, G!history
<1>00. excused \subseteq excused'
  BY DEF G!RunsTags, G!Select, G!Update, G!Insert, G!Resolves, G!InsertAgain, G!Vanish, G!ReadLinks,
         G!CountTags, G!InsertLinks, G!LinkExists, G!LinkDangles, G!Recheck, G!RemoveLinks, G!Prune,
         G!Break, G!Retry, G!Throw, G!Excuses
<1> DEFINE Kept == WillLink(r, i) \/ WillPrune(r, i) =>
                      i \in excused' \/ WillLink(r, i)' \/ WillPrune(r, i)'
<1>01. i \in G!Unused /\ nameOf'[i] = nameOf[i] /\ Kept => InHand(i)'
  BY <1>0, <1>00, StaysInHand
<1>02. UNCHANGED <<nameOf, links>> => i \in G!Unused /\ nameOf'[i] = nameOf[i]
  BY DEF G!Unused, G!Stored
<1>1. ASSUME NEW n \in names[r], G!Select(r, n) PROVE InHand(i)'
  <2> DEFINE F == {<<n, k>> : k \in IF G!Named({n}) = {} THEN {0} ELSE G!Named({n})}
  <2>1. at[r] = "resolve" /\ UNCHANGED <<at, names, resolved, nameOf, links>>
        /\ selected'[r] = selected[r] \cup F
    BY <1>1 DEF G!Select, G!TagTypeOK
  <2>2. ASSUME NEW x \in F, x[1] = nameOf[i] PROVE x[2] \in {0, i}
    <3>1. x[2] \in G!Named({n}) \cup {0} /\ nameOf[i] = n
      BY <2>2
    <3>2. i \in G!Stored
      BY <1>02, <2>1 DEF G!Unused
    <3> QED BY <3>1, <3>2 DEF G!Named, Naming
  <2> HIDE DEF F
  <2>3. Kept
    BY <2>1, <2>2 DEF WillLink, WillPrune
  <2> QED BY <1>01, <1>02, <2>1, <2>3
<1>2. ASSUME NEW x \in selected[r], G!Update(r, x) PROVE InHand(i)'
  <2>1. at[r] = "resolve" /\ UNCHANGED <<at, names, nameOf, links>>
        /\ selected'[r] = selected[r] \ {x} /\ resolved'[r] = resolved[r] \cup {<<x[1], x[2]>>}
    BY <1>2 DEF G!Update, G!Resolves, G!TagTypeOK, Tagged, Resolving
  <2>2. x = <<x[1], x[2]>>
    BY DEF G!TagTypeOK
  <2>3. Kept
    BY <2>1, <2>2 DEF WillLink, WillPrune
  <2> QED BY <1>01, <1>02, <2>1, <2>3
<1>3. ASSUME NEW x \in selected[r], G!Insert(r, x) PROVE InHand(i)'
  <2>1. /\ at[r] = "resolve" /\ UNCHANGED <<at, names, links>>
        /\ selected'[r] = selected[r] \ {x} /\ resolved'[r] = resolved[r] \cup {<<x[1], made + 1>>}
        /\ nameOf' = [nameOf EXCEPT ![made + 1] = x[1]] /\ x[1] \in names[r]
        /\ made + 1 \in G!Tags
    BY <1>3 DEF G!Insert, G!Resolves, G!TagTypeOK, Tagged, Resolving, G!Tags, G!TagConstants
  <2>2. CASE i = made + 1
    <3>1. nameOf'[i] = x[1]
      BY <2>1, <2>2 DEF G!TagTypeOK
    <3>2. ASSUME NEW y \in selected'[r] \cup resolved'[r], y[1] = x[1] PROVE y[2] = i
      BY <2>1, <2>2, <3>2 DEF Tagged, Resolving
    <3>3. WillLink(r, i)'
      BY <2>1, <3>1, <3>2 DEF WillLink
    <3> QED BY <3>3 DEF InHand
  <2>3. CASE i # made + 1
    <3>1. nameOf'[i] = nameOf[i] /\ i \in G!Unused
      BY <2>1, <2>3 DEF G!Unused, G!Stored, G!TagTypeOK
    <3>2. nameOf[i] # x[1]
      BY <1>3, <3>1 DEF G!Insert, G!Named, G!Unused
    <3>3. Kept
      BY <2>1, <3>1, <3>2 DEF WillLink, WillPrune
    <3> QED BY <1>01, <3>1, <3>3
  <2> QED BY <2>2, <2>3
<1>4. ASSUME NEW x \in selected[r], G!InsertAgain(r, x) PROVE InHand(i)'
  <2>1. at[r] = "resolve" /\ UNCHANGED <<at, names, resolved, nameOf, links>>
        /\ selected'[r] = selected[r] \ {x}
    BY <1>4 DEF G!InsertAgain, G!TagTypeOK, Tagged, Resolving
  <2>2. Kept
    BY <2>1 DEF WillLink, WillPrune
  <2> QED BY <1>01, <1>02, <2>1, <2>2
<1>5. ASSUME G!Retry(r) \/ G!Throw(r), at[r] \in {"resolve", "insert", "recheck"},
             UNCHANGED <<nameOf, links, names>>
      PROVE  InHand(i)'
  <2>1. i \in G!Unused /\ nameOf'[i] = nameOf[i]
    BY <1>02, <1>5
  <2>2. Kept
    BY <1>5, <2>1, RetryHandled
  <2> QED BY <1>01, <2>1, <2>2
<1>6. ASSUME NEW x \in selected[r], G!Vanish(r, x) PROVE InHand(i)'
  BY <1>5, <1>6 DEF G!Vanish, Tagged, Resolving
<1>7. CASE G!ReadLinks(r)
  <2>1. at[r] = "resolve" /\ UNCHANGED <<nameOf, links, task, targets, names, selected, resolved>>
        /\ {x[1] : x \in resolved[r]} = names[r]
    BY <1>7 DEF G!ReadLinks
  <2>2. i \in G!Unused /\ nameOf'[i] = nameOf[i]
    BY <1>02, <2>1
  <2>3. ASSUME WillLink(r, i) PROVE WillLink(r, i)'
    <3>1. PICK x \in resolved[r] : x[1] = nameOf[i]
      BY <2>1, <2>3 DEF WillLink
    <3>2. x[2] \in G!Tags /\ x[2] \in {0, i}
      BY <2>1, <2>3, <3>1 DEF WillLink, G!TagTypeOK
    <3>3. i \in G!Chosen(r)
      BY <3>2 DEF G!Chosen, G!Tags
    <3>4. \A t \in Transactions : <<t, i>> \notin links
      BY <2>2 DEF G!Unused
    <3>5. PICK t \in targets[r] : t \in Transactions
      BY <2>1 DEF Tagged, Placed, G!TagTypeOK
    <3>6. <<t, i>> \in G!Wanted(r) /\ <<t, i>> \notin links
      BY <3>3, <3>4, <3>5 DEF G!Wanted
    <3>7. at'[r] \in {"insert", "count"}
      BY <1>7, <3>6 DEF G!ReadLinks, G!Step, G!After, G!TagTypeOK
    <3>8. read'[r] \subseteq links
      BY <1>7 DEF G!ReadLinks, G!OfTransactions, G!TagTypeOK
    <3>9. i \notin G!TagsIn(read'[r])
      <4> SUFFICES ASSUME NEW l \in read'[r], l[2] = i PROVE FALSE
        BY DEF G!TagsIn
      <4>1. l \in Transactions \X G!Tags
        BY <3>8 DEF G!TagTypeOK, G!Links
      <4> QED BY <3>4, <3>8, <4>1
    <3>10. G!Chosen(r)' = G!Chosen(r) /\ G!TagsIn(read[r])' = G!TagsIn(read'[r])
      BY <2>1 DEF G!Chosen, G!TagsIn
    <3> QED BY <2>1, <2>2, <2>3, <3>3, <3>7, <3>9, <3>10 DEF WillLink
  <2>4. Kept
    BY <2>1, <2>3 DEF WillPrune
  <2> QED BY <1>01, <2>2, <2>4
<1>8. CASE G!CountTags(r)
  <2>1. at[r] = "count" /\ UNCHANGED <<nameOf, links, names, resolved, read>>
    BY <1>8 DEF G!CountTags
  <2>2. i \in G!Unused /\ nameOf'[i] = nameOf[i]
    BY <1>02, <2>1
  <2>3. at'[r] = "insert" \/ G!Excuses(G!Named(names[r]))
    BY <1>8 DEF G!CountTags, G!Step, G!TagTypeOK
  <2>4. Kept
    BY <2>1, <2>2, <2>3
       DEF WillLink, WillPrune, G!Excuses, G!Named, G!Unused, G!Chosen, G!TagsIn
  <2> QED BY <1>01, <2>2, <2>4
<1>9. CASE G!InsertLinks(r)
  <2>1. at[r] = "insert" /\ UNCHANGED nameOf /\ links' = links \cup G!Added(r)
    BY <1>9 DEF G!InsertLinks, G!Relinks
  <2>2. i \in G!Unused /\ nameOf'[i] = nameOf[i] /\ \A t \in Transactions : <<t, i>> \notin links'
    BY <2>1 DEF G!Unused, G!Stored
  <2>3. ~WillLink(r, i)
    <3> SUFFICES ASSUME i \in G!Chosen(r), i \notin G!TagsIn(read[r]) PROVE FALSE
      BY <2>1 DEF WillLink
    <3>1. PICK t \in targets[r] : t \in Transactions
      BY <2>1 DEF Tagged, Placed, G!TagTypeOK
    <3>2. <<t, i>> \in G!Wanted(r) /\ <<t, i>> \notin read[r]
      BY <3>1 DEF G!Wanted, G!TagsIn
    <3> QED BY <2>1, <2>2, <3>1, <3>2 DEF G!Added
  <2>4. Kept
    BY <2>1, <2>3 DEF WillPrune
  <2> QED BY <1>01, <2>2, <2>4
<1>10. CASE G!LinkExists(r)
  BY <1>5, <1>10 DEF G!LinkExists
<1>11. CASE G!LinkDangles(r)
  <2>1. at[r] = "insert" /\ UNCHANGED <<nameOf, links, names, read>>
    BY <1>11 DEF G!LinkDangles
  <2>2. CASE G!Retry(r)
    BY <1>5, <2>1, <2>2
  <2>3. CASE G!Step(r, "recheck") /\ UNCHANGED resolved
    <3>1. at'[r] = "recheck" /\ UNCHANGED resolved
      BY <2>3 DEF G!Step, G!TagTypeOK
    <3>2. Kept
      BY <2>1, <3>1 DEF WillLink, WillPrune, G!Chosen
    <3> QED BY <1>01, <1>02, <2>1, <3>2
  <2> QED BY <1>11, <2>2, <2>3 DEF G!LinkDangles
<1>12. CASE G!Recheck(r)
  BY <1>5, <1>12 DEF G!Recheck
<1>13. CASE G!RemoveLinks(r)
  <2>1. at[r] = "remove" /\ at'[r] = "prune" /\ links' = links \ G!Removed(r)
        /\ UNCHANGED <<nameOf, targets, resolved, read>>
    BY <1>13 DEF G!RemoveLinks, G!Relinks, G!Step, G!After, G!TagTypeOK
  <2>2. CASE i \in G!Unused
    <3>1. Kept
      BY <2>1 DEF WillLink, WillPrune
    <3> QED BY <1>01, <2>1, <2>2, <3>1
  <2>3. CASE i \notin G!Unused
    <3>1. PICK t \in Transactions : <<t, i>> \in links /\ <<t, i>> \notin links'
      BY <2>1, <2>3 DEF G!Unused, G!Stored
    <3>2. <<t, i>> \in G!Removed(r)
      BY <2>1, <3>1
    <3>3. G!Removed(r)' = G!Removed(r)
      BY <2>1 DEF G!Removed, G!Wanted, G!Chosen
    <3>4. WillPrune(r, i)'
      BY <2>1, <3>2, <3>3 DEF WillPrune, G!TagsIn
    <3> QED BY <3>4 DEF InHand
  <2> QED BY <2>2, <2>3
<1>14. CASE G!Prune(r)
  <2>1. at[r] = "prune" /\ UNCHANGED links
        /\ nameOf' = [k \in G!Tags |-> IF k \in G!Prunable(r) THEN NoName ELSE nameOf[k]]
    BY <1>14 DEF G!Prune
  <2>2. i \in G!Unused /\ nameOf'[i] = nameOf[i] /\ i \notin G!Prunable(r)
    BY <2>1 DEF G!Unused, G!Stored
  <2>3. ~WillPrune(r, i)
    BY <2>2 DEF WillPrune, G!Prunable
  <2>4. Kept
    BY <2>1, <2>3 DEF WillLink
  <2> QED BY <1>01, <2>2, <2>4
<1>15. CASE G!Break(r)
  <2>1. /\ UNCHANGED <<nameOf, links>>
        /\ excused' = excused \cup G!Named(names[r]) \cup G!TagsIn(read[r])
    BY <1>15 DEF G!Break, G!Excuses
  <2>2. i \in G!Unused /\ nameOf'[i] = nameOf[i]
    BY <1>02, <2>1
  <2>3. WillLink(r, i) => i \in excused'
    BY <2>1, <2>2 DEF WillLink, G!Named, G!Unused
  <2>4. WillPrune(r, i) => i \in excused'
    BY <2>1 DEF WillPrune, G!Removed, G!TagsIn
  <2> QED BY <1>01, <2>2, <2>3, <2>4
<1> QED BY <1>1, <1>2, <1>3, <1>4, <1>6, <1>7, <1>8, <1>9, <1>10, <1>11, <1>12, <1>13, <1>14,
           <1>15
        DEF G!RunsTags

-----------------------------------------------------------------------------
(* A transaction's tags are finitely many.                                 *)
LEMMA FiniteTags ==
    ASSUME G!TagConstants, NEW S \in SUBSET G!Tags
    PROVE  IsFiniteSet(S) /\ Cardinality(S) \in Nat
<1>1. IsFiniteSet(G!Tags)
  BY FS_Interval DEF G!TagConstants, G!Tags
<1>2. IsFiniteSet(S)
  BY <1>1, FS_Subset
<1> QED BY <1>2, FS_CardinalityType

(* A request resolves no more tags than it has names.                      *)
LEMMA ChosenFew ==
    ASSUME G!TagConstants, G!TagTypeOK, NEW r \in Requests, Resolving(r)
    PROVE  G!Chosen(r) \in SUBSET G!Tags /\ Cardinality(G!Chosen(r)) <= Cardinality(names[r])
<1> DEFINE N == {x[1] : x \in resolved[r]}
           f == [n \in N |-> (CHOOSE x \in resolved[r] : x[1] = n)[2]]
<1>1. \A x \in resolved[r] : f[x[1]] = x[2]
  <2> SUFFICES ASSUME NEW x \in resolved[r] PROVE f[x[1]] = x[2]
    OBVIOUS
  <2>1. (CHOOSE y \in resolved[r] : y[1] = x[1]) = x
    BY DEF Resolving
  <2> QED BY <2>1
<1>2. G!Chosen(r) \in SUBSET G!Tags
  BY DEF G!Chosen, G!TagTypeOK
<1>3. N \in SUBSET names[r] /\ IsFiniteSet(names[r])
  <2>1. IsFiniteSet(Names) /\ names[r] \in SUBSET Names
    BY SameTagSizes DEF G!TagConstants, G!TagTypeOK
  <2> QED BY <2>1, FS_Subset DEF Resolving
<1>4. IsFiniteSet(N) /\ Cardinality(N) <= Cardinality(names[r])
      /\ Cardinality(N) \in Nat /\ Cardinality(names[r]) \in Nat
  <2> HIDE DEF N
  <2> QED BY <1>3, FS_Subset, FS_CardinalityType
<1>5. f \in Surjection(N, G!Chosen(r))
  <2>1. f \in [N -> G!Chosen(r)]
    <3> SUFFICES ASSUME NEW n \in N PROVE f[n] \in G!Chosen(r)
      OBVIOUS
    <3>1. PICK x \in resolved[r] : n = x[1]
      OBVIOUS
    <3> QED BY <1>1, <3>1 DEF G!Chosen
  <2>2. \A i \in G!Chosen(r) : \E n \in N : f[n] = i
    <3> SUFFICES ASSUME NEW i \in G!Chosen(r) PROVE \E n \in N : f[n] = i
      OBVIOUS
    <3>1. PICK x \in resolved[r] : x[2] = i
      BY DEF G!Chosen
    <3>2. x[1] \in N /\ f[x[1]] = i
      BY <1>1, <3>1
    <3> HIDE DEF N, f
    <3> QED BY <3>2
  <2> HIDE DEF N, f
  <2> QED BY <2>1, <2>2 DEF Surjection
<1>6. Cardinality(G!Chosen(r)) <= Cardinality(N)
  <2> HIDE DEF N, f
  <2> QED BY <1>4, <1>5, FS_Surjection
<1>7. Cardinality(G!Chosen(r)) \in Nat
  BY <1>2, FiniteTags
<1> QED BY <1>2, <1>4, <1>6, <1>7

(* A transaction that gains no tag stays within the cap, or excused.       *)
LEMMA StaysCapped ==
    ASSUME G!TagConstants, G!TagTypeOK, Capped, NEW t \in present,
           G!TagsOf(t)' \subseteq G!TagsOf(t),
           \A q \in Requests : Excess(t, q) => Excess(t, q)'
    PROVE  Cardinality(G!TagsOf(t))' <= MaxTags \/ \E q \in Requests : Excess(t, q)'
<1>1. CASE \E q \in Requests : Excess(t, q)
  BY <1>1
<1>2. CASE Cardinality(G!TagsOf(t)) <= MaxTags
  <2>1. G!TagsOf(t) \in SUBSET G!Tags
    BY DEF G!TagsOf
  <2>2. /\ IsFiniteSet(G!TagsOf(t)) /\ Cardinality(G!TagsOf(t)) \in Nat
        /\ Cardinality(G!TagsOf(t)') \in Nat
    BY <2>1, FiniteTags
  <2>3. Cardinality(G!TagsOf(t)') <= Cardinality(G!TagsOf(t))
    BY <2>2, FS_Subset
  <2>4. MaxTags \in Nat /\ Cardinality(G!TagsOf(t))' = Cardinality(G!TagsOf(t)')
    BY DEF G!TagConstants
  <2>5. Cardinality(G!TagsOf(t)') <= MaxTags
    BY <1>2, <2>2, <2>3, <2>4
  <2> QED BY <2>4, <2>5
<1> QED BY <1>1, <1>2 DEF Capped

(* Another's excess stays.                                                 *)
LEMMA ExcessStays ==
    ASSUME NEW r \in Requests, OthersKeep(r), Tells, NEW t, NEW q \in Requests \ {r}, Excess(t, q)
    PROVE  Excess(t, q)'
<1>1. at'[q] = at[q] /\ task'[q] = task[q] /\ targets'[q] = targets[q]
  BY DEF OthersKeep
<1>2. disturbed \subseteq disturbed'
  BY DEF Tells
<1> QED BY <1>1, <1>2 DEF Excess

LEMMA AsksCapped ==
    ASSUME G!TagConstants, G!TagTypeOK, NEW r \in Requests, Tagged(r), Capped, G!AsksTags(r)
    PROVE  Capped'
<1>1. OthersKeep(r) /\ Tells
  BY AsksTagTypes, StepsTell
<1>2. at[r] = "idle" /\ links' \subseteq links /\ UNCHANGED present
  BY DEF G!AsksTags, G!AskEdit, G!AskBulk, G!AskUndoBulk, G!DeleteTag, G!RenameTag, G!Asks,
         G!Relinks, G!tagStore
<1>3. \A t : ~Excess(t, r)
  BY <1>2 DEF Excess, Tagged, Bounded
<1>4. \A t : G!TagsOf(t)' \subseteq G!TagsOf(t)
  BY <1>2 DEF G!TagsOf
<1> QED BY <1>1, <1>2, <1>3, <1>4, ExcessStays, StaysCapped DEF Capped

(* A request that goes on takes no transaction past the cap but with an    *)
(* edit that has still to remove, or when it was overtaken.                *)
LEMMA RunsCapped ==
    ASSUME G!TagConstants, G!TagTypeOK, NEW r \in Requests, Tagged(r), Capped, G!RunsTags(r)
    PROVE  Capped'
<1> USE DEF G!tagStore, G!progress, G!history
<1>1. OthersKeep(r) /\ Tells /\ UNCHANGED <<present, task, targets, names>>
  <2>1. UNCHANGED <<present, task, targets, names>>
    BY DEF G!RunsTags, G!Select, G!Update, G!Insert, G!Resolves, G!InsertAgain, G!Vanish, G!ReadLinks,
           G!CountTags, G!InsertLinks, G!LinkExists, G!LinkDangles, G!Recheck, G!RemoveLinks, G!Prune,
           G!Break
  <2> QED BY <2>1, RunsTagTypes, StepsTell
<1> SUFFICES ASSUME NEW t \in present
             PROVE  Cardinality(G!TagsOf(t))' <= MaxTags \/ \E q \in Requests : Excess(t, q)'
  BY <1>1 DEF Capped
<1>2. ASSUME G!TagsOf(t)' \subseteq G!TagsOf(t), Excess(t, r) => Excess(t, r)'
      PROVE  Cardinality(G!TagsOf(t))' <= MaxTags \/ \E q \in Requests : Excess(t, q)'
  BY <1>1, <1>2, ExcessStays, StaysCapped
<1>3. r \in disturbed /\ t \in targets[r] => Excess(t, r)'
  BY <1>1 DEF Tells, Excess
<1>4. ASSUME UNCHANGED links, at[r] \notin {"remove", "halfway"}
      PROVE  Cardinality(G!TagsOf(t))' <= MaxTags \/ \E q \in Requests : Excess(t, q)'
  <2>1. G!TagsOf(t)' \subseteq G!TagsOf(t)
    BY <1>4 DEF G!TagsOf
  <2>2. Excess(t, r) => Excess(t, r)'
    BY <1>3, <1>4 DEF Excess
  <2> QED BY <1>2, <2>1, <2>2
<1>5. CASE G!InsertLinks(r)
  <2>1. at[r] = "insert" /\ links' = links \cup G!Added(r)
    BY <1>5 DEF G!InsertLinks, G!Relinks
  <2>2. Excess(t, r) => Excess(t, r)'
    BY <1>3, <2>1 DEF Excess
  <2>3. CASE \A l \in G!Added(r) : l[1] # t
    <3>1. G!TagsOf(t)' \subseteq G!TagsOf(t)
      BY <2>1, <2>3 DEF G!TagsOf
    <3> QED BY <1>2, <2>2, <3>1
  <2>4. ASSUME NEW l \in G!Added(r), l[1] = t
        PROVE  Cardinality(G!TagsOf(t))' <= MaxTags \/ \E q \in Requests : Excess(t, q)'
    <3>1. t \in targets[r]
      BY <2>4 DEF G!Added, G!Wanted
    <3>2. CASE task[r] = "edit"
      <4>1. at'[r] = "remove"
        BY <1>5, <3>2 DEF G!InsertLinks, G!Inserted, G!After, G!Step, G!TagTypeOK
      <4> QED BY <1>1, <3>1, <3>2, <4>1 DEF Excess
    <3>3. CASE r \in disturbed
      BY <1>3, <3>1, <3>3
    <3>4. CASE task[r] # "edit" /\ r \notin disturbed
      <4>1. task[r] = "bulk" /\ ~G!OverCap(r)
        BY <2>1, <3>4 DEF Tagged, Placed, UpToDate
      <4>2. ~(Cardinality(G!TagsOf(t)) >= MaxTags)
        BY <2>4, <4>1, SameTagSizes DEF G!OverCap
      <4>3. \A i, j \in G!Chosen(r) : i = j
        BY <4>1 DEF G!Chosen, Tagged, Resolving, Bounded
      <4>4. PICK i \in G!Chosen(r) : G!Chosen(r) = {i}
        BY <2>4, <4>3 DEF G!Added, G!Wanted
      <4>5. G!TagsOf(t)' \subseteq G!TagsOf(t) \cup {i}
        BY <2>1, <4>4 DEF G!TagsOf, G!Added, G!Wanted
      <4>6. /\ G!TagsOf(t) \in SUBSET G!Tags /\ G!TagsOf(t)' \in SUBSET G!Tags
            /\ G!TagsOf(t) \cup {i} \in SUBSET G!Tags
        BY <4>4, ChosenFew DEF G!TagsOf, Tagged
      <4>7. /\ IsFiniteSet(G!TagsOf(t)) /\ Cardinality(G!TagsOf(t)) \in Nat
            /\ Cardinality(G!TagsOf(t)') \in Nat
            /\ IsFiniteSet(G!TagsOf(t) \cup {i}) /\ Cardinality(G!TagsOf(t) \cup {i}) \in Nat
        BY <4>6, FiniteTags
      <4>8. Cardinality(G!TagsOf(t)') <= Cardinality(G!TagsOf(t) \cup {i})
        BY <4>5, <4>7, FS_Subset
      <4>9. Cardinality(G!TagsOf(t) \cup {i}) <= Cardinality(G!TagsOf(t)) + 1
        <5>1. i \in G!TagsOf(t) => G!TagsOf(t) \cup {i} = G!TagsOf(t)
          OBVIOUS
        <5>2. i \notin G!TagsOf(t) => Cardinality(G!TagsOf(t) \cup {i}) = Cardinality(G!TagsOf(t)) + 1
          BY <4>7, FS_AddElement
        <5> QED BY <4>7, <5>1, <5>2
      <4>10. MaxTags \in Nat
        BY DEF G!TagConstants
      <4>11. Cardinality(G!TagsOf(t)') <= MaxTags
        BY <4>2, <4>7, <4>8, <4>9, <4>10
      <4> QED BY <4>11
    <3> QED BY <3>2, <3>3, <3>4
  <2> QED BY <2>3, <2>4
<1>6. CASE G!RemoveLinks(r)
  <2>1. at[r] = "remove" /\ links' = links \ G!Removed(r)
    BY <1>6 DEF G!RemoveLinks, G!Relinks
  <2>2. G!TagsOf(t)' \subseteq G!TagsOf(t)
    BY <2>1 DEF G!TagsOf
  <2>3. CASE r \in disturbed \/ t \notin targets[r] \/ task[r] # "edit"
    BY <1>2, <1>3, <2>2, <2>3 DEF Excess
  <2>4. CASE r \notin disturbed /\ t \in targets[r] /\ task[r] = "edit"
    <3>1. G!OfTransactions(targets[r]) = read[r] \cup G!Wanted(r)
      BY <2>1, <2>4 DEF Tagged, UpToDate
    <3>2. G!TagsOf(t)' \subseteq G!Chosen(r)
      <4> SUFFICES ASSUME NEW i \in G!Tags, <<t, i>> \in links' PROVE i \in G!Chosen(r)
        BY DEF G!TagsOf
      <4>1. <<t, i>> \in G!OfTransactions(targets[r]) /\ <<t, i>> \notin G!Removed(r)
        BY <2>1, <2>4 DEF G!OfTransactions
      <4>2. <<t, i>> \in G!Wanted(r)
        BY <3>1, <4>1 DEF G!Removed
      <4> QED BY <4>2 DEF G!Wanted
    <3>3. G!Chosen(r) \in SUBSET G!Tags /\ Cardinality(G!Chosen(r)) <= Cardinality(names[r])
      BY ChosenFew DEF Tagged
    <3>4. Cardinality(names[r]) <= MaxTags /\ Cardinality(names[r]) \in Nat /\ MaxTags \in Nat
      <4>1. IsFiniteSet(Names) /\ names[r] \in SUBSET Names
        BY SameTagSizes DEF G!TagConstants, G!TagTypeOK
      <4> QED BY <2>4, <4>1, FS_Subset, FS_CardinalityType DEF G!TagConstants, Tagged, Bounded
    <3>5. IsFiniteSet(G!Chosen(r)) /\ Cardinality(G!Chosen(r)) \in Nat /\ Cardinality(G!TagsOf(t)') \in Nat
      BY <3>2, <3>3, FiniteTags
    <3>6. Cardinality(G!TagsOf(t)') <= Cardinality(G!Chosen(r))
      BY <3>2, <3>5, FS_Subset
    <3>7. Cardinality(G!TagsOf(t)') <= MaxTags
      BY <3>3, <3>4, <3>5, <3>6
    <3> QED BY <3>7
  <2> QED BY <2>3, <2>4
<1>7. ASSUME NEW n, G!Select(r, n)
      PROVE  Cardinality(G!TagsOf(t))' <= MaxTags \/ \E q \in Requests : Excess(t, q)'
  BY <1>4, <1>7 DEF G!Select
<1>8. ASSUME NEW x \in selected[r],
             G!Update(r, x) \/ G!Insert(r, x) \/ G!InsertAgain(r, x) \/ G!Vanish(r, x)
      PROVE  Cardinality(G!TagsOf(t))' <= MaxTags \/ \E q \in Requests : Excess(t, q)'
  <2>1. at[r] = "resolve"
    BY DEF Tagged, Resolving
  <2> QED BY <1>4, <1>8, <2>1 DEF G!Update, G!Insert, G!Resolves, G!InsertAgain, G!Vanish
<1>9. CASE G!ReadLinks(r) \/ G!CountTags(r) \/ G!LinkExists(r) \/ G!LinkDangles(r) \/ G!Recheck(r)
           \/ G!Prune(r)
  BY <1>4, <1>9 DEF G!ReadLinks, G!CountTags, G!LinkExists, G!LinkDangles, G!Recheck, G!Prune
<1>10. CASE G!Break(r)
  <2>1. UNCHANGED links /\ (at[r] = "remove" => at'[r] = "halfway") /\ at[r] # "halfway"
    BY <1>10 DEF G!Break, G!Step, G!TagTypeOK
  <2>2. G!TagsOf(t)' \subseteq G!TagsOf(t)
    BY <2>1 DEF G!TagsOf
  <2>3. Excess(t, r) => Excess(t, r)'
    BY <1>1, <1>3, <2>1 DEF Excess
  <2> QED BY <1>2, <2>2, <2>3
<1> QED BY <1>5, <1>6, <1>7, <1>8, <1>9, <1>10 DEF G!RunsTags

-----------------------------------------------------------------------------
(* A deletion keeps the invariant: it excuses the tags it leaves unused.   *)
LEMMA CascadeTagIInv ==
    ASSUME G!TagConstants, TagIInv, NEW S \in SUBSET Transactions, present' = present \ S,
           G!Cascade(S)
    PROVE  TagIInv'
<1> USE DEF G!progress
<1>1. G!TagTypeOK /\ G!TagTypeOK' /\ Tells
  BY CascadeTypes, RelinksTell DEF TagIInv, G!Cascade
<1>2. /\ UNCHANGED <<nameOf, made, task, at, targets, names, selected, resolved, read, unlinked>>
      /\ links' = {l \in links : l[1] \notin S}
      /\ excused' = excused \cup G!TagsIn(G!OfTransactions(S))
  BY DEF G!Cascade, G!Excuses, G!Relinks
<1>3. \A r \in Requests : Tagged(r)'
  BY <1>1, <1>2, FrameTagged DEF TagIInv
<1>4. Naming'
  BY <1>2 DEF TagIInv, Naming, G!Stored
<1>5. ASSUME NEW i \in G!Unused' PROVE InHand(i)'
  <2>1. CASE i \in G!Unused
    <3>1. InHand(i)
      BY <2>1 DEF TagIInv, Handled
    <3>2. \A r \in Requests : /\ WillLink(r, i) => WillLink(r, i)'
                              /\ WillPrune(r, i) => WillPrune(r, i)'
      BY <1>2 DEF WillLink, WillPrune, G!Chosen, G!TagsIn, G!Removed, G!Wanted
    <3> QED BY <1>2, <3>1, <3>2 DEF InHand
  <2>2. CASE i \notin G!Unused
    <3>1. PICK t \in Transactions : <<t, i>> \in links /\ <<t, i>> \notin links'
      BY <1>2, <2>2 DEF G!Unused, G!Stored
    <3>2. <<t, i>> \in G!OfTransactions(S)
      BY <1>2, <3>1 DEF G!OfTransactions
    <3>3. i \in excused'
      BY <1>2, <3>2 DEF G!TagsIn
    <3> QED BY <3>3 DEF InHand
  <2> QED BY <2>1, <2>2
<1>6. Handled'
  BY <1>5 DEF Handled
<1>7. ASSUME NEW t \in present'
      PROVE  Cardinality(G!TagsOf(t))' <= MaxTags \/ \E q \in Requests : Excess(t, q)'
  <2>1. t \in present /\ G!TagsOf(t)' \subseteq G!TagsOf(t)
    BY <1>2 DEF G!TagsOf
  <2>2. disturbed \subseteq disturbed'
    BY <1>1 DEF Tells
  <2>3. \A q \in Requests : Excess(t, q) => Excess(t, q)'
    BY <1>2, <2>2 DEF Excess
  <2> QED BY <1>1, <2>1, <2>3, StaysCapped DEF TagIInv
<1> QED BY <1>1, <1>3, <1>4, <1>6, <1>7 DEF TagIInv, Capped

(* The tags at the start have different names.                             *)
LEMMA OldNames ==
    ASSUME G!TagConstants
    PROVE  /\ G!OldName \in [1 .. G!Cardinality(Names) -> Names]
           /\ \A i, j \in 1 .. G!Cardinality(Names) : i # j => G!OldName[i] # G!OldName[j]
<1>1. IsFiniteSet(Names) /\ G!Cardinality(Names) = Cardinality(Names)
  BY SameTagSizes DEF G!TagConstants
<1>2. PICK n \in Nat : ExistsBijection(1 .. n, Names)
  BY <1>1, FS_NatBijection
<1>3. n = Cardinality(Names)
  BY <1>2, FS_CountingElements
<1>4. PICK f : f \in Bijection(1 .. n, Names)
  BY <1>2 DEF ExistsBijection
<1>5. f \in [1 .. n -> Names] /\ \A i, j \in DOMAIN f : i # j => f[i] # f[j]
  BY <1>4 DEF Bijection, Injection, IsInjective
<1>6. \E g \in [1 .. G!Cardinality(Names) -> Names] : \A i, j \in DOMAIN g : i # j => g[i] # g[j]
  BY <1>1, <1>3, <1>5
<1>7. /\ G!OldName \in [1 .. G!Cardinality(Names) -> Names]
      /\ \A i, j \in DOMAIN G!OldName : i # j => G!OldName[i] # G!OldName[j]
  BY <1>6, Zenon DEF G!OldName
<1> QED BY <1>7

LEMMA InitTagIInv ==
    ASSUME G!TagConstants, present = Transactions, G!TagInit
    PROVE  TagIInv
<1> DEFINE N == G!Cardinality(Names)
<1>1. /\ N \in Nat /\ 1 .. N \subseteq G!Tags /\ OldLinks \subseteq Transactions \X (1 .. N)
      /\ NoName \notin Names /\ G!TagsIn(OldLinks) \subseteq 1 .. N
  <2>1. N \in Nat
    BY SameTagSizes, FS_CardinalityType DEF G!TagConstants
  <2>2. OldLinks \subseteq Transactions \X (1 .. N)
    BY DEF G!TagConstants
  <2>3. G!TagsIn(OldLinks) \subseteq 1 .. N
    BY <2>2 DEF G!TagsIn
  <2>4. 1 .. N \subseteq G!Tags
    BY <2>1 DEF G!TagConstants, G!Tags
  <2> QED BY <2>1, <2>2, <2>3, <2>4 DEF G!TagConstants
<1>2. /\ G!OldName \in [1 .. N -> Names]
      /\ \A i, j \in 1 .. N : i # j => G!OldName[i] # G!OldName[j]
  BY OldNames
<1> HIDE DEF N
<1>3. /\ links = OldLinks /\ made = N
      /\ nameOf = [i \in G!Tags |-> IF i \in G!TagsIn(OldLinks) THEN G!OldName[i] ELSE NoName]
  BY DEF G!TagInit, N
<1>4. G!TagTypeOK
  <2>1. nameOf \in [G!Tags -> Names \cup {NoName}]
    BY <1>1, <1>2, <1>3
  <2>2. links \in SUBSET G!Links
    BY <1>1, <1>3 DEF G!Links
  <2> QED BY <1>1, <1>3, <2>1, <2>2 DEF G!TagTypeOK, G!TagInit
<1>5. \A i \in G!Stored : i \in G!TagsIn(OldLinks) /\ nameOf[i] = G!OldName[i] /\ i \in 1 .. N
  BY <1>1, <1>3 DEF G!Stored
<1>6. Naming
  <2>1. \A i \in 1 .. N : i <= N
    BY <1>1
  <2>2. \A i \in G!Stored : i <= made
    BY <1>3, <1>5, <2>1
  <2>3. \A i, j \in G!Stored : nameOf[i] = nameOf[j] => i = j
    <3> SUFFICES ASSUME NEW i \in G!Stored, NEW j \in G!Stored, nameOf[i] = nameOf[j], i # j
                 PROVE  FALSE
      OBVIOUS
    <3> QED BY <1>2, <1>5
  <2> QED BY <2>2, <2>3 DEF Naming
<1>7. Handled
  <2> SUFFICES ASSUME NEW i \in G!Unused PROVE FALSE
    BY DEF Handled
  <2>1. PICK l \in OldLinks : l[2] = i
    BY <1>5 DEF G!Unused, G!TagsIn
  <2>2. l = <<l[1], i>> /\ l[1] \in Transactions
    BY <1>1, <2>1
  <2> QED BY <1>3, <2>2 DEF G!Unused
<1>8. ASSUME NEW r \in Requests PROVE Tagged(r)
  BY DEF G!TagInit, Tagged, Placed, Resolving, Bounded, UpToDate
<1>9. Capped
  <2> SUFFICES ASSUME NEW t \in Transactions PROVE Cardinality(G!TagsOf(t)) <= MaxTags
    BY DEF Capped
  <2>1. G!TagsOf(t) = {i \in 1 .. N : <<t, i>> \in OldLinks}
    BY <1>1, <1>3 DEF G!TagsOf
  <2>2. G!Cardinality({i \in 1 .. N : <<t, i>> \in OldLinks}) <= MaxTags
    BY DEF G!TagConstants, N
  <2> QED BY <2>1, <2>2, SameTagSizes
<1> QED BY <1>4, <1>6, <1>7, <1>8, <1>9 DEF TagIInv

(* The invariant survives every step.                                      *)
LEMMA NextTagIInv ==
    ASSUME G!TagConstants, TagIInv, [G!Next]_(G!vars)
    PROVE  TagIInv'
<1>1. CASE UNCHANGED G!vars
  <2>1. UNCHANGED <<present, nameOf, made, links, task, at, targets, names, selected, resolved, read,
                    try, given, unlinked, excused, disturbed>>
    BY <1>1 DEF G!vars, G!tagVars, G!tagStore, G!progress, G!history
  <2>2. G!TagTypeOK' /\ Tells
    BY <2>1, SameLinksTell DEF TagIInv, G!TagTypeOK
  <2>3. \A r \in Requests : Tagged(r)'
    BY <2>1, <2>2, FrameTagged DEF TagIInv
  <2>4. Naming' /\ Handled'
    BY <2>1 DEF TagIInv, Naming, Handled, InHand, WillLink, WillPrune, G!Unused, G!Stored, G!Chosen,
                G!TagsIn, G!Removed, G!Wanted
  <2>5. Capped'
    BY <2>1 DEF TagIInv, Capped, Excess, G!TagsOf
  <2> QED BY <2>2, <2>3, <2>4, <2>5 DEF TagIInv
<1>2. ASSUME NEW r \in Requests, G!AsksTags(r) \/ G!RunsTags(r) PROVE TagIInv'
  <2>1. G!TagTypeOK /\ G!TagTypeOK' /\ OthersKeep(r) /\ Tells
    BY <1>2, AsksTagTypes, RunsTagTypes, StepsTell DEF TagIInv
  <2>2. Tagged(r)'
    BY <1>2, <2>1, AsksTagged, RunsTagged DEF TagIInv
  <2>3. ASSUME NEW q \in Requests \ {r} PROVE Tagged(q)'
    BY <2>1, FrameTagged DEF TagIInv, OthersKeep
  <2>4. Naming'
    BY <1>2, NamingStep DEF TagIInv
  <2>5. Handled'
    BY <1>2, AsksHandled, RunsHandled DEF TagIInv
  <2>6. Capped'
    BY <1>2, AsksCapped, RunsCapped DEF TagIInv
  <2> QED BY <2>1, <2>2, <2>3, <2>4, <2>5, <2>6 DEF TagIInv
<1>3. ASSUME NEW S \in SUBSET present, present' = present \ S, G!Cascade(S) PROVE TagIInv'
  <2>1. S \in SUBSET Transactions
    BY DEF TagIInv, G!TagTypeOK
  <2> QED BY <1>3, <2>1, CascadeTagIInv
<1> QED BY <1>1, <1>2, <1>3 DEF G!Next

(* What Ledger does to the tags are steps of Tags.                         *)
LEMMA TagSteps == [Next]_vars => [G!Next]_(G!vars)
<1> SUFFICES ASSUME [Next]_vars PROVE [G!Next]_(G!vars)
  OBVIOUS
<1> USE DEF G!vars, G!tagVars, G!tagStore, G!progress, G!history, tagVars
<1>1. ASSUME NEW r \in Requests, Transact(r) PROVE [G!Next]_(G!vars)
  <2>1. CASE present' = present
    BY <1>1, <2>1 DEF Transact
  <2>2. CASE present' # present
    <3>1. present' \subseteq present
      BY <1>1, StoredChanges DEF Transact, T!Link, T!Commit, T!stored
    <3> DEFINE S == present \ present'
    <3>2. S \in SUBSET present /\ S # {} /\ present' = present \ S
      BY <2>2, <3>1
    <3>3. G!Cascade(S)
      BY <1>1, <2>2 DEF Transact
    <3> HIDE DEF S
    <3> QED BY <3>2, <3>3 DEF G!Next
  <2> QED BY <2>1, <2>2
<1>2. ASSUME NEW r \in Requests, Tag(r) PROVE G!Next
  BY <1>2 DEF Tag, G!Next
<1>3. ASSUME AllAnswered \/ UNCHANGED vars PROVE UNCHANGED G!vars
  BY <1>3 DEF AllAnswered, vars, ledgerVars
<1> QED BY <1>1, <1>2, <1>3 DEF Next

(* The tags of Ledger are those of Tags: to them a request about           *)
(* transactions is a deletion, or nothing.                                 *)
THEOREM LedgerKeepsTags == Spec => G!Spec
<1>1. Init => G!Init
  BY DEF Init, T!Init, G!Init
<1> QED BY <1>1, TagSteps, PTL DEF Spec, G!Spec

(* The inductive invariant holds in every state of every behaviour.        *)
LEMMA TagInvariant == Spec => []TagIInv
<1>1. Init => TagIInv
  BY InitTagIInv, ConstantsAssumption DEF Init, T!Init
<1>2. TagIInv /\ [Next]_vars => TagIInv'
  BY NextTagIInv, TagSteps, ConstantsAssumption
<1> QED BY <1>1, <1>2, PTL DEF Spec

-----------------------------------------------------------------------------
(* The type invariant of the tags.                                         *)
THEOREM TagTypes == Spec => []G!TagTypeOK
<1>1. TagIInv => G!TagTypeOK
  BY DEF TagIInv
<1> QED BY <1>1, TagInvariant, PTL

(* service.ts:279-283, 333-342.  In every interleaving, for any number of  *)
(* requests, a stored tag without transactions is in the hands of a        *)
(* request that will link or prune it, or something excuses it.            *)
THEOREM OrphansAreExplained == Spec => []OrphansExplained
<1>1. ASSUME TagIInv PROVE OrphansExplained
  <2> SUFFICES ASSUME NEW i \in G!Unused, i \notin excused
               PROVE  \E r \in Requests :
                        G!InFlight(r) /\ (nameOf[i] \in names[r] \/ i \in G!TagsIn(read[r]))
    BY DEF OrphansExplained, G!OrphansExplained
  <2>1. PICK r \in Requests : WillLink(r, i) \/ WillPrune(r, i)
    BY <1>1 DEF TagIInv, Handled, InHand
  <2>2. WillPrune(r, i) => i \in G!TagsIn(read[r])
    BY DEF WillPrune, G!TagsIn, G!Removed
  <2> QED BY <2>1, <2>2 DEF WillLink, WillPrune, G!InFlight, G!Broken
<1>2. TagIInv => OrphansExplained
  BY <1>1
<1> QED BY <1>2, TagInvariant, PTL

(* service.ts:295-297.  A request that fails at any attempt and any        *)
(* statement before the prune has removed no link.                         *)
THEOREM FailedEditsAreNoOps == Spec => []FailedEditsUnlinkNothing
<1>1. TagIInv => FailedEditsUnlinkNothing
  BY DEF TagIInv, Tagged, Placed, FailedEditsUnlinkNothing, G!FailedEditsUnlinkNothing
<1> QED BY <1>1, TagInvariant, PTL

(* service.ts:185-190, bulk.ts.  However edits, bulks, undos, renames and  *)
(* deletions interleave, and whatever statement throws, only an edit       *)
(* before its removal, or that broke there, or a request that another      *)
(* overtook, has a transaction past the cap.                               *)
THEOREM CapIsKept == Spec => []CapKeptUnlessRaced
<1>1. ASSUME TagIInv PROVE CapKeptUnlessRaced
  <2> SUFFICES ASSUME NEW t \in present
               PROVE  \/ G!Cardinality(G!TagsOf(t)) <= MaxTags
                      \/ \E r \in Requests :
                           t \in targets[r] /\ (r \in disturbed \/ at[r] \in {"remove", "halfway"})
    BY DEF CapKeptUnlessRaced, G!CapKeptUnlessRaced
  <2>1. Cardinality(G!TagsOf(t)) <= MaxTags \/ \E r \in Requests : Excess(t, r)
    BY <1>1 DEF TagIInv, Capped
  <2> QED BY <2>1, SameTagSizes DEF Excess
<1>2. TagIInv => CapKeptUnlessRaced
  BY <1>1
<1> QED BY <1>2, TagInvariant, PTL
=============================================================================
