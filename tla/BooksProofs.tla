----------------------------- MODULE BooksProofs ----------------------------
(* Theorems about the two halves of Books, the net worth requests first    *)
(* and then the imports, for every value of the constants that             *)
(* ConstantsAssumption admits.                                             *)
EXTENDS Books, Sequences, FiniteSetTheorems, WellFoundedInduction, TLAPS

-----------------------------------------------------------------------------
(* The inductive invariant.  A reconnection re-attaches the bucket it      *)
(* found, which is a bank's; and of the feeders of a line at most one was  *)
(* not re-attached while linked, which survives the unlinking of any of    *)
(* them where "some feeder was" does not.                                  *)

(* The types, without the range of the headlines: that a finite sequence   *)
(* has a newest element takes an induction.                                *)
WorthShape ==
    /\ link \in [W!Buckets -> W!Links]
    /\ attached \in [Banked -> BOOLEAN]
    /\ live \in [Lines -> BOOLEAN]
    /\ cash \in [Lines -> BOOLEAN]
    /\ headline = [l \in Lines |-> headline[l]]
    /\ snapshots \in [Lines -> Seq(W!Snapshot)]
    /\ now \in Nat
    /\ at \in [Requests -> W!Places]
    /\ line \in [Requests -> W!Links]
    /\ started \in [Requests -> Nat]
    /\ queue \in [Requests -> SUBSET Banked]
    /\ readLinks \in [Requests -> [Banked -> W!Links]]
    /\ found \in [Requests -> W!Buckets]
    /\ returned \subseteq Banked

FoundIsBanked == \A r \in Requests : at[r] = "attach" => found[r] \in Banked

OneOwn == \A l \in Lines : \A a, b \in W!Feeders(l) \ returned : a = b

WorthInv == WorthShape /\ FoundIsBanked /\ OneOwn /\ W!BankLinksStand /\ W!HeadlineIsNewest

(* The finite sets of the instance are the finite sets.                    *)
LEMMA SameSizes ==
    ASSUME NEW S
    PROVE  /\ W!Cardinality(S) = Cardinality(S)
           /\ W!IsFiniteSet(S) <=> IsFiniteSet(S)
<1>1. W!Cardinality(S) = Cardinality(S)
  BY DEF W!Cardinality, Cardinality
<1>2. W!IsFiniteSet(S) <=> IsFiniteSet(S)
  BY DEF W!IsFiniteSet, IsFiniteSet
<1> QED BY <1>1, <1>2

-----------------------------------------------------------------------------
(* More than one element is two different ones.                            *)
LEMMA TwoElements ==
    ASSUME NEW S, IsFiniteSet(S)
    PROVE  Cardinality(S) > 1 <=> \E a, b \in S : a # b
<1>1. ASSUME NEW a \in S, NEW b \in S, a # b PROVE Cardinality(S) > 1
  <2>1. IsFiniteSet({a}) /\ Cardinality({a}) = 1
    BY FS_Singleton
  <2>2. IsFiniteSet({a} \cup {b}) /\ Cardinality({a} \cup {b}) = 2
    <3>1. b \notin {a}
      BY <1>1
    <3>2. IsFiniteSet({a} \cup {b}) /\ Cardinality({a} \cup {b}) = Cardinality({a}) + 1
      BY <2>1, <3>1, FS_AddElement
    <3> QED BY <2>1, <3>2
  <2>3. {a} \cup {b} \in SUBSET S
    BY <1>1
  <2>4. Cardinality({a} \cup {b}) <= Cardinality(S)
    BY <2>3, FS_Subset
  <2>5. Cardinality(S) \in Nat
    BY FS_CardinalityType
  <2> QED BY <2>2, <2>4, <2>5
<1>2. ASSUME \A a, b \in S : a = b PROVE ~(Cardinality(S) > 1)
  <2>1. CASE S = {}
    BY <2>1, FS_EmptySet
  <2>2. CASE S # {}
    <3>1. PICK a \in S : TRUE
      BY <2>2
    <3>2. S = {a}
      BY <1>2, <3>1
    <3>3. Cardinality({a}) = 1
      BY FS_Singleton
    <3> QED BY <3>2, <3>3
  <2> QED BY <2>1, <2>2
<1> QED BY <1>1, <1>2

(* The feeders of a line are finitely many, so a contest is two of them.   *)
LEMMA Contest ==
    ASSUME W!WorthConstants, NEW l
    PROVE  /\ W!Contested(l) <=> \E a, b \in W!Feeders(l) : a # b
           /\ \A c \in W!Buckets : W!WouldContest(c, l) <=> \E a, b \in W!FeedersWith(c, l) : a # b
<1>1. IsFiniteSet(Banked)
  BY SameSizes DEF W!WorthConstants
<1>2. W!Feeders(l) \in SUBSET Banked
  BY DEF W!Feeders
<1>3. \A c : W!FeedersWith(c, l) \in SUBSET Banked
  BY <1>2 DEF W!FeedersWith, W!Synchronized
<1>4. IsFiniteSet(W!Feeders(l)) /\ \A c : IsFiniteSet(W!FeedersWith(c, l))
  BY <1>1, <1>2, <1>3, FS_Subset
<1>5. W!Contested(l) <=> \E a, b \in W!Feeders(l) : a # b
  BY <1>4, TwoElements, SameSizes DEF W!Contested
<1>6. ASSUME NEW c PROVE W!WouldContest(c, l) <=> \E a, b \in W!FeedersWith(c, l) : a # b
  BY <1>4, TwoElements, SameSizes DEF W!WouldContest
<1> QED BY <1>5, <1>6

-----------------------------------------------------------------------------
(* The parts of the inductive invariant hold at the start.                 *)
LEMMA InitWorthInv ==
    ASSUME W!WorthConstants, W!WorthInit
    PROVE  WorthInv
<1>1. \A l \in Lines : headline[l] \in Figures
  BY DEF W!WorthInit, W!WorthConstants
<1>2. headline = [l \in Lines |-> headline[l]]
  BY DEF W!WorthInit
<1>3. \A l \in Lines : snapshots[l] \in Seq(W!Snapshot)
  <2> TAKE l \in Lines
  <2>1. [taken |-> 0, figure |-> headline[l]] \in W!Snapshot
    BY <1>1 DEF W!Snapshot
  <2> QED BY <2>1 DEF W!WorthInit
<1>4. snapshots \in [Lines -> Seq(W!Snapshot)]
  BY <1>3 DEF W!WorthInit
<1>5. WorthShape
  BY <1>2, <1>4 DEF W!WorthInit, WorthShape, W!WorthConstants, W!Links, W!Buckets, W!Places
<1>6. FoundIsBanked
  BY DEF FoundIsBanked, W!WorthInit
<1>7. OneOwn /\ W!BankLinksStand
  BY DEF OneOwn, W!BankLinksStand, W!Feeders, W!WorthInit, W!WorthConstants, W!Buckets
<1>8. W!HeadlineIsNewest
  <2> SUFFICES ASSUME NEW l \in Lines PROVE headline[l] = W!Newest(snapshots[l])
    BY DEF W!HeadlineIsNewest
  <2> DEFINE s == << [taken |-> 0, figure |-> headline[l]] >>
  <2>1. snapshots[l] = s
    BY DEF W!WorthInit
  <2>2. Len(s) = 1 /\ s[1].taken = 0 /\ s[1].figure = headline[l]
    OBVIOUS
  <2> HIDE DEF s
  <2>3. 1 .. Len(s) = {1}
    BY <2>2
  <2>4. W!NewestOf(s) \in {1}
    BY <2>2, <2>3 DEF W!NewestOf
  <2> QED BY <2>1, <2>2, <2>4 DEF W!Newest
<1> QED BY <1>5, <1>6, <1>7, <1>8 DEF WorthInv

-----------------------------------------------------------------------------
(* A snapshot of a figure keeps the rows in shape, and the headline is     *)
(* read back from them.                                                    *)
LEMMA TakesNewest ==
    ASSUME WorthShape, NEW l \in Lines, NEW t \in Nat, NEW f \in Figures,
           W!Takes(l, t, f)
    PROVE  /\ snapshots' \in [Lines -> Seq(W!Snapshot)]
           /\ headline' = [m \in Lines |-> headline'[m]]
           /\ headline'[l] = W!Newest(snapshots'[l])
           /\ \A m \in Lines \ {l} : headline'[m] = headline[m] /\ snapshots'[m] = snapshots[m]
<1> DEFINE s == Append(snapshots[l], [taken |-> t, figure |-> f])
<1>1. snapshots[l] \in Seq(W!Snapshot)
  BY DEF WorthShape
<1>2. [taken |-> t, figure |-> f] \in W!Snapshot
  BY DEF W!Snapshot
<1>3. s \in Seq(W!Snapshot)
  BY <1>1, <1>2
<1>4. snapshots' = [snapshots EXCEPT ![l] = s] /\ headline' = [headline EXCEPT ![l] = W!Newest(s)]
  BY DEF W!Takes, W!HeadlineAfter
<1> HIDE DEF s
<1>5. snapshots' \in [Lines -> Seq(W!Snapshot)] /\ snapshots'[l] = s
  BY <1>3, <1>4 DEF WorthShape
<1>6. headline = [m \in Lines |-> headline[m]]
  BY DEF WorthShape
<1> DEFINE h == W!Newest(s)
<1> HIDE DEF h
<1>7. headline' = [headline EXCEPT ![l] = h]
  BY <1>4 DEF h
<1>8. /\ headline' = [m \in Lines |-> headline'[m]]
      /\ headline'[l] = h
      /\ \A m \in Lines \ {l} : headline'[m] = headline[m]
  BY <1>6, <1>7
<1>9. \A m \in Lines \ {l} : snapshots'[m] = snapshots[m]
  BY <1>4 DEF WorthShape
<1> QED BY <1>5, <1>8, <1>9 DEF h

(* The headline stays the newest snapshot: a figure is taken, or nothing.  *)
LEMMA NewestKept ==
    ASSUME WorthShape, W!HeadlineIsNewest,
           \/ UNCHANGED <<headline, snapshots>>
           \/ \E l \in Lines, t \in Nat, f \in Figures : W!Takes(l, t, f)
    PROVE  /\ W!HeadlineIsNewest'
           /\ snapshots' \in [Lines -> Seq(W!Snapshot)]
           /\ headline' = [l \in Lines |-> headline'[l]]
<1>1. CASE UNCHANGED <<headline, snapshots>>
  BY <1>1 DEF W!HeadlineIsNewest, WorthShape
<1>2. CASE \E l \in Lines, t \in Nat, f \in Figures : W!Takes(l, t, f)
  <2>1. PICK l \in Lines, t \in Nat, f \in Figures : W!Takes(l, t, f)
    BY <1>2
  <2>2. /\ snapshots' \in [Lines -> Seq(W!Snapshot)]
        /\ headline' = [m \in Lines |-> headline'[m]]
        /\ headline'[l] = W!Newest(snapshots'[l])
        /\ \A m \in Lines \ {l} : headline'[m] = headline[m] /\ snapshots'[m] = snapshots[m]
    BY <2>1, TakesNewest
  <2>3. \A m \in Lines : headline'[m] = W!Newest(snapshots'[m])
    BY <2>2 DEF W!HeadlineIsNewest
  <2> QED BY <2>2, <2>3 DEF W!HeadlineIsNewest
<1> QED BY <1>1, <1>2

-----------------------------------------------------------------------------
(* The feeders of a line.                                                  *)

(* A step that only unlinks and re-attaches nothing keeps the rule.        *)
LEMMA Shrinks ==
    ASSUME OneOwn, W!WorthConstants,
           \A b \in Banked : link'[b] \in {link[b], Unlinked},
           \A b \in Banked : attached'[b] => attached[b],
           returned' = returned
    PROVE  OneOwn'
<1>1. \A l \in Lines : W!Feeders(l)' \subseteq W!Feeders(l)
  BY DEF W!Feeders, W!Synchronized, W!WorthConstants
<1> QED BY <1>1 DEF OneOwn

(* An accepted link keeps the rule, on its line and on the line it leaves. *)
LEMMA AcceptedLink ==
    ASSUME W!WorthConstants, WorthShape, OneOwn, NEW b \in W!Buckets, NEW l \in Lines,
           ~W!WouldContest(b, l), link' = [link EXCEPT ![b] = l],
           UNCHANGED <<attached, returned>>
    PROVE  OneOwn'
<1>1. \A m \in Lines \ {l} : W!Feeders(m)' \subseteq W!Feeders(m)
  BY DEF W!Feeders, W!Synchronized, WorthShape, W!Buckets
<1>2. W!Feeders(l)' \subseteq W!FeedersWith(b, l)
  BY DEF W!Feeders, W!FeedersWith, W!Synchronized, WorthShape, W!Buckets
<1>3. \A c, d \in W!FeedersWith(b, l) : c = d
  BY Contest
<1> QED BY <1>1, <1>2, <1>3 DEF OneOwn

(* The repair leaves no line with two feeders.                             *)
LEMMA Repaired ==
    ASSUME W!WorthConstants, WorthShape,
           link' = [b \in W!Buckets |-> IF b \in W!ToUnlink THEN Unlinked ELSE link[b]],
           attached' = attached
    PROVE  OneOwn'
<1> SUFFICES ASSUME NEW l \in Lines, NEW a \in W!Feeders(l)', NEW b \in W!Feeders(l)', a # b
             PROVE  FALSE
  BY DEF OneOwn
<1>1. a \in W!Feeders(l) /\ b \in W!Feeders(l) /\ a \notin W!ToUnlink
  BY DEF W!Feeders, W!Synchronized, W!WorthConstants, W!Buckets
<1>2. W!Contested(l)
  BY <1>1, Contest
<1>3. a \in W!ToUnlink
  BY <1>1, <1>2 DEF W!ToUnlink
<1> QED BY <1>1, <1>3

-----------------------------------------------------------------------------
(* One lemma per action.                                                   *)

(* writeNetWorthLink keeps the invariant: it refuses, clears or links.     *)
LEMMA LinkBucketKeeps ==
    ASSUME W!WorthConstants, WorthInv, NEW r \in Requests, W!LinkBucket(r)
    PROVE  WorthInv'
<1>1. PICK b \in W!Buckets, l \in W!Links :
          LET refused == l # Unlinked /\ (~live[l] \/ ~cash[l] \/ W!WouldContest(b, l)) IN
              /\ link' = IF refused THEN link ELSE [link EXCEPT ![b] = l]
              /\ W!Reaches(r, IF refused THEN "refused" ELSE "done")
  BY DEF W!LinkBucket
<1>2. UNCHANGED <<attached, live, cash, headline, snapshots, now, line, started, queue,
   readLinks, found, returned>>
  BY DEF W!LinkBucket, W!figures, W!running
<1>3. at' \in [Requests -> W!Places] /\ \A q \in Requests : at'[q] = "attach" => at[q] = "attach"
  BY <1>1 DEF W!Reaches, W!Places, WorthInv, WorthShape
<1>4. CASE l # Unlinked /\ (~live[l] \/ ~cash[l] \/ W!WouldContest(b, l))
  <2>1. link' = link
    BY <1>1, <1>4
  <2> QED BY <1>2, <1>3, <2>1 DEF WorthInv, WorthShape, FoundIsBanked, OneOwn, W!Feeders,
                                W!Synchronized, W!BankLinksStand, W!HeadlineIsNewest
<1>5. CASE l = Unlinked
  <2>1. link' = [link EXCEPT ![b] = Unlinked]
    BY <1>1, <1>5
  <2>2. link' \in [W!Buckets -> W!Links]
    BY <2>1 DEF WorthInv, WorthShape, W!Links
  <2>3. \A c \in Banked : link'[c] \in {link[c], Unlinked}
    BY <2>1 DEF WorthInv, WorthShape, W!Buckets
  <2>4. OneOwn'
    BY <1>2, <2>3, Shrinks DEF WorthInv
  <2>5. W!BankLinksStand'
    BY <1>2, <2>3 DEF WorthInv, W!BankLinksStand
  <2> QED BY <1>2, <1>3, <2>2, <2>4, <2>5 DEF WorthInv, WorthShape, FoundIsBanked,
     W!HeadlineIsNewest
<1>6. CASE l # Unlinked /\ live[l] /\ cash[l] /\ ~W!WouldContest(b, l)
  <2>1. link' = [link EXCEPT ![b] = l] /\ l \in Lines
    BY <1>1, <1>6 DEF W!Links
  <2>2. link' \in [W!Buckets -> W!Links]
    BY <2>1 DEF WorthInv, WorthShape, W!Links
  <2>3. OneOwn'
    BY <1>2, <1>6, <2>1, AcceptedLink DEF WorthInv
  <2>4. W!BankLinksStand'
    BY <1>2, <1>6, <2>1 DEF WorthInv, WorthShape, W!Buckets, W!BankLinksStand
  <2> QED BY <1>2, <1>3, <2>2, <2>3, <2>4 DEF WorthInv, WorthShape, FoundIsBanked,
     W!HeadlineIsNewest
<1> QED BY <1>4, <1>5, <1>6

(* The two steps of a manual link touch no bank bucket.                    *)
LEMMA ManualLinkKeeps ==
    ASSUME W!WorthConstants, WorthInv, NEW r \in Requests,
       W!AskManualLink(r) \/ W!WriteManualLink(r)
    PROVE  WorthInv'
<1>1. CASE W!AskManualLink(r)
  <2>1. UNCHANGED <<link, attached, live, cash, headline, snapshots, now, started, queue,
     readLinks, found, returned>>
    BY <1>1 DEF W!AskManualLink, W!accounts, W!figures
  <2>2. line' \in [Requests -> W!Links]
    BY <1>1 DEF W!AskManualLink, WorthInv, WorthShape
  <2>3. at' \in [Requests -> W!Places] /\ \A q \in Requests : at'[q] = "attach" => at[q] = "attach"
    BY <1>1 DEF W!AskManualLink, W!Reaches, W!Places, WorthInv, WorthShape
  <2> QED BY <2>1, <2>2, <2>3 DEF WorthInv, WorthShape, FoundIsBanked, OneOwn, W!Feeders,
                                W!Synchronized, W!BankLinksStand, W!HeadlineIsNewest
<1>2. CASE W!WriteManualLink(r)
  <2>1. UNCHANGED <<attached, live, cash, headline, snapshots, now, line, started, queue,
     readLinks, found, returned>>
    BY <1>2 DEF W!WriteManualLink, W!figures, W!running
  <2>2. at' \in [Requests -> W!Places] /\ \A q \in Requests : at'[q] = "attach" => at[q] = "attach"
    BY <1>2 DEF W!WriteManualLink, W!Reaches, W!Places, WorthInv, WorthShape
  <2>3. link' \in [W!Buckets -> W!Links] /\ \A b \in Banked : link'[b] = link[b]
    BY <1>2 DEF W!WriteManualLink, WorthInv, WorthShape, W!WorthConstants, W!Buckets
  <2>4. OneOwn'
    BY <2>1, <2>3, Shrinks DEF WorthInv
  <2> QED BY <2>1, <2>2, <2>3, <2>4 DEF WorthInv, WorthShape, FoundIsBanked, W!BankLinksStand,
     W!HeadlineIsNewest
<1> QED BY <1>1, <1>2

(* What unlinking a line does to the links.                                *)
LEMMA UnlinkingOnly ==
    ASSUME W!WorthConstants, WorthShape, NEW l, link' = W!Unlinking(l)
    PROVE  /\ link' \in [W!Buckets -> W!Links]
           /\ \A b \in Banked : link'[b] \in {link[b], Unlinked}
           /\ \A b \in Banked : l # Unlinked => link'[b] # l
BY DEF W!Unlinking, WorthShape, W!Links, W!Buckets

(* updateNetWorthAccount keeps the invariant.                              *)
LEMMA EditLineKeeps ==
    ASSUME W!WorthConstants, WorthInv, NEW r \in Requests, W!EditLine(r)
    PROVE  WorthInv'
<1>1. PICK l \in Lines, f \in Figures, type \in BOOLEAN, taken \in {0, now} :
          /\ live[l]
          /\ cash' = [cash EXCEPT ![l] = type]
          /\ IF f # headline[l] \/ type # cash[l]
               THEN W!Room(l) /\ W!Takes(l, taken, f)
               ELSE UNCHANGED <<headline, snapshots>>
          /\ link' = IF type # cash[l] /\ ~type THEN W!Unlinking(l) ELSE link
  BY DEF W!EditLine
<1>2. UNCHANGED <<attached, live, line, started, queue, readLinks, found,
   returned>> /\ now' = now + 1
  BY DEF W!EditLine, W!running
<1>3. at' \in [Requests -> W!Places] /\ \A q \in Requests : at'[q] = "attach" => at[q] = "attach"
  BY DEF W!EditLine, W!Reaches, W!Places, WorthInv, WorthShape
<1>4. taken \in Nat
  BY <1>1 DEF WorthInv, WorthShape
<1>5. /\ W!HeadlineIsNewest'
      /\ snapshots' \in [Lines -> Seq(W!Snapshot)]
      /\ headline' = [m \in Lines |-> headline'[m]]
  BY <1>1, <1>4, NewestKept DEF WorthInv
<1>6. cash' \in [Lines -> BOOLEAN]
  BY <1>1 DEF WorthInv, WorthShape
<1>7. l # Unlinked
  BY DEF W!WorthConstants
<1>8. link' \in [W!Buckets -> W!Links] /\ \A b \in Banked : link'[b] \in {link[b], Unlinked}
  BY <1>1, UnlinkingOnly DEF WorthInv, WorthShape
<1>9. OneOwn'
  BY <1>2, <1>8, Shrinks DEF WorthInv
<1>10. W!BankLinksStand'
  <2> SUFFICES ASSUME NEW b \in Banked, link'[b] # Unlinked PROVE live'[link'[b]] /\ cash'[link'[b]]
    BY DEF W!BankLinksStand
  <2>1. link'[b] = link[b] /\ link[b] \in Lines /\ live[link[b]] /\ cash[link[b]]
    BY <1>8 DEF WorthInv, WorthShape, W!Links, W!Buckets, W!BankLinksStand
  <2>2. CASE link[b] # l
    <3>1. cash'[link[b]] = cash[link[b]]
      BY <1>1, <2>1, <2>2 DEF WorthInv, WorthShape
    <3> QED BY <1>2, <2>1, <3>1
  <2>3. CASE link[b] = l
    <3>1. link' = link \/ link'[b] # l
      BY <1>1, <1>7, UnlinkingOnly DEF WorthInv
    <3>2. ~(type # cash[l] /\ ~type)
      BY <1>1, <1>7, <2>1, <2>3, UnlinkingOnly DEF WorthInv
    <3>3. type = TRUE
      BY <2>1, <2>3, <3>2
    <3>4. cash'[l] = TRUE
      BY <1>1, <3>3 DEF WorthInv, WorthShape
    <3> QED BY <1>2, <2>1, <2>3, <3>4
  <2> QED BY <2>2, <2>3
<1>11. now' \in Nat
  BY <1>2 DEF WorthInv, WorthShape
<1>12. WorthShape'
  BY <1>2, <1>3, <1>5, <1>6, <1>8, <1>11 DEF WorthInv, WorthShape
<1>13. FoundIsBanked'
  BY <1>2, <1>3 DEF WorthInv, FoundIsBanked
<1> QED BY <1>5, <1>9, <1>10, <1>12, <1>13 DEF WorthInv

(* deleteNetWorthAccount keeps the invariant.                              *)
LEMMA DeleteLineKeeps ==
    ASSUME W!WorthConstants, WorthInv, NEW r \in Requests, W!DeleteLine(r)
    PROVE  WorthInv'
<1>1. PICK l \in Lines : live' = [live EXCEPT ![l] = FALSE] /\ link' = W!Unlinking(l)
  BY DEF W!DeleteLine
<1>2. UNCHANGED <<attached, cash, headline, snapshots, now, line, started, queue, readLinks,
   found, returned>>
  BY DEF W!DeleteLine, W!running
<1>3. at' \in [Requests -> W!Places] /\ \A q \in Requests : at'[q] = "attach" => at[q] = "attach"
  BY DEF W!DeleteLine, W!Reaches, W!Places, WorthInv, WorthShape
<1>4. l # Unlinked
  BY DEF W!WorthConstants
<1>5. /\ link' \in [W!Buckets -> W!Links]
      /\ \A b \in Banked : link'[b] \in {link[b], Unlinked} /\ link'[b] # l
  BY <1>1, <1>4, UnlinkingOnly DEF WorthInv
<1>6. OneOwn'
  BY <1>2, <1>5, Shrinks DEF WorthInv
<1>7. live' \in [Lines -> BOOLEAN] /\ \A m \in Lines : m # l => live'[m] = live[m]
  BY <1>1 DEF WorthInv, WorthShape
<1>8. W!BankLinksStand'
  <2> SUFFICES ASSUME NEW b \in Banked, link'[b] # Unlinked PROVE live'[link'[b]] /\ cash'[link'[b]]
    BY DEF W!BankLinksStand
  <2>1. link'[b] = link[b] /\ link[b] \in Lines /\ live[link[b]] /\ cash[link[b]] /\ link[b] # l
    BY <1>5 DEF WorthInv, WorthShape, W!Links, W!Buckets, W!BankLinksStand
  <2> QED BY <1>2, <1>7, <2>1
<1> QED BY <1>2, <1>3, <1>5, <1>6, <1>7, <1>8 DEF WorthInv, WorthShape, FoundIsBanked,
   W!HeadlineIsNewest

(* The two steps of a sync's balances keep the invariant.                  *)
LEMMA SyncKeeps ==
    ASSUME W!WorthConstants, WorthInv, NEW r \in Requests, W!BeginSync(r) \/ W!RecordBalance(r)
    PROVE  WorthInv'
<1>1. UNCHANGED <<link, attached, live, cash, now, line, found, returned>>
  BY DEF W!BeginSync, W!RecordBalance, W!accounts, W!figures
<1>2. at' \in [Requests -> W!Places] /\ \A q \in Requests : at'[q] = "attach" => at[q] = "attach"
  BY DEF W!BeginSync, W!RecordBalance, W!Reaches, W!Places, WorthInv, WorthShape
<1>3. queue' \in [Requests -> SUBSET Banked]
  <2>1. \E S \in SUBSET Banked : queue' = [queue EXCEPT ![r] = S]
    <3>1. CASE W!BeginSync(r)
      <4>1. {b \in Banked : attached[b]} \in SUBSET Banked
        OBVIOUS
      <4> QED BY <3>1, <4>1 DEF W!BeginSync
    <3>2. CASE W!RecordBalance(r)
      <4>1. queue[r] \in SUBSET Banked
        BY DEF WorthInv, WorthShape
      <4>2. PICK b \in queue[r] : queue' = [queue EXCEPT ![r] = @ \ {b}]
        BY <3>2 DEF W!RecordBalance
      <4>3. queue[r] \ {b} \in SUBSET Banked
        BY <4>1
      <4> QED BY <4>2, <4>3
    <3> QED BY <3>1, <3>2
  <2> QED BY <2>1 DEF WorthInv, WorthShape
<1>4. started' \in [Requests -> Nat] /\ readLinks' \in [Requests -> [Banked -> W!Links]]
  <2>1. CASE W!BeginSync(r)
    <3> DEFINE now_links == [b \in Banked |-> link[b]]
    <3>1. now_links \in [Banked -> W!Links]
      BY DEF WorthInv, WorthShape, W!Buckets
    <3>2. readLinks' = [readLinks EXCEPT ![r] = now_links] /\ started' = [started EXCEPT ![r] = now]
      BY <2>1 DEF W!BeginSync
    <3> HIDE DEF now_links
    <3> QED BY <3>1, <3>2 DEF WorthInv, WorthShape
  <2>2. CASE W!RecordBalance(r)
    BY <2>2 DEF W!RecordBalance, WorthInv, WorthShape
  <2> QED BY <2>1, <2>2
<1>5. \/ UNCHANGED <<headline, snapshots>>
      \/ \E l \in Lines, t \in Nat, f \in Figures : W!Takes(l, t, f)
  <2>1. CASE W!BeginSync(r)
    BY <2>1 DEF W!BeginSync, W!figures
  <2>2. CASE W!RecordBalance(r)
    <3>1. PICK b \in queue[r] :
              \/ UNCHANGED <<headline, snapshots>>
              \/ LET l == readLinks[r][b] IN
                     /\ l # Unlinked /\ live[l] /\ W!Room(l)
                     /\ \E f \in Figures \ {headline[l]} : W!Takes(l, started[r], f)
      BY <2>2 DEF W!RecordBalance
    <3>2. b \in Banked /\ readLinks[r][b] \in W!Links /\ started[r] \in Nat
      BY DEF WorthInv, WorthShape
    <3> QED BY <3>1, <3>2 DEF W!Links
  <2> QED BY <2>1, <2>2
<1>6. /\ W!HeadlineIsNewest'
      /\ snapshots' \in [Lines -> Seq(W!Snapshot)]
      /\ headline' = [m \in Lines |-> headline'[m]]
  BY <1>5, NewestKept DEF WorthInv
<1>7. OneOwn' /\ W!BankLinksStand'
  BY <1>1 DEF WorthInv, OneOwn, W!Feeders, W!Synchronized, W!BankLinksStand
<1> QED BY <1>1, <1>2, <1>3, <1>4, <1>6, <1>7 DEF WorthInv, WorthShape, FoundIsBanked

(* deleteBankConnection keeps the invariant.                               *)
LEMMA DisconnectKeeps ==
    ASSUME W!WorthConstants, WorthInv, NEW r \in Requests, W!Disconnect(r)
    PROVE  WorthInv'
<1>1. UNCHANGED <<live, cash, headline, snapshots, now, line, started, queue, readLinks, found,
   returned>>
  BY DEF W!Disconnect, W!figures, W!running
<1>2. at' \in [Requests -> W!Places] /\ \A q \in Requests : at'[q] = "attach" => at[q] = "attach"
  BY DEF W!Disconnect, W!Reaches, W!Places, WorthInv, WorthShape
<1>3. /\ link' \in [W!Buckets -> W!Links] /\ attached' = [b \in Banked |-> FALSE]
      /\ \A b \in Banked : link'[b] \in {link[b], Unlinked}
  BY DEF W!Disconnect, WorthInv, WorthShape, W!Links, W!Buckets
<1>4. OneOwn'
  BY <1>1, <1>3, Shrinks DEF WorthInv
<1>5. W!BankLinksStand'
  BY <1>1, <1>3 DEF WorthInv, W!BankLinksStand
<1> QED BY <1>1, <1>2, <1>3, <1>4, <1>5 DEF WorthInv, WorthShape, FoundIsBanked, W!HeadlineIsNewest

(* The steps of a reconnection keep the invariant: what is re-attached     *)
(* while linked is counted as returned.                                    *)
LEMMA ReconnectKeeps ==
    ASSUME W!WorthConstants, WorthInv, NEW r \in Requests,
           W!AskReconnect(r) \/ W!FindBucket(r) \/ W!Attach(r)
    PROVE  WorthInv'
<1>1. UNCHANGED <<link, live, cash, headline, snapshots, now, line, started, readLinks>>
  BY DEF W!AskReconnect, W!FindBucket, W!Attach, W!accounts, W!figures
<1>2. at' \in [Requests -> W!Places] /\ queue' \in [Requests -> SUBSET Banked]
  <2>1. at' \in [Requests -> W!Places]
    BY DEF W!AskReconnect, W!FindBucket, W!Attach, W!Reaches, W!Places, WorthInv, WorthShape
  <2>2. queue[r] \in SUBSET Banked
    BY DEF WorthInv, WorthShape
  <2>3. \E S \in SUBSET Banked : queue' = [queue EXCEPT ![r] = S]
    <3>1. CASE W!AskReconnect(r)
      BY <3>1 DEF W!AskReconnect
    <3>2. CASE W!FindBucket(r)
      <4>1. queue = [queue EXCEPT ![r] = queue[r]]
        BY DEF WorthInv, WorthShape
      <4>2. \E b \in queue[r] : queue' = [queue EXCEPT ![r] = @ \ {b}] \/ queue' = queue
        BY <3>2 DEF W!FindBucket
      <4>3. \A b : queue[r] \ {b} \in SUBSET Banked
        BY <2>2
      <4> QED BY <2>2, <4>1, <4>2, <4>3
    <3>3. CASE W!Attach(r)
      <4>1. queue' = [queue EXCEPT ![r] = @ \ {found[r]}]
        BY <3>3 DEF W!Attach
      <4> QED BY <2>2, <4>1
    <3> QED BY <3>1, <3>2, <3>3
  <2> QED BY <2>1, <2>3 DEF WorthInv, WorthShape
<1>3. found' \in [Requests -> W!Buckets] /\ FoundIsBanked'
  <2>1. CASE W!AskReconnect(r)
    BY <2>1 DEF W!AskReconnect, W!Reaches, WorthInv, WorthShape, FoundIsBanked
  <2>2. CASE W!FindBucket(r)
    <3>1. PICK b \in queue[r] :
             IF attached[b]
               THEN W!Reaches(r, IF queue[r] = {b} THEN "done" ELSE "find") /\ UNCHANGED found
               ELSE found' = [found EXCEPT ![r] = b] /\ W!Reaches(r, "attach")
      BY <2>2 DEF W!FindBucket
    <3>2. b \in Banked
      BY DEF WorthInv, WorthShape
    <3>3. CASE attached[b]
      BY <3>1, <3>3 DEF W!Reaches, WorthInv, WorthShape, FoundIsBanked
    <3>4. CASE ~attached[b]
      BY <3>1, <3>2, <3>4 DEF W!Reaches, WorthInv, WorthShape, FoundIsBanked, W!Buckets
    <3> QED BY <3>3, <3>4
  <2>3. CASE W!Attach(r)
    BY <2>3 DEF W!Attach, W!Reaches, WorthInv, WorthShape, FoundIsBanked
  <2> QED BY <2>1, <2>2, <2>3
<1>4. attached' \in [Banked -> BOOLEAN] /\ returned' \subseteq Banked /\ OneOwn'
  <2>1. CASE W!AskReconnect(r) \/ W!FindBucket(r)
    <3>1. UNCHANGED <<attached, returned>>
      BY <2>1 DEF W!AskReconnect, W!FindBucket, W!accounts
    <3> QED BY <1>1, <3>1 DEF WorthInv, WorthShape, OneOwn, W!Feeders, W!Synchronized
  <2>2. CASE W!Attach(r)
    <3> DEFINE b == found[r]
    <3>1. b \in Banked
      BY <2>2 DEF W!Attach, WorthInv, FoundIsBanked
    <3>2. /\ attached' = [attached EXCEPT ![b] = TRUE]
          /\ returned' = IF link[b] # Unlinked THEN returned \cup {b} ELSE returned
      BY <2>2 DEF W!Attach
    <3> HIDE DEF b
    <3>3. \A l \in Lines : W!Feeders(l)' \ returned' \subseteq W!Feeders(l) \ returned
      BY <1>1, <3>1, <3>2 DEF W!Feeders, W!Synchronized, WorthInv, WorthShape, W!WorthConstants
    <3>4. OneOwn'
      BY <3>3 DEF WorthInv, OneOwn
    <3>5. attached' \in [Banked -> BOOLEAN] /\ returned' \subseteq Banked
      BY <3>1, <3>2 DEF WorthInv, WorthShape
    <3> QED BY <3>4, <3>5
  <2> QED BY <2>1, <2>2
<1>5. W!BankLinksStand' /\ W!HeadlineIsNewest'
  BY <1>1 DEF WorthInv, W!BankLinksStand, W!HeadlineIsNewest
<1> QED BY <1>1, <1>2, <1>3, <1>4, <1>5 DEF WorthInv, WorthShape

(* The boot repair restores the rule without its excuse.                   *)
LEMMA RestartKeeps ==
    ASSUME W!WorthConstants, WorthInv, W!Restart
    PROVE  WorthInv'
<1>1. UNCHANGED <<attached, live, cash, headline, snapshots, now, line, started, queue,
   readLinks, found>>
  BY DEF W!Restart, W!figures, W!running
<1>2. at' \in [Requests -> W!Places] /\ \A q \in Requests : at'[q] # "attach"
  BY DEF W!Restart, W!Places, WorthInv, WorthShape
<1>3. /\ link' = [b \in W!Buckets |-> IF b \in W!ToUnlink THEN Unlinked ELSE link[b]]
      /\ returned' = {}
  BY DEF W!Restart
<1>4. link' \in [W!Buckets -> W!Links] /\ \A b \in Banked : link'[b] \in {link[b], Unlinked}
  BY <1>3 DEF WorthInv, WorthShape, W!Links, W!Buckets
<1>5. OneOwn'
  BY <1>1, <1>3, Repaired DEF WorthInv
<1>6. W!BankLinksStand'
  BY <1>1, <1>4 DEF WorthInv, W!BankLinksStand
<1> QED BY <1>1, <1>2, <1>3, <1>4, <1>5, <1>6 DEF WorthInv, WorthShape, FoundIsBanked,
   W!HeadlineIsNewest

-----------------------------------------------------------------------------
(* Every step of NetWorth keeps the invariant.                             *)
LEMMA NextWorthInv ==
    ASSUME W!WorthConstants, WorthInv, [W!Next]_(W!worthVars)
    PROVE  WorthInv'
<1>1. CASE UNCHANGED W!worthVars
  BY <1>1 DEF W!worthVars, WorthInv, WorthShape, FoundIsBanked, OneOwn, W!Feeders, W!Synchronized,
              W!BankLinksStand, W!HeadlineIsNewest
<1>2. CASE W!Restart
  BY <1>2, RestartKeeps
<1>3. ASSUME NEW r \in Requests, W!AsksWorth(r) \/ W!RunsWorth(r) PROVE WorthInv'
  BY <1>3, LinkBucketKeeps, ManualLinkKeeps, EditLineKeeps, DeleteLineKeeps, SyncKeeps,
     DisconnectKeeps, ReconnectKeeps DEF W!AsksWorth, W!RunsWorth
<1> QED BY <1>1, <1>2, <1>3 DEF W!Next

(* Two feeders of which at most one was not re-attached while linked.      *)
LEMMA OwnIsFedOnce ==
    ASSUME W!WorthConstants, OneOwn
    PROVE  W!FedOnceUnlessReturned
<1> SUFFICES ASSUME NEW l \in Lines, W!Contested(l) PROVE W!Feeders(l) \cap returned # {}
  BY DEF W!FedOnceUnlessReturned
<1>1. PICK a, b \in W!Feeders(l) : a # b
  BY Contest
<1> QED BY <1>1 DEF OneOwn

(* What Books does to the net worth half are steps of NetWorth.            *)
LEMMA WorthSteps == [Next]_vars => [W!Next]_(W!worthVars)
<1> SUFFICES ASSUME [Next]_vars PROVE [W!Next]_(W!worthVars)
  OBVIOUS
<1>1. ASSUME NEW r \in Requests, Import(r) PROVE UNCHANGED W!worthVars
  BY <1>1 DEF Import, worthVars, W!worthVars
<1>2. ASSUME NEW r \in Requests, Value(r) PROVE W!Next
  BY <1>2 DEF Value, W!Next
<1>3. ASSUME Restart PROVE W!Next
  BY <1>3 DEF Restart, W!Next
<1>4. ASSUME AllAnswered \/ UNCHANGED vars PROVE UNCHANGED W!worthVars
  BY <1>4 DEF AllAnswered, vars, worthVars, W!worthVars
<1> QED BY <1>1, <1>2, <1>3, <1>4 DEF Next

(* The net worth half of Books behaves as NetWorth: imports and their      *)
(* stops add nothing to what happens to it.                                *)
THEOREM BooksKeepNetWorth == Spec => W!Spec
<1>1. Init => W!WorthInit
  BY DEF Init
<1> QED BY <1>1, WorthSteps, PTL DEF Spec, W!Spec

(* The inductive invariant holds in every state of every behaviour.        *)
LEMMA WorthReachable == Spec => []WorthInv
<1>1. Init => WorthInv
  BY InitWorthInv, ConstantsAssumption DEF Init
<1>2. WorthInv /\ [Next]_vars => WorthInv'
  BY NextWorthInv, WorthSteps, ConstantsAssumption
<1> QED BY <1>1, <1>2, PTL DEF Spec

(* At most one synchronised bucket feeds a line, but for the buckets       *)
(* re-attached while linked (domain/netWorthLink.ts:4), for any number of  *)
(* lines, buckets and requests.                                            *)
THEOREM LinesFedOnce == Spec => []FedOnceUnlessReturned
<1>1. WorthInv => FedOnceUnlessReturned
  BY OwnIsFedOnce, ConstantsAssumption DEF WorthInv, FedOnceUnlessReturned
<1> QED BY <1>1, WorthReachable, PTL

(* No bank bucket feeds a line deleted or of a type that takes no cash     *)
(* (net-worth/service.ts:193-200, 204-210).                                *)
THEOREM LinksStand == Spec => []BankLinksStand
<1>1. WorthInv => BankLinksStand
  BY DEF WorthInv, BankLinksStand
<1> QED BY <1>1, WorthReachable, PTL

(* The headline is the newest snapshot (net-worth/service.ts:370-377).     *)
THEOREM HeadlinesNewest == Spec => []HeadlineIsNewest
<1>1. WorthInv => HeadlineIsNewest
  BY DEF WorthInv, HeadlineIsNewest
<1> QED BY <1>1, WorthReachable, PTL

-----------------------------------------------------------------------------
(* The import half.  Its inductive invariant says where a request stands   *)
(* and what is its own there (Stands), that a stored row is of a batch     *)
(* that exists (Filed), what the figure of an answered import counts       *)
(* (Counts), which rows the loop has passed and why none is lost (Safe),   *)
(* what became of the rows it left to deduplication (Known), and, for two  *)
(* imports that compared and neither saw the other in flight, which of the *)
(* two stood where the other's comparison would have seen it (Compares).   *)

RowsOf(r) == ask[r].reading.rows
Landing == {"mirror", "check", "insert", "requery", "parts"}
Before == {"known", "candidates", "compare", "create"}

(* The places where the ledger has been counted.                           *)
Told == {"record", "rules", "weigh", "find", "remove", "deleted", "imported", "partly",
         "withheld", "other period"}

Stands(r) ==
    /\ pc[r] = "idle" => todo[r] = {} /\ duplicates[r] = 0 /\ ask[r].kind = "import"
    /\ pc[r] \in Before \cup {"idle"} => r \notin batches
    /\ pc[r] \in Before \cup Landing \cup {"prepare"} => todo[r] # {}
    /\ pc[r] \in {"count", "record"} => interrupted[r] \/ todo[r] = {}
    /\ I!Writes(r) /\ pc[r] \in {"rules", "weigh", "find", "remove", "deleted", "cancelled"}
           => todo[r] = {}
    /\ todo[r] \subseteq RowsOf(r)
    /\ ~I!Writes(r) => r \notin batches /\ pc[r] \in {"find", "remove", "not found",
                                                     "cancelled", "error", "stopped"}
    /\ I!Writes(r) /\ pc[r] \in {"weigh", "find", "remove"} => I!Replacing(r)
    /\ ask[r].batch # r
    /\ removed[r] # {} => pc[r] \in {"deleted", "cancelled"}
    /\ absorbed[r] \subseteq RowsOf(r)
    /\ absorbed[r] # {} => pc[r] \notin {"idle", "known"}

(* Each row is skipped at most once.                                       *)
SkipsOnce(r) == duplicates[r] + Cardinality(todo[r]) <= Cardinality(Rows)

Filed == \A k \in Rows : I!Stored(k) => holder[k] \in batches

Counts(r) ==
    /\ pc[r] \in {"prepare", "clean", "nothing"} => I!Held(r) = {}
    /\ r \in batches /\ pc[r] \in Told => counted[r] = Cardinality(I!Held(r))

(* The row is stored and not in the batch that r would delete, or it was   *)
(* another request's to delete.                                            *)
Spared(r, k) ==
    \/ I!Stored(k) /\ (I!Replacing(r) => holder[k] # ask[r].batch)
    \/ I!RemovedBeside(r, k)

Safe(r) ==
    I!Writes(r) /\ pc[r] # "idle" =>
        \A k \in RowsOf(r) \ todo[r] :
            \/ k \in shared[r] \/ Spared(r, k)
            \/ ask[r].reading.answered /\ Spared(r, Mirror[k])

Known(r) ==
    \A k \in absorbed[r] :
        \/ I!Stored(k) /\ holder[k] # r
        \/ \E q \in Requests : k \in removed[q]

(* An import that read the ledger before it wrote, and was not confirmed.  *)
Compared(r) ==
    I!Writes(r) /\ ~I!Replacing(r) /\ ~ask[r].sure /\ pc[r] \notin {"idle", "known"}

Over(r) == pc[r] # "idle" /\ ~I!InFlight(r)

(* The batch of r is whole and says what the reading of s says.            *)
Twice(r, s) ==
    /\ r \in batches /\ I!Held(r) = RowsOf(r)
    /\ I!Overlap(r, ask[s].reading)
    /\ I!SameFigures(I!Held(r), RowsOf(s))

(* r was answered, and s has still to list it or to compare with it, or    *)
(* ended without a batch, or found a row of its own stored, or is not what *)
(* r holds.                                                                *)
Weighed(r, s) ==
    /\ Over(r)
    /\ \/ pc[s] = "candidates"
       \/ pc[s] = "compare" /\ r \in candidates[s]
       \/ s \notin batches /\ Over(s)
       \/ absorbed[s] # {}
       \/ ~Twice(r, s)

Compares ==
    \A r, s \in Requests :
        r # s /\ Compared(r) /\ Compared(s) =>
            r \in beside[s] \/ s \in beside[r] \/ Weighed(r, s) \/ Weighed(s, r)

ImportInv ==
    /\ I!TypeOK
    /\ \A r \in Requests : Stands(r) /\ SkipsOnce(r) /\ Counts(r) /\ Safe(r) /\ Known(r)
    /\ Filed
    /\ Compares

-----------------------------------------------------------------------------
(* Imports counts with the same sets and numbers.                          *)
LEMMA SameSizesImports ==
    ASSUME NEW S
    PROVE  /\ I!Cardinality(S) = Cardinality(S)
           /\ I!IsFiniteSet(S) <=> IsFiniteSet(S)
<1>1. I!Cardinality(S) = Cardinality(S)
  BY DEF I!Cardinality, Cardinality
<1>2. I!IsFiniteSet(S) <=> IsFiniteSet(S)
  BY DEF I!IsFiniteSet, IsFiniteSet
<1> QED BY <1>1, <1>2

(* A set of numbers has a least one.                                       *)
LEMMA LeastOf ==
    ASSUME NEW M, M \subseteq Nat, M # {}
    PROVE  I!Min(M) \in M
<1> DEFINE R == {ss \in Nat \X Nat : ss[1] < ss[2]}
<1>1. IsWellFoundedOn(R, Nat)
  BY NatLessThanWellFounded DEF OpToRel
<1> HIDE DEF R
<1>2. \E x \in M : \A y \in M : ~(<<y, x>> \in R)
  BY <1>1, WFMin, Zenon
<1>3. PICK m \in M : \A n \in M : ~(<<n, m>> \in R)
  BY <1>2
<1>4. ASSUME NEW n \in M PROVE m <= n
  <2>1. <<n, m>> \notin R /\ m \in Nat /\ n \in Nat
    BY <1>3
  <2> QED BY <2>1 DEF R
<1>5. \E m1 \in M : \A n \in M : m1 <= n
  BY <1>3, <1>4
<1> QED BY <1>5 DEF I!Min

(* The sets of rows are finite and no larger than all rows; taking a row   *)
(* away makes one smaller by one.                                          *)
LEMMA RowSets ==
    ASSUME I!ImportConstants, NEW S, S \subseteq Rows
    PROVE  /\ IsFiniteSet(S)
           /\ I!Cardinality(S) = Cardinality(S)
           /\ Cardinality(S) \in 0 .. Cardinality(Rows)
           /\ I!Cardinality(Rows) = Cardinality(Rows)
           /\ Cardinality(Rows) \in Nat
           /\ Cardinality(S) = 0 <=> S = {}
           /\ \A k \in S : Cardinality(S \ {k}) = Cardinality(S) - 1
<1>1. IsFiniteSet(Rows) /\ S \in SUBSET Rows
  BY SameSizesImports DEF I!ImportConstants
<1>2. IsFiniteSet(S) /\ Cardinality(S) <= Cardinality(Rows)
  BY <1>1, FS_Subset
<1>3. Cardinality(S) \in Nat /\ Cardinality(Rows) \in Nat
  BY <1>1, <1>2, FS_CardinalityType
<1>4. Cardinality(S) = 0 <=> S = {}
  BY <1>2, FS_EmptySet
<1>5. \A k \in S : Cardinality(S \ {k}) = Cardinality(S) - 1
  BY <1>2, FS_RemoveElement
<1> QED BY <1>1, <1>2, <1>3, <1>4, <1>5, SameSizesImports

(* The row in hand is one of the rows of the file that are left.           *)
LEMMA RowInHand ==
    ASSUME I!ImportConstants, I!TypeOK, NEW r \in Requests, Stands(r), pc[r] \in Landing
    PROVE  I!Row(r) \in todo[r] /\ I!Row(r) \in RowsOf(r) /\ I!Row(r) \in Rows
<1>1. todo[r] \subseteq Rows /\ Rows \subseteq Nat
  BY DEF I!TypeOK, I!ImportConstants
<1>2. todo[r] # {} /\ todo[r] \subseteq RowsOf(r)
  BY DEF Stands, Landing
<1>3. todo[r] \subseteq Nat
  BY <1>1
<1>4. I!Min(todo[r]) \in todo[r]
  BY <1>2, <1>3, LeastOf
<1> QED BY <1>1, <1>2, <1>4 DEF I!Row

(* A request reads rows of the instance, and some.                         *)
LEMMA ReadingTypes ==
    ASSUME I!ImportConstants, I!TypeOK, NEW r \in Requests
    PROVE  RowsOf(r) \subseteq Rows /\ RowsOf(r) # {} /\ ask[r].batch \in I!Batches
<1>1. ask[r].reading \in Readings /\ ask[r].batch \in I!Batches
  BY DEF I!TypeOK
<1>2. ask[r].reading \in [rows : (SUBSET Rows) \ {{}}, from : Nat, to : Nat, answered : BOOLEAN]
  BY <1>1 DEF I!ImportConstants
<1>3. ask[r].reading.rows \in (SUBSET Rows) \ {{}}
  BY <1>2
<1>4. RowsOf(r) \in SUBSET Rows /\ RowsOf(r) # {}
  BY <1>3 DEF RowsOf
<1> QED BY <1>1, <1>4

(* The batches have names of their own.                                    *)
LEMMA BatchNames ==
    ASSUME I!ImportConstants
    PROVE  First \notin Requests /\ Nobody \notin I!Batches
BY DEF I!ImportConstants, I!Batches

(* The mirror of a row of an answered file is a row too.                   *)
LEMMA MirrorTypes ==
    ASSUME I!ImportConstants, I!TypeOK, NEW r \in Requests, ask[r].reading.answered,
           NEW k \in RowsOf(r)
    PROVE  Mirror[k] \in Rows
<1>1. ask[r].reading \in Readings
  BY DEF I!TypeOK
<1> QED BY <1>1 DEF I!ImportConstants, RowsOf

-----------------------------------------------------------------------------
(* What a step of r does to the others, and to the store.                  *)

(* A step of r writes nothing of another request.                          *)
OthersKeepImports(r) ==
    \A s \in Requests \ {r} :
        /\ pc'[s] = pc[s] /\ ask'[s] = ask[s] /\ todo'[s] = todo[s]
        /\ duplicates'[s] = duplicates[s] /\ counted'[s] = counted[s]
        /\ removed'[s] = removed[s] /\ shared'[s] = shared[s]
        /\ beside'[s] = beside[s] /\ absorbed'[s] = absorbed[s]
        /\ candidates'[s] = candidates[s] /\ interrupted'[s] = interrupted[s]

(* A request that begins changes only where it stands and its list.        *)
LEMMA AsksFrame ==
    ASSUME I!TypeOK, NEW r \in Requests, I!Asks(r)
    PROVE  OthersKeepImports(r) /\ UNCHANGED <<I!store, I!history, duplicates, counted>>
<1> USE DEF I!TypeOK, OthersKeepImports, I!Goto, I!store, I!history
<1>1. CASE I!AskImport(r)
  BY <1>1 DEF I!AskImport
<1>2. CASE I!AskCancel(r)
  BY <1>2 DEF I!AskCancel
<1> QED BY <1>1, <1>2 DEF I!Asks

(* A statement changes nothing of another request nor what was asked.      *)
LEMMA RunsFrame ==
    ASSUME I!TypeOK, NEW r \in Requests, I!Runs(r)
    PROVE  OthersKeepImports(r) /\ UNCHANGED ask
<1> USE DEF I!TypeOK, OthersKeepImports, I!Goto, I!store, I!history
<1>1. CASE I!ReadKnown(r)
  BY <1>1 DEF I!ReadKnown
<1>2. CASE I!ListCandidates(r) \/ I!Compare(r) \/ I!CreateBatch(r) \/ I!Prepare(r)
  BY <1>2 DEF I!ListCandidates, I!Compare, I!CreateBatch, I!Prepare
<1>3. CASE I!CheckMirror(r) \/ I!CheckRow(r)
  BY <1>3 DEF I!CheckMirror, I!CheckRow, I!Skip, I!Shares
<1>4. CASE I!InsertConflicts(r) \/ I!Requery(r)
  BY <1>4 DEF I!InsertConflicts, I!Requery, I!Skip, I!Shares
<1>5. CASE I!InsertDangles(r)
  BY <1>5 DEF I!InsertDangles
<1>6. CASE I!InsertRow(r)
  BY <1>6 DEF I!InsertRow, I!Reached
<1>7. CASE I!WriteParts(r)
  BY <1>7 DEF I!WriteParts, I!Reached
<1>8. CASE I!CountRows(r) \/ I!RecordCounts(r) \/ I!ApplyRules(r) \/ I!CleanUp(r)
  BY <1>8 DEF I!CountRows, I!RecordCounts, I!ApplyRules, I!CleanUp
<1>9. CASE I!Weigh(r) \/ I!FindBatch(r)
  BY <1>9 DEF I!Weigh, I!FindBatch
<1>10. CASE I!RemoveBatch(r)
  BY <1>10 DEF I!RemoveBatch
<1>11. CASE I!Throw(r)
  BY <1>11 DEF I!Throw
<1> QED BY <1>1, <1>2, <1>3, <1>4, <1>5, <1>6, <1>7, <1>8, <1>9, <1>10, <1>11 DEF I!Runs

(* The three ways a row's holder may change, and what batches become.      *)
Deletes(r) ==
    /\ pc[r] = "remove" /\ ask[r].batch \in batches
    /\ batches' = batches \ {ask[r].batch}
    /\ holder' = [k \in Rows |-> IF holder[k] = ask[r].batch THEN Nobody ELSE holder[k]]
    /\ removed' = [removed EXCEPT ![r] = I!Held(ask[r].batch)]
    /\ pc'[r] \in {"deleted", "cancelled"}

Stores(r) ==
    /\ pc[r] = "insert" /\ r \in batches
    /\ ~I!Stored(I!Row(r))
    /\ holder' = [holder EXCEPT ![I!Row(r)] = r]
    /\ UNCHANGED <<batches, removed>>

Opens(r) ==
    /\ pc[r] = "create" /\ pc'[r] = "prepare"
    /\ batches' = batches \cup {r}
    /\ UNCHANGED <<holder, removed>>

Closes(r) ==
    /\ pc[r] = "clean" /\ pc'[r] = "nothing"
    /\ batches' = batches \ {r} /\ I!Held(r) = {}
    /\ UNCHANGED <<holder, removed>>

Leaves == UNCHANGED <<I!store, removed>>

(* Every statement is one of these.                                        *)
LEMMA StoreSteps ==
    ASSUME I!TypeOK, NEW r \in Requests, I!Runs(r)
    PROVE  Deletes(r) \/ Stores(r) \/ Opens(r) \/ Closes(r) \/ Leaves
<1> USE DEF I!TypeOK, I!Goto, I!store, I!history
<1>1. CASE I!ReadKnown(r)
  BY <1>1 DEF I!ReadKnown, Leaves
<1>2. CASE I!ListCandidates(r) \/ I!Compare(r) \/ I!Prepare(r)
  BY <1>2 DEF I!ListCandidates, I!Compare, I!Prepare, Leaves
<1>3. CASE I!CreateBatch(r)
  BY <1>3 DEF I!CreateBatch, Opens
<1>4. CASE I!CheckMirror(r) \/ I!CheckRow(r) \/ I!InsertConflicts(r) \/ I!Requery(r)
         \/ I!InsertDangles(r)
  BY <1>4 DEF I!CheckMirror, I!CheckRow, I!InsertConflicts, I!Requery, I!InsertDangles, Leaves
<1>5. CASE I!InsertRow(r)
  BY <1>5 DEF I!InsertRow, Stores
<1>6. CASE I!WriteParts(r) \/ I!CountRows(r) \/ I!RecordCounts(r) \/ I!ApplyRules(r)
  BY <1>6 DEF I!WriteParts, I!CountRows, I!RecordCounts, I!ApplyRules, Leaves
<1>7. CASE I!CleanUp(r)
  <2>1. CASE I!Held(r) = {}
    BY <1>7, <2>1 DEF I!CleanUp, Closes
  <2>2. CASE I!Held(r) # {}
    BY <1>7, <2>2 DEF I!CleanUp, Leaves
  <2> QED BY <2>1, <2>2
<1>8. CASE I!Weigh(r) \/ I!FindBatch(r)
  BY <1>8 DEF I!Weigh, I!FindBatch, Leaves
<1>9. CASE I!RemoveBatch(r)
  BY <1>9 DEF I!RemoveBatch, Deletes, Leaves
<1>10. CASE I!Throw(r)
  BY <1>10 DEF I!Throw, Leaves
<1> QED BY <1>1, <1>2, <1>3, <1>4, <1>5, <1>6, <1>7, <1>8, <1>9, <1>10 DEF I!Runs

(* For everyone else, a batch that still exists holds what it held, one    *)
(* that does not holds nothing, a stored row stays or is in what r deleted *)
(* and nothing is stored but in the batch of r.                            *)
Moves(r) ==
    /\ batches' \subseteq batches \cup {r}
    /\ \A b \in batches' : b # r => I!Held(b)' = I!Held(b)
    /\ \A b \in I!Batches : b # r => I!Held(b)' \subseteq I!Held(b)
    /\ \A k \in Rows :
           \/ holder'[k] = holder[k]
           \/ holder[k] = Nobody /\ holder'[k] = r /\ pc[r] = "insert"
           \/ holder[k] = ask[r].batch /\ k \in removed'[r] /\ pc[r] = "remove"
    /\ \A q \in Requests : removed[q] \subseteq removed'[q]
    /\ Filed'

(* A stored row survives every statement but the deletion of its batch.    *)
LEMMA StoreMoves ==
    ASSUME I!ImportConstants, I!TypeOK, NEW r \in Requests, Stands(r), Filed, I!Runs(r)
    PROVE  Moves(r)
<1>1. holder \in [Rows -> I!Batches \cup {Nobody}] /\ removed \in [Requests -> SUBSET Rows]
      /\ r \in I!Batches /\ r # Nobody /\ Nobody \notin batches /\ ask[r].batch # Nobody
      /\ ask[r].batch # r
  BY BatchNames DEF I!TypeOK, I!Batches, Stands
<1>2. CASE Deletes(r)
  <2>1. removed[r] = {}
    BY <1>2 DEF Stands, Deletes
  <2>2. removed'[r] = I!Held(ask[r].batch) /\ \A q \in Requests \ {r} : removed'[q] = removed[q]
    BY <1>1, <1>2 DEF Deletes
  <2>3. \A k \in Rows : holder'[k] = IF holder[k] = ask[r].batch THEN Nobody ELSE holder[k]
    BY <1>2 DEF Deletes
  <2>4. /\ \A k \in Rows : holder'[k] = holder[k]
                            \/ (holder[k] = ask[r].batch /\ k \in removed'[r])
        /\ pc[r] = "remove"
    BY <1>2, <2>2, <2>3 DEF I!Held, Deletes
  <2>5. \A b \in I!Batches : b # ask[r].batch => I!Held(b)' = I!Held(b)
    BY <1>1, <2>3, BatchNames DEF I!Held
  <2>6. \A b \in I!Batches : b = ask[r].batch => I!Held(b)' = {}
    BY <1>1, <2>3 DEF I!Held
  <2>7. Filed'
    BY <1>1, <1>2, <2>3 DEF Filed, I!Stored, Deletes
  <2>8. \A q \in Requests : removed[q] \subseteq removed'[q]
    BY <2>1, <2>2
  <2>9. batches' \subseteq batches /\ batches' \subseteq I!Batches /\ ask[r].batch \notin batches'
    BY <1>2 DEF Deletes, I!TypeOK
  <2>10. \A b \in I!Batches : b # r => I!Held(b)' \subseteq I!Held(b)
    BY <2>5, <2>6
  <2> QED BY <2>4, <2>5, <2>7, <2>8, <2>9, <2>10 DEF Moves
<1>3. CASE Stores(r)
  <2>1. I!Row(r) \in Rows
    BY <1>3, RowInHand DEF Stores, Landing
  <2>2. holder[I!Row(r)] = Nobody /\ holder'[I!Row(r)] = r
        /\ \A k \in Rows \ {I!Row(r)} : holder'[k] = holder[k]
    BY <1>1, <1>3, <2>1 DEF Stores, I!Stored
  <2>3. \A b \in I!Batches : b # r => I!Held(b)' = I!Held(b)
    <3> SUFFICES ASSUME NEW b \in I!Batches, b # r PROVE I!Held(b)' = I!Held(b)
      OBVIOUS
    <3>1. b # Nobody
      BY DEF I!ImportConstants, I!Batches
    <3>2. \A k \in Rows : holder'[k] = b <=> holder[k] = b
      BY <2>2, <3>1
    <3> QED BY <3>2 DEF I!Held
  <2>4. Filed'
    BY <1>3, <2>2 DEF Filed, I!Stored, Stores
  <2>5. batches' = batches /\ batches \subseteq I!Batches /\ removed' = removed
        /\ pc[r] = "insert"
    BY <1>3 DEF Stores, I!TypeOK
  <2> QED BY <2>2, <2>3, <2>4, <2>5 DEF Moves
<1>4. CASE Opens(r) \/ Closes(r) \/ Leaves
  <2>1. holder' = holder /\ removed' = removed /\ batches' \subseteq batches \cup {r}
        /\ (batches \ {r}) \subseteq batches'
    BY <1>4 DEF Opens, Closes, Leaves, I!store
  <2>2. \A b : I!Held(b)' = I!Held(b)
    BY <2>1 DEF I!Held
  <2>3. Filed'
    <3>1. CASE Closes(r)
      BY <2>1, <3>1 DEF Filed, I!Stored, Closes, I!Held
    <3>2. CASE Opens(r) \/ Leaves
      BY <2>1, <3>2 DEF Filed, I!Stored, Opens, Leaves, I!store
    <3> QED BY <1>4, <3>1, <3>2
  <2> QED BY <2>1, <2>2, <2>3 DEF Moves
<1> QED BY <1>2, <1>3, <1>4, StoreSteps

-----------------------------------------------------------------------------
(* Types.  The number of duplicates stays in its range because each row is *)
(* skipped at most once, which is why SkipsOnce goes with them.            *)
LEMMA SkipTypes ==
    ASSUME I!ImportConstants, I!TypeOK, NEW r \in Requests, Stands(r), SkipsOnce(r),
           pc[r] \in Landing, I!Skip(r)
    PROVE  /\ todo' \in [Requests -> SUBSET Rows]
           /\ duplicates' \in [Requests -> 0 .. I!Cardinality(Rows)]
           /\ pc' \in [Requests -> I!Places]
           /\ SkipsOnce(r)'
<1>1. I!Row(r) \in todo[r] /\ todo[r] \subseteq Rows
  BY RowInHand DEF I!TypeOK
<1>2. todo' = [todo EXCEPT ![r] = todo[r] \ {I!Row(r)}]
      /\ duplicates' = [duplicates EXCEPT ![r] = duplicates[r] + 1]
      /\ pc' = [pc EXCEPT ![r] = I!NextPlace(r)]
  BY DEF I!Skip, I!Goto
<1>3. Cardinality(todo[r] \ {I!Row(r)}) = Cardinality(todo[r]) - 1
      /\ Cardinality(todo[r]) \in Nat /\ Cardinality(todo[r]) # 0
      /\ I!Cardinality(Rows) = Cardinality(Rows) /\ Cardinality(Rows) \in Nat
  BY <1>1, RowSets
<1>4. duplicates \in [Requests -> 0 .. Cardinality(Rows)]
  BY <1>3 DEF I!TypeOK
<1>5. duplicates[r] + 1 \in 0 .. Cardinality(Rows)
  <2>1. duplicates[r] \in Nat
    BY <1>3, <1>4
  <2> QED BY <1>3, <2>1 DEF SkipsOnce
<1>6. duplicates' \in [Requests -> 0 .. I!Cardinality(Rows)]
  BY <1>2, <1>3, <1>4, <1>5
<1>7. todo' \in [Requests -> SUBSET Rows] /\ todo'[r] = todo[r] \ {I!Row(r)}
  BY <1>1, <1>2 DEF I!TypeOK
<1>8. duplicates'[r] = duplicates[r] + 1 /\ duplicates[r] \in Nat
  BY <1>2, <1>3, <1>4
<1>9. SkipsOnce(r)'
  BY <1>3, <1>7, <1>8 DEF SkipsOnce
<1>10. pc' \in [Requests -> I!Places]
  BY <1>2 DEF I!TypeOK, I!NextPlace, I!FirstCheck, I!Places
<1> QED BY <1>6, <1>7, <1>9, <1>10

(* A row that the loop counts is off its list.                             *)
LEMMA ReachedTypes ==
    ASSUME I!ImportConstants, I!TypeOK, NEW r \in Requests, Stands(r), SkipsOnce(r),
           pc[r] \in Landing, I!Reached(r, I!Row(r)), UNCHANGED duplicates
    PROVE  /\ todo' \in [Requests -> SUBSET Rows]
           /\ landed' \in [Requests -> SUBSET Rows]
           /\ pc' \in [Requests -> I!Places]
           /\ SkipsOnce(r)'
<1>1. I!Row(r) \in todo[r] /\ I!Row(r) \in Rows /\ todo[r] \subseteq Rows
  BY RowInHand DEF I!TypeOK
<1>2. todo' = [todo EXCEPT ![r] = todo[r] \ {I!Row(r)}]
      /\ landed' = [landed EXCEPT ![r] = landed[r] \cup {I!Row(r)}]
      /\ pc' = [pc EXCEPT ![r] = I!NextPlace(r)]
  BY DEF I!Reached, I!Goto
<1>3. /\ todo' \in [Requests -> SUBSET Rows] /\ landed' \in [Requests -> SUBSET Rows]
      /\ todo'[r] = todo[r] \ {I!Row(r)} /\ duplicates'[r] = duplicates[r]
  BY <1>1, <1>2 DEF I!TypeOK
<1>4. pc' \in [Requests -> I!Places]
  BY <1>2 DEF I!TypeOK, I!NextPlace, I!FirstCheck, I!Places
<1>5. Cardinality(todo[r] \ {I!Row(r)}) = Cardinality(todo[r]) - 1
      /\ Cardinality(todo[r]) \in Nat /\ I!Cardinality(Rows) = Cardinality(Rows)
      /\ Cardinality(Rows) \in Nat
  BY <1>1, RowSets
<1>6. duplicates[r] \in Nat
  BY <1>5 DEF I!TypeOK
<1>7. SkipsOnce(r)'
  BY <1>3, <1>5, <1>6 DEF SkipsOnce
<1> QED BY <1>3, <1>4, <1>7

(* A request begins with types and no row skipped.                         *)
LEMMA AsksImportTypes ==
    ASSUME I!ImportConstants, I!TypeOK, NEW r \in Requests, Stands(r), I!Asks(r)
    PROVE  I!TypeOK' /\ SkipsOnce(r)'
<1>0. duplicates[r] = 0
  BY DEF I!Asks, I!AskImport, I!AskCancel, Stands
<1>1. CASE I!AskImport(r)
  <2>1. PICK reading \in Readings, sure \in BOOLEAN, b \in batches \cup {First},
             kind \in {"import", "correct"} :
            /\ ask' = [ask EXCEPT ![r] = [kind |-> kind, reading |-> reading,
                                          batch |-> b, sure |-> sure]]
            /\ todo' = [todo EXCEPT ![r] = reading.rows]
            /\ I!Goto(r, IF sure THEN "create" ELSE "known")
    BY <1>1 DEF I!AskImport
  <2>2. reading.rows \subseteq Rows /\ b \in I!Batches
    BY DEF I!ImportConstants, I!TypeOK, I!Batches
  <2>3. [kind |-> kind, reading |-> reading, batch |-> b, sure |-> sure]
            \in [kind : I!Kinds, reading : Readings, batch : I!Batches, sure : BOOLEAN]
    BY <2>2 DEF I!Kinds
  <2>4. ask' \in [Requests -> [kind : I!Kinds, reading : Readings, batch : I!Batches,
                              sure : BOOLEAN]]
    BY <2>1, <2>3 DEF I!TypeOK
  <2>5. todo' \in [Requests -> SUBSET Rows] /\ pc' \in [Requests -> I!Places]
        /\ todo'[r] = reading.rows
    BY <2>1, <2>2 DEF I!TypeOK, I!Places, I!Goto
  <2>6. UNCHANGED <<I!store, I!history, candidates, duplicates, landed, counted, interrupted,
                  faults>>
    BY <1>1 DEF I!AskImport
  <2>7. I!TypeOK'
    BY <2>4, <2>5, <2>6 DEF I!TypeOK, I!store, I!history
  <2>8. Cardinality(reading.rows) \in 0 .. Cardinality(Rows) /\ Cardinality(Rows) \in Nat
    BY <2>2, RowSets
  <2>9. SkipsOnce(r)'
    BY <1>0, <2>5, <2>6, <2>8 DEF SkipsOnce
  <2> QED BY <2>7, <2>9
<1>2. CASE I!AskCancel(r)
  <2>1. PICK b \in batches :
            ask' = [ask EXCEPT ![r] = [I!NoAsk EXCEPT !.kind = "cancel", !.batch = b]]
    BY <1>2 DEF I!AskCancel
  <2>2. [I!NoAsk EXCEPT !.kind = "cancel", !.batch = b]
            \in [kind : I!Kinds, reading : Readings, batch : I!Batches, sure : BOOLEAN]
    BY DEF I!ImportConstants, I!TypeOK, I!Kinds, I!NoAsk
  <2>3. ask' \in [Requests -> [kind : I!Kinds, reading : Readings, batch : I!Batches,
                              sure : BOOLEAN]]
    BY <2>1, <2>2 DEF I!TypeOK
  <2>4. pc' \in [Requests -> I!Places]
    BY <1>2 DEF I!TypeOK, I!Places, I!Goto, I!AskCancel
  <2>5. UNCHANGED <<I!store, I!history, candidates, todo, duplicates, landed, counted,
                  interrupted, faults>>
    BY <1>2 DEF I!AskCancel
  <2>6. I!TypeOK'
    BY <2>3, <2>4, <2>5 DEF I!TypeOK, I!store, I!history
  <2>7. todo[r] \subseteq Rows
    BY DEF I!TypeOK
  <2>8. Cardinality(todo[r]) \in 0 .. Cardinality(Rows) /\ Cardinality(Rows) \in Nat
    BY <2>7, RowSets
  <2>9. SkipsOnce(r)'
    BY <1>0, <2>5, <2>8 DEF SkipsOnce
  <2> QED BY <2>6, <2>9
<1> QED BY <1>1, <1>2 DEF I!Asks

(* Every statement keeps the types.                                        *)
LEMMA RunsImportTypes ==
    ASSUME I!ImportConstants, I!TypeOK, NEW r \in Requests, Stands(r), SkipsOnce(r), I!Runs(r)
    PROVE  I!TypeOK' /\ SkipsOnce(r)'
<1>c. MaxFaults \in Nat /\ \A n \in 0 .. MaxFaults : n < MaxFaults => n + 1 \in 0 .. MaxFaults
  BY DEF I!ImportConstants
<1>b. ASSUME NEW S, S \subseteq Rows PROVE I!Cardinality(S) \in 0 .. I!Cardinality(Rows)
  BY <1>b, RowSets
<1> USE DEF I!TypeOK, I!Goto, I!store, I!history, I!Places, I!Answers
<1>a. ASSUME UNCHANGED <<todo, duplicates>> PROVE SkipsOnce(r)'
  BY <1>a DEF SkipsOnce
<1>1. CASE I!ReadKnown(r)
  <2>1. {k \in ask[r].reading.rows : I!Stored(k)} \subseteq Rows
    BY ReadingTypes DEF RowsOf
  <2> QED BY <1>1, <1>a, <2>1 DEF I!ReadKnown
<1>2. CASE I!Compare(r) \/ I!CreateBatch(r) \/ I!Prepare(r)
  BY <1>2, <1>a DEF I!Compare, I!CreateBatch, I!Prepare, I!FirstCheck, I!Batches
<1>13. CASE I!ListCandidates(r)
  <2>1. I!Candidates(r) \subseteq I!Batches
    BY DEF I!Candidates
  <2> QED BY <1>13, <1>a, <2>1 DEF I!ListCandidates
<1>d. ASSUME pc[r] \in Landing, I!Shares(r, I!Row(r))
      PROVE  shared' \in [Requests -> SUBSET Rows]
  <2>1. I!Row(r) \in Rows
    BY <1>d, RowInHand
  <2> QED BY <1>d, <2>1 DEF I!Shares
<1>14. CASE I!CheckMirror(r)
  <2>1. pc[r] \in Landing
    BY <1>14 DEF I!CheckMirror, Landing
  <2>2. CASE I!MirrorStored(r, I!Row(r))
    BY <1>14, <2>1, <2>2, SkipTypes DEF I!CheckMirror
  <2>3. CASE ~I!MirrorStored(r, I!Row(r))
    BY <1>14, <1>a, <2>3 DEF I!CheckMirror
  <2> QED BY <2>2, <2>3
<1>3. CASE I!CheckRow(r)
  <2>1. pc[r] \in Landing
    BY <1>3 DEF I!CheckRow, Landing
  <2>2. CASE I!Stored(I!Row(r))
    BY <1>3, <1>d, <2>1, <2>2, SkipTypes DEF I!CheckRow
  <2>3. CASE ~I!Stored(I!Row(r))
    BY <1>3, <1>a, <2>3 DEF I!CheckRow
  <2> QED BY <2>2, <2>3
<1>4. CASE I!InsertConflicts(r)
  BY <1>4, <1>a DEF I!InsertConflicts
<1>15. CASE I!Requery(r)
  <2>1. pc[r] \in Landing
    BY <1>15 DEF I!Requery, Landing
  <2>2. CASE I!Stored(I!Row(r))
    BY <1>15, <1>d, <2>1, <2>2, SkipTypes DEF I!Requery
  <2>3. CASE ~I!Stored(I!Row(r))
    BY <1>15, <1>a, <2>3 DEF I!Requery
  <2> QED BY <2>2, <2>3
<1>5. CASE I!InsertDangles(r)
  BY <1>5, <1>a DEF I!InsertDangles
<1>6. CASE I!InsertRow(r)
  <2>1. pc[r] \in Landing
    BY <1>6 DEF I!InsertRow, Landing
  <2>2. holder' \in [Rows -> I!Batches \cup {Nobody}]
    BY <1>6 DEF I!InsertRow, I!Batches
  <2>3. CASE I!Row(r) \in Divided
    BY <1>6, <1>a, <2>2, <2>3 DEF I!InsertRow
  <2>4. CASE I!Row(r) \notin Divided
    BY <1>6, <2>1, <2>2, <2>4, ReachedTypes DEF I!InsertRow
  <2> QED BY <2>3, <2>4
<1>7. CASE I!WriteParts(r)
  <2>1. pc[r] \in Landing
    BY <1>7 DEF I!WriteParts, Landing
  <2>2. CASE holder[I!Row(r)] = r
    BY <1>7, <2>1, <2>2, ReachedTypes DEF I!WriteParts
  <2>3. CASE holder[I!Row(r)] # r
    BY <1>7, <1>a, <2>3 DEF I!WriteParts
  <2> QED BY <2>2, <2>3
<1>8. CASE I!CountRows(r)
  <2>1. I!Held(r) \subseteq Rows
    BY DEF I!Held
  <2>2. I!LedgerCount(r) \in 0 .. I!Cardinality(Rows)
    BY <1>b, <2>1 DEF I!LedgerCount
  <2> QED BY <1>8, <1>a, <2>2 DEF I!CountRows
<1>9. CASE I!RecordCounts(r) \/ I!ApplyRules(r) \/ I!CleanUp(r)
  BY <1>9, <1>a DEF I!RecordCounts, I!ApplyRules, I!CleanUp, I!Failed
<1>10. CASE I!Weigh(r) \/ I!FindBatch(r)
  BY <1>10, <1>a DEF I!Weigh, I!FindBatch
<1>11. CASE I!RemoveBatch(r)
  <2>1. I!Held(ask[r].batch) \subseteq Rows
    BY DEF I!Held
  <2>2. CASE ask[r].batch \in batches
    <3>1. /\ removed' = [removed EXCEPT ![r] = I!Held(ask[r].batch)]
          /\ holder' = [k \in Rows |-> IF holder[k] = ask[r].batch THEN Nobody ELSE holder[k]]
          /\ batches' = batches \ {ask[r].batch}
          /\ pc'[r] \in {"deleted", "cancelled"}
          /\ pc' = [pc EXCEPT ![r] = pc'[r]]
          /\ UNCHANGED <<ask, candidates, todo, duplicates, landed, counted, interrupted,
                         shared, beside, absorbed, faults>>
      BY <1>11, <2>2 DEF I!RemoveBatch
    <3>2. removed' \in [Requests -> SUBSET Rows]
      BY <2>1, <3>1
    <3>3. holder' \in [Rows -> I!Batches \cup {Nobody}] /\ batches' \subseteq I!Batches
      BY <3>1
    <3>4. pc' \in [Requests -> I!Places]
      BY <3>1
    <3> QED BY <1>a, <3>1, <3>2, <3>3, <3>4
  <2>3. CASE ask[r].batch \notin batches
    BY <1>11, <1>a, <2>3 DEF I!RemoveBatch
  <2> QED BY <2>2, <2>3
<1>12. CASE I!Throw(r)
  <2>1. UNCHANGED <<I!store, ask, candidates, todo, duplicates, landed, counted, I!history>>
        /\ faults' = faults + 1 /\ faults < MaxFaults
    BY <1>12 DEF I!Throw
  <2>2. faults' \in 0 .. MaxFaults
    BY <1>c, <2>1
  <2>3. pc' \in [Requests -> I!Places] /\ interrupted' \in [Requests -> BOOLEAN]
    BY <1>12 DEF I!Throw, I!Failed
  <2> QED BY <1>a, <2>1, <2>2, <2>3
<1> QED BY <1>1, <1>2, <1>3, <1>4, <1>5, <1>6, <1>7, <1>8, <1>9, <1>10, <1>11, <1>12, <1>13,
           <1>14, <1>15 DEF I!Runs

-----------------------------------------------------------------------------
(* Where a request stands.                                                 *)
LEMMA OthersStand ==
    ASSUME I!TypeOK, NEW r \in Requests, OthersKeepImports(r), batches' \subseteq batches \cup {r},
           NEW s \in Requests, s # r, Stands(s), SkipsOnce(s)
    PROVE  Stands(s)' /\ SkipsOnce(s)'
<1>1. /\ pc'[s] = pc[s] /\ ask'[s] = ask[s] /\ todo'[s] = todo[s]
      /\ duplicates'[s] = duplicates[s] /\ removed'[s] = removed[s]
      /\ absorbed'[s] = absorbed[s] /\ interrupted'[s] = interrupted[s]
  BY DEF OthersKeepImports
<1>2. s \notin batches => s \notin batches'
  OBVIOUS
<1>3. SkipsOnce(s)'
  BY <1>1 DEF SkipsOnce
<1>4. Stands(s)'
  BY <1>1, <1>2 DEF Stands, I!Writes, I!Replacing, RowsOf, Landing, Before
<1> QED BY <1>3, <1>4

(* A request begins with no batch of its own.                              *)
LEMMA AsksStand ==
    ASSUME I!ImportConstants, I!TypeOK, NEW r \in Requests, Stands(r), I!Asks(r)
    PROVE  Stands(r)'
<1>1. pc[r] = "idle" /\ r \notin batches /\ batches' = batches /\ First # r
      /\ removed[r] = {} /\ absorbed[r] = {} /\ todo[r] = {}
      /\ removed' = removed /\ absorbed' = absorbed
  BY DEF I!Asks, I!AskImport, I!AskCancel, Stands, I!ImportConstants, I!store, I!history
<1>2. CASE I!AskImport(r)
  <2>1. PICK reading \in Readings, sure \in BOOLEAN, b \in batches \cup {First},
             kind \in {"import", "correct"} :
            /\ ask' = [ask EXCEPT ![r] = [kind |-> kind, reading |-> reading,
                                          batch |-> b, sure |-> sure]]
            /\ todo' = [todo EXCEPT ![r] = reading.rows]
            /\ I!Goto(r, IF sure THEN "create" ELSE "known")
    BY <1>2 DEF I!AskImport
  <2>2. b # r /\ reading.rows # {}
    <3>1. reading \in [rows : (SUBSET Rows) \ {{}}, from : Nat, to : Nat, answered : BOOLEAN]
      BY DEF I!ImportConstants
    <3> QED BY <1>1, <3>1
  <2>3. /\ ask'[r] = [kind |-> kind, reading |-> reading, batch |-> b, sure |-> sure]
        /\ todo'[r] = reading.rows /\ pc'[r] \in {"create", "known"}
    BY <2>1 DEF I!TypeOK, I!Goto
  <2>4. ask'[r].kind = kind /\ ask'[r].batch = b /\ ask'[r].reading = reading
        /\ kind # "cancel"
    BY <2>3
  <2> HIDE DEF I!TypeOK
  <2> QED BY <1>1, <2>2, <2>3, <2>4 DEF Stands, I!Writes, RowsOf, Landing, Before
<1>3. CASE I!AskCancel(r)
  <2>1. PICK b \in batches :
            ask' = [ask EXCEPT ![r] = [I!NoAsk EXCEPT !.kind = "cancel", !.batch = b]]
    BY <1>3 DEF I!AskCancel
  <2>2. /\ ask'[r] = [I!NoAsk EXCEPT !.kind = "cancel", !.batch = b] /\ b # r
        /\ pc'[r] = "find" /\ todo' = todo
    BY <1>1, <1>3, <2>1 DEF I!TypeOK, I!Goto, I!AskCancel
  <2>3. ask'[r].kind = "cancel" /\ ask'[r].batch = b
    BY <2>2 DEF I!NoAsk
  <2> QED BY <1>1, <2>2, <2>3 DEF Stands, I!Writes, RowsOf, Landing, Before
<1> QED BY <1>2, <1>3 DEF I!Asks

(* A list of two rows has one left.                                        *)
LEMMA LastRow ==
    ASSUME NEW S, NEW k \in S, S # {k}
    PROVE  S \ {k} # {}
OBVIOUS

(* Every statement leaves its request where what it holds fits.            *)
LEMMA RunsStand ==
    ASSUME I!ImportConstants, I!TypeOK, NEW r \in Requests, Stands(r), I!Runs(r)
    PROVE  Stands(r)'
<1> USE DEF I!TypeOK, I!Goto, I!store, I!history, Stands, I!Writes, I!Replacing, RowsOf, Landing,
            Before
<1>0. ask' = ask
  BY RunsFrame
<1>1. CASE I!ReadKnown(r)
  BY <1>1 DEF I!ReadKnown
<1>20. CASE I!ListCandidates(r)
  BY <1>20 DEF I!ListCandidates
<1>2. CASE I!Compare(r)
  BY <1>2 DEF I!Compare
<1>3. CASE I!CreateBatch(r)
  BY <1>3 DEF I!CreateBatch
<1>18. CASE I!Prepare(r)
  BY <1>18 DEF I!Prepare, I!FirstCheck
<1>4. ASSUME I!Skip(r), pc[r] \in Landing, UNCHANGED <<batches, ask, removed, absorbed>>
      PROVE  Stands(r)'
  <2>1. I!Row(r) \in todo[r]
    BY <1>4, RowInHand
  <2>2. todo'[r] = todo[r] \ {I!Row(r)} /\ pc'[r] = I!NextPlace(r)
    BY <1>4 DEF I!Skip
  <2>3. pc'[r] \in {"count", "mirror", "check"} /\ (pc'[r] = "count" <=> todo'[r] = {})
    BY <2>1, <2>2, LastRow DEF I!NextPlace, I!FirstCheck
  <2> QED BY <1>4, <2>2, <2>3
<1>21. CASE I!CheckMirror(r)
  <2>1. CASE I!MirrorStored(r, I!Row(r))
    BY <1>4, <1>21, <2>1 DEF I!CheckMirror
  <2>2. CASE ~I!MirrorStored(r, I!Row(r))
    BY <1>21, <2>2 DEF I!CheckMirror
  <2> QED BY <2>1, <2>2
<1>5. CASE I!CheckRow(r)
  <2>1. CASE I!Stored(I!Row(r))
    BY <1>4, <1>5, <2>1 DEF I!CheckRow
  <2>2. CASE ~I!Stored(I!Row(r))
    BY <1>5, <2>2 DEF I!CheckRow
  <2> QED BY <2>1, <2>2
<1>6. CASE I!InsertConflicts(r)
  BY <1>6 DEF I!InsertConflicts
<1>22. CASE I!Requery(r)
  <2>1. CASE I!Stored(I!Row(r))
    BY <1>4, <1>22, <2>1 DEF I!Requery
  <2>2. CASE ~I!Stored(I!Row(r))
    BY <1>22, <2>2 DEF I!Requery
  <2> QED BY <2>1, <2>2
<1>7. CASE I!InsertDangles(r)
  BY <1>7 DEF I!InsertDangles
<1>8. ASSUME I!Reached(r, I!Row(r)), pc[r] \in Landing,
             UNCHANGED <<batches, ask, removed, absorbed>>
      PROVE  Stands(r)'
  <2>1. I!Row(r) \in todo[r]
    BY <1>8, RowInHand
  <2>2. todo'[r] = todo[r] \ {I!Row(r)} /\ pc'[r] = I!NextPlace(r)
    BY <1>8 DEF I!Reached
  <2>3. pc'[r] \in {"count", "mirror", "check"} /\ (pc'[r] = "count" <=> todo'[r] = {})
    BY <2>1, <2>2, LastRow DEF I!NextPlace, I!FirstCheck
  <2> QED BY <1>8, <2>2, <2>3
<1>9. CASE I!InsertRow(r)
  <2>1. CASE I!Row(r) \in Divided
    BY <1>9, <2>1 DEF I!InsertRow
  <2>2. CASE I!Row(r) \notin Divided
    BY <1>8, <1>9, <2>2 DEF I!InsertRow
  <2> QED BY <2>1, <2>2
<1>10. CASE I!WriteParts(r)
  <2>1. CASE holder[I!Row(r)] = r
    BY <1>8, <1>10, <2>1 DEF I!WriteParts
  <2>2. CASE holder[I!Row(r)] # r
    BY <1>10, <2>2 DEF I!WriteParts
  <2> QED BY <2>1, <2>2
<1>11. CASE I!CountRows(r)
  BY <1>11 DEF I!CountRows
<1>12. CASE I!RecordCounts(r)
  BY <1>12 DEF I!RecordCounts, I!Failed
<1>19. CASE I!ApplyRules(r)
  BY <1>19 DEF I!ApplyRules
<1>13. CASE I!CleanUp(r)
  BY <1>13 DEF I!CleanUp
<1>14. CASE I!Weigh(r)
  BY <1>14 DEF I!Weigh
<1>15. CASE I!FindBatch(r)
  BY <1>15 DEF I!FindBatch
<1>16. CASE I!RemoveBatch(r)
  <2>1. CASE ask[r].batch \in batches
    BY <1>16, <2>1 DEF I!RemoveBatch
  <2>2. CASE ask[r].batch \notin batches
    BY <1>16, <2>2 DEF I!RemoveBatch
  <2> QED BY <2>1, <2>2
<1>17. CASE I!Throw(r)
  BY <1>17 DEF I!Throw, I!Failed
<1> QED BY <1>1, <1>2, <1>3, <1>5, <1>6, <1>7, <1>9, <1>10, <1>11, <1>12, <1>13, <1>14,
           <1>15, <1>16, <1>17, <1>18, <1>19, <1>20, <1>21, <1>22 DEF I!Runs

-----------------------------------------------------------------------------
(* What the figure counts.                                                 *)
LEMMA NoBatch ==
    ASSUME I!ImportConstants, Filed, NEW b \in I!Batches, b \notin batches
    PROVE  I!Held(b) = {}
BY BatchNames DEF Filed, I!Stored, I!Held

(* Nobody else adds to a batch or takes from it but by deleting it.        *)
LEMMA OthersCount ==
    ASSUME NEW r \in Requests, OthersKeepImports(r), Moves(r),
           NEW s \in Requests, s # r, Counts(s)
    PROVE  Counts(s)'
<1>1. pc'[s] = pc[s] /\ counted'[s] = counted[s] /\ s \in I!Batches
  BY DEF OthersKeepImports, I!Batches
<1>2. I!Held(s)' \subseteq I!Held(s) /\ (s \in batches' => s \in batches /\ I!Held(s)' = I!Held(s))
  BY <1>1 DEF Moves
<1> QED BY <1>1, <1>2 DEF Counts

(* A figure is read once the rows are in and stays true after.             *)
LEMMA RunsCount ==
    ASSUME I!ImportConstants, I!TypeOK, NEW r \in Requests, Stands(r), Filed, Counts(r), I!Runs(r)
    PROVE  Counts(r)'
<1>1. r \in I!Batches /\ I!Held(r) \subseteq Rows /\ (r \notin batches => I!Held(r) = {})
  BY NoBatch DEF I!Batches, I!Held
<1>2. I!Cardinality(I!Held(r)) = Cardinality(I!Held(r))
      /\ (Cardinality(I!Held(r)) = 0 <=> I!Held(r) = {})
  BY <1>1, RowSets
<1>3. pc[r] = "record" \/ pc[r] = "rules" => (counted[r] = 0 => I!Held(r) = {})
  BY <1>1, <1>2 DEF Counts, Told
<1>4. holder' = holder => I!Held(r)' = I!Held(r)
  BY DEF I!Held
<1> USE DEF I!TypeOK, I!Goto, I!store, I!history, Counts, Told
<1>5. CASE I!ReadKnown(r)
  BY <1>5 DEF I!ReadKnown
<1>6. CASE I!ListCandidates(r) \/ I!Compare(r)
  BY <1>6 DEF I!ListCandidates, I!Compare
<1>7. CASE I!CreateBatch(r)
  BY <1>1, <1>4, <1>7 DEF I!CreateBatch, Stands, Before
<1>8. CASE I!Prepare(r)
  BY <1>4, <1>8 DEF I!Prepare, I!FirstCheck
<1>9. CASE I!CheckMirror(r) \/ I!CheckRow(r)
  BY <1>9 DEF I!CheckMirror, I!CheckRow, I!Skip, I!NextPlace, I!FirstCheck
<1>10. CASE I!InsertConflicts(r) \/ I!Requery(r)
  BY <1>10 DEF I!InsertConflicts, I!Requery, I!Skip, I!NextPlace, I!FirstCheck
<1>11. CASE I!InsertDangles(r)
  BY <1>11 DEF I!InsertDangles
<1>12. CASE I!InsertRow(r)
  <2>1. pc'[r] \in {"parts", "mirror", "check", "count"}
    BY <1>12 DEF I!InsertRow, I!Reached, I!NextPlace, I!FirstCheck
  <2> QED BY <2>1
<1>13. CASE I!WriteParts(r)
  <2>1. pc'[r] \in {"mirror", "check", "count"}
    BY <1>13 DEF I!WriteParts, I!Reached, I!NextPlace, I!FirstCheck
  <2> QED BY <2>1
<1>14. CASE I!CountRows(r)
  <2>1. counted'[r] = I!LedgerCount(r) /\ holder' = holder /\ pc'[r] = "record"
    BY <1>14 DEF I!CountRows
  <2>2. counted'[r] = Cardinality(I!Held(r)')
    BY <1>2, <1>4, <2>1 DEF I!LedgerCount
  <2> QED BY <2>1, <2>2
<1>15. CASE I!RecordCounts(r)
  BY <1>3, <1>4, <1>15 DEF I!RecordCounts, I!Failed
<1>16. CASE I!ApplyRules(r)
  BY <1>4, <1>16 DEF I!ApplyRules
<1>17. CASE I!CleanUp(r)
  BY <1>4, <1>17 DEF I!CleanUp
<1>18. CASE I!Weigh(r)
  BY <1>4, <1>18 DEF I!Weigh
<1>19. CASE I!FindBatch(r)
  BY <1>4, <1>19 DEF I!FindBatch
<1>20. CASE I!RemoveBatch(r)
  <2>1. CASE ask[r].batch \in batches
    <3>1. ask[r].batch # r /\ ask[r].batch \in I!Batches /\ r # Nobody
      BY <2>1, ReadingTypes DEF Stands, I!ImportConstants
    <3>2. \A k \in Rows : holder'[k] = IF holder[k] = ask[r].batch THEN Nobody ELSE holder[k]
      BY <1>20, <2>1 DEF I!RemoveBatch
    <3>3. I!Held(r)' = I!Held(r)
      BY <3>1, <3>2 DEF I!Held
    <3>4. pc'[r] \in {"deleted", "cancelled"} /\ batches' \subseteq batches /\ counted' = counted
          /\ pc[r] = "remove"
      BY <1>20, <2>1 DEF I!RemoveBatch
    <3> QED BY <3>3, <3>4
  <2>2. CASE ask[r].batch \notin batches
    BY <1>20, <2>2 DEF I!RemoveBatch
  <2> QED BY <2>1, <2>2
<1>21. CASE I!Throw(r)
  <2>1. holder' = holder /\ batches' = batches /\ counted' = counted
    BY <1>21 DEF I!Throw
  <2>2. \/ pc[r] = "create" /\ pc'[r] = "nothing"
        \/ pc[r] \in {"prepare", "clean"} /\ pc'[r] \in {"clean", "nothing"}
        \/ pc[r] = "rules" /\ pc'[r] = I!Failed(r)
        \/ pc'[r] \in {"count", "maybe", "error"}
    BY <1>21 DEF I!Throw
  <2>3. pc[r] = "rules" => pc'[r] \in {"count", "maybe", "error", "partly"} \/ I!Held(r) = {}
    BY <1>3, <2>2 DEF I!Failed
  <2>4. pc[r] = "create" => I!Held(r) = {}
    BY <1>1 DEF Stands, Before
  <2>5. pc'[r] \in {"prepare", "clean", "nothing"} => I!Held(r) = {}
    BY <2>2, <2>3, <2>4
  <2>6. r \in batches /\ pc'[r] \in Told => counted[r] = Cardinality(I!Held(r))
    BY <2>2 DEF I!Failed
  <2> QED BY <1>4, <2>1, <2>5, <2>6
<1> QED BY <1>5, <1>6, <1>7, <1>8, <1>9, <1>10, <1>11, <1>12, <1>13, <1>14, <1>15, <1>16,
           <1>17, <1>18, <1>19, <1>20, <1>21 DEF I!Runs

-----------------------------------------------------------------------------
(* What is not lost.                                                       *)

(* A row once spared is spared.                                            *)
LEMMA StaysSpared ==
    ASSUME I!ImportConstants, I!TypeOK, NEW r \in Requests, Stands(r), Moves(r), UNCHANGED ask,
           NEW s \in Requests, I!Writes(s), NEW k \in Rows, Spared(s, k)
    PROVE  Spared(s, k)'
<1>1. I!Replacing(s)' = I!Replacing(s) /\ ask'[s] = ask[s]
  BY DEF I!Replacing
<1>2. ASSUME I!RemovedBeside(s, k) PROVE I!RemovedBeside(s, k)'
  <2>1. PICK q \in Requests \ {s} : k \in removed[q]
    BY <1>2 DEF I!RemovedBeside
  <2>2. k \in removed'[q]
    BY <2>1 DEF Moves
  <2> QED BY <2>2 DEF I!RemovedBeside
<1>3. ASSUME I!Stored(k), I!Replacing(s) => holder[k] # ask[s].batch PROVE Spared(s, k)'
  <2>1. CASE holder'[k] = holder[k]
    BY <1>1, <1>3, <2>1 DEF Spared, I!Stored
  <2>2. CASE holder[k] = ask[r].batch /\ k \in removed'[r] /\ pc[r] = "remove"
    <3>1. CASE s # r
      BY <2>2, <3>1 DEF Spared, I!RemovedBeside
    <3>2. CASE s = r
      BY <1>3, <2>2, <3>2 DEF Stands
    <3> QED BY <3>1, <3>2
  <2> QED BY <1>3, <2>1, <2>2 DEF Moves, I!Stored
<1> QED BY <1>2, <1>3 DEF Spared

(* Nothing another request does loses a row passed.                        *)
LEMMA OthersSafe ==
    ASSUME I!ImportConstants, I!TypeOK, NEW r \in Requests, Stands(r), Moves(r), UNCHANGED ask,
           OthersKeepImports(r), NEW s \in Requests, s # r, Safe(s)
    PROVE  Safe(s)'
<1>1. pc'[s] = pc[s] /\ ask'[s] = ask[s] /\ todo'[s] = todo[s] /\ shared'[s] = shared[s]
  BY DEF OthersKeepImports
<1> SUFFICES ASSUME I!Writes(s), pc[s] # "idle", NEW k \in RowsOf(s) \ todo[s]
             PROVE  \/ k \in shared[s] \/ Spared(s, k)'
                    \/ ask[s].reading.answered /\ Spared(s, Mirror[k])'
  BY <1>1 DEF Safe, RowsOf, I!Writes
<1>2. k \in Rows /\ (ask[s].reading.answered => Mirror[k] \in Rows)
  BY ReadingTypes, MirrorTypes
<1> QED BY <1>2, StaysSpared DEF Safe

(* The rows a step passes: none, or the one in hand, with its reason.      *)
Passes(r) ==
    /\ shared[r] \subseteq shared'[r]
    /\ \/ todo'[r] = todo[r]
       \/ /\ pc[r] \in Landing
          /\ todo'[r] = todo[r] \ {I!Row(r)}
          /\ \/ I!Row(r) \in shared'[r]
             \/ Spared(r, I!Row(r))
             \/ ask[r].reading.answered /\ Spared(r, Mirror[I!Row(r)])
             \/ holder'[I!Row(r)] = r

(* Every row passed has its reason at that step.                           *)
LEMMA RunsPass ==
    ASSUME I!ImportConstants, I!TypeOK, NEW r \in Requests, Stands(r), I!Runs(r)
    PROVE  Passes(r)
<1> USE DEF I!TypeOK, I!store, I!history, Passes
<1>0. pc[r] \in Landing => I!Row(r) \in Rows
  BY RowInHand
<1>1. CASE I!ReadKnown(r) \/ I!ListCandidates(r) \/ I!Compare(r) \/ I!CreateBatch(r)
         \/ I!Prepare(r)
  BY <1>1 DEF I!ReadKnown, I!ListCandidates, I!Compare, I!CreateBatch, I!Prepare
<1>2. ASSUME I!Skip(r), I!Shares(r, I!Row(r)), I!Stored(I!Row(r)), pc[r] \in Landing,
             UNCHANGED <<I!store, removed>>
      PROVE  Passes(r)
  <2>1. todo'[r] = todo[r] \ {I!Row(r)}
    BY <1>2 DEF I!Skip
  <2>2. CASE I!Replacing(r) /\ holder[I!Row(r)] = ask[r].batch
    BY <1>2, <2>1, <2>2 DEF I!Shares
  <2>3. CASE ~(I!Replacing(r) /\ holder[I!Row(r)] = ask[r].batch)
    BY <1>2, <2>1, <2>3 DEF I!Shares, Spared
  <2> QED BY <2>2, <2>3
<1>10. CASE I!CheckMirror(r)
  <2>1. pc[r] \in Landing /\ shared' = shared
    BY <1>10 DEF I!CheckMirror, Landing
  <2>2. CASE I!MirrorStored(r, I!Row(r))
    <3>1. todo'[r] = todo[r] \ {I!Row(r)}
      BY <1>10, <2>2 DEF I!CheckMirror, I!Skip
    <3>2. ask[r].reading.answered /\ Spared(r, Mirror[I!Row(r)])
      BY <2>2 DEF I!MirrorStored, Spared
    <3> QED BY <2>1, <3>1, <3>2
  <2>3. CASE ~I!MirrorStored(r, I!Row(r))
    BY <1>10, <2>1, <2>3 DEF I!CheckMirror
  <2> QED BY <2>2, <2>3
<1>3. CASE I!CheckRow(r)
  <2>1. pc[r] \in Landing /\ UNCHANGED <<I!store, removed>>
    BY <1>3 DEF I!CheckRow, Landing
  <2>2. CASE I!Stored(I!Row(r))
    BY <1>2, <1>3, <2>1, <2>2 DEF I!CheckRow
  <2>3. CASE ~I!Stored(I!Row(r))
    BY <1>3, <2>3 DEF I!CheckRow
  <2> QED BY <2>2, <2>3
<1>4. CASE I!InsertConflicts(r)
  BY <1>4 DEF I!InsertConflicts
<1>11. CASE I!Requery(r)
  <2>1. pc[r] \in Landing /\ UNCHANGED <<I!store, removed>>
    BY <1>11 DEF I!Requery, Landing
  <2>2. CASE I!Stored(I!Row(r))
    BY <1>2, <1>11, <2>1, <2>2 DEF I!Requery
  <2>3. CASE ~I!Stored(I!Row(r))
    BY <1>11, <2>3 DEF I!Requery
  <2> QED BY <2>2, <2>3
<1>5. CASE I!InsertDangles(r)
  BY <1>5 DEF I!InsertDangles
<1>6. CASE I!InsertRow(r)
  <2>1. holder'[I!Row(r)] = r /\ pc[r] \in Landing /\ shared' = shared
    BY <1>0, <1>6 DEF I!InsertRow, Landing
  <2>2. CASE I!Row(r) \in Divided
    BY <1>6, <2>1, <2>2 DEF I!InsertRow
  <2>3. CASE I!Row(r) \notin Divided
    BY <1>6, <2>1, <2>3 DEF I!InsertRow, I!Reached
  <2> QED BY <2>2, <2>3
<1>7. CASE I!WriteParts(r)
  <2>1. pc[r] \in Landing /\ shared' = shared /\ holder' = holder
    BY <1>7 DEF I!WriteParts, Landing
  <2>2. CASE holder[I!Row(r)] = r
    BY <1>7, <2>1, <2>2 DEF I!WriteParts, I!Reached
  <2>3. CASE holder[I!Row(r)] # r
    BY <1>7, <2>1, <2>3 DEF I!WriteParts
  <2> QED BY <2>2, <2>3
<1>8. CASE I!CountRows(r) \/ I!RecordCounts(r) \/ I!ApplyRules(r) \/ I!CleanUp(r)
  BY <1>8 DEF I!CountRows, I!RecordCounts, I!ApplyRules, I!CleanUp
<1>9. CASE I!Weigh(r) \/ I!FindBatch(r) \/ I!RemoveBatch(r) \/ I!Throw(r)
  BY <1>9 DEF I!Weigh, I!FindBatch, I!RemoveBatch, I!Throw
<1> QED BY <1>1, <1>3, <1>4, <1>5, <1>6, <1>7, <1>8, <1>9, <1>10, <1>11 DEF I!Runs

(* A request does not lose a row it passed itself.                         *)
LEMMA RunsSafe ==
    ASSUME I!ImportConstants, I!TypeOK, NEW r \in Requests, Stands(r), Moves(r), Safe(r), I!Runs(r)
    PROVE  Safe(r)'
<1>1. ask' = ask /\ pc[r] # "idle" /\ Passes(r)
  <2>1. pc[r] # "idle"
    BY DEF I!Runs, I!ReadKnown, I!ListCandidates, I!Compare, I!CreateBatch, I!Prepare,
           I!CheckMirror, I!CheckRow, I!InsertConflicts, I!Requery, I!InsertDangles,
           I!InsertRow, I!WriteParts, I!CountRows,
           I!RecordCounts, I!ApplyRules, I!CleanUp, I!Weigh, I!FindBatch, I!RemoveBatch, I!Throw
  <2> QED BY <2>1, RunsFrame, RunsPass
<1> SUFFICES ASSUME I!Writes(r), NEW k \in RowsOf(r) \ todo'[r]
             PROVE  \/ k \in shared'[r] \/ Spared(r, k)'
                    \/ ask[r].reading.answered /\ Spared(r, Mirror[k])'
  BY <1>1 DEF Safe, RowsOf, I!Writes
<1>2. k \in Rows /\ (ask[r].reading.answered => Mirror[k] \in Rows)
  BY ReadingTypes, MirrorTypes
<1>3. CASE k \notin todo[r]
  <2>1. \/ k \in shared[r] \/ Spared(r, k)
        \/ ask[r].reading.answered /\ Spared(r, Mirror[k])
    BY <1>1, <1>3 DEF Safe
  <2>2. shared[r] \subseteq shared'[r]
    BY <1>1 DEF Passes
  <2> QED BY <1>1, <1>2, <2>1, <2>2, StaysSpared
<1>4. CASE k \in todo[r]
  <2>1. k = I!Row(r)
    BY <1>1, <1>4 DEF Passes
  <2>2. \/ k \in shared'[r]
        \/ Spared(r, k)
        \/ ask[r].reading.answered /\ Spared(r, Mirror[k])
        \/ holder'[k] = r
    BY <1>1, <1>4, <2>1 DEF Passes
  <2>3. holder'[k] = r => Spared(r, k)'
    BY <1>1 DEF Spared, Stands, I!Stored, I!ImportConstants
  <2> QED BY <1>1, <1>2, <2>2, <2>3, StaysSpared
<1> QED BY <1>3, <1>4

-----------------------------------------------------------------------------
(* What became of the rows left to deduplication.                          *)
LEMMA StaysKnown ==
    ASSUME I!ImportConstants, I!TypeOK, NEW r \in Requests, Moves(r),
           NEW s \in Requests, Stands(s), Known(s), absorbed'[s] = absorbed[s]
    PROVE  Known(s)'
<1> SUFFICES ASSUME NEW k \in absorbed[s]
             PROVE  (I!Stored(k) /\ holder[k] # s)' \/ \E q \in Requests : k \in removed'[q]
  BY DEF Known
<1>1. k \in Rows
  BY ReadingTypes DEF Stands
<1>2. CASE \E q \in Requests : k \in removed[q]
  BY <1>2 DEF Moves
<1>3. CASE I!Stored(k) /\ holder[k] # s
  BY <1>1, <1>3 DEF Moves, I!Stored
<1> QED BY <1>2, <1>3 DEF Known

(* Only the comparison against what is known leaves rows to deduplication  *)
(* or looks at the other requests.                                         *)
LEMMA RunsOnlyRead ==
    ASSUME I!TypeOK, NEW r \in Requests, I!Runs(r)
    PROVE  I!InFlight(r) /\ (I!ReadKnown(r) \/ UNCHANGED <<beside, absorbed>>)
<1> USE DEF I!history, I!InFlight, I!Answers
<1>1. CASE I!ReadKnown(r) \/ I!ListCandidates(r) \/ I!Compare(r) \/ I!CreateBatch(r)
         \/ I!Prepare(r)
  BY <1>1 DEF I!ReadKnown, I!ListCandidates, I!Compare, I!CreateBatch, I!Prepare
<1>2. CASE I!CheckMirror(r) \/ I!CheckRow(r) \/ I!InsertConflicts(r) \/ I!Requery(r)
         \/ I!InsertDangles(r)
  BY <1>2 DEF I!CheckMirror, I!CheckRow, I!InsertConflicts, I!Requery, I!InsertDangles
<1>3. CASE I!InsertRow(r) \/ I!WriteParts(r) \/ I!CountRows(r) \/ I!RecordCounts(r)
  BY <1>3 DEF I!InsertRow, I!WriteParts, I!CountRows, I!RecordCounts
<1>4. CASE I!ApplyRules(r) \/ I!CleanUp(r) \/ I!Weigh(r) \/ I!FindBatch(r)
  BY <1>4 DEF I!ApplyRules, I!CleanUp, I!Weigh, I!FindBatch
<1>5. CASE I!RemoveBatch(r) \/ I!Throw(r)
  BY <1>5 DEF I!RemoveBatch, I!Throw
<1> QED BY <1>1, <1>2, <1>3, <1>4, <1>5 DEF I!Runs

(* The rows found stored are another's when they are found.                *)
LEMMA RunsKnown ==
    ASSUME I!ImportConstants, I!TypeOK, NEW r \in Requests, Stands(r), Filed, Moves(r),
           Known(r), I!Runs(r)
    PROVE  Known(r)'
<1>1. CASE I!ReadKnown(r)
  <2>1. /\ absorbed'[r] = {k \in ask[r].reading.rows : I!Stored(k)}
        /\ holder' = holder /\ r \notin batches
    BY <1>1 DEF I!ReadKnown, I!TypeOK, I!store, Stands, Before
  <2> SUFFICES ASSUME NEW k \in absorbed'[r] PROVE (I!Stored(k) /\ holder[k] # r)'
    BY DEF Known
  <2>2. k \in Rows /\ I!Stored(k)
    BY <2>1, ReadingTypes DEF RowsOf
  <2> QED BY <2>1, <2>2 DEF Filed, I!Stored
<1>2. CASE UNCHANGED <<beside, absorbed>>
  BY <1>2, StaysKnown
<1> QED BY <1>1, <1>2, RunsOnlyRead

-----------------------------------------------------------------------------
(* What the comparisons saw.                                               *)
LEMMA StaysTwice ==
    ASSUME I!TypeOK, NEW a \in Requests, NEW b \in Requests, ask'[a] = ask[a], ask'[b] = ask[b],
           a \in batches' => a \in batches /\ I!Held(a)' = I!Held(a),
           Twice(a, b)'
    PROVE  Twice(a, b)
<1>1. a \in batches /\ I!Held(a)' = I!Held(a)
  BY DEF Twice
<1>2. RowsOf(a)' = RowsOf(a) /\ RowsOf(b)' = RowsOf(b)
      /\ I!Overlap(a, ask[b].reading)' = I!Overlap(a, ask[b].reading)
  BY DEF RowsOf, I!Overlap, I!ReadingOf
<1>3. I!SameFigures(I!Held(a), RowsOf(b))' = I!SameFigures(I!Held(a)', RowsOf(b)')
  OBVIOUS
<1> QED BY <1>1, <1>2, <1>3 DEF Twice

(* A step of a third request takes nothing from what two others saw.       *)
LEMMA OthersWeighed ==
    ASSUME I!TypeOK, NEW r \in Requests, OthersKeepImports(r), batches' \subseteq batches \cup {r},
           NEW a \in Requests \ {r}, NEW b \in Requests \ {r}, 
           a \in batches' => I!Held(a)' = I!Held(a), Weighed(a, b)
    PROVE  Weighed(a, b)'
<1>1. /\ pc'[a] = pc[a] /\ pc'[b] = pc[b] /\ ask'[a] = ask[a] /\ ask'[b] = ask[b]
      /\ absorbed'[b] = absorbed[b] /\ candidates'[b] = candidates[b]
  BY DEF OthersKeepImports
<1>2. Over(a)' /\ (Over(b) => Over(b)')
  BY <1>1 DEF Over, I!InFlight, Weighed
<1>3. (a \in batches' => a \in batches) /\ (b \in batches' => b \in batches)
  OBVIOUS
<1>4. ~Twice(a, b) => ~Twice(a, b)'
  BY <1>1, <1>3, StaysTwice
<1> QED BY <1>1, <1>2, <1>3, <1>4 DEF Weighed

(* What a third request saw is its own.                                    *)
LEMMA OthersCompared ==
    ASSUME NEW r \in Requests, OthersKeepImports(r), NEW s \in Requests \ {r}
    PROVE  Compared(s)' = Compared(s) /\ beside'[s] = beside[s]
BY DEF OthersKeepImports, Compared, I!Writes, I!Replacing

(* An answered import that holds what r compares is listed, and found.     *)
LEMMA ComparisonFinds ==
    ASSUME I!ImportConstants, I!TypeOK, NEW r \in Requests, NEW a \in Requests, ~I!Replacing(r),
           Twice(a, r)
    PROVE  a \in I!Candidates(r) /\ I!SameMoney(a, ask[r].reading)
<1>1. I!Held(a) = RowsOf(a) /\ RowsOf(a) # {} /\ a \in batches
  BY ReadingTypes DEF Twice
<1>2. a \in I!Candidates(r)
  BY <1>1 DEF I!Candidates, Twice
<1>3. I!SameMoney(a, ask[r].reading)
  BY <1>1 DEF I!SameMoney, Twice, RowsOf
<1> QED BY <1>2, <1>3

(* What r knows of an answered import once it has listed, and then once it *)
(* has compared.                                                           *)
LEMMA CompareWeighs ==
    ASSUME I!ImportConstants, I!TypeOK, NEW r \in Requests, Stands(r), I!Runs(r),
           ~I!Replacing(r), NEW a \in Requests \ {r}, Over(a),
           pc[r] = "candidates" \/ (pc[r] = "compare" /\ a \in candidates[r])
    PROVE  Weighed(a, r)'
<1>1. r \notin batches /\ OthersKeepImports(r) /\ ask' = ask
  BY RunsFrame DEF Stands, Before
<1>2. pc'[a] = pc[a]
  BY <1>1 DEF OthersKeepImports
<1>3. Over(a)'
  BY <1>2 DEF Over, I!InFlight
<1>4. I!ListCandidates(r) \/ I!Compare(r) \/ I!Throw(r)
  BY DEF I!Runs, I!ReadKnown, I!CreateBatch, I!Prepare, I!CheckMirror, I!CheckRow,
         I!InsertConflicts, I!Requery, I!InsertDangles, I!InsertRow, I!WriteParts, I!CountRows,
         I!RecordCounts, I!ApplyRules, I!CleanUp, I!Weigh, I!FindBatch, I!RemoveBatch
<1>5. holder' = holder /\ batches' = batches
  BY <1>4 DEF I!ListCandidates, I!Compare, I!Throw, I!store
<1>6. CASE pc'[r] \in {"collision", "error"}
  <2>1. Over(r)'
    BY <1>6 DEF Over, I!InFlight, I!Answers
  <2> QED BY <1>1, <1>3, <1>5, <2>1 DEF Weighed
<1>7. ASSUME ~Twice(a, r) PROVE Weighed(a, r)'
  <2>1. I!Held(a)' = I!Held(a)
    BY <1>5 DEF I!Held
  <2>2. ~Twice(a, r)'
    BY <1>1, <1>5, <1>7, <2>1, StaysTwice
  <2> QED BY <1>3, <2>2 DEF Weighed
<1>8. CASE I!ListCandidates(r)
  <2>1. CASE a \in I!Candidates(r)
    <3>1. pc'[r] = "compare" /\ a \in candidates'[r]
      BY <1>8, <2>1 DEF I!ListCandidates, I!Goto, I!TypeOK
    <3> QED BY <1>3, <3>1 DEF Weighed
  <2>2. CASE a \notin I!Candidates(r)
    BY <1>7, <2>2, ComparisonFinds
  <2> QED BY <2>1, <2>2
<1>9. CASE I!Compare(r)
  <2>1. pc'[r] = "collision" \/ ~I!SameMoney(a, ask[r].reading)
    BY <1>9 DEF I!Compare, I!Goto, I!TypeOK
  <2> QED BY <1>6, <1>7, <2>1, ComparisonFinds
<1>10. CASE I!Throw(r)
  <2>1. pc'[r] = "error"
    BY <1>10 DEF I!Throw, I!Goto, I!TypeOK
  <2> QED BY <1>6, <2>1
<1> QED BY <1>4, <1>8, <1>9, <1>10

Seen(a, b) == a \in beside[b] \/ b \in beside[a] \/ Weighed(a, b) \/ Weighed(b, a)

(* The step of r itself, against any other that compared.                  *)
LEMMA RunsSeen ==
    ASSUME I!ImportConstants, I!TypeOK, NEW r \in Requests, Stands(r), Moves(r), Compares,
           I!Runs(r), NEW s \in Requests \ {r}, Compared(r)', Compared(s)'
    PROVE  Seen(r, s)'
<1>1. ask' = ask /\ OthersKeepImports(r) /\ I!InFlight(r)
  BY RunsFrame, RunsOnlyRead
<1>2. pc'[s] = pc[s] /\ Compared(s) /\ beside'[s] = beside[s]
  BY <1>1, OthersCompared DEF OthersKeepImports
<1>3. Over(s)' <=> Over(s)
  BY <1>2 DEF Over, I!InFlight
<1>4. CASE pc[r] = "known"
  <2>1. r \notin batches
    BY <1>4 DEF Stands, Before
  <2>2. CASE I!ReadKnown(r)
    <3>1. /\ beside'[r] = {q \in Requests \ {r} : I!InFlight(q)}
          /\ absorbed'[r] # {} \/ pc'[r] = "candidates"
      BY <2>2 DEF I!ReadKnown, I!TypeOK, I!Goto
    <3>2. CASE I!InFlight(s)
      BY <3>1, <3>2 DEF Seen
    <3>3. CASE ~I!InFlight(s)
      <4>1. Over(s)'
        BY <1>2, <1>3, <3>3 DEF Over, Compared
      <4> QED BY <3>1, <4>1 DEF Seen, Weighed
    <3> QED BY <3>2, <3>3
  <2>3. CASE I!Throw(r)
    <3>1. pc'[r] = "error" /\ batches' = batches
      BY <1>4, <2>3 DEF I!Throw, I!Goto, I!TypeOK, I!store
    <3>2. Over(r)' /\ ~Twice(r, s)'
      BY <2>1, <3>1 DEF Over, Twice, I!InFlight, I!Answers
    <3> QED BY <3>2 DEF Seen, Weighed
  <2> QED
    BY <1>4, <2>2, <2>3 DEF I!Runs, I!ListCandidates, I!Compare, I!CreateBatch, I!Prepare,
       I!CheckMirror, I!CheckRow, I!InsertConflicts, I!Requery, I!InsertDangles,
       I!InsertRow, I!WriteParts, I!CountRows,
       I!RecordCounts, I!ApplyRules, I!CleanUp, I!Weigh, I!FindBatch, I!RemoveBatch
<1>5. CASE pc[r] # "known"
  <2>1. UNCHANGED <<beside, absorbed>>
    BY <1>5, RunsOnlyRead DEF I!ReadKnown
  <2>2. Compared(r)
    BY <1>1, <1>5 DEF Compared, I!InFlight, I!Writes, I!Replacing
  <2>3. r \in beside[s] \/ s \in beside[r] \/ Weighed(s, r)
    <3>1. ~Weighed(r, s)
      BY <1>1 DEF Weighed, Over
    <3> QED BY <1>2, <2>2, <3>1 DEF Compares
  <2>4. CASE Weighed(s, r)
    <3>1. Over(s)
      BY <2>4 DEF Weighed
    <3>2. CASE pc[r] = "candidates" \/ (pc[r] = "compare" /\ s \in candidates[r])
      <4>1. ~I!Replacing(r)
        BY <2>2 DEF Compared
      <4>2. Weighed(s, r)'
        BY <3>1, <3>2, <4>1, CompareWeighs
      <4> QED BY <4>2 DEF Seen
    <3>3. CASE absorbed[r] # {}
      <4>1. Weighed(s, r)'
        BY <1>3, <2>1, <3>1, <3>3 DEF Weighed
      <4> QED BY <4>1 DEF Seen
    <3>4. CASE ~Twice(s, r)
      <4>1. s \in batches' => s \in batches /\ I!Held(s)' = I!Held(s)
        BY DEF Moves
      <4>2. ~Twice(s, r)'
        BY <1>1, <3>4, <4>1, StaysTwice
      <4>3. Weighed(s, r)'
        BY <1>3, <3>1, <4>2 DEF Weighed
      <4> QED BY <4>3 DEF Seen
    <3>5. ~Over(r)
      BY <1>1 DEF Over
    <3> QED BY <2>4, <3>2, <3>3, <3>4, <3>5 DEF Weighed
  <2>5. CASE r \in beside[s] \/ s \in beside[r]
    BY <2>1, <2>5 DEF Seen
  <2> QED BY <2>3, <2>4, <2>5
<1> QED BY <1>4, <1>5

(* A step of a third request hides nothing two others saw.                 *)
LEMMA OthersSeen ==
    ASSUME I!TypeOK, NEW r \in Requests, OthersKeepImports(r), batches' \subseteq batches \cup {r},
           \A b \in batches' : b # r => I!Held(b)' = I!Held(b), Compares,
           NEW a \in Requests \ {r}, NEW b \in Requests \ {r}, a # b, Compared(a)', Compared(b)'
    PROVE  Seen(a, b)'
<1>1. Compared(a) /\ Compared(b) /\ beside'[a] = beside[a] /\ beside'[b] = beside[b]
  BY OthersCompared
<1>2. Seen(a, b)
  BY <1>1 DEF Compares, Seen
<1>3. Weighed(a, b) => Weighed(a, b)'
  BY OthersWeighed
<1>4. Weighed(b, a) => Weighed(b, a)'
  BY OthersWeighed
<1> QED BY <1>1, <1>2, <1>3, <1>4 DEF Seen

(* Every statement keeps what the comparisons saw.                         *)
LEMMA RunsCompares ==
    ASSUME I!ImportConstants, I!TypeOK, NEW r \in Requests, Stands(r), Moves(r), Compares, I!Runs(r)
    PROVE  Compares'
<1> SUFFICES ASSUME NEW a \in Requests, NEW b \in Requests, a # b, Compared(a)', Compared(b)'
             PROVE  Seen(a, b)'
  BY DEF Compares, Seen
<1>1. OthersKeepImports(r)
  BY RunsFrame
<1>2. CASE a = r
  BY <1>2, RunsSeen
<1>3. CASE b = r
  <2>1. Seen(b, a)'
    BY <1>3, RunsSeen
  <2> QED BY <2>1 DEF Seen
<1>4. CASE a # r /\ b # r
  BY <1>1, <1>4, OthersSeen DEF Moves
<1> QED BY <1>2, <1>3, <1>4

-----------------------------------------------------------------------------
(* A request that begins, one that runs, and the stop of the process, keep *)
(* the invariant.                                                          *)
LEMMA AsksImportInv ==
    ASSUME I!ImportConstants, ImportInv, NEW r \in Requests, I!Asks(r)
    PROVE  ImportInv'
<1>1. OthersKeepImports(r) /\ UNCHANGED <<I!store, I!history, duplicates, counted>>
  BY AsksFrame DEF ImportInv
<1>2. I!TypeOK' /\ SkipsOnce(r)' /\ Stands(r)'
  BY AsksImportTypes, AsksStand DEF ImportInv
<1>3. /\ pc[r] = "idle" /\ pc'[r] \in {"create", "known", "find"}
      /\ (I!Writes(r)' => todo'[r] = RowsOf(r)')
      /\ ~Compared(r)'
  <2>1. CASE I!AskImport(r)
    <3>1. PICK reading \in Readings, sure \in BOOLEAN, b \in batches \cup {First},
               kind \in {"import", "correct"} :
              /\ ask' = [ask EXCEPT ![r] = [kind |-> kind, reading |-> reading,
                                            batch |-> b, sure |-> sure]]
              /\ todo' = [todo EXCEPT ![r] = reading.rows]
              /\ I!Goto(r, IF sure THEN "create" ELSE "known")
      BY <2>1 DEF I!AskImport
    <3>2. /\ ask'[r] = [kind |-> kind, reading |-> reading, batch |-> b, sure |-> sure]
          /\ todo'[r] = reading.rows /\ pc'[r] = IF sure THEN "create" ELSE "known"
      BY <3>1 DEF I!TypeOK, I!Goto, ImportInv
    <3>3. ask'[r].sure = sure /\ ask'[r].reading = reading
      BY <3>2
    <3> QED BY <2>1, <3>2, <3>3 DEF I!AskImport, RowsOf, Compared
  <2>2. CASE I!AskCancel(r)
    <3>1. PICK b \in batches :
              ask' = [ask EXCEPT ![r] = [I!NoAsk EXCEPT !.kind = "cancel", !.batch = b]]
      BY <2>2 DEF I!AskCancel
    <3>2. ask'[r].kind = "cancel"
      BY <3>1 DEF I!TypeOK, ImportInv, I!NoAsk
    <3>3. pc[r] = "idle" /\ pc'[r] = "find"
      BY <2>2 DEF I!AskCancel, I!Goto, I!TypeOK, ImportInv
    <3> QED BY <3>2, <3>3 DEF Compared, I!Writes
  <2> QED BY <2>1, <2>2 DEF I!Asks
<1>4. holder' = holder /\ batches' = batches /\ removed' = removed /\ absorbed' = absorbed
      /\ \A b : I!Held(b)' = I!Held(b)
  BY <1>1 DEF I!store, I!history, I!Held
<1>5. Filed'
  BY <1>4 DEF ImportInv, Filed, I!Stored
<1>6. ASSUME NEW s \in Requests PROVE Stands(s)' /\ SkipsOnce(s)'
  BY <1>1, <1>2, <1>4, OthersStand DEF ImportInv
<1>7. ASSUME NEW s \in Requests PROVE Known(s)'
  BY <1>4 DEF ImportInv, Known, I!Stored
<1>8. ASSUME NEW s \in Requests PROVE Counts(s)'
  <2>1. CASE s = r
    BY <1>2, <1>3, <1>4, <2>1 DEF Counts, Told, Stands, ImportInv
  <2>2. CASE s # r
    BY <1>1, <1>4, <2>2 DEF Counts, OthersKeepImports, ImportInv
  <2> QED BY <2>1, <2>2
<1>9. ASSUME NEW s \in Requests PROVE Safe(s)'
  <2>1. CASE s = r
    BY <1>3, <2>1 DEF Safe
  <2>2. CASE s # r
    <3>1. pc'[s] = pc[s] /\ ask'[s] = ask[s] /\ todo'[s] = todo[s] /\ shared'[s] = shared[s]
      BY <1>1, <2>2 DEF OthersKeepImports
    <3>2. \A k : Spared(s, k)' = Spared(s, k)
      BY <1>4, <3>1 DEF Spared, I!Stored, I!Replacing, I!RemovedBeside
    <3> QED BY <3>1, <3>2 DEF ImportInv, Safe, RowsOf, I!Writes
  <2> QED BY <2>1, <2>2
<1>10. Compares'
  <2> SUFFICES ASSUME NEW a \in Requests, NEW b \in Requests, a # b, Compared(a)', Compared(b)'
               PROVE  Seen(a, b)'
    BY DEF Compares, Seen
  <2>1. a # r /\ b # r
    BY <1>3
  <2> QED BY <1>1, <1>4, <2>1, OthersSeen DEF ImportInv
<1> QED BY <1>2, <1>5, <1>6, <1>7, <1>8, <1>9, <1>10 DEF ImportInv

(* One that runs.                                                          *)
LEMMA RunsImportInv ==
    ASSUME I!ImportConstants, ImportInv, NEW r \in Requests, I!Runs(r)
    PROVE  ImportInv'
<1>1. I!TypeOK /\ Stands(r) /\ SkipsOnce(r) /\ Filed /\ Counts(r) /\ Safe(r) /\ Known(r)
      /\ Compares /\ \A s \in Requests : Stands(s) /\ Known(s)
  BY DEF ImportInv
<1>2. OthersKeepImports(r) /\ ask' = ask
  BY <1>1, RunsFrame
<1>3. Moves(r)
  BY <1>1, StoreMoves
<1>4. I!TypeOK' /\ SkipsOnce(r)' /\ Stands(r)' /\ Filed'
  BY <1>1, <1>3, RunsImportTypes, RunsStand DEF Moves
<1>5. Counts(r)' /\ Safe(r)' /\ Known(r)'
  BY <1>1, <1>3, RunsCount, RunsSafe, RunsKnown
<1>6. ASSUME NEW s \in Requests, s # r
      PROVE  Stands(s)' /\ SkipsOnce(s)' /\ Counts(s)' /\ Safe(s)' /\ Known(s)'
  <2>1. Stands(s) /\ SkipsOnce(s) /\ Counts(s) /\ Safe(s) /\ Known(s)
    BY DEF ImportInv
  <2>2. Stands(s)' /\ SkipsOnce(s)'
    BY <1>1, <1>2, <1>3, <1>6, <2>1, OthersStand DEF Moves
  <2>3. Counts(s)' /\ Safe(s)'
    BY <1>1, <1>2, <1>3, <1>6, <2>1, OthersCount, OthersSafe
  <2>4. absorbed'[s] = absorbed[s]
    BY <1>2, <1>6 DEF OthersKeepImports
  <2> QED BY <1>1, <1>3, <2>1, <2>2, <2>3, <2>4, StaysKnown
<1>7. Compares'
  BY <1>1, <1>3, RunsCompares
<1>8. \A s \in Requests : Stands(s)' /\ SkipsOnce(s)' /\ Counts(s)' /\ Safe(s)' /\ Known(s)'
  BY <1>4, <1>5, <1>6
<1> QED BY <1>4, <1>7, <1>8 DEF ImportInv

(* The stop of the process: what compared and has no batch gets none.      *)
LEMMA StopAllKeeps ==
    ASSUME I!ImportConstants, ImportInv, I!StopAll
    PROVE  ImportInv'
<1>1. /\ pc' = [r \in Requests |-> IF I!InFlight(r) THEN "stopped" ELSE pc[r]]
      /\ UNCHANGED <<holder, batches, ask, candidates, todo, duplicates, landed, counted,
                     interrupted, removed, shared, beside, absorbed, faults>>
  BY DEF I!StopAll, I!store, I!history
<1>2. \A b : I!Held(b)' = I!Held(b)
  BY <1>1 DEF I!Held
<1>3. I!TypeOK'
  BY <1>1 DEF ImportInv, I!TypeOK, I!Places
<1>4. Filed'
  BY <1>1 DEF ImportInv, Filed, I!Stored
<1>5. ASSUME NEW s \in Requests PROVE /\ pc'[s] \in {pc[s], "stopped"}
                                      /\ (pc'[s] = "idle" <=> pc[s] = "idle")
                                      /\ (pc'[s] # pc[s] => I!InFlight(s))
  BY <1>1 DEF I!InFlight
<1>6. ASSUME NEW s \in Requests
      PROVE  Stands(s)' /\ SkipsOnce(s)' /\ Counts(s)' /\ Safe(s)' /\ Known(s)'
  <2>1. Stands(s) /\ SkipsOnce(s) /\ Counts(s) /\ Safe(s) /\ Known(s)
    BY DEF ImportInv
  <2>2. Stands(s)'
    BY <1>1, <1>5, <2>1 DEF Stands, RowsOf, Landing, Before, I!Writes, I!Replacing,
                            I!InFlight, I!Answers
  <2>3. Counts(s)'
    BY <1>1, <1>2, <1>5, <2>1 DEF Counts, Told
  <2>4. \A k : Spared(s, k)' = Spared(s, k)
    BY <1>1 DEF Spared, I!Stored, I!Replacing, I!RemovedBeside
  <2>5. Safe(s)'
    BY <1>1, <1>5, <2>1, <2>4 DEF Safe, RowsOf, I!Writes
  <2>6. SkipsOnce(s)' /\ Known(s)'
    BY <1>1, <2>1 DEF SkipsOnce, Known, I!Stored
  <2> QED BY <2>2, <2>3, <2>5, <2>6
<1>7. Compares'
  <2> SUFFICES ASSUME NEW a \in Requests, NEW b \in Requests, a # b, Compared(a)', Compared(b)'
               PROVE  Seen(a, b)'
    BY DEF Compares, Seen
  <2>1. Over(a)' /\ Over(b)'
    BY <1>1 DEF Over, Compared, I!InFlight, I!Answers
  <2>2. ASSUME NEW s \in Requests, ~Compared(s), Compared(s)' PROVE s \notin batches'
    <3>1. pc[s] = "known" \/ pc[s] = "idle"
      BY <1>1, <2>2 DEF Compared, I!Writes, I!Replacing
    <3> QED BY <1>1, <3>1 DEF ImportInv, Stands, Before
  <2>3. CASE a \notin batches'
    BY <2>1, <2>3 DEF Seen, Weighed
  <2>4. CASE b \notin batches'
    BY <2>1, <2>4 DEF Seen, Weighed
  <2>5. CASE Compared(a) /\ Compared(b)
    <3>1. Seen(a, b)
      BY <2>5 DEF ImportInv, Compares, Seen
    <3>2. ASSUME NEW c \in Requests, NEW d \in Requests, Weighed(c, d), Over(c)', Over(d)'
          PROVE  Weighed(c, d)'
      <4>1. pc[d] \in {"candidates", "compare"} => d \notin batches'
        BY <1>1 DEF ImportInv, Stands, Before
      <4>2. ~Twice(c, d) => ~Twice(c, d)'
        BY <1>1, <1>2, StaysTwice DEF ImportInv
      <4> QED BY <1>1, <3>2, <4>1, <4>2 DEF Weighed
    <3> QED BY <1>1, <2>1, <3>1, <3>2 DEF Seen
  <2> QED BY <2>2, <2>3, <2>4, <2>5
<1> QED BY <1>3, <1>4, <1>6, <1>7 DEF ImportInv

(* The start.                                                              *)
LEMMA InitImportInv ==
    ASSUME I!ImportConstants, I!Init
    PROVE  ImportInv
<1> USE DEF I!Init
<1>1. First \notin Requests /\ Nobody # First /\ FirstReading \in Readings
  BY DEF I!ImportConstants
<1>2. IsFiniteSet(Rows) /\ Cardinality(Rows) \in Nat /\ I!Cardinality(Rows) = Cardinality(Rows)
      /\ Cardinality({}) = 0 /\ MaxFaults \in Nat
  BY SameSizesImports, FS_CardinalityType, FS_EmptySet DEF I!ImportConstants
<1>3. I!NoAsk \in [kind : I!Kinds, reading : Readings, batch : I!Batches, sure : BOOLEAN]
  BY <1>1 DEF I!NoAsk, I!Kinds, I!Batches
<1>4. I!TypeOK
  BY <1>1, <1>2, <1>3 DEF I!TypeOK, I!Batches, I!Places
<1>5. ASSUME NEW r \in Requests PROVE Stands(r) /\ SkipsOnce(r) /\ Counts(r) /\ Safe(r) /\ Known(r)
  <2>1. ask[r].kind = "import" /\ ask[r].batch = First
    BY DEF I!NoAsk
  <2>2. Stands(r)
    BY <1>1, <2>1 DEF Stands, I!Writes, Landing, Before
  <2>3. SkipsOnce(r)
    BY <1>2 DEF SkipsOnce
  <2>4. Counts(r) /\ Safe(r) /\ Known(r)
    BY <1>1 DEF Counts, Safe, Known
  <2> QED BY <2>2, <2>3, <2>4
<1>6. Filed
  BY <1>1 DEF Filed, I!Stored
<1>7. Compares
  BY DEF Compares, Compared
<1> QED BY <1>4, <1>5, <1>6, <1>7 DEF ImportInv

(* Every step of Imports keeps the invariant.                              *)
LEMMA NextImportInv ==
    ASSUME I!ImportConstants, ImportInv, [I!Next]_(I!importVars)
    PROVE  ImportInv'
<1>1. CASE UNCHANGED I!importVars
  <2>1. UNCHANGED <<holder, batches, pc, ask, candidates, todo, duplicates, landed, counted,
                    interrupted, removed, shared, beside, absorbed, faults>>
    BY <1>1 DEF I!importVars, I!store, I!history
  <2>2. I!TypeOK' = I!TypeOK
    BY <2>1 DEF I!TypeOK
  <2>3. Filed' = Filed
    BY <2>1 DEF Filed, I!Stored
  <2>4. \A b : I!Held(b)' = I!Held(b)
    BY <2>1 DEF I!Held
  <2>5. ASSUME NEW s \in Requests
        PROVE  Stands(s)' /\ SkipsOnce(s)' /\ Counts(s)' /\ Safe(s)' /\ Known(s)'
    <3>1. Stands(s) /\ SkipsOnce(s) /\ Counts(s) /\ Safe(s) /\ Known(s)
      BY DEF ImportInv
    <3>2. Stands(s)' /\ SkipsOnce(s)' /\ Known(s)'
      BY <2>1, <3>1 DEF Stands, SkipsOnce, Known, RowsOf, Landing, Before, I!Writes,
                        I!Replacing, I!Stored
    <3>3. Counts(s)'
      BY <2>1, <2>4, <3>1 DEF Counts
    <3>4. \A k : Spared(s, k)' = Spared(s, k)
      BY <2>1 DEF Spared, I!Stored, I!Replacing, I!RemovedBeside
    <3>5. Safe(s)'
      BY <2>1, <3>1, <3>4 DEF Safe, RowsOf, I!Writes
    <3> QED BY <3>2, <3>3, <3>5
  <2>6. Compares'
    <3> SUFFICES ASSUME NEW a \in Requests, NEW b \in Requests, a # b, Compared(a)', Compared(b)'
                 PROVE  Seen(a, b)'
      BY DEF Compares, Seen
    <3>1. Compared(a) /\ Compared(b)
      BY <2>1 DEF Compared, I!Writes, I!Replacing
    <3>2. Seen(a, b)
      BY <3>1 DEF ImportInv, Compares, Seen
    <3>3. ASSUME NEW c \in Requests, NEW d \in Requests, Weighed(c, d) PROVE Weighed(c, d)'
      <4>1. ~Twice(c, d) => ~Twice(c, d)'
        BY <2>1, <2>4, StaysTwice DEF ImportInv
      <4> QED BY <2>1, <3>3, <4>1 DEF Weighed, Over, I!InFlight
    <3> QED BY <2>1, <3>2, <3>3 DEF Seen
  <2> QED BY <2>2, <2>3, <2>5, <2>6 DEF ImportInv
<1>2. CASE I!StopAll
  BY <1>2, StopAllKeeps
<1>3. ASSUME NEW r \in Requests, I!Asks(r) \/ I!Runs(r) PROVE ImportInv'
  BY <1>3, AsksImportInv, RunsImportInv
<1> QED BY <1>1, <1>2, <1>3 DEF I!Next

(* What Books does to its imports are steps of Imports.                    *)
LEMMA ImportSteps == [Next]_vars => [I!Next]_(I!importVars)
<1> SUFFICES ASSUME [Next]_vars PROVE [I!Next]_(I!importVars)
  OBVIOUS
<1> USE DEF importVars, I!importVars, I!store, I!history
<1>1. ASSUME NEW r \in Requests, Import(r) PROVE I!Next
  BY <1>1 DEF Import, I!Next
<1>2. ASSUME NEW r \in Requests, Value(r) PROVE UNCHANGED I!importVars
  BY <1>2 DEF Value
<1>3. ASSUME Restart PROVE I!Next
  BY <1>3 DEF Restart, I!Next
<1>4. ASSUME AllAnswered \/ UNCHANGED vars PROVE UNCHANGED I!importVars
  BY <1>4 DEF AllAnswered, vars
<1> QED BY <1>1, <1>2, <1>3, <1>4 DEF Next

(* The imports of Books behave as Imports: the net worth requests and the  *)
(* bound on imports add nothing to what happens to them, and a restart     *)
(* stops them all.                                                         *)
THEOREM BooksKeepImports == Spec => I!Spec
<1>1. Init => I!Init
  BY DEF Init
<1> QED BY <1>1, ImportSteps, PTL DEF Spec, I!Spec

(* The inductive invariant holds in every state of every behaviour.        *)
LEMMA ImportReachable == Spec => []ImportInv
<1>1. Init => ImportInv
  BY InitImportInv, ConstantsAssumption DEF Init
<1>2. ImportInv /\ [Next]_vars => ImportInv'
  BY NextImportInv, ImportSteps, ConstantsAssumption
<1> QED BY <1>1, <1>2, PTL DEF Spec

(* The types of the imports: the count of duplicates never passes the      *)
(* number of rows, since the loop leaves each row once (persist.ts).       *)
THEOREM ImportTypes == Spec => []I!TypeOK
<1>1. ImportInv => I!TypeOK
  BY DEF ImportInv
<1> QED BY <1>1, ImportReachable, PTL

(* Once a write has gone over its file, and from the moment a correction   *)
(* has deleted the import it replaces, no row of the file is lost,         *)
(* wherever the process stops, unless another request deleted it or it was *)
(* a duplicate of the batch the correction then deletes                    *)
(* (+page.server.ts:600-634, persist.ts:701-706), for any number of        *)
(* requests, rows and faults.                                              *)
THEOREM NothingLost == Spec => []NothingLostUnlessShared
<1>1. ImportInv => NothingLostUnlessShared
  <2> SUFFICES ASSUME ImportInv, NEW r \in Requests, I!Wrote(r), NEW k \in RowsOf(r)
               PROVE  I!Kept(r, k) \/ k \in shared[r]
    BY DEF NothingLostUnlessShared, I!NothingLostUnlessShared, RowsOf
  <2>1. \/ k \in shared[r] \/ Spared(r, k)
        \/ ask[r].reading.answered /\ Spared(r, Mirror[k])
    <3>1. todo[r] = {}
      BY DEF ImportInv, Stands, I!Wrote
    <3> QED BY <3>1 DEF ImportInv, Safe, I!Wrote
  <2> QED BY <2>1 DEF Spared, I!Kept
<1> QED BY <1>1, ImportReachable, PTL

(* "Nothing was saved" is said only when none of the rows is stored        *)
(* (writeImport.ts:14-29).                                                 *)
THEOREM RefusalsAreTrue == Spec => []RefusalsTrue
<1>1. ImportInv => RefusalsTrue
  BY DEF ImportInv, Counts, RefusalsTrue, I!RefusalsTrue
<1> QED BY <1>1, ImportReachable, PTL

(* The figure an answered import shows is what deleting it would remove    *)
(* (persist.ts:751-755, 903-913).                                          *)
THEOREM FiguresAreTheLedger == Spec => []CountIsLedger
<1>1. ImportInv => CountIsLedger
  <2> SUFFICES ASSUME ImportInv, NEW r \in Requests, r \in batches,
                      pc[r] \in {"imported", "partly", "deleted", "withheld", "other period"}
               PROVE  counted[r] = I!Cardinality(I!Held(r))
    BY DEF CountIsLedger, I!CountIsLedger
  <2>1. counted[r] = Cardinality(I!Held(r))
    BY DEF ImportInv, Counts, Told
  <2> QED BY <2>1, SameSizesImports
<1> QED BY <1>1, ImportReachable, PTL

(* Two imports of overlapping periods are both stored whole with the same  *)
(* count, debits and credits only with an excuse (collision.ts:31-46).     *)
THEOREM DoublesAreExplained == Spec => []DoubledOnlyIfOverlapped
<1>1. ImportInv => DoubledOnlyIfOverlapped
  <2> SUFFICES ASSUME ImportInv, NEW r \in Requests, NEW s \in Requests, r # s,
                      r \in batches, s \in batches,
                      I!Overlap(r, ask[s].reading),
                      I!Held(r) = RowsOf(r), I!Held(s) = RowsOf(s),
                      I!SameFigures(I!Held(r), I!Held(s)),
                      ~ask[r].sure, ~ask[s].sure, ~I!Replacing(r), ~I!Replacing(s),
                      r \notin beside[s], s \notin beside[r]
               PROVE  \E k \in absorbed[r] \cup absorbed[s], q \in Requests : k \in removed[q]
    BY DEF DoubledOnlyIfOverlapped, I!DoubledOnlyIfOverlapped, RowsOf
  <2>1. Compared(r) /\ Compared(s)
    BY DEF ImportInv, Stands, Before, Compared
  <2>2. Twice(r, s) /\ Twice(s, r)
    <3>1. I!Overlap(s, ask[r].reading)
      BY BatchNames, ConstantsAssumption DEF I!Overlap, I!ReadingOf
    <3>2. I!SameFigures(I!Held(s), I!Held(r))
      BY DEF I!SameFigures
    <3> QED BY <3>1, <3>2 DEF Twice
  <2>3. ASSUME NEW a \in Requests, NEW b \in Requests, b \in batches, I!Held(b) = RowsOf(b),
               Twice(a, b), Weighed(a, b)
        PROVE  \E k \in absorbed[b], q \in Requests : k \in removed[q]
    <3>1. absorbed[b] # {}
      BY <2>3 DEF Weighed, ImportInv, Stands, Before
    <3>2. PICK k \in absorbed[b] : TRUE
      BY <3>1
    <3>3. holder[k] = b
      BY <2>3, <3>2 DEF ImportInv, Stands, I!Held
    <3> QED BY <3>2, <3>3 DEF ImportInv, Known
  <2>4. Weighed(r, s) \/ Weighed(s, r)
    BY <2>1 DEF ImportInv, Compares
  <2> QED BY <2>2, <2>3, <2>4
<1> QED BY <1>1, ImportReachable, PTL
=============================================================================
