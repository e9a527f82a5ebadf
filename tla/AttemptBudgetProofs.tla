------------------------ MODULE AttemptBudgetProofs -------------------------
(* Theorems about AttemptBudget, for every budget, window and number of    *)
(* concurrent attempts.                                                    *)
EXTENDS AttemptBudget, FiniteSetTheorems, TLAPS

USE NoneAssumption, CallerAssumption, BudgetAssumption

-----------------------------------------------------------------------------
(* The inductive invariant.  A call past its insert has the row it wrote,  *)
(* until the sweep may take it; the window of its second counts starts     *)
(* late enough to see every row of a stretch its own row is in.            *)

Written(r) == PC(r) \in {"inserted", "recount", "admitted", "kept", "stuck"}

RowOK(r) ==
    /\ row[r] # None => Written(r) /\ row[r] = claim[r].at
    /\ Written(r) => claim[r].at <= clock
    /\ Written(r) /\ claim[r].at >= clock - 4 * Window => row[r] # None

TimeOK(r) ==
    /\ Claiming(r) => /\ claim[r].opened <= clock
                      /\ clock - claim[r].opened <= SlowestClaim
    /\ PC(r) \in {"inserted", "recount"} => claim[r].opened <= claim[r].at
    /\ PC(r) = "recount" =>
          /\ claim[r].from >= claim[r].at - Window
          /\ claim[r].from <= claim[r].at + SlowestClaim - Window

(* Past the second count of a dimension, and not refused since.            *)
Passed(r, d) ==
    \/ PC(r) \in {"admitted", "kept"}
    \/ PC(r) = "recount" /\ d \notin claim[r].todo /\ ~claim[r].full

PassedIn(d, k, x) ==
    {r \in Attempts : /\ Passed(r, d)
                      /\ claim[r].key[d] = k
                      /\ claim[r].at \in Stretch(x)}

Budget ==
    \A d \in Dims, k \in Keys, x \in 0 .. MaxClock :
       Cardinality(PassedIn(d, k, x)) <= MaxAttempts

Live == {r \in Attempts : PC(r) # "idle"}

AttemptsOK == \A r \in Attempts : RowOK(r) /\ TimeOK(r)

IInv == TypeOK /\ AttemptsOK /\ IsFiniteSet(Live) /\ Budget

-----------------------------------------------------------------------------
(* A call that has not begun, or left no trace.                            *)
LEMMA IdleShape == NoClaim \in Claim /\ NoClaim.pc = "idle"
BY DEF NoClaim, Claim, Dims

(* What a call becomes when it begins to count.                            *)
LEMMA CountingShape ==
    ASSUME clock \in Nat, NEW c \in Claim, NEW pc \in {"check", "recount"}
    PROVE  /\ Counting(c, pc) \in Claim
           /\ Counting(c, pc).pc = pc
           /\ Counting(c, pc).key = c.key
           /\ Counting(c, pc).opened = c.opened
           /\ Counting(c, pc).at = c.at
           /\ Counting(c, pc).from = clock - Window
           /\ Counting(c, pc).todo = Dims
           /\ Counting(c, pc).full = FALSE
BY DEF Claim, Counting

(* What is remembered of a call that counts no more.                       *)
LEMMA DoneShape ==
    ASSUME NEW c \in Claim, NEW pc \in {"admitted", "kept", "stuck"}
    PROVE  /\ Done(c, pc) \in Claim
           /\ Done(c, pc).pc = pc
           /\ Done(c, pc).key = c.key
           /\ Done(c, pc).at = c.at
BY DEF Claim, Done

(* A sweep takes only rows four windows old.                               *)
LEMMA SweepKeeps ==
    ASSUME TypeOK, row' = Unexpired(row)
    PROVE  /\ row' \in [Attempts -> Nat \cup {None}]
           /\ \A s \in Attempts : row'[s] # None => row'[s] = row[s]
           /\ \A s \in Attempts :
                 row[s] # None /\ row[s] >= clock - 4 * Window
                    => row'[s] = row[s]
BY DEF TypeOK, Unexpired, Expired

(* Every set of calls the budget counts is finite.                         *)
LEMMA PassedFinite ==
    ASSUME IsFiniteSet(Live), NEW d, NEW k, NEW x
    PROVE  IsFiniteSet(PassedIn(d, k, x))
<1>1. PassedIn(d, k, x) \subseteq Live
  BY DEF PassedIn, Live, Passed, PC
<1>2. QED BY <1>1, FS_Subset

(* A step that lets nobody pass keeps the budget.                          *)
LEMMA NobodyPasses ==
    ASSUME IsFiniteSet(Live), Budget,
           \A d \in Dims, k \in Keys, x \in 0 .. MaxClock :
              PassedIn(d, k, x)' \subseteq PassedIn(d, k, x)
    PROVE  Budget'
<1> SUFFICES ASSUME NEW d \in Dims, NEW k \in Keys, NEW x \in 0 .. MaxClock
             PROVE  Cardinality(PassedIn(d, k, x)') <= MaxAttempts
  BY DEF Budget
<1>1. PassedIn(d, k, x)' \subseteq PassedIn(d, k, x)
  OBVIOUS
<1>2. IsFiniteSet(PassedIn(d, k, x))
  BY PassedFinite
<1>3. Cardinality(PassedIn(d, k, x)') <= Cardinality(PassedIn(d, k, x))
  BY <1>1, <1>2, FS_Subset
<1>4. Cardinality(PassedIn(d, k, x)) <= MaxAttempts
  BY DEF Budget
<1>5. /\ Cardinality(PassedIn(d, k, x)) \in Nat
      /\ Cardinality(PassedIn(d, k, x)') \in Nat
  BY <1>1, <1>2, FS_Subset, FS_CardinalityType
<1>6. QED BY <1>3, <1>4, <1>5

(* A step of one call keeps the calls alive finite.                        *)
LEMMA LiveFinite ==
    ASSUME IsFiniteSet(Live), NEW r \in Attempts,
           \A s \in Attempts \ {r} : PC(s)' = PC(s)
    PROVE  IsFiniteSet(Live')
<1>1. Live' \subseteq Live \cup {r}
  BY DEF Live
<1>2. IsFiniteSet(Live \cup {r})
  BY FS_AddElement
<1>3. QED BY <1>1, <1>2, FS_Subset

-----------------------------------------------------------------------------
(* The start satisfies the invariant.                                      *)
LEMMA BudgetInit == Init => IInv
<1> SUFFICES ASSUME Init PROVE IInv
  OBVIOUS
<1>1. TypeOK
  BY IdleShape DEF Init, TypeOK
<1>2. \A r \in Attempts : PC(r) = "idle" /\ row[r] = None
  BY IdleShape DEF Init, PC
<1>3. AttemptsOK
  BY <1>2 DEF AttemptsOK, RowOK, TimeOK, Written, Claiming
<1>4. Live = {}
  BY <1>2 DEF Live
<1>5. IsFiniteSet(Live)
  BY <1>4, FS_EmptySet
<1>6. \A d, k, x : PassedIn(d, k, x) = {}
  BY <1>2 DEF PassedIn, Passed
<1>7. Budget
  BY <1>6, FS_EmptySet DEF Budget
<1>8. QED BY <1>1, <1>3, <1>5, <1>7 DEF IInv

(* A step that changes one call, to one whose own row and times are right, *)
(* keeps those of all the others, if it writes no row but its own.         *)
LEMMA OneCall ==
    ASSUME IInv, NEW r \in Attempts, NEW c \in Claim,
           clock' = clock,
           claim' = [claim EXCEPT ![r] = c],
           row' \in [Attempts -> Nat \cup {None}],
           \A s \in Attempts \ {r} :
              /\ row'[s] # None => row'[s] = row[s]
              /\ row[s] # None /\ row[s] >= clock - 4 * Window
                    => row'[s] = row[s],
           RowOK(r)', TimeOK(r)'
    PROVE  TypeOK' /\ AttemptsOK' /\ IsFiniteSet(Live)'
<1>1. TypeOK'
  BY DEF IInv, TypeOK
<1>2. /\ claim'[r] = c
      /\ \A s \in Attempts \ {r} : claim'[s] = claim[s]
  BY DEF IInv, TypeOK
<1>3. ASSUME NEW s \in Attempts \ {r}
      PROVE  RowOK(s)' /\ TimeOK(s)'
  <2>1. claim'[s] = claim[s] /\ RowOK(s) /\ TimeOK(s)
    BY <1>2 DEF IInv, AttemptsOK
  <2>2. /\ row'[s] # None => row'[s] = row[s]
        /\ row[s] # None /\ row[s] >= clock - 4 * Window
              => row'[s] = row[s]
    OBVIOUS
  <2>3. TimeOK(s)'
    BY <2>1 DEF TimeOK, Claiming, PC
  <2>4. RowOK(s)'
    BY <2>1, <2>2 DEF RowOK, Written, PC
  <2>5. QED BY <2>3, <2>4
<1>4. AttemptsOK'
  BY <1>3 DEF AttemptsOK
<1>5. IsFiniteSet(Live')
  BY <1>2, LiveFinite DEF IInv, PC
<1>6. QED BY <1>1, <1>4, <1>5

(* A step of r after which r has passed no dimension it had not passed.    *)
LEMMA StillNotPassed ==
    ASSUME IInv, NEW r \in Attempts, NEW c \in Claim,
           claim' = [claim EXCEPT ![r] = c],
           \A d \in Dims :
              Passed(r, d)' => Passed(r, d) /\ c.key = claim[r].key
                                          /\ c.at = claim[r].at
    PROVE  Budget'
<1>1. /\ claim'[r] = c
      /\ \A s \in Attempts \ {r} : claim'[s] = claim[s]
  BY DEF IInv, TypeOK
<1>2. ASSUME NEW d \in Dims, NEW k \in Keys, NEW x \in 0 .. MaxClock,
             NEW s \in PassedIn(d, k, x)'
      PROVE  s \in PassedIn(d, k, x)
  <2>1. /\ s \in Attempts
        /\ Passed(s, d)'
        /\ claim'[s].key[d] = k
        /\ claim'[s].at \in Stretch(x)
    BY DEF PassedIn, Stretch
  <2>2. CASE s = r
    BY <1>1, <2>1, <2>2 DEF PassedIn
  <2>3. CASE s # r
    BY <1>1, <2>1, <2>3 DEF PassedIn, Passed, PC
  <2>4. QED BY <2>2, <2>3
<1>3. QED BY <1>2, NobodyPasses DEF IInv

-----------------------------------------------------------------------------
(* The steps before a call has a row: nobody passes.                       *)
LEMMA OpenStep ==
    ASSUME IInv, NEW r \in Attempts, NEW key \in Callers, Open(r, key)
    PROVE  IInv'
<1> DEFINE n == [NoClaim EXCEPT !.key = key, !.opened = clock]
<1>1. clock \in Nat /\ TypeOK
  BY DEF IInv, TypeOK
<1>2. n \in Claim /\ n.opened = clock
  BY <1>1, IdleShape DEF Claim, NoClaim, Dims
<1> HIDE DEF n
<1>3. PICK c \in Claim : /\ c.pc = "check" /\ c.opened = clock
                         /\ claim' = [claim EXCEPT ![r] = c]
  BY <1>1, <1>2, CountingShape DEF Open, n
<1>4. claim'[r] = c /\ row' = row /\ clock' = clock
  BY <1>3 DEF Open, IInv, TypeOK
<1>5. row[r] = None
  BY DEF Open, IInv, AttemptsOK, RowOK, Written
<1>6. RowOK(r)' /\ TimeOK(r)'
  BY <1>1, <1>3, <1>4, <1>5 DEF RowOK, TimeOK, Written, Claiming, PC
<1>7. TypeOK' /\ AttemptsOK' /\ IsFiniteSet(Live)'
  BY <1>1, <1>3, <1>4, <1>6, OneCall DEF TypeOK
<1>8. Budget'
  BY <1>3, <1>4, StillNotPassed DEF Passed, PC
<1>9. QED BY <1>7, <1>8 DEF IInv

(* A refusal before the insert.                                            *)
LEMMA RefuseStep ==
    ASSUME IInv, NEW r \in Attempts,
           \/ row' = row /\ PC(r) = "check"
           \/ row' = Deleted(r),
           claim' = [claim EXCEPT ![r] = NoClaim], clock' = clock
    PROVE  IInv'
<1>1. TypeOK
  BY DEF IInv
<1>2. claim'[r] = NoClaim
  BY <1>1 DEF TypeOK
<1>3. row'[r] = None
  BY <1>1 DEF IInv, AttemptsOK, RowOK, Written, Deleted, TypeOK
<1>4. row' \in [Attempts -> Nat \cup {None}]
  BY <1>1 DEF TypeOK, Deleted
<1>5. \A s \in Attempts \ {r} : row'[s] = row[s]
  BY <1>1 DEF TypeOK, Deleted
<1>6. RowOK(r)' /\ TimeOK(r)'
  BY <1>2, <1>3, IdleShape DEF RowOK, TimeOK, Written, Claiming, PC
<1>7. TypeOK' /\ AttemptsOK' /\ IsFiniteSet(Live)'
  BY <1>4, <1>5, <1>6, IdleShape, OneCall
<1>8. Budget'
  BY <1>2, IdleShape, StillNotPassed DEF Passed, PC
<1>9. QED BY <1>7, <1>8 DEF IInv

(* The insert: the row is written now, inside the claim's time.            *)
LEMMA InsertStep ==
    ASSUME IInv, NEW r \in Attempts, Insert(r)
    PROVE  IInv'
<1>1. clock \in Nat /\ TypeOK /\ claim[r] \in Claim
  BY DEF IInv, TypeOK
<1> DEFINE n == [claim[r] EXCEPT !.pc = "inserted", !.at = clock]
<1>2. /\ n \in Claim
      /\ n.pc = "inserted" /\ n.at = clock /\ n.opened = claim[r].opened
  BY <1>1 DEF Claim
<1>3. claim' = [claim EXCEPT ![r] = n]
  BY DEF Insert
<1> HIDE DEF n
<1>4. /\ claim'[r] = n /\ row'[r] = clock /\ clock' = clock
      /\ \A s \in Attempts \ {r} : row'[s] = row[s]
      /\ row' \in [Attempts -> Nat \cup {None}]
  BY <1>1, <1>3 DEF Insert, TypeOK
<1>5. claim[r].opened <= clock /\ clock - claim[r].opened <= SlowestClaim
  BY DEF Insert, IInv, AttemptsOK, TimeOK, Claiming
<1>6. RowOK(r)'
  BY <1>1, <1>2, <1>4 DEF RowOK, Written, PC
<1>7. TimeOK(r)'
  BY <1>1, <1>2, <1>4, <1>5 DEF TimeOK, Claiming, PC
<1>8. TypeOK' /\ AttemptsOK' /\ IsFiniteSet(Live)'
  BY <1>2, <1>3, <1>4, <1>6, <1>7, OneCall
<1>9. Budget'
  BY <1>2, <1>3, <1>4, StillNotPassed DEF Passed, PC
<1>10. QED BY <1>8, <1>9 DEF IInv

(* The second counts begin: their window starts at most SlowestClaim after *)
(* the row was written.                                                    *)
LEMMA RecountStep ==
    ASSUME IInv, NEW r \in Attempts, Recount(r)
    PROVE  IInv'
<1>1. clock \in Nat /\ TypeOK /\ claim[r] \in Claim
  BY DEF IInv, TypeOK
<1> DEFINE n == Counting(claim[r], "recount")
<1>2. /\ n \in Claim
      /\ n.pc = "recount" /\ n.at = claim[r].at
      /\ n.opened = claim[r].opened /\ n.from = clock - Window
      /\ n.todo = Dims
  BY <1>1, CountingShape
<1>3. claim' = [claim EXCEPT ![r] = n] /\ row' = row /\ clock' = clock
  BY DEF Recount
<1> HIDE DEF n
<1>4. claim'[r] = n
  BY <1>1, <1>3 DEF TypeOK
<1>5. /\ RowOK(r) /\ TimeOK(r) /\ PC(r) = "inserted"
      /\ claim[r].at \in Nat /\ claim[r].opened \in Nat
  BY <1>1 DEF Recount, IInv, AttemptsOK, Claim
<1>6. RowOK(r)'
  BY <1>2, <1>3, <1>4, <1>5 DEF RowOK, Written, PC
<1>7. /\ claim[r].opened <= clock /\ clock - claim[r].opened <= SlowestClaim
      /\ claim[r].opened <= claim[r].at /\ claim[r].at <= clock
  BY <1>5 DEF TimeOK, RowOK, Claiming, Written
<1>8. TimeOK(r)'
  <2>1. /\ clock - Window >= claim[r].at - Window
        /\ clock - Window <= claim[r].at + SlowestClaim - Window
    BY <1>1, <1>5, <1>7
  <2>2. QED BY <1>2, <1>3, <1>4, <1>7, <2>1 DEF TimeOK, Claiming, PC
<1>9. TypeOK' /\ AttemptsOK' /\ IsFiniteSet(Live)'
  BY <1>1, <1>2, <1>3, <1>6, <1>8, OneCall DEF TypeOK
<1>10. Budget'
  BY <1>2, <1>3, <1>4, StillNotPassed DEF Passed, PC
<1>11. QED BY <1>9, <1>10 DEF IInv

-----------------------------------------------------------------------------
(* The heart of the budget: whoever passed a dimension, in a stretch that  *)
(* holds the row of r, has a row that r's second count of it sees.         *)
LEMMA CountSees ==
    ASSUME IInv, NEW r \in Attempts, PC(r) = "recount",
           NEW d \in Dims, NEW k \in Keys, NEW x \in 0 .. MaxClock,
           claim[r].key[d] = k, claim[r].at \in Stretch(x)
    PROVE  PassedIn(d, k, x) \cup {r} \subseteq Counted(r, d)
<1> SUFFICES ASSUME NEW s \in PassedIn(d, k, x) \cup {r}
             PROVE  s \in Counted(r, d)
  OBVIOUS
<1>1. /\ s \in Attempts /\ claim[s].key[d] = k /\ Written(s)
      /\ claim[s].at \in Stretch(x)
  BY DEF PassedIn, Passed, Written
<1>2. /\ claim[r] \in Claim /\ claim[s] \in Claim /\ clock \in Nat
      /\ RowOK(s) /\ TimeOK(r) /\ RowOK(r)
  BY <1>1 DEF IInv, TypeOK, AttemptsOK
<1>3. /\ claim[r].at \in Nat /\ claim[s].at \in Nat /\ claim[r].from \in Int
      /\ claim[r].opened \in Nat
  BY <1>2 DEF Claim
<1>4. /\ claim[r].from >= claim[r].at - Window
      /\ claim[r].from <= claim[r].at + SlowestClaim - Window
      /\ claim[r].opened <= claim[r].at
      /\ clock - claim[r].opened <= SlowestClaim
  BY <1>2 DEF TimeOK, Claiming
<1>5. claim[s].at >= x /\ claim[r].at <= x + (Window - SlowestClaim)
  BY <1>1, <1>3 DEF Stretch
<1>6. claim[s].at >= claim[r].from
  BY <1>3, <1>4, <1>5
<1>7. claim[s].at >= clock - 4 * Window
  BY <1>2, <1>3, <1>4, <1>6
<1>8. row[s] = claim[s].at /\ row[s] # None
  BY <1>1, <1>2, <1>7 DEF RowOK
<1>9. QED BY <1>1, <1>6, <1>8 DEF Counted

(* Hence a count that does not refuse keeps the budget.                    *)
LEMMA CountStep ==
    ASSUME IInv, NEW r \in Attempts, NEW d \in Dims, Count(r, d)
    PROVE  IInv'
<1>1. clock \in Nat /\ TypeOK /\ claim[r] \in Claim
  BY DEF IInv, TypeOK
<1> DEFINE over == Cardinality(Counted(r, d)) >= Limit(r)
           n == [claim[r] EXCEPT !.todo = claim[r].todo \ {d},
                                 !.full = claim[r].full \/ over]
<1>2. /\ n \in Claim
      /\ n.pc = claim[r].pc /\ n.at = claim[r].at /\ n.key = claim[r].key
      /\ n.opened = claim[r].opened /\ n.from = claim[r].from
      /\ n.todo = claim[r].todo \ {d}
  BY <1>1 DEF Claim
<1>3. n.full = (claim[r].full \/ over)
  BY <1>1, Zenon DEF Claim
<1>4. claim' = [claim EXCEPT ![r] = n] /\ row' = row /\ clock' = clock
  BY DEF Count
<1> HIDE DEF n, over
<1>5. claim'[r] = n /\ \A s \in Attempts \ {r} : claim'[s] = claim[s]
  BY <1>1, <1>4 DEF TypeOK
<1>6. RowOK(r) /\ TimeOK(r)
  BY DEF IInv, AttemptsOK
<1>7. RowOK(r)' /\ TimeOK(r)'
  BY <1>2, <1>4, <1>5, <1>6 DEF RowOK, TimeOK, Written, Claiming, PC
<1>8. TypeOK' /\ AttemptsOK' /\ IsFiniteSet(Live)'
  BY <1>1, <1>2, <1>4, <1>7, OneCall DEF TypeOK
<1>9. Budget'
  <2> SUFFICES ASSUME NEW e \in Dims, NEW k \in Keys, NEW x \in 0 .. MaxClock
               PROVE  Cardinality(PassedIn(e, k, x)') <= MaxAttempts
    BY DEF Budget
  <2>0. /\ IsFiniteSet(PassedIn(e, k, x))
        /\ Cardinality(PassedIn(e, k, x)) <= MaxAttempts
        /\ Cardinality(PassedIn(e, k, x)) \in Nat
    BY PassedFinite, FS_CardinalityType DEF IInv, Budget
  <2>1. PassedIn(e, k, x)' \subseteq PassedIn(e, k, x) \cup {r}
    BY <1>5 DEF PassedIn, Passed, PC, Stretch
  <2>2. CASE r \in PassedIn(e, k, x)' /\ r \notin PassedIn(e, k, x)
    <3>1. /\ Passed(r, e)' /\ n.key[e] = k /\ n.at \in Stretch(x)
      BY <1>5, <2>2 DEF PassedIn, Stretch
    <3>2. ~Passed(r, e) /\ claim[r].key[e] = k /\ claim[r].at \in Stretch(x)
      BY <1>2, <2>2, <3>1 DEF PassedIn
    <3>3. PC(r) = "recount" /\ e = d /\ ~over
      BY <1>2, <1>3, <1>5, <3>1, <3>2 DEF Passed, PC, Count
    <3>4. PassedIn(e, k, x)' \subseteq Counted(r, d)
      BY <2>1, <3>2, <3>3, CountSees
    <3>5. IsFiniteSet(Counted(r, d))
      <4>1. Counted(r, d) \subseteq Live
        BY DEF Counted, Live, IInv, AttemptsOK, RowOK, Written
      <4>2. QED BY <4>1, FS_Subset DEF IInv
    <3>6. /\ Cardinality(PassedIn(e, k, x)') <= Cardinality(Counted(r, d))
          /\ Cardinality(PassedIn(e, k, x)') \in Nat
          /\ Cardinality(Counted(r, d)) \in Nat
      BY <3>4, <3>5, FS_Subset, FS_CardinalityType
    <3>7. Cardinality(Counted(r, d)) < MaxAttempts + 1
      BY <3>3, <3>6 DEF over, Limit
    <3>8. QED BY <3>6, <3>7
  <2>3. CASE ~(r \in PassedIn(e, k, x)' /\ r \notin PassedIn(e, k, x))
    <3>1. PassedIn(e, k, x)' \subseteq PassedIn(e, k, x)
      BY <2>1, <2>3
    <3>2. /\ Cardinality(PassedIn(e, k, x)') <= Cardinality(PassedIn(e, k, x))
          /\ Cardinality(PassedIn(e, k, x)') \in Nat
      BY <2>0, <3>1, FS_Subset, FS_CardinalityType
    <3>3. QED BY <2>0, <3>2
  <2>4. QED BY <2>2, <2>3
<1>10. QED BY <1>8, <1>9 DEF IInv

-----------------------------------------------------------------------------
(* A call leaves its counts behind, admitted, kept or stuck; its row stays,*)
(* or the rows four windows old are swept.                                 *)
LEMMA DoneStep ==
    ASSUME IInv, NEW r \in Attempts, NEW pc \in {"admitted", "kept", "stuck"},
           claim' = [claim EXCEPT ![r] = Done(claim[r], pc)], clock' = clock,
           row' = row \/ row' = Unexpired(row),
           Written(r),
           pc # "stuck" => \A d \in Dims : Passed(r, d)
    PROVE  IInv'
<1>1. clock \in Nat /\ TypeOK /\ claim[r] \in Claim
  BY DEF IInv, TypeOK
<1> DEFINE n == Done(claim[r], pc)
<1>2. n \in Claim /\ n.pc = pc /\ n.key = claim[r].key /\ n.at = claim[r].at
  BY <1>1, DoneShape
<1>3. claim' = [claim EXCEPT ![r] = n]
  OBVIOUS
<1> HIDE DEF n
<1>4. claim'[r] = n
  BY <1>1, <1>3 DEF TypeOK
<1>5. /\ row' \in [Attempts -> Nat \cup {None}]
      /\ \A s \in Attempts : row'[s] # None => row'[s] = row[s]
      /\ \A s \in Attempts :
            row[s] # None /\ row[s] >= clock - 4 * Window
               => row'[s] = row[s]
  BY <1>1, SweepKeeps DEF TypeOK
<1>6. RowOK(r)
  BY DEF IInv, AttemptsOK
<1>7. RowOK(r)'
  BY <1>2, <1>4, <1>5, <1>6 DEF RowOK, Written, PC
<1>8. TimeOK(r)'
  BY <1>2, <1>4 DEF TimeOK, Claiming, PC
<1>9. TypeOK' /\ AttemptsOK' /\ IsFiniteSet(Live)'
  BY <1>2, <1>3, <1>5, <1>7, <1>8, OneCall
<1>10. \A d \in Dims : Passed(r, d)' => pc # "stuck"
  BY <1>2, <1>4 DEF Passed, PC
<1>11. Budget'
  BY <1>2, <1>3, <1>10, StillNotPassed
<1>12. QED BY <1>9, <1>11 DEF IInv

(* The clock, and a sweep for another kind.                                *)
LEMMA OtherStep ==
    ASSUME IInv, Tick \/ Sweep
    PROVE  IInv'
<1>1. /\ TypeOK /\ clock \in Nat /\ clock' \in 0 .. MaxClock
      /\ clock' \in Nat /\ claim' = claim /\ clock <= clock'
      /\ clock' <= clock + 1
  BY DEF IInv, TypeOK, Tick, Sweep
<1>2. /\ row' \in [Attempts -> Nat \cup {None}]
      /\ \A s \in Attempts : row'[s] # None => row'[s] = row[s]
      /\ \A s \in Attempts :
            row[s] # None /\ row[s] >= clock' - 4 * Window
               => row'[s] = row[s]
  BY <1>1, SweepKeeps DEF Tick, Sweep, TypeOK
<1>3. TypeOK'
  BY <1>1, <1>2 DEF TypeOK
<1>4. ASSUME NEW s \in Attempts PROVE RowOK(s)' /\ TimeOK(s)'
  <2>1. /\ RowOK(s) /\ TimeOK(s) /\ claim'[s] = claim[s]
        /\ claim[s] \in Claim
    BY <1>1 DEF IInv, AttemptsOK, TypeOK
  <2>2. claim[s].at \in Nat /\ claim[s].opened \in Nat
    BY <2>1 DEF Claim
  <2>3. RowOK(s)'
    BY <1>1, <1>2, <2>1, <2>2 DEF RowOK, Written, PC
  <2>4. Claiming(s) => clock' - claim[s].opened <= SlowestClaim
    BY <1>1, <2>1, <2>2 DEF Tick, Sweep, TimeOK
  <2>5. TimeOK(s)'
    BY <1>1, <2>1, <2>2, <2>4 DEF TimeOK, Claiming, PC
  <2>6. QED BY <2>3, <2>5
<1>5. AttemptsOK'
  BY <1>4 DEF AttemptsOK
<1>6. Live' = Live /\ \A d, k, x : PassedIn(d, k, x)' = PassedIn(d, k, x)
  BY <1>1 DEF Live, PassedIn, Passed, PC, Stretch
<1>7. Budget'
  BY <1>6, NobodyPasses DEF IInv
<1>8. QED BY <1>3, <1>5, <1>6, <1>7 DEF IInv

-----------------------------------------------------------------------------
(* Every step keeps the invariant.                                         *)
LEMMA BudgetNext == IInv /\ [Next]_vars => IInv'
<1> SUFFICES ASSUME IInv, [Next]_vars PROVE IInv'
  OBVIOUS
<1>1. CASE Tick \/ Sweep
  BY <1>1, OtherStep
<1>2. ASSUME NEW r \in Attempts,
             \/ \E key \in Callers : Open(r, key)
             \/ \E d \in Dims : Count(r, d)
             \/ Refuse(r)
             \/ Insert(r)
             \/ Recount(r)
             \/ Withdraw(r)
             \/ Admit(r)
             \/ SettleWrong(r)
             \/ SettleRight(r)
             \/ Break(r)
      PROVE  IInv'
  <2>1. CASE \E key \in Callers : Open(r, key)
    BY <2>1, OpenStep
  <2>2. CASE \E d \in Dims : Count(r, d)
    BY <2>2, CountStep
  <2>3. CASE Refuse(r)
    BY <2>3, RefuseStep DEF Refuse
  <2>4. CASE Insert(r)
    BY <2>4, InsertStep
  <2>5. CASE Recount(r)
    BY <2>5, RecountStep
  <2>6. CASE Withdraw(r)
    BY <2>6, RefuseStep DEF Withdraw
  <2>7. CASE Admit(r)
    BY <2>7, DoneStep DEF Admit, UnderLimit, Written, Passed
  <2>8. CASE SettleWrong(r)
    BY <2>8, DoneStep DEF SettleWrong, Written, Passed
  <2>9. CASE SettleRight(r)
    BY <2>9, RefuseStep DEF SettleRight
  <2>10. CASE Break(r)
    <3>1. CASE PC(r) = "check"
      BY <2>10, <3>1, RefuseStep DEF Break
    <3>2. CASE PC(r) = "admitted"
      BY <2>10, <3>2, DoneStep DEF Break, Written, Passed
    <3>3. CASE PC(r) \in {"inserted", "recount"}
      BY <2>10, <3>3, DoneStep DEF Break, Written
    <3>4. QED BY <2>10, <3>1, <3>2, <3>3 DEF Break
  <2>11. QED
    BY <1>2, <2>1, <2>2, <2>3, <2>4, <2>5, <2>6, <2>7, <2>8, <2>9, <2>10
<1>3. CASE UNCHANGED vars
  <2>1. /\ clock' = clock /\ claim' = claim /\ row' = row
        /\ \A d, k, x : PassedIn(d, k, x)' = PassedIn(d, k, x)
    BY <1>3 DEF vars, PassedIn, Passed, PC, Stretch
  <2>2. Budget'
    BY <2>1, NobodyPasses DEF IInv
  <2>3. TypeOK' /\ AttemptsOK' /\ IsFiniteSet(Live)'
    BY <2>1 DEF IInv, TypeOK, AttemptsOK, RowOK, TimeOK, Written, Claiming,
                PC, Live
  <2>4. QED BY <2>2, <2>3 DEF IInv
<1>4. QED BY <1>1, <1>2, <1>3 DEF Next

(* The invariant holds in every behaviour.                                 *)
LEMMA BudgetAlways == Spec => []IInv
BY BudgetInit, BudgetNext, PTL DEF Spec

(* The table and the calls keep their shapes.                              *)
THEOREM AttemptTypes == Spec => []TypeOK
<1>1. IInv => TypeOK
  BY DEF IInv
<1>2. QED BY <1>1, BudgetAlways, PTL

(* The budget of the sign-in steps: for any number of concurrent attempts, *)
(* any budget and any window, no more credentials are judged per key and   *)
(* window, less the time one claim may take, than the budget allows.       *)
THEOREM BurstsAreBounded == Spec => []BudgetKept
<1>1. IInv => BudgetKept
  <2> SUFFICES ASSUME IInv, NEW d \in Dims, NEW k \in Keys,
                      NEW x \in 0 .. MaxClock
               PROVE  Cardinality(Judged(d, k, x)) <= MaxAttempts
    BY DEF BudgetKept
  <2>1. Judged(d, k, x) \subseteq PassedIn(d, k, x)
    BY DEF Judged, PassedIn, Passed
  <2>2. /\ IsFiniteSet(PassedIn(d, k, x))
        /\ Cardinality(PassedIn(d, k, x)) <= MaxAttempts
        /\ Cardinality(PassedIn(d, k, x)) \in Nat
    BY PassedFinite, FS_CardinalityType DEF IInv, Budget
  <2>3. /\ Cardinality(Judged(d, k, x)) <= Cardinality(PassedIn(d, k, x))
        /\ Cardinality(Judged(d, k, x)) \in Nat
    BY <2>1, <2>2, FS_Subset, FS_CardinalityType
  <2>4. QED BY <2>2, <2>3
<1>2. QED BY <1>1, BudgetAlways, PTL

(* No success and no refused burst is left in the table, and no failure of *)
(* the present window is missing from it.                                  *)
THEOREM CountersAreFailures == Spec => []OnlyFailuresCount
<1>1. IInv => OnlyFailuresCount
  <2> SUFFICES ASSUME IInv, NEW r \in Attempts
               PROVE  /\ PC(r) = "idle" => row[r] = None
                      /\ PC(r) \in {"kept", "stuck"}
                           /\ claim[r].at >= clock - Window => row[r] # None
    BY DEF OnlyFailuresCount
  <2>1. RowOK(r) /\ clock \in Nat /\ claim[r].at \in Nat
    BY DEF IInv, TypeOK, AttemptsOK, Claim
  <2>2. PC(r) = "idle" => row[r] = None
    BY <2>1 DEF RowOK, Written
  <2>3. claim[r].at >= clock - Window => claim[r].at >= clock - 4 * Window
    BY <2>1
  <2>4. QED BY <2>1, <2>2, <2>3 DEF RowOK, Written
<1>2. QED BY <1>1, BudgetAlways, PTL
=============================================================================
