-------------------------- MODULE AdmissionProofs ---------------------------
(***************************************************************************)
(* Proofs about Admission for every set of members and of requests, every  *)
(* depth of the room, every quota and every window; and, at the end, about *)
(* the halt of a server process (ModelCalls), for any number of requests,  *)
(* members and administrators.                                             *)
(***************************************************************************)
EXTENDS Admission, InferenceHalt, TLAPS, FiniteSetTheorems, SequenceTheorems

CONSTANT MaxBeside
Server == INSTANCE ModelCalls

-----------------------------------------------------------------------------
(* The operations on the room, for any sequence without repetition.        *)

(* Append puts one more request in the room.                               *)
LEMMA RoomAppend ==
    ASSUME NEW S, NEW q \in Seq(S), NEW r \in S, r \notin Range(q),
           IsInjective(q)
    PROVE  /\ Append(q, r) \in Seq(S)
           /\ Len(Append(q, r)) = Len(q) + 1
           /\ Range(Append(q, r)) = Range(q) \cup {r}
           /\ IsInjective(Append(q, r))
<1> DEFINE p == Append(q, r)
<1>1. /\ p \in Seq(S)
      /\ Len(p) = Len(q) + 1
      /\ \A i \in 1 .. Len(q) : p[i] = q[i]
      /\ p[Len(q) + 1] = r
    BY AppendProperties
<1>2. DOMAIN q = 1 .. Len(q) /\ DOMAIN p = 1 .. Len(q) + 1 /\ Len(q) \in Nat
    BY <1>1
<1>3. Range(p) = Range(q) \cup {r}
    BY <1>1, <1>2 DEF Range
<1>4. \A i \in DOMAIN q : q[i] # r
    BY DEF Range
<1>5. IsInjective(p)
  <2> SUFFICES ASSUME NEW i \in 1 .. Len(q) + 1, NEW j \in 1 .. Len(q) + 1,
                      p[i] = p[j]
               PROVE  i = j
      BY <1>2 DEF IsInjective
  <2>1. CASE i \in 1 .. Len(q) /\ j \in 1 .. Len(q)
      BY <2>1, <1>1, <1>2 DEF IsInjective
  <2>2. CASE i = Len(q) + 1 \/ j = Len(q) + 1
      BY <2>2, <1>1, <1>2, <1>4
  <2> QED BY <2>1, <2>2, <1>2
<1> QED BY <1>1, <1>3, <1>5

(* Tail takes the head out of the room.                                    *)
LEMMA RoomTail ==
    ASSUME NEW S, NEW q \in Seq(S), q # <<>>, IsInjective(q)
    PROVE  /\ Head(q) \in Range(q)
           /\ Tail(q) \in Seq(S)
           /\ Len(Tail(q)) = Len(q) - 1
           /\ Range(Tail(q)) = Range(q) \ {Head(q)}
           /\ IsInjective(Tail(q))
<1> DEFINE p == Tail(q)
<1>1. /\ p \in Seq(S)
      /\ Len(p) = Len(q) - 1
      /\ \A i \in 1 .. Len(p) : p[i] = q[i + 1]
    BY HeadTailProperties
<1>2. Len(q) \in Nat \ {0} /\ DOMAIN q = 1 .. Len(q)
    BY EmptySeq, LenProperties
<1>3. DOMAIN p = 1 .. Len(q) - 1
    BY <1>1
<1>4. Head(q) = q[1]
    OBVIOUS
<1>5. IsInjective(p)
    BY <1>1, <1>2, <1>3 DEF IsInjective
<1>6. ASSUME NEW x \in Range(q), x # Head(q) PROVE x \in Range(p)
  <2>1. PICK k \in 1 .. Len(q) : q[k] = x
      BY <1>2 DEF Range
  <2>2. k - 1 \in 1 .. Len(q) - 1 /\ (k - 1) + 1 = k
      BY <2>1, <1>2, <1>4, <1>6
  <2> QED BY <2>1, <2>2, <1>1, <1>3 DEF Range
<1>7. ASSUME NEW x \in Range(p) PROVE x \in Range(q) /\ x # Head(q)
  <2>1. PICK k \in 1 .. Len(q) - 1 : p[k] = x
      BY <1>3 DEF Range
  <2>2. k + 1 \in 1 .. Len(q) /\ k + 1 # 1 /\ q[k + 1] = x
      BY <2>1, <1>1, <1>2
  <2>3. q[1] # x
      BY <2>2, <1>2 DEF IsInjective
  <2> QED BY <2>2, <2>3, <1>2, <1>4 DEF Range
<1>8. Head(q) \in Range(q)
    BY <1>2, <1>4 DEF Range
<1>9. Range(p) = Range(q) \ {Head(q)}
    BY <1>6, <1>7
<1> QED BY <1>1, <1>5, <1>8, <1>9

(* RemoveAt takes the request at one place out of the room.                *)
LEMMA RoomRemove ==
    ASSUME NEW S, NEW q \in Seq(S), NEW n \in DOMAIN q, IsInjective(q)
    PROVE  /\ RemoveAt(q, n) \in Seq(S)
           /\ Len(RemoveAt(q, n)) = Len(q) - 1
           /\ Range(RemoveAt(q, n)) = Range(q) \ {q[n]}
           /\ IsInjective(RemoveAt(q, n))
<1> DEFINE a == SubSeq(q, 1, n - 1)
           b == SubSeq(q, n + 1, Len(q))
           p == RemoveAt(q, n)
<1>1. Len(q) \in Nat /\ DOMAIN q = 1 .. Len(q) /\ n \in 1 .. Len(q)
    BY LenProperties
<1>2. \A i \in 1 .. Len(q) : q[i] \in S
    BY ElementOfSeq
<1>3. /\ a \in Seq(S)
      /\ Len(a) = n - 1
      /\ \A i \in 1 .. n - 1 : a[i] = q[i]
    BY <1>1, <1>2, SubSeqProperties
<1>4. /\ b \in Seq(S)
      /\ Len(b) = Len(q) - n
      /\ \A i \in 1 .. Len(q) - n : b[i] = q[n + i]
  <2>1. /\ SubSeq(q, n + 1, Len(q)) \in Seq(S)
        /\ Len(SubSeq(q, n + 1, Len(q)))
             = IF n + 1 <= Len(q) THEN Len(q) - (n + 1) + 1 ELSE 0
        /\ \A i \in 1 .. Len(q) - (n + 1) + 1 :
              SubSeq(q, n + 1, Len(q))[i] = q[(n + 1) + i - 1]
      BY <1>1, <1>2, SubSeqProperties
  <2>2. Len(q) - (n + 1) + 1 = Len(q) - n
      BY <1>1
  <2>3. n + 1 <= Len(q) \/ Len(q) - n = 0
      BY <1>1
  <2>4. \A i \in 1 .. Len(q) - n : (n + 1) + i - 1 = n + i
      BY <1>1
  <2>5. Len(b) = Len(q) - n
      BY <2>1, <2>2, <2>3, <1>1
  <2> QED BY <2>1, <2>2, <2>4, <2>5
<1>5. p = a \o b
    BY DEF RemoveAt
<1>6. /\ p \in Seq(S)
      /\ Len(p) = Len(q) - 1
      /\ \A i \in 1 .. Len(q) - 1 : p[i] = IF i < n THEN q[i] ELSE q[i + 1]
  <2>1. /\ a \o b \in Seq(S)
        /\ Len(a \o b) = Len(a) + Len(b)
        /\ \A i \in 1 .. Len(a) + Len(b) :
              (a \o b)[i] = IF i <= Len(a) THEN a[i] ELSE b[i - Len(a)]
      BY <1>3, <1>4, ConcatProperties
  <2> HIDE DEF a, b, p
  <2>2. p \in Seq(S) /\ Len(p) = Len(q) - 1
    <3>1. p \in Seq(S) /\ Len(p) = Len(a) + Len(b)
        BY <2>1, <1>5
    <3>2. Len(a) + Len(b) = Len(q) - 1
        BY <1>1, <1>3, <1>4
    <3> QED BY <3>1, <3>2
  <2>3. ASSUME NEW i \in 1 .. Len(q) - 1, i < n PROVE p[i] = q[i]
    <3>1. i \in 1 .. Len(a) + Len(b) /\ i <= Len(a) /\ i \in 1 .. n - 1
        BY <2>3, <1>1, <1>3, <1>4
    <3> QED BY <3>1, <2>1, <1>3, <1>5
  <2>4. ASSUME NEW i \in 1 .. Len(q) - 1, ~(i < n) PROVE p[i] = q[i + 1]
    <3>1. /\ i \in 1 .. Len(a) + Len(b)
          /\ ~(i <= Len(a))
          /\ i - Len(a) \in 1 .. Len(q) - n
          /\ n + (i - Len(a)) = i + 1
        BY <2>4, <1>1, <1>3, <1>4
    <3> QED BY <3>1, <2>1, <1>4, <1>5
  <2> QED BY <2>2, <2>3, <2>4
<1>7. DOMAIN p = 1 .. Len(q) - 1
    BY <1>6
<1> HIDE DEF p
<1>8. IsInjective(p)
  <2> SUFFICES ASSUME NEW i \in 1 .. Len(q) - 1, NEW j \in 1 .. Len(q) - 1,
                      p[i] = p[j]
               PROVE  i = j
      BY <1>7 DEF IsInjective
  <2> DEFINE k == IF i < n THEN i ELSE i + 1
             l == IF j < n THEN j ELSE j + 1
  <2>1. k \in 1 .. Len(q) /\ l \in 1 .. Len(q) /\ (k = l => i = j)
      BY <1>1
  <2>2. p[i] = q[k] /\ p[j] = q[l]
      BY <1>6
  <2> HIDE DEF k, l
  <2> QED BY <2>1, <2>2, <1>1 DEF IsInjective
<1>9. ASSUME NEW x \in Range(q), x # q[n] PROVE x \in Range(p)
  <2>1. PICK k \in 1 .. Len(q) : q[k] = x
      BY <1>1 DEF Range
  <2>2. CASE k < n
      BY <2>1, <2>2, <1>1, <1>6, <1>7 DEF Range
  <2>3. CASE k > n
    <3>1. k - 1 \in 1 .. Len(q) - 1 /\ ~(k - 1 < n) /\ (k - 1) + 1 = k
        BY <2>3, <1>1
    <3>2. p[k - 1] = x
        BY <3>1, <2>1, <1>6
    <3> QED BY <3>1, <3>2, <1>7 DEF Range
  <2> QED BY <2>1, <2>2, <2>3, <1>1, <1>9
<1>10. ASSUME NEW x \in Range(p) PROVE x \in Range(q) /\ x # q[n]
  <2>1. PICK k \in 1 .. Len(q) - 1 : p[k] = x
      BY <1>7 DEF Range
  <2>2. PICK l \in 1 .. Len(q) : l # n /\ q[l] = x
    <3>1. CASE k < n
        BY <3>1, <2>1, <1>1, <1>6
    <3>2. CASE ~(k < n)
        BY <3>2, <2>1, <1>1, <1>6
    <3> QED BY <3>1, <3>2
  <2> QED BY <2>2, <1>1 DEF Range, IsInjective
<1>11. Range(p) = Range(q) \ {q[n]}
    BY <1>9, <1>10, <1>1 DEF Range
<1> QED BY <1>6, <1>8, <1>11 DEF p

(* A new request takes over the place of another.                          *)
LEMMA RoomReplace ==
    ASSUME NEW S, NEW q \in Seq(S), NEW n \in DOMAIN q, NEW r \in S,
           r \notin Range(q), IsInjective(q)
    PROVE  /\ [q EXCEPT ![n] = r] \in Seq(S)
           /\ Len([q EXCEPT ![n] = r]) = Len(q)
           /\ Range([q EXCEPT ![n] = r]) = (Range(q) \ {q[n]}) \cup {r}
           /\ IsInjective([q EXCEPT ![n] = r])
<1> DEFINE p == [q EXCEPT ![n] = r]
<1>1. /\ p \in Seq(S)
      /\ Len(p) = Len(q)
      /\ DOMAIN q = 1 .. Len(q)
      /\ DOMAIN p = 1 .. Len(q)
      /\ \A i \in 1 .. Len(q) : p[i] = IF i = n THEN r ELSE q[i]
    BY ExceptSeq, LenProperties
<1>2. \A i \in DOMAIN q : q[i] # r
    BY DEF Range
<1> HIDE DEF p
<1>3. IsInjective(p)
    BY <1>1, <1>2 DEF IsInjective
<1>4. Range(p) = (Range(q) \ {q[n]}) \cup {r}
  <2>1. ASSUME NEW x \in Range(p) PROVE x \in (Range(q) \ {q[n]}) \cup {r}
      BY <2>1, <1>1 DEF Range, IsInjective
  <2>2. r \in Range(p)
      BY <1>1 DEF Range
  <2>3. ASSUME NEW x \in Range(q), x # q[n] PROVE x \in Range(p)
      BY <2>3, <1>1 DEF Range
  <2> QED BY <2>1, <2>2, <2>3
<1> QED BY <1>1, <1>3, <1>4 DEF p

-----------------------------------------------------------------------------
(* The state, seen from the calls instead of the places of the room.       *)

Waits(u) == \E r \in Requests : call[r].pc = "waiting" /\ call[r].user = u

Bounded ==
    \/ Len(queue) <= QueueDepth
    \/ /\ Len(queue) = QueueDepth + 1
       /\ \E u \in Users : RunningOf(u) /\ Waits(u)

LiveOne == \A u \in Users : RunningOf(u) /\ Waits(u) => call[running].aborted

Fits ==
    \A u \in Users :
       /\ IsFiniteSet(RecentStarts(u))
       /\ Waits(u) => Cardinality(RecentStarts(u)) < HourlyQuota

(* A member has a place in the room exactly when a call of theirs waits.   *)
LEMMA Places_Waits ==
    ASSUME TypeOK, RoomConsistent
    PROVE  \A u : Places(u) # {} <=> Waits(u)
<1>1. /\ queue \in Seq(Requests)
      /\ call \in [Requests -> Call]
      /\ Range(queue) = {r \in Requests : call[r].pc = "waiting"}
    BY DEF TypeOK, RoomConsistent
<1>2. ASSUME NEW u
      PROVE  {i \in DOMAIN queue : call[queue[i]].user = u} # {}
               <=> \E r \in Requests : call[r].pc = "waiting" /\ call[r].user = u
    BY <1>1 DEF Range
<1> QED BY <1>2 DEF Places, Waits

(* The same of the state after a step.                                     *)
LEMMA Places_Waits_Next ==
    ASSUME TypeOK', RoomConsistent'
    PROVE  \A u : Places(u)' # {} <=> Waits(u)'
<1>1. /\ queue' \in Seq(Requests)
      /\ call' \in [Requests -> Call]
      /\ Range(queue') = {r \in Requests : call'[r].pc = "waiting"}
    BY DEF TypeOK, RoomConsistent
<1>2. ASSUME NEW u
      PROVE  {i \in DOMAIN queue' : call'[queue'[i]].user = u} # {}
               <=> \E r \in Requests : call'[r].pc = "waiting" /\ call'[r].user = u
    BY <1>1 DEF Range
<1> QED BY <1>2 DEF Places, Waits

(* A member's place is one, and holds that member's waiting call.          *)
LEMMA OnePlace ==
    ASSUME TypeOK, RoomConsistent, NEW u, NEW i \in Places(u)
    PROVE  /\ i \in DOMAIN queue
           /\ queue[i] \in Requests
           /\ call[queue[i]].pc = "waiting"
           /\ call[queue[i]].user = u
           /\ \A j \in Places(u) : j = i
           /\ Waiting(u) = {queue[i]}
           /\ \A r \in Requests :
                 call[r].pc = "waiting" /\ call[r].user = u => r = queue[i]
<1>1. i \in DOMAIN queue /\ call[queue[i]].user = u
    BY DEF Places
<1>2. queue[i] \in Range(queue)
    BY <1>1 DEF Range
<1>3. ASSUME NEW j \in Places(u) PROVE j = i
  <2>1. j \in DOMAIN queue /\ call[queue[j]].user = u
      BY DEF Places
  <2>2. queue[j] \in Range(queue)
      BY <2>1 DEF Range
  <2>3. queue[j] = queue[i]
      BY <1>1, <1>2, <2>1, <2>2 DEF RoomConsistent
  <2> QED BY <1>1, <2>1, <2>3 DEF RoomConsistent, IsInjective
<1>4. Waiting(u) = {queue[i]}
    BY <1>3 DEF Waiting
<1>5. ASSUME NEW r \in Requests, call[r].pc = "waiting", call[r].user = u
      PROVE  r = queue[i]
    BY <1>1, <1>2, <1>5 DEF RoomConsistent
<1> QED BY <1>1, <1>2, <1>3, <1>4, <1>5 DEF RoomConsistent

(* The calls that hold a member's places are that member's waiting calls.  *)
LEMMA WaitingOf ==
    ASSUME TypeOK, RoomConsistent, NEW u
    PROVE  Waiting(u) = {r \in Requests : /\ call[r].pc = "waiting"
                                          /\ call[r].user = u}
<1>1. CASE Places(u) = {}
    BY <1>1, Places_Waits DEF Waiting, Waits
<1>2. CASE Places(u) # {}
  <2>1. PICK i \in Places(u) : TRUE
      BY <1>2
  <2> QED BY <2>1, OnePlace
<1> QED BY <1>1, <1>2

(* Without(u) is the room less that member's waiting call.                 *)
LEMMA WithoutRoom ==
    ASSUME TypeOK, RoomConsistent, NEW u
    PROVE  /\ Without(u) \in Seq(Requests)
           /\ Len(Without(u)) <= Len(queue)
           /\ Waits(u) => Len(Without(u)) = Len(queue) - 1
           /\ Range(Without(u)) = Range(queue) \ Waiting(u)
           /\ IsInjective(Without(u))
<1>0. queue \in Seq(Requests) /\ IsInjective(queue) /\ Len(queue) \in Nat
    BY LenProperties DEF TypeOK, RoomConsistent
<1>1. CASE Places(u) = {}
  <2>1. Waiting(u) = {} /\ ~Waits(u) /\ Without(u) = queue
      BY <1>1, Places_Waits DEF Waiting, Without
  <2> QED BY <2>1, <1>0
<1>2. CASE Places(u) # {}
  <2> DEFINE i == CHOOSE j \in Places(u) : TRUE
  <2>1. i \in Places(u) /\ Without(u) = RemoveAt(queue, i)
      BY <1>2 DEF Without
  <2> HIDE DEF i
  <2>2. i \in DOMAIN queue /\ Waiting(u) = {queue[i]}
      BY <2>1, OnePlace
  <2>3. /\ RemoveAt(queue, i) \in Seq(Requests)
        /\ Len(RemoveAt(queue, i)) = Len(queue) - 1
        /\ Range(RemoveAt(queue, i)) = Range(queue) \ {queue[i]}
        /\ IsInjective(RemoveAt(queue, i))
      BY <1>0, <2>2, RoomRemove
  <2> QED BY <1>0, <2>1, <2>2, <2>3
<1> QED BY <1>1, <1>2
-----------------------------------------------------------------------------
(* From places to calls in the state before a step, and back after it.     *)

CallForms == Bounded /\ LiveOne /\ Fits

(* The inductive invariant gives the properties told by calls.             *)
LEMMA ToCalls ==
    ASSUME IInv
    PROVE  CallForms
<1>1. \A u : Places(u) # {} <=> Waits(u)
    BY Places_Waits DEF IInv
<1>2. Bounded
    BY <1>1 DEF IInv, RoomBounded, Bounded
<1>3. LiveOne
    BY <1>1 DEF IInv, OneLivePerMember, LiveOne
<1>4. Fits
    BY <1>1 DEF IInv, WaitingFits, Fits
<1> QED BY <1>2, <1>3, <1>4 DEF CallForms

(* What a step has to establish.                                           *)
Established ==
    /\ TypeOK /\ CallsOwned /\ EpochLeft
    /\ RoomConsistent /\ OneInFlight
    /\ CallForms /\ QuotaKept /\ OptOutAhead

(* The same after the step gives the inductive invariant back.             *)
LEMMA FromCalls ==
    ASSUME Established'
    PROVE  IInv'
<1>1. TypeOK' /\ RoomConsistent' /\ Bounded' /\ LiveOne' /\ Fits'
    BY DEF Established, CallForms
<1>2. \A u : Places(u)' # {} <=> Waits(u)'
    BY <1>1, Places_Waits_Next
<1>3. RoomBounded'
    BY <1>1, <1>2 DEF RoomBounded, Bounded
<1>4. OneLivePerMember'
  <2>1. ASSUME NEW u \in Users, RunningOf(u)', Places(u)' # {}
        PROVE  call'[running'].aborted
      BY <2>1, <1>1, <1>2 DEF LiveOne
  <2>2. ASSUME NEW u \in Users, NEW i \in Places(u)', NEW j \in Places(u)'
        PROVE  i = j
    <3>1. i \in DOMAIN queue' /\ j \in DOMAIN queue'
          /\ call'[queue'[i]].user = call'[queue'[j]].user
        BY DEF Places
    <3>2. queue'[i] \in Range(queue') /\ queue'[j] \in Range(queue')
        BY <3>1 DEF Range
    <3>3. queue'[i] = queue'[j]
        BY <3>1, <3>2, <1>1 DEF RoomConsistent
    <3> QED BY <3>1, <3>3, <1>1 DEF RoomConsistent, IsInjective
  <2> QED BY <2>1, <2>2 DEF OneLivePerMember
<1>5. WaitingFits'
    BY <1>1, <1>2 DEF WaitingFits, Fits
<1> QED BY <1>3, <1>4, <1>5 DEF Established, IInv

(* A step that charges nobody keeps every quota.                           *)
LEMMA NoNewStart ==
    ASSUME IInv,
           \A u \in Users : RecentStarts(u)' \subseteq RecentStarts(u),
           \A u \in Users : Waits(u)' =>
              Waits(u) \/ Cardinality(RecentStarts(u)) < HourlyQuota
    PROVE  Fits' /\ QuotaKept'
<1> SUFFICES ASSUME NEW u \in Users
             PROVE  /\ IsFiniteSet(RecentStarts(u)')
                    /\ Cardinality(RecentStarts(u)') <= HourlyQuota
                    /\ Waits(u)' => Cardinality(RecentStarts(u)') < HourlyQuota
    BY DEF Fits, QuotaKept
<1> DEFINE T == RecentStarts(u)
           N == RecentStarts(u)'
<1>1. /\ IsFiniteSet(T)
      /\ Cardinality(T) <= HourlyQuota
      /\ Waits(u) => Cardinality(T) < HourlyQuota
    BY ToCalls DEF IInv, CallForms, Fits, QuotaKept
<1>2. N \in SUBSET T
    OBVIOUS
<1>3. Waits(u)' => Cardinality(T) < HourlyQuota
    BY <1>1
<1> HIDE DEF T, N
<1>4. IsFiniteSet(N) /\ Cardinality(N) <= Cardinality(T)
    BY <1>1, <1>2, FS_Subset
<1>5. Cardinality(N) \in Nat /\ Cardinality(T) \in Nat /\ HourlyQuota \in Nat
    BY <1>1, <1>4, FS_CardinalityType, LimitAssumption
<1>6. /\ Cardinality(N) <= HourlyQuota
      /\ Waits(u)' => Cardinality(N) < HourlyQuota
    BY <1>1, <1>3, <1>4, <1>5
<1> QED BY <1>4, <1>6 DEF T, N

(* A step that charges one member, who was below the quota and waits for   *)
(* nothing more, keeps every quota.                                        *)
LEMMA OneNewStart ==
    ASSUME IInv, NEW r \in Requests, NEW v \in Users,
           Cardinality(RecentStarts(v)) < HourlyQuota,
           ~Waits(v)',
           \A u \in Users :
              RecentStarts(u)' \subseteq
                 IF u = v THEN RecentStarts(u) \cup {r} ELSE RecentStarts(u),
           \A u \in Users : Waits(u)' => Waits(u)
    PROVE  Fits' /\ QuotaKept'
<1> SUFFICES ASSUME NEW u \in Users
             PROVE  /\ IsFiniteSet(RecentStarts(u)')
                    /\ Cardinality(RecentStarts(u)') <= HourlyQuota
                    /\ Waits(u)' => Cardinality(RecentStarts(u)') < HourlyQuota
    BY DEF Fits, QuotaKept
<1> DEFINE T == RecentStarts(u)
           N == RecentStarts(u)'
           M == IF u = v THEN T \cup {r} ELSE T
<1>1. /\ IsFiniteSet(T)
      /\ Cardinality(T) <= HourlyQuota
      /\ Waits(u) => Cardinality(T) < HourlyQuota
    BY ToCalls DEF IInv, CallForms, Fits, QuotaKept
<1>2. N \in SUBSET M
    OBVIOUS
<1>3. u = v => Cardinality(T) < HourlyQuota
    OBVIOUS
<1> HIDE DEF T, N
<1>4. IsFiniteSet(T \cup {r})
      /\ Cardinality(T \cup {r}) = IF r \in T THEN Cardinality(T)
                                   ELSE Cardinality(T) + 1
    BY <1>1, FS_AddElement
<1>5. IsFiniteSet(M)
    BY <1>1, <1>4
<1>6. IsFiniteSet(N) /\ Cardinality(N) <= Cardinality(M)
    BY <1>2, <1>5, FS_Subset
<1>7. /\ Cardinality(N) \in Nat /\ Cardinality(T) \in Nat
      /\ Cardinality(M) \in Nat /\ HourlyQuota \in Nat
    BY <1>1, <1>5, <1>6, FS_CardinalityType, LimitAssumption
<1>8. Cardinality(M) <= HourlyQuota
    BY <1>1, <1>3, <1>4, <1>7
<1>9. u # v => Cardinality(M) = Cardinality(T)
    OBVIOUS
<1> HIDE DEF M
<1>10. /\ Cardinality(N) <= HourlyQuota
       /\ Waits(u)' => Cardinality(N) < HourlyQuota
    BY <1>1, <1>6, <1>7, <1>8, <1>9
<1> QED BY <1>6, <1>10 DEF T, N
-----------------------------------------------------------------------------
(* Shapes of calls.                                                        *)

(* Each field of a call has its values.                                    *)
LEMMA CallFields ==
    ASSUME NEW c \in Call
    PROVE  /\ c.pc \in {"idle", "asking", "ready", "waiting", "running",
                        "released"}
           /\ c.user \in Users \cup {Nobody}
           /\ c.epoch \in 0 .. MaxEpoch
           /\ c.left \in BOOLEAN
           /\ c.aborted \in BOOLEAN
BY DEF Call

(* A call that moves to another place of its code stays a call, and only   *)
(* its place changes.                                                      *)
LEMMA CallMoves ==
    ASSUME NEW c \in Call,
           NEW pc \in {"idle", "asking", "ready", "waiting", "running",
                       "released"}
    PROVE  /\ [c EXCEPT !.pc = pc] \in Call
           /\ [c EXCEPT !.pc = pc].pc = pc
           /\ [c EXCEPT !.pc = pc].user = c.user
           /\ [c EXCEPT !.pc = pc].epoch = c.epoch
           /\ [c EXCEPT !.pc = pc].aborted = c.aborted
BY DEF Call

(* An aborted call stays a call, and only that changes.                    *)
LEMMA CallAborts ==
    ASSUME NEW c \in Call
    PROVE  /\ [c EXCEPT !.aborted = TRUE] \in Call
           /\ [c EXCEPT !.aborted = TRUE].pc = c.pc
           /\ [c EXCEPT !.aborted = TRUE].user = c.user
           /\ [c EXCEPT !.aborted = TRUE].epoch = c.epoch
           /\ [c EXCEPT !.aborted = TRUE].aborted = TRUE
BY DEF Call

(* A call whose caller leaves stays a call.                                *)
LEMMA CallLeaves ==
    ASSUME NEW c \in Call, NEW b \in BOOLEAN
    PROVE  /\ [c EXCEPT !.left = TRUE, !.aborted = b] \in Call
           /\ [c EXCEPT !.left = TRUE, !.aborted = b].pc = c.pc
           /\ [c EXCEPT !.left = TRUE, !.aborted = b].user = c.user
           /\ [c EXCEPT !.left = TRUE, !.aborted = b].epoch = c.epoch
           /\ [c EXCEPT !.left = TRUE, !.aborted = b].aborted = b
BY DEF Call

(* A request that remembers nothing is a call at rest.                     *)
LEMMA NoCallFields ==
    NoCall \in Call /\ NoCall.pc = "idle" /\ NoCall.user = Nobody
BY LimitAssumption DEF NoCall, Call

(* One call updated.                                                       *)
LEMMA CallUpdate ==
    ASSUME call \in [Requests -> Call], NEW r \in Requests, NEW x \in Call,
           call' = [call EXCEPT ![r] = x]
    PROVE  /\ call' \in [Requests -> Call]
           /\ call'[r] = x
           /\ \A s \in Requests : s # r => call'[s] = call[s]
OBVIOUS

-----------------------------------------------------------------------------
(* Steps that leave the room and the slot alone.                           *)

Uncontested ==
    /\ queue' = queue
    /\ running' = running
    /\ \A x \in Requests :
          /\ call'[x].pc = "waiting" <=> call[x].pc = "waiting"
          /\ call'[x].pc = "running" <=> call[x].pc = "running"
          /\ call[x].pc \in {"waiting", "running"} =>
                /\ call'[x].user = call[x].user
                /\ call[x].aborted => call'[x].aborted
    /\ \A u \in Users : RecentStarts(u)' \subseteq RecentStarts(u)

(* They preserve what is said of the room, the slot and the quotas.        *)
LEMMA QuietSteps ==
    ASSUME IInv, Uncontested, TypeOK'
    PROVE  RoomConsistent' /\ OneInFlight' /\ CallForms' /\ QuotaKept'
<1>1. RoomConsistent'
  <2>1. Range(queue') = {r \in Requests : call'[r].pc = "waiting"}
      BY DEF IInv, RoomConsistent, Uncontested
  <2>2. \A r \in Range(queue) : /\ r \in Requests
                                /\ call'[r].user = call[r].user
      BY DEF IInv, RoomConsistent, Uncontested
  <2>3. \A r, s \in Range(queue') : call'[r].user = call'[s].user => r = s
      BY <2>2 DEF IInv, RoomConsistent, Uncontested
  <2> QED BY <2>1, <2>3 DEF IInv, RoomConsistent, Uncontested
<1>2. OneInFlight'
    BY DEF IInv, OneInFlight, Uncontested
<1>3. \A u : Waits(u)' <=> Waits(u)
    BY DEF Waits, Uncontested
<1>4. running # Nobody => running \in Requests /\ call[running].pc = "running"
    BY DEF IInv, TypeOK, OneInFlight
<1>5. \A u : RunningOf(u)' <=> RunningOf(u)
    BY <1>4 DEF RunningOf, Uncontested
<1>6. Bounded'
    BY <1>3, <1>5, ToCalls DEF CallForms, Bounded, Uncontested
<1>7. LiveOne'
  <2> SUFFICES ASSUME NEW u \in Users, RunningOf(u)', Waits(u)'
               PROVE  call'[running'].aborted
      BY DEF LiveOne
  <2>1. call[running].aborted
      BY <1>3, <1>5, ToCalls DEF CallForms, LiveOne
  <2>2. running # Nobody
      BY <1>5 DEF RunningOf
  <2> QED BY <2>1, <2>2, <1>4 DEF Uncontested
<1>8. \A u \in Users : RecentStarts(u)' \subseteq RecentStarts(u)
    BY DEF Uncontested
<1>9. Fits' /\ QuotaKept'
    BY <1>3, <1>8, NoNewStart
<1> QED BY <1>1, <1>2, <1>6, <1>7, <1>9 DEF CallForms

(* A member's starts do not change when neither the charges nor the        *)
(* members of the calls charged do.                                        *)
LEMMA SameStarts ==
    ASSUME \A x \in Requests : charge'[x] # Nobody =>
              charge[x] # Nobody /\ call'[x].user = call[x].user
    PROVE  \A u \in Users : RecentStarts(u)' \subseteq RecentStarts(u)
BY DEF RecentStarts

(* A call that neither waits nor runs moves on, and no start of it is      *)
(* remembered under another member.                                        *)
LEMMA QuietCall ==
    ASSUME IInv, NEW r \in Requests, NEW x \in Call,
           call' = [call EXCEPT ![r] = x],
           UNCHANGED <<charge, queue, running>>,
           call[r].pc \notin {"waiting", "running"},
           x.pc \notin {"waiting", "running"},
           charge[r] # Nobody => x.user = call[r].user
    PROVE  Uncontested
<1>1. /\ call'[r] = x
      /\ \A s \in Requests : s # r => call'[s] = call[s]
    BY CallUpdate DEF IInv, TypeOK
<1>2. \A u \in Users : RecentStarts(u)' \subseteq RecentStarts(u)
  <2>1. ASSUME NEW y \in Requests, charge'[y] # Nobody
        PROVE  charge[y] # Nobody /\ call'[y].user = call[y].user
      BY <2>1, <1>1
  <2> QED BY <2>1, SameStarts
<1> QED BY <1>1, <1>2 DEF Uncontested

(* Such a step establishes everything when the call it leaves behind is    *)
(* owned, and past its switches only with the AI on.                       *)
LEMMA QuietCallEstablishes ==
    ASSUME IInv, NEW r \in Requests, NEW x \in Call,
           call' = [call EXCEPT ![r] = x],
           UNCHANGED <<charge, queue, running, epochs, aiOn, optingOut>>,
           call[r].pc \notin {"waiting", "running"},
           x.pc \notin {"waiting", "running"},
           charge[r] # Nobody => x.user = call[r].user /\ x.pc = "released",
           x.pc # "idle" => x.user \in Users /\ x.epoch <= epochs[x.user],
           x.pc = "ready" => aiOn[x.user]
    PROVE  Established'
<1>1. /\ call' \in [Requests -> Call]
      /\ call'[r] = x
      /\ \A s \in Requests : s # r => call'[s] = call[s]
    BY CallUpdate DEF IInv, TypeOK
<1>2. TypeOK'
    BY <1>1 DEF IInv, TypeOK
<1>3. Uncontested
    BY QuietCall
<1>4. RoomConsistent' /\ OneInFlight' /\ CallForms' /\ QuotaKept'
    BY <1>2, <1>3, QuietSteps
<1>5. CallsOwned'
    BY <1>1 DEF IInv, CallsOwned
<1>6. EpochLeft'
    BY DEF IInv, EpochLeft
<1>7. OptOutAhead'
    BY <1>1 DEF IInv, OptOutAhead
<1> QED BY <1>2, <1>4, <1>5, <1>6, <1>7 DEF Established

(* A caller reads the epoch.                                               *)
LEMMA StepAsk ==
    ASSUME IInv, NEW r \in Requests, NEW u \in Users, Ask(r, u)
    PROVE  Established'
<1> DEFINE x == [NoCall EXCEPT !.pc = "asking", !.user = u, !.epoch = epochs[u]]
<1>1. epochs[u] \in 0 .. MaxEpoch
    BY DEF IInv, TypeOK
<1>2. /\ x \in Call
      /\ x.pc = "asking" /\ x.user = u /\ x.epoch = epochs[u]
    BY <1>1, NoCallFields DEF NoCall, Call
<1>3. call' = [call EXCEPT ![r] = x]
    BY DEF Ask
<1> HIDE DEF x
<1>4. x.epoch <= epochs[u]
    BY <1>1, <1>2
<1> QED BY <1>2, <1>3, <1>4, QuietCallEstablishes DEF Ask

(* A caller reads the switches.                                            *)
LEMMA StepReadSwitches ==
    ASSUME IInv, NEW r \in Requests, ReadSwitches(r)
    PROVE  Established'
<1>1. /\ call[r] \in Call
      /\ call[r].pc = "asking"
      /\ call[r].user \in Users
      /\ call[r].epoch <= epochs[call[r].user]
      /\ charge[r] = Nobody
    BY DEF IInv, TypeOK, CallsOwned, ReadSwitches
<1>2. CASE aiOn[call[r].user]
  <2> DEFINE x == [call[r] EXCEPT !.pc = "ready"]
  <2>1. /\ x \in Call
        /\ x.pc = "ready" /\ x.user = call[r].user /\ x.epoch = call[r].epoch
      BY <1>1, CallMoves
  <2>2. call' = [call EXCEPT ![r] = x]
      BY <1>2 DEF ReadSwitches, IInv, TypeOK
  <2> HIDE DEF x
  <2> QED BY <1>1, <1>2, <2>1, <2>2, QuietCallEstablishes DEF ReadSwitches
<1>3. CASE ~aiOn[call[r].user]
  <2>1. call' = [call EXCEPT ![r] = NoCall]
      BY <1>3 DEF ReadSwitches, IInv, TypeOK
  <2> QED BY <1>1, <2>1, NoCallFields, QuietCallEstablishes DEF ReadSwitches
<1> QED BY <1>2, <1>3

(* acquire answers at once, and the call ends.                             *)
LEMMA StepAnswered ==
    ASSUME IInv, NEW r \in Requests, AcquireRefused(r) \/ AcquireBusy(r)
    PROVE  Established'
<1>1. /\ call[r].pc = "ready"
      /\ call' = [call EXCEPT ![r] = NoCall]
      /\ UNCHANGED <<charge, queue, running, epochs, aiOn, optingOut>>
    BY DEF AcquireRefused, AcquireBusy, Admissible
<1>2. charge[r] = Nobody
    BY <1>1 DEF IInv, CallsOwned
<1> QED BY <1>1, <1>2, NoCallFields, QuietCallEstablishes

(* The holder drops its ticket.                                            *)
LEMMA StepForget ==
    ASSUME IInv, NEW r \in Requests, Forget(r)
    PROVE  Established'
BY NoCallFields, QuietCallEstablishes DEF Forget

(* A step that changes neither the calls, the room nor the epochs, and     *)
(* only takes starts out of the lists.                                     *)
LEMMA QuietElsewhere ==
    ASSUME IInv, TypeOK', UNCHANGED <<call, queue, running, epochs>>,
           \A y \in Requests : charge'[y] # Nobody => charge[y] # Nobody,
           EpochLeft', OptOutAhead'
    PROVE  Established'
<1>1. \A u \in Users : RecentStarts(u)' \subseteq RecentStarts(u)
    BY SameStarts
<1>2. Uncontested
    BY <1>1 DEF Uncontested
<1>3. CallsOwned'
    BY DEF IInv, CallsOwned
<1> QED BY <1>2, <1>3, QuietSteps DEF Established

(* The switch is written, and cancelUser is still to come.                 *)
LEMMA StepTurnOff ==
    ASSUME IInv, NEW u \in Users, TurnOff(u)
    PROVE  Established'
<1>1. TypeOK'
    BY DEF IInv, TypeOK, TurnOff
<1>2. EpochLeft'
    BY DEF IInv, EpochLeft, TurnOff
<1>3. OptOutAhead'
    BY DEF IInv, OptOutAhead, TurnOff, TypeOK
<1> QED BY <1>1, <1>2, <1>3, QuietElsewhere DEF TurnOff

(* The switch is written on again.                                         *)
LEMMA StepTurnOn ==
    ASSUME IInv, NEW u \in Users, TurnOn(u)
    PROVE  Established'
<1>1. TypeOK'
    BY DEF IInv, TypeOK, TurnOn
<1>2. EpochLeft'
    BY DEF IInv, EpochLeft, TurnOn
<1>3. OptOutAhead'
  <2>1. \A v \in Users : aiOn[v] => aiOn'[v]
      BY DEF IInv, TypeOK, TurnOn
  <2>2. \A x \in Requests : call[x].pc # "idle" => call[x].user \in Users
      BY DEF IInv, CallsOwned
  <2> QED BY <2>1, <2>2 DEF IInv, OptOutAhead, TurnOn
<1> QED BY <1>1, <1>2, <1>3, QuietElsewhere DEF TurnOn

(* A refund takes one start out of its member's list.                      *)
LEMMA StepRefund ==
    ASSUME IInv, NEW r \in Requests, Refund(r)
    PROVE  Established'
<1>1. TypeOK'
    BY DEF IInv, TypeOK, Refund
<1>2. EpochLeft' /\ OptOutAhead'
    BY DEF IInv, EpochLeft, OptOutAhead, Refund
<1>3. \A y \in Requests : charge'[y] # Nobody => charge[y] # Nobody
    BY DEF Refund, IInv, TypeOK
<1> QED BY <1>1, <1>2, <1>3, QuietElsewhere DEF Refund

(* The clock ages every start and drops those an hour old.                 *)
LEMMA StepTick ==
    ASSUME IInv, Tick
    PROVE  Established'
<1>1. \A y \in Requests :
         /\ charge'[y] = Older(charge[y])
         /\ charge[y] \in 0 .. Window - 1 \cup {Nobody}
    BY DEF Tick, IInv, TypeOK
<1>2. \A y \in Requests : charge'[y] \in 0 .. Window - 1 \cup {Nobody}
  <2> SUFFICES ASSUME NEW y \in Requests
               PROVE  Older(charge[y]) \in 0 .. Window - 1 \cup {Nobody}
      BY <1>1
  <2>1. CASE charge[y] = Nobody
      BY <2>1 DEF Older
  <2>2. CASE charge[y] # Nobody /\ charge[y] + 1 >= Window
      BY <2>2 DEF Older
  <2>3. CASE charge[y] # Nobody /\ ~(charge[y] + 1 >= Window)
    <3>1. charge[y] \in 0 .. Window - 1
        BY <2>3, <1>1
    <3>2. charge[y] + 1 \in 0 .. Window - 1
        BY <2>3, <3>1, LimitAssumption
    <3> QED BY <2>3, <3>2 DEF Older
  <2> QED BY <2>1, <2>2, <2>3
<1>3. TypeOK'
    BY <1>2 DEF Tick, IInv, TypeOK
<1>4. EpochLeft' /\ OptOutAhead'
    BY DEF IInv, EpochLeft, OptOutAhead, Tick
<1>5. \A y \in Requests : charge'[y] # Nobody => charge[y] # Nobody
    BY <1>1 DEF Older
<1> QED BY <1>3, <1>4, <1>5, QuietElsewhere DEF Tick
-----------------------------------------------------------------------------
(* Steps that change the room or the slot.                                 *)

(* The waiting calls are the calls in the room.                            *)
LEMMA RoomIsWaiting ==
    ASSUME IInv
    PROVE  \A x \in Requests : x \in Range(queue) <=> call[x].pc = "waiting"
BY DEF IInv, RoomConsistent

(* Only the request that holds the slot is at its generation.              *)
LEMMA SlotIsRunning ==
    ASSUME IInv
    PROVE  /\ \A x \in Requests : call[x].pc = "running" <=> running = x
           /\ running # Nobody => running \in Requests
BY DEF IInv, OneInFlight, TypeOK

(* Nobody waits in an empty room.                                          *)
LEMMA EmptyRoom ==
    ASSUME IInv, queue = <<>>
    PROVE  /\ \A x \in Requests : call[x].pc # "waiting"
           /\ \A u : Places(u) = {} /\ Waiting(u) = {} /\ Without(u) = queue
<1>1. Range(queue) = {}
    BY DEF Range
<1>2. \A u : Places(u) = {}
    BY DEF Places
<1> QED BY <1>1, <1>2, RoomIsWaiting DEF Waiting, Without

(* A generation starts at once: the slot was free, so nobody waited.       *)
LEMMA StepAcquireStart ==
    ASSUME IInv, NEW r \in Requests, AcquireStart(r)
    PROVE  Established'
<1> DEFINE u == call[r].user
           x == [call[r] EXCEPT !.pc = "running"]
<1>1. /\ call[r] \in Call /\ call[r].pc = "ready"
      /\ u \in Users /\ call[r].epoch = epochs[u] /\ charge[r] = Nobody
      /\ ~QuotaReached(u)
    BY DEF AcquireStart, Admissible, Refused, EpochMoved, IInv, TypeOK,
           CallsOwned
<1>2. queue = <<>>
    BY DEF AcquireStart, IInv, RoomConsistent
<1>3. queue' = queue /\ Cancelled(call, Waiting(u)) = call
    BY <1>2, EmptyRoom DEF AcquireStart, Cancelled, IInv, TypeOK
<1>4. /\ x \in Call /\ x.pc = "running" /\ x.user = u /\ x.epoch = epochs[u]
    BY <1>1, CallMoves
<1>5. call' = [call EXCEPT ![r] = x]
    BY <1>3 DEF AcquireStart
<1> HIDE DEF x
<1>6. /\ call' \in [Requests -> Call]
      /\ call'[r] = x
      /\ \A s \in Requests : s # r => call'[s] = call[s]
    BY <1>4, <1>5, CallUpdate DEF IInv, TypeOK
<1>7. /\ running' = r
      /\ charge' = [charge EXCEPT ![r] = 0]
      /\ UNCHANGED <<epochs, aiOn, optingOut>>
    BY DEF AcquireStart
<1>8. TypeOK'
    BY <1>3, <1>6, <1>7, LimitAssumption DEF IInv, TypeOK
<1>9. CallsOwned'
    BY <1>1, <1>4, <1>6, <1>7 DEF IInv, CallsOwned, TypeOK
<1>10. EpochLeft'
    BY <1>7 DEF IInv, EpochLeft
<1>11. \A y \in Requests : call'[y].pc # "waiting"
    BY <1>2, <1>4, <1>6, EmptyRoom
<1>12. RoomConsistent'
  <2>1. Range(queue') = {}
      BY <1>2, <1>3 DEF Range
  <2> QED BY <2>1, <1>2, <1>3, <1>11 DEF RoomConsistent, IsInjective
<1>13. OneInFlight'
  <2>1. \A y \in Requests : call[y].pc # "running"
      BY SlotIsRunning, NobodyAssumption DEF AcquireStart
  <2> QED BY <2>1, <1>4, <1>6, <1>7 DEF OneInFlight
<1>14. \A v : ~Waits(v)'
    BY <1>11 DEF Waits
<1>15. Bounded' /\ LiveOne'
  <2>1. Len(queue') = 0
      BY <1>2, <1>3
  <2> QED BY <2>1, <1>14, LimitAssumption DEF Bounded, LiveOne
<1>16. Fits' /\ QuotaKept'
  <2>1. ASSUME NEW v \in Users, NEW y \in RecentStarts(v)'
        PROVE  y \in IF v = u THEN RecentStarts(v) \cup {r} ELSE RecentStarts(v)
    <3>1. y \in Requests /\ call'[y].user = v /\ charge'[y] # Nobody
        BY DEF RecentStarts
    <3>2. CASE y = r
        BY <3>1, <3>2, <1>4, <1>6
    <3>3. CASE y # r
        BY <3>1, <3>3, <1>6, <1>7 DEF RecentStarts
    <3> QED BY <3>2, <3>3
  <2>2. Cardinality(RecentStarts(u)) < HourlyQuota
    <3>1. Cardinality(RecentStarts(u)) \in Nat
        BY <1>1, FS_CardinalityType DEF IInv, WaitingFits
    <3> QED BY <3>1, <1>1, LimitAssumption DEF QuotaReached
  <2> HIDE DEF u
  <2> QED BY <2>1, <2>2, <1>1, <1>14, OneNewStart
<1>17. OptOutAhead'
    BY <1>1, <1>4, <1>6, <1>7 DEF IInv, OptOutAhead
<1> QED BY <1>8, <1>9, <1>10, <1>12, <1>13, <1>15, <1>16, <1>17
        DEF Established, CallForms

(* release of a ticket released before changes nothing.                    *)
LEMMA StepReleaseAgain ==
    ASSUME IInv, NEW r \in Requests, Release(r), ~FirstTime(r)
    PROVE  Established'
<1>1. UNCHANGED vars
    BY DEF Release, vars
<1>2. TypeOK' /\ EpochLeft' /\ OptOutAhead'
    BY <1>1 DEF IInv, TypeOK, EpochLeft, OptOutAhead, vars
<1> QED BY <1>1, <1>2, QuietElsewhere DEF vars

(* release with nobody waiting frees the slot.                             *)
LEMMA StepReleaseLast ==
    ASSUME IInv, NEW r \in Requests, Release(r), FirstTime(r), queue = <<>>
    PROVE  Established'
<1> DEFINE x == [call[r] EXCEPT !.pc = "released"]
<1>1. call[r] \in Call /\ call[r].pc = "running"
    BY DEF IInv, TypeOK, FirstTime
<1>2. /\ running' = Nobody
      /\ call' = [call EXCEPT ![r] = x]
      /\ UNCHANGED <<charge, queue, epochs, aiOn, optingOut>>
    BY DEF Release
<1>3. /\ x \in Call /\ x.pc = "released" /\ x.user = call[r].user
      /\ x.epoch = call[r].epoch
    BY <1>1, CallMoves
<1> HIDE DEF x
<1>4. /\ call' \in [Requests -> Call]
      /\ call'[r] = x
      /\ \A s \in Requests : s # r => call'[s] = call[s]
    BY <1>2, <1>3, CallUpdate DEF IInv, TypeOK
<1>5. TypeOK' /\ EpochLeft'
    BY <1>2, <1>4 DEF IInv, TypeOK, EpochLeft
<1>6. CallsOwned'
    BY <1>1, <1>2, <1>3, <1>4 DEF IInv, CallsOwned
<1>7. \A y \in Requests : call'[y].pc # "waiting" /\ call'[y].pc # "running"
    BY <1>1, <1>3, <1>4, EmptyRoom, SlotIsRunning
<1>8. RoomConsistent'
  <2>1. Range(queue') = {} /\ queue' = <<>>
      BY <1>2 DEF Range
  <2> QED BY <2>1, <1>7 DEF RoomConsistent, IsInjective
<1>9. OneInFlight'
    BY <1>2, <1>7, NobodyAssumption DEF OneInFlight
<1>10. \A v : ~Waits(v)'
    BY <1>7 DEF Waits
<1>11. Bounded' /\ LiveOne'
  <2>1. Len(queue') = 0
      BY <1>2
  <2> QED BY <2>1, <1>10, LimitAssumption DEF Bounded, LiveOne
<1>12. Fits' /\ QuotaKept'
  <2>1. \A v \in Users : RecentStarts(v)' \subseteq RecentStarts(v)
      BY <1>2, <1>3, <1>4 DEF RecentStarts
  <2> QED BY <2>1, <1>10, NoNewStart
<1>13. OptOutAhead'
    BY <1>2, <1>3, <1>4 DEF IInv, OptOutAhead
<1> QED BY <1>5, <1>6, <1>8, <1>9, <1>11, <1>12, <1>13
        DEF Established, CallForms

(* release with somebody waiting starts the head of the room.              *)
LEMMA StepReleaseNext ==
    ASSUME IInv, NEW r \in Requests, Release(r), FirstTime(r), queue # <<>>
    PROVE  Established'
<1>1. queue \in Seq(Requests) /\ IsInjective(queue)
    BY DEF IInv, TypeOK, RoomConsistent
<1>0. PICK h : h = Head(queue)
    OBVIOUS
<1>a. PICK v : v = call[h].user
    OBVIOUS
<1> DEFINE x == [call[r] EXCEPT !.pc = "released"]
           y == [call[h] EXCEPT !.pc = "running"]
<1>2. /\ h \in Range(queue)
      /\ Tail(queue) \in Seq(Requests)
      /\ Len(Tail(queue)) = Len(queue) - 1
      /\ Range(Tail(queue)) = Range(queue) \ {h}
      /\ IsInjective(Tail(queue))
    BY <1>0, <1>1, RoomTail
<1>3. /\ h \in Requests /\ call[h] \in Call /\ call[h].pc = "waiting"
      /\ v \in Users /\ call[h].epoch <= epochs[v] /\ charge[h] = Nobody
    BY <1>2, <1>a DEF IInv, TypeOK, RoomConsistent, CallsOwned
<1>4. call[r] \in Call /\ call[r].pc = "running" /\ r # h
    BY <1>3 DEF IInv, TypeOK, FirstTime
<1>5. /\ x \in Call /\ x.pc = "released" /\ x.user = call[r].user
      /\ x.epoch = call[r].epoch
      /\ y \in Call /\ y.pc = "running" /\ y.user = v
      /\ y.epoch = call[h].epoch
    BY <1>3, <1>4, <1>a, CallMoves
<1>6. /\ running' = h
      /\ queue' = Tail(queue)
      /\ charge' = [charge EXCEPT ![h] = 0]
      /\ call' = [call EXCEPT ![r] = x, ![h] = y]
      /\ UNCHANGED <<epochs, aiOn, optingOut>>
    BY <1>0, <1>4 DEF Release, IInv, TypeOK
<1> HIDE DEF x, y
<1>7. /\ call' \in [Requests -> Call]
      /\ call'[r] = x /\ call'[h] = y
      /\ \A s \in Requests : s # r /\ s # h => call'[s] = call[s]
    BY <1>3, <1>4, <1>5, <1>6 DEF IInv, TypeOK
<1>8. /\ charge' \in [Requests -> 0 .. Window - 1 \cup {Nobody}]
      /\ charge'[h] = 0
      /\ \A s \in Requests : s # h => charge'[s] = charge[s]
    BY <1>3, <1>6, LimitAssumption DEF IInv, TypeOK
<1>9. TypeOK' /\ EpochLeft'
    BY <1>2, <1>3, <1>6, <1>7, <1>8 DEF IInv, TypeOK, EpochLeft
<1>10. CallsOwned'
  <2> SUFFICES ASSUME NEW s \in Requests
               PROVE  /\ call'[s].pc # "idle" =>
                            /\ call'[s].user \in Users
                            /\ call'[s].epoch <= epochs[call'[s].user]
                      /\ charge'[s] # Nobody =>
                            call'[s].pc \in {"running", "released"}
      BY <1>6 DEF CallsOwned
  <2>1. CASE s = r
      BY <2>1, <1>4, <1>5, <1>7 DEF IInv, CallsOwned
  <2>2. CASE s = h
      BY <2>2, <1>3, <1>5, <1>7
  <2>3. CASE s # r /\ s # h
      BY <2>3, <1>7, <1>8 DEF IInv, CallsOwned
  <2> QED BY <2>1, <2>2, <2>3
<1>11. \A s \in Requests :
          call'[s].pc = "waiting" <=> call[s].pc = "waiting" /\ s # h
    BY <1>4, <1>5, <1>7
<1>12. \A s \in Requests :
          call'[s].pc = "waiting" => call'[s].user = call[s].user
    BY <1>5, <1>7
<1>13. RoomConsistent'
  <2>1. Range(queue') = {s \in Requests : call'[s].pc = "waiting"}
      BY <1>2, <1>6, <1>11 DEF IInv, RoomConsistent
  <2>2. \A s, t \in Range(queue') : call'[s].user = call'[t].user => s = t
    <3>1. \A s, t \in Range(queue) : call[s].user = call[t].user => s = t
        BY DEF IInv, RoomConsistent
    <3>2. \A s \in Range(queue') : /\ s \in Range(queue)
                                   /\ call'[s].user = call[s].user
        BY <1>2, <1>6, <1>12, <2>1
    <3> QED BY <3>1, <3>2
  <2>3. running' # Nobody
      BY <1>3, <1>6, NobodyAssumption
  <2> QED BY <2>1, <2>2, <2>3, <1>2, <1>6 DEF RoomConsistent
<1>14. OneInFlight'
  <2>1. \A s \in Requests : call[s].pc = "running" <=> s = r
      BY <1>4, SlotIsRunning
  <2> QED BY <2>1, <1>5, <1>6, <1>7 DEF OneInFlight
<1>15. /\ \A u : Waits(u)' => Waits(u)
       /\ ~Waits(v)'
  <2>1. \A u : Waits(u)' => Waits(u)
      BY <1>11, <1>12 DEF Waits
  <2>2. ASSUME NEW s \in Requests, call'[s].pc = "waiting", call'[s].user = v
        PROVE  FALSE
    <3>1. call[s].pc = "waiting" /\ s # h /\ call[s].user = v
        BY <2>2, <1>11, <1>12
    <3>2. s \in Range(queue) /\ h \in Range(queue) /\ call[h].user = v
        BY <3>1, <1>2, <1>a, RoomIsWaiting
    <3> QED BY <3>1, <3>2 DEF IInv, RoomConsistent
  <2> QED BY <2>1, <2>2 DEF Waits
<1>16. Bounded'
  <2>1. Len(queue) <= QueueDepth + 1 /\ Len(queue) \in Nat
      BY <1>1, ToCalls, LimitAssumption, LenProperties DEF CallForms, Bounded
  <2>2. Len(queue') = Len(queue) - 1
      BY <1>2, <1>6
  <2>3. Len(queue') <= QueueDepth
      BY <2>1, <2>2, LimitAssumption
  <2> QED BY <2>3 DEF Bounded
<1>17. LiveOne'
  <2>1. \A u : RunningOf(u)' => u = v
      BY <1>5, <1>6, <1>7 DEF RunningOf
  <2> QED BY <2>1, <1>15 DEF LiveOne
<1>18. Fits' /\ QuotaKept'
  <2>1. ASSUME NEW u \in Users, NEW s \in RecentStarts(u)'
        PROVE  s \in IF u = v THEN RecentStarts(u) \cup {h} ELSE RecentStarts(u)
    <3>1. s \in Requests /\ call'[s].user = u /\ charge'[s] # Nobody
        BY DEF RecentStarts
    <3>2. CASE s = h
        BY <3>1, <3>2, <1>5, <1>7
    <3>3. CASE s # h
      <4>1. call[s].user = u /\ charge[s] # Nobody
          BY <3>1, <3>3, <1>5, <1>7, <1>8
      <4> QED BY <4>1, <3>1 DEF RecentStarts
    <3> QED BY <3>2, <3>3
  <2>2. Waits(v)
      BY <1>3, <1>a DEF Waits
  <2>3. Cardinality(RecentStarts(v)) < HourlyQuota
      BY <2>2, <1>3, ToCalls DEF CallForms, Fits
  <2> QED BY <2>1, <2>3, <1>3, <1>15, OneNewStart
<1>19. OptOutAhead'
  <2> SUFFICES ASSUME NEW s \in Requests,
                      \/ /\ call'[s].pc = "ready"
                         /\ call'[s].epoch = epochs[call'[s].user]
                      \/ call'[s].pc = "waiting"
                      \/ call'[s].pc = "running" /\ ~call'[s].aborted,
                      call'[s].user \notin optingOut
               PROVE  aiOn[call'[s].user]
      BY <1>6 DEF OptOutAhead
  <2>1. CASE s = r
      BY <2>1, <1>5, <1>7
  <2>2. CASE s = h
      BY <2>2, <1>3, <1>5, <1>7, <1>a DEF IInv, OptOutAhead
  <2>3. CASE s # r /\ s # h
      BY <2>3, <1>7 DEF IInv, OptOutAhead
  <2> QED BY <2>1, <2>2, <2>3
<1> QED BY <1>9, <1>10, <1>13, <1>14, <1>16, <1>17, <1>18, <1>19
        DEF Established, CallForms

(* Waiting calls that are cancelled leave the room, and the others stay:   *)
(* what is said of the room, the slot and the quotas is preserved.         *)
LEMMA Departures ==
    ASSUME IInv, TypeOK', NEW gone,
           UNCHANGED <<charge, running>>,
           \A x \in Requests : x \in gone =>
              call[x].pc = "waiting" /\ call'[x] = NoCall,
           \A x \in Requests : x \notin gone =>
              /\ call'[x].pc = call[x].pc
              /\ call'[x].user = call[x].user
              /\ call[x].aborted => call'[x].aborted,
           Range(queue') = Range(queue) \ gone,
           IsInjective(queue'),
           Len(queue') <= Len(queue),
           (\E x \in Requests : x \in gone) => Len(queue') = Len(queue) - 1
    PROVE  RoomConsistent' /\ OneInFlight' /\ CallForms' /\ QuotaKept'
<1>1. \A x \in Requests :
         /\ call'[x].pc = "waiting" <=> call[x].pc = "waiting" /\ x \notin gone
         /\ call'[x].pc = "running" <=> call[x].pc = "running"
         /\ call'[x].pc # "idle" => call'[x].user = call[x].user
    BY NoCallFields
<1>2. /\ Len(queue) \in Nat /\ Len(queue') \in Nat
      /\ queue' # <<>> => queue # <<>>
    BY LenProperties DEF IInv, TypeOK
<1>3. RoomConsistent'
  <2>1. Range(queue') = {x \in Requests : call'[x].pc = "waiting"}
      BY <1>1 DEF IInv, RoomConsistent
  <2>2. \A x, y \in Range(queue) : call[x].user = call[y].user => x = y
      BY DEF IInv, RoomConsistent
  <2>3. \A x \in Range(queue') : /\ x \in Range(queue)
                                 /\ call'[x].user = call[x].user
      BY <1>1, <2>1
  <2>4. \A x, y \in Range(queue') : call'[x].user = call'[y].user => x = y
      BY <2>2, <2>3
  <2> QED BY <1>2, <2>1, <2>4 DEF IInv, RoomConsistent
<1>4. OneInFlight'
    BY <1>1 DEF IInv, OneInFlight
<1>5. \A u : Waits(u)' => Waits(u)
    BY <1>1 DEF Waits
<1>6. ASSUME running # Nobody
      PROVE  /\ call'[running].user = call[running].user
             /\ call[running].aborted => call'[running].aborted
  <2>1. running \in Requests /\ call[running].pc = "running"
      BY <1>6, SlotIsRunning
  <2> QED BY <2>1
<1>7. \A u : RunningOf(u)' <=> RunningOf(u)
    BY <1>6 DEF RunningOf
<1>8. Bounded'
  <2>1. CASE \E x \in Requests : x \in gone
    <3>1. Len(queue) <= QueueDepth + 1
        BY <1>2, ToCalls, LimitAssumption DEF CallForms, Bounded
    <3>2. Len(queue') <= QueueDepth
        BY <2>1, <3>1, <1>2, LimitAssumption
    <3> QED BY <3>2 DEF Bounded
  <2>2. CASE ~ \E x \in Requests : x \in gone
    <3>1. \A u : Waits(u)' <=> Waits(u)
        BY <2>2, <1>1 DEF Waits
    <3>2. Bounded
        BY ToCalls DEF CallForms
    <3>3. CASE Len(queue) <= QueueDepth
      <4>1. Len(queue') <= QueueDepth
          BY <3>3, <1>2, LimitAssumption
      <4> QED BY <4>1 DEF Bounded
    <3>4. CASE ~(Len(queue) <= QueueDepth)
      <4>1. PICK u \in Users : RunningOf(u) /\ Waits(u)
          BY <3>2, <3>4 DEF Bounded
      <4>2. RunningOf(u)' /\ Waits(u)'
          BY <4>1, <3>1, <1>7
      <4>3. Len(queue') <= QueueDepth \/ Len(queue') = QueueDepth + 1
          BY <3>2, <1>2, LimitAssumption DEF Bounded
      <4> QED BY <4>2, <4>3 DEF Bounded
    <3> QED BY <3>3, <3>4
  <2> QED BY <2>1, <2>2
<1>9. LiveOne'
  <2> SUFFICES ASSUME NEW u \in Users, RunningOf(u)', Waits(u)'
               PROVE  call'[running'].aborted
      BY DEF LiveOne
  <2>1. call[running].aborted /\ running # Nobody
      BY <1>5, <1>7, ToCalls DEF CallForms, LiveOne, RunningOf
  <2> QED BY <2>1, <1>6
<1>10. \A u \in Users : RecentStarts(u)' \subseteq RecentStarts(u)
  <2>1. ASSUME NEW x \in Requests, charge'[x] # Nobody
        PROVE  charge[x] # Nobody /\ call'[x].user = call[x].user
    <3>1. charge[x] # Nobody /\ call[x].pc # "waiting"
        BY <2>1 DEF IInv, CallsOwned
    <3> QED BY <3>1
  <2> QED BY <2>1, SameStarts
<1>11. Fits' /\ QuotaKept'
    BY <1>5, <1>10, NoNewStart
<1> QED BY <1>3, <1>4, <1>8, <1>9, <1>11 DEF CallForms

(* A waiting caller leaves.                                                *)
LEMMA StepLeaveRoom ==
    ASSUME IInv, NEW r \in Requests, Leave(r), call[r].pc = "waiting"
    PROVE  Established'
<1>1. /\ call' = [call EXCEPT ![r] = NoCall]
      /\ UNCHANGED <<charge, running, epochs, aiOn, optingOut>>
    BY DEF Leave
<1>2. PICK i \in DOMAIN queue : /\ queue[i] = r
                                /\ queue' = RemoveAt(queue, i)
  <2>1. \E i \in DOMAIN queue : queue[i] = r
      BY RoomIsWaiting DEF Range
  <2> DEFINE k == CHOOSE i \in DOMAIN queue : queue[i] = r
  <2>2. k \in DOMAIN queue /\ queue[k] = r
      BY <2>1
  <2>3. queue' = RemoveAt(queue, k)
      BY DEF Leave
  <2> HIDE DEF k
  <2> QED BY <2>2, <2>3
<1>3. queue \in Seq(Requests) /\ IsInjective(queue) /\ Len(queue) \in Nat
    BY LenProperties DEF IInv, TypeOK, RoomConsistent
<1>4. /\ queue' \in Seq(Requests)
      /\ Len(queue') = Len(queue) - 1
      /\ Range(queue') = Range(queue) \ {r}
      /\ IsInjective(queue')
    BY <1>2, <1>3, RoomRemove
<1>5. /\ call' \in [Requests -> Call]
      /\ call'[r] = NoCall
      /\ \A s \in Requests : s # r => call'[s] = call[s]
    BY <1>1, NoCallFields, CallUpdate DEF IInv, TypeOK
<1>6. TypeOK' /\ EpochLeft'
    BY <1>1, <1>4, <1>5 DEF IInv, TypeOK, EpochLeft
<1>7. CallsOwned'
    BY <1>1, <1>5, NoCallFields DEF IInv, CallsOwned
<1>8. OptOutAhead'
    BY <1>1, <1>5, NoCallFields DEF IInv, OptOutAhead
<1>9. Len(queue') <= Len(queue)
    BY <1>3, <1>4
<1>10. \A x \in Requests : x \notin {r} => call'[x] = call[x]
    BY <1>5
<1>11. RoomConsistent' /\ OneInFlight' /\ CallForms' /\ QuotaKept'
  <2> DEFINE gone == {r}
  <2>1. \A x \in Requests : x \in gone =>
           call[x].pc = "waiting" /\ call'[x] = NoCall
      BY <1>5
  <2>2. \A x \in Requests : x \notin gone =>
           /\ call'[x].pc = call[x].pc
           /\ call'[x].user = call[x].user
           /\ call[x].aborted => call'[x].aborted
      BY <1>10
  <2>3. Range(queue') = Range(queue) \ gone
      BY <1>4
  <2> HIDE DEF gone
  <2> QED BY <1>1, <1>4, <1>6, <1>9, <2>1, <2>2, <2>3, Departures
<1> QED BY <1>6, <1>7, <1>8, <1>11 DEF Established

(* A caller leaves before it acquires, or while its generation runs.       *)
LEMMA StepLeaveElsewhere ==
    ASSUME IInv, NEW r \in Requests, Leave(r), call[r].pc # "waiting"
    PROVE  Established'
<1>1. call[r] \in Call
    BY DEF IInv, TypeOK
<1>0. PICK b \in BOOLEAN : b = (call[r].aborted \/ call[r].pc = "running")
    OBVIOUS
<1> DEFINE x == [call[r] EXCEPT !.left = TRUE, !.aborted = b]
<1>2. /\ call' = [call EXCEPT ![r] = x]
      /\ UNCHANGED <<charge, queue, running, epochs, aiOn, optingOut>>
    BY <1>0 DEF Leave, IInv, TypeOK
<1>3. /\ x \in Call /\ x.pc = call[r].pc /\ x.user = call[r].user
      /\ x.epoch = call[r].epoch /\ (call[r].aborted => x.aborted)
    BY <1>0, <1>1, CallLeaves
<1> HIDE DEF x
<1>4. /\ call' \in [Requests -> Call]
      /\ call'[r] = x
      /\ \A s \in Requests : s # r => call'[s] = call[s]
    BY <1>2, <1>3, CallUpdate DEF IInv, TypeOK
<1>5. TypeOK' /\ EpochLeft'
    BY <1>2, <1>4 DEF IInv, TypeOK, EpochLeft
<1>6. CallsOwned'
    BY <1>2, <1>3, <1>4 DEF IInv, CallsOwned
<1>7. OptOutAhead'
    BY <1>2, <1>3, <1>4 DEF IInv, OptOutAhead
<1>8. \A u \in Users : RecentStarts(u)' \subseteq RecentStarts(u)
  <2>1. ASSUME NEW y \in Requests, charge'[y] # Nobody
        PROVE  charge[y] # Nobody /\ call'[y].user = call[y].user
      BY <2>1, <1>2, <1>3, <1>4
  <2> QED BY <2>1, SameStarts
<1>9. Uncontested
    BY <1>2, <1>3, <1>4, <1>8 DEF Uncontested
<1> QED BY <1>5, <1>6, <1>7, <1>9, QuietSteps DEF Established

(* What is left of the calls when a member's older ones are superseded.    *)
LEMMA Superseded ==
    ASSUME IInv, NEW u
    PROVE  LET c == OlderSuperseded(u) IN
           /\ c \in [Requests -> Call]
           /\ \A x \in Requests :
                 x \in Waiting(u) => call[x].pc = "waiting" /\ c[x] = NoCall
           /\ \A x \in Requests :
                 x \notin Waiting(u) =>
                    /\ c[x].pc = call[x].pc
                    /\ c[x].user = call[x].user
                    /\ c[x].epoch = call[x].epoch
                    /\ call[x].aborted => c[x].aborted
                    /\ running = x /\ call[x].user = u => c[x].aborted
<1> DEFINE c == OlderSuperseded(u)
           a == AbortRunning(call, u)
<1>1. call \in [Requests -> Call]
    BY DEF IInv, TypeOK
<1>2. \A x \in Requests : x \in Waiting(u) => call[x].pc = "waiting"
    BY WaitingOf DEF IInv
<1>3. /\ a \in [Requests -> Call]
      /\ \A x \in Requests :
            /\ a[x].pc = call[x].pc
            /\ a[x].user = call[x].user
            /\ a[x].epoch = call[x].epoch
            /\ call[x].aborted => a[x].aborted
            /\ running = x /\ call[x].user = u => a[x].aborted
  <2>1. CASE RunningOf(u)
    <3>1. running \in Requests /\ running # Nobody
        BY <2>1, SlotIsRunning DEF RunningOf
    <3> DEFINE y == [call[running] EXCEPT !.aborted = TRUE]
    <3>2. /\ y \in Call
          /\ y.pc = call[running].pc /\ y.user = call[running].user
          /\ y.epoch = call[running].epoch /\ y.aborted = TRUE
        BY <1>1, <3>1, CallAborts
    <3>3. a = [call EXCEPT ![running] = y]
        BY <2>1 DEF AbortRunning
    <3> HIDE DEF y, a
    <3>4. /\ a \in [Requests -> Call]
          /\ a[running] = y
          /\ \A x \in Requests : x # running => a[x] = call[x]
        BY <1>1, <3>1, <3>2, <3>3
    <3> QED BY <3>2, <3>4
  <2>2. CASE ~RunningOf(u)
    <3>1. a = call
        BY <2>2 DEF AbortRunning
    <3>2. \A x \in Requests : ~(running = x /\ call[x].user = u)
        BY <2>2, NobodyAssumption DEF RunningOf
    <3> HIDE DEF a
    <3> QED BY <1>1, <3>1, <3>2
  <2> QED BY <2>1, <2>2
<1>4. c = [x \in Requests |-> IF x \in Waiting(u) THEN NoCall ELSE a[x]]
    BY DEF OlderSuperseded, Cancelled
<1> HIDE DEF a, c
<1>5. c \in [Requests -> Call]
    BY <1>3, <1>4, NoCallFields
<1> QED BY <1>2, <1>3, <1>4, <1>5 DEF c

(* cancelUser: the epoch moves, the running generation is aborted and the  *)
(* waiting request leaves the room.                                        *)
LEMMA StepCancelUser ==
    ASSUME IInv, NEW u \in Users, CancelUser(u)
    PROVE  Established'
<1>1. /\ u \in optingOut
      /\ optingOut' = optingOut \ {u}
      /\ epochs' = [epochs EXCEPT ![u] = @ + 1]
      /\ call' = OlderSuperseded(u)
      /\ queue' = Without(u)
      /\ UNCHANGED <<charge, running, aiOn>>
    BY DEF CancelUser, OlderSuperseded
<1>2. PICK gone : gone = Waiting(u)
    OBVIOUS
<1>3. /\ call' \in [Requests -> Call]
      /\ \A x \in Requests : x \in gone =>
            call[x].pc = "waiting" /\ call'[x] = NoCall
      /\ \A x \in Requests : x \notin gone =>
            /\ call'[x].pc = call[x].pc
            /\ call'[x].user = call[x].user
            /\ call'[x].epoch = call[x].epoch
            /\ call[x].aborted => call'[x].aborted
            /\ running = x /\ call[x].user = u => call'[x].aborted
    BY <1>1, <1>2, Superseded
<1>4. /\ queue' \in Seq(Requests)
      /\ Len(queue') <= Len(queue)
      /\ Waits(u) => Len(queue') = Len(queue) - 1
      /\ Range(queue') = Range(queue) \ gone
      /\ IsInjective(queue')
    BY <1>1, <1>2, WithoutRoom DEF IInv
<1>5. \A x \in Requests :
         x \in gone <=> call[x].pc = "waiting" /\ call[x].user = u
    BY <1>2, WaitingOf DEF IInv
<1>6. (\E x \in Requests : x \in gone) => Len(queue') = Len(queue) - 1
    BY <1>4, <1>5 DEF Waits
<1>7. /\ epochs[u] \in 0 .. MaxEpoch - 1
      /\ epochs'[u] = epochs[u] + 1
      /\ \A v \in Users : v # u => epochs'[v] = epochs[v]
      /\ epochs' \in [Users -> 0 .. MaxEpoch]
    BY <1>1, LimitAssumption DEF IInv, TypeOK, EpochLeft
<1>8. TypeOK'
    BY <1>1, <1>3, <1>4, <1>7 DEF IInv, TypeOK
<1>9. EpochLeft'
    BY <1>1, <1>7 DEF IInv, EpochLeft, TypeOK
<1>10. CallsOwned'
  <2> SUFFICES ASSUME NEW x \in Requests
               PROVE  /\ call'[x].pc # "idle" =>
                            /\ call'[x].user \in Users
                            /\ call'[x].epoch <= epochs'[call'[x].user]
                      /\ charge'[x] # Nobody =>
                            call'[x].pc \in {"running", "released"}
      BY DEF CallsOwned
  <2>1. CASE x \in gone
      BY <2>1, <1>1, <1>3, NoCallFields DEF IInv, CallsOwned
  <2>2. CASE x \notin gone
    <3>1. charge'[x] # Nobody => call'[x].pc \in {"running", "released"}
        BY <2>2, <1>1, <1>3 DEF IInv, CallsOwned
    <3>2. ASSUME call'[x].pc # "idle"
          PROVE  /\ call'[x].user \in Users
                 /\ call'[x].epoch <= epochs'[call'[x].user]
      <4>1. /\ call[x].user \in Users
            /\ call[x].epoch <= epochs[call[x].user]
            /\ call[x].epoch \in 0 .. MaxEpoch
          BY <3>2, <2>2, <1>3, CallFields DEF IInv, CallsOwned, TypeOK
      <4>2. call'[x].user = call[x].user /\ call'[x].epoch = call[x].epoch
          BY <2>2, <1>3
      <4>3. CASE call[x].user = u
          BY <4>1, <4>2, <4>3, <1>7, LimitAssumption
      <4>4. CASE call[x].user # u
          BY <4>1, <4>2, <4>4, <1>7
      <4> QED BY <4>3, <4>4
    <3> QED BY <3>1, <3>2
  <2> QED BY <2>1, <2>2
<1>11. OptOutAhead'
  <2> SUFFICES ASSUME NEW x \in Requests,
                      \/ /\ call'[x].pc = "ready"
                         /\ call'[x].epoch = epochs'[call'[x].user]
                      \/ call'[x].pc = "waiting"
                      \/ call'[x].pc = "running" /\ ~call'[x].aborted,
                      call'[x].user \notin optingOut'
               PROVE  aiOn'[call'[x].user]
      BY DEF OptOutAhead
  <2>1. x \notin gone
      BY <1>3, NoCallFields
  <2>2. /\ call'[x].pc = call[x].pc
        /\ call'[x].user = call[x].user
        /\ call'[x].epoch = call[x].epoch
        /\ call[x].user \in Users
        /\ call[x].epoch <= epochs[call[x].user]
        /\ call[x].epoch \in 0 .. MaxEpoch
      BY <2>1, <1>3, CallFields DEF IInv, CallsOwned, TypeOK
  <2>3. CASE call[x].user = u
    <3>1. call'[x].pc # "waiting"
        BY <2>1, <2>2, <2>3, <1>5
    <3>2. call'[x].epoch # epochs'[u]
        BY <2>2, <2>3, <1>7, LimitAssumption
    <3>3. call'[x].pc = "running" => call'[x].aborted
        BY <2>1, <2>2, <2>3, <1>3, SlotIsRunning
    <3> QED BY <2>2, <2>3, <3>1, <3>2, <3>3
  <2>4. CASE call[x].user # u
    <3>1. epochs'[call[x].user] = epochs[call[x].user]
        BY <2>2, <2>4, <1>7
    <3>2. call[x].user \notin optingOut
        BY <2>2, <2>4, <1>1
    <3>3. call[x].aborted => call'[x].aborted
        BY <2>1, <1>3
    <3>4. aiOn[call[x].user]
        BY <2>2, <3>1, <3>2, <3>3 DEF IInv, OptOutAhead
    <3> QED BY <2>2, <3>4, <1>1
  <2> QED BY <2>3, <2>4
<1>12. RoomConsistent' /\ OneInFlight' /\ CallForms' /\ QuotaKept'
    BY <1>1, <1>3, <1>4, <1>6, <1>8, Departures
<1> QED BY <1>8, <1>9, <1>10, <1>11, <1>12 DEF Established

(* The room when a request waits: the member's older place, if there is    *)
(* one, is taken over, and otherwise one more is held.                     *)
LEMMA RoomOfWait ==
    ASSUME IInv, NEW r \in Requests, NEW u, u = call[r].user, AcquireWait(r)
    PROVE  /\ queue' \in Seq(Requests)
           /\ Len(queue') = IF Waits(u) THEN Len(queue) ELSE Len(queue) + 1
           /\ Range(queue') = (Range(queue) \ Waiting(u)) \cup {r}
           /\ IsInjective(queue')
           /\ queue' # <<>>
<1>1. queue \in Seq(Requests) /\ IsInjective(queue) /\ Len(queue) \in Nat
    BY LenProperties DEF IInv, TypeOK, RoomConsistent
<1>2. r \notin Range(queue)
    BY RoomIsWaiting DEF AcquireWait, Admissible
<1>3. Places(u) # {} <=> Waits(u)
    BY Places_Waits DEF IInv
<1>4. CASE Places(u) = {}
  <2>1. queue' = Append(queue, r) /\ Waiting(u) = {}
      BY <1>4 DEF AcquireWait, AtTheBack, Waiting
  <2>2. /\ queue' \in Seq(Requests)
        /\ Len(queue') = Len(queue) + 1
        /\ Range(queue') = Range(queue) \cup {r}
        /\ IsInjective(queue')
      BY <1>1, <1>2, <2>1, RoomAppend
  <2> QED BY <1>1, <1>3, <1>4, <2>1, <2>2
<1>5. CASE Places(u) # {}
  <2>1. PICK i \in Places(u) : queue' = [queue EXCEPT ![i] = r]
    <3> DEFINE k == CHOOSE i \in Places(u) : TRUE
    <3>1. k \in Places(u)
        BY <1>5
    <3>2. queue' = [queue EXCEPT ![k] = r]
        BY <1>5 DEF AcquireWait
    <3> HIDE DEF k
    <3> QED BY <3>1, <3>2
  <2>2. i \in DOMAIN queue /\ Waiting(u) = {queue[i]}
      BY OnePlace DEF IInv
  <2>3. /\ queue' \in Seq(Requests)
        /\ Len(queue') = Len(queue)
        /\ Range(queue') = (Range(queue) \ {queue[i]}) \cup {r}
        /\ IsInjective(queue')
    <3> DEFINE p == [queue EXCEPT ![i] = r]
    <3>1. /\ p \in Seq(Requests)
          /\ Len(p) = Len(queue)
          /\ Range(p) = (Range(queue) \ {queue[i]}) \cup {r}
          /\ IsInjective(p)
        BY <1>1, <1>2, <2>2, RoomReplace
    <3>2. queue' = p
        BY <2>1
    <3> HIDE DEF p
    <3> QED BY <3>1, <3>2
  <2>4. queue' # <<>>
    <3>1. r \in Range(queue')
        BY <2>3
    <3> QED BY <3>1 DEF Range
  <2> QED BY <1>3, <1>5, <2>2, <2>3, <2>4
<1> QED BY <1>4, <1>5

(* A request waits: it supersedes what its member had.                     *)
LEMMA StepAcquireWait ==
    ASSUME IInv, NEW r \in Requests, AcquireWait(r)
    PROVE  Established'
<1>0. PICK u : u = call[r].user
    OBVIOUS
<1>1. /\ call[r] \in Call /\ call[r].pc = "ready"
      /\ u \in Users /\ call[r].epoch = epochs[u] /\ charge[r] = Nobody
      /\ ~QuotaReached(u)
      /\ running # Nobody
      /\ RunningOf(u) \/ Places(u) # {} \/ ~RoomFull
      /\ UNCHANGED <<charge, running, epochs, aiOn, optingOut>>
    BY <1>0 DEF AcquireWait, Admissible, Refused, EpochMoved, IInv, TypeOK,
           CallsOwned
<1>2. PICK gone : gone = Waiting(u)
    OBVIOUS
<1>3. \A x \in Requests :
         x \in gone <=> call[x].pc = "waiting" /\ call[x].user = u
    BY <1>2, WaitingOf DEF IInv
<1>4. PICK new \in Call : /\ new.pc = "waiting" /\ new.user = u
                          /\ new.epoch = call[r].epoch
                          /\ call' = [OlderSuperseded(u) EXCEPT ![r] = new]
    BY <1>0, <1>1, CallMoves DEF AcquireWait
<1>5. /\ call' \in [Requests -> Call]
      /\ call'[r] = new
      /\ \A x \in Requests : x # r => call'[x] = OlderSuperseded(u)[x]
    BY <1>4, Superseded
<1>6. \A x \in Requests : x # r /\ x \in gone =>
         call[x].pc = "waiting" /\ call'[x] = NoCall
    BY <1>2, <1>5, Superseded
<1>7. \A x \in Requests : x # r /\ x \notin gone =>
         /\ call'[x].pc = call[x].pc
         /\ call'[x].user = call[x].user
         /\ call'[x].epoch = call[x].epoch
         /\ call[x].aborted => call'[x].aborted
         /\ running = x /\ call[x].user = u => call'[x].aborted
    BY <1>2, <1>5, Superseded
<1>8. /\ queue' \in Seq(Requests)
      /\ Len(queue') = IF Waits(u) THEN Len(queue) ELSE Len(queue) + 1
      /\ Range(queue') = (Range(queue) \ gone) \cup {r}
      /\ IsInjective(queue')
      /\ queue' # <<>>
      /\ Len(queue) \in Nat
    BY <1>0, <1>2, RoomOfWait, LenProperties DEF IInv, TypeOK
<1>9. TypeOK' /\ EpochLeft'
    BY <1>1, <1>5, <1>8 DEF IInv, TypeOK, EpochLeft
<1>10. CallsOwned'
  <2> SUFFICES ASSUME NEW x \in Requests
               PROVE  /\ call'[x].pc # "idle" =>
                            /\ call'[x].user \in Users
                            /\ call'[x].epoch <= epochs[call'[x].user]
                      /\ charge[x] # Nobody =>
                            call'[x].pc \in {"running", "released"}
      BY <1>1 DEF CallsOwned
  <2>1. CASE x = r
    <3>1. epochs[u] \in 0 .. MaxEpoch
        BY <1>1 DEF IInv, TypeOK
    <3>2. epochs[u] <= epochs[u]
        BY <3>1
    <3> QED BY <2>1, <3>2, <1>1, <1>4, <1>5
  <2>2. CASE x # r /\ x \in gone
      BY <2>2, <1>6, NoCallFields DEF IInv, CallsOwned
  <2>3. CASE x # r /\ x \notin gone
      BY <2>3, <1>7 DEF IInv, CallsOwned
  <2> QED BY <2>1, <2>2, <2>3
<1>11. \A x \in Requests :
          /\ call'[x].pc = "waiting" <=>
                x = r \/ (call[x].pc = "waiting" /\ x \notin gone)
          /\ call'[x].pc = "running" <=> call[x].pc = "running"
    BY <1>1, <1>4, <1>5, <1>6, <1>7, NoCallFields
<1>12. RoomConsistent'
  <2>1. Range(queue') = {x \in Requests : call'[x].pc = "waiting"}
      BY <1>8, <1>11 DEF IInv, RoomConsistent
  <2>2. \A x \in Range(queue) : x \in Requests /\ call[x].pc = "waiting"
      BY DEF IInv, RoomConsistent
  <2>3. \A x \in Range(queue) \ gone :
           call'[x].user = call[x].user /\ call[x].user # u
      BY <2>2, <1>1, <1>3, <1>7
  <2>4. \A x, y \in Range(queue) : call[x].user = call[y].user => x = y
      BY DEF IInv, RoomConsistent
  <2>5. \A x, y \in Range(queue') : call'[x].user = call'[y].user => x = y
      BY <2>3, <2>4, <1>4, <1>5, <1>8
  <2> QED BY <2>1, <2>5, <1>1, <1>8 DEF RoomConsistent
<1>13. OneInFlight'
    BY <1>1, <1>11 DEF IInv, OneInFlight
<1>14. /\ Waits(u)'
       /\ \A v : v # u => (Waits(v)' <=> Waits(v))
  <2>1. Waits(u)'
      BY <1>4, <1>5 DEF Waits
  <2>2. ASSUME NEW v, v # u, Waits(v)' PROVE Waits(v)
    <3>1. PICK x \in Requests : call'[x].pc = "waiting" /\ call'[x].user = v
        BY <2>2 DEF Waits
    <3> QED BY <3>1, <2>2, <1>4, <1>5, <1>7, <1>11 DEF Waits
  <2>3. ASSUME NEW v, v # u, Waits(v) PROVE Waits(v)'
    <3>1. PICK x \in Requests : call[x].pc = "waiting" /\ call[x].user = v
        BY <2>3 DEF Waits
    <3>2. x # r /\ x \notin gone
        BY <3>1, <2>3, <1>1, <1>3
    <3> QED BY <3>1, <3>2, <1>7 DEF Waits
  <2> QED BY <2>1, <2>2, <2>3
<1>15. /\ running \in Requests /\ running # r /\ running \notin gone
       /\ call'[running].user = call[running].user
       /\ call[running].aborted => call'[running].aborted
       /\ call[running].user = u => call'[running].aborted
  <2>1. running \in Requests /\ call[running].pc = "running"
      BY <1>1, SlotIsRunning
  <2>2. running # r /\ running \notin gone
      BY <2>1, <1>1, <1>3
  <2> QED BY <2>1, <2>2, <1>7
<1>16. \A v : RunningOf(v)' <=> RunningOf(v)
    BY <1>1, <1>15 DEF RunningOf
<1>17. Bounded'
  <2>1. CASE Waits(u)
    <3>1. Len(queue') = Len(queue) /\ Bounded
        BY <2>1, <1>8, ToCalls DEF CallForms
    <3>2. \A v : Waits(v) => Waits(v)'
        BY <2>1, <1>14
    <3> QED BY <3>1, <3>2, <1>16 DEF Bounded
  <2>2. CASE ~Waits(u) /\ ~RoomFull
    <3>1. Len(queue') <= QueueDepth
        BY <2>2, <1>8, LimitAssumption DEF RoomFull
    <3> QED BY <3>1 DEF Bounded
  <2>3. CASE ~Waits(u) /\ RoomFull
    <3>1. RunningOf(u)
        BY <2>3, <1>1, Places_Waits DEF IInv
    <3>2. \A v : RunningOf(v) => v = u
        BY <3>1 DEF RunningOf
    <3>3. Len(queue) <= QueueDepth
        BY <2>3, <3>2, ToCalls DEF CallForms, Bounded
    <3>4. Len(queue') = QueueDepth + 1
        BY <2>3, <3>3, <1>8, LimitAssumption DEF RoomFull
    <3> QED BY <3>1, <3>4, <1>1, <1>14, <1>16 DEF Bounded
  <2> QED BY <2>1, <2>2, <2>3
<1>18. LiveOne'
  <2> SUFFICES ASSUME NEW v \in Users, RunningOf(v)', Waits(v)'
               PROVE  call'[running].aborted
      BY <1>1 DEF LiveOne
  <2>1. RunningOf(v) /\ call[running].user = v
      BY <1>16 DEF RunningOf
  <2>2. CASE v = u
      BY <2>1, <2>2, <1>15
  <2>3. CASE v # u
      BY <2>1, <2>3, <1>14, <1>15, ToCalls DEF CallForms, LiveOne
  <2> QED BY <2>2, <2>3
<1>19. Fits' /\ QuotaKept'
  <2>1. \A v \in Users : RecentStarts(v)' \subseteq RecentStarts(v)
    <3>1. ASSUME NEW x \in Requests, charge'[x] # Nobody
          PROVE  charge[x] # Nobody /\ call'[x].user = call[x].user
      <4>1. charge[x] # Nobody /\ call[x].pc \in {"running", "released"}
          BY <3>1, <1>1 DEF IInv, CallsOwned
      <4>2. x # r /\ x \notin gone
          BY <4>1, <1>1, <1>3
      <4> QED BY <4>1, <4>2, <1>7
    <3> QED BY <3>1, SameStarts
  <2>2. Cardinality(RecentStarts(u)) < HourlyQuota
    <3>1. Cardinality(RecentStarts(u)) \in Nat
        BY <1>1, FS_CardinalityType DEF IInv, WaitingFits
    <3> QED BY <3>1, <1>1, LimitAssumption DEF QuotaReached
  <2> QED BY <2>1, <2>2, <1>14, NoNewStart
<1>20. OptOutAhead'
  <2> SUFFICES ASSUME NEW x \in Requests,
                      \/ /\ call'[x].pc = "ready"
                         /\ call'[x].epoch = epochs[call'[x].user]
                      \/ call'[x].pc = "waiting"
                      \/ call'[x].pc = "running" /\ ~call'[x].aborted,
                      call'[x].user \notin optingOut
               PROVE  aiOn[call'[x].user]
      BY <1>1 DEF OptOutAhead
  <2>1. CASE x = r
      BY <2>1, <1>0, <1>1, <1>4, <1>5 DEF IInv, OptOutAhead
  <2>2. CASE x # r
    <3>1. x \notin gone
        BY <2>2, <1>6, NoCallFields
    <3> QED BY <2>2, <3>1, <1>7 DEF IInv, OptOutAhead
  <2> QED BY <2>1, <2>2
<1> QED BY <1>9, <1>10, <1>12, <1>13, <1>17, <1>18, <1>19, <1>20
        DEF Established, CallForms
-----------------------------------------------------------------------------
(* The theorems.                                                           *)

(* The inductive invariant holds at first.                                 *)
LEMMA InvInit == Init => IInv
<1> SUFFICES ASSUME Init PROVE IInv
    OBVIOUS
<1>1. queue = <<>> /\ Len(queue) = 0 /\ Range(queue) = {}
    BY DEF Init, Range
<1>2. \A r \in Requests : call[r] = NoCall /\ charge[r] = Nobody
    BY DEF Init
<1>3. TypeOK
    BY NoCallFields, LimitAssumption DEF Init, TypeOK
<1>4. CallsOwned /\ EpochLeft /\ OptOutAhead
    BY <1>2, NoCallFields DEF Init, CallsOwned, EpochLeft, OptOutAhead
<1>5. RoomConsistent
    BY <1>1, <1>2, NoCallFields DEF RoomConsistent, IsInjective
<1>6. OneInFlight
    BY <1>2, NoCallFields, NobodyAssumption DEF Init, OneInFlight
<1>7. \A u : Places(u) = {} /\ RecentStarts(u) = {}
    BY <1>1, <1>2 DEF Places, RecentStarts
<1>8. RoomBounded /\ OneLivePerMember
    BY <1>1, <1>7, LimitAssumption DEF RoomBounded, OneLivePerMember
<1>9. WaitingFits /\ QuotaKept
    BY <1>7, FS_EmptySet, LimitAssumption DEF WaitingFits, QuotaKept
<1> QED BY <1>3, <1>4, <1>5, <1>6, <1>8, <1>9 DEF IInv

(* Every step preserves it.                                                *)
LEMMA InvNext == IInv /\ [Next]_vars => IInv'
<1> SUFFICES ASSUME IInv, [Next]_vars PROVE Established'
    BY FromCalls
<1>1. ASSUME NEW r \in Requests, RequestStep(r) PROVE Established'
  <2>1. CASE \E u \in Users : Ask(r, u)
      BY <2>1, StepAsk
  <2>2. CASE ReadSwitches(r)
      BY <2>2, StepReadSwitches
  <2>3. CASE AcquireRefused(r) \/ AcquireBusy(r)
      BY <2>3, StepAnswered
  <2>4. CASE AcquireStart(r)
      BY <2>4, StepAcquireStart
  <2>5. CASE AcquireWait(r)
      BY <2>5, StepAcquireWait
  <2>6. CASE Release(r)
      BY <2>6, StepReleaseAgain, StepReleaseLast, StepReleaseNext
  <2>7. CASE Refund(r)
      BY <2>7, StepRefund
  <2>8. CASE Forget(r)
      BY <2>8, StepForget
  <2>9. CASE Leave(r)
      BY <2>9, StepLeaveRoom, StepLeaveElsewhere
  <2> QED BY <1>1, <2>1, <2>2, <2>3, <2>4, <2>5, <2>6, <2>7, <2>8, <2>9
          DEF RequestStep
<1>2. ASSUME NEW u \in Users, TurnOff(u) \/ TurnOn(u) \/ CancelUser(u)
      PROVE  Established'
    BY <1>2, StepTurnOff, StepTurnOn, StepCancelUser
<1>3. CASE Tick
    BY <1>3, StepTick
<1>4. CASE UNCHANGED vars
  <2>1. TypeOK' /\ EpochLeft' /\ OptOutAhead'
      BY <1>4 DEF IInv, TypeOK, EpochLeft, OptOutAhead, vars
  <2> QED BY <1>4, <2>1, QuietElsewhere DEF vars
<1> QED BY <1>1, <1>2, <1>3, <1>4 DEF Next

(* The inductive invariant always holds.                                   *)
LEMMA InvAlways == Spec => []IInv
BY InvInit, InvNext, PTL DEF Spec

(* Every variable always has the values it is meant to have.               *)
THEOREM AdmissionTypes == Spec => []TypeOK
<1>1. IInv => TypeOK
    BY DEF IInv
<1> QED BY <1>1, InvAlways, PTL

(* One generation is in flight, whoever releases which ticket how often    *)
(* (admission.ts:77-100).                                                  *)
THEOREM OneGeneration == Spec => []OneInFlight
<1>1. IInv => OneInFlight
    BY DEF IInv
<1> QED BY <1>1, InvAlways, PTL

(* The room never holds more than its depth, but for one request of the    *)
(* member whose generation runs (admission.ts:144-163).                    *)
THEOREM RoomNeverOverfull == Spec => []RoomBounded
<1>1. IInv => RoomBounded
    BY DEF IInv
<1> QED BY <1>1, InvAlways, PTL

(* No member starts more than the quota in any hour, although the quota is *)
(* checked on arrival and charged on start (admission.ts:11-14, 137-163).  *)
THEOREM QuotaNeverExceeded == Spec => []QuotaKept
<1>1. IInv => QuotaKept
    BY DEF IInv
<1> QED BY <1>1, InvAlways, PTL

(* A member's newest request is the only live one (admission.ts:144-158).  *)
THEOREM NewestOnly == Spec => []OneLivePerMember
<1>1. IInv => OneLivePerMember
    BY DEF IInv
<1> QED BY <1>1, InvAlways, PTL

(* After an opt-out nothing of the member waits or generates               *)
(* (admission.ts:32-38, 132-138).                                          *)
THEOREM OptOutRespected == Spec => []OptOutHonoured
<1>1. IInv => OptOutHonoured
    BY DEF IInv, OptOutAhead, OptOutHonoured
<1> QED BY <1>1, InvAlways, PTL

-----------------------------------------------------------------------------
(* The switch, of a server process whose requests are the Calls.  Nothing    *)
(* here depends on admission: of the holder it is only used that its release *)
(* leaves the registry alone.                                                *)

(* A lift under way has a row to delete, and a halt that was found           *)
(* standing is not the one being deleted.                                    *)
RowStands ==
    /\ lifting => halted
    /\ upheld => halted /\ ~lifting

HaltInv == HaltTypeOK /\ HaltReachesEveryCall /\ RowStands

(* The steps of ModelCalls as the switch and the door see them.              *)
HaltStep ==
    \/ \E r \in Calls : DoorStep(r)
    \/ AdminStep
    \/ HaltRestart
    \/ \E r \in Calls : /\ door' = [door EXCEPT ![r] = "out"]
                        /\ UNCHANGED <<halted, lifting, press, aborted, upheld>>
    \/ UNCHANGED haltVars

-----------------------------------------------------------------------------
(* The switch and the door of the server process are those of InferenceHalt. *)
LEMMA SameDoor ==
    ASSUME NEW r \in Calls
    PROVE  Server!DoorStep(r) <=> DoorStep(r)
<1> USE DEF Server!Reaches, Reaches, Server!Results, Results
<1>1. Server!Enter(r) <=> Enter(r)
  BY DEF Server!Enter, Enter
<1>2. Server!ReadHalt(r) <=> ReadHalt(r)
  BY DEF Server!ReadHalt, ReadHalt
<1>3. Server!Connect(r) <=> Connect(r)
  BY DEF Server!Connect, Connect, Server!MayGoOn, MayGoOn
<1>4. Server!Generate(r) <=> Generate(r)
  BY DEF Server!Generate, Generate, Server!MayGoOn, MayGoOn
<1>5. Server!Confirm(r) <=> Confirm(r)
  BY DEF Server!Confirm, Confirm, Server!MayGoOn, MayGoOn
<1> QED BY <1>1, <1>2, <1>3, <1>4, <1>5 DEF Server!DoorStep, DoorStep

LEMMA SameSwitch ==
    /\ Server!AdminStep <=> AdminStep
    /\ Server!HaltRestart <=> HaltRestart
<1>1. ASSUME NEW p \in Presses
      PROVE  /\ Server!Halt(p) <=> Halt(p)
             /\ Server!HaltThrows(p) <=> HaltThrows(p)
             /\ Server!AbortAll(p) <=> AbortAll(p)
  BY DEF Server!Halt, Halt, Server!InsertReady, InsertReady, Server!HaltThrows, HaltThrows,
         Server!AbortAll, AbortAll, Server!Reached, Reached, Server!Registered, Registered,
         Server!PastTheRead, PastTheRead
<1>2. (Server!Lift <=> Lift) /\ (Server!EndLift <=> EndLift)
  BY DEF Server!Lift, Lift, Server!EndLift, EndLift
<1>3. Server!HaltRestart <=> HaltRestart
  BY DEF Server!HaltRestart, HaltRestart
<1> QED BY <1>1, <1>2, <1>3 DEF Server!AdminStep, AdminStep

(* Every step of the process is one of these.                                *)
LEMMA StepsOfTheSwitch == [Server!Next]_(Server!vars) => HaltStep
<1> SUFFICES ASSUME [Server!Next]_(Server!vars) PROVE HaltStep
  OBVIOUS
<1>1. ASSUME NEW r \in Calls, Server!Admit(r) PROVE HaltStep
  BY <1>1 DEF Server!Admit, HaltStep, Server!haltVars, haltVars
<1>2. ASSUME NEW r \in Calls, Server!PassDoor(r) PROVE HaltStep
  BY <1>2, SameDoor DEF Server!PassDoor, HaltStep
<1>3. ASSUME NEW r \in Calls, Server!GiveBack(r) PROVE HaltStep
  BY <1>3 DEF Server!GiveBack, HaltStep, Server!haltVars, haltVars
<1>4. ASSUME NEW r \in Calls, Server!Release(r) PROVE HaltStep
  BY <1>4 DEF Server!Release, HaltStep
<1>5. ASSUME Server!Administer PROVE HaltStep
  BY <1>5, SameSwitch DEF Server!Administer, HaltStep
<1>6. ASSUME Server!Restart PROVE HaltStep
  BY <1>6, SameSwitch DEF Server!Restart, HaltStep
<1>7. ASSUME UNCHANGED haltVars PROVE HaltStep
  BY <1>7 DEF HaltStep
<1> QED
  BY <1>1, <1>2, <1>3, <1>4, <1>5, <1>6, <1>7 DEF Server!Next, Server!vars, Server!haltVars, haltVars

(* What a call that moves keeps: the row is read before anything else, and   *)
(* only a call that was not aborted goes on.                                 *)
LEMMA DoorKeeps ==
    ASSUME HaltInv, NEW r \in Calls, DoorStep(r)
    PROVE  HaltInv'
<1> USE DEF HaltInv, RowStands, HaltTypeOK, HaltReachesEveryCall, Quiet,
            PastTheRead, Results
<1>1. ASSUME NEW phase \in {"reading"} \cup PastTheRead \cup Results,
             Reaches(r, phase),
             phase \in PastTheRead => ~halted \/ (door[r] \in PastTheRead
                                                    /\ r \notin aborted)
      PROVE  HaltInv'
  <2>1. HaltTypeOK'
    BY <1>1 DEF Reaches
  <2>2. HaltReachesEveryCall'
    <3> SUFFICES ASSUME Quiet', NEW c \in Calls, door'[c] \in PastTheRead
                 PROVE  c \in aborted'
      OBVIOUS
    <3>1. Quiet
      BY <1>1 DEF Reaches
    <3>2. CASE c = r
      BY <1>1, <3>1, <3>2 DEF Reaches
    <3>3. CASE c # r
      BY <1>1, <3>1, <3>3 DEF Reaches
    <3> QED
      BY <3>2, <3>3
  <2>3. RowStands'
    BY <1>1 DEF Reaches
  <2> QED
    BY <2>1, <2>2, <2>3
<1>2. CASE Enter(r)
  BY <1>1, <1>2 DEF Enter
<1>3. CASE ReadHalt(r)
  BY <1>1, <1>3 DEF ReadHalt
<1>4. CASE Connect(r)
  BY <1>1, <1>4 DEF Connect, MayGoOn
<1>5. CASE Generate(r)
  BY <1>1, <1>5 DEF Generate, MayGoOn
<1>6. CASE Confirm(r)
  BY <1>1, <1>6 DEF Confirm, MayGoOn
<1> QED
  BY <1>2, <1>3, <1>4, <1>5, <1>6 DEF DoorStep

(* What an administrator's step keeps: between a write and the end of its    *)
(* aborts nothing is promised, and the aborts reach everything registered.   *)
LEMMA AdminKeeps ==
    ASSUME HaltInv, AdminStep
    PROVE  HaltInv'
<1> USE DEF HaltInv, RowStands, HaltTypeOK, HaltReachesEveryCall, Quiet
<1>1. ASSUME NEW p \in Presses, Halt(p) PROVE HaltInv'
  <2>1. ~Quiet'
    BY <1>1 DEF Halt
  <2> QED
    BY <1>1, <2>1 DEF Halt, InsertReady
<1>2. ASSUME NEW p \in Presses, HaltThrows(p) PROVE HaltInv'
  <2>1. ~Quiet'
    BY <1>2 DEF HaltThrows
  <2> QED
    BY <1>2, <2>1 DEF HaltThrows
<1>3. ASSUME NEW p \in Presses, AbortAll(p) PROVE HaltInv'
  BY <1>3 DEF AbortAll, Reached, Registered
<1>4. CASE Lift
  BY <1>4 DEF Lift
<1>5. CASE EndLift
  BY <1>5 DEF EndLift
<1> QED
  BY <1>1, <1>2, <1>3, <1>4, <1>5 DEF AdminStep

(* The invariant is inductive.                                               *)
LEMMA HaltInductive ==
    /\ Server!Init => HaltInv
    /\ HaltInv /\ [Server!Next]_(Server!vars) => HaltInv'
<1>1. Server!Init => HaltInv
  BY DEF Server!Init, Server!HaltInit, HaltInv, RowStands, HaltTypeOK,
         HaltReachesEveryCall, PastTheRead
<1>2. ASSUME HaltInv, HaltStep PROVE HaltInv'
  <2> USE DEF HaltInv, RowStands, HaltTypeOK, HaltReachesEveryCall, Quiet,
              PastTheRead
  <2>1. CASE \E r \in Calls : DoorStep(r)
    BY <1>2, <2>1, DoorKeeps
  <2>2. CASE AdminStep
    BY <1>2, <2>2, AdminKeeps
  <2>3. CASE HaltRestart
    BY <1>2, <2>3 DEF HaltRestart
  <2>4. ASSUME NEW r \in Calls, door' = [door EXCEPT ![r] = "out"],
               UNCHANGED <<halted, lifting, press, aborted, upheld>>
        PROVE  HaltInv'
    BY <1>2, <2>4
  <2>5. CASE UNCHANGED haltVars
    BY <1>2, <2>5 DEF haltVars
  <2> QED
    BY <1>2, <2>1, <2>2, <2>3, <2>4, <2>5 DEF HaltStep
<1> QED
  BY <1>1, <1>2, StepsOfTheSwitch

-----------------------------------------------------------------------------
(* Once a row is written and its presses have aborted what was registered,   *)
(* no call past its read of the row goes on (inferenceHalt.ts:9-16).         *)
THEOREM HaltIsImmediate == Server!Spec => []HaltReachesEveryCall
<1>1. HaltInv => HaltReachesEveryCall
  BY DEF HaltInv, HaltReachesEveryCall
<1> QED
  BY <1>1, HaltInductive, PTL DEF Server!Spec

(* A halt found standing is not deleted by a lift that began before it       *)
(* (inferenceHalt.ts:34-37).                                                 *)
THEOREM HaltOutlivesLifts == Server!Spec => []HaltNeverLost
<1>1. HaltInv => HaltNeverLost
  BY DEF HaltInv, RowStands, HaltNeverLost
<1> QED
  BY <1>1, HaltInductive, PTL DEF Server!Spec

(* No complete answer is handed over once a halt is done                     *)
(* (local-llm.ts:551-554).                                                   *)
THEOREM OutputsHalt == Server!Spec => NoAnswerOnceHalted
<1> DEFINE Silent == Quiet => \A c \in Calls :
                        door'[c] = "answered" => door[c] = "answered"
<1>1. ASSUME HaltInv, HaltStep PROVE Silent
  <2> SUFFICES ASSUME Quiet, NEW c \in Calls,
                      door'[c] = "answered", door[c] # "answered"
               PROVE  FALSE
    OBVIOUS
  <2> USE DEF HaltInv, HaltTypeOK
  <2>1. CASE \E r \in Calls : DoorStep(r)
    <3> PICK r \in Calls : DoorStep(r)
      BY <2>1
    <3>1. Confirm(r) /\ c = r /\ MayGoOn(r)
      BY <1>1 DEF DoorStep, Enter, ReadHalt, Connect, Generate,
                  Confirm, Reaches, Results
    <3> QED
      BY <1>1, <3>1 DEF Confirm, MayGoOn, HaltReachesEveryCall, PastTheRead
  <2>2. CASE AdminStep
    BY <2>2 DEF AdminStep, Halt, HaltThrows, AbortAll, Lift, EndLift
  <2>3. CASE HaltRestart
    BY <2>3 DEF HaltRestart
  <2>4. CASE \E r \in Calls : door' = [door EXCEPT ![r] = "out"]
    BY <1>1, <2>4
  <2>5. CASE UNCHANGED haltVars
    BY <2>5 DEF haltVars
  <2> QED
    BY <1>1, <2>1, <2>2, <2>3, <2>4, <2>5 DEF HaltStep
<1>2. HaltInv /\ [Server!Next]_(Server!vars) => [Silent]_haltVars
  BY <1>1, StepsOfTheSwitch
<1> QED
  BY <1>2, HaltInductive, PTL DEF Server!Spec, NoAnswerOnceHalted
=============================================================================
