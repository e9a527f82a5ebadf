----------------------- MODULE SqliteSerializerProofs ------------------------
(***************************************************************************)
(* Proofs about SqliteSerializer: a connection is handed over outside any  *)
(* transaction, and every call is one atomic point of time (the refinement *)
(* of AtomicStore).                                                        *)
(*                                                                         *)
(* The inductive invariant says who holds the connection: a call between   *)
(* its acquisition and its release, or the transaction that has the        *)
(* driver's mutex.  Two such calls would each have to wait for the other   *)
(* (Exclusion), so an open transaction is its holder's, the pending writes *)
(* are that holder's, and the durable ones have not moved since it read.   *)
(***************************************************************************)
EXTENDS SqliteSerializer, TLAPS

(* Places at which a call has the hold and nothing can have released it.   *)
Inside == {"held", "ran", "refused", "open", "committed", "uncommitted"}

(* c has acquired the lock and not released it.                            *)
Holds(c) == c \notin settled /\ MyTurn(c)

(* The places in the promise chain are distinct.                           *)
Tickets ==
    /\ \A c \in Calls : ticket[c] <= arrivals
    /\ \A c \in Calls : pc[c] = "idle" <=> ticket[c] = 0
    /\ \A c, d \in Calls : c # d /\ ticket[c] = ticket[d] => ticket[c] = 0

(* Who has the lock.                                                       *)
Holders ==
    /\ \A c \in Calls : pc[c] \in Inside => Holds(c)
    /\ \A c \in settled : pc[c] \in {"ended", "closing", "closed", "done"}
    /\ mutex # None => /\ Holds(mutex)
                       /\ pc[mutex] \in {"open", "committed", "uncommitted",
                                         "ended"}

(* Who is in a transaction, and what it wrote.                             *)
OneTransaction ==
    /\ \A c \in Calls : pc[c] = "open" => open /\ mutex = c
    /\ open => mutex # None /\ pc[mutex] \in {"open", "uncommitted"}
    /\ ~open => pending = {}
    /\ open => pending = Written(mutex)
    /\ open /\ made[mutex] > 0 => seen[mutex] = durable

(* Who is answered, and who has run nothing yet.                           *)
Answered ==
    \A c \in Calls :
       /\ pc[c] \in {"idle", "waiting", "held", "open"} => told[c] = "nothing"
       /\ pc[c] \in {"idle", "waiting", "held", "refused"} => made[c] = 0

IInv == TypeOK /\ Tickets /\ Holders /\ OneTransaction /\ Answered

-----------------------------------------------------------------------------
(* The initial states.                                                     *)
LEMMA InitIInv == Init => IInv
  <1> SUFFICES ASSUME Init PROVE IInv  OBVIOUS
  <1>1. TypeOK
    <2>1. 0 \in 0 .. MaxStatements
      BY StatementAssumption
    <2>2. made \in [Calls -> 0 .. MaxStatements]
      BY <2>1 DEF Init
    <2>3. seen \in [Calls -> SUBSET (Calls \X (1 .. MaxStatements))]
      BY DEF Init
    <2> QED  BY <2>2, <2>3 DEF Init, TypeOK, Places
  <1>2. Tickets
    BY DEF Init, Tickets
  <1>3. Holders
    BY DEF Init, Holders, Inside
  <1>4. OneTransaction
    BY DEF Init, OneTransaction
  <1>5. Answered
    BY DEF Init, Answered
  <1> QED  BY <1>1, <1>2, <1>3, <1>4, <1>5 DEF IInv

(* The lock has one holder.                                                *)
LEMMA Exclusion ==
    ASSUME IInv, NEW c \in Calls, NEW d \in Calls, Holds(c), Holds(d),
           pc[c] # "idle", pc[d] # "idle"
    PROVE  c = d
  <1>1. ticket[c] \in Nat \ {0} /\ ticket[d] \in Nat \ {0}
    BY DEF IInv, TypeOK, Tickets
  <1>2. CASE ticket[c] < ticket[d]
    <2>1. ticket[c] \in 1 .. ticket[d] - 1
      BY <1>1, <1>2
    <2> QED  BY <2>1 DEF Holds, MyTurn
  <1>3. CASE ticket[d] < ticket[c]
    <2>1. ticket[d] \in 1 .. ticket[c] - 1
      BY <1>1, <1>3
    <2> QED  BY <2>1 DEF Holds, MyTurn
  <1>4. CASE ticket[c] = ticket[d]
    BY <1>1, <1>4 DEF IInv, Tickets
  <1> QED  BY <1>1, <1>2, <1>3, <1>4

(* A call that just acquired finds no transaction and a free mutex.        *)
LEMMA Clean ==
    ASSUME IInv, NEW c \in Calls, pc[c] \in Inside, pc[c] # "open",
           pc[c] # "committed", pc[c] # "uncommitted"
    PROVE  ~open /\ mutex = None /\ pending = {}
  <1>1. Holds(c) /\ pc[c] # "idle"
    BY DEF IInv, Holders, Inside
  <1>2. mutex = None
    <2> SUFFICES ASSUME mutex # None PROVE FALSE  OBVIOUS
    <2>1. mutex \in Calls /\ Holds(mutex) /\ pc[mutex] # "idle"
      BY DEF IInv, TypeOK, Holders, Calls
    <2>2. c = mutex
      BY <1>1, <2>1, Exclusion
    <2> QED  BY <2>2 DEF IInv, Holders, Inside
  <1> QED  BY <1>2 DEF IInv, OneTransaction

-----------------------------------------------------------------------------
(* Types.                                                                  *)
LEMMA WriteTypes ==
    ASSUME TypeOK, NEW c \in Calls, made[c] < MaxStatements, Write(c)
    PROVE  /\ made' \in [Calls -> 0 .. MaxStatements]
           /\ seen' \in [Calls -> SUBSET (Calls \X (1 .. MaxStatements))]
           /\ pending' \subseteq Calls \X (1 .. MaxStatements)
           /\ durable' \subseteq Calls \X (1 .. MaxStatements)
           /\ open' \in BOOLEAN
  <1>1. made[c] \in 0 .. MaxStatements /\ made[c] + 1 \in 1 .. MaxStatements
    BY StatementAssumption DEF TypeOK
  <1>2. <<c, made[c] + 1>> \in Calls \X (1 .. MaxStatements)
    BY <1>1
  <1>3. View \in SUBSET (Calls \X (1 .. MaxStatements))
    BY DEF TypeOK, View
  <1>4. made' \in [Calls -> 0 .. MaxStatements]
    BY <1>1, StatementAssumption DEF TypeOK, Write
  <1>5. seen' \in [Calls -> SUBSET (Calls \X (1 .. MaxStatements))]
    BY <1>3 DEF TypeOK, Write
  <1> QED  BY <1>2, <1>4, <1>5 DEF TypeOK, Write

LEMMA TypeNext == IInv /\ [Next]_vars => TypeOK'
  <1> SUFFICES ASSUME IInv, [Next]_vars PROVE TypeOK'
    OBVIOUS
  <1> USE DEF Goto, Tell, Places, connection
  <1>t. TypeOK
    BY DEF IInv
  <1>1. ASSUME NEW c \in Calls, TakeTicket(c),
               awaits' \in [Txs -> Queries \cup {None}]
        PROVE  TypeOK'
    BY <1>1, <1>t DEF TypeOK, TakeTicket
  <1>2. ASSUME NEW c \in Calls, Arrive(c) PROVE TypeOK'
    BY <1>1, <1>2, <1>t DEF TypeOK, Arrive
  <1>3. ASSUME NEW q \in Queries, NEW t \in Txs, ArriveInside(q, t)
        PROVE  TypeOK'
    BY <1>1, <1>3, <1>t DEF TypeOK, ArriveInside, Calls
  <1>4. ASSUME NEW c \in Calls, Acquire(c) PROVE TypeOK'
    BY <1>4, <1>t DEF TypeOK, Acquire
  <1>5. ASSUME NEW c \in Calls, Leave(c) PROVE TypeOK'
    BY <1>5, <1>t DEF TypeOK, Leave, Release, Caught
  <1>6. ASSUME NEW q \in Queries, RunQuery(q) PROVE TypeOK'
    <2>1. q \in Calls /\ made[q] < MaxStatements
      BY <1>6, StatementAssumption DEF IInv, Answered, RunQuery, Calls
    <2> QED  BY <1>6, <1>t, <2>1, WriteTypes DEF TypeOK, RunQuery
  <1>7. ASSUME NEW q \in Queries, QueryThrows(q) PROVE TypeOK'
    BY <1>7, <1>t DEF TypeOK, QueryThrows, Calls
  <1>8. ASSUME NEW t \in Txs, RefuseLevel(t) PROVE TypeOK'
    BY <1>8, <1>t DEF TypeOK, RefuseLevel, Calls
  <1>9. ASSUME NEW t \in Txs, Begin(t) PROVE TypeOK'
    BY <1>9, <1>t DEF TypeOK, Begin, Calls
  <1>10. ASSUME NEW t \in Txs, Statement(t) PROVE TypeOK'
    BY <1>10, <1>t, WriteTypes DEF TypeOK, Statement, Calls
  <1>11. ASSUME NEW t \in Txs, Commit(t) PROVE TypeOK'
    BY <1>11, <1>t DEF TypeOK, Commit, Calls
  <1>12. ASSUME NEW t \in Txs, CommitThrows(t) PROVE TypeOK'
    BY <1>12, <1>t DEF TypeOK, CommitThrows, Calls
  <1>13. ASSUME NEW t \in Txs, RollBack(t) PROVE TypeOK'
    BY <1>13, <1>t DEF TypeOK, RollBack, Calls
  <1>14. ASSUME NEW t \in Txs, CloseCommitted(t) PROVE TypeOK'
    BY <1>14, <1>t DEF TypeOK, CloseCommitted, Unlocked, Calls
  <1>15. ASSUME NEW t \in Txs, CloseRolledBack(t) PROVE TypeOK'
    BY <1>15, <1>t DEF TypeOK, CloseRolledBack, SendRollback, Calls
  <1>16. ASSUME NEW t \in Txs, UnlockRolledBack(t) PROVE TypeOK'
    BY <1>16, <1>t DEF TypeOK, UnlockRolledBack, Unlocked, Calls
  <1>17. ASSUME NEW t \in Txs, CloseAgain(t) PROVE TypeOK'
    BY <1>17, <1>t DEF TypeOK, CloseAgain, SendRollback, Unlocked, Release, Calls
  <1>18. ASSUME UNCHANGED vars PROVE TypeOK'
    BY <1>18, <1>t DEF TypeOK, vars
  <1> QED
    BY <1>2, <1>3, <1>4, <1>5, <1>6, <1>7, <1>8, <1>9, <1>10, <1>11, <1>12,
       <1>13, <1>14, <1>15, <1>16, <1>17, <1>18
    DEF Next, QueryStep, TxStep, Calls

-----------------------------------------------------------------------------
(* The lock.                                                               *)
LEMMA TicketsNext == IInv /\ [Next]_vars => Tickets'
  <1> SUFFICES ASSUME IInv, [Next]_vars PROVE Tickets'
    OBVIOUS
  <1>t. TypeOK /\ Tickets
    BY DEF IInv
  <1>1. ASSUME NEW c \in Calls, TakeTicket(c) PROVE Tickets'
    <2>1. /\ arrivals \in Nat
          /\ pc' = [pc EXCEPT ![c] = "waiting"]
          /\ arrivals' = arrivals + 1
          /\ ticket' = [ticket EXCEPT ![c] = arrivals + 1]
      BY <1>1, <1>t DEF TypeOK, TakeTicket, Goto
    <2> QED  BY <2>1, <1>t DEF TypeOK, Tickets
  <1>2. ASSUME NEW c \in Calls, NEW place \in Places \ {"idle"},
               pc[c] # "idle", pc' = [pc EXCEPT ![c] = place],
               UNCHANGED <<ticket, arrivals>>
        PROVE  Tickets'
    BY <1>2, <1>t DEF TypeOK, Tickets
  <1>3. ASSUME UNCHANGED <<pc, ticket, arrivals>> PROVE Tickets'
    BY <1>3, <1>t DEF Tickets
  <1>4. CASE \E c \in Calls : Arrive(c)
    BY <1>4, <1>1 DEF Arrive
  <1>5. CASE \E q \in Queries, t \in Txs : ArriveInside(q, t)
    BY <1>5, <1>1 DEF ArriveInside, Calls
  <1>6. ASSUME NEW q \in Queries, QueryStep(q) PROVE Tickets'
    BY <1>6, <1>2
    DEF QueryStep, Acquire, RunQuery, QueryThrows, Leave, Goto, Calls, Places
  <1>7. ASSUME NEW t \in Txs, TxStep(t) PROVE Tickets'
    BY <1>7, <1>2
    DEF TxStep, Acquire, RefuseLevel, Begin, Commit, CommitThrows, RollBack,
        CloseCommitted, CloseRolledBack, UnlockRolledBack, Leave, Goto, Calls,
        Places, CallbackRuns
  <1>8. ASSUME NEW t \in Txs, Statement(t) \/ CloseAgain(t) PROVE Tickets'
    BY <1>8, <1>3 DEF Statement, CloseAgain
  <1>9. CASE UNCHANGED vars
    BY <1>9, <1>3 DEF vars
  <1> QED  BY <1>4, <1>5, <1>6, <1>7, <1>8, <1>9 DEF Next

(* A holder stays one when another call arrives behind it.                 *)
LEMMA StillHoldsAfterArrival ==
    ASSUME IInv, NEW c \in Calls, Holds(c), pc[c] # "idle",
           NEW e \in Calls, TakeTicket(e)
    PROVE  Holds(c)'
  <1>1. /\ settled' = settled
        /\ ticket' = [ticket EXCEPT ![e] = arrivals + 1]
        /\ pc[e] = "idle"
    BY DEF TakeTicket
  <1>2. /\ ticket \in [Calls -> Nat] /\ arrivals \in Nat
        /\ ticket[c] <= arrivals
    BY DEF IInv, TypeOK, Tickets
  <1>3. ticket'[c] = ticket[c] /\ ticket'[e] = arrivals + 1
    BY <1>1, <1>2
  <1>4. ASSUME NEW d \in Calls, ticket'[d] \in 1 .. ticket'[c] - 1
        PROVE  d \in settled'
    <2>1. d # e
      BY <1>2, <1>3, <1>4
    <2>2. ticket[d] \in 1 .. ticket[c] - 1
      BY <1>1, <1>2, <1>3, <1>4, <2>1
    <2> QED  BY <1>1, <2>2 DEF Holds, MyTurn
  <1> QED  BY <1>1, <1>4 DEF Holds, MyTurn

(* One call moves and nobody releases.                                     *)
LEMMA HoldersMove ==
    ASSUME IInv, NEW e \in Calls, NEW place,
           pc' = [pc EXCEPT ![e] = place],
           ticket' = ticket, settled' = settled,
           place \in Inside => Holds(e),
           e \in settled => place \in {"ended", "closing", "closed", "done"},
           mutex' # None =>
              \/ mutex' = mutex /\ mutex # e
              \/ /\ mutex' = e /\ Holds(e)
                 /\ place \in {"open", "committed", "uncommitted", "ended"}
    PROVE  Holders'
  <1>1. \A c \in Calls : Holds(c) => Holds(c)'
    BY DEF Holds, MyTurn
  <1>2. pc \in [Calls -> Places] /\ mutex \in Calls \cup {None} /\ settled \subseteq Calls
    BY DEF IInv, TypeOK, Calls
  <1>3. \A c \in Calls : pc'[c] \in Inside => Holds(c)'
    BY <1>1, <1>2 DEF IInv, Holders
  <1>4. \A c \in settled' : pc'[c] \in {"ended", "closing", "closed", "done"}
    BY <1>2 DEF IInv, Holders
  <1>5. mutex' # None => /\ Holds(mutex)'
                         /\ pc'[mutex'] \in {"open", "committed", "uncommitted",
                                             "ended"}
    <2> SUFFICES ASSUME mutex' # None
                 PROVE  /\ Holds(mutex)'
                        /\ pc'[mutex'] \in {"open", "committed", "uncommitted",
                                            "ended"}
      OBVIOUS
    <2>1. mutex' \in Calls /\ Holds(mutex') /\ pc'[mutex'] \in {"open",
                "committed", "uncommitted", "ended"}
      BY <1>2 DEF IInv, Holders
    <2>2. mutex' \notin settled' /\ \A d \in Calls :
             ticket'[d] \in 1 .. ticket'[mutex'] - 1 => d \in settled'
      BY <2>1 DEF Holds, MyTurn
    <2> QED  BY <2>1, <2>2 DEF Holds, MyTurn
  <1> QED  BY <1>3, <1>4, <1>5 DEF Holders

(* One call releases, having given up the mutex.                           *)
LEMMA HoldersRelease ==
    ASSUME IInv, NEW e \in Calls, NEW place \in {"ended", "closing", "closed", "done"},
           pc' = [pc EXCEPT ![e] = place],
           ticket' = ticket, settled' = settled \cup {e},
           mutex' = None \/ (mutex' = mutex /\ mutex # e)
    PROVE  Holders'
  <1>1. \A c \in Calls : c # e /\ Holds(c) => Holds(c)'
    BY DEF Holds, MyTurn
  <1>2. pc \in [Calls -> Places] /\ mutex \in Calls \cup {None} /\ settled \subseteq Calls
    BY DEF IInv, TypeOK, Calls
  <1>3. \A c \in Calls : pc'[c] \in Inside => Holds(c)'
    BY <1>1, <1>2 DEF IInv, Holders, Inside
  <1>4. \A c \in settled' : pc'[c] \in {"ended", "closing", "closed", "done"}
    BY <1>2 DEF IInv, Holders
  <1>5. ASSUME mutex' # None
        PROVE  /\ Holds(mutex)'
               /\ pc'[mutex'] \in {"open", "committed", "uncommitted", "ended"}
    <2>1. mutex' = mutex /\ mutex \in Calls /\ mutex # e /\ Holds(mutex)
          /\ pc'[mutex] \in {"open", "committed", "uncommitted", "ended"}
      BY <1>2, <1>5 DEF IInv, Holders
    <2>2. mutex' \notin settled' /\ \A d \in Calls :
             ticket'[d] \in 1 .. ticket'[mutex'] - 1 => d \in settled'
      BY <2>1 DEF Holds, MyTurn
    <2> QED  BY <2>1, <2>2 DEF Holds, MyTurn
  <1> QED  BY <1>3, <1>4, <1>5 DEF Holders

LEMMA HoldersNext == IInv /\ [Next]_vars => Holders'
  <1> SUFFICES ASSUME IInv, [Next]_vars PROVE Holders'
    OBVIOUS
  <1> USE DEF Goto
  <1>t. TypeOK /\ Holders
    BY DEF IInv
  <1>c. Queries \subseteq Calls /\ Txs \subseteq Calls
    BY DEF Calls
  <1>1. ASSUME NEW e \in Calls, TakeTicket(e) PROVE Holders'
    <2>1. /\ pc' = [pc EXCEPT ![e] = "waiting"] /\ pc[e] = "idle"
          /\ settled' = settled /\ mutex' = mutex
      BY <1>1 DEF TakeTicket
    <2>2. \A c \in Calls : Holds(c) /\ pc[c] # "idle" => Holds(c)'
      BY <1>1, StillHoldsAfterArrival
    <2>3. pc \in [Calls -> Places] /\ mutex \in Calls \cup {None} /\ settled \subseteq Calls
      BY <1>t DEF TypeOK, Calls
    <2>4. \A c \in Calls : pc'[c] \in Inside => Holds(c)'
      BY <1>t, <2>1, <2>2, <2>3 DEF Holders, Inside
    <2>5. \A c \in settled' : pc'[c] \in {"ended", "closing", "closed", "done"}
      BY <1>t, <2>1, <2>3 DEF Holders
    <2>6. ASSUME mutex' # None
          PROVE  /\ Holds(mutex)'
                 /\ pc'[mutex'] \in {"open", "committed", "uncommitted", "ended"}
      <3>1. /\ mutex \in Calls /\ Holds(mutex)
            /\ pc[mutex] \in {"open", "committed", "uncommitted", "ended"}
        BY <1>t, <2>1, <2>3, <2>6 DEF Holders
      <3>2. pc'[mutex] = pc[mutex]
        BY <2>1, <2>3, <3>1
      <3>3. PICK m \in Calls : m = mutex
        BY <3>1
      <3>4. Holds(m)'
        BY <2>2, <3>1, <3>3
      <3>5. mutex' = m
        BY <2>1, <3>3
      <3>6. m \notin settled' /\ \A d \in Calls :
               ticket'[d] \in 1 .. ticket'[m] - 1 => d \in settled'
        BY <3>4 DEF Holds, MyTurn
      <3> QED  BY <2>1, <3>1, <3>2, <3>5, <3>6 DEF Holds, MyTurn
    <2> QED  BY <2>4, <2>5, <2>6 DEF Holders
  <1>2. ASSUME NEW c \in Calls, Acquire(c) PROVE Holders'
    <2>1. c \notin settled /\ Holds(c) /\ mutex # c
      BY <1>2, <1>t, CallAssumption DEF Holders, Acquire, Holds
    <2> QED  BY <1>2, <2>1, HoldersMove DEF Acquire
  <1>3. ASSUME NEW c \in Calls, Leave(c) PROVE Holders'
    <2>1. mutex # c
      <3>1. CASE pc[c] = "closing"
        BY <3>1, <1>t, CallAssumption DEF Holders
      <3>2. CASE pc[c] # "closing"
        BY <3>2, <1>3, Clean, CallAssumption DEF Leave, Inside
      <3> QED  BY <3>1, <3>2
    <2> QED  BY <1>3, <2>1, HoldersRelease DEF Leave, Release, Caught
  <1>4. ASSUME NEW c \in Calls, NEW place \in Inside, pc[c] \in Inside,
               pc' = [pc EXCEPT ![c] = place], ticket' = ticket,
               settled' = settled,
               \/ mutex' = mutex /\ mutex # c
               \/ mutex' = c /\ place \in {"open", "committed", "uncommitted"}
        PROVE  Holders'
    <2>1. Holds(c) /\ c \notin settled
      BY <1>4, <1>t DEF Holders, Holds
    <2> QED  BY <1>4, <2>1, HoldersMove
  <1>5. ASSUME NEW q \in Queries, RunQuery(q) \/ QueryThrows(q) PROVE Holders'
    <2>1. pc[q] = "held" /\ mutex = None /\ q # None
      BY <1>5, <1>c, Clean, CallAssumption DEF RunQuery, QueryThrows, Inside
    <2> QED  BY <1>4, <1>5, <1>c, <2>1 DEF RunQuery, QueryThrows, Inside
  <1>6. ASSUME NEW t \in Txs, RefuseLevel(t) PROVE Holders'
    <2>1. pc[t] = "held" /\ mutex = None /\ t # None
      BY <1>6, <1>c, Clean, CallAssumption DEF RefuseLevel, Inside
    <2> QED  BY <1>4, <1>6, <1>c, <2>1 DEF RefuseLevel, Inside
  <1>7. ASSUME NEW t \in Txs, Begin(t) PROVE Holders'
    <2>1. pc[t] = "held" /\ ~open
      BY <1>7, <1>c, Clean DEF Begin, Inside
    <2> QED  BY <1>4, <1>7, <1>c, <2>1 DEF Begin, Inside
  <1>8. ASSUME NEW t \in Txs, Commit(t) \/ CommitThrows(t) \/ RollBack(t)
        PROVE  Holders'
    <2>1. pc[t] = "open" /\ mutex = t /\ open
      BY <1>8, <1>c
      DEF Commit, CommitThrows, RollBack, CallbackRuns, IInv, OneTransaction
    <2>2. /\ ticket' = ticket /\ settled' = settled /\ mutex' = mutex
          /\ \E place \in {"committed", "uncommitted"} :
                pc' = [pc EXCEPT ![t] = place]
      BY <1>8, <2>1 DEF Commit, CommitThrows, RollBack
    <2> QED  BY <1>4, <1>c, <2>1, <2>2 DEF Inside
  <1>9. ASSUME NEW t \in Txs, CloseCommitted(t) PROVE Holders'
    <2>1. mutex' = None \/ (mutex' = mutex /\ mutex # t)
      BY <1>9 DEF CloseCommitted, Unlocked
    <2> QED
      BY <1>9, <1>c, <2>1, HoldersMove DEF CloseCommitted, Inside
  <1>10. ASSUME NEW t \in Txs, CloseRolledBack(t) PROVE Holders'
    <2>1. Holds(t)
      BY <1>10, <1>c, <1>t DEF CloseRolledBack, Holders, Inside
    <2> QED
      BY <1>10, <1>c, <2>1, HoldersMove DEF CloseRolledBack, Inside
  <1>11. ASSUME NEW t \in Txs, UnlockRolledBack(t) PROVE Holders'
    <2>1. mutex' = None \/ (mutex' = mutex /\ mutex # t)
      BY <1>11 DEF UnlockRolledBack, Unlocked
    <2> QED
      BY <1>11, <1>c, <2>1, HoldersMove DEF UnlockRolledBack, Inside
  <1>12. ASSUME NEW t \in Txs, CloseAgain(t) PROVE Holders'
    <2>1. mutex' = None \/ (mutex' = mutex /\ mutex # t)
      BY <1>12 DEF CloseAgain, Unlocked
    <2>2. pc' = [pc EXCEPT ![t] = pc[t]]
      BY <1>12, <1>c, <1>t DEF CloseAgain, TypeOK
    <2>3. pc[t] \in {"ended", "closing", "closed", "done"}
      BY <1>12 DEF CloseAgain, Closed
    <2> QED
      BY <1>12, <1>c, <2>1, <2>2, <2>3, HoldersRelease DEF CloseAgain, Release
  <1>13. ASSUME UNCHANGED <<pc, ticket, settled, mutex>> PROVE Holders'
    BY <1>13, <1>t DEF Holders, Holds, MyTurn
  <1>14. CASE UNCHANGED vars \/ \E t \in Txs : Statement(t)
    BY <1>13, <1>14 DEF vars, Statement
  <1> QED
    BY <1>1, <1>2, <1>3, <1>5, <1>6, <1>7, <1>8, <1>9, <1>10, <1>11, <1>12,
       <1>14, <1>c
    DEF Next, QueryStep, TxStep, Arrive, ArriveInside

-----------------------------------------------------------------------------
(* The transaction on the connection.                                      *)
LEMMA OneTransactionNext == IInv /\ [Next]_vars => OneTransaction'
  <1> SUFFICES ASSUME IInv, [Next]_vars PROVE OneTransaction'
    OBVIOUS
  <1> USE DEF Goto
  <1>t. TypeOK /\ Holders /\ OneTransaction
    BY DEF IInv
  <1>c. Queries \subseteq Calls /\ Txs \subseteq Calls /\ None \notin Calls
    BY CallAssumption DEF Calls
  <1>0. mutex \in Calls \cup {None} /\ pc \in [Calls -> Places]
    BY <1>t DEF TypeOK, Calls
  <1>1. ASSUME NEW e \in Calls, NEW place,
               pc' = [pc EXCEPT ![e] = place], place # "open",
               mutex # e, UNCHANGED <<open, mutex, pending, durable, made, seen>>
        PROVE  OneTransaction'
    BY <1>1, <1>t, <1>0, <1>c DEF OneTransaction, Written
  <1>2. ASSUME ~open', pending' = {}, NEW e \in Calls, NEW place,
               pc' = [pc EXCEPT ![e] = place], place # "open",
               ~open \/ mutex = e
        PROVE  OneTransaction'
    BY <1>2, <1>t, <1>0, <1>c DEF OneTransaction
  <1>3. ASSUME NEW e \in Calls, TakeTicket(e) PROVE OneTransaction'
    <2>1. mutex # e
      BY <1>3, <1>t, <1>c DEF Holders, TakeTicket
    <2> QED  BY <1>1, <1>3, <2>1 DEF TakeTicket, connection
  <1>4. ASSUME NEW c \in Calls, Acquire(c) PROVE OneTransaction'
    <2>1. mutex # c
      BY <1>4, <1>t, <1>c DEF Holders, Acquire
    <2> QED  BY <1>1, <1>4, <2>1 DEF Acquire, connection
  <1>5. ASSUME NEW c \in Calls, Leave(c) PROVE OneTransaction'
    <2>1. mutex # c
      <3>1. CASE pc[c] = "closing"
        BY <3>1, <1>t, <1>c DEF Holders
      <3>2. CASE pc[c] # "closing"
        BY <3>2, <1>5, <1>c, Clean DEF Leave, Inside
      <3> QED  BY <3>1, <3>2
    <2>2. (IF pc[c] = "closing" THEN "closed" ELSE "done") # "open"
      OBVIOUS
    <2> QED  BY <1>1, <1>5, <2>1, <2>2 DEF Leave, connection
  <1>6. ASSUME NEW q \in Queries, RunQuery(q) PROVE OneTransaction'
    <2>1. ~open /\ mutex = None /\ pending = {}
      BY <1>6, <1>c, Clean DEF RunQuery, Inside
    <2>2. ~open' /\ pending' = {}
      BY <1>6, <2>1 DEF RunQuery, Write
    <2> QED  BY <1>2, <1>6, <1>c, <2>1, <2>2 DEF RunQuery
  <1>7. ASSUME NEW q \in Queries, QueryThrows(q) PROVE OneTransaction'
    <2>1. mutex = None
      BY <1>7, <1>c, Clean DEF QueryThrows, Inside
    <2> QED  BY <1>1, <1>7, <1>c, <2>1 DEF QueryThrows, connection
  <1>8. ASSUME NEW t \in Txs, RefuseLevel(t) PROVE OneTransaction'
    <2>1. mutex = None
      BY <1>8, <1>c, Clean DEF RefuseLevel, Inside
    <2> QED  BY <1>1, <1>8, <1>c, <2>1 DEF RefuseLevel, connection
  <1>9. ASSUME NEW t \in Txs, Begin(t) PROVE OneTransaction'
    <2>1. ~open /\ pending = {} /\ pc[t] = "held"
      BY <1>9, <1>c, Clean DEF Begin, Inside
    <2>2. /\ open' /\ mutex' = t /\ pending' = pending /\ made' = made
          /\ pc' = [pc EXCEPT ![t] = "open"]
      BY <1>9, <2>1 DEF Begin
    <2>3. made[t] = 0
      BY <1>c, <2>1 DEF IInv, Answered
    <2>4. Written(t)' = {}
      BY <2>2, <2>3, StatementAssumption DEF Written
    <2>5. \A c \in Calls : pc[c] # "open"
      BY <1>t, <2>1 DEF OneTransaction
    <2> QED  BY <1>0, <1>c, <2>1, <2>2, <2>3, <2>4, <2>5 DEF OneTransaction, Written
  <1>10. ASSUME NEW t \in Txs, pc[t] = "open" PROVE open /\ mutex = t
    BY <1>10, <1>t, <1>c DEF OneTransaction
  <1>11. ASSUME NEW t \in Txs, Statement(t) PROVE OneTransaction'
    <2>1. open /\ mutex = t /\ pc[t] = "open"
      BY <1>10, <1>11 DEF Statement, CallbackRuns
    <2>2. /\ open' = open /\ mutex' = mutex /\ pc' = pc /\ durable' = durable
          /\ made' = [made EXCEPT ![t] = made[t] + 1]
          /\ seen' = [seen EXCEPT ![t] = IF made[t] = 0 THEN View ELSE seen[t]]
          /\ pending' = pending \cup {<<t, made[t] + 1>>}
      BY <1>11, <2>1 DEF Statement, Write
    <2>3. made[t] \in Nat /\ made'[t] = made[t] + 1
      BY <2>2, <1>c, <1>t DEF TypeOK
    <2>4. pending = {t} \X (1 .. made[t])
      BY <1>t, <2>1 DEF OneTransaction, Written
    <2>5. 1 .. made'[t] = (1 .. made[t]) \cup {made[t] + 1}
      BY <2>3
    <2>6. pending' = {t} \X (1 .. made'[t])
      BY <2>2, <2>4, <2>5
    <2>7. seen'[t] = durable'
      <3>1. CASE made[t] = 0
        <4>1. pending = {}
          BY <3>1, <2>4
        <4> QED  BY <3>1, <4>1, <2>2, <1>c, <1>t DEF View, TypeOK
      <3>2. CASE made[t] # 0
        BY <3>2, <2>1, <2>2, <2>3, <1>c, <1>t DEF OneTransaction, TypeOK
      <3> QED  BY <3>1, <3>2
    <2> QED  BY <1>t, <2>1, <2>2, <2>6, <2>7 DEF OneTransaction, Written
  <1>12. ASSUME NEW t \in Txs, Commit(t) \/ RollBack(t) PROVE OneTransaction'
    <2>1. open /\ mutex = t
      BY <1>10, <1>12 DEF Commit, RollBack, CallbackRuns
    <2>2. /\ ~open' /\ pending' = {}
          /\ \E place \in {"committed", "uncommitted"} :
                pc' = [pc EXCEPT ![t] = place]
      BY <1>12, <2>1 DEF Commit, RollBack
    <2> QED  BY <1>2, <1>c, <2>1, <2>2
  <1>13. ASSUME NEW t \in Txs, CommitThrows(t) PROVE OneTransaction'
    <2>1. open /\ mutex = t /\ pc' = [pc EXCEPT ![t] = "uncommitted"]
      BY <1>10, <1>13 DEF CommitThrows, CallbackRuns
    <2>2. CASE ~open' /\ pending' = {}
      BY <1>2, <1>c, <2>1, <2>2
    <2>3. CASE UNCHANGED connection
      BY <1>13, <1>t, <1>0, <1>c, <2>1, <2>3
      DEF CommitThrows, connection, OneTransaction, Written
    <2> QED  BY <1>13, <2>2, <2>3 DEF CommitThrows
  <1>14. ASSUME NEW t \in Txs, CloseCommitted(t) \/ UnlockRolledBack(t)
         PROVE  OneTransaction'
    <2>1. \/ ~open
          \/ mutex # t /\ mutex' = mutex
      <3>1. mutex' = Unlocked(t) /\ pc[t] \in {"committed", "ended"}
        BY <1>14 DEF CloseCommitted, UnlockRolledBack
      <3>2. mutex = t => ~open
        BY <3>1, <1>t DEF OneTransaction
      <3>3. mutex # t => mutex' = mutex
        BY <3>1 DEF Unlocked
      <3> QED  BY <3>2, <3>3
    <2>2. /\ pc' = [pc EXCEPT ![t] = "closing"]
          /\ UNCHANGED <<open, pending, durable, made, seen>>
      BY <1>14 DEF CloseCommitted, UnlockRolledBack, connection
    <2>3. CASE ~open
      BY <1>2, <1>c, <1>t, <2>2, <2>3 DEF OneTransaction
    <2>4. CASE mutex # t /\ mutex' = mutex
      BY <1>1, <1>c, <2>2, <2>4
    <2> QED  BY <2>1, <2>3, <2>4
  <1>15. ASSUME NEW t \in Txs, CloseRolledBack(t) PROVE OneTransaction'
    <2>1. ~open \/ mutex = t
      <3> SUFFICES ASSUME open PROVE mutex = t  OBVIOUS
      <3>1. mutex \in Calls /\ Holds(mutex) /\ pc[mutex] # "idle"
        BY <1>0, <1>t DEF OneTransaction, Holders
      <3>2. Holds(t) /\ pc[t] # "idle"
        BY <1>15, <1>c, <1>t DEF CloseRolledBack, Holders, Inside
      <3> QED  BY <1>c, <3>1, <3>2, Exclusion
    <2>2. ~open' /\ pending' = {}
      BY <1>15 DEF CloseRolledBack, SendRollback, FirstClose, Closed
    <2> QED  BY <1>2, <1>15, <1>c, <2>1, <2>2 DEF CloseRolledBack
  <1>16. ASSUME NEW t \in Txs, CloseAgain(t) PROVE OneTransaction'
    <2>1. UNCHANGED <<open, pending, durable, made, seen, pc>>
      BY <1>16 DEF CloseAgain, SendRollback, FirstClose
    <2>2. ~open \/ mutex # t
      BY <1>16, <1>t DEF CloseAgain, Closed, OneTransaction
    <2>3. open => mutex' = mutex
      BY <1>16, <2>2 DEF CloseAgain, Unlocked
    <2> QED  BY <1>t, <2>1, <2>2, <2>3 DEF OneTransaction, Written
  <1>17. CASE UNCHANGED vars
    BY <1>17, <1>t DEF vars, OneTransaction, Written
  <1> QED
    BY <1>3, <1>4, <1>5, <1>6, <1>7, <1>8, <1>9, <1>11, <1>12, <1>13, <1>14,
       <1>15, <1>16, <1>17, <1>c
    DEF Next, QueryStep, TxStep, Arrive, ArriveInside

-----------------------------------------------------------------------------
(* Answers.                                                                *)
LEMMA AnsweredNext == IInv /\ [Next]_vars => Answered'
  <1> SUFFICES ASSUME IInv, [Next]_vars PROVE Answered'
    OBVIOUS
  <1> USE DEF Goto, Tell
  <1>t. TypeOK /\ Answered
    BY DEF IInv
  <1>c. Queries \subseteq Calls /\ Txs \subseteq Calls
    BY DEF Calls
  <1>0. /\ pc \in [Calls -> Places] /\ made \in [Calls -> 0 .. MaxStatements]
        /\ told \in [Calls -> {"nothing", "kept", "failed"}]
    BY <1>t DEF TypeOK
  <1>1. ASSUME NEW c \in Calls, NEW place, pc' = [pc EXCEPT ![c] = place],
               made' = made, told' = told,
               \/ place \in Places \ {"idle", "waiting", "held", "open", "refused"}
               \/ place = "held" /\ pc[c] = "waiting"
               \/ place = "waiting" /\ pc[c] = "idle"
        PROVE  Answered'
    BY <1>1, <1>t, <1>0 DEF Answered
  <1>2. ASSUME NEW c \in Calls, TakeTicket(c) \/ Acquire(c) \/ Leave(c)
        PROVE  Answered'
    BY <1>1, <1>2 DEF TakeTicket, Acquire, Leave, Places
  <1>3. ASSUME NEW q \in Queries, RunQuery(q) PROVE Answered'
    BY <1>3, <1>c, <1>t, <1>0 DEF RunQuery, Write, Answered
  <1>4. ASSUME NEW q \in Queries, QueryThrows(q) PROVE Answered'
    BY <1>4, <1>c, <1>t, <1>0 DEF QueryThrows, Answered
  <1>5. ASSUME NEW t \in Txs, RefuseLevel(t) PROVE Answered'
    BY <1>5, <1>c, <1>t, <1>0 DEF RefuseLevel, Answered
  <1>6. ASSUME NEW t \in Txs, Begin(t) PROVE Answered'
    BY <1>6, <1>c, <1>t, <1>0 DEF Begin, Answered
  <1>7. ASSUME NEW t \in Txs, Statement(t) PROVE Answered'
    BY <1>7, <1>c, <1>t, <1>0 DEF Statement, CallbackRuns, Write, Answered
  <1>8. ASSUME NEW t \in Txs, Commit(t) \/ CommitThrows(t) \/ RollBack(t)
        PROVE  Answered'
    BY <1>8, <1>c, <1>t, <1>0 DEF Commit, CommitThrows, RollBack, Answered
  <1>9. ASSUME NEW t \in Txs,
               CloseCommitted(t) \/ CloseRolledBack(t) \/ UnlockRolledBack(t)
        PROVE  Answered'
    BY <1>1, <1>9, <1>c
    DEF CloseCommitted, CloseRolledBack, UnlockRolledBack, Places
  <1>10. ASSUME UNCHANGED <<pc, made, told>> PROVE Answered'
    BY <1>10, <1>t DEF Answered
  <1>11. CASE UNCHANGED vars \/ \E t \in Txs : CloseAgain(t)
    BY <1>10, <1>11 DEF vars, CloseAgain
  <1> QED
    BY <1>2, <1>3, <1>4, <1>5, <1>6, <1>7, <1>8, <1>9, <1>11, <1>c
    DEF Next, QueryStep, TxStep, Arrive, ArriveInside

-----------------------------------------------------------------------------
(* What a held call finds.                                                 *)
LEMMA HeldIsClean == IInv => CleanHandover
  BY Clean DEF CleanHandover, Inside

-----------------------------------------------------------------------------
(* The inductive invariant holds in every reachable state.                 *)
LEMMA Reachable == Spec => []IInv
  <1>1. IInv /\ [Next]_vars => IInv'
    BY TypeNext, TicketsNext, HoldersNext, OneTransactionNext, AnsweredNext
    DEF IInv
  <1> QED  BY <1>1, InitIInv, PTL DEF Spec

(* Every call, hold and write keeps its shape.                             *)
THEOREM SerializerTypes == Spec => []TypeOK
  <1>1. IInv => TypeOK
    BY DEF IInv
  <1> QED  BY <1>1, Reachable, PTL

(* The connection is handed over outside any transaction and with the      *)
(* driver's mutex free, whatever closed before: a failed COMMIT, a         *)
(* timeout, a second close.                                                *)
THEOREM HandoverIsClean == Spec => []CleanHandover
  <1> QED  BY HeldIsClean, Reachable, PTL

-----------------------------------------------------------------------------
(* The refinement.                                                         *)

(* Steps that answer nobody and keep no write.                             *)
LEMMA Stutter ==
    ASSUME IInv, durable' = durable, told' = told,
           \A c \in Calls : told[c] = "kept" => made'[c] = made[c] /\ seen'[c] = seen[c]
    PROVE  UNCHANGED Store!vars
  <1>1. \A c \in Calls : Answer(c)' = Answer(c)
    BY DEF Answer, Written
  <1> QED  BY <1>1 DEF Store!vars

(* A step that answers c with a failure.                                   *)
LEMMA FailStep ==
    ASSUME IInv, NEW c \in Calls, pc[c] \in {"idle", "waiting", "held", "open"},
           durable' = durable, told' = [told EXCEPT ![c] = "failed"],
           made' = made, seen' = seen
    PROVE  Store!Fail(c)
  <1>1. Answer(c) = None
    BY DEF IInv, Answered, Answer
  <1>2. \A d \in Calls : told'[d] = IF d = c THEN "failed" ELSE told[d]
    BY DEF IInv, TypeOK
  <1>3. Answer(c)' = Failed
    BY <1>2 DEF Answer
  <1>4. \A d \in Calls \ {c} : Answer(d)' = Answer(d)
    BY <1>2 DEF Answer, Written
  <1> QED  BY <1>1, <1>3, <1>4 DEF Store!Fail

(* A step that answers c, at a point where it read what is durable.        *)
LEMMA KeepStep ==
    ASSUME IInv, NEW c \in Calls, pc[c] \in {"idle", "waiting", "held", "open"},
           told' = [told EXCEPT ![c] = "kept"],
           made' \in [Calls -> 0 .. MaxStatements],
           \A d \in Calls \ {c} : made'[d] = made[d] /\ seen'[d] = seen[d],
           seen'[c] = durable, durable' = durable \cup Written(c)'
    PROVE  \E wrote \in SUBSET Writes(c) : Store!Keep(c, wrote)
  <1>1. Answer(c) = None
    BY DEF IInv, Answered, Answer
  <1>2. \A d \in Calls : told'[d] = IF d = c THEN "kept" ELSE told[d]
    BY DEF IInv, TypeOK
  <1> DEFINE wrote == {c} \X (1 .. made'[c])
  <1>3. Answer(c)' = [saw |-> durable, wrote |-> wrote] /\ Written(c)' = wrote
    BY <1>2 DEF Answer, Written
  <1>4. \A d \in Calls \ {c} : Answer(d)' = Answer(d)
    BY <1>2 DEF Answer, Written
  <1>5. wrote \in SUBSET Writes(c)
    <2>1. 1 .. made'[c] \subseteq 1 .. MaxStatements
      <3>1. made'[c] \in 0 .. MaxStatements
        OBVIOUS
      <3> QED  BY <3>1, StatementAssumption
    <2> QED  BY <2>1 DEF Writes
  <1> HIDE DEF wrote
  <1>6. Store!Keep(c, wrote)
    BY <1>1, <1>3, <1>4 DEF Store!Keep
  <1> QED  BY <1>5, <1>6

(* Every step answers one call at one point of time, or is unseen.         *)
LEMMA StepRefines == IInv /\ [Next]_vars => [Store!Next]_(Store!vars)
  <1> SUFFICES ASSUME IInv, [Next]_vars PROVE [Store!Next]_(Store!vars)
    OBVIOUS
  <1> USE DEF Tell
  <1>c. Queries \subseteq Calls /\ Txs \subseteq Calls
    BY DEF Calls
  <1>1. ASSUME UNCHANGED <<durable, told, made, seen>> PROVE UNCHANGED Store!vars
    BY <1>1, Stutter
  <1>2. ASSUME NEW c \in Calls, TakeTicket(c) \/ Acquire(c) \/ Leave(c)
        PROVE  UNCHANGED Store!vars
    BY <1>1, <1>2 DEF TakeTicket, Acquire, Leave, connection
  <1>3. ASSUME NEW q \in Queries, RunQuery(q) PROVE Store!Next
    <2>1. pc[q] = "held" /\ ~open /\ pending = {} /\ made[q] = 0
      BY <1>3, <1>c, Clean DEF RunQuery, Inside, IInv, Answered
    <2>2. /\ made' = [made EXCEPT ![q] = 1] /\ seen' = [seen EXCEPT ![q] = durable]
          /\ durable' = durable \cup {<<q, 1>>}
      BY <1>3, <2>1 DEF RunQuery, Write, View
    <2>3. made' \in [Calls -> 0 .. MaxStatements] /\ made'[q] = 1
      BY <1>c, <2>2, StatementAssumption DEF IInv, TypeOK
    <2>4. Written(q)' = {<<q, 1>>}
      BY <2>3 DEF Written
    <2>5. \A d \in Calls \ {q} : made'[d] = made[d] /\ seen'[d] = seen[d]
      BY <2>2 DEF IInv, TypeOK
    <2>6. seen'[q] = durable
      BY <1>c, <2>2 DEF IInv, TypeOK
    <2>7. told' = [told EXCEPT ![q] = "kept"]
      BY <1>3 DEF RunQuery
    <2> QED
      BY <1>c, <2>1, <2>2, <2>3, <2>4, <2>5, <2>6, <2>7, KeepStep DEF Store!Next
  <1>4. ASSUME NEW q \in Queries, QueryThrows(q) PROVE Store!Next
    BY <1>4, <1>c, FailStep DEF QueryThrows, connection, Store!Next
  <1>5. ASSUME NEW t \in Txs, RefuseLevel(t) PROVE Store!Next
    BY <1>5, <1>c, FailStep DEF RefuseLevel, connection, Store!Next
  <1>6. ASSUME NEW t \in Txs, Begin(t) PROVE UNCHANGED Store!vars
    <2>1. ~open /\ told[t] = "nothing"
      BY <1>6, <1>c, Clean DEF Begin, Inside, IInv, Answered
    <2>2. told' = told
      BY <1>6, <1>c, <2>1 DEF Begin, IInv, TypeOK
    <2> QED  BY <1>1, <1>6, <2>2 DEF Begin
  <1>7. ASSUME NEW t \in Txs, pc[t] = "open" PROVE open /\ mutex = t
    BY <1>7, <1>c DEF IInv, OneTransaction
  <1>8. ASSUME NEW t \in Txs, Statement(t) PROVE UNCHANGED Store!vars
    <2>1. open /\ pc[t] = "open"
      BY <1>7, <1>8 DEF Statement, CallbackRuns
    <2>2. /\ durable' = durable /\ told' = told
          /\ \A c \in Calls : c # t => made'[c] = made[c] /\ seen'[c] = seen[c]
      BY <1>8, <2>1 DEF Statement, Write, IInv, TypeOK
    <2>3. told[t] = "nothing"
      BY <1>c, <2>1 DEF IInv, Answered
    <2> QED  BY <2>2, <2>3, Stutter
  <1>9. ASSUME NEW t \in Txs, Commit(t) PROVE Store!Next
    <2>1. /\ open /\ pc[t] = "open" /\ pending = Written(t)
          /\ made[t] > 0 /\ seen[t] = durable
      BY <1>7, <1>9 DEF Commit, CallbackRuns, IInv, OneTransaction
    <2>2. /\ told' = [told EXCEPT ![t] = "kept"] /\ made' = made /\ seen' = seen
          /\ durable' = durable \cup pending
      BY <1>9, <2>1 DEF Commit
    <2>3. Written(t)' = Written(t) /\ made' \in [Calls -> 0 .. MaxStatements]
      BY <2>2 DEF Written, IInv, TypeOK
    <2> QED  BY <1>c, <2>1, <2>2, <2>3, KeepStep DEF Store!Next
  <1>10. ASSUME NEW t \in Txs, CommitThrows(t) \/ RollBack(t) PROVE Store!Next
    <2>1. /\ pc[t] = "open" /\ told' = [told EXCEPT ![t] = "failed"]
          /\ UNCHANGED <<durable, made, seen>>
      BY <1>10 DEF CommitThrows, RollBack, CallbackRuns, connection
    <2> QED  BY <1>c, <2>1, FailStep DEF Store!Next
  <1>11. ASSUME NEW t \in Txs, \/ CloseCommitted(t) \/ CloseRolledBack(t)
                               \/ UnlockRolledBack(t) \/ CloseAgain(t)
         PROVE  UNCHANGED Store!vars
    BY <1>1, <1>11 DEF CloseCommitted, CloseRolledBack, UnlockRolledBack,
       CloseAgain, SendRollback, connection
  <1>12. CASE UNCHANGED vars
    BY <1>1, <1>12 DEF vars
  <1> QED
    BY <1>2, <1>3, <1>4, <1>5, <1>6, <1>8, <1>9, <1>10, <1>11, <1>12, <1>c
    DEF Next, QueryStep, TxStep, Arrive, ArriveInside

(* Whatever runs beside it, a query or a transaction is one point of time: *)
(* it reads one state of the store and all it wrote is kept there, or it   *)
(* fails and nothing is.                                                   *)
THEOREM SerializerIsAtomic == Spec => AllOrNothing
  <1>1. Init => Store!Init
    BY DEF Init, Store!Init, Answer
  <1>2. IInv /\ [Next]_vars => [Store!Next]_(Store!vars)
    BY StepRefines
  <1> QED  BY <1>1, <1>2, Reachable, PTL DEF Spec, AllOrNothing, Store!Spec
=============================================================================
