--------------------------- MODULE BankSyncProofs ---------------------------
(* Theorems about BankSync, for every value of its constants.              *)
EXTENDS BankSync, TLAPS

USE SentinelAssumption, NumberAssumption, ForceAssumption

-----------------------------------------------------------------------------
(* Types.  TypeOK alone is not inductive: a statement writes what an       *)
(* earlier one of the same call read, so the locals a step will use must   *)
(* be set.                                                                 *)

SyncSet(l) ==
    /\ l \in SyncLocals
    /\ l.pc # "idle" => l.conn \in Conns /\ l.at \in Time

CallbackSet(l) ==
    /\ l \in CallbackLocals
    /\ l.pc # "idle" => l.request \in Requests
    /\ l.pc \in {"before", "resolve", "attach", "clear"} => l.conn \in Conns
    /\ l.pc = "attach" => l.account \in Accounts

RowsOK ==
    /\ clock \in 0 .. MaxClock
    /\ conn \in [Conns -> Connection]
    /\ link \in [Accounts -> Conns \cup {Orphan, NoBucket}]
    /\ request \in [Requests -> Request]
    /\ booking \in [Bookings -> [account: Accounts, day: Int] \cup {None}]
    /\ stored \in SUBSET Bookings
    /\ lastClaim \in [Conns -> Time \cup {None}]
    /\ honoured \in [Requests -> Nat]
    /\ raced \in SUBSET Conns

SyncsOK == sync \in [Syncs -> SyncLocals] /\ \A s \in Syncs : SyncSet(sync[s])

CallbacksOK ==
    /\ callback \in [Callbacks -> CallbackLocals]
    /\ \A p \in Callbacks : CallbackSet(callback[p])

TypeInv == RowsOK /\ SyncsOK /\ CallbacksOK

(* The initial shapes.                                                     *)
LEMMA Shapes ==
    /\ NoConnection \in Connection
    /\ NoRequest \in Request
    /\ SyncSet(IdleSync)
    /\ CallbackSet(IdleCallback)
BY DEF NoConnection, Connection, NoRequest, Request, IdleSync, SyncLocals,
       IdleCallback, CallbackLocals, Time, SyncSet, CallbackSet

(* A calendar day is an integer, so windows compare (104-121).             *)
LEMMA DayIsInt == \A t \in Nat : Day(t) \in Int
BY DEF Day

(* Writing well-formed locals for one call keeps them all well formed.     *)
LEMMA SyncUpdate ==
    ASSUME SyncsOK, NEW s \in Syncs, NEW l, SyncSet(l),
           sync' = [sync EXCEPT ![s] = l]
    PROVE  SyncsOK'
BY DEF SyncsOK, SyncSet

(* The same for the locals of a consent callback.                          *)
LEMMA CallbackUpdate ==
    ASSUME CallbacksOK, NEW p \in Callbacks, NEW l, CallbackSet(l),
           callback' = [callback EXCEPT ![p] = l]
    PROVE  CallbacksOK'
BY DEF CallbacksOK, CallbackSet

(* The values written to a connection row keep its shape, and so does      *)
(* writing one row.                                                        *)
LEMMA ConnectionValues ==
    ASSUME NEW r \in Connection, NEW t \in Time \cup {None}, NEW b \in BOOLEAN
    PROVE  /\ [r EXCEPT !.status = "active", !.consent = t] \in Connection
           /\ [r EXCEPT !.status = "expired"] \in Connection
           /\ [r EXCEPT !.lastSyncAt = t] \in Connection
           /\ [r EXCEPT !.cursor = None] \in Connection
           /\ [r EXCEPT !.lastSyncAt = t, !.cursor = IF b THEN t ELSE @]
                 \in Connection
           /\ [r EXCEPT !.lastSyncAt = t, !.status = StatusAfterFailure(@, b)]
                 \in Connection
BY DEF Connection, StatusAfterFailure

(* Writing one well-formed connection row keeps the table well formed.     *)
LEMMA ConnectionUpdate ==
    ASSUME RowsOK, NEW c \in Conns, NEW row \in Connection,
           conn' = [conn EXCEPT ![c] = row] \/ conn' = conn
    PROVE  conn' \in [Conns -> Connection]
BY DEF RowsOK

(* Each connection row is of the shape of schema.prisma 337-375.           *)
LEMMA RowShape == ASSUME RowsOK, NEW c \in Conns PROVE conn[c] \in Connection
BY DEF RowsOK

(* The empty database and the idle calls are of their shapes.              *)
LEMMA TypeInit == Init => TypeInv
<1> SUFFICES ASSUME Init PROVE TypeInv
  OBVIOUS
<1>1. RowsOK
  BY Shapes DEF Init, RowsOK
<1>2. SyncsOK
  BY Shapes DEF Init, SyncsOK, SyncSet
<1>3. CallbacksOK
  BY Shapes DEF Init, CallbacksOK, CallbackSet
<1> QED
  BY <1>1, <1>2, <1>3 DEF TypeInv

(* The surroundings of the code keep every shape.                          *)
LEMMA TypeWorld ==
    ASSUME TypeInv,
           \/ Tick
           \/ \E k \in Bookings, a \in Accounts,
                 d \in Day(clock) - PostDelay .. Day(clock) : Post(k, a, d)
           \/ \E q \in Requests, renews \in Conns \cup {None} :
                 StartAuthorization(q, renews)
           \/ \E c \in Conns : DeleteConnection(c)
           \/ Restart
    PROVE  TypeInv'
<1> USE DEF TypeInv
<1>1. CASE Tick
  BY <1>1 DEF Tick, RowsOK, SyncsOK, CallbacksOK, rows, history
<1>2. CASE \E k \in Bookings, a \in Accounts,
              d \in Day(clock) - PostDelay .. Day(clock) : Post(k, a, d)
  <2> PICK k \in Bookings, a \in Accounts,
           d \in Day(clock) - PostDelay .. Day(clock) : Post(k, a, d)
    BY <1>2
  <2>1. d \in Int
    BY DayIsInt DEF RowsOK
  <2> QED
    BY <2>1 DEF Post, RowsOK, SyncsOK, CallbacksOK, rows, history
<1>3. CASE \E q \in Requests, renews \in Conns \cup {None} :
              StartAuthorization(q, renews)
  <2> PICK q \in Requests, renews \in Conns \cup {None} :
           StartAuthorization(q, renews)
    BY <1>3
  <2>1. request' \in [Requests -> Request]
    BY DEF StartAuthorization, RowsOK, Request, Time
  <2> QED
    BY <2>1 DEF StartAuthorization, RowsOK, SyncsOK, CallbacksOK, history
<1>4. CASE \E c \in Conns : DeleteConnection(c)
  BY <1>4, Shapes DEF DeleteConnection, RowsOK, SyncsOK, CallbacksOK,
     Connection, history
<1>5. CASE Restart
  <2>1. \A p \in Callbacks : ClearPending(p) => callback[p].conn \in Conns
    BY DEF CallbacksOK, CallbackSet, ClearPending
  <2>2. RowsOK'
    BY <1>5, <2>1 DEF Restart, RowsOK, rows
  <2>3. SyncsOK' /\ CallbacksOK'
    BY <1>5, Shapes DEF Restart, SyncsOK, CallbacksOK, SyncSet, CallbackSet
  <2> QED
    BY <2>2, <2>3
<1> QED
  BY <1>1, <1>2, <1>3, <1>4, <1>5

(* So does each statement of a consent callback.                           *)
LEMMA TypeCallback ==
    ASSUME TypeInv, NEW p \in Callbacks, CallbackStep(p)
    PROVE  TypeInv'
<1> DEFINE l == callback[p]
<1>0. CallbackSet(l) /\ CallbackSet(IdleCallback)
  BY Shapes DEF TypeInv, CallbacksOK
<1> HIDE DEF l
<1>1. ASSUME NEW q \in Requests, CallbackFind(p, q) PROVE TypeInv'
  <2>1. CallbackSet([IdleCallback EXCEPT !.pc = "consume", !.request = q])
    BY DEF IdleCallback, CallbackSet, CallbackLocals
  <2>2. CallbacksOK'
    BY <1>1, <2>1, CallbackUpdate DEF CallbackFind, TypeInv
  <2> QED
    BY <1>1, <2>2 DEF CallbackFind, TypeInv, RowsOK, SyncsOK, rows, history
<1>2. CASE CallbackConsume(p)
  <2>1. l.request \in Requests
    BY <1>2, <1>0 DEF CallbackConsume, CallbackSet, l
  <2>2. CallbackSet([l EXCEPT !.pc = "exchange"])
    BY <1>0, <2>1 DEF CallbackSet, CallbackLocals
  <2>3. CallbacksOK'
    BY <1>0, <1>2, <2>2, CallbackUpdate DEF CallbackConsume, TypeInv, l
  <2>4. request' \in [Requests -> Request] /\ honoured' \in [Requests -> Nat]
    <3>1. CASE Unconsumed(l.request)
      <4>1. request' = [request EXCEPT ![l.request].phase = "consumed"]
            /\ honoured' = [honoured EXCEPT ![l.request] = @ + 1]
        BY <1>2, <3>1 DEF CallbackConsume, l
      <4> QED
        BY <2>1, <4>1 DEF TypeInv, RowsOK, Request
    <3>2. CASE ~Unconsumed(l.request)
      BY <1>2, <3>2 DEF CallbackConsume, TypeInv, RowsOK, l
    <3> QED
      BY <3>1, <3>2
  <2> QED
    BY <1>2, <2>3, <2>4 DEF CallbackConsume, TypeInv, RowsOK, SyncsOK
<1>3. CASE ExchangeFails(p)
  <2>1. CallbacksOK'
    BY <1>0, <1>3, CallbackUpdate DEF ExchangeFails, TypeInv
  <2> QED
    BY <1>3, <2>1 DEF ExchangeFails, TypeInv, RowsOK, SyncsOK, rows, history
<1>4. ASSUME NEW accounts \in SUBSET Accounts, NEW term \in ConsentTerms,
             RenewConnection(p, accounts, term)
      PROVE  TypeInv'
  <2> DEFINE c == request[l.request].renews
  <2>1. l.request \in Requests /\ c \in Conns
    BY <1>0, <1>4 DEF RenewConnection, TypeInv, RowsOK, CallbackSet, Request, l
  <2>2. ConsentEnd(term) \in Time \cup {None}
    BY DEF ConsentEnd, Time, TypeInv, RowsOK
  <2>3. conn' \in [Conns -> Connection]
    <3> DEFINE row == [conn[c] EXCEPT !.status = "active",
                                      !.consent = ConsentEnd(term)]
    <3>1. conn' = [conn EXCEPT ![c] = row]
      BY <1>4 DEF RenewConnection, l
    <3>2. conn[c] \in Connection
      BY <2>1, RowShape DEF TypeInv
    <3>3. row \in Connection
      BY <2>2, <3>2, ConnectionValues
    <3> HIDE DEF row, c
    <3> QED
      BY <2>1, <3>1, <3>3, ConnectionUpdate DEF TypeInv
  <2>4. CallbackSet([l EXCEPT !.pc = "before", !.conn = c, !.renewal = TRUE,
                              !.todo = accounts])
    BY <1>0, <2>1 DEF CallbackSet, CallbackLocals
  <2>5. CallbacksOK'
    BY <1>4, <2>4, CallbackUpdate DEF RenewConnection, TypeInv, l
  <2> QED
    BY <1>4, <2>3, <2>5 DEF RenewConnection, TypeInv, RowsOK, SyncsOK, history
<1>5. ASSUME NEW accounts \in SUBSET Accounts, NEW term \in ConsentTerms,
             NEW c \in Conns, CreateConnection(p, c, accounts, term)
      PROVE  TypeInv'
  <2>1. ConsentEnd(term) \in Time \cup {None}
    BY DEF ConsentEnd, Time, TypeInv, RowsOK
  <2>2. conn' \in [Conns -> Connection]
    BY <1>5, <2>1 DEF CreateConnection, NoConnection, TypeInv, RowsOK, Connection
  <2>3. l.request \in Requests
    BY <1>0, <1>5 DEF CreateConnection, CallbackSet, l
  <2>4. CallbackSet([l EXCEPT !.pc = "resolve", !.conn = c, !.todo = accounts])
    BY <1>0, <2>3 DEF CallbackSet, CallbackLocals
  <2>5. CallbacksOK'
    BY <1>5, <2>4, CallbackUpdate DEF CreateConnection, TypeInv, l
  <2> QED
    BY <1>5, <2>2, <2>5 DEF CreateConnection, TypeInv, RowsOK, SyncsOK, history
<1>6. CASE ReadLinkedBefore(p)
  <2>1. l.request \in Requests /\ l.conn \in Conns
    BY <1>0, <1>6 DEF ReadLinkedBefore, CallbackSet, l
  <2>2. CallbackSet([l EXCEPT !.pc = "resolve", !.before = Linked(l.conn)])
    BY <1>0, <2>1 DEF CallbackSet, CallbackLocals, Linked
  <2>3. CallbacksOK'
    BY <1>6, <2>2, CallbackUpdate DEF ReadLinkedBefore, TypeInv, l
  <2> QED
    BY <1>6, <2>3 DEF ReadLinkedBefore, TypeInv, RowsOK, SyncsOK, rows, history
<1>7. ASSUME NEW a \in Accounts, ResolveBucket(p, a) PROVE TypeInv'
  <2>1. l.request \in Requests /\ l.conn \in Conns
    BY <1>0, <1>7 DEF ResolveBucket, CallbackSet, l
  <2>2. CallbackSet([l EXCEPT !.todo = @ \ {a}])
    BY <1>0 DEF CallbackSet, CallbackLocals
  <2>3. CallbackSet([[l EXCEPT !.todo = @ \ {a}] EXCEPT
                        !.pc = "attach", !.account = a,
                        !.relink = (link[a] = Orphan)])
    BY <1>0, <2>1 DEF CallbackSet, CallbackLocals
  <2>4. CallbacksOK'
    <3> DEFINE left  == [l EXCEPT !.todo = @ \ {a}]
               taken == [left EXCEPT !.pc = "attach", !.account = a,
                                     !.relink = (link[a] = Orphan)]
    <3>1. \/ callback' = [callback EXCEPT ![p] = left]
          \/ callback' = [callback EXCEPT ![p] = taken]
      BY <1>7 DEF ResolveBucket, l
    <3>2. CallbackSet(left) /\ CallbackSet(taken)
      BY <2>2, <2>3
    <3> HIDE DEF left, taken
    <3> QED
      BY <3>1, <3>2, CallbackUpdate DEF TypeInv
  <2> QED
    BY <1>7, <2>4 DEF ResolveBucket, TypeInv, RowsOK, SyncsOK, rows, history
<1>8. CASE AttachBucket(p)
  <2>1. l.request \in Requests /\ l.conn \in Conns /\ l.account \in Accounts
    BY <1>0, <1>8 DEF AttachBucket, CallbackSet, l
  <2>2. link' \in [Accounts -> Conns \cup {Orphan, NoBucket}]
        /\ raced' \in SUBSET Conns
    <3>1. link' = [link EXCEPT ![l.account] = l.conn] \/ link' = link
      BY <1>8 DEF AttachBucket, l
    <3>2. raced' = raced \cup {l.conn} \/ raced' = raced
      BY <1>8 DEF AttachBucket, l
    <3> QED
      BY <2>1, <3>1, <3>2 DEF TypeInv, RowsOK
  <2>3. CallbackSet([l EXCEPT !.pc = "resolve", !.account = None,
                              !.relink = FALSE])
    BY <1>0, <2>1 DEF CallbackSet, CallbackLocals
  <2>4. CallbacksOK'
    BY <1>0, <1>8, <2>3, CallbackUpdate DEF AttachBucket, TypeInv, l
  <2> QED
    BY <1>8, <2>2, <2>4 DEF AttachBucket, TypeInv, RowsOK, SyncsOK
<1>9. CASE ReadLinkedAfter(p)
  <2>1. l.request \in Requests /\ l.conn \in Conns
    BY <1>0, <1>9 DEF ReadLinkedAfter, CallbackSet, l
  <2>2. CallbackSet([l EXCEPT !.pc = "clear"])
    BY <1>0, <2>1 DEF CallbackSet, CallbackLocals
  <2>3. CallbacksOK'
    BY <1>0, <1>9, <2>2, CallbackUpdate DEF ReadLinkedAfter, TypeInv, l
  <2> QED
    BY <1>9, <2>3 DEF ReadLinkedAfter, TypeInv, RowsOK, SyncsOK, rows, history
<1>10. CASE ClearCursor(p)
  <2>1. conn' \in [Conns -> Connection]
    <3>1. l.conn \in Conns
      BY <1>0, <1>10 DEF ClearCursor, CallbackSet, l
    <3> DEFINE row == [conn[l.conn] EXCEPT !.cursor = None]
    <3>2. conn' = [conn EXCEPT ![l.conn] = row] \/ conn' = conn
      BY <1>10 DEF ClearCursor, l
    <3>3. row \in Connection
      BY <3>1, RowShape, ConnectionValues DEF TypeInv
    <3> HIDE DEF row
    <3> QED
      BY <3>1, <3>2, <3>3, ConnectionUpdate DEF TypeInv
  <2>2. CallbacksOK'
    BY <1>0, <1>10, CallbackUpdate DEF ClearCursor, TypeInv
  <2> QED
    BY <1>10, <2>1, <2>2 DEF ClearCursor, TypeInv, RowsOK, SyncsOK, history
<1>11. CASE CallbackThrows(p)
  <2>1. raced' \in SUBSET Conns
    BY <1>0, <1>11 DEF CallbackThrows, ClearPending, CallbackSet, TypeInv, RowsOK, l
  <2>2. CallbacksOK'
    BY <1>0, <1>11, CallbackUpdate DEF CallbackThrows, TypeInv
  <2> QED
    BY <1>11, <2>1, <2>2 DEF CallbackThrows, TypeInv, RowsOK, SyncsOK, rows
<1> QED
  BY <1>1, <1>2, <1>3, <1>4, <1>5, <1>6, <1>7, <1>8, <1>9, <1>10, <1>11
     DEF CallbackStep

(* And each statement of a sync.                                           *)
LEMMA TypeSync ==
    ASSUME TypeInv, NEW s \in Syncs, SyncStep(s)
    PROVE  TypeInv'
<1> DEFINE l == sync[s]
<1>0. SyncSet(l) /\ SyncSet(IdleSync)
  BY Shapes DEF TypeInv, SyncsOK
<1> HIDE DEF l
<1>1. ASSUME NEW c \in Conns, NEW force \in Forces, StartSync(s, c, force)
      PROVE  TypeInv'
  <2> DEFINE new == [IdleSync EXCEPT
                       !.pc = IF Lapsed(c) THEN "expire"
                              ELSE IF force THEN "read" ELSE "claim",
                       !.conn = c, !.at = clock,
                       !.lastSyncAt = conn[c].lastSyncAt,
                       !.cursor = conn[c].cursor]
  <2>1. SyncSet(new)
    <3>1. conn[c] \in Connection /\ clock \in Time
      BY RowShape DEF TypeInv, RowsOK, Time
    <3>2. new.pc \in {"expire", "read", "claim"}
      BY DEF IdleSync
    <3> QED
      BY <3>1, <3>2 DEF IdleSync, SyncSet, SyncLocals, Connection
  <2>2. sync' = [sync EXCEPT ![s] = new]
    BY <1>1 DEF StartSync
  <2> HIDE DEF new
  <2>3. SyncsOK'
    BY <2>1, <2>2, SyncUpdate DEF TypeInv
  <2>4. raced' \in SUBSET Conns
    BY <1>1 DEF StartSync, TypeInv, RowsOK
  <2> QED
    BY <1>1, <2>3, <2>4 DEF StartSync, TypeInv, RowsOK, CallbacksOK, rows
<1>2. CASE MarkExpired(s)
  <2>1. l.conn \in Conns
    BY <1>0, <1>2 DEF MarkExpired, SyncSet, l
  <2> DEFINE row == [conn[l.conn] EXCEPT !.status = "expired"]
  <2>2. row \in Connection
    BY <2>1, RowShape, ConnectionValues DEF TypeInv
  <2>3. conn' \in [Conns -> Connection]
    <3>1. conn' = [conn EXCEPT ![l.conn] = row] \/ conn' = conn
      BY <1>2 DEF MarkExpired, l
    <3> HIDE DEF row
    <3> QED
      BY <2>1, <2>2, <3>1, ConnectionUpdate DEF TypeInv
  <2>4. SyncsOK'
    BY <1>0, <1>2, SyncUpdate DEF MarkExpired, TypeInv
  <2> QED
    BY <1>2, <2>3, <2>4 DEF MarkExpired, TypeInv, RowsOK, CallbacksOK, history
<1>3. CASE ClaimSlot(s)
  <2>1. l.conn \in Conns /\ l.at \in Time
    BY <1>0, <1>3 DEF ClaimSlot, SyncSet, l
  <2> DEFINE row == [conn[l.conn] EXCEPT !.lastSyncAt = l.at]
  <2>2. \/ /\ conn' = [conn EXCEPT ![l.conn] = row]
           /\ lastClaim' = [lastClaim EXCEPT ![l.conn] = l.at]
           /\ sync' = [sync EXCEPT ![s] = [l EXCEPT !.pc = "read"]]
        \/ /\ conn' = conn
           /\ lastClaim' = lastClaim
           /\ sync' = [sync EXCEPT ![s] = IdleSync]
    BY <1>3 DEF ClaimSlot, l
  <2>3. conn' \in [Conns -> Connection] /\ lastClaim' \in [Conns -> Time \cup {None}]
    <3>1. row \in Connection
      BY <2>1, RowShape, ConnectionValues DEF TypeInv
    <3> HIDE DEF row
    <3>2. conn' \in [Conns -> Connection]
      BY <2>1, <2>2, <3>1, ConnectionUpdate DEF TypeInv
    <3>3. lastClaim' \in [Conns -> Time \cup {None}]
      BY <2>1, <2>2 DEF TypeInv, RowsOK
    <3> QED
      BY <3>2, <3>3
  <2>4. SyncSet([l EXCEPT !.pc = "read"])
    BY <1>0, <2>1 DEF SyncSet, SyncLocals
  <2>5. SyncsOK'
    BY <1>0, <2>2, <2>4, SyncUpdate DEF TypeInv
  <2> QED
    BY <1>3, <2>3, <2>5 DEF ClaimSlot, TypeInv, RowsOK, CallbacksOK
<1>4. CASE ReadBuckets(s)
  <2>1. l.conn \in Conns /\ l.at \in Time
    BY <1>0, <1>4 DEF ReadBuckets, SyncSet, l
  <2>2. SyncSet([l EXCEPT !.pc = "fetch", !.todo = Linked(l.conn),
                          !.fetched = Linked(l.conn)])
    BY <1>0, <2>1 DEF SyncSet, SyncLocals, Linked
  <2>3. SyncsOK'
    BY <1>4, <2>2, SyncUpdate DEF ReadBuckets, TypeInv, l
  <2> QED
    BY <1>4, <2>3 DEF ReadBuckets, TypeInv, RowsOK, CallbacksOK, rows, history
<1>5. ASSUME NEW a \in Accounts, FetchBucket(s, a) PROVE TypeInv'
  <2>1. SyncSet([l EXCEPT !.todo = @ \ {a}])
    BY <1>0 DEF SyncSet, SyncLocals
  <2>2. SyncsOK'
    BY <1>5, <2>1, SyncUpdate DEF FetchBucket, TypeInv, l
  <2>3. stored' \in SUBSET Bookings
    BY <1>5 DEF FetchBucket, BookingsIn, TypeInv, RowsOK
  <2> QED
    BY <1>5, <2>2, <2>3 DEF FetchBucket, TypeInv, RowsOK, CallbacksOK, rows,
       history
<1>6. ASSUME NEW a \in Accounts, FetchFails(s, a) PROVE TypeInv'
  <2>1. \E landed \in SUBSET Bookings, rejected \in BOOLEAN :
           /\ stored' = stored \cup landed
           /\ sync' = [sync EXCEPT ![s] =
                         [@ EXCEPT !.pc = "fail", !.rejected = rejected]]
    BY <1>6 DEF FetchFails, BookingsIn
  <2> PICK landed \in SUBSET Bookings, rejected \in BOOLEAN :
           /\ stored' = stored \cup landed
           /\ sync' = [sync EXCEPT ![s] =
                         [@ EXCEPT !.pc = "fail", !.rejected = rejected]]
    BY <2>1
  <2>2. l.conn \in Conns /\ l.at \in Time
    BY <1>0, <1>6 DEF FetchFails, SyncSet, l
  <2>3. SyncSet([l EXCEPT !.pc = "fail", !.rejected = rejected])
    BY <1>0, <2>2 DEF SyncSet, SyncLocals
  <2>4. SyncsOK'
    BY <2>3, SyncUpdate DEF TypeInv, l
  <2>5. stored' \in SUBSET Bookings
    BY DEF TypeInv, RowsOK
  <2> QED
    BY <1>6, <2>4, <2>5 DEF FetchFails, TypeInv, RowsOK, CallbacksOK, rows,
       history
<1>7. CASE RereadBuckets(s)
  <2>1. l.conn \in Conns /\ l.at \in Time
    BY <1>0, <1>7 DEF RereadBuckets, SyncSet, l
  <2>2. SyncSet([l EXCEPT !.pc = "finish", !.complete = FetchedEveryBucket(s)])
    BY <1>0, <2>1 DEF SyncSet, SyncLocals, FetchedEveryBucket
  <2>3. SyncsOK'
    BY <1>7, <2>2, SyncUpdate DEF RereadBuckets, TypeInv, l
  <2> QED
    BY <1>7, <2>3 DEF RereadBuckets, TypeInv, RowsOK, CallbacksOK, rows, history
<1>8. CASE FinishSync(s)
  <2> DEFINE row == [conn[l.conn] EXCEPT
                       !.lastSyncAt = l.at,
                       !.cursor = IF l.complete THEN l.at ELSE @]
  <2>1. l.conn \in Conns /\ l.at \in Time
    BY <1>0, <1>8 DEF FinishSync, SyncSet, l
  <2>2. row \in Connection
    BY <1>0, <2>1, RowShape, ConnectionValues DEF TypeInv, SyncSet, SyncLocals
  <2>3. conn' = [conn EXCEPT ![l.conn] = row] \/ conn' = conn
    BY <1>8 DEF FinishSync, l
  <2> HIDE DEF row
  <2>4. conn' \in [Conns -> Connection]
    BY <2>1, <2>2, <2>3, ConnectionUpdate DEF TypeInv
  <2>5. SyncsOK'
    BY <1>0, <1>8, SyncUpdate DEF FinishSync, TypeInv
  <2> QED
    BY <1>8, <2>4, <2>5 DEF FinishSync, TypeInv, RowsOK, CallbacksOK, history
<1>9. CASE FailSync(s)
  <2> DEFINE row == [conn[l.conn] EXCEPT
                       !.lastSyncAt = l.at,
                       !.status = StatusAfterFailure(@, l.rejected)]
  <2>1. l.conn \in Conns /\ l.at \in Time
    BY <1>0, <1>9 DEF FailSync, SyncSet, l
  <2>2. row \in Connection
    BY <1>0, <2>1, RowShape, ConnectionValues DEF TypeInv, SyncSet, SyncLocals
  <2>3. conn' = [conn EXCEPT ![l.conn] = row] \/ conn' = conn
    BY <1>9 DEF FailSync, l
  <2> HIDE DEF row
  <2>4. conn' \in [Conns -> Connection]
    BY <2>1, <2>2, <2>3, ConnectionUpdate DEF TypeInv
  <2>5. SyncsOK'
    BY <1>0, <1>9, SyncUpdate DEF FailSync, TypeInv
  <2> QED
    BY <1>9, <2>4, <2>5 DEF FailSync, TypeInv, RowsOK, CallbacksOK, history
<1> QED
  BY <1>1, <1>2, <1>3, <1>4, <1>5, <1>6, <1>7, <1>8, <1>9 DEF SyncStep

(* Every step keeps every shape.                                           *)
LEMMA TypeNext == TypeInv /\ [Next]_vars => TypeInv'
<1> SUFFICES ASSUME TypeInv, [Next]_vars PROVE TypeInv'
  OBVIOUS
<1>1. CASE UNCHANGED vars
  BY <1>1 DEF vars, TypeInv, RowsOK, SyncsOK, CallbacksOK
<1> QED
  BY <1>1, TypeWorld, TypeCallback, TypeSync DEF Next

(* Every reachable state is well typed: no statement writes a row, or a    *)
(* call's locals, out of shape, whatever the number of calls in flight.    *)
THEOREM TypeCorrect == Spec => []TypeOK
<1>1. TypeInv => TypeOK
  BY DEF TypeInv, RowsOK, SyncsOK, CallbacksOK, TypeOK
<1> QED
  BY <1>1, TypeInit, TypeNext, PTL DEF Spec

(* The shapes, the ones of the locals included, hold in every behaviour.   *)
LEMMA TypeAlways == Spec => []TypeInv
BY TypeInit, TypeNext, PTL DEF Spec

-----------------------------------------------------------------------------
(* Single use.  A request that can still be consumed was never honoured.   *)

HonouredInv ==
    \A q \in Requests :
       /\ honoured[q] <= 1
       /\ request[q].phase \in {"none", "pending"} => honoured[q] = 0

(* The guarded update counts a request once and leaves it consumed.        *)
LEMMA HonouredNext == TypeInv /\ HonouredInv /\ [Next]_vars => HonouredInv'
<1> SUFFICES ASSUME TypeInv, HonouredInv, [Next]_vars PROVE HonouredInv'
  OBVIOUS
<1> USE DEF HonouredInv
<1>1. ASSUME NEW p \in Callbacks, CallbackConsume(p) PROVE HonouredInv'
  <2> DEFINE q == callback[p].request
  <2>1. q \in Requests
    BY <1>1 DEF CallbackConsume, TypeInv, CallbacksOK, CallbackSet
  <2> HIDE DEF q
  <2>2. CASE Unconsumed(q)
    <3>1. request' = [request EXCEPT ![q].phase = "consumed"]
          /\ honoured' = [honoured EXCEPT ![q] = @ + 1]
      BY <1>1, <2>2 DEF CallbackConsume, q
    <3> QED
      BY <2>1, <2>2, <3>1 DEF Unconsumed, TypeInv, RowsOK, Request
  <2>3. CASE ~Unconsumed(q)
    BY <1>1, <2>3 DEF CallbackConsume, q
  <2> QED
    BY <2>2, <2>3
<1>2. ASSUME NEW q \in Requests, NEW renews \in Conns \cup {None},
             StartAuthorization(q, renews)
      PROVE  HonouredInv'
  BY <1>2 DEF StartAuthorization, TypeInv, RowsOK, history
<1>3. CASE UNCHANGED <<request, honoured>>
  BY <1>3
<1>4. ASSUME NEW p \in Callbacks, CallbackStep(p) PROVE HonouredInv'
  <2>1. CallbackConsume(p) \/ UNCHANGED <<request, honoured>>
    BY <1>4 DEF CallbackStep, CallbackFind, ExchangeFails, RenewConnection,
       CreateConnection, ReadLinkedBefore, ResolveBucket, AttachBucket,
       ReadLinkedAfter, ClearCursor, CallbackThrows, rows, history
  <2> QED
    BY <1>1, <1>3, <2>1
<1>5. ASSUME NEW s \in Syncs, SyncStep(s) PROVE HonouredInv'
  <2>1. UNCHANGED <<request, honoured>>
    BY <1>5 DEF SyncStep, StartSync, MarkExpired, ClaimSlot, ReadBuckets,
       FetchBucket, FetchFails, RereadBuckets, FinishSync, FailSync, rows,
       history
  <2> QED
    BY <1>3, <2>1
<1>6. ASSUME \/ Tick
             \/ \E k \in Bookings, a \in Accounts,
                   d \in Day(clock) - PostDelay .. Day(clock) : Post(k, a, d)
             \/ \E c \in Conns : DeleteConnection(c)
             \/ Restart
             \/ UNCHANGED vars
      PROVE  HonouredInv'
  <2>1. UNCHANGED <<request, honoured>>
    BY <1>6 DEF Tick, Post, DeleteConnection, Restart, rows, history, vars
  <2> QED
    BY <1>3, <2>1
<1> QED
  BY <1>2, <1>4, <1>5, <1>6 DEF Next

(* The guarded update on consumedAt honours a request at most once, for    *)
(* any number of concurrent replays of its callback, renewals, deletions   *)
(* and restarts.                                                           *)
THEOREM RequestsSingleUse == Spec => []HonouredOnce
<1>1. Init => HonouredInv
  BY DEF Init, HonouredInv
<1>2. HonouredInv => HonouredOnce
  BY DEF HonouredInv, HonouredOnce
<1> QED
  BY <1>1, <1>2, HonouredNext, TypeAlways, PTL DEF Spec

-----------------------------------------------------------------------------
(* The unattended-call budget.  lastSyncAt has four writers; while no sync *)
(* outlives the interval each of them leaves it at the last claim.         *)

Claimed(l) == l.pc \in {"read", "fetch", "finish", "fail"}

LastSyncIsClaim ==
    \A c \in Conns :
       /\ Live(c) => conn[c].lastSyncAt = lastClaim[c]
       /\ conn[c].phase = "none" => lastClaim[c] = None

CallsRecent ==
    \A s \in Syncs :
       sync[s].pc # "idle" => /\ sync[s].at <= clock
                              /\ clock - sync[s].at <= SlowestSync

ClaimsAllowed ==
    \A s \in Syncs :
       /\ sync[s].pc = "claim"
            => \/ sync[s].lastSyncAt = None
               \/ sync[s].at - sync[s].lastSyncAt >= Throttle
       /\ Claimed(sync[s]) => lastClaim[sync[s].conn] = sync[s].at

ThrottleInv == LastSyncIsClaim /\ CallsRecent /\ ClaimsAllowed

(* A claim that matches the row came an interval after the last one, so no *)
(* other call on that connection is still past its claim.                  *)
LEMMA ClaimSpaced ==
    ASSUME TypeInv, ThrottleInv, SlowestSync < Throttle,
           NEW s \in Syncs, sync[s].pc = "claim",
           SlotMatches(s, sync[s].conn)
    PROVE  /\ lastClaim[sync[s].conn] # None
                => sync[s].at - lastClaim[sync[s].conn] >= Throttle
           /\ \A r \in Syncs : Claimed(sync[r]) => sync[r].conn # sync[s].conn
<1> DEFINE c == sync[s].conn
<1>1. c \in Conns /\ sync[s].at \in Nat /\ clock \in Nat
  BY DEF TypeInv, RowsOK, SyncsOK, SyncSet, Time
<1>2. sync[s].lastSyncAt = lastClaim[c]
  BY <1>1 DEF SlotMatches, ThrottleInv, LastSyncIsClaim
<1>3. lastClaim[c] # None => sync[s].at - lastClaim[c] >= Throttle
  BY <1>2 DEF ThrottleInv, ClaimsAllowed
<1>4. ASSUME NEW r \in Syncs, Claimed(sync[r]), sync[r].conn = c PROVE FALSE
  <2>1. lastClaim[c] = sync[r].at
    BY <1>4 DEF ThrottleInv, ClaimsAllowed
  <2>2. sync[r].at \in Nat /\ clock - sync[r].at <= SlowestSync
    BY <1>4 DEF TypeInv, SyncsOK, SyncSet, Time, ThrottleInv, CallsRecent, Claimed
  <2>3. sync[s].at <= clock
    BY DEF ThrottleInv, CallsRecent
  <2>4. sync[s].at - sync[r].at >= Throttle
    BY <1>3, <2>1, <2>2
  <2>5. Throttle \in Nat /\ SlowestSync \in Nat
    BY NumberAssumption
  <2> QED
    BY <1>1, <2>2, <2>3, <2>4, <2>5
<1> QED
  BY <1>3, <1>4

(* No call is past its claim at the start.                                 *)
LEMMA ThrottleInit == Init => ThrottleInv
BY DEF Init, ThrottleInv, LastSyncIsClaim, CallsRecent, ClaimsAllowed, Claimed,
       Live, NoConnection, IdleSync

(* What one call of syncBankConnection does to the invariant.              *)
LEMMA ThrottleSync ==
    ASSUME TypeInv, ThrottleInv, SlowestSync < Throttle, Forces \subseteq {FALSE},
           NEW s \in Syncs, SyncStep(s)
    PROVE  ThrottleInv'
<1> DEFINE l == sync[s]
           c == sync[s].conn
<1>0. /\ l.pc # "idle" => c \in Conns /\ l.at \in Nat
      /\ clock \in Nat
      /\ sync \in [Syncs -> SyncLocals]
      /\ conn \in [Conns -> Connection]
      /\ lastClaim \in [Conns -> Nat \cup {None}]
  BY DEF TypeInv, RowsOK, SyncsOK, SyncSet, Time
<1>1. ASSUME NEW d \in Conns, NEW force \in Forces, StartSync(s, d, force)
      PROVE  ThrottleInv'
  <2> DEFINE new == [IdleSync EXCEPT
                       !.pc = IF Lapsed(d) THEN "expire"
                              ELSE IF force THEN "read" ELSE "claim",
                       !.conn = d, !.at = clock,
                       !.lastSyncAt = conn[d].lastSyncAt,
                       !.cursor = conn[d].cursor]
  <2>1. ~force
    OBVIOUS
  <2>2. sync' = [sync EXCEPT ![s] = new]
        /\ UNCHANGED <<clock, conn, lastClaim>>
    BY <1>1 DEF StartSync, rows
  <2>3. /\ new.pc \in {"expire", "claim"}
        /\ new.at = clock
        /\ new.pc = "claim" => \/ new.lastSyncAt = None
                              \/ new.at - new.lastSyncAt >= Throttle
    <3>1. conn[d].lastSyncAt \in Nat \cup {None} /\ Throttle \in Nat
      BY <1>0, NumberAssumption DEF Connection, Time
    <3>2. Lapsed(d) \/ ~Throttled(d, force)
      BY <1>1 DEF StartSync
    <3> QED
      BY <1>0, <2>1, <3>1, <3>2 DEF IdleSync, Throttled
  <2> HIDE DEF new
  <2>4. \A r \in Syncs : sync'[r] = IF r = s THEN new ELSE sync[r]
    BY <1>0, <2>2
  <2>5. LastSyncIsClaim'
    BY <2>2 DEF ThrottleInv, LastSyncIsClaim, Live
  <2>6. CallsRecent'
    BY <1>0, <2>2, <2>3, <2>4, NumberAssumption DEF ThrottleInv, CallsRecent
  <2>7. ClaimsAllowed'
    BY <2>2, <2>3, <2>4 DEF ThrottleInv, ClaimsAllowed, Claimed
  <2> QED
    BY <2>5, <2>6, <2>7 DEF ThrottleInv
<1>2. CASE ClaimSlot(s) /\ SlotMatches(s, c)
  <2>1. /\ conn' = [conn EXCEPT ![c].lastSyncAt = l.at]
        /\ lastClaim' = [lastClaim EXCEPT ![c] = l.at]
        /\ sync' = [sync EXCEPT ![s] = [l EXCEPT !.pc = "read"]]
        /\ clock' = clock
        /\ l.pc = "claim"
    BY <1>2 DEF ClaimSlot
  <2>2. c \in Conns /\ l.at \in Nat
    BY <1>0, <2>1
  <2>3. \A r \in Syncs : Claimed(sync[r]) => sync[r].conn # c
    BY <1>2, <2>1, ClaimSpaced
  <2>4. \A r \in Syncs : sync'[r] = IF r = s THEN [l EXCEPT !.pc = "read"]
                                             ELSE sync[r]
    BY <1>0, <2>1
  <2>5. LastSyncIsClaim'
    <3>1. \A d \in Conns : conn'[d] = IF d = c
                                      THEN [conn[c] EXCEPT !.lastSyncAt = l.at]
                                      ELSE conn[d]
      BY <1>0, <2>1, <2>2
    <3>2. \A d \in Conns : lastClaim'[d] = IF d = c THEN l.at ELSE lastClaim[d]
      BY <1>0, <2>1, <2>2
    <3>3. conn[c] \in Connection /\ Live(c)
      BY <1>0, <1>2, <2>2 DEF SlotMatches
    <3> QED
      BY <2>2, <3>1, <3>2, <3>3 DEF ThrottleInv, LastSyncIsClaim, Live, Connection
  <2>6. CallsRecent'
    BY <1>0, <2>1, <2>4 DEF ThrottleInv, CallsRecent, SyncLocals
  <2>7. ClaimsAllowed'
    BY <1>0, <2>1, <2>2, <2>3, <2>4 DEF ThrottleInv, ClaimsAllowed, Claimed,
       SyncLocals, TypeInv, SyncsOK, SyncSet
  <2> QED
    BY <2>5, <2>6, <2>7 DEF ThrottleInv
<1>3. CASE \/ MarkExpired(s)
           \/ ClaimSlot(s) /\ ~SlotMatches(s, c)
           \/ FinishSync(s)
           \/ FailSync(s)
  <2>1. sync' = [sync EXCEPT ![s] = IdleSync]
        /\ UNCHANGED <<clock, lastClaim>> /\ c \in Conns
    BY <1>0, <1>3 DEF MarkExpired, ClaimSlot, FinishSync, FailSync, history
  <2>2. \A r \in Syncs : sync'[r] = IF r = s THEN IdleSync ELSE sync[r]
    BY <1>0, <2>1
  <2>3. /\ conn' \in [Conns -> Connection]
        /\ \A d \in Conns :
              /\ conn'[d].phase = conn[d].phase
              /\ \/ conn'[d].lastSyncAt = conn[d].lastSyncAt
                 \/ /\ d = c /\ conn'[d].lastSyncAt = l.at
                    /\ Claimed(l)
    <3>1. conn' \in [Conns -> Connection]
      BY TypeSync DEF TypeInv, RowsOK
    <3>2. CASE MarkExpired(s)
      BY <1>0, <3>1, <3>2 DEF MarkExpired, Connection
    <3>3. CASE ClaimSlot(s) /\ ~SlotMatches(s, c)
      BY <3>1, <3>3 DEF ClaimSlot
    <3>4. CASE FinishSync(s)
      BY <1>0, <3>1, <3>4 DEF FinishSync, Connection, Claimed
    <3>5. CASE FailSync(s)
      BY <1>0, <3>1, <3>5 DEF FailSync, Connection, Claimed
    <3> QED
      BY <1>3, <3>2, <3>3, <3>4, <3>5, <3>1
  <2>4. LastSyncIsClaim'
    BY <2>1, <2>3 DEF ThrottleInv, LastSyncIsClaim, ClaimsAllowed, Live
  <2>5. CallsRecent'
    BY <2>1, <2>2 DEF ThrottleInv, CallsRecent, IdleSync
  <2>6. ClaimsAllowed'
    BY <2>1, <2>2 DEF ThrottleInv, ClaimsAllowed, Claimed, IdleSync
  <2> QED
    BY <2>4, <2>5, <2>6 DEF ThrottleInv
<1>4. CASE \/ ReadBuckets(s)
           \/ \E a \in Accounts : FetchBucket(s, a) \/ FetchFails(s, a)
           \/ RereadBuckets(s)
  <2>1. UNCHANGED <<clock, conn, lastClaim>>
    BY <1>4 DEF ReadBuckets, FetchBucket, FetchFails, RereadBuckets, rows, history
  <2>2. \/ ReadBuckets(s)
        \/ \E a \in Accounts : FetchBucket(s, a)
        \/ \E a \in Accounts : FetchFails(s, a)
        \/ RereadBuckets(s)
    BY <1>4
  <2>3. /\ Claimed(l)
        /\ Claimed(sync'[s])
        /\ sync'[s].conn = c /\ sync'[s].at = l.at
        /\ \A r \in Syncs : r # s => sync'[r] = sync[r]
    <3>1. CASE ReadBuckets(s)
      BY <1>0, <3>1 DEF ReadBuckets, SyncLocals, Claimed
    <3>2. CASE \E a \in Accounts : FetchBucket(s, a)
      BY <1>0, <3>2 DEF FetchBucket, SyncLocals, Claimed
    <3>3. CASE \E a \in Accounts : FetchFails(s, a)
      BY <1>0, <3>3 DEF FetchFails, SyncLocals, Claimed
    <3>4. CASE RereadBuckets(s)
      BY <1>0, <3>4 DEF RereadBuckets, SyncLocals, Claimed
    <3> QED
      BY <2>2, <3>1, <3>2, <3>3, <3>4
  <2>4. LastSyncIsClaim'
    BY <2>1 DEF ThrottleInv, LastSyncIsClaim, Live
  <2>5. CallsRecent'
    BY <2>1, <2>3 DEF ThrottleInv, CallsRecent, Claimed
  <2>6. ClaimsAllowed'
    BY <2>1, <2>3 DEF ThrottleInv, ClaimsAllowed, Claimed
  <2> QED
    BY <2>4, <2>5, <2>6 DEF ThrottleInv
<1> QED
  BY <1>1, <1>2, <1>3, <1>4 DEF SyncStep

(* What everything else does to it.                                        *)
LEMMA ThrottleOther ==
    ASSUME TypeInv, ThrottleInv,
           \/ Tick
           \/ \E k \in Bookings, a \in Accounts,
                 d \in Day(clock) - PostDelay .. Day(clock) : Post(k, a, d)
           \/ \E q \in Requests, renews \in Conns \cup {None} :
                 StartAuthorization(q, renews)
           \/ \E p \in Callbacks : CallbackStep(p)
           \/ \E c \in Conns : DeleteConnection(c)
           \/ Restart
           \/ UNCHANGED vars
    PROVE  ThrottleInv'
<1> USE DEF ThrottleInv
<1>0. /\ clock \in Nat
      /\ conn \in [Conns -> Connection]
      /\ \A s \in Syncs : sync[s].pc # "idle" => sync[s].at \in Nat
  BY DEF TypeInv, RowsOK, SyncsOK, SyncSet, Time
<1>1. CASE Tick
  <2>1. UNCHANGED <<conn, sync, lastClaim>> /\ clock' = clock + 1
    BY <1>1 DEF Tick, rows, history
  <2>2. CallsRecent'
    <3>1. \A s \in Syncs : sync[s].pc # "idle" => clock - sync[s].at < SlowestSync
      BY <1>0, <1>1 DEF Tick
    <3> QED
      BY <1>0, <2>1, <3>1, NumberAssumption DEF CallsRecent
  <2> QED
    BY <2>1, <2>2 DEF LastSyncIsClaim, ClaimsAllowed, Claimed, Live
<1>2. ASSUME UNCHANGED <<clock, sync, lastClaim>>,
             \A c \in Conns :
                /\ conn'[c].phase = "live" =>
                     \/ conn[c].phase = "live"
                        /\ conn'[c].lastSyncAt = conn[c].lastSyncAt
                     \/ conn[c].phase = "none" /\ conn'[c].lastSyncAt = None
                /\ conn'[c].phase = "none" => conn[c].phase = "none"
      PROVE  ThrottleInv'
  BY <1>2 DEF LastSyncIsClaim, CallsRecent, ClaimsAllowed, Claimed, Live
<1>3. CASE \/ \E k \in Bookings, a \in Accounts,
                 d \in Day(clock) - PostDelay .. Day(clock) : Post(k, a, d)
           \/ \E q \in Requests, renews \in Conns \cup {None} :
                 StartAuthorization(q, renews)
           \/ UNCHANGED vars
  <2>1. UNCHANGED <<clock, conn, sync, lastClaim>>
    BY <1>3 DEF Post, StartAuthorization, rows, history, vars
  <2> QED
    BY <2>1 DEF LastSyncIsClaim, CallsRecent, ClaimsAllowed, Claimed, Live
<1>4. CASE \E c \in Conns : DeleteConnection(c)
  <2>1. UNCHANGED <<clock, sync, lastClaim>>
    BY <1>4 DEF DeleteConnection, history
  <2>2. PICK c \in Conns :
           conn' = [conn EXCEPT ![c] = [NoConnection EXCEPT !.phase = "deleted"]]
    BY <1>4 DEF DeleteConnection
  <2>3. \A d \in Conns : d # c => conn'[d] = conn[d]
    BY <1>0, <2>2
  <2>4. conn'[c].phase = "deleted"
    BY <1>0, <2>2 DEF NoConnection
  <2> QED
    BY <1>2, <2>1, <2>3, <2>4 DEF Connection
<1>5. CASE Restart
  BY <1>5 DEF Restart, rows, LastSyncIsClaim, CallsRecent, ClaimsAllowed,
     Claimed, Live, IdleSync
<1>6. ASSUME NEW p \in Callbacks, CallbackStep(p) PROVE ThrottleInv'
  <2>1. UNCHANGED <<clock, sync, lastClaim>>
    BY <1>6 DEF CallbackStep, CallbackFind, CallbackConsume, ExchangeFails,
       RenewConnection, CreateConnection, ReadLinkedBefore, ResolveBucket,
       AttachBucket, ReadLinkedAfter, ClearCursor, CallbackThrows, rows, history
  <2>2. \A c \in Conns :
           \/ /\ conn'[c].phase = conn[c].phase
              /\ conn'[c].lastSyncAt = conn[c].lastSyncAt
           \/ conn[c].phase = "none" /\ conn'[c].phase = "live"
              /\ conn'[c].lastSyncAt = None
    <3>1. CASE \E accounts \in SUBSET Accounts, term \in ConsentTerms :
                  RenewConnection(p, accounts, term)
      BY <1>0, <3>1 DEF RenewConnection, Connection
    <3>2. CASE \E accounts \in SUBSET Accounts, term \in ConsentTerms, c \in Conns :
                  CreateConnection(p, c, accounts, term)
      BY <1>0, <3>2 DEF CreateConnection, NoConnection
    <3>3. CASE ClearCursor(p)
      BY <1>0, <3>3 DEF ClearCursor, Connection
    <3>4. CASE conn' = conn
      BY <3>4
    <3>5. \/ \E accounts \in SUBSET Accounts, term \in ConsentTerms :
                RenewConnection(p, accounts, term)
          \/ \E accounts \in SUBSET Accounts, term \in ConsentTerms, c \in Conns :
                CreateConnection(p, c, accounts, term)
          \/ ClearCursor(p)
          \/ conn' = conn
      BY <1>6 DEF CallbackStep, CallbackFind, CallbackConsume, ExchangeFails,
         ReadLinkedBefore, ResolveBucket, AttachBucket, ReadLinkedAfter,
         CallbackThrows, rows
    <3> QED
      BY <3>1, <3>2, <3>3, <3>4, <3>5
  <2> QED
    BY <1>2, <2>1, <2>2
<1> QED
  BY <1>1, <1>3, <1>4, <1>5, <1>6

(* Unattended calls of one connection are an interval apart, whatever the  *)
(* interleaving of their statements with each other and with renewals,     *)
(* provided callers never force (none in src/ does) and no sync runs as    *)
(* long as the interval.                                                   *)
THEOREM UnattendedSyncsSpaced ==
    ASSUME SlowestSync < Throttle, Forces \subseteq {FALSE}
    PROVE  Spec => OneUnattendedSyncPerInterval
<1> DEFINE Spaced ==
      \A s \in Syncs :
         sync[s].pc = "claim" /\ sync'[s].pc = "read"
         /\ lastClaim[sync[s].conn] # None
            => sync[s].at - lastClaim[sync[s].conn] >= Throttle
<1>1. TypeInv /\ ThrottleInv /\ [Next]_vars => ThrottleInv'
  BY ThrottleSync, ThrottleOther DEF Next
<1>2. ASSUME TypeInv, ThrottleInv, Next PROVE Spaced
  <2> SUFFICES ASSUME NEW s \in Syncs, sync[s].pc = "claim", sync'[s].pc = "read"
               PROVE  lastClaim[sync[s].conn] # None
                        => sync[s].at - lastClaim[sync[s].conn] >= Throttle
    OBVIOUS
  <2>0. sync \in [Syncs -> SyncLocals]
    BY <1>2 DEF TypeInv, SyncsOK
  <2>1. sync' # sync
    OBVIOUS
  <2>2. PICK r \in Syncs : SyncStep(r)
    <3>1. ~Restart
      BY DEF Restart, IdleSync
    <3>2. ASSUME NEW p \in Callbacks, CallbackStep(p) PROVE sync' = sync
      BY <3>2 DEF CallbackStep, CallbackFind, CallbackConsume, ExchangeFails,
         RenewConnection, CreateConnection, ReadLinkedBefore, ResolveBucket,
         AttachBucket, ReadLinkedAfter, ClearCursor, CallbackThrows
    <3> QED
      BY <1>2, <2>1, <3>1, <3>2 DEF Next, Tick, Post, StartAuthorization,
         DeleteConnection
  <2>3. r = s
    <3>1. \E new : sync' = [sync EXCEPT ![r] = new]
      BY <2>2 DEF SyncStep, StartSync, MarkExpired, ClaimSlot, ReadBuckets,
         FetchBucket, FetchFails, RereadBuckets, FinishSync, FailSync
    <3> QED
      BY <2>0, <3>1
  <2>4. ClaimSlot(s)
    BY <2>2, <2>3 DEF SyncStep, StartSync, MarkExpired, ReadBuckets,
       FetchBucket, FetchFails, RereadBuckets, FinishSync, FailSync
  <2>5. SlotMatches(s, sync[s].conn)
    BY <2>0, <2>4 DEF ClaimSlot, IdleSync
  <2> QED
    BY <1>2, <2>5, ClaimSpaced
<1>3. TypeInv /\ ThrottleInv /\ [Next]_vars => [Spaced]_vars
  BY <1>2
<1>4. [][Spaced]_vars <=> OneUnattendedSyncPerInterval
  BY DEF OneUnattendedSyncPerInterval
<1> HIDE DEF Spaced
<1> QED
  BY <1>1, <1>3, <1>4, ThrottleInit, TypeAlways, PTL DEF Spec

-----------------------------------------------------------------------------
(* Nothing falls behind the cursor.  The cursor of a connection vouches    *)
(* for each of its buckets, or the renewal that attached the bucket is     *)
(* still to clear the cursor; and so that the next sync may move the       *)
(* cursor, each sync in flight is right about the buckets it read: what    *)
(* the cursor it started from says of them, then what its own start will.  *)

(* Every booking of the account that the bank would still list, more than  *)
(* the overlap older than t, is in the ledger.                             *)
Vouched(a, t) ==
    \A k \in Bookings :
        /\ booking[k] # None /\ booking[k].account = a
        /\ booking[k].day < Day(t) - Overlap
        /\ booking[k].day >= LookbackFrom(clock, Lookback)
        /\ booking[k].day >= LookbackFrom(clock, DefaultLookback)
        => k \in stored

(* The renewal p will count the account as attached.                       *)
Clears(p, a) ==
    /\ callback[p].renewal /\ callback[p].pc \in {"resolve", "attach", "clear"}
    /\ a \notin callback[p].before

(* The foreign key: a bucket is fed by a connection there is.              *)
LinksLive == \A a \in Accounts : link[a] \in Conns => Live(link[a])

(* No cursor, and no start a sync would write there, is in the future.     *)
NotAhead ==
    /\ \A c \in Conns, t \in Time : conn[c].cursor = t => t <= clock
    /\ \A s \in Syncs, t \in Time : t \in {sync[s].at, sync[s].cursor} => t <= clock

(* A cursor vouches for each bucket linked, unless it is to be cleared.    *)
CursorVouches ==
    \A c \in Conns \ raced, a \in Accounts, t \in Time :
        link[a] = c /\ conn[c].cursor = t =>
            Vouched(a, t) \/ \E p \in Callbacks : callback[p].conn = c /\ Clears(p, a)

(* What a sync knows of the buckets it is to fetch, has fetched, and will  *)
(* move the cursor for.                                                    *)
SyncVouches(s) ==
    sync[s].conn \notin raced => \A a \in Accounts, t \in Time :
        /\ sync[s].pc \in {"claim", "read"} /\ sync[s].cursor = t =>
               (link[a] = sync[s].conn => Vouched(a, t))
        /\ sync[s].pc = "fetch" /\ a \in sync[s].fetched =>
               /\ sync[s].cursor = t => Vouched(a, t)
               /\ sync[s].at = t /\ a \notin sync[s].todo => Vouched(a, t)
        /\ sync[s].pc = "finish" /\ sync[s].complete /\ sync[s].at = t =>
               (link[a] = sync[s].conn => Vouched(a, t))

VouchInv == LinksLive /\ NotAhead /\ CursorVouches /\ \A s \in Syncs : SyncVouches(s)

(* A later tick is no earlier day.                                         *)
LEMMA LaterDay == ASSUME NEW t \in Nat, NEW u \in Nat, t <= u PROVE Day(t) <= Day(u)
BY DEF Day

(* What is vouched for stays so: the bank lists no older bookings than     *)
(* the overlap, and nothing leaves the ledger.                             *)
LEMMA StaysVouched ==
    ASSUME TypeInv, TypeInv', Next, NEW a \in Accounts, NEW t \in Time, t <= clock, Vouched(a, t)
    PROVE  Vouched(a, t)'
<1>0. clock \in Nat /\ clock' \in Nat /\ t \in Nat
  BY DEF TypeInv, RowsOK, Time
<1>1. Day(clock) \in Int /\ Day(clock') \in Int /\ Day(t) \in Int /\ Day(t) <= Day(clock)
  BY <1>0, DayIsInt, LaterDay
<1>2. clock <= clock'
  <2>1. Tick \/ clock' = clock
    BY DEF Next, Post, StartAuthorization, DeleteConnection, Restart,
       CallbackStep, CallbackFind, CallbackConsume, ExchangeFails, RenewConnection,
       CreateConnection, ReadLinkedBefore, ResolveBucket, AttachBucket, ReadLinkedAfter,
       ClearCursor, CallbackThrows, SyncStep, StartSync, MarkExpired, ClaimSlot, ReadBuckets,
       FetchBucket, FetchFails, RereadBuckets, FinishSync, FailSync
  <2>2. Tick => clock' = clock + 1
    BY DEF Tick
  <2> QED BY <1>0, <2>1, <2>2
<1>3. stored \subseteq stored'
  <2>1. ASSUME NEW p \in Callbacks, CallbackStep(p) PROVE stored' = stored
    BY <2>1 DEF CallbackStep, CallbackFind, CallbackConsume, ExchangeFails,
       RenewConnection, CreateConnection, ReadLinkedBefore, ResolveBucket, AttachBucket,
       ReadLinkedAfter, ClearCursor, CallbackThrows
  <2>2. ASSUME NEW s \in Syncs, SyncStep(s) PROVE stored \subseteq stored'
    BY <2>2 DEF SyncStep, StartSync, MarkExpired, ClaimSlot, ReadBuckets, FetchBucket,
       FetchFails, RereadBuckets, FinishSync, FailSync
  <2> QED
    BY <2>1, <2>2 DEF Next, Tick, Post, StartAuthorization, DeleteConnection, Restart
<1>4. \/ booking' = booking
      \/ \E k \in Bookings, b \in Accounts, d \in Day(clock) - PostDelay .. Day(clock) :
             Post(k, b, d)
  BY DEF Next, Tick, StartAuthorization, DeleteConnection, Restart,
     CallbackStep, CallbackFind, CallbackConsume, ExchangeFails, RenewConnection,
     CreateConnection, ReadLinkedBefore, ResolveBucket, AttachBucket, ReadLinkedAfter,
     ClearCursor, CallbackThrows, SyncStep, StartSync, MarkExpired, ClaimSlot, ReadBuckets,
     FetchBucket, FetchFails, RereadBuckets, FinishSync, FailSync
<1>5. Day(clock) <= Day(clock')
  BY <1>0, <1>2, LaterDay
<1>6. \A L \in Nat : LookbackFrom(clock, L) <= LookbackFrom(clock', L)
                     /\ LookbackFrom(clock, L) \in Int /\ LookbackFrom(clock', L) \in Int
  BY <1>1, <1>5 DEF LookbackFrom
<1> SUFFICES ASSUME NEW k \in Bookings, booking'[k] # None, booking'[k].account = a,
                    booking'[k].day < Day(t) - Overlap,
                    booking'[k].day >= LookbackFrom(clock', Lookback),
                    booking'[k].day >= LookbackFrom(clock', DefaultLookback)
             PROVE  k \in stored'
  BY DEF Vouched, LookbackFrom, Day
<1>7. booking'[k].day \in Int
  BY DEF TypeInv, RowsOK
<1>8. booking'[k].day >= LookbackFrom(clock, Lookback)
      /\ booking'[k].day >= LookbackFrom(clock, DefaultLookback)
  BY <1>6, <1>7
<1>9. CASE booking'[k] = booking[k]
  BY <1>3, <1>8, <1>9 DEF Vouched
<1>10. CASE booking'[k] # booking[k]
  <2>1. PICK j \in Bookings, b \in Accounts, d \in Day(clock) - PostDelay .. Day(clock) :
             Post(j, b, d)
    BY <1>4, <1>10
  <2>2. booking' = [booking EXCEPT ![j] = [account |-> b, day |-> d]]
    BY <2>1 DEF Post
  <2>3. k = j /\ booking'[k].day = d
    BY <1>10, <2>2 DEF TypeInv, RowsOK
  <2>4. d \in Int /\ d >= Day(clock) - PostDelay
    BY <1>1
  <2> QED BY <1>1, <2>3, <2>4
<1> QED BY <1>9, <1>10

(* Nothing comes to be behind a cursor unless the cursor moves, a bucket   *)
(* is attached, or a renewal that was to clear it ends.                    *)
LEMMA CursorsUndisturbed ==
    ASSUME TypeInv, TypeInv', Next, VouchInv, link' = link, raced \subseteq raced',
           \A c \in Conns : conn'[c].cursor \in {conn[c].cursor, None},
           \A p \in Callbacks, a \in Accounts :
              link[a] = callback[p].conn /\ callback[p].conn \in Conns /\ Clears(p, a) =>
                 \/ Clears(p, a)' /\ callback'[p].conn = callback[p].conn
                 \/ conn'[callback[p].conn].cursor = None
                 \/ callback[p].conn \in raced'
    PROVE  CursorVouches'
<1> SUFFICES ASSUME NEW c \in Conns \ raced', NEW a \in Accounts, NEW t \in Time,
                    link[a] = c, conn'[c].cursor = t
             PROVE  Vouched(a, t)' \/ \E p \in Callbacks : callback'[p].conn = c /\ Clears(p, a)'
  BY DEF CursorVouches
<1>1. conn[c].cursor = t /\ c \notin raced /\ conn'[c].cursor # None
  <2>1. None \notin Time
    BY DEF Time
  <2> QED BY <2>1
<1>2. t <= clock
  BY <1>1 DEF VouchInv, NotAhead
<1>3. CASE Vouched(a, t)
  BY <1>2, <1>3, StaysVouched
<1>4. CASE \E p \in Callbacks : callback[p].conn = c /\ Clears(p, a)
  BY <1>1, <1>4
<1> QED BY <1>1, <1>3, <1>4 DEF VouchInv, CursorVouches

(* A sync that takes no step is still right about its buckets.             *)
LEMMA SyncUndisturbed ==
    ASSUME TypeInv, TypeInv', Next, VouchInv, NEW s \in Syncs, sync'[s] = sync[s],
           raced \subseteq raced',
           \A a \in Accounts : link'[a] = sync[s].conn => link[a] = sync[s].conn
    PROVE  SyncVouches(s)'
<1>1. ASSUME NEW a \in Accounts, NEW t \in Time, t \in {sync[s].at, sync[s].cursor}, Vouched(a, t)
      PROVE  Vouched(a, t)'
  <2>1. t <= clock
    BY <1>1 DEF VouchInv, NotAhead
  <2> QED BY <1>1, <2>1, StaysVouched
<1>2. SyncVouches(s)
  BY DEF VouchInv
<1> QED BY <1>1, <1>2 DEF SyncVouches

(* The links point at live connections, and the clock is behind nothing,   *)
(* as long as only the writes of the code are made.                        *)
LEMMA LinksUndisturbed ==
    ASSUME LinksLive, link' = link, \A c \in Conns : Live(c) => Live(c)'
    PROVE  LinksLive'
BY DEF LinksLive

(* The only cursors written are none, and the start of a sync in flight.   *)
LEMMA ClockUndisturbed ==
    ASSUME TypeInv, TypeInv', NotAhead, clock <= clock',
           \A c \in Conns : conn'[c].cursor \in
              {conn[c].cursor, None} \cup {sync[s].at : s \in Syncs},
           \A s \in Syncs : \/ sync'[s].at = sync[s].at /\ sync'[s].cursor = sync[s].cursor
                            \/ sync'[s].at = None /\ sync'[s].cursor = None
    PROVE  NotAhead'
<1>0. clock \in Nat /\ clock' \in Nat /\ None \notin Time /\ Time = Nat
  BY DEF TypeInv, RowsOK, Time
<1>1. ASSUME NEW c \in Conns, NEW t \in Time, conn'[c].cursor = t PROVE t <= clock'
  <2>1. t <= clock
    BY <1>0, <1>1 DEF NotAhead
  <2> QED BY <1>0, <2>1
<1>2. ASSUME NEW s \in Syncs, NEW t \in Time, t \in {sync'[s].at, sync'[s].cursor}
      PROVE  t <= clock'
  <2>1. t <= clock
    BY <1>0, <1>2 DEF NotAhead
  <2> QED BY <1>0, <2>1
<1> QED BY <1>1, <1>2 DEF NotAhead

(* The surroundings of the code.                                           *)
LEMMA VouchWorld ==
    ASSUME TypeInv, TypeInv', Next, VouchInv,
           \/ Tick
           \/ \E k \in Bookings, a \in Accounts,
                 d \in Day(clock) - PostDelay .. Day(clock) : Post(k, a, d)
           \/ \E q \in Requests, renews \in Conns \cup {None} :
                 StartAuthorization(q, renews)
    PROVE  VouchInv'
<1>1. UNCHANGED <<conn, link, sync, callback, raced>>
  BY DEF Tick, Post, StartAuthorization, rows, history
<1>2. clock \in Nat /\ (clock' = clock \/ clock' = clock + 1)
  BY DEF Tick, Post, StartAuthorization, TypeInv, RowsOK
<1>3. clock <= clock'
  BY <1>2
<1>4. LinksLive' /\ NotAhead'
  BY <1>1, <1>3, LinksUndisturbed, ClockUndisturbed DEF VouchInv, Live
<1>5. \A p, a : Clears(p, a)' = Clears(p, a)
  BY <1>1 DEF Clears
<1>6. CursorVouches'
  BY <1>1, <1>5, CursorsUndisturbed
<1>7. \A s \in Syncs : SyncVouches(s)'
  BY <1>1, SyncUndisturbed
<1> QED BY <1>4, <1>6, <1>7 DEF VouchInv

LEMMA VouchDelete ==
    ASSUME TypeInv, TypeInv', Next, VouchInv, NEW c \in Conns, DeleteConnection(c)
    PROVE  VouchInv'
<1>0. conn \in [Conns -> Connection] /\ link \in [Accounts -> Conns \cup {Orphan, NoBucket}]
      /\ clock \in Nat
  BY DEF TypeInv, RowsOK
<1>1. /\ conn' = [conn EXCEPT ![c] = [NoConnection EXCEPT !.phase = "deleted"]]
      /\ \A a \in Accounts : link'[a] = IF link[a] = c THEN Orphan ELSE link[a]
      /\ UNCHANGED <<clock, sync, callback, raced>>
  BY DEF DeleteConnection, history
<1>2. conn'[c].cursor = None /\ \A d \in Conns \ {c} : conn'[d] = conn[d]
  BY <1>0, <1>1 DEF NoConnection
<1>3. \A a \in Accounts : link'[a] # c /\ (link'[a] \in Conns => link'[a] = link[a])
  BY <1>1
<1>4. LinksLive'
  BY <1>2, <1>3 DEF VouchInv, LinksLive, Live
<1>5. NotAhead'
  BY <1>0, <1>1, <1>2, ClockUndisturbed DEF VouchInv
<1>6. CursorVouches'
  <2> SUFFICES ASSUME NEW d \in Conns \ raced', NEW a \in Accounts, NEW t \in Time,
                      link'[a] = d, conn'[d].cursor = t
               PROVE  Vouched(a, t)' \/ \E p \in Callbacks : callback'[p].conn = d /\ Clears(p, a)'
    BY DEF CursorVouches
  <2>1. d # c /\ link[a] = d /\ conn[d].cursor = t /\ d \notin raced
    BY <1>1, <1>2, <1>3
  <2>2. t <= clock
    BY <2>1 DEF VouchInv, NotAhead
  <2>3. Vouched(a, t) => Vouched(a, t)'
    BY <2>2, StaysVouched
  <2>4. \A p : Clears(p, a)' = Clears(p, a)
    BY <1>1 DEF Clears
  <2> QED BY <1>1, <2>1, <2>3, <2>4 DEF VouchInv, CursorVouches
<1>7. ASSUME NEW s \in Syncs PROVE SyncVouches(s)'
  <2>1. sync[s].conn \in Conns \cup {None} /\ Orphan \notin Conns \cup {None}
    BY DEF TypeInv, SyncsOK, SyncLocals
  <2>2. \A a \in Accounts : link'[a] = sync[s].conn => link[a] = sync[s].conn
    BY <1>1, <2>1
  <2> QED BY <1>1, <2>2, SyncUndisturbed
<1> QED BY <1>4, <1>5, <1>6, <1>7 DEF VouchInv

(* A call that is gone vouches for nothing; a renewal that is gone before  *)
(* its clear leaves its connection among the raced.                        *)
LEMMA VouchRestart ==
    ASSUME TypeInv, TypeInv', Next, VouchInv, Restart
    PROVE  VouchInv'
<1>1. /\ sync' = [s \in Syncs |-> IdleSync]
      /\ raced' = raced \cup {callback[p].conn : p \in {q \in Callbacks : ClearPending(q)}}
      /\ UNCHANGED <<clock, conn, link>>
  BY DEF Restart, rows
<1>2. \A s \in Syncs : sync'[s].pc = "idle" /\ sync'[s].at = None /\ sync'[s].cursor = None
  BY <1>1 DEF IdleSync
<1>3. LinksLive' /\ NotAhead'
  BY <1>1, <1>2, LinksUndisturbed, ClockUndisturbed DEF VouchInv, Live, TypeInv, RowsOK
<1>4. ASSUME NEW p \in Callbacks, NEW a \in Accounts, link[a] = callback[p].conn, Clears(p, a)
      PROVE  callback[p].conn \in raced'
  <2>1. ClearPending(p)
    BY <1>4 DEF ClearPending, Clears, Linked
  <2> QED BY <1>1, <2>1
<1>5. CursorVouches'
  BY <1>1, <1>4, CursorsUndisturbed
<1>6. \A s \in Syncs : SyncVouches(s)'
  BY <1>2 DEF SyncVouches
<1> QED BY <1>3, <1>5, <1>6 DEF VouchInv

(* Attaching a bucket: a renewal that had not counted it will clear the    *)
(* cursor, and no sync in flight will count it; or there is no cursor.     *)
LEMMA VouchAttach ==
    ASSUME TypeInv, TypeInv', Next, VouchInv, NEW p \in Callbacks, AttachBucket(p),
           Live(callback[p].conn), link' # link
    PROVE  VouchInv'
<1> DEFINE a == callback[p].account
           c == callback[p].conn
<1>0. /\ a \in Accounts /\ c \in Conns /\ callback[p].pc = "attach"
      /\ callback \in [Callbacks -> CallbackLocals] /\ None \notin Time /\ clock \in Nat
      /\ link \in [Accounts -> Conns \cup {Orphan, NoBucket}]
  BY DEF AttachBucket, TypeInv, RowsOK, CallbacksOK, CallbackSet, Time
<1>1. /\ link' = [link EXCEPT ![a] = c] /\ link[a] # c
      /\ raced' = IF UnsafeAttach(p, c) THEN raced \cup {c} ELSE raced
      /\ callback' = [callback EXCEPT ![p] = [callback[p] EXCEPT !.pc = "resolve",
                                                    !.account = None, !.relink = FALSE]]
      /\ UNCHANGED <<clock, conn, sync>>
  <2>1. link' = link \/ link' = [link EXCEPT ![a] = c]
    BY DEF AttachBucket
  <2>2. link[a] # c
    BY <1>0, <2>1
  <2> QED BY <1>0, <2>1, <2>2 DEF AttachBucket
<1>2. link'[a] = c /\ \A b \in Accounts : b # a => link'[b] = link[b]
  BY <1>0, <1>1
<1>3. /\ callback'[p].pc = "resolve" /\ callback'[p].conn = c
      /\ callback'[p].renewal = callback[p].renewal /\ callback'[p].before = callback[p].before
      /\ \A q \in Callbacks \ {p} : callback'[q] = callback[q]
  BY <1>0, <1>1 DEF CallbackLocals
<1> HIDE DEF a, c
<1>4. \A q \in Callbacks, b \in Accounts : callback'[q].conn = callback[q].conn
         /\ (Clears(q, b) => Clears(q, b)')
  BY <1>3 DEF Clears, c
<1>5. LinksLive'
  BY <1>1, <1>2 DEF VouchInv, LinksLive, Live, c
<1>6. NotAhead'
  BY <1>0, <1>1, ClockUndisturbed DEF VouchInv
<1>7. c \notin raced' => ~UnsafeAttach(p, c) /\ raced' = raced
  BY <1>1
<1>8. CursorVouches'
  <2> SUFFICES ASSUME NEW d \in Conns \ raced', NEW b \in Accounts, NEW t \in Time,
                      link'[b] = d, conn[d].cursor = t
               PROVE  Vouched(b, t)' \/ \E q \in Callbacks : callback'[q].conn = d /\ Clears(q, b)'
    BY <1>1 DEF CursorVouches
  <2>1. CASE b = a
    <3>1. d = c /\ conn[c].cursor # None /\ ~UnsafeAttach(p, c)
      BY <1>0, <1>2, <1>7, <2>1
    <3>2. callback[p].renewal /\ a \notin callback[p].before
      BY <3>1 DEF UnsafeAttach, a
    <3>3. Clears(p, b)'
      BY <1>3, <2>1, <3>2 DEF Clears
    <3> QED BY <1>3, <3>1, <3>3
  <2>2. CASE b # a
    <3>1. link[b] = d /\ d \notin raced
      BY <1>1, <1>2, <2>2
    <3>2. t <= clock
      BY DEF VouchInv, NotAhead
    <3>3. Vouched(b, t) => Vouched(b, t)'
      BY <3>2, StaysVouched
    <3> QED BY <1>4, <3>1, <3>3 DEF VouchInv, CursorVouches
  <2> QED BY <2>1, <2>2
<1>9. ASSUME NEW s \in Syncs PROVE SyncVouches(s)'
  <2>1. CASE sync[s].conn # c
    <3>1. \A b \in Accounts : link'[b] = sync[s].conn => link[b] = sync[s].conn
      BY <1>2, <2>1
    <3> QED BY <1>1, <3>1, SyncUndisturbed
  <2>2. CASE sync[s].conn = c
    <3> SUFFICES ASSUME c \notin raced' PROVE SyncVouches(s)'
      BY <1>1, <2>2 DEF SyncVouches
    <3>1. /\ sync[s].pc \in {"claim", "read"} => sync[s].cursor = None
          /\ ~(sync[s].pc = "finish" /\ sync[s].complete)
      BY <1>7, <2>2 DEF UnsafeAttach
    <3>2. c \notin raced
      BY <1>1
    <3>3. ASSUME NEW b \in Accounts, NEW t \in Time, t \in {sync[s].at, sync[s].cursor}
          PROVE  Vouched(b, t) => Vouched(b, t)'
      <4>1. t <= clock
        BY <3>3 DEF VouchInv, NotAhead
      <4> QED BY <4>1, StaysVouched
    <3>4. SyncVouches(s)
      BY DEF VouchInv
    <3>5. sync' = sync
      BY <1>1
    <3> QED BY <1>0, <2>2, <3>1, <3>2, <3>3, <3>4, <3>5 DEF SyncVouches
  <2> QED BY <2>1, <2>2
<1> QED BY <1>5, <1>6, <1>8, <1>9 DEF VouchInv

(* Every other statement of a consent callback.                            *)
LEMMA VouchCallback ==
    ASSUME TypeInv, TypeInv', Next, VouchInv, NEW p \in Callbacks, CallbackStep(p)
    PROVE  VouchInv'
<1>0. /\ conn \in [Conns -> Connection] /\ callback \in [Callbacks -> CallbackLocals]
      /\ clock \in Nat /\ CallbackSet(callback[p])
  BY DEF TypeInv, RowsOK, CallbacksOK
<1>1. ASSUME link' = link, UNCHANGED <<clock, sync>>, raced' = raced,
             \A c \in Conns : Live(c) => Live(c)',
             \A c \in Conns : conn'[c].cursor \in {conn[c].cursor, None},
             \A a \in Accounts :
                link[a] = callback[p].conn /\ callback[p].conn \in Conns /\ Clears(p, a) =>
                   \/ Clears(p, a)' /\ callback'[p].conn = callback[p].conn
                   \/ conn'[callback[p].conn].cursor = None,
             \A q \in Callbacks \ {p} : callback'[q] = callback[q]
      PROVE  VouchInv'
  <2>1. LinksLive' /\ NotAhead'
    <3>1. clock <= clock'
      BY <1>0, <1>1
    <3> QED BY <1>1, <3>1, LinksUndisturbed, ClockUndisturbed DEF VouchInv
  <2>2. \A q \in Callbacks \ {p}, a \in Accounts :
            Clears(q, a)' = Clears(q, a) /\ callback'[q].conn = callback[q].conn
    BY <1>1 DEF Clears
  <2>3. CursorVouches'
    BY <1>1, <2>2, CursorsUndisturbed
  <2>4. \A s \in Syncs : SyncVouches(s)'
    BY <1>1, SyncUndisturbed
  <2> QED BY <2>1, <2>3, <2>4 DEF VouchInv
<1>2. ASSUME callback[p].pc \notin {"resolve", "attach", "clear"},
             link' = link, UNCHANGED <<clock, sync>>, raced' = raced,
             \A c \in Conns : Live(c) => Live(c)',
             \A c \in Conns : conn'[c].cursor \in {conn[c].cursor, None},
             \A q \in Callbacks \ {p} : callback'[q] = callback[q]
      PROVE  VouchInv'
  BY <1>1, <1>2 DEF Clears
<1>3. ASSUME NEW q \in Requests, CallbackFind(p, q) PROVE VouchInv'
  BY <1>0, <1>2, <1>3 DEF CallbackFind, rows, history, Live
<1>4. CASE CallbackConsume(p) \/ ExchangeFails(p)
  BY <1>0, <1>2, <1>4 DEF CallbackConsume, ExchangeFails, rows, history, Live
<1>5. ASSUME NEW accounts \in SUBSET Accounts, NEW term \in ConsentTerms,
             RenewConnection(p, accounts, term)
      PROVE  VouchInv'
  <2>1. \A c \in Conns : conn'[c].cursor = conn[c].cursor /\ conn'[c].phase = conn[c].phase
    BY <1>0, <1>5 DEF RenewConnection, Connection
  <2> QED BY <1>0, <1>2, <1>5, <2>1 DEF RenewConnection, history, Live
<1>6. ASSUME NEW accounts \in SUBSET Accounts, NEW term \in ConsentTerms, NEW c \in Conns,
             CreateConnection(p, c, accounts, term)
      PROVE  VouchInv'
  <2>1. /\ conn'[c].cursor = None /\ conn'[c].phase = "live"
        /\ \A d \in Conns \ {c} : conn'[d] = conn[d]
    BY <1>0, <1>6 DEF CreateConnection, NoConnection
  <2> QED BY <1>0, <1>2, <1>6, <2>1 DEF CreateConnection, history, Live
<1>7. CASE ReadLinkedBefore(p)
  BY <1>0, <1>2, <1>7 DEF ReadLinkedBefore, rows, history, Live
<1>8. ASSUME NEW a \in Accounts, ResolveBucket(p, a) PROVE VouchInv'
  <2>1. /\ callback'[p].pc \in {"resolve", "attach"} /\ callback'[p].conn = callback[p].conn
        /\ callback'[p].renewal = callback[p].renewal
        /\ callback'[p].before = callback[p].before
        /\ \A q \in Callbacks \ {p} : callback'[q] = callback[q]
    BY <1>0, <1>8 DEF ResolveBucket, CallbackLocals
  <2>2. \A b \in Accounts : Clears(p, b) => Clears(p, b)'
    BY <2>1 DEF Clears
  <2> QED BY <1>1, <1>8, <2>1, <2>2 DEF ResolveBucket, rows, history, Live
<1>9. CASE AttachBucket(p)
  <2>1. CASE Live(callback[p].conn) /\ link' # link
    BY <1>9, <2>1, VouchAttach
  <2>2. CASE Live(callback[p].conn) /\ link' = link
    <3>1. raced' = raced
      <4>1. callback[p].account \in Accounts
        BY <1>0, <1>9 DEF AttachBucket, CallbackSet
      <4>2. CASE callback[p].relink \/ link[callback[p].account] = NoBucket
        <5>1. link' = [link EXCEPT ![callback[p].account] = callback[p].conn]
          BY <1>9, <2>2, <4>2 DEF AttachBucket
        <5>2. link[callback[p].account] = callback[p].conn
          BY <2>2, <4>1, <5>1 DEF TypeInv, RowsOK
        <5> QED BY <1>9, <2>2, <5>2 DEF AttachBucket
      <4>3. CASE ~(callback[p].relink \/ link[callback[p].account] = NoBucket)
        BY <1>9, <2>2, <4>3 DEF AttachBucket
      <4> QED BY <4>2, <4>3
    <3>2. /\ callback'[p].pc = "resolve" /\ callback'[p].conn = callback[p].conn
          /\ callback'[p].renewal = callback[p].renewal
          /\ callback'[p].before = callback[p].before
          /\ \A q \in Callbacks \ {p} : callback'[q] = callback[q]
      <4>1. callback' = [callback EXCEPT ![p] = [callback[p] EXCEPT !.pc = "resolve",
                                                    !.account = None, !.relink = FALSE]]
        BY <1>0, <1>9, <2>2 DEF AttachBucket
      <4> QED BY <1>0, <4>1 DEF CallbackLocals
    <3>3. \A b \in Accounts : Clears(p, b) => Clears(p, b)'
      BY <3>2 DEF Clears
    <3> QED BY <1>1, <1>9, <2>2, <3>1, <3>2, <3>3 DEF AttachBucket, Live
  <2>3. CASE ~Live(callback[p].conn)
    <3>1. \A a \in Accounts : callback[p].conn \in Conns => link[a] # callback[p].conn
      BY <2>3 DEF VouchInv, LinksLive
    <3>2. UNCHANGED <<link, raced, clock, conn, sync>>
          /\ \A q \in Callbacks \ {p} : callback'[q] = callback[q]
      BY <1>0, <1>9, <2>3 DEF AttachBucket
    <3> QED BY <1>1, <3>1, <3>2 DEF Live
  <2> QED BY <2>1, <2>2, <2>3
<1>10. CASE ReadLinkedAfter(p)
  <2>1. UNCHANGED <<link, raced, clock, conn, sync>>
        /\ \A q \in Callbacks \ {p} : callback'[q] = callback[q]
    BY <1>0, <1>10 DEF ReadLinkedAfter, rows, history
  <2>2. ASSUME NEW a \in Accounts, link[a] = callback[p].conn, Clears(p, a)
        PROVE  Clears(p, a)' /\ callback'[p].conn = callback[p].conn
    <3>1. AttachedBucket(p)
      BY <2>2 DEF Clears, AttachedBucket, Linked
    <3>2. callback' = [callback EXCEPT ![p] = [callback[p] EXCEPT !.pc = "clear"]]
      BY <1>10, <3>1 DEF ReadLinkedAfter
    <3>3. callback'[p] = [callback[p] EXCEPT !.pc = "clear"]
      BY <1>0, <3>2
    <3>4. /\ callback'[p].pc = "clear" /\ callback'[p].conn = callback[p].conn
          /\ callback'[p].renewal = callback[p].renewal
          /\ callback'[p].before = callback[p].before
      BY <1>0, <3>3 DEF CallbackLocals
    <3> QED BY <2>2, <3>4 DEF Clears
  <2> QED BY <1>1, <2>1, <2>2 DEF Live
<1>11. CASE ClearCursor(p)
  <2>1. UNCHANGED <<link, raced, clock, sync>> /\ callback[p].conn \in Conns
        /\ \A q \in Callbacks \ {p} : callback'[q] = callback[q]
    BY <1>0, <1>11 DEF ClearCursor, history, CallbackSet
  <2>2. CASE Live(callback[p].conn)
    <3>1. conn' = [conn EXCEPT ![callback[p].conn].cursor = None]
      BY <1>11, <2>2 DEF ClearCursor
    <3>2. /\ conn'[callback[p].conn].cursor = None
          /\ conn'[callback[p].conn].phase = conn[callback[p].conn].phase
          /\ \A d \in Conns : d # callback[p].conn => conn'[d] = conn[d]
      BY <1>0, <2>1, <3>1 DEF Connection
    <3> QED BY <1>1, <2>1, <3>2 DEF Live
  <2>3. CASE ~Live(callback[p].conn)
    <3>1. conn' = conn
      BY <1>11, <2>3 DEF ClearCursor
    <3>2. \A a \in Accounts : link[a] # callback[p].conn
      BY <2>1, <2>3 DEF VouchInv, LinksLive
    <3> QED BY <1>1, <2>1, <3>1, <3>2 DEF Live
  <2> QED BY <2>2, <2>3
<1>12. CASE CallbackThrows(p)
  <2>1. UNCHANGED <<clock, conn, link, sync>>
        /\ \A q \in Callbacks \ {p} : callback'[q] = callback[q]
    BY <1>0, <1>12 DEF CallbackThrows, rows
  <2>2. raced \subseteq raced'
    BY <1>12 DEF CallbackThrows
  <2>3. ASSUME NEW a \in Accounts, link[a] = callback[p].conn, Clears(p, a)
        PROVE  callback[p].conn \in raced'
    <3>1. ClearPending(p)
      BY <2>3 DEF ClearPending, Clears, Linked
    <3> QED BY <1>12, <3>1 DEF CallbackThrows
  <2>4. \A q \in Callbacks \ {p}, a \in Accounts :
            Clears(q, a)' = Clears(q, a) /\ callback'[q].conn = callback[q].conn
    BY <2>1 DEF Clears
  <2>5. CursorVouches'
    BY <2>1, <2>2, <2>3, <2>4, CursorsUndisturbed
  <2>6. LinksLive' /\ NotAhead'
    <3>1. clock <= clock'
      BY <1>0, <2>1
    <3> QED BY <2>1, <3>1, LinksUndisturbed, ClockUndisturbed DEF VouchInv, Live
  <2>7. \A s \in Syncs : SyncVouches(s)'
    BY <2>1, <2>2, SyncUndisturbed
  <2> QED BY <2>5, <2>6, <2>7 DEF VouchInv
<1> QED
  BY <1>3, <1>4, <1>5, <1>6, <1>7, <1>8, <1>9, <1>10, <1>11, <1>12 DEF CallbackStep

(* A bucket fetched over the window of a sync is vouched for by the start  *)
(* of that sync: what its window left out, its cursor vouched for.         *)
LEMMA FetchVouches ==
    ASSUME TypeInv, TypeInv', Next, VouchInv, NEW s \in Syncs, NEW a \in Accounts,
           FetchBucket(s, a), sync[s].conn \notin raced, a \in sync[s].fetched,
           sync[s].at \in Time
    PROVE  Vouched(a, sync[s].at)'
<1> DEFINE at == sync[s].at
           cur == sync[s].cursor
<1>0. /\ at \in Nat /\ cur \in Nat \cup {None} /\ clock \in Nat /\ None \notin Nat
      /\ sync[s].pc = "fetch" /\ at <= clock
  BY DEF TypeInv, RowsOK, SyncsOK, SyncLocals, Time, FetchBucket, VouchInv, NotAhead
<1>1. PICK from \in FetchStarts(RangeFrom(cur, at), at) :
          stored' = stored \cup BookingsIn(a, from, Day(at))
  BY DEF FetchBucket
<1>2. cur # None => Vouched(a, cur)
  BY <1>0 DEF VouchInv, SyncVouches, Time
<1>3. sync'[s].at = at /\ UNCHANGED <<clock, booking>>
  BY DEF FetchBucket, TypeInv, SyncsOK, SyncLocals, rows, history
<1>4. /\ Day(at) \in Int /\ Day(clock) \in Int /\ Day(at) <= Day(clock)
      /\ cur # None => Day(cur) \in Int
  BY <1>0, DayIsInt, LaterDay
<1>5. \A L \in Nat : LookbackFrom(at, L) <= LookbackFrom(clock, L)
                     /\ LookbackFrom(at, L) \in Int /\ LookbackFrom(clock, L) \in Int
  BY <1>4 DEF LookbackFrom
<1> HIDE DEF at, cur
<1> SUFFICES ASSUME NEW k \in Bookings, booking[k] # None, booking[k].account = a,
                    booking[k].day < Day(at) - Overlap,
                    booking[k].day >= LookbackFrom(clock, Lookback),
                    booking[k].day >= LookbackFrom(clock, DefaultLookback)
             PROVE  k \in stored'
  BY <1>3 DEF Vouched, LookbackFrom, Day, at
<1>6. booking[k].day \in Int
  BY DEF TypeInv, RowsOK
<1>7. /\ booking[k].day <= Day(at)
      /\ booking[k].day >= LookbackFrom(at, Lookback)
      /\ booking[k].day >= LookbackFrom(at, DefaultLookback)
  BY <1>4, <1>5, <1>6
<1>8. CASE from \in Int /\ booking[k].day >= from
  <2>1. booking[k].day \in from .. Day(at)
    BY <1>4, <1>6, <1>7, <1>8
  <2> QED BY <1>1, <2>1 DEF BookingsIn
<1>9. CASE from = LookbackFrom(at, DefaultLookback)
  BY <1>5, <1>7, <1>8, <1>9
<1>10. CASE from = RangeFrom(cur, at)
  <2>1. CASE RangeFrom(cur, at) = LookbackFrom(at, Lookback)
    BY <1>5, <1>7, <1>8, <1>10, <2>1
  <2>2. CASE cur # None /\ RangeFrom(cur, at) = Day(cur) - Overlap
    <3>1. CASE booking[k].day >= Day(cur) - Overlap
      BY <1>4, <1>8, <1>10, <2>2, <3>1
    <3>2. CASE booking[k].day < Day(cur) - Overlap
      <4>1. k \in stored
        BY <1>2, <2>2, <3>2 DEF Vouched
      <4> QED BY <1>1, <4>1
    <3> QED BY <1>4, <1>6, <2>2, <3>1, <3>2
  <2> QED BY <2>1, <2>2 DEF RangeFrom
<1> QED BY <1>9, <1>10 DEF FetchStarts

(* Each statement of a sync.                                               *)
LEMMA VouchSync ==
    ASSUME TypeInv, TypeInv', Next, VouchInv, NEW s \in Syncs, SyncStep(s)
    PROVE  VouchInv'
<1>0. /\ conn \in [Conns -> Connection] /\ sync \in [Syncs -> SyncLocals]
      /\ clock \in Nat /\ SyncSet(sync[s]) /\ None \notin Time /\ Time = Nat
  BY DEF TypeInv, RowsOK, SyncsOK, Time
<1>1. UNCHANGED <<callback, link, clock>> /\ raced \subseteq raced'
  BY DEF SyncStep, StartSync, MarkExpired, ClaimSlot, ReadBuckets, FetchBucket,
     FetchFails, RereadBuckets, FinishSync, FailSync, rows, history
<1>2. \A r \in Syncs \ {s} : sync'[r] = sync[r]
  BY <1>0 DEF SyncStep, StartSync, MarkExpired, ClaimSlot, ReadBuckets, FetchBucket,
     FetchFails, RereadBuckets, FinishSync, FailSync
<1>3. ASSUME NEW a \in Accounts, NEW t \in Time, t <= clock, Vouched(a, t)
      PROVE  Vouched(a, t)'
  BY <1>3, StaysVouched
<1>4. \A r \in Syncs \ {s} : SyncVouches(r)'
  BY <1>1, <1>2, SyncUndisturbed
<1>5. \A p, a : Clears(p, a)' = Clears(p, a)
  BY <1>1 DEF Clears
<1>6. SyncVouches(s)
  BY DEF VouchInv
<1>7. ASSUME \A c \in Conns : conn'[c].cursor = conn[c].cursor,
             \A c \in Conns : Live(c) => Live(c)',
             \/ sync'[s].at = sync[s].at /\ sync'[s].cursor = sync[s].cursor
             \/ sync'[s].at = None /\ sync'[s].cursor = None,
             SyncVouches(s)'
      PROVE  VouchInv'
  <2>1. LinksLive'
    BY <1>1, <1>7, LinksUndisturbed DEF VouchInv
  <2>2. NotAhead'
    <3>1. clock <= clock'
      BY <1>0, <1>1
    <3> QED BY <1>2, <1>7, <3>1, ClockUndisturbed DEF VouchInv
  <2>3. CursorVouches'
    BY <1>1, <1>5, <1>7, CursorsUndisturbed
  <2> QED BY <1>4, <1>7, <2>1, <2>2, <2>3 DEF VouchInv
<1>8. ASSUME NEW c \in Conns, NEW force \in Forces, StartSync(s, c, force) PROVE VouchInv'
  <2>1. /\ conn' = conn /\ UNCHANGED <<booking, stored>>
        /\ sync'[s].at = clock /\ sync'[s].conn = c /\ sync'[s].cursor = conn[c].cursor
        /\ sync'[s].pc \in {"expire", "read", "claim"}
    BY <1>0, <1>8 DEF StartSync, IdleSync, rows
  <2>2. LinksLive'
    BY <1>1, <2>1, LinksUndisturbed DEF VouchInv, Live
  <2>3. NotAhead'
    <3>1. ASSUME NEW d \in Conns, NEW t \in Time, conn'[d].cursor = t PROVE t <= clock'
      BY <1>1, <2>1, <3>1 DEF VouchInv, NotAhead
    <3>2. ASSUME NEW r \in Syncs \ {s}, NEW t \in Time, t \in {sync'[r].at, sync'[r].cursor}
          PROVE  t <= clock'
      BY <1>1, <1>2, <3>2 DEF VouchInv, NotAhead
    <3>3. ASSUME NEW t \in Time, t \in {sync'[s].at, sync'[s].cursor} PROVE t <= clock'
      <4>1. CASE t = clock
        BY <1>0, <1>1, <4>1
      <4>2. CASE t = conn[c].cursor
        BY <1>1, <4>2 DEF VouchInv, NotAhead
      <4> QED BY <2>1, <3>3, <4>1, <4>2
    <3> QED BY <3>1, <3>2, <3>3 DEF NotAhead
  <2>4. CursorVouches'
    BY <1>1, <1>5, <2>1, CursorsUndisturbed
  <2>5. SyncVouches(s)'
    <3> SUFFICES ASSUME c \notin raced', NEW a \in Accounts, NEW t \in Time,
                        sync'[s].cursor = t, link[a] = c
                 PROVE  Vouched(a, t)'
      BY <1>1, <2>1 DEF SyncVouches
    <3>1. ~\E p \in Callbacks : callback[p].conn = c /\ ClearPending(p)
      BY <1>8 DEF StartSync
    <3>2. ~\E p \in Callbacks : callback[p].conn = c /\ Clears(p, a)
      BY <3>1 DEF Clears, ClearPending, Linked
    <3>3. c \notin raced /\ conn[c].cursor = t
      BY <1>1, <2>1
    <3>4. Vouched(a, t) /\ t <= clock
      BY <3>2, <3>3 DEF VouchInv, CursorVouches, NotAhead
    <3> QED BY <1>3, <3>4
  <2> QED BY <1>4, <2>2, <2>3, <2>4, <2>5 DEF VouchInv
<1>9. CASE MarkExpired(s)
  <2>1. sync'[s] = IdleSync
    BY <1>0, <1>9 DEF MarkExpired
  <2>2. \A d \in Conns : conn'[d].cursor = conn[d].cursor /\ conn'[d].phase = conn[d].phase
    BY <1>0, <1>9 DEF MarkExpired, Connection
  <2>3. SyncVouches(s)'
    BY <2>1 DEF IdleSync, SyncVouches
  <2> QED BY <1>7, <2>1, <2>2, <2>3 DEF IdleSync, Live
<1>10. CASE ClaimSlot(s)
  <2>1. CASE SlotMatches(s, sync[s].conn)
    <3>1. sync' = [sync EXCEPT ![s] = [sync[s] EXCEPT !.pc = "read"]]
          /\ conn' = [conn EXCEPT ![sync[s].conn].lastSyncAt = sync[s].at]
      BY <1>10, <2>1 DEF ClaimSlot
    <3>2. sync'[s] = [sync[s] EXCEPT !.pc = "read"]
      BY <1>0, <3>1
    <3>3. /\ sync'[s].pc = "read" /\ sync'[s].conn = sync[s].conn
          /\ sync'[s].at = sync[s].at /\ sync'[s].cursor = sync[s].cursor
      BY <1>0, <3>2 DEF SyncLocals
    <3>4. \A d \in Conns : conn'[d].cursor = conn[d].cursor /\ conn'[d].phase = conn[d].phase
      BY <1>0, <3>1 DEF Connection
    <3>5. SyncVouches(s)'
      <4> SUFFICES ASSUME sync[s].conn \notin raced, NEW a \in Accounts, NEW t \in Time,
                          sync[s].cursor = t, link[a] = sync[s].conn
                   PROVE  Vouched(a, t)'
        BY <1>1, <3>3 DEF SyncVouches
      <4>1. Vouched(a, t)
        BY <1>6, <1>10 DEF SyncVouches, ClaimSlot
      <4>2. t <= clock
        BY DEF VouchInv, NotAhead
      <4> QED BY <1>3, <4>1, <4>2
    <3> QED BY <1>7, <3>3, <3>4, <3>5 DEF Live
  <2>2. CASE ~SlotMatches(s, sync[s].conn)
    <3>1. sync'[s] = IdleSync /\ conn' = conn
      BY <1>0, <1>10, <2>2 DEF ClaimSlot
    <3>2. SyncVouches(s)'
      BY <3>1 DEF IdleSync, SyncVouches
    <3> QED BY <1>7, <3>1, <3>2 DEF IdleSync, Live
  <2> QED BY <2>1, <2>2
<1>11. CASE ReadBuckets(s)
  <2>1. sync'[s] = [sync[s] EXCEPT !.pc = "fetch", !.todo = Linked(sync[s].conn),
                                   !.fetched = Linked(sync[s].conn)] /\ conn' = conn
    BY <1>0, <1>11 DEF ReadBuckets, rows
  <2>2. /\ sync'[s].pc = "fetch" /\ sync'[s].conn = sync[s].conn
        /\ sync'[s].at = sync[s].at /\ sync'[s].cursor = sync[s].cursor
        /\ sync'[s].todo = Linked(sync[s].conn) /\ sync'[s].fetched = Linked(sync[s].conn)
    BY <1>0, <2>1 DEF SyncLocals
  <2>3. SyncVouches(s)'
    <3> SUFFICES ASSUME sync[s].conn \notin raced, NEW a \in Accounts, NEW t \in Time,
                        sync[s].cursor = t, a \in Linked(sync[s].conn)
                 PROVE  Vouched(a, t)'
      BY <1>1, <2>2 DEF SyncVouches
    <3>1. link[a] = sync[s].conn
      BY DEF Linked
    <3>2. Vouched(a, t)
      BY <1>6, <1>11, <3>1 DEF SyncVouches, ReadBuckets
    <3>3. t <= clock
      BY DEF VouchInv, NotAhead
    <3> QED BY <1>3, <3>2, <3>3
  <2> QED BY <1>7, <2>1, <2>2, <2>3 DEF Live
<1>12. ASSUME NEW b \in Accounts, FetchBucket(s, b) PROVE VouchInv'
  <2>1. sync'[s] = [sync[s] EXCEPT !.todo = sync[s].todo \ {b}] /\ conn' = conn
    BY <1>0, <1>12 DEF FetchBucket, rows
  <2>2. /\ sync'[s].pc = "fetch" /\ sync'[s].conn = sync[s].conn /\ sync[s].pc = "fetch"
        /\ sync'[s].at = sync[s].at /\ sync'[s].cursor = sync[s].cursor
        /\ sync'[s].todo = sync[s].todo \ {b} /\ sync'[s].fetched = sync[s].fetched
    BY <1>0, <1>12, <2>1 DEF SyncLocals, FetchBucket
  <2>3. SyncVouches(s)'
    <3>1. ASSUME sync[s].conn \notin raced, NEW a \in Accounts, NEW t \in Time,
                 a \in sync[s].fetched, sync[s].cursor = t
          PROVE  Vouched(a, t)'
      <4>1. Vouched(a, t)
        BY <1>6, <2>2, <3>1 DEF SyncVouches
      <4>2. t <= clock
        BY <3>1 DEF VouchInv, NotAhead
      <4> QED BY <1>3, <4>1, <4>2
    <3>2. ASSUME sync[s].conn \notin raced, NEW a \in Accounts, NEW t \in Time,
                 a \in sync[s].fetched, sync[s].at = t, a \notin sync[s].todo \ {b}
          PROVE  Vouched(a, t)'
      <4>1. CASE a \notin sync[s].todo
        <5>1. Vouched(a, t)
          BY <1>6, <2>2, <3>2, <4>1 DEF SyncVouches
        <5>2. t <= clock
          BY <3>2 DEF VouchInv, NotAhead
        <5> QED BY <1>3, <5>1, <5>2
      <4>2. CASE a = b
        <5>1. Vouched(a, sync[s].at)'
          BY <1>12, <3>2, <4>2, FetchVouches
        <5>2. sync'[s].at = t
          BY <2>2, <3>2
        <5> QED BY <5>1, <5>2 DEF Vouched
      <4> QED BY <3>2, <4>1, <4>2
    <3> QED BY <1>1, <2>2, <3>1, <3>2 DEF SyncVouches
  <2> QED BY <1>7, <2>1, <2>2, <2>3 DEF Live
<1>13. ASSUME NEW b \in Accounts, FetchFails(s, b) PROVE VouchInv'
  <2>1. PICK rejected \in BOOLEAN :
            sync' = [sync EXCEPT ![s] = [sync[s] EXCEPT !.pc = "fail", !.rejected = rejected]]
    BY <1>13 DEF FetchFails
  <2>2. sync'[s] = [sync[s] EXCEPT !.pc = "fail", !.rejected = rejected] /\ conn' = conn
    BY <1>0, <1>13, <2>1 DEF FetchFails, rows
  <2>3. sync'[s].pc = "fail" /\ sync'[s].at = sync[s].at /\ sync'[s].cursor = sync[s].cursor
    BY <1>0, <2>2 DEF SyncLocals
  <2>4. SyncVouches(s)'
    BY <2>3 DEF SyncVouches
  <2> QED BY <1>7, <2>2, <2>3, <2>4 DEF Live
<1>14. CASE RereadBuckets(s)
  <2>1. sync'[s] = [sync[s] EXCEPT !.pc = "finish", !.complete = FetchedEveryBucket(s)]
        /\ conn' = conn /\ sync[s].pc = "fetch" /\ sync[s].todo = {}
    BY <1>0, <1>14 DEF RereadBuckets, rows
  <2>2. /\ sync'[s].pc = "finish" /\ sync'[s].conn = sync[s].conn
        /\ sync'[s].at = sync[s].at /\ sync'[s].cursor = sync[s].cursor
        /\ sync'[s].complete = FetchedEveryBucket(s)
    BY <1>0, <2>1 DEF SyncLocals
  <2>3. SyncVouches(s)'
    <3> SUFFICES ASSUME sync[s].conn \notin raced, NEW a \in Accounts, NEW t \in Time,
                        FetchedEveryBucket(s), sync[s].at = t, link[a] = sync[s].conn
                 PROVE  Vouched(a, t)'
      BY <1>1, <2>2 DEF SyncVouches
    <3>1. a \in sync[s].fetched
      BY DEF FetchedEveryBucket, Linked
    <3>2. Vouched(a, t)
      BY <1>6, <2>1, <3>1 DEF SyncVouches
    <3>3. t <= clock
      BY DEF VouchInv, NotAhead
    <3> QED BY <1>3, <3>2, <3>3
  <2> QED BY <1>7, <2>1, <2>2, <2>3 DEF Live
<1>15. CASE FinishSync(s)
  <2> DEFINE c == sync[s].conn
  <2>1. sync'[s] = IdleSync /\ c \in Conns /\ sync[s].pc = "finish" /\ sync[s].at \in Time
        /\ raced' = raced
    BY <1>0, <1>15 DEF FinishSync, SyncSet, history
  <2>2. SyncVouches(s)'
    BY <2>1 DEF IdleSync, SyncVouches
  <2>3. CASE Live(c) /\ sync[s].complete
    <3>1. conn' = [conn EXCEPT ![c] = [conn[c] EXCEPT !.lastSyncAt = sync[s].at,
                                         !.cursor = sync[s].at]]
      BY <1>0, <1>15, <2>1, <2>3 DEF FinishSync, Connection
    <3>2. conn'[c] = [conn[c] EXCEPT !.lastSyncAt = sync[s].at, !.cursor = sync[s].at]
          /\ \A d \in Conns : d # c => conn'[d] = conn[d]
      BY <1>0, <2>1, <3>1
    <3>3. conn'[c].cursor = sync[s].at /\ conn'[c].phase = conn[c].phase
      BY <1>0, <2>1, <3>2 DEF Connection
    <3>4. LinksLive'
      BY <1>1, <3>2, <3>3, LinksUndisturbed DEF VouchInv, Live
    <3>5. NotAhead'
      <4>1. clock <= clock'
        BY <1>0, <1>1
      <4>2. ASSUME NEW d \in Conns
            PROVE  conn'[d].cursor \in {conn[d].cursor, None} \cup {sync[r].at : r \in Syncs}
        <5>1. CASE d = c
          BY <3>3, <5>1
        <5>2. CASE d # c
          BY <3>2, <5>2
        <5> QED BY <5>1, <5>2
      <4>3. sync'[s].at = None /\ sync'[s].cursor = None
        BY <2>1 DEF IdleSync
      <4> QED BY <1>2, <4>1, <4>2, <4>3, ClockUndisturbed DEF VouchInv
    <3>6. CursorVouches'
      <4> SUFFICES ASSUME NEW d \in Conns \ raced, NEW a \in Accounts, NEW t \in Time,
                          link[a] = d, conn'[d].cursor = t
                   PROVE  \/ Vouched(a, t)'
                          \/ \E p \in Callbacks : callback[p].conn = d /\ Clears(p, a)
        BY <1>1, <1>5, <2>1 DEF CursorVouches
      <4>1. CASE d = c
        <5>1. Vouched(a, t) /\ t <= clock
          BY <1>6, <2>1, <2>3, <3>3, <4>1 DEF SyncVouches, VouchInv, NotAhead
        <5> QED BY <1>3, <5>1
      <4>2. CASE d # c
        <5>1. conn[d].cursor = t
          BY <3>2, <4>2
        <5>2. t <= clock
          BY <5>1 DEF VouchInv, NotAhead
        <5> QED BY <1>3, <5>1, <5>2 DEF VouchInv, CursorVouches
      <4> QED BY <4>1, <4>2
    <3> QED BY <1>4, <2>2, <3>4, <3>5, <3>6 DEF VouchInv
  <2>4. CASE ~(Live(c) /\ sync[s].complete)
    <3>1. \/ conn' = conn
          \/ conn' = [conn EXCEPT ![c] = [conn[c] EXCEPT !.lastSyncAt = sync[s].at]]
      BY <1>0, <1>15, <2>1, <2>4 DEF FinishSync, Connection
    <3>2. \A d \in Conns : conn'[d].cursor = conn[d].cursor /\ conn'[d].phase = conn[d].phase
      BY <1>0, <2>1, <3>1 DEF Connection
    <3> QED BY <1>7, <2>1, <2>2, <3>2 DEF IdleSync, Live
  <2> QED BY <2>3, <2>4
<1>16. CASE FailSync(s)
  <2>1. sync'[s] = IdleSync
    BY <1>0, <1>16 DEF FailSync
  <2>2. \A d \in Conns : conn'[d].cursor = conn[d].cursor /\ conn'[d].phase = conn[d].phase
    BY <1>0, <1>16 DEF FailSync, Connection
  <2>3. SyncVouches(s)'
    BY <2>1 DEF IdleSync, SyncVouches
  <2> QED BY <1>7, <2>1, <2>2, <2>3 DEF IdleSync, Live
<1> QED
  BY <1>8, <1>9, <1>10, <1>11, <1>12, <1>13, <1>14, <1>15, <1>16 DEF SyncStep

(* The empty database has no cursor and no link.                           *)
LEMMA VouchInit == Init => VouchInv
<1> SUFFICES ASSUME Init PROVE VouchInv
  OBVIOUS
<1>1. None \notin Time
  BY DEF Time
<1>2. \A c \in Conns : conn[c].cursor = None
  BY DEF Init, NoConnection
<1>3. \A s \in Syncs : sync[s].pc = "idle" /\ sync[s].at = None /\ sync[s].cursor = None
  BY DEF Init, IdleSync
<1>4. LinksLive
  BY DEF Init, LinksLive
<1>5. NotAhead /\ CursorVouches
  BY <1>1, <1>2, <1>3 DEF NotAhead, CursorVouches
<1>6. \A s \in Syncs : SyncVouches(s)
  BY <1>3 DEF SyncVouches
<1> QED BY <1>4, <1>5, <1>6 DEF VouchInv

(* Every step keeps it.                                                    *)
LEMMA VouchNext == TypeInv /\ VouchInv /\ [Next]_vars => VouchInv'
<1> SUFFICES ASSUME TypeInv, VouchInv, [Next]_vars PROVE VouchInv'
  OBVIOUS
<1>1. CASE UNCHANGED vars
  BY <1>1 DEF vars, VouchInv, LinksLive, NotAhead, CursorVouches, SyncVouches, Vouched,
     Clears, Live, LookbackFrom, Day
<1>2. CASE Next
  <2>1. TypeInv'
    BY TypeNext
  <2> QED
    BY <1>2, <2>1, VouchWorld, VouchDelete, VouchRestart, VouchCallback, VouchSync DEF Next
<1> QED BY <1>1, <1>2

(* What the cursor vouches for is what the next window may leave out.      *)
LEMMA VouchSkips == TypeInv /\ VouchInv => NothingSkippedUnlessRaced
<1> SUFFICES ASSUME TypeInv, VouchInv, NEW c \in Conns, Live(c), c \notin raced,
                    NEW k \in Bookings, booking[k] # None, link[booking[k].account] = c,
                    ~\E p \in Callbacks : callback[p].conn = c /\ ClearPending(p)
             PROVE  Reachable(c, k)
  BY DEF NothingSkippedUnlessRaced, NothingSkippedBy
<1> DEFINE a == booking[k].account
           cur == conn[c].cursor
<1>1. /\ a \in Accounts /\ booking[k].day \in Int /\ cur \in Nat \cup {None} /\ clock \in Nat
      /\ None \notin Nat
  BY DEF TypeInv, RowsOK, Connection, Time
<1>2. Day(clock) \in Int /\ (cur # None => Day(cur) \in Int)
  BY <1>1, DayIsInt
<1>3. LookbackFrom(clock, Lookback) \in Int /\ LookbackFrom(clock, DefaultLookback) \in Int
  BY <1>2 DEF LookbackFrom
<1>4. ~\E p \in Callbacks : callback[p].conn = c /\ Clears(p, a)
  BY <1>1 DEF Clears, ClearPending, Linked
<1>5. cur # None => Vouched(a, cur)
  BY <1>1, <1>4 DEF VouchInv, CursorVouches, Time
<1> HIDE DEF cur
<1>6. CASE RangeFrom(cur, clock) = LookbackFrom(clock, Lookback)
  BY <1>1, <1>3, <1>6 DEF Reachable, cur
<1>7. CASE cur # None /\ RangeFrom(cur, clock) = Day(cur) - Overlap
  <2>1. Vouched(a, cur)
    BY <1>5, <1>7
  <2>2. Day(cur) - Overlap \in Int
    BY <1>2, <1>7
  <2>3. RangeFrom(conn[c].cursor, clock) = Day(cur) - Overlap
    BY <1>7 DEF cur
  <2> SUFFICES ASSUME ~Reachable(c, k) PROVE FALSE
    OBVIOUS
  <2>4. /\ k \notin stored
        /\ ~(booking[k].day < LookbackFrom(clock, Lookback))
        /\ ~(booking[k].day < LookbackFrom(clock, DefaultLookback))
        /\ ~(booking[k].day >= Day(cur) - Overlap)
    BY <2>3 DEF Reachable
  <2>5. /\ booking[k].day >= LookbackFrom(clock, Lookback)
        /\ booking[k].day >= LookbackFrom(clock, DefaultLookback)
        /\ booking[k].day < Day(cur) - Overlap
    BY <1>1, <1>3, <2>2, <2>4
  <2> QED BY <2>1, <2>4, <2>5 DEF Vouched
<1> QED BY <1>6, <1>7 DEF RangeFrom

(* No booking of a linked bucket falls behind the fetch cursor unfetched,  *)
(* whatever the number of connections, syncs and consents in flight and    *)
(* whenever the server stops, outside the named races: what the overlap,   *)
(* the second read of the buckets, the clear by a renewal and the cursor a *)
(* failed sync leaves alone are there for (service.ts:391-396, 655-663).   *)
THEOREM NothingFallsBehind == Spec => []NothingSkippedUnlessRaced
BY VouchInit, VouchNext, VouchSkips, TypeAlways, PTL DEF Spec
=============================================================================
