------------------------------ MODULE BankSync ------------------------------
(***************************************************************************)
(* One member's bank connections: the consent callback that creates or     *)
(* renews one and attaches its buckets, the sync that imports the bookings *)
(* of every bucket and moves the fetch cursor, the deletion, and a restart *)
(* of the server between any two statements                                *)
(* (src/lib/server/banking/sync/service.ts, import/persist.ts).            *)
(*                                                                         *)
(* Every database statement is one step: the code holds no transaction     *)
(* across an await except in deleteBankConnection.  A booking is a model   *)
(* value with an account and a calendar day; amounts, names, credentials   *)
(* and the columns only a screen reads (lastSyncStatus, lastSyncError,     *)
(* aspspName) are left out, and the net worth half of the buckets is left  *)
(* out with them.  A bucket is identified with the provider account it     *)
(* holds, which is how resolveImportBucketAccount looks it up first.       *)
(***************************************************************************)
EXTENDS Integers, FiniteSets

CONSTANTS
    Conns,          \* connection ids the database can hand out (a bound)
    Accounts,       \* provider accounts, one bucket each
    Syncs,          \* concurrent calls of syncBankConnection
    Callbacks,      \* concurrent calls of completeBankAuthorization
    Requests,       \* authorization requests ever started (a bound)
    Bookings,       \* bookings ever posted at the bank (a bound)
    None,           \* SQL NULL
    Orphan,         \* a bucket with no connection: bankConnectionId IS NULL
    NoBucket,       \* a provider account no bucket was created for
    TicksPerDay,    \* clock ticks in a calendar day
    Lookback,       \* BANK_SYNC_FIRST_LOOKBACK_DAYS
    DefaultLookback,\* FIRST_SYNC_LOOKBACK_DAYS
    Overlap,        \* RESYNC_OVERLAP_DAYS
    PostDelay,      \* days a booking may reach the bank after its own day
    Throttle,       \* SYNC_MIN_INTERVAL_MS, in ticks
    SlowestSync,    \* ticks a sync may still be running after it started
    ConsentTerms,   \* ticks a consent may last, None when the bank names no end
    RequestTTL,     \* AUTH_REQUEST_TTL_MS, in ticks
    Forces,         \* values of the `force` argument callers pass
    MaxClock        \* where the clock stops (a bound)

ASSUME SentinelAssumption ==
    /\ None \notin Conns \cup Int
    /\ Orphan \notin Conns \cup {None}
    /\ NoBucket \notin Conns \cup {None, Orphan}

ASSUME NumberAssumption ==
    /\ TicksPerDay \in Nat \ {0}
    /\ Lookback \in Nat \ {0}
    /\ DefaultLookback \in Nat \ {0}
    /\ {Overlap, PostDelay, Throttle, SlowestSync, RequestTTL, MaxClock}
          \subseteq Nat
    /\ ConsentTerms \subseteq Nat \cup {None}
    /\ PostDelay <= Overlap

ASSUME ForceAssumption == Forces \subseteq BOOLEAN

VARIABLES
    clock,      \* the server's clock
    conn,       \* BankConnection rows
    link,       \* Account.bankConnectionId, by provider account
    request,    \* BankAuthorizationRequest rows
    booking,    \* what the bank holds: an account and a day, or None
    stored,     \* bookings the ledger holds
    sync,       \* the locals of each call of syncBankConnection
    callback,   \* the locals of each call of completeBankAuthorization
    lastClaim,  \* history: when an unattended sync last passed the throttle
    honoured,   \* history: how often a request was consumed
    raced       \* history: connections hit by one of the races named below

rows    == <<conn, link, request>>
history == <<lastClaim, honoured, raced>>
vars    == <<clock, conn, link, request, booking, stored, sync, callback,
             lastClaim, honoured, raced>>

-----------------------------------------------------------------------------
(* Values                                                                  *)

Time == Nat

Day(t) == t \div TicksPerDay

ConsentEnd(term) == IF term = None THEN None ELSE clock + term

Connection ==
    [phase: {"none", "live", "deleted"}, status: {"active", "expired", "error"},
     consent: Time \cup {None}, lastSyncAt: Time \cup {None},
     cursor: Time \cup {None}]

NoConnection == [phase |-> "none", status |-> "active", consent |-> None,
                 lastSyncAt |-> None, cursor |-> None]

Request == [phase: {"none", "pending", "consumed", "deleted"},
            renews: Conns \cup {None}, expires: Time \cup {None}]

NoRequest == [phase |-> "none", renews |-> None, expires |-> None]

SyncLocals ==
    [pc: {"idle", "expire", "claim", "read", "fetch", "finish", "fail"},
     conn: Conns \cup {None}, at: Time \cup {None},
     lastSyncAt: Time \cup {None}, cursor: Time \cup {None},
     todo: SUBSET Accounts, fetched: SUBSET Accounts,
     complete: BOOLEAN, rejected: BOOLEAN]

IdleSync == [pc |-> "idle", conn |-> None, at |-> None, lastSyncAt |-> None,
             cursor |-> None, todo |-> {}, fetched |-> {},
             complete |-> FALSE, rejected |-> FALSE]

CallbackLocals ==
    [pc: {"idle", "consume", "exchange", "before", "resolve", "attach",
          "clear"},
     request: Requests \cup {None}, conn: Conns \cup {None},
     renewal: BOOLEAN, before: SUBSET Accounts, todo: SUBSET Accounts,
     account: Accounts \cup {None}, relink: BOOLEAN]

IdleCallback == [pc |-> "idle", request |-> None, conn |-> None,
                 renewal |-> FALSE, before |-> {}, todo |-> {},
                 account |-> None, relink |-> FALSE]

Live(c) == conn[c].phase = "live"

(* linkedBucketIds: the buckets a connection feeds.                        *)
Linked(c) == {a \in Accounts : link[a] = c}

(* syncFetchRange: the first day asked for.  A missing or future cursor    *)
(* means the whole lookback, and a cursor never widens the window past it. *)
LookbackFrom(t, days) == Day(t) - (days - 1)

RangeFrom(cursor, t) ==
    IF cursor = None \/ (cursor # None /\ cursor > t)
    THEN LookbackFrom(t, Lookback)
    ELSE IF Day(cursor) - Overlap > LookbackFrom(t, Lookback)
         THEN Day(cursor) - Overlap
         ELSE LookbackFrom(t, Lookback)

(* fetchWithinBankHistory: the window asked for, or the default one when   *)
(* the bank refuses a window that reaches further back than it.            *)
FetchStarts(from, t) ==
    {from} \cup {d \in {LookbackFrom(t, DefaultLookback)} : from < d}

BookingsIn(a, from, to) ==
    {k \in Bookings : /\ booking[k] # None
                      /\ booking[k].account = a
                      /\ booking[k].day \in from .. to}

(* A callback that renewed a connection has attached a bucket and has not  *)
(* yet reached the statement that clears the cursor.                       *)
ClearPending(p) ==
    /\ callback[p].renewal
    /\ callback[p].pc \in {"resolve", "attach", "clear"}
    /\ Linked(callback[p].conn) \ callback[p].before # {}

-----------------------------------------------------------------------------
Init ==
    /\ clock = 0
    /\ conn = [c \in Conns |-> NoConnection]
    /\ link = [a \in Accounts |-> NoBucket]
    /\ request = [q \in Requests |-> NoRequest]
    /\ booking = [k \in Bookings |-> None]
    /\ stored = {}
    /\ sync = [s \in Syncs |-> IdleSync]
    /\ callback = [p \in Callbacks |-> IdleCallback]
    /\ lastClaim = [c \in Conns |-> None]
    /\ honoured = [q \in Requests |-> 0]
    /\ raced = {}

-----------------------------------------------------------------------------
(* The world around the code: time and the bank's own ledger.              *)

Tick ==
    /\ clock < MaxClock
    /\ \A s \in Syncs : sync[s].at # None => clock - sync[s].at < SlowestSync
    /\ clock' = clock + 1
    /\ UNCHANGED <<rows, booking, stored, sync, callback, history>>

Post(k, a, d) ==
    /\ booking[k] = None
    /\ d \in Day(clock) - PostDelay .. Day(clock)
    /\ booking' = [booking EXCEPT ![k] = [account |-> a, day |-> d]]
    /\ UNCHANGED <<clock, rows, stored, sync, callback, history>>

-----------------------------------------------------------------------------
(* startBankAuthorization.  The renewed connection was live when it was    *)
(* looked up; nothing keeps it live until the request row is written.      *)

StartAuthorization(q, renews) ==
    /\ request[q].phase = "none"
    /\ renews # None => conn[renews].phase # "none"
    /\ request' =
         [r \in Requests |->
            IF r = q
            THEN [phase |-> "pending", renews |-> renews,
                  expires |-> clock + RequestTTL]
            ELSE IF request[r].expires # None /\ request[r].expires < clock
                 THEN [request[r] EXCEPT !.phase = "deleted"]
                 ELSE request[r]]
    /\ UNCHANGED <<clock, conn, link, booking, stored, sync, callback, history>>

-----------------------------------------------------------------------------
(* completeBankAuthorization.                                              *)

(* The state is found and is not expired.  Whether it was consumed is not  *)
(* read here.                                                              *)
CallbackFind(p, q) ==
    /\ callback[p].pc = "idle"
    /\ request[q].phase \in {"pending", "consumed"}
    /\ request[q].expires > clock
    /\ callback' = [callback EXCEPT ![p] =
                      [IdleCallback EXCEPT !.pc = "consume", !.request = q]]
    /\ UNCHANGED <<clock, rows, booking, stored, sync, history>>

(* The guarded update: consumedAt is set only where it is still null.      *)
AnyState(q)   == request[q].phase # "deleted"      \* mutant: no guard
Unconsumed(q) == request[q].phase = "pending"

CallbackConsume(p) ==
    LET q == callback[p].request IN
    /\ callback[p].pc = "consume"
    /\ IF Unconsumed(q)
       THEN /\ request' = [request EXCEPT ![q].phase = "consumed"]
            /\ honoured' = [honoured EXCEPT ![q] = @ + 1]
            /\ callback' = [callback EXCEPT ![p] = [@ EXCEPT !.pc = "exchange"]]
       ELSE /\ callback' = [callback EXCEPT ![p] = IdleCallback]
            /\ UNCHANGED <<request, honoured>>
    /\ UNCHANGED <<clock, conn, link, booking, stored, sync, lastClaim, raced>>

(* The provider refuses the exchange: authorization_failed, and the        *)
(* request stays consumed.                                                 *)
ExchangeFails(p) ==
    /\ callback[p].pc = "exchange"
    /\ callback' = [callback EXCEPT ![p] = IdleCallback]
    /\ UNCHANGED <<clock, rows, booking, stored, sync, history>>

(* The exchange succeeds and names the accounts of the consent.  A renewal *)
(* refreshes its connection in place and keeps both timestamps.            *)
RenewConnection(p, accounts, term) ==
    LET q == callback[p].request
        c == request[q].renews
    IN
    /\ callback[p].pc = "exchange"
    /\ c # None
    /\ Live(c)
    /\ conn' = [conn EXCEPT ![c] = [@ EXCEPT !.status = "active",
                                             !.consent = ConsentEnd(term)]]
    /\ callback' = [callback EXCEPT ![p] =
                      [@ EXCEPT !.pc = "before", !.conn = c, !.renewal = TRUE,
                                !.todo = accounts]]
    /\ UNCHANGED <<clock, link, request, booking, stored, sync, history>>

(* A first consent, or one whose target was deleted meanwhile.             *)
CreateConnection(p, c, accounts, term) ==
    LET q == callback[p].request IN
    /\ callback[p].pc = "exchange"
    /\ request[q].renews # None => ~Live(request[q].renews)
    /\ conn[c].phase = "none"
    /\ conn' = [conn EXCEPT ![c] = [NoConnection EXCEPT
                                      !.phase = "live",
                                      !.consent = ConsentEnd(term)]]
    /\ callback' = [callback EXCEPT ![p] =
                      [@ EXCEPT !.pc = "resolve", !.conn = c, !.todo = accounts]]
    /\ UNCHANGED <<clock, link, request, booking, stored, sync, history>>

(* linkedBefore, read for a renewal only.                                  *)
ReadLinkedBefore(p) ==
    /\ callback[p].pc = "before"
    /\ callback' = [callback EXCEPT ![p] =
                      [@ EXCEPT !.pc = "resolve",
                                !.before = Linked(callback[p].conn)]]
    /\ UNCHANGED <<clock, rows, booking, stored, sync, history>>

(* resolveImportBucketAccount, its lookup by provider account: a bucket    *)
(* that carries a connection is left alone, one without, or none at all,   *)
(* is written by the next statement.                                       *)
ResolveBucket(p, a) ==
    /\ callback[p].pc = "resolve"
    /\ a \in callback[p].todo
    /\ LET left == [callback[p] EXCEPT !.todo = @ \ {a}] IN
       callback' =
         [callback EXCEPT ![p] =
            IF link[a] \in Conns
            THEN left
            ELSE [left EXCEPT !.pc = "attach", !.account = a,
                              !.relink = (link[a] = Orphan)]]
    /\ UNCHANGED <<clock, rows, booking, stored, sync, history>>

(* A bucket attached at these moments is one a cursor will vouch for       *)
(* although no sync of it reached far enough back: the sync in flight asks *)
(* for a short window, or for nothing; or nothing will clear the cursor    *)
(* there is, by a consent that is no renewal or by one that had counted    *)
(* the bucket as linked before another connection took it.                 *)
UnsafeAttach(p, c) ==
    \/ \E s \in Syncs :
          /\ sync[s].conn = c
          /\ \/ sync[s].pc = "finish" /\ sync[s].complete
             \/ sync[s].pc \in {"claim", "read"} /\ sync[s].cursor # None
    \/ /\ conn[c].cursor # None
       /\ callback[p].renewal => callback[p].account \in callback[p].before

(* The update that re-links the bucket seen orphaned, by its id alone, or  *)
(* the upsert that creates the bucket and whose empty update leaves one    *)
(* created meanwhile alone.  The foreign key refuses a connection deleted  *)
(* meanwhile: the call throws.                                             *)
AttachBucket(p) ==
    LET a == callback[p].account
        c == callback[p].conn
        written == callback[p].relink \/ link[a] = NoBucket
    IN
    /\ callback[p].pc = "attach"
    /\ IF Live(c)
       THEN /\ link' = IF written THEN [link EXCEPT ![a] = c] ELSE link
            /\ raced' = IF written /\ link[a] # c /\ UnsafeAttach(p, c)
                        THEN raced \cup {c} ELSE raced
            /\ callback' = [callback EXCEPT ![p] =
                              [@ EXCEPT !.pc = "resolve", !.account = None,
                                        !.relink = FALSE]]
       ELSE /\ callback' = [callback EXCEPT ![p] = IdleCallback]
            /\ UNCHANGED <<link, raced>>
    /\ UNCHANGED <<clock, conn, request, booking, stored, sync, lastClaim,
                   honoured>>

(* Every account was resolved.  A renewal reads the linked set again and   *)
(* clears the cursor when a bucket was attached.                           *)
NeverAttached(p)  == FALSE                         \* mutant: before #769
AttachedBucket(p) ==
    /\ callback[p].renewal
    /\ Linked(callback[p].conn) \ callback[p].before # {}

ReadLinkedAfter(p) ==
    /\ callback[p].pc = "resolve"
    /\ callback[p].todo = {}
    /\ callback' =
         [callback EXCEPT ![p] =
            IF AttachedBucket(p)
            THEN [@ EXCEPT !.pc = "clear"]
            ELSE IdleCallback]
    /\ UNCHANGED <<clock, rows, booking, stored, sync, history>>

ClearCursor(p) ==
    LET c == callback[p].conn IN
    /\ callback[p].pc = "clear"
    /\ conn' = IF Live(c) THEN [conn EXCEPT ![c].cursor = None] ELSE conn
    /\ callback' = [callback EXCEPT ![p] = IdleCallback]
    /\ UNCHANGED <<clock, link, request, booking, stored, sync, history>>

(* A statement throws, or the name of a bucket is held by another account: *)
(* what the callback wrote stays, and what it had left to do is lost.      *)
CallbackThrows(p) ==
    /\ callback[p].pc \in {"before", "resolve", "attach", "clear"}
    /\ callback' = [callback EXCEPT ![p] = IdleCallback]
    /\ raced' = IF ClearPending(p) THEN raced \cup {callback[p].conn} ELSE raced
    /\ UNCHANGED <<clock, rows, booking, stored, sync, lastClaim, honoured>>

-----------------------------------------------------------------------------
(* syncBankConnection.                                                     *)

Lapsed(c) == conn[c].consent # None /\ conn[c].consent <= clock

Throttled(c, force) ==
    /\ ~force
    /\ conn[c].lastSyncAt # None
    /\ clock - conn[c].lastSyncAt < Throttle

(* The connection is read once; what follows uses that row.  A call        *)
(* refused here (unavailable, throttled) changes nothing and is no step.   *)
StartSync(s, c, force) ==
    /\ sync[s].pc = "idle"
    /\ Live(c)
    /\ conn[c].status # "expired"
    /\ Lapsed(c) \/ ~Throttled(c, force)
    /\ sync' = [sync EXCEPT ![s] =
                  [IdleSync EXCEPT
                     !.pc = IF Lapsed(c) THEN "expire"
                            ELSE IF force THEN "read" ELSE "claim",
                     !.conn = c, !.at = clock,
                     !.lastSyncAt = conn[c].lastSyncAt,
                     !.cursor = conn[c].cursor]]
    /\ raced' = IF \E p \in Callbacks : callback[p].conn = c /\ ClearPending(p)
                THEN raced \cup {c} ELSE raced
    /\ UNCHANGED <<clock, rows, booking, stored, callback, lastClaim, honoured>>

MarkExpired(s) ==
    LET c == sync[s].conn IN
    /\ sync[s].pc = "expire"
    /\ conn' = IF Live(c) THEN [conn EXCEPT ![c].status = "expired"] ELSE conn
    /\ sync' = [sync EXCEPT ![s] = IdleSync]
    /\ UNCHANGED <<clock, link, request, booking, stored, callback, history>>

(* The guarded update that claims the throttle slot: it matches only while *)
(* lastSyncAt is the value that was read.                                  *)
RowThere(s, c)  == Live(c)                         \* mutant: no compare
SlotMatches(s, c) == Live(c) /\ conn[c].lastSyncAt = sync[s].lastSyncAt

ClaimSlot(s) ==
    LET c == sync[s].conn IN
    /\ sync[s].pc = "claim"
    /\ IF SlotMatches(s, c)
       THEN /\ conn' = [conn EXCEPT ![c].lastSyncAt = sync[s].at]
            /\ lastClaim' = [lastClaim EXCEPT ![c] = sync[s].at]
            /\ sync' = [sync EXCEPT ![s] = [@ EXCEPT !.pc = "read"]]
       ELSE /\ sync' = [sync EXCEPT ![s] = IdleSync]
            /\ UNCHANGED <<conn, lastClaim>>
    /\ UNCHANGED <<clock, link, request, booking, stored, callback, honoured,
                   raced>>

ReadBuckets(s) ==
    LET linked == Linked(sync[s].conn) IN
    /\ sync[s].pc = "read"
    /\ sync' = [sync EXCEPT ![s] =
                  [@ EXCEPT !.pc = "fetch", !.todo = linked,
                            !.fetched = linked]]
    /\ UNCHANGED <<clock, rows, booking, stored, callback, history>>

(* One bucket fetched over the window and written to the ledger.           *)
FetchBucket(s, a) ==
    LET at == sync[s].at IN
    /\ sync[s].pc = "fetch"
    /\ a \in sync[s].todo
    /\ \E from \in FetchStarts(RangeFrom(sync[s].cursor, at), at) :
          stored' = stored \cup BookingsIn(a, from, Day(at))
    /\ sync' = [sync EXCEPT ![s] = [sync[s] EXCEPT !.todo = @ \ {a}]]
    /\ UNCHANGED <<clock, rows, booking, callback, history>>

(* The fetch or the write throws; what landed of the bucket stays.         *)
FetchFails(s, a) ==
    LET at == sync[s].at IN
    /\ sync[s].pc = "fetch"
    /\ a \in sync[s].todo
    /\ \E from \in FetchStarts(RangeFrom(sync[s].cursor, at), at) :
          \E landed \in SUBSET BookingsIn(a, from, Day(at)),
             rejected \in BOOLEAN :
             /\ rejected => landed = {}
             /\ stored' = stored \cup landed
             /\ sync' = [sync EXCEPT ![s] =
                           [@ EXCEPT !.pc = "fail", !.rejected = rejected]]
    /\ UNCHANGED <<clock, rows, booking, callback, history>>

(* linkedNow: is the set the connection feeds still the set fetched?       *)
NoSecondRead(s)       == TRUE                      \* mutant: before #769
FetchedEveryBucket(s) == Linked(sync[s].conn) \subseteq sync[s].fetched

RereadBuckets(s) ==
    /\ sync[s].pc = "fetch"
    /\ sync[s].todo = {}
    /\ sync' = [sync EXCEPT ![s] =
                  [@ EXCEPT !.pc = "finish",
                            !.complete = FetchedEveryBucket(s)]]
    /\ UNCHANGED <<clock, rows, booking, stored, callback, history>>

(* The last statement of the try.  On a deleted connection it throws, and  *)
(* so does the update of the catch.                                        *)
FinishSync(s) ==
    LET c == sync[s].conn IN
    /\ sync[s].pc = "finish"
    /\ conn' = IF Live(c)
               THEN [conn EXCEPT ![c] =
                       [conn[c] EXCEPT
                                 !.lastSyncAt = sync[s].at,
                                 !.cursor = IF sync[s].complete
                                            THEN sync[s].at ELSE @]]
               ELSE conn
    /\ sync' = [sync EXCEPT ![s] = IdleSync]
    /\ UNCHANGED <<clock, link, request, booking, stored, callback, history>>

(* The catch: the attempt is recorded, the cursor is not touched.  A 401   *)
(* or 403 marks the connection, anything else leaves its status.           *)
RejectedAsRevoked(status, rejected) ==             \* mutant: wrong status
    IF rejected THEN "revoked" ELSE status

StatusAfterFailure(status, rejected) ==
    IF rejected THEN "error" ELSE status

FailSync(s) ==
    LET c == sync[s].conn IN
    /\ sync[s].pc = "fail"
    /\ conn' = IF Live(c)
               THEN [conn EXCEPT ![c] =
                       [conn[c] EXCEPT
                                 !.lastSyncAt = sync[s].at,
                                 !.status =
                                    StatusAfterFailure(@, sync[s].rejected)]]
               ELSE conn
    /\ sync' = [sync EXCEPT ![s] = IdleSync]
    /\ UNCHANGED <<clock, link, request, booking, stored, callback, history>>

-----------------------------------------------------------------------------
(* deleteBankConnection: one transaction; the foreign key leaves the       *)
(* buckets behind as orphans.                                              *)
DeleteConnection(c) ==
    /\ Live(c)
    /\ conn' = [conn EXCEPT ![c] = [NoConnection EXCEPT !.phase = "deleted"]]
    /\ link' = [a \in Accounts |-> IF link[a] = c THEN Orphan ELSE link[a]]
    /\ UNCHANGED <<clock, request, booking, stored, sync, callback, history>>

(* The server stops between two statements: every call in flight is gone,  *)
(* every row written stays.                                                *)
Restart ==
    /\ \/ \E s \in Syncs : sync[s].pc # "idle"
       \/ \E p \in Callbacks : callback[p].pc # "idle"
    /\ sync' = [s \in Syncs |-> IdleSync]
    /\ callback' = [p \in Callbacks |-> IdleCallback]
    /\ raced' = raced \cup {callback[p].conn : p \in {q \in Callbacks : ClearPending(q)}}
    /\ UNCHANGED <<clock, rows, booking, stored, lastClaim, honoured>>

-----------------------------------------------------------------------------
SyncStep(s) ==
    \/ \E c \in Conns, force \in Forces : StartSync(s, c, force)
    \/ MarkExpired(s)
    \/ ClaimSlot(s)
    \/ ReadBuckets(s)
    \/ \E a \in Accounts : FetchBucket(s, a) \/ FetchFails(s, a)
    \/ RereadBuckets(s)
    \/ FinishSync(s)
    \/ FailSync(s)

CallbackStep(p) ==
    \/ \E q \in Requests : CallbackFind(p, q)
    \/ CallbackConsume(p)
    \/ ExchangeFails(p)
    \/ \E accounts \in SUBSET Accounts, term \in ConsentTerms :
          \/ RenewConnection(p, accounts, term)
          \/ \E c \in Conns : CreateConnection(p, c, accounts, term)
    \/ ReadLinkedBefore(p)
    \/ \E a \in Accounts : ResolveBucket(p, a)
    \/ AttachBucket(p)
    \/ ReadLinkedAfter(p)
    \/ ClearCursor(p)
    \/ CallbackThrows(p)

Next ==
    \/ Tick
    \/ \E k \in Bookings, a \in Accounts, d \in Day(clock) - PostDelay .. Day(clock) :
          Post(k, a, d)
    \/ \E q \in Requests, renews \in Conns \cup {None} :
          StartAuthorization(q, renews)
    \/ \E p \in Callbacks : CallbackStep(p)
    \/ \E s \in Syncs : SyncStep(s)
    \/ \E c \in Conns : DeleteConnection(c)
    \/ Restart

Spec == Init /\ [][Next]_vars
-----------------------------------------------------------------------------
(* Properties.                                                             *)

(* Type invariant: every row and every local is of its shape.              *)
TypeOK ==
    /\ clock \in 0 .. MaxClock
    /\ conn \in [Conns -> Connection]
    /\ link \in [Accounts -> Conns \cup {Orphan, NoBucket}]
    /\ request \in [Requests -> Request]
    /\ booking \in [Bookings -> [account: Accounts, day: Int] \cup {None}]
    /\ stored \in SUBSET Bookings
    /\ sync \in [Syncs -> SyncLocals]
    /\ callback \in [Callbacks -> CallbackLocals]
    /\ lastClaim \in [Conns -> Time \cup {None}]
    /\ honoured \in [Requests -> Nat]
    /\ raced \in SUBSET Conns

(* A booking the bank holds for a bucket of a connection, recent enough to *)
(* be in any window the app asks for, is either in the ledger or inside    *)
(* the window the next sync of that connection will ask for.               *)
Reachable(c, k) ==
    \/ k \in stored
    \/ booking[k].day < LookbackFrom(clock, Lookback)
    \/ booking[k].day < LookbackFrom(clock, DefaultLookback)
    \/ booking[k].day >= RangeFrom(conn[c].cursor, clock)

NothingSkippedBy(c) ==
    \A k \in Bookings :
       booking[k] # None /\ link[booking[k].account] = c
          => \/ Reachable(c, k)
             \/ \E p \in Callbacks :
                   /\ callback[p].conn = c
                   /\ ClearPending(p)

(* No booking of a linked bucket falls behind the fetch cursor without     *)
(* having been fetched, unless a renewal is about to clear that cursor:    *)
(* the cursor vouches for every bucket of its connection (the claim of the *)
(* comments at service.ts:391-396 and 655-663 and of schema.prisma:361).   *)
NothingSkipped == \A c \in Conns : Live(c) => NothingSkippedBy(c)

(* The same, for every connection outside the races `raced` records: an    *)
(* attach between a sync's read of the cursor and its read of the buckets, *)
(* or between its second read of the buckets and its write of the cursor;  *)
(* an attach that no clear follows, by a first consent after a sync or by  *)
(* a renewal whose bucket was taken and given back since it read the set;  *)
(* a sync started, or a callback lost, between an attach and the clear.    *)
(* What remains is what the overlap, the second read, the clear and the    *)
(* untouched cursor of a failed sync are there for.                        *)
NothingSkippedUnlessRaced ==
    \A c \in Conns : Live(c) /\ c \notin raced => NothingSkippedBy(c)

(* An authorization request is honoured at most once, whatever the number  *)
(* of concurrent replays of its callback (service.ts:305-311).             *)
HonouredOnce == \A q \in Requests : honoured[q] <= 1

(* Two unattended syncs of a connection that pass the throttle started at  *)
(* least the throttle interval apart, however their statements interleave  *)
(* (service.ts:541-560), as long as no sync outlives the interval.         *)
OneUnattendedSyncPerInterval ==
    [][\A s \in Syncs :
          LET c == sync[s].conn IN
          sync[s].pc = "claim" /\ sync'[s].pc = "read" /\ lastClaim[c] # None
             => sync[s].at - lastClaim[c] >= Throttle]_vars

(* A connection is left unusable, status expired, only when the consent it *)
(* stores has lapsed: a renewal restores it (service.ts:327-338).          *)
ExpiredMeansLapsed ==
    \A c \in Conns : Live(c) /\ conn[c].status = "expired" => Lapsed(c)
=============================================================================
