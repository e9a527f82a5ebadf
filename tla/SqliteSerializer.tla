------------------------- MODULE SqliteSerializer --------------------------
(***************************************************************************)
(* The lock that keeps base queries out of an open transaction on the one  *)
(* SQLite connection (src/lib/server/database/serializedSqliteAdapter.ts). *)
(*                                                                         *)
(* A call is one base query or one transaction, made once.  The steps of a *)
(* call are what runs between two awaits.  The connection and the driver's *)
(* private mutex are external, modelled from how the decorator uses them,  *)
(* and so is Prisma's client, which opens, drives and closes transactions. *)
(* A write is a pair of a call and a number; savepoints, the answers' rows *)
(* and the disposal of the connection are left out.                        *)
(***************************************************************************)
EXTENDS Integers

CONSTANTS
    Queries,        \* base queries: queryRaw, executeRaw, executeScript
    Txs,            \* transactions
    None,           \* no call
    Failed,         \* the answer of a call that threw
    MaxStatements   \* statements of a transaction (a bound)

Calls == Queries \cup Txs

ASSUME CallAssumption ==
    /\ Queries \cap Txs = {}
    /\ None \notin Calls

ASSUME StatementAssumption == MaxStatements \in Nat \ {0}

VARIABLES
    pc,             \* where each call is
    ticket,         \* its place in the promise chain, 0 before it acquires
    arrivals,       \* holds taken so far
    settled,        \* the calls whose hold is released
    awaits,         \* the base query a transaction's callback waits for
    open,           \* the connection is inside BEGIN
    mutex,          \* who took the driver's private mutex
    pending,        \* writes made inside the open transaction
    durable,        \* writes kept
    made,           \* statements each call made
    seen,           \* the writes of others its first statement saw
    told            \* what each call is answered

connection == <<open, pending, durable>>
vars == <<pc, ticket, arrivals, settled, awaits, open, mutex, pending, durable,
          made, seen, told>>

-----------------------------------------------------------------------------
Writes(c) == {c} \X (1 .. MaxStatements)

Written(c) == {c} \X (1 .. made[c])

View == durable \cup pending

(* `previous` of the hold has resolved: every earlier hold is released.    *)
BaseQueriesPass(c) ==                              \* mutant: the bare driver
    \/ c \in Queries
    \/ \A d \in Calls : ticket[d] \in 1 .. ticket[c] - 1 => d \in settled
MyTurn(c) ==
    \A d \in Calls : ticket[d] \in 1 .. ticket[c] - 1 => d \in settled

(* The transactions whose close has begun: the flag `closed`.              *)
Closed(t) == pc[t] \in {"ended", "closing", "closed"}

Over(c) == pc[c] \in {"done", "closed"}

(* `firstClose` of rollback().                                             *)
EveryClose(t) == TRUE                              \* mutant: no closed flag
NoClose(t)    == FALSE                             \* mutant: trusts Prisma
FirstClose(t) == ~Closed(t)

(* The hold settles its own promise; settling again does nothing.          *)
ReleaseCurrent(c) ==                               \* mutant: a shared release
    settled \cup {d \in Calls : ticket[d] > 0 /\ MyTurn(d)}
Release(c) == settled \cup {c}

(* The mutex is freed by the transaction that holds it, and only once.     *)
Unlocked(t) == IF mutex = t THEN None ELSE mutex

-----------------------------------------------------------------------------
Init ==
    /\ pc = [c \in Calls |-> "idle"]
    /\ ticket = [c \in Calls |-> 0]
    /\ arrivals = 0
    /\ settled = {}
    /\ awaits = [t \in Txs |-> None]
    /\ open = FALSE
    /\ mutex = None
    /\ pending = {}
    /\ durable = {}
    /\ made = [c \in Calls |-> 0]
    /\ seen = [c \in Calls |-> {}]
    /\ told = [c \in Calls |-> "nothing"]

Goto(c, place) == pc' = [pc EXCEPT ![c] = place]

Tell(c, what) == told' = [told EXCEPT ![c] = what]

(* One write of c through the connection.                                  *)
Write(c) ==
    /\ made' = [made EXCEPT ![c] = made[c] + 1]
    /\ seen' = [seen EXCEPT ![c] = IF made[c] = 0 THEN View ELSE seen[c]]
    /\ IF open
       THEN pending' = pending \cup {<<c, made[c] + 1>>} /\ UNCHANGED durable
       ELSE durable' = durable \cup {<<c, made[c] + 1>>} /\ UNCHANGED pending
    /\ UNCHANGED open

-----------------------------------------------------------------------------
(* The lock.                                                               *)

TakeTicket(c) ==
    /\ pc[c] = "idle"
    /\ Goto(c, "waiting")
    /\ arrivals' = arrivals + 1
    /\ ticket' = [ticket EXCEPT ![c] = arrivals + 1]
    /\ UNCHANGED <<settled, mutex, connection, made, seen, told>>

Arrive(c) ==
    /\ TakeTicket(c)
    /\ UNCHANGED awaits

(* A transaction's callback uses the global client and waits for it.       *)
ArriveInside(q, t) ==
    /\ pc[t] = "open"
    /\ awaits[t] = None
    /\ TakeTicket(q)
    /\ awaits' = [awaits EXCEPT ![t] = q]

Acquire(c) ==
    /\ pc[c] = "waiting"
    /\ MyTurn(c)
    /\ Goto(c, "held")
    /\ UNCHANGED <<ticket, arrivals, settled, awaits, mutex, connection, made,
                   seen, told>>

(* The end of a call: exclusive's finally, the catch of startTransaction,  *)
(* and the finally of commit() and rollback().                             *)
KeepHold(t) == settled                             \* mutant: no release
Caught(t) == Release(t)

Leave(c) ==
    /\ pc[c] \in {"ran", "closing", "refused"}
    /\ settled' = IF pc[c] = "refused" THEN Caught(c) ELSE Release(c)
    /\ Goto(c, IF pc[c] = "closing" THEN "closed" ELSE "done")
    /\ UNCHANGED <<ticket, arrivals, awaits, mutex, connection, made, seen, told>>

-----------------------------------------------------------------------------
(* A base query, which reads and writes; or throws (SQLITE_BUSY).          *)

RunQuery(q) ==
    /\ pc[q] = "held"
    /\ Goto(q, "ran")
    /\ Tell(q, "kept")
    /\ Write(q)
    /\ UNCHANGED <<ticket, arrivals, settled, awaits, mutex>>

QueryThrows(q) ==
    /\ pc[q] = "held"
    /\ Goto(q, "ran")
    /\ Tell(q, "failed")
    /\ UNCHANGED <<ticket, arrivals, settled, awaits, mutex, connection, made,
                   seen>>
-----------------------------------------------------------------------------
(* A transaction.                                                          *)

(* The driver refuses the isolation level, before its mutex.               *)
RefuseLevel(t) ==
    /\ pc[t] = "held"
    /\ Goto(t, "refused")
    /\ Tell(t, "failed")
    /\ UNCHANGED <<ticket, arrivals, settled, awaits, mutex, connection, made,
                   seen>>

(* The driver takes its mutex, then runs BEGIN, which fails inside another *)
(* transaction and leaves the mutex taken.                                 *)
Begin(t) ==
    /\ pc[t] = "held"
    /\ mutex = None
    /\ mutex' = t
    /\ open' = TRUE
    /\ Goto(t, IF open THEN "refused" ELSE "open")
    /\ Tell(t, IF open THEN "failed" ELSE "nothing")
    /\ UNCHANGED <<ticket, arrivals, settled, awaits, pending, durable, made,
                   seen>>

(* The callback is not waiting for a base query.                           *)
CallbackRuns(t) ==
    /\ pc[t] = "open"
    /\ awaits[t] # None => Over(awaits[t])

Statement(t) ==
    /\ CallbackRuns(t)
    /\ made[t] < MaxStatements
    /\ Write(t)
    /\ UNCHANGED <<pc, ticket, arrivals, settled, awaits, mutex, told>>

(* Prisma sends COMMIT; an empty transaction has nothing to commit.        *)
Commit(t) ==
    /\ CallbackRuns(t)
    /\ made[t] > 0
    /\ IF open
       THEN /\ Goto(t, "committed")
            /\ Tell(t, "kept")
            /\ open' = FALSE
            /\ durable' = durable \cup pending
            /\ pending' = {}
       ELSE Goto(t, "uncommitted") /\ Tell(t, "failed") /\ UNCHANGED connection
    /\ UNCHANGED <<ticket, arrivals, settled, awaits, mutex, made, seen>>

(* COMMIT throws: the transaction stays open (SQLITE_BUSY), or is gone (an *)
(* input/output error).                                                    *)
CommitThrows(t) ==
    /\ CallbackRuns(t)
    /\ Goto(t, "uncommitted")
    /\ Tell(t, "failed")
    /\ \/ UNCHANGED connection
       \/ open' = FALSE /\ pending' = {} /\ UNCHANGED durable
    /\ UNCHANGED <<ticket, arrivals, settled, awaits, mutex, made, seen>>

(* The callback threw, or its transaction timed out whatever it waits for: *)
(* Prisma sends ROLLBACK.                                                  *)
RollBack(t) ==
    /\ pc[t] = "open"
    /\ Goto(t, "uncommitted")
    /\ Tell(t, "failed")
    /\ open' = FALSE
    /\ pending' = {}
    /\ UNCHANGED <<durable, ticket, arrivals, settled, awaits, mutex, made, seen>>

(* commit(): the driver frees its mutex.                                   *)
CloseCommitted(t) ==
    /\ pc[t] = "committed"
    /\ Goto(t, "closing")
    /\ mutex' = Unlocked(t)
    /\ UNCHANGED <<ticket, arrivals, settled, awaits, connection, made, seen, told>>

(* rollback() sends its own ROLLBACK on the first close; on a connection   *)
(* outside a transaction it does nothing.                                  *)
SendRollback(t) ==
    /\ UNCHANGED durable
    /\ IF FirstClose(t)
       THEN open' = FALSE /\ pending' = {}
       ELSE UNCHANGED <<open, pending>>

CloseRolledBack(t) ==
    /\ pc[t] = "uncommitted"
    /\ Goto(t, "ended")
    /\ SendRollback(t)
    /\ UNCHANGED <<ticket, arrivals, settled, awaits, mutex, made, seen, told>>

UnlockRolledBack(t) ==
    /\ pc[t] = "ended"
    /\ Goto(t, "closing")
    /\ mutex' = Unlocked(t)
    /\ UNCHANGED <<ticket, arrivals, settled, awaits, connection, made, seen, told>>

(* A second close, at any time after the first began, in one step: all     *)
(* that is left of it reaches no other call.                               *)
CloseAgain(t) ==
    /\ Closed(t)
    /\ SendRollback(t)
    /\ mutex' = Unlocked(t)
    /\ settled' = Release(t)
    /\ UNCHANGED <<pc, ticket, arrivals, awaits, made, seen, told>>

-----------------------------------------------------------------------------
(* What a call does of itself once it waits for the hold.                  *)
QueryStep(q) ==
    \/ Acquire(q)
    \/ RunQuery(q)
    \/ QueryThrows(q)
    \/ Leave(q)

(* RollBack is the transaction's timeout, so none stays open for ever.     *)
TxStep(t) ==
    \/ Acquire(t)
    \/ RefuseLevel(t)
    \/ Begin(t)
    \/ Commit(t)
    \/ CommitThrows(t)
    \/ RollBack(t)
    \/ CloseCommitted(t)
    \/ CloseRolledBack(t)
    \/ UnlockRolledBack(t)
    \/ Leave(t)

Next ==
    \/ \E c \in Calls : Arrive(c)
    \/ \E q \in Queries : QueryStep(q)
    \/ \E q \in Queries, t \in Txs : ArriveInside(q, t)
    \/ \E t \in Txs : \/ TxStep(t)
                       \/ Statement(t)
                       \/ CloseAgain(t)

Spec == Init /\ [][Next]_vars

Fairness ==
    /\ \A q \in Queries : WF_vars(QueryStep(q))
    /\ \A t \in Txs : WF_vars(TxStep(t))

LiveSpec == Spec /\ Fairness
-----------------------------------------------------------------------------
(* Properties.                                                             *)

Places == {"idle", "waiting", "held", "ran", "refused", "open", "committed",
           "uncommitted", "ended", "closing", "done", "closed"}

(* Type invariant.                                                         *)
TypeOK ==
    /\ pc \in [Calls -> Places]
    /\ ticket \in [Calls -> Nat]
    /\ arrivals \in Nat
    /\ settled \subseteq Calls
    /\ awaits \in [Txs -> Queries \cup {None}]
    /\ open \in BOOLEAN
    /\ mutex \in Txs \cup {None}
    /\ pending \subseteq Calls \X (1 .. MaxStatements)
    /\ durable \subseteq Calls \X (1 .. MaxStatements)
    /\ made \in [Calls -> 0 .. MaxStatements]
    /\ seen \in [Calls -> SUBSET (Calls \X (1 .. MaxStatements))]
    /\ told \in [Calls -> {"nothing", "kept", "failed"}]

(* Whoever gets the connection gets it outside a transaction: nobody can   *)
(* join one that is dead, and no BEGIN fails with the driver's mutex taken *)
(* (162-170).                                                              *)
CleanHandover ==
    \A c \in Calls : pc[c] = "held" => ~open /\ mutex = None

(* Every call is answered in the end, even when a transaction waits for a  *)
(* query that waits for it: its timeout rolls it back (47-54).             *)
EveryoneServed == \A c \in Calls : pc[c] = "waiting" ~> Over(c)

(* A call is one point of time: the store it read is the store at the      *)
(* moment everything it wrote was kept; a failure keeps nothing (#889).    *)
Answer(c) ==
    CASE told[c] = "kept"    -> [saw |-> seen[c], wrote |-> Written(c)]
      [] told[c] = "failed"  -> Failed
      [] OTHER               -> None

Store == INSTANCE AtomicStore
            WITH store <- durable, answer <- [c \in Calls |-> Answer(c)]

AllOrNothing == Store!Spec
=============================================================================
