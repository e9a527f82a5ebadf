---------------------------- MODULE AtomicStore -----------------------------
(***************************************************************************)
(* What a caller of the database may rely on, whatever runs beside it: a   *)
(* query or a transaction is answered once, either with everything it      *)
(* wrote kept and the store it read, at one point of time, or with a       *)
(* failure and nothing kept.  It is the promise the header of              *)
(* src/lib/server/database/serializedSqliteAdapter.ts makes for SQLite     *)
(* (#889); SqliteSerializer implements it.                                 *)
(***************************************************************************)
EXTENDS Integers

CONSTANTS
    Calls,          \* queries and transactions
    Writes(_),      \* the writes a call may make
    None,           \* not answered
    Failed          \* answered with an error

VARIABLES
    store,          \* the writes kept
    answer          \* what each call was answered

vars == <<store, answer>>

Init ==
    /\ store = {}
    /\ answer = [c \in Calls |-> None]

Keep(c, wrote) ==
    /\ answer[c] = None
    /\ answer' = [answer EXCEPT ![c] = [saw |-> store, wrote |-> wrote]]
    /\ store' = store \cup wrote

Fail(c) ==
    /\ answer[c] = None
    /\ answer' = [answer EXCEPT ![c] = Failed]
    /\ UNCHANGED store

Next ==
    \E c \in Calls :
       \/ \E wrote \in SUBSET Writes(c) : Keep(c, wrote)
       \/ Fail(c)

Spec == Init /\ [][Next]_vars
=============================================================================
