------------------------------ MODULE NetWorth ------------------------------
(***************************************************************************)
(* The net worth lines and the account buckets that feed them:             *)
(* net-worth/service.ts, net-worth/link.ts, net-worth/contestedRepair.ts,  *)
(* with the bank operations that move a bucket's connection or write its   *)
(* balance (banking/sync/service.ts, import/persist.ts).                   *)
(*                                                                         *)
(* Every prisma.$transaction is one step on the serialised SQLite          *)
(* connection (module SqliteSerializer); the operations that are several   *)
(* statements or several transactions are several steps.                   *)
(***************************************************************************)
EXTENDS Integers, FiniteSets, Sequences

CONSTANTS
    Requests,   \* the requests and background syncs, each served once
    Lines,      \* net worth lines
    Banked,     \* buckets of accounts one bank connection exposes
    Orphans,    \* those an earlier connection, deleted since, left without one
    Manual,     \* the bucket of transactions entered by hand
    Unlinked,   \* the link of a bucket that feeds nothing
    Figures,    \* balances
    MaxSnapshots, \* bound: snapshots of one line
    MaxRestarts   \* bound: times the process stops and boots again

\* What the constants are; assumed by Books, and by every theorem.
WorthConstants ==
    /\ Orphans \subseteq Banked
    /\ Manual \notin Banked
    /\ Unlinked \notin Lines
    /\ Figures # {}
    /\ IsFiniteSet(Banked)
    /\ MaxRestarts \in Nat

VARIABLES
    link,       \* Account.netWorthAccountId
    attached,   \* Account.bankConnectionId is set
    live,       \* the line is not soft-deleted
    cash,       \* the type of the line is one a bucket may feed
    headline,   \* NetWorthAccount.balanceCents
    snapshots,  \* the line's NetWorthSnapshot rows, in the order of their ids
    now,        \* the clock: it moves at every snapshot a person enters
    at,         \* where each request stands
    line,       \* the line a manual link names
    started,    \* currentTime of a sync: when it began
    queue,      \* the buckets a sync or a reconnection still has to serve
    readLinks,  \* the links a sync read when it began
    found,      \* the orphaned bucket a reconnection found
    returned,   \* history: buckets re-attached while linked, since the last boot
    restarts

accounts == <<link, attached>>
figures == <<live, cash, headline, snapshots>>
running == <<line, started, queue, readLinks, found>>
worthVars == <<link, attached, live, cash, headline, snapshots, now, at, line,
               started, queue, readLinks, found, returned, restarts>>

Buckets == Banked \cup {Manual}
Links == Lines \cup {Unlinked}
Places == {"idle", "write", "record", "find", "attach", "done", "refused", "stopped"}
Snapshot == [taken : Nat, figure : Figures]

WorthTypeOK ==
    /\ link \in [Buckets -> Links]
    /\ attached \in [Banked -> BOOLEAN]
    /\ live \in [Lines -> BOOLEAN]
    /\ cash \in [Lines -> BOOLEAN]
    /\ headline \in [Lines -> Figures]
    /\ snapshots \in [Lines -> Seq(Snapshot)]
    /\ now \in Nat
    /\ at \in [Requests -> Places]
    /\ line \in [Requests -> Links]
    /\ started \in [Requests -> Nat]
    /\ queue \in [Requests -> SUBSET Banked]
    /\ readLinks \in [Requests -> [Banked -> Links]]
    /\ found \in [Requests -> Buckets]
    /\ returned \subseteq Banked
    /\ restarts \in 0 .. MaxRestarts

-----------------------------------------------------------------------------
Synchronized(b) == b \in Banked /\ attached[b]
Feeders(l) == {b \in Banked : Synchronized(b) /\ link[b] = l}
Contested(l) == Cardinality(Feeders(l)) > 1

\* wouldContestNetWorthLine: the candidate replaces its own row.
FeedersWith(b, l) == IF Synchronized(b) THEN Feeders(l) \cup {b} ELSE Feeders(l)
NeverContests(b, l) == FALSE                   \* mutant: no rule
WouldContest(b, l) == Cardinality(FeedersWith(b, l)) > 1

\* The newest snapshot: by the instant it was taken, then by its id.
NewestOf(s) ==
    CHOOSE i \in 1 .. Len(s) :
        \A j \in 1 .. Len(s) : s[j].taken < s[i].taken \/ (s[j].taken = s[i].taken /\ j <= i)
Newest(s) == s[NewestOf(s)].figure

Supplied(s, f) == f                            \* mutant: the last writer wins
\* The headline a new snapshot leaves: read back, never the figure supplied.
HeadlineAfter(s, f) == Newest(s)

Takes(l, taken, f) ==
    LET s == Append(snapshots[l], [taken |-> taken, figure |-> f]) IN
        /\ snapshots' = [snapshots EXCEPT ![l] = s]
        /\ headline' = [headline EXCEPT ![l] = HeadlineAfter(s, f)]

OnlyManual(l) ==                               \* mutant: hand-entered rows only
    [link EXCEPT ![Manual] = IF @ = l THEN Unlinked ELSE @]

\* Every bucket that points at the line stops feeding it.
Unlinking(l) == [b \in Buckets |-> IF link[b] = l THEN Unlinked ELSE link[b]]

Room(l) == Len(snapshots[l]) < MaxSnapshots
Reaches(r, place) == at' = [at EXCEPT ![r] = place]

-----------------------------------------------------------------------------
WorthInit ==
    /\ link = [b \in Buckets |-> Unlinked]
    /\ attached = [b \in Banked |-> b \notin Orphans]
    /\ live = [l \in Lines |-> TRUE]
    /\ cash = [l \in Lines |-> TRUE]
    /\ headline = [l \in Lines |-> CHOOSE f \in Figures : TRUE]
    /\ snapshots = [l \in Lines |-> << [taken |-> 0, figure |-> headline[l]] >>]
    /\ now = 1
    /\ at = [r \in Requests |-> "idle"]
    /\ line = [r \in Requests |-> Unlinked]
    /\ started = [r \in Requests |-> 0]
    /\ queue = [r \in Requests |-> {}]
    /\ readLinks = [r \in Requests |-> [b \in Banked |-> Unlinked]]
    /\ found = [r \in Requests |-> Manual]
    /\ returned = {}
    /\ restarts = 0

\* writeNetWorthLink, from either door: the bank page addresses only attached
\* buckets, the settings page any.
LinkBucket(r) ==
    /\ at[r] = "idle"
    /\ \E b \in Buckets, l \in Links :
           LET refused == l # Unlinked /\ (~live[l] \/ ~cash[l] \/ WouldContest(b, l)) IN
               /\ link' = IF refused THEN link ELSE [link EXCEPT ![b] = l]
               /\ Reaches(r, IF refused THEN "refused" ELSE "done")
    /\ UNCHANGED <<attached, figures, now, running, returned, restarts>>

\* setManualAccountNetWorthLink: the target is looked up, the bucket ensured
\* and the link written, three statements with no transaction around them.
AskManualLink(r) ==
    /\ at[r] = "idle"
    /\ \E l \in Links :
           /\ line' = [line EXCEPT ![r] = l]
           /\ Reaches(r, IF l = Unlinked THEN "write" ELSE IF live[l] THEN "write" ELSE "refused")
    /\ UNCHANGED <<accounts, figures, now, started, queue, readLinks, found, returned, restarts>>

WriteManualLink(r) ==
    /\ at[r] = "write"
    /\ link' = [link EXCEPT ![Manual] = line[r]]
    /\ Reaches(r, "done")
    /\ UNCHANGED <<attached, figures, now, running, returned, restarts>>

\* updateNetWorthAccount: a person enters a figure or a type, for now or for a
\* past day.
EditLine(r) ==
    /\ at[r] = "idle"
    /\ \E l \in Lines, f \in Figures, type \in BOOLEAN, taken \in {0, now} :
           /\ live[l]
           /\ cash' = [cash EXCEPT ![l] = type]
           /\ IF f # headline[l] \/ type # cash[l]
                THEN Room(l) /\ Takes(l, taken, f)
                ELSE UNCHANGED <<headline, snapshots>>
           /\ link' = IF type # cash[l] /\ ~type THEN Unlinking(l) ELSE link
    /\ now' = now + 1
    /\ Reaches(r, "done")
    /\ UNCHANGED <<attached, live, running, returned, restarts>>

DeleteLine(r) ==
    /\ at[r] = "idle"
    /\ \E l \in Lines :
           /\ live[l]
           /\ live' = [live EXCEPT ![l] = FALSE]
           /\ link' = Unlinking(l)
    /\ Reaches(r, "done")
    /\ UNCHANGED <<attached, cash, headline, snapshots, now, running, returned, restarts>>

\* syncBankConnection takes the clock and reads the links once.
BeginSync(r) ==
    /\ at[r] = "idle"
    /\ \E b \in Banked : attached[b]
    /\ started' = [started EXCEPT ![r] = now]
    /\ readLinks' = [readLinks EXCEPT ![r] = [b \in Banked |-> link[b]]]
    /\ queue' = [queue EXCEPT ![r] = {b \in Banked : attached[b]}]
    /\ Reaches(r, "record")
    /\ UNCHANGED <<accounts, figures, now, line, found, returned, restarts>>

\* recordSyncedBalance, or no balance at all: the provider answered none, or
\* the call failed, and neither fails the sync.
RecordBalance(r) ==
    /\ at[r] = "record"
    /\ \E b \in queue[r] :
           /\ queue' = [queue EXCEPT ![r] = @ \ {b}]
           /\ Reaches(r, IF queue[r] = {b} THEN "done" ELSE "record")
           /\ \/ UNCHANGED <<headline, snapshots>>
              \/ LET l == readLinks[r][b] IN
                     /\ l # Unlinked /\ live[l] /\ Room(l)
                     /\ \E f \in Figures \ {headline[l]} : Takes(l, started[r], f)
    /\ UNCHANGED <<accounts, live, cash, now, line, started, readLinks, found, returned, restarts>>

\* deleteBankConnection: the links of its buckets, then the connection.
Disconnect(r) ==
    /\ at[r] = "idle"
    /\ link' = [b \in Buckets |-> IF Synchronized(b) THEN Unlinked ELSE link[b]]
    /\ attached' = [b \in Banked |-> FALSE]
    /\ Reaches(r, "done")
    /\ UNCHANGED <<figures, now, running, returned, restarts>>

\* A connection is made again; its accounts are resolved one after another.
AskReconnect(r) ==
    /\ at[r] = "idle"
    /\ queue' = [queue EXCEPT ![r] = Banked]
    /\ Reaches(r, "find")
    /\ UNCHANGED <<accounts, figures, now, line, started, readLinks, found, returned, restarts>>

FindBucket(r) ==
    /\ at[r] = "find"
    /\ \E b \in queue[r] :
           IF attached[b]
             THEN /\ queue' = [queue EXCEPT ![r] = @ \ {b}]
                  /\ Reaches(r, IF queue[r] = {b} THEN "done" ELSE "find")
                  /\ UNCHANGED found
             ELSE /\ found' = [found EXCEPT ![r] = b]
                  /\ Reaches(r, "attach")
                  /\ UNCHANGED queue
    /\ UNCHANGED <<accounts, figures, now, line, started, readLinks, returned, restarts>>

\* The only relink there is; it says nothing of the line the bucket feeds.
Attach(r) ==
    /\ at[r] = "attach"
    /\ attached' = [attached EXCEPT ![found[r]] = TRUE]
    /\ returned' = IF link[found[r]] # Unlinked THEN returned \cup {found[r]} ELSE returned
    /\ queue' = [queue EXCEPT ![r] = @ \ {found[r]}]
    /\ Reaches(r, IF queue[r] = {found[r]} THEN "done" ELSE "find")
    /\ UNCHANGED <<link, figures, now, line, started, readLinks, found, restarts>>

\* The buckets the repair unlinks: every feeder of a contested line.
ToUnlink == UNION {Feeders(l) : l \in {m \in Lines : Contested(m)}}

\* The process stops and boots: the repair is over before a request is served.
Restart ==
    /\ restarts < MaxRestarts
    /\ restarts' = restarts + 1
    /\ at' = [r \in Requests |-> IF at[r] \in {"write", "record", "find", "attach"}
                                   THEN "stopped" ELSE at[r]]
    /\ link' = [b \in Buckets |-> IF b \in ToUnlink THEN Unlinked ELSE link[b]]
    /\ returned' = {}
    /\ UNCHANGED <<attached, figures, now, running>>

AsksWorth(r) ==
    \/ LinkBucket(r) \/ AskManualLink(r) \/ EditLine(r) \/ DeleteLine(r)
    \/ BeginSync(r) \/ Disconnect(r) \/ AskReconnect(r)
RunsWorth(r) == WriteManualLink(r) \/ RecordBalance(r) \/ FindBucket(r) \/ Attach(r)

Next == (\E r \in Requests : AsksWorth(r) \/ RunsWorth(r)) \/ Restart

Spec == WorthInit /\ [][Next]_worthVars

-----------------------------------------------------------------------------
(***************************************************************************)
(* At most one synchronised bucket feeds a line, in whatever order links,  *)
(* disconnections, reconnections and boots come.  One writer escapes the   *)
(* rule and is named: a bucket linked while orphaned, then re-attached.    *)
(***************************************************************************)
FedOnceUnlessReturned ==
    \A l \in Lines : Contested(l) => Feeders(l) \cap returned # {}

(***************************************************************************)
(* A bank bucket feeds only a line that exists and takes cash, however a   *)
(* link meets a deletion or a change of type of its line.  (The bucket of  *)
(* hand-entered transactions is linked outside any transaction and may     *)
(* dangle.)                                                                *)
(***************************************************************************)
BankLinksStand == \A b \in Banked : link[b] # Unlinked => live[link[b]] /\ cash[link[b]]

(***************************************************************************)
(* The headline is the newest snapshot, the one the curve ends with, also  *)
(* when a sync writes a balance older than an edit made meanwhile or a     *)
(* person fills in a past day.                                             *)
(***************************************************************************)
HeadlineIsNewest == \A l \in Lines : headline[l] = Newest(snapshots[l])
=============================================================================
