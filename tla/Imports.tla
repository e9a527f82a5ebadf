------------------------------ MODULE Imports ------------------------------
(***************************************************************************)
(* The write half of an import and the correction that replaces an earlier *)
(* one: routes/import/columns/+page.server.ts, import/writeImport.ts,      *)
(* import/persist.ts, import/collision.ts and import/deleteBatch.ts.       *)
(*                                                                         *)
(* A row is named by its deduplication key, so a stored row is the batch   *)
(* that holds the key: the unique index on (user, hash of the key) makes   *)
(* that a function.  A reading is what one parse of one file yields: the   *)
(* same statement read through other columns is another reading, with keys *)
(* of its own.  The write is deliberately not a transaction, so each       *)
(* statement is a step; the deletion of a batch is a transaction, one step *)
(* on the serialised SQLite connection (module SqliteSerializer).          *)
(***************************************************************************)
EXTENDS Integers, FiniteSets, FiniteSetsExt

CONSTANTS
    Requests,   \* the requests of one user, each served once
    Rows,       \* deduplication keys, in the order their rows have in a file
    Readings,   \* what a file may be read as: its rows, its first and last day, answered
    Amount,     \* the magnitude of a row
    Expenses,   \* the rows whose direction is expense; the others are income
    Mirror,     \* the key of an answered row with the other direction
    Divided,    \* rows that carry a division into parts
    First,      \* the batch stored before the first request, and its reading
    FirstReading,
    Nobody,     \* the holder of a key that is not stored
    MaxFaults   \* bound: statements that throw

\* What the constants are; assumed by Books.
ImportConstants ==
    /\ Rows \subseteq Nat /\ IsFiniteSet(Rows)
    /\ Amount \in [Rows -> Nat]
    /\ Expenses \subseteq Rows
    /\ Readings \subseteq [rows : (SUBSET Rows) \ {{}}, from : Nat, to : Nat, answered : BOOLEAN]
    /\ \A reading \in Readings :
           /\ reading.from <= reading.to
           /\ reading.answered => \A k \in reading.rows :
                  /\ Mirror[k] \in Rows
                  /\ Amount[Mirror[k]] = Amount[k]
                  /\ Mirror[k] \in Expenses <=> k \notin Expenses
    /\ FirstReading \in Readings
    /\ First \notin Requests
    /\ Nobody \notin Requests \cup {First}
    /\ MaxFaults \in Nat

VARIABLES
    holder,     \* the batch that holds a row, or Nobody
    batches,    \* the import batches that exist
    pc,         \* where each request stands
    ask,        \* what each request asks: kind, reading, batch, confirmation
    candidates, \* the batches whose period overlapped when they were listed
    todo,       \* the rows of its reading the loop has not reached
    duplicates, \* duplicateRows: how many rows the loop skipped
    landed,     \* importedTransactionIds: the rows the loop counted
    counted,    \* the figure recordBatchCounts read from the ledger
    interrupted,\* whether the loop threw
    removed,    \* history: the rows each request deleted
    shared,     \* history: rows skipped against the very batch being replaced
    beside,     \* history: the requests not answered when this one compared
    absorbed,   \* history: the rows it then left to deduplication
    faults

store == <<holder, batches>>
history == <<removed, shared, beside, absorbed>>
importVars == <<store, pc, ask, candidates, todo, duplicates, landed, counted,
                interrupted, history, faults>>

Batches == Requests \cup {First}
Kinds == {"import", "correct", "cancel"}
Answers == {"imported", "nothing", "partly", "maybe", "collision", "deleted",
            "withheld", "other period", "not found", "cancelled", "error"}
Places == {"idle", "known", "candidates", "compare", "create", "prepare", "mirror",
           "check", "insert", "requery", "parts", "count", "record", "rules", "weigh",
           "find", "remove", "clean", "stopped"} \cup Answers
NoAsk == [kind |-> "import", reading |-> FirstReading, batch |-> First, sure |-> FALSE]

TypeOK ==
    /\ holder \in [Rows -> Batches \cup {Nobody}]
    /\ batches \subseteq Batches
    /\ pc \in [Requests -> Places]
    /\ ask \in [Requests -> [kind : Kinds, reading : Readings, batch : Batches, sure : BOOLEAN]]
    /\ candidates \in [Requests -> SUBSET Batches]
    /\ todo \in [Requests -> SUBSET Rows]
    /\ duplicates \in [Requests -> 0 .. Cardinality(Rows)]
    /\ landed \in [Requests -> SUBSET Rows]
    /\ counted \in [Requests -> 0 .. Cardinality(Rows)]
    /\ interrupted \in [Requests -> BOOLEAN]
    /\ removed \in [Requests -> SUBSET Rows]
    /\ shared \in [Requests -> SUBSET Rows]
    /\ beside \in [Requests -> SUBSET Requests]
    /\ absorbed \in [Requests -> SUBSET Rows]
    /\ faults \in 0 .. MaxFaults

-----------------------------------------------------------------------------
Held(b) == {k \in Rows : holder[k] = b}
Stored(k) == holder[k] # Nobody
Total(S) == MapThenSumSet(LAMBDA k : Amount[k], S)
ReadingOf(b) == IF b = First THEN FirstReading ELSE ask[b].reading

\* The periods share a day; both ends are inclusive.
Overlap(b, reading) ==
    ReadingOf(b).from <= reading.to /\ reading.from <= ReadingOf(b).to
Replacing(r) == ask[r].kind = "correct"
Row(r) == Min(todo[r])
InFlight(r) == pc[r] \notin Answers \cup {"idle", "stopped"}

\* The same number of rows, the same debits and the same credits: both sums
\* and not the net.
SameFigures(S, T) ==
    /\ Cardinality(S) = Cardinality(T)
    /\ Total(S \cap Expenses) = Total(T \cap Expenses)
    /\ Total(S \ Expenses) = Total(T \ Expenses)

\* The stored rows of b against the rows about to be written; a batch with no
\* row has no totals.
SameMoney(b, reading) == Held(b) # {} /\ SameFigures(Held(b), reading.rows)

EqualPeriods(r) ==                             \* mutant: "are equal"
    LET reading == ask[r].reading IN
    {b \in batches : /\ ~(Replacing(r) /\ b = ask[r].batch)
                     /\ ReadingOf(b).from = reading.from /\ ReadingOf(b).to = reading.to}

\* The batches a run may repeat: never the one it replaces.
Candidates(r) ==
    {b \in batches : ~(Replacing(r) /\ b = ask[r].batch) /\ Overlap(b, ask[r].reading)}

AnyMirror(r, k) ==                             \* mutant: the replaced batch too
    ask[r].reading.answered /\ Stored(Mirror[k])

\* The stored mirror of an answered row: never in the batch being replaced.
MirrorStored(r, k) ==
    /\ ask[r].reading.answered
    /\ Stored(Mirror[k])
    /\ ~(Replacing(r) /\ holder[Mirror[k]] = ask[r].batch)

LoopCount(r) == Cardinality(landed[r])         \* mutant: what the loop saw

\* What the batch holds now, read back from the ledger.
LedgerCount(r) == Cardinality(Held(r))

\* The correction may not land less than it would destroy.
Fewer(r) == counted[r] < Cardinality(Held(ask[r].batch))

Goto(r, place) == pc' = [pc EXCEPT ![r] = place]
FirstCheck(r) == IF ask[r].reading.answered THEN "mirror" ELSE "check"
NextPlace(r) == IF todo[r] = {Row(r)} THEN "count" ELSE FirstCheck(r)

-----------------------------------------------------------------------------
Init ==
    /\ holder = [k \in Rows |-> IF k \in FirstReading.rows THEN First ELSE Nobody]
    /\ batches = {First}
    /\ pc = [r \in Requests |-> "idle"]
    /\ ask = [r \in Requests |-> NoAsk]
    /\ candidates = [r \in Requests |-> {}]
    /\ todo = [r \in Requests |-> {}]
    /\ duplicates = [r \in Requests |-> 0]
    /\ landed = [r \in Requests |-> {}]
    /\ counted = [r \in Requests |-> 0]
    /\ interrupted = [r \in Requests |-> FALSE]
    /\ removed = [r \in Requests |-> {}]
    /\ shared = [r \in Requests |-> {}]
    /\ beside = [r \in Requests |-> {}]
    /\ absorbed = [r \in Requests |-> {}]
    /\ faults = 0

\* A file arrives, read as some reading; a correction names a batch it resolves.
AskImport(r) ==
    /\ pc[r] = "idle"
    /\ \E reading \in Readings, sure \in BOOLEAN,
          b \in batches \cup {First}, kind \in {"import", "correct"} :
           /\ IF kind = "correct" THEN b \in batches ELSE b = First
           /\ ask' = [ask EXCEPT ![r] =
                  [kind |-> kind, reading |-> reading, batch |-> b, sure |-> sure]]
           /\ todo' = [todo EXCEPT ![r] = reading.rows]
           /\ Goto(r, IF sure THEN "create" ELSE "known")
    /\ UNCHANGED <<store, duplicates, landed, counted, interrupted, history, candidates,
                   faults>>

\* /imports: the user deletes an import.
AskCancel(r) ==
    /\ pc[r] = "idle"
    /\ \E b \in batches : ask' = [ask EXCEPT ![r] = [NoAsk EXCEPT !.kind = "cancel", !.batch = b]]
    /\ Goto(r, "find")
    /\ UNCHANGED <<store, todo, duplicates, landed, counted, interrupted, history,
                   candidates, faults>>

\* T3: one known fingerprint and the comparison is left to deduplication.
ReadKnown(r) ==
    /\ pc[r] = "known"
    /\ LET known == {k \in ask[r].reading.rows : Stored(k)} IN
           /\ Goto(r, IF known # {} THEN "create" ELSE "candidates")
           /\ absorbed' = [absorbed EXCEPT ![r] = known]
    /\ beside' = [beside EXCEPT ![r] = {s \in Requests \ {r} : InFlight(s)}]
    /\ UNCHANGED <<store, ask, todo, duplicates, landed, counted, interrupted, removed,
                   shared, candidates, faults>>

\* T1: the batches whose period overlaps, listed.
ListCandidates(r) ==
    /\ pc[r] = "candidates"
    /\ candidates' = [candidates EXCEPT ![r] = Candidates(r)]
    /\ Goto(r, IF Candidates(r) = {} THEN "create" ELSE "compare")
    /\ UNCHANGED <<store, ask, todo, duplicates, landed, counted, interrupted, history, faults>>

\* T2: one of those holds the same money, summed from the ledger afterwards.
Compare(r) ==
    /\ pc[r] = "compare"
    /\ Goto(r, IF \E b \in candidates[r] : SameMoney(b, ask[r].reading)
                THEN "collision" ELSE "create")
    /\ candidates' = [candidates EXCEPT ![r] = {}]
    /\ UNCHANGED <<store, ask, todo, duplicates, landed, counted, interrupted, history, faults>>

CreateBatch(r) ==
    /\ pc[r] = "create"
    /\ batches' = batches \cup {r}
    /\ Goto(r, "prepare")
    /\ UNCHANGED <<holder, ask, todo, duplicates, landed, counted, interrupted, history,
                   candidates, faults>>

\* prepareWrite resolves the batch again: it may have been deleted meanwhile.
Prepare(r) ==
    /\ pc[r] = "prepare"
    /\ Goto(r, IF r \in batches THEN FirstCheck(r) ELSE "clean")
    /\ UNCHANGED <<store, ask, todo, duplicates, landed, counted, interrupted, history,
                   candidates, faults>>

Skip(r) ==
    /\ todo' = [todo EXCEPT ![r] = @ \ {Row(r)}]
    /\ duplicates' = [duplicates EXCEPT ![r] = @ + 1]
    /\ Goto(r, NextPlace(r))

\* The row is a duplicate of one of the batch that the correction will delete.
Shares(r, k) ==
    shared' = [shared EXCEPT ![r] =
        IF Replacing(r) /\ holder[k] = ask[r].batch THEN @ \cup {k} ELSE @]

\* An answered row: its mirror against everything stored.
CheckMirror(r) ==
    /\ pc[r] = "mirror"
    /\ IF MirrorStored(r, Row(r))
         THEN Skip(r)
         ELSE Goto(r, "check") /\ UNCHANGED <<todo, duplicates>>
    /\ UNCHANGED <<store, ask, landed, counted, interrupted, history, candidates, faults>>

\* The key of the row against everything stored.
CheckRow(r) ==
    /\ pc[r] = "check"
    /\ IF Stored(Row(r))
         THEN Skip(r) /\ Shares(r, Row(r))
         ELSE Goto(r, "insert") /\ UNCHANGED <<todo, duplicates, shared>>
    /\ UNCHANGED <<store, ask, landed, counted, interrupted, removed, beside, absorbed,
                   candidates, faults>>

\* Another request stored the key since the check: the insert is refused.
InsertConflicts(r) ==
    /\ pc[r] = "insert"
    /\ Stored(Row(r))
    /\ Goto(r, "requery")
    /\ UNCHANGED <<store, ask, todo, duplicates, landed, counted, interrupted, history,
                   candidates, faults>>

\* The key is asked for again: the row is the duplicate it turned out to be,
\* or the other one is gone again and the refusal is thrown.
Requery(r) ==
    /\ pc[r] = "requery"
    /\ IF Stored(Row(r))
         THEN Skip(r) /\ Shares(r, Row(r)) /\ UNCHANGED interrupted
         ELSE /\ interrupted' = [interrupted EXCEPT ![r] = TRUE]
              /\ Goto(r, "count")
              /\ UNCHANGED <<todo, duplicates, shared>>
    /\ UNCHANGED <<store, ask, landed, counted, removed, beside, absorbed, candidates, faults>>

\* The batch is gone: the foreign key refuses the row and the loop ends.
InsertDangles(r) ==
    /\ pc[r] = "insert"
    /\ r \notin batches
    /\ ~Stored(Row(r))
    /\ interrupted' = [interrupted EXCEPT ![r] = TRUE]
    /\ Goto(r, "count")
    /\ UNCHANGED <<store, ask, todo, duplicates, landed, counted, history, candidates, faults>>

Reached(r, k) ==
    /\ landed' = [landed EXCEPT ![r] = @ \cup {k}]
    /\ todo' = [todo EXCEPT ![r] = @ \ {k}]
    /\ Goto(r, NextPlace(r))

InsertRow(r) ==
    /\ pc[r] = "insert"
    /\ r \in batches
    /\ ~Stored(Row(r))
    /\ holder' = [holder EXCEPT ![Row(r)] = r]
    /\ IF Row(r) \in Divided
         THEN Goto(r, "parts") /\ UNCHANGED <<landed, todo>>
         ELSE Reached(r, Row(r))
    /\ UNCHANGED <<batches, ask, duplicates, counted, interrupted, history, candidates, faults>>

\* The parts, after their row is committed: a row deleted meanwhile refuses
\* them, and the refusal is thrown.
WriteParts(r) ==
    /\ pc[r] = "parts"
    /\ IF holder[Row(r)] = r
         THEN Reached(r, Row(r)) /\ UNCHANGED interrupted
         ELSE /\ interrupted' = [interrupted EXCEPT ![r] = TRUE]
              /\ Goto(r, "count")
              /\ UNCHANGED <<landed, todo>>
    /\ UNCHANGED <<store, ask, duplicates, counted, history, candidates, faults>>

CountRows(r) ==
    /\ pc[r] = "count"
    /\ counted' = [counted EXCEPT ![r] = LedgerCount(r)]
    /\ Goto(r, "record")
    /\ UNCHANGED <<store, ask, todo, duplicates, landed, interrupted, history, candidates,
                   faults>>

FailedByLoop(r) ==                             \* mutant: what the loop saw
    IF landed[r] = {} THEN "clean" ELSE "partly"

\* What an interrupted write answers: by the count, never by the loop.
Failed(r) == IF counted[r] = 0 THEN "clean" ELSE "partly"

\* updateMany: a batch deleted meanwhile takes the counters with it, silently.
RecordCounts(r) ==
    /\ pc[r] = "record"
    /\ Goto(r, IF interrupted[r] THEN Failed(r) ELSE "rules")
    /\ UNCHANGED <<store, ask, todo, duplicates, landed, counted, interrupted, history,
                   candidates, faults>>

\* The category rules end the write; only then does a correction go on.
ApplyRules(r) ==
    /\ pc[r] = "rules"
    /\ Goto(r, IF Replacing(r) THEN "weigh" ELSE "imported")
    /\ UNCHANGED <<store, ask, todo, duplicates, landed, counted, interrupted, history,
                   candidates, faults>>

\* Nothing landed: the batch goes, if it still holds nothing.
CleanUp(r) ==
    /\ pc[r] = "clean"
    /\ batches' = IF Held(r) = {} THEN batches \ {r} ELSE batches
    /\ Goto(r, "nothing")
    /\ UNCHANGED <<holder, ask, todo, duplicates, landed, counted, interrupted, history,
                   candidates, faults>>

\* The live count of the batch to replace, and the two reasons to keep it.
Weigh(r) ==
    /\ pc[r] = "weigh"
    /\ Goto(r, IF ~Overlap(ask[r].batch, ask[r].reading) THEN "other period"
               ELSE IF Fewer(r) THEN "withheld" ELSE "find")
    /\ UNCHANGED <<store, ask, todo, duplicates, landed, counted, interrupted, history,
                   candidates, faults>>

FindBatch(r) ==
    /\ pc[r] = "find"
    /\ Goto(r, IF ask[r].batch \in batches THEN "remove"
               ELSE IF Replacing(r) THEN "imported" ELSE "not found")
    /\ UNCHANGED <<store, ask, todo, duplicates, landed, counted, interrupted, history,
                   candidates, faults>>

\* One transaction: the rows, then the batch; a batch gone meanwhile throws.
RemoveBatch(r) ==
    /\ pc[r] = "remove"
    /\ IF ask[r].batch \in batches
         THEN /\ removed' = [removed EXCEPT ![r] = Held(ask[r].batch)]
              /\ holder' = [k \in Rows |-> IF holder[k] = ask[r].batch THEN Nobody ELSE holder[k]]
              /\ batches' = batches \ {ask[r].batch}
              /\ Goto(r, IF Replacing(r) THEN "deleted" ELSE "cancelled")
         ELSE Goto(r, "error") /\ UNCHANGED <<store, removed>>
    /\ UNCHANGED <<ask, todo, duplicates, landed, counted, interrupted, shared, beside,
                   absorbed, candidates, faults>>

\* A statement throws.  In the loop the failure is held until the count is
\* written; a count that cannot be read leaves the answer unknown.
Throw(r) ==
    /\ faults < MaxFaults
    /\ faults' = faults + 1
    /\ \/ /\ pc[r] \in {"mirror", "check", "insert", "requery", "parts"}
          /\ interrupted' = [interrupted EXCEPT ![r] = TRUE]
          /\ Goto(r, "count")
       \/ /\ pc[r] \in {"count", "record"}
          /\ Goto(r, "maybe")
          /\ UNCHANGED interrupted
       \/ /\ pc[r] = "create"
          /\ Goto(r, "nothing")
          /\ UNCHANGED interrupted
       \/ /\ pc[r] = "prepare"
          /\ Goto(r, "clean")
          /\ UNCHANGED interrupted
       \/ /\ pc[r] = "rules"
          /\ Goto(r, Failed(r))
          /\ UNCHANGED interrupted
       \/ /\ pc[r] = "clean"
          /\ Goto(r, "nothing")
          /\ UNCHANGED interrupted
       \/ /\ pc[r] \in {"known", "candidates", "compare", "weigh", "find", "remove"}
          /\ Goto(r, "error")
          /\ UNCHANGED interrupted
    /\ UNCHANGED <<store, ask, todo, duplicates, landed, counted, history, candidates>>

\* The process stops: what is committed stays, the rest is never answered.
StopAll ==
    /\ pc' = [r \in Requests |-> IF InFlight(r) THEN "stopped" ELSE pc[r]]
    /\ UNCHANGED <<store, ask, todo, duplicates, landed, counted, interrupted, history,
                   candidates, faults>>

Asks(r) == AskImport(r) \/ AskCancel(r)
Runs(r) ==
    \/ ReadKnown(r) \/ ListCandidates(r) \/ Compare(r) \/ CreateBatch(r) \/ Prepare(r)
    \/ CheckMirror(r) \/ CheckRow(r)
    \/ InsertConflicts(r) \/ Requery(r) \/ InsertDangles(r) \/ InsertRow(r) \/ WriteParts(r)
    \/ CountRows(r) \/ RecordCounts(r) \/ ApplyRules(r) \/ CleanUp(r)
    \/ Weigh(r) \/ FindBatch(r) \/ RemoveBatch(r)
    \/ Throw(r)

Next == (\E r \in Requests : Asks(r) \/ Runs(r)) \/ StopAll

Spec == Init /\ [][Next]_importVars

-----------------------------------------------------------------------------
Writes(r) == ask[r].kind # "cancel"
Wrote(r) == Writes(r) /\ pc[r] # "idle" /\ (todo[r] = {} \/ removed[r] # {})
RemovedBeside(r, k) == \E s \in Requests \ {r} : k \in removed[s]
Kept(r, k) ==
    \/ Stored(k) \/ RemovedBeside(r, k)
    \/ ask[r].reading.answered /\ (Stored(Mirror[k]) \/ RemovedBeside(r, Mirror[k]))

(***************************************************************************)
(* Once a write has gone over its file, and from the moment a correction   *)
(* has deleted the import it replaces, every row of the file is stored     *)
(* unless another request deleted it: so the rows come before the          *)
(* deletion, wherever the process stops.  One case escapes the guards of   *)
(* the correction, and is named: a row skipped as a duplicate of the very  *)
(* batch the correction then deletes, at its check or at its insert.       *)
(***************************************************************************)
NothingLostUnlessShared ==
    \A r \in Requests : Wrote(r) =>
        \A k \in ask[r].reading.rows : Kept(r, k) \/ k \in shared[r]

(***************************************************************************)
(* What a failed import says is so: "nothing was saved" is said only when  *)
(* none of its rows is stored.                                             *)
(***************************************************************************)
RefusalsTrue ==
    \A r \in Requests : Writes(r) /\ pc[r] = "nothing" => Held(r) = {}

(***************************************************************************)
(* The figure an answered import shows is what deleting it would remove,   *)
(* also when it stopped half way, between a row and its parts.             *)
(***************************************************************************)
CountIsLedger ==
    \A r \in Requests :
        r \in batches /\ pc[r] \in {"imported", "partly", "deleted", "withheld", "other period"}
            => counted[r] = Cardinality(Held(r))

(***************************************************************************)
(* Two imports whose periods overlap, both stored whole, with the same     *)
(* number of rows, the same debits and the same credits: only if the user  *)
(* confirmed or corrected one, one of the two compared before the other    *)
(* was answered, or a row that one of them had found stored was deleted    *)
(* before it wrote its own.                                                *)
(***************************************************************************)
DoubledOnlyIfOverlapped ==
    \A r, s \in Requests :
        /\ r # s /\ {r, s} \subseteq batches
        /\ Overlap(r, ask[s].reading)
        /\ Held(r) = ask[r].reading.rows
        /\ Held(s) = ask[s].reading.rows
        /\ SameFigures(Held(r), Held(s))
        => \/ ask[r].sure \/ ask[s].sure
           \/ Replacing(r) \/ Replacing(s)
           \/ r \in beside[s] \/ s \in beside[r]
           \/ \E k \in absorbed[r] \cup absorbed[s], q \in Requests : k \in removed[q]
=============================================================================
