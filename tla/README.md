# BudgetPilot: formal models

BudgetPilot is a self-hosted budgeting server (SvelteKit, Prisma; SQLite, PostgreSQL or MariaDB).
Members import their transactions from files or from their bank, categorise and split them, and
read budgets, forecasts and net worth from the result. This directory holds TLA+ models of the
parts whose correctness depends on the order in which concurrent requests, database statements,
callbacks and restarts happen, the TLC runs that check them on small instances, and TLAPS proofs
of the main results for every value of the constants.

`PROJECT.json` lists the components, runs, source lines behind each definition, hazards and
theorems. To check a run: `tlc -config <cfg> <module>` in this directory. To check a proof module:
`tlapm <module>.tla`.

## The system: inventory

| Component | State it keeps | Operations | Hard behaviour | What makes it correct |
|---|---|---|---|---|
| Bank synchronisation (`banking/sync/service.ts`) | connections with a fetch cursor, a throttle stamp and a consent end; authorization requests; bucket links | start and complete a consent, sync, delete | each statement commits alone, so callbacks, syncs, deletions and restarts interleave between any two | no booking is skipped; a request is honoured once; syncs are spaced; a status agrees with the stored consent |
| Bucket resolution (`import/persist.ts`) | bank buckets, keyed by provider account | find, relink an orphan, create | two callbacks resolve one account at once | one bucket per provider account; it is fed by a connection that exists |
| AI admission (`ai/admission.ts`) | slot, waiting room, starts of the last hour, epochs (in memory) | acquire, release, refund, cancel a member | callers await between reading switches and acquiring; superseding; late and double releases | one generation; bounded room; quota; newest wins; opt-out honoured; nobody starves |
| Sign-in attempt budget (`auth/rateLimit.ts`) | one table of attempts | claim, settle; check and record | a burst reads the counters before any of it writes | the maximum per window holds under concurrency; only failures cost |
| SQLite serializer (`database/serializedSqliteAdapter.ts`) | a promise chain of holds; `closed` of each transaction | base query, start, commit, roll back | failed COMMIT, timeout, late second close, a query made inside a transaction | calls are atomic; the connection is handed over clean; everybody is served |
| Other database helpers (`advisoryLock.ts`, `upsert.ts`) | the lock of a session | take, hold, release; retry | two servers start at once; a retry after a commit | one backfill; retries harmless |
| Sessions and second factors (`auth.ts`, `auth/*.ts`, the actions of `/login`, `/settings`, `/admin`) | sessions with their token, challenges, the last TOTP step, recovery codes | sign in in one or two steps, rotate, change a factor, reset, revoke, sign out | a factor changes between its proof and the session it opens; one code presented twice; rotation against revocation | no session and no challenge outlives its proof; a code is spent once; an ended session stays ended |
| Import (`import/*.ts`, `/import/columns`) | rows by deduplication key, batches with their counts | write, correct an earlier import, cancel, delete a batch | a write that is no transaction; failures half way; a correction that deletes what its own rows were compared with | nothing lost; answers true; counts those of the ledger; nothing doubled |
| Tags (`tags/*.ts`) | tags and links | edit, bulk and its undo, rename, delete, prune | a tag pruned between its resolution and its link; bounded retry | a failed edit removes nothing; no tag is left unused without a reason; the cap |
| Net worth (`net-worth/*.ts`) | lines, snapshots, bucket links | link, edit, delete, synchronise a balance, repair at boot | two buckets linked at once; a balance captured before a manual edit; a bucket that returns | one synced bucket per line; a link points at a line; headline is the newest snapshot |
| Transactions (`transactions/*.ts`) | rows, parts, transfer pairs | split, pair, pair all, undo, delete | row locks under read committed: rows read, waited for and judged again | pairs are mutual; parts are of one edit; a split is not paired; linking never deadlocks |
| Categories, categorisation, naming | categories, rules, folded names | rename, merge, backfill | mostly one transaction per operation | references stay valid |
| Logging and seal (`logging/**`) | hash chain, segments, two state files, flood counters | write, checkpoint, start, verify | a stop between a checkpoint and its record; two containers on one directory; a restored directory; rotation | an untouched log is never broken; a verified one leaves no line unsealed |
| Inference halt (`ai/inferenceHalt.ts`) and model gateway (`insights/local-llm.ts`) | the halt row, the registry of running calls | register, read, call, halt, lift | a call registers while the halt is written; a lift not yet committed | no call and no answer runs past a halt; a halt is not lost |
| Backup and restore | a whole dataset | export, import | one long transaction | all or nothing |
| Accounts, budgets, goals, forecast, dashboard, reports, bills, insights | none of their own | queries over rows | none that interleaves | arithmetic |
| Domain algorithms (`domain/*.ts`) | none | allocation, apportionment, money | rounding | the parts sum to the whole |
| Configuration, network, pages | none shared | parsing, HTTP, rendering | none modelled | - |

How they interact: pages and form actions call the server modules. Every database access goes
through the Prisma client, which on SQLite runs through the serializer. The consent callback and
the sync share connection rows and call bucket resolution and import; a sync also writes net worth
snapshots. The sign-in steps wrap a credential check in a claim of the attempt budget. The AI
features take the epoch and the member's switches before they acquire from admission, and the
holder of the slot passes the door of the halt. A deleted transaction takes its tag links, its parts
and its half of a pair with it. A sync writes balances through the links the net worth actions write.

## The modules

| Module | Models | Checked by | Proofs |
|---|---|---|---|
| `BankSync` (+ `MCBankSync`) | consent callback, bucket resolution, sync, deletion, restart | four runs | `BankSyncProofs` |
| `Admission` (+ `MCAdmission`) | the whole of `createAdmission` and its callers' protocol | `AdmissionSafety`, and inside `ModelCalls` | `AdmissionProofs` |
| `InferenceHalt` | the switch, the registry and the door of a model call | inside `ModelCalls` | in `AdmissionProofs` |
| `ModelCalls` | composes `Admission` and `InferenceHalt`, with a stop of the process | `AdmissionLive` | in `AdmissionProofs` |
| `SignIn` | sign-ins, factor changes, resets, revocations, rotations of one account | `SignIn` | `SignInProofs` |
| `Transactions` | splits, transfer pairs, undos, deletions under row locks | inside `Ledger` | in `LedgerProofs` |
| `Tags` | edits, bulks, renames, deletions and pruning of tags | inside `Ledger` | in `LedgerProofs` |
| `Ledger` (+ `MCLedger`) | composes `Transactions` and `Tags` over one store | `Ledger` | `LedgerProofs` |
| `Imports` | the write step, the correction, the cancellation | inside `Books` | in `BooksProofs` |
| `NetWorth` | lines, links, snapshots, balances, the boot repair | inside `Books` | in `BooksProofs` |
| `Books` (+ `MCBooks`) | composes `Imports` and `NetWorth` in one process | `Books` | `BooksProofs` |
| `SealVerifier` | what the verifier answers about a copy of the log | inside `Seal` | in `SealProofs` |
| `Seal` (+ `MCSeal`) | the chain, the segments, the checkpoints and their records, across starts | `Seal` | `SealProofs` |
| `AttemptBudget` (+ `MCAttemptBudget`) | `claimAttempt`, `settleAttempt`, the sweep | one run | `AttemptBudgetProofs` |
| `SqliteSerializer` | the lock, base queries, transactions and their closes | one run | `SqliteSerializerProofs` |
| `AtomicStore` | abstract: a call is one atomic point of time | as a property of `SqliteSerializer` | refinement proved there |

A definition followed by the word *mutant* in a comment is not part of the model. It is the form a
plausible bug would give the definition below it: with that body, the run finds the property named
in `PROJECT.json` violated.

### BankSync

*State.* `conn` holds the columns the code decides on (`status`, `consentExpiresAt`, `lastSyncAt`,
`lastCompleteSyncAt` as `cursor`), `link` the connection of each bucket, `request` the
authorization requests, `booking` what the bank holds and `stored` what the ledger holds. `sync`
and `callback` hold the locals of each running call: the code reads a row once and goes on using
it, and that is where its races come from.

*Steps.* One per database statement, in the code's order. `StartSync` is the read of the
connection with the guards on it; then `MarkExpired`, or `ClaimSlot` (the guarded update of
`lastSyncAt`), `ReadBuckets`, `FetchBucket` for each bucket, `RereadBuckets` (the second read of
the linked set), and `FinishSync` or `FailSync`. The callback: `CallbackFind`, `CallbackConsume`
(the guarded update), `ExchangeFails`, `RenewConnection` or `CreateConnection`, then
`ReadLinkedBefore` for a renewal, `ResolveBucket` and `AttachBucket` for each account,
`ReadLinkedAfter`, `ClearCursor`; `CallbackThrows` ends it at any of its statements after the
renewal, with what it attached so far. Both call bucket resolution; `AttachBucket` distinguishes the
relink (an update by id) from the creation (an upsert with an empty update).
`DeleteConnection` is one step because it is one transaction. `Restart` drops every local.

*The world.* Bookings appear at the bank with a day at most `PostDelay` before today, and the
model assumes `PostDelay <= Overlap`: the re-fetch overlap exists for late bookings, and one later
than the overlap is lost by design. A bank that refuses a long window is asked for the default one
(`FetchStarts`), so a booking older than that is outside the promise. A fetch and its import are
one step for a bucket, except when they fail, where any part may have landed.

*The races.* `NothingSkipped` says that a booking of a linked bucket is stored, or inside the
window the next sync asks for, or about to be because a callback is on its way to clear the
cursor. The code does not guarantee it: see Findings. `NothingSkippedUnlessRaced` says it for the
connections that were in none of these interleavings, which the history variable `raced` records:

 1. a bucket attached between a sync's read of the cursor and its read of the buckets;
 2. a bucket attached between a sync's second read of the buckets and its write of the cursor;
 3. a bucket attached to a connection created by the same callback, when a sync has already given
    it a cursor (finding 1);
 4. a sync started, or the callback was lost, between an attach and the clear of the cursor: the
    server stopped, or the callback threw (`CallbackThrows`), as it does when another account holds
    the name of its bucket (`persist.ts:306-311`);
 5. a renewal attaches a bucket that another connection took, and gave back, since the renewal read
    which buckets it fed: the second read finds the bucket among them, and nothing is cleared.

The fifth needs three connections and three consents, more than the runs have. It is in `raced`
because the proof of the property asked for it, and TLC then showed the loss on an instance that
starts where the three consents meet.

Everything else is inside the property: the overlap and its boundary, failures, the second read
of the buckets, the clear of the cursor, deletion and relink, restarts at other places.

### Admission

The module is synchronous JavaScript, so each of its functions is one atomic step and what
interleaves is its callers. A caller reads the epoch (`Ask`), awaits the member's switches
(`ReadSwitches`) and acquires: one action per outcome (`AcquireRefused`, `AcquireBusy`,
`AcquireStart`, `AcquireWait`) under exclusive guards, in the order of the early returns. `Release`
covers a second release of one ticket, `Leave` the outer abort signal, `TurnOff` and `CancelUser`
the two halves of an opt-out, whose order the interface prescribes. No caller exists in `src/` yet,
so the callers are the protocol its interface documents. A start's time is kept as an age, which
makes the state finite without bounding time; a request id is handed out again once nothing
remembers it.

### InferenceHalt and ModelCalls

*State.* `halted` is the committed row of `InferenceHalt`, `lifting` a lift whose delete is not yet
committed, `press` the `haltInference` calls between their write and their `finally`, `door` where
each model call is, `aborted` the calls whose controller was aborted. The registry is not a variable:
a call is registered from `Enter` to its result, because every return is inside the `try`.

*Steps.* What runs between two awaits. `ReadHalt` is the read of the row (one that throws refuses),
`Connect` the probe and the first reading of the model's identity, which are checked alike,
`Generate` the chat, `Confirm` the second reading of the identity; each goes on only while the call is
not aborted (`MayGoOn`), which is the check the code repeats after every await. `Halt` is the create,
which finds the row or makes it; `HaltThrows` a write that fails; `AbortAll` the `finally`. `Lift` and
`EndLift` are the two ends of the lift's transaction. An insert waits for the uncommitted delete of
its key (`InsertReady`): that, and not the code, is what keeps a press from being lost, and it is why
the code creates and does not upsert.

*Composition.* In `ModelCalls` only the holder of the slot is at the door, it refunds exactly the
results that are not charged, and it releases when the door has answered. A stop of the process
clears admission and the registry; the row and an undone lift remain. There is still no feature that
makes this call, so the holder is the protocol both interfaces document. The probe a cache would ask
(`probeLocalLlm`) registers and reads in the same order and is left out.

### SignIn

*State.* One account: `password` and `secret` (secret 0 is no second factor). Passwords are numbers
never used twice. `secret` stands for the stored ciphertext, which is what `acceptTotpCode` compares
(`totpAcceptance.ts:98-103`); encryption draws a new vector each time (`crypto.ts:64-66`), so an
enrolment stores a new one even when the form brings a base32 secret that was disabled before.
Disabling forgets the last step, so the codes of such a secret start afresh: `CodeSpentOnce` speaks
of one enrolment. Beside them stand `lastStep` and `recovery`. Its rows: `status` and `token` of
each session, `challenge` of each sign-in that waits for its code. Row locks on the account, the
sessions and the challenges. Each request holds the cookie it presented (`self`, `presented`), what
it read (`readPassword`, `readSecret`) and the rows its statement has still to visit (`want`).
History variables record what each session and challenge was proved with.

*Steps.* A request that is one read and one transaction is that read and then one step per
statement. Under read committed a statement judges rows as committed when it starts, visits them one
by one, waits for a locked row and judges it again; a circle of waiting transactions ends with an
abort and, where the code retries, another attempt. `PasswordStep` and `CodeStep` are the two forms;
`Reauthenticate` and `Judged` the shared proof of a factor; `Prove` and `Rotate` the two guarded
updates of `commitWithRotatedToken`; `Claim` and `Consume` those of the challenge; `SpendStep` and
`SpendRecovery` those of a code; `LockAccount` the predicate `signInFactorsStillCurrent` on the
account's row; `FindChallenges`, `EndChallenge`, `FindSessions`, `EndSession` the two sweeps of a
revocation, whose order matters (`PendingSignInsEnd`). `Logout`, `EndOne`, `AbandonReset` and the
two expiries complete the module.

### Transactions, Tags and Ledger

`Transactions` keeps `partner` (`transferPairId`), `parts` and the row locks, and each request the
legs it is about, the rows its statement still wants and what it will clear, delete and drop when it
commits. `Link` is the pair of guarded updates of `linkInside`, which locks its legs in the order of
their ids (`NextInOrder`); `FindCut`, `FindParts` and `Commit` the split, whose parts are named by the
edit that wrote them; `FindPair`, `CutOne` and `StillMatches` the undo; `DeleteOne` and
`FindOtherLegs` a deletion with the foreign key that clears the other leg.

`Tags` keeps tags as numbers, so that a name deleted and typed again is another tag, and `links`. An
edit resolves its names (`Select`, `Insert`, `InsertAgain`, `Update`), reads its links, inserts,
removes and prunes, each statement a step; `LinkDangles` is the foreign key failure that sends it
back to the resolution, at most `MaxLinkAttempts` times. `AskBulk`, `AskUndoBulk`, `RenameTag` and
`DeleteTag` are the other operations. `Break` is a statement that throws, or a stop of the process
before it: the request ends `failed` before its removal, `halfway` at it and `unpruned` at its prune,
with the links as they then are. Only the prune comes after the removal, so `FailedEditsUnlinkNothing`
is about the first two.

`Ledger` runs both over one set of stored transactions; a deletion cascades into `links`. Only a
deletion changes what both use, so a request about tags runs beside requests about tags and deletions
only: the states of the two add up instead of multiplying.

### Imports, NetWorth and Books

`Imports` names a row by its deduplication key, so what is stored is `holder`, the batch that holds
each key; the unique index makes that a function. A reading is what one parse yields of one file, so
the same statement under other columns is another reading. Its period is an interval of days, and a
row has a magnitude and a direction. The collision guard is three reads: `ReadKnown` (one row of the
file is stored, and the rest is left to deduplication), `ListCandidates` (the batches whose interval
overlaps) and `Compare` (the count, the debits and the credits of each, `SameFigures`). A reading
with every direction swapped is another statement to this guard, on purpose (`collision.ts:35-37`):
only the mirror read of a single row (`CheckMirror`) looks across directions. The write is
deliberately no transaction in the code, and each of its statements is a step here: `CreateBatch`,
`Prepare`, for each row `CheckMirror` (when the member answered a direction), `CheckRow`,
`InsertRow` or `InsertConflicts` and `Requery`, and `WriteParts`, then `CountRows`, `RecordCounts`,
`ApplyRules`; a statement that throws goes to `Failed`, `CleanUp` or an answer, as
`classifyWriteFailure` decides. A correction then weighs its count against what it replaces
(`Weigh`) and deletes the earlier batch (`FindBatch`, `RemoveBatch`).

`NetWorth` keeps the link of each bucket, whether it has a connection, and the lines with their
headline and snapshots. `EditLine`, `DeleteLine`, `LinkBucket` and `RecordBalance` are transactions
and one step each on the serialised SQLite connection; linking the manual bucket, a sync and a
reconnection are several steps; `Restart` boots through the repair of contested lines.

`Books` has both in one process, which stops as a whole. They share no row, so a behaviour has
requests of only one of them.

### Seal and SealVerifier

*State.* `log` is every line in the order of writing. A line is a number (its text, which no other
line has), its start (`boot`), its host tag, `seq`, `prev` and, for a checkpoint, the segment and the
root, which is the set of the lines the segment covers: a hash that no two segments share. Numbers
grow with the log and a copy keeps the order of its lines, so a copy is the set of its lines too, and
first, last, before and after are read off the numbers.
`linkFile` and `volumeFile` are the two state files, `run` the process of each host (its `ChainState`,
its `SealState`, the links it read), `backup` a copy of the state files.

*Steps.* `ReadLinks` and `Start` are the two halves of `startSeal`; `StartUnsealed` a start whose
seal is off or has no key. `Write` is `emit`. `Checkpoint` closes the segment and opens the next one
with the checkpoint line itself; `RecordHost` and `RecordVolume` write the files, each of which may
fail silently. `Stop` runs the checkpoint of the exit hooks first; `Kill` may fall between any two.
`Restore` puts back files older than the log.

*The verifier* is one operator per finding: `ChainHolds`, the roots and segments (`Verified`), the
link through the volume (`VolumeLinkFindings`), the link through the host (`HostLinkFindings`), the
target of a link (`CheckHeld`) and the tail rule (`Ended`). `Status` weighs them. The properties ask
it about the whole log, every copy cut by rotation, and the lines of one container.

### AttemptBudget

`row` is the table: when each call's row was created, or none. A claim is `Open` (the window is
fixed), two `Count`s in either order, `Refuse` or `Insert`, `Recount` (a new window), two `Count`s
again, and `Admit` or `Withdraw`. `SettleWrong` and `SettleRight` are the two outcomes of
`settleAttempt`, and `Break` is an error or a stop between any two statements. `Sweep` deletes
expired rows on behalf of other kinds of attempt.

*The exact promise.* The comment of `claimAttempt` says that at most the maximum is admitted per
window, whatever the concurrency. The recount's window begins at the recount and not at the
insert, so a row written `Window` before the last count may already be outside it. The bound
holds exactly for rows written within `Window - SlowestClaim` of each other, where `SlowestClaim`
is the longest a claim takes from its start to its last count (milliseconds against fifteen
minutes). `BudgetKept` states that.

The kinds that check first and record afterwards (registration, invitation, re-authentication,
import) make no promise under concurrency and are left out.

### SqliteSerializer and AtomicStore

A call is a base query or a transaction, made once. The promise chain of `createLock` is `ticket`
(the place of a hold) and `settled` (the holds that are released): a call may run when every
earlier hold is settled (`MyTurn`), and releasing settles the call's own promise, so that
releasing twice does nothing. The connection is `open`, `pending` and `durable`: a write goes to
`pending` inside BEGIN, whoever makes it, and to `durable` outside. `mutex` is the driver's
private one.

Steps are what runs between two awaits. `Begin` takes the mutex and runs BEGIN, which fails inside
another transaction and leaves the mutex taken (the permanent stop the source describes).
`Commit`, `CommitThrows` (the transaction stays open, or is gone) and `RollBack` are what the
Prisma client sends; `CloseCommitted`, `CloseRolledBack`, `UnlockRolledBack` and `Leave` are
`commit()` and `rollback()` with their awaits; `CloseAgain` is a second close at any later time;
`ArriveInside` is a query on the global client made inside a transaction's callback.

`AtomicStore` is what callers may rely on: a call is answered once, with everything it wrote kept
and the store it read at that same point, or with a failure and nothing kept. `AllOrNothing` is
that specification under the mapping `store <- durable`, `answer <- Answer`, where `Answer` is the
failure, or the record of what the call's first statement saw and of all it wrote. A transaction
that lost isolation would have read an older store than the one it commits to; a query that joined
a transaction would be answered while its write is only pending. Both break the mapping.

External and assumed: one connection; the driver's mutex is freed once per transaction; the
transaction timeout of the Prisma client always fires; a statement after the timeout is refused by
the client and never reaches the adapter. Left out: savepoints, the disposal of the connection,
a ROLLBACK that fails because the handle is dead.

## The runs

| Run | Question | Bounds, and why they are enough |
|---|---|---|
| BankSyncCoverage | does anything fall behind the cursor? are unattended syncs spaced? | One connection, two buckets (one can be attached while the other is fetched), two syncs, a first consent and a renewal, one booking that may be a day late, three days and an interval of two. The overlap is one day and the lookback four, so the window is bounded by the cursor and not by the lookback. |
| BankSyncReconnect | is a request honoured once, across deletion, relink and replay? | Two connections and two concurrent callbacks over one bucket, consents that lapse or do not: the smallest instance with a deletion under a running callback and a replay of one. |
| BankSyncSkipped | finding 1 | expected to be violated |
| BankSyncStaleExpiry | finding 2 | expected to be violated |
| AdmissionSafety | slot, room, quota, newest wins, opt-out | Two members, four live requests, room depth 0 (so the one extra place is reached), quota 2, one opt-out each. |
| AdmissionLive | does a halt reach every call and answer, can a halt be lost, does a waiting member starve? | Two members, three requests, depth 1; request ids are reused, so a member may ask for ever. Two presses: one finds the row of another that has not aborted yet. Administrators act beside one request, because the room and the switch share the holder only; without that bound the three safety properties hold in 2.5 million states too. |
| SignIn | does a session, a challenge or a code outlive its proof? | Two requests of any kind, two sessions and one challenge from before, two time steps, two attempts of an aborted transaction: a proof, the change that undoes it, and the session it opens. |
| Ledger | do pairs, parts and tags survive concurrent requests? | Three requests over three transactions (a circle of pairs, and a pair taken over while it is undone), three names, a cap of one tag, two link attempts, a statement that throws anywhere in a request about tags; such a request has one other beside it. |
| Books | what may a correction lose, what does a count say, which bucket feeds a line? | Two imports, corrections or cancellations beside a stored one, over seven rows in six readings of five days, with one failing statement: the readings overlap in part, share a boundary day or are apart, overlap is not transitive, two rows mirror two others, and of the four readings of one count and one total two agree in debits and credits (the case excused for a third request that deletes a row is out of these bounds, and inside the theorem); or three net worth requests and syncs over two lines, two bank buckets (one an orphan) and the manual one, three snapshots; one restart. |
| Seal | what does the verifier say of a log nobody touched? | Two hosts over one directory, three starts, six lines, one failed write of a state file: two full segments, or three starts of which the middle one dies before, during or after its checkpoint; the copies are all the suffixes. They hold for seven lines without a failed write too (1.9 million states). |
| AttemptBudget | is the budget kept in a burst? do only failures cost? | Three attempts against a budget of one: two can pass the first count and a third can arrive later. One account from two addresses tells the two counters apart. Five ticks reach the retention of four windows. |
| SqliteSerializer | are calls atomic, handovers clean, everybody served? | Two queries, two transactions of two statements: one transaction can be partly done while another and a query wait, and a query can wait inside the transaction it waits for. |

`CHECK_DEADLOCK FALSE` is set for BankSync, whose clock, ids and requests are used up, and for
SqliteSerializer, whose calls are each made once; both really stop.

`SignIn`, `Ledger`, `Books` and `Seal` end in a step that does nothing once everything is answered, so that
a deadlock of the code would be found as one.

*Fairness.* Safety runs assume none. `NobodyStarves` assumes that a call at the door goes on
(every await there is a database read or a fetch with a time limit) and that every ticket is released
(`WF(Release)`), which the interface requires of a holder's `finally`. `EveryoneServed` assumes
that a call which can move does: promise continuations run, and the transaction timeout of the
Prisma client ends a transaction that is not ended otherwise.

## Findings

 1. *A first consent can lose bookings* (`BankSyncSkipped`). The comment at `service.ts:368` says
    that a new connection has no cursor to protect. It is visible from its creation on, before its
    buckets are attached. A sync in between fetches nothing, finds the linked set unchanged and
    empty at its second read, and writes the cursor; the bucket attached next is asked for from
    the overlap only, and nothing clears the cursor of a first consent.
 2. *A renewal can be left expired* (`BankSyncStaleExpiry`). A sync reads a lapsed connection and
    writes `status = 'expired'` by id (`service.ts:534`). A renewal that lands between the two is
    undone: a fresh consent, marked expired, and every later sync answers *unavailable*.

The same module shows a smaller matter that breaks no stated promise: the relink of an orphan
bucket is an update by id (`persist.ts:274`), so of two callbacks that saw the same orphan the
later one wins. No booking is lost by it.

## Known gaps

Stricter forms of some properties do not hold; the checked form names the case it excuses, by a
history variable, and so records the gap exactly.

 - *A correction can lose a row* (`NothingLostUnlessShared`). The rows of a correction that are
   stored already, in the batch it replaces, are skipped as duplicates; when enough others land, the
   guard on the counts passes, and the replaced batch is deleted with them. The row is then stored
   nowhere. `columns/+page.server.ts:669`; `persist.ts:701-706` describes that end and guards the
   mirrored row only.
 - *Overlapping imports double* (`DoubledOnlyIfOverlapped`): of imports whose periods overlap and
   whose count, debits and credits agree, the collision guard compares with what was stored when it
   looked (`collision.ts:145`). It also compares not at all when a row of the file is stored
   already, which may no longer be so when the file is written (`collision.ts:127-148`).
 - *A bucket taken and given back* (`NothingSkippedUnlessRaced`): a renewal tells what it attached by
   two reads of the linked set (`service.ts:360-405`), and a bucket that left and returned between
   them keeps a cursor that does not cover it.
 - *A bucket that returns contests a line* (`FedOnceUnlessReturned`): a reconnection re-attaches an
   orphan with the link it has, until the next boot repairs it (`persist.ts:272-277`).
 - *An overtaken undo leaves half a pair* (`PairsMutualUnlessOvertaken`): with three requests, one leg
   is unlinked and linked elsewhere after an undo read the pair, and the undo clears one row
   (`transferPairs.ts:127-135` says none or two).
 - *A log cut by rotation can read broken* (`UntouchedNotBroken`), as if a start had been removed,
   although `logging-howto.md:757-774` promises `unverified` for what happened: when the copy begins in
   a start that holds no checkpoint there and the next start links to one rotated away
   (`verify.ts:353`), and when a start's link is behind, after a kill, a failed write or a restore, and
   its target was rotated away (`verify.ts:375`). With two containers writing at once a cut copy may
   also read broken. The whole log never does.
 - *The tag cap adds up* (`CapKeptUnlessRaced`): it is checked on what one edit asks
   (`tags/service.ts:183-185`), and two edits of one transaction that overlap may exceed it.
 - *Unused tags* (`OrphansExplained`): a bulk over the cap leaves the tag it created, a request that
   breaks leaves what it resolved or would have pruned, and deleting transactions leaves their tags.
 - A manual bucket may be linked to a line that is deleted meanwhile: `setManualAccountNetWorthLink`
   is several statements. `BankLinksStand` is about bank buckets for that reason.
 - A sync writes through the links it read when it began.
 - On PostgreSQL and MariaDB the link, headline and repair transactions could interleave between
   their read and their write; `NetWorth` is the serialised SQLite connection.

## What is proved

| Theorem | For every value of the constants |
|---|---|
| `BankSyncProofs!TypeCorrect` | rows and locals keep their shape |
| `BankSyncProofs!RequestsSingleUse` | an authorization request is honoured at most once |
| `BankSyncProofs!NothingFallsBehind` | `NothingSkippedUnlessRaced`: no booking of a linked bucket falls behind the cursor unfetched, outside the five races |
| `BankSyncProofs!UnattendedSyncsSpaced` | unattended syncs are an interval apart, assuming `SlowestSync < Throttle` and that no caller forces (none in `src/` does) |
| `AdmissionProofs!AdmissionTypes`, `OneGeneration`, `RoomNeverOverfull`, `QuotaNeverExceeded`, `NewestOnly`, `OptOutRespected` | every safety property of `Admission` |
| `AttemptBudgetProofs!AttemptTypes`, `BurstsAreBounded`, `CountersAreFailures` | every safety property of `AttemptBudget` |
| `SignInProofs!SignInTypes`, `SessionsEndWithTheirProof`, `ChallengesEndWithTheirProof`, `NoCodeTwice`, `NoSessionReturns`, `NoChangeOnOldProof`, `RevocationEndsSignIns` | every property of `SignIn` |
| `LedgerProofs!TransactionTypes`, `PairsStayMutual`, `PartsOrPair`, `PartsOfOneEdit`, `LinkingNeverCircles` | every property of `Transactions`, of the behaviours of `Ledger` |
| `LedgerProofs!LedgerKeepsTransactions` | `Ledger` implements `Transactions`: for the transactions, requests about tags are a stutter |
| `LedgerProofs!TagTypes`, `OrphansAreExplained`, `FailedEditsAreNoOps`, `CapIsKept` | every property of `Tags`, of the behaviours of `Ledger` |
| `LedgerProofs!LedgerKeepsTags` | `Ledger` implements `Tags`: for the tags, requests about transactions are a stutter or delete transactions |
| `BooksProofs!LinesFedOnce`, `LinksStand`, `HeadlinesNewest` | every property of `NetWorth`, of the behaviours of `Books` |
| `BooksProofs!BooksKeepNetWorth` | `Books` implements `NetWorth`: for the net worth, imports are a stutter |
| `BooksProofs!ImportTypes`, `NothingLost`, `RefusalsAreTrue`, `FiguresAreTheLedger`, `DoublesAreExplained` | every property of `Imports`, of the behaviours of `Books` |
| `BooksProofs!BooksKeepImports` | `Books` implements `Imports`: for the imports, net worth is a stutter, and a restart a stop of the process |
| `AdmissionProofs!HaltIsImmediate`, `OutputsHalt`, `HaltOutlivesLifts` | the safety properties of `ModelCalls` |
| `SealProofs!SealTypes`, `UntouchedIsNotBroken`, `OrderlyIsVerified`, `VerifiedIsSealed` | every property of `Seal`: what the verifier answers about each log the program can write |
| `SqliteSerializerProofs!SerializerTypes`, `HandoverIsClean`, `SerializerIsAtomic` | handovers are clean, and `SqliteSerializer` implements `AtomicStore` |

Assumptions are the named `ASSUME`s of the modules (sentinels are not data, limits are natural
numbers, `PostDelay <= Overlap`, `SlowestClaim <= Window`; the names of tags and the rows of files
are finitely many, the tags of the initial links are within the cap, `None` is no checkpoint's name). Where a module is instantiated by a
composition, its assumptions are an operator (`TransactionConstants`, `TagConstants`,
`WorthConstants`, `ImportConstants`), assumed by the composition.

*The arguments.*

- *Types of BankSync.* `TypeOK` is not inductive alone: a statement writes what an earlier
  statement of its call read. `TypeInv` adds that the locals a step will use are set.
- *Single use.* A request is honoured only on leaving `pending`, and nothing returns it there.
- *The cursor.* `VouchInv` says what a cursor is worth: every booking of a linked bucket older than
  the overlap, and not too old to be asked for, is stored, or a renewal in flight still counts the
  bucket as attached and will clear the cursor (`CursorVouches`). A sync carries that through its
  statements: the cursor it started from vouches for the buckets it reads, each bucket it fetched is
  vouched for by its own start (the window covers what its cursor does not, `FetchVouches`), and what
  its second read confirms is vouched for by the cursor it will write (`SyncVouches`). Time keeps all
  of it (`StaysVouched`): what the bank posts late is inside the overlap, because
  `PostDelay <= Overlap`.
- *Spacing.* `lastSyncAt` has four writers. `ThrottleInv` says that it equals the start of the last
  claim, that the call past its claim is the last claimant, and that a claim still to come read a
  stamp at least an interval old. A late finish would write an older stamp over a newer claim;
  `SlowestSync < Throttle` excludes it, because then every call past an earlier claim has ended.
- *Admission.* `IInv` says the room is exactly the waiting calls, one per member; the slot is never
  free while somebody waits; a waiting member's starts are below the quota (so the quota checked on
  arrival still holds when the start is charged, because only the waiting request can start
  meanwhile); and a call with the present epoch belongs to a member with the AI on, or whose
  cancellation is still to come.
- *Attempts.* A call that passed its second count is admitted, or has one dimension left. When it
  passes, it counts its own row and the row of everyone who passed before it in the stretch, so the
  set of those who passed never exceeds the maximum. `TimeOK` keeps the recount's window early
  enough for every row of the stretch, and `RowOK` keeps those rows in the table.
- *Serializer.* `Exclusion`: two holders would each have an earlier ticket than the other. So an
  open transaction belongs to the holder, `pending` is exactly what that holder wrote, and `durable`
  has not changed since it first read. A first close ends the transaction before the release, and
  a second close is past `closed` and holds neither lock nor mutex any more.

- *Sign-in.* `IInv` joins, for each request, what its locals may be (`Fits`, `Fresh`, `About`), the
  locks its place implies (`Locks`), that what it proved still holds once the row it proved it
  against is locked (`Claimed`, `Proven`), and that a revocation has visited or still wants every
  challenge and every session there is to end (`SweepsChallenges`, `SweepsSessions`). A change of
  a factor takes the account's lock last, so a sign-in that commits before it is seen by the sweep,
  and one that commits after it fails the predicate.
- *Transactions.* `IInv` says what a row lock is worth: while a request holds a row, nobody else
  writes it, so what a statement judged is still so at the commit (`Mutual`, `Rows`). Link requests
  wait only for a leg above those they hold, and a circle would have to descend somewhere.
- *Tags.* `TagIInv` says what an edit in flight still holds: the names it has resolved, each once
  (`Resolving`), and the links it read, which nobody else has touched unless it is marked
  (`UpToDate`). Links go at one statement, which only the prune follows (`Placed`), so a request
  that breaks before or at it has removed nothing. A tag without links is in the hands of somebody
  who will find, link or prune it (`Handled`), and a transaction past the cap is one whose edit has
  still to remove, or broke there (`Capped`).
- *Imports.* `ImportInv` follows the rows of each request: those still to write, those stored under
  its batch, those skipped and why (`Stands`, `SkipsOnce`, `Counts`); what a correction may delete
  is weighed against them (`Safe`); what one request found stored, or compared with, is what another
  holds, or was deleted since (`Known`, `Compares`); the batches listed are compared later, so what
  a finished import holds is followed through the list (`Weighed`). The counts are about the
  cardinality of the batch, so `SkipsOnce` keeps a row from being counted twice.
- *Net worth.* `WorthInv` says which buckets feed each line in terms of the links, what a running
  sync or reconnection may still write, and that a snapshot is entered in the order of the clock.
- *Model calls.* `HaltInv`: the row is present and no press is between its write and its aborts only
  if every call past its read was aborted. A call cannot pass its read while the row is there; a
  press that makes the row is followed by its own aborts. `RowStands`: a halt was found standing
  only outside a lift, and a lift begins by withdrawing that.

- *Seal.* The invariant says in which logs the verifier is asked, and then what it finds in such a
  log, in two halves. `SealInv` is about the log: each line follows the newest of its boot, or opens
  it (`Chained`); no other boot of its host comes between two lines of one (`HostBlock`); a checkpoint
  covers what its boot wrote since it was opened (`Segmented`); and a link names a checkpoint of its
  host that a start has taken already, or after which the host wrote checkpoints of that boot only
  (`UnlessTaken`), which is why a link to an older start can only be read as a fork. It holds with
  several containers, kills, failed writes and restored files: a process that is up continues the
  newest line of its host (`Running`), and the files and their copy name what a next start may link
  to (`FilesOk`, `BackupOk`). While processes run one by one, no boot begins inside another
  (`AloneOk`), starts that are not `behind` link to the newest checkpoints (`BehindOk`), and orderly
  ones close each boot with a checkpoint (`OrderlyOk`). The other half is about any such set of lines,
  cut anywhere and for any hosts: what a cut leaves of a boot has its chain and its later roots
  (`ChainOfEnd`, `RootOfEnd`, `SegmentOfEnd`), and each finding about a link is traced back to a line
  that the cut removed (`VolumeLinkFinds`, `HostLinkFinds`). The segments are counted by
  `Cardinality`, so the order in a copy needs no recursion.

*What the proofs found.* Four statements that TLC had accepted within its bounds were false beyond
them, and are now stated with the case they missed, or the model corrected:

 - the bucket taken and given back (race 5 of `BankSync`, above);
 - a row can be the duplicate of the batch a correction replaces at its insert too, when the batch
   stored it after the check (`Requery`, `persist.ts:1062-1089`): `shared` records both places;
 - a row that a request had found stored, and so left to deduplication, may be deleted by a third
   request before the comparison that it would have failed (`absorbed`, `DoubledOnlyIfOverlapped`);
 - one deletion takes several transactions at once, and with them the links of all: in `Tags` it was
   one transaction a step, which `Ledger` does not implement.

*Only model-checked.* The liveness properties `NobodyStarves` and `EveryoneServed`. Liveness under
fairness, ENABLED and induction over data are out of the prover's reach; no module declares a
RECURSIVE operator.

## Not modelled

 - *Bank.* The PSD2 connector and its HTTP client; display columns.
 - *Sessions.* Deleting an account, registration and its session, the forced change of a password,
   the idle clock and the record of use, the shared lock InnoDB takes for a foreign key, the
   budgets of attempts that check first. Cryptography.
 - *Import.* Parsing (CSV, XLSX, dates, signs), the recognition of columns, the category rules a row
   is given, the recomputation of the deduplication keys.
 - *Transactions and tags.* Edits of a category or a nature, batch edits, listings; the colour of a
   tag and the other resolves of a failed attempt that go on while the next begins.
 - *Database helpers.* The advisory lock: it needs the sessions of a server engine.
 - *Models.* The parsing and bounds of an answer, the model pin.
 - *Log seal.* Levels, the flood gate (its summaries are lines like others), the text of lines and
   notes, the Merkle tree as a hash, signatures, two processes that create the key at once, files lost
   with the cache of the file system. Lines removed or edited: the properties are about logs that
   nobody touched.
 - Backup and restore, categories, naming: later candidates. The read models (budget,
   forecast, dashboard, reports) and the pages keep no state that interleaves.

The components listed as not modelled in `PROJECT.json` each carry the reason. The repository is large
and mostly pages, readers and read models; the models cover the parts where an order of steps can be
wrong, which is a small share of its lines.

## Plan

In order of importance; each with its own invariant, mutants and proofs.

 1. The advisory lock of the boot backfills, with the sessions of a server engine.
 2. The composition of `BankSync` with `NetWorth`: a balance and a booking of one sync.
 3. Allocation and apportionment as functions, against a reference definition.
