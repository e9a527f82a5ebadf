-------------------------------- MODULE Seal --------------------------------
(***************************************************************************)
(* The log and its seal (src/lib/server/logging/core.ts, seal/sealer.ts):  *)
(* each line is a leaf of its segment, a checkpoint closes the segment and *)
(* is recorded in two files, and the next start links to what they name.   *)
(*                                                                         *)
(* A host is a host tag: a container, until it is recreated or the key is  *)
(* replaced.  Two may write to one seal directory.  A process writes in    *)
(* one thread, and may be killed between any two writes.  The timestamps,  *)
(* the summaries of suppressed lines, which are lines, and the levels are  *)
(* left out; so is the order in which a file system keeps what it was not  *)
(* told to flush.                                                          *)
(***************************************************************************)
EXTENDS SealVerifier, Sequences

CONSTANTS
    Hosts,
    MaxLines,       \* of the log (a bound)
    MaxStarts,      \* of processes (a bound)
    MaxFaults       \* state files that cannot be written (a bound)

ASSUME SealConstants ==
    /\ MaxLines \in Nat
    /\ MaxStarts \in Nat
    /\ MaxFaults \in Nat

ASSUME NoneIsNoName == None \notin [boot : Nat, segment : Nat, root : SUBSET Nat]

VARIABLES
    log,            \* every line, in the order of writing
    linkFile,       \* last-checkpoint.<host tag>, by host
    volumeFile,     \* last-checkpoint.volume
    run,            \* the process of each host
    starts,
    faults,
    backup,         \* a copy of the state files
    \* History.
    orderly,        \* every process was sealed and recorded and stopped
    alone,          \* no two processes ran at once
    behind          \* starts that link to an older checkpoint than the newest

files == <<linkFile, volumeFile>>
vars == <<log, linkFile, volumeFile, run, starts, faults, backup, orderly, alone, behind>>

-----------------------------------------------------------------------------
(* A process: where it is, its ChainState and its SealState, the links it  *)
(* read and the checkpoint it has written and not yet recorded.            *)
Down == [at |-> "down", boot |-> 0, seq |-> 0, prev |-> 0, sealing |-> FALSE,
         leaves |-> {}, segment |-> 0, pending |-> FALSE,
         link |-> None, volumeLink |-> None, written |-> None]

AllDown == \A h \in Hosts : run[h] = Down

Becomes(h, p) == run' = [run EXCEPT ![h] = p]

(* emit: the line, and the process p of host h after it.                   *)
LineOf(h, p, event, root) ==
    [id |-> Len(log) + 1, boot |-> p.boot, host |-> h, event |-> event,
     seq |-> p.seq + 1, prev |-> p.prev, segment |-> p.segment, root |-> root,
     link |-> p.link, volumeLink |-> p.volumeLink]

Emitted(p, leaves) ==
    [p EXCEPT !.seq = @ + 1, !.prev = Len(log) + 1, !.pending = p.sealing,
              !.leaves = IF p.sealing THEN leaves \cup {Len(log) + 1} ELSE {}]

Emits(h, p, event) ==
    /\ Len(log) < MaxLines
    /\ log' = Append(log, LineOf(h, p, event, {}))

-----------------------------------------------------------------------------
Init ==
    /\ log = <<>>
    /\ linkFile = [h \in Hosts |-> None]
    /\ volumeFile = None
    /\ run = [h \in Hosts |-> Down]
    /\ starts = 0
    /\ faults = 0
    /\ backup = <<>>
    /\ orderly = TRUE
    /\ alone = TRUE
    /\ behind = {}

Written == {log[i] : i \in DOMAIN log}

Newest(S) ==
    LET marks == {m \in Marks(Written) : m.host \in S} IN
    IF marks = {} THEN None ELSE NameOf(LastOf(marks))

(* startSeal: the key opens, and the two files are read.                   *)
ReadLinks(h) ==
    /\ run[h] = Down
    /\ starts < MaxStarts
    /\ starts' = starts + 1
    /\ Becomes(h, [Down EXCEPT !.at = "read", !.boot = starts + 1,
                               !.link = linkFile[h], !.volumeLink = volumeFile])
    /\ alone' = (alone /\ AllDown)
    /\ behind' = IF linkFile[h] = Newest({h}) /\ volumeFile = Newest(Hosts)
                 THEN behind ELSE behind \cup {starts + 1}
    /\ UNCHANGED <<log, files, faults, backup, orderly>>

Start(h) ==
    LET p == [run[h] EXCEPT !.at = "up", !.sealing = TRUE] IN
    /\ run[h].at = "read"
    /\ Emits(h, p, "started")
    /\ Becomes(h, Emitted(p, {}))
    /\ UNCHANGED <<files, starts, faults, backup, orderly, alone, behind>>

(* The seal is off, or its key cannot be used.                             *)
StartUnsealed(h) ==
    LET p == [Down EXCEPT !.at = "up", !.boot = starts + 1] IN
    /\ run[h] = Down
    /\ starts < MaxStarts
    /\ starts' = starts + 1
    /\ Emits(h, p, "line")
    /\ Becomes(h, Emitted(p, {}))
    /\ orderly' = FALSE
    /\ alone' = (alone /\ AllDown)
    /\ UNCHANGED <<files, faults, backup, behind>>

Write(h) ==
    /\ run[h].at = "up"
    /\ Emits(h, run[h], "line")
    /\ Becomes(h, Emitted(run[h], run[h].leaves))
    /\ UNCHANGED <<files, starts, faults, backup, orderly, alone, behind>>

-----------------------------------------------------------------------------
(* checkpoint, at the interval and when the process stops: the line, which *)
(* opens the next segment, and then the two files.                         *)

OnlyAfterLines(p) ==                               \* mutant: not for seal_started alone
    p.at = "up" /\ p.pending /\ Cardinality(p.leaves) > 1
Due(p) == p.at = "up" /\ p.pending

(* The checkpoint line is leaf 0 of the next segment.                      *)
ClearedAfter(p) == [Emitted(p, {}) EXCEPT !.leaves = {}]   \* mutant: the other order
NextSegment(p) == Emitted(p, {})

Checkpoint(h) ==
    LET p == run[h] IN
    /\ Due(p)
    /\ Len(log) < MaxLines
    /\ log' = Append(log, LineOf(h, p, "checkpoint", p.leaves))
    /\ Becomes(h, [NextSegment(p) EXCEPT
                     !.at = "record", !.segment = @ + 1, !.pending = FALSE,
                     !.written = Named(p.boot, p.segment, p.leaves)])
    /\ UNCHANGED <<files, starts, faults, backup, orderly, alone, behind>>

(* writeLinkedCheckpoint: a failure is not reported.                       *)
Records(old, new) ==
    \/ new /\ UNCHANGED <<faults, orderly>>
    \/ old /\ faults < MaxFaults /\ faults' = faults + 1 /\ orderly' = FALSE

RecordHost(h) ==
    /\ run[h].at = "record"
    /\ Records(UNCHANGED linkFile, linkFile' = [linkFile EXCEPT ![h] = run[h].written])
    /\ Becomes(h, [run[h] EXCEPT !.at = "recordVolume"])
    /\ UNCHANGED <<log, volumeFile, starts, backup, alone, behind>>

RecordVolume(h) ==
    /\ run[h].at = "recordVolume"
    /\ Records(UNCHANGED volumeFile, volumeFile' = run[h].written)
    /\ Becomes(h, [run[h] EXCEPT !.at = "up", !.written = None])
    /\ UNCHANGED <<log, linkFile, starts, backup, alone, behind>>

(* The process stops once its checkpoint is written, or is killed.         *)
Stop(h) ==
    /\ run[h].at = "up"
    /\ ~Due(run[h])
    /\ Becomes(h, Down)
    /\ UNCHANGED <<log, files, starts, faults, backup, orderly, alone, behind>>

Kill(h) ==
    /\ run[h] # Down
    /\ run[h].at # "up" \/ Due(run[h])
    /\ Becomes(h, Down)
    /\ orderly' = FALSE
    /\ UNCHANGED <<log, files, starts, faults, backup, alone, behind>>

-----------------------------------------------------------------------------
(* The operator copies the volume while nothing runs, and puts the copy    *)
(* back later.                                                             *)
BackUp ==
    /\ AllDown
    /\ starts < MaxStarts         \* else nothing reads the files again
    /\ backup = <<>>
    /\ backup' = files
    /\ UNCHANGED <<log, files, run, starts, faults, orderly, alone, behind>>

Restore ==
    /\ AllDown
    /\ starts < MaxStarts
    /\ backup # <<>>
    /\ linkFile' = backup[1]
    /\ volumeFile' = backup[2]
    /\ backup' = <<>>
    /\ orderly' = FALSE
    /\ UNCHANGED <<log, run, starts, faults, alone, behind>>

(* Nothing is left to start or to write.                                   *)
Quiet == AllDown /\ UNCHANGED vars

Next ==
    \/ \E h \in Hosts :
          \/ ReadLinks(h) \/ Start(h) \/ StartUnsealed(h) \/ Write(h)
          \/ Checkpoint(h) \/ RecordHost(h) \/ RecordVolume(h)
          \/ Stop(h) \/ Kill(h)
    \/ BackUp
    \/ Restore
    \/ Quiet

Spec == Init /\ [][Next]_vars

-----------------------------------------------------------------------------
(* The copies: the log, or the lines of one container, from some line on.  *)
(* A process may be killed after any line, so each log there can be is     *)
(* also one of a moment when all are down, and before any backup: the      *)
(* properties look then.                                                   *)
AtRest == AllDown /\ backup = <<>>

From(n) == {log[i] : i \in n .. Len(log)}
OfHost(c, h) == {l \in c : l.host = h}
Suffixes == {From(n) : n \in DOMAIN log}
Copies == Suffixes \cup {OfHost(c, h) : c \in Suffixes, h \in Hosts}

(* verify.ts:11-20, logging-howto.md:757-774.  An untouched log is never   *)
(* broken, whatever was killed, unsealed, restored or written beside it.   *)
(* Cut by rotation, it may read as if a start were removed, but only when  *)
(* the copy begins in a start that holds no checkpoint there, or the link  *)
(* is behind, because a process died or failed before it recorded its own. *)
RemovedByRotation(c, f) ==
    /\ f[2] = "missing-start"
    /\ Held(LinesOf(c, FirstOf(c).boot)) = {} \/ f[3] \in behind

UntouchedNotBroken ==
    AtRest =>
        /\ Breaks(Written) = {}
        /\ alone => \A c \in Suffixes : \A f \in Breaks(c) : RemovedByRotation(c, f)

(* logging-howto.md:745, 756.  The log of sealed processes that stopped    *)
(* one after another is verified, under any host names; so is each copy    *)
(* cut by rotation that still holds a segment.                             *)
OrderlyReadsVerified ==
    AtRest /\ orderly /\ alone /\ log # <<>> =>
        /\ Status(Written) = "verified"
        /\ \A c \in Suffixes : Status(c) \in {"verified", "nothing"}

(* logging-howto.md:756.  A verified copy has each of its lines under a    *)
(* checkpoint whose lines are all there, apart from the first lines of the *)
(* start in which a copy cut by rotation begins, between which another     *)
(* container may have written, and the newest lines.                       *)
Whole(c) == {m \in Marks(c) : m.root \subseteq {l.id : l \in c}}

HeadLines(c) ==
    {l \in c : /\ l.boot = FirstOf(c).boot
               /\ \A m \in LinesOf(c, l.boot) : m.id <= l.id => m.event = "line"}

Accounted(c) ==
    \A l \in c \ Marks(c) :
       \/ \E m \in Whole(c) : l.id \in m.root
       \/ l \in HeadLines(c)
       \/ \A m \in Whole(c) : m.id < l.id

VerifiedMeansSealed ==
    AtRest => \A c \in Copies : Accounted(c) \/ Status(c) # "verified"
=============================================================================
