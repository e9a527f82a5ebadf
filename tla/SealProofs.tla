------------------------------ MODULE SealProofs ----------------------------
(* Theorems about Seal: what its verifier answers about the logs that the  *)
(* program can write, for every number of hosts, lines, starts and faults. *)
EXTENDS Seal, FiniteSetTheorems, WellFoundedInduction, SequenceTheorems, TLAPS

(* Checkpoint names, and what a link may hold.                             *)
Names == [boot : Nat, segment : Nat, root : SUBSET Nat]
Links == Names \cup {None}

Lines == [id : Nat, boot : Nat, host : Hosts, event : {"started", "line", "checkpoint"},
          seq : Nat, prev : Nat, segment : Nat, root : SUBSET Nat,
          link : Links, volumeLink : Links]

Procs == [at : {"down", "read", "up", "record", "recordVolume"}, boot : Nat, seq : Nat,
          prev : Nat, sealing : BOOLEAN, leaves : SUBSET Nat, segment : Nat,
          pending : BOOLEAN, link : Links, volumeLink : Links, written : Links]

Files == [Hosts -> Links] \X Links

Next1 == Len(log) + 1

(* The types.  A line is numbered by its place in the log.                 *)
TypeOK ==
    /\ log \in Seq(Lines)
    /\ linkFile \in [Hosts -> Links]
    /\ volumeFile \in Links
    /\ run \in [Hosts -> Procs]
    /\ starts \in Nat
    /\ faults \in Nat
    /\ backup = <<>> \/ backup \in Files
    /\ orderly \in BOOLEAN
    /\ alone \in BOOLEAN
    /\ behind \subseteq Nat
    /\ \A i \in DOMAIN log : log[i].id = i

-----------------------------------------------------------------------------
(* A segment of the boot b, before the line n: its checkpoints so far, the *)
(* line that opens the newest segment, and the leaves of that.             *)
MarksBefore(G, b, n) == {m \in G : m.event = "checkpoint" /\ m.boot = b /\ m.id < n}

OpensFor(G, b, n, o) ==
    /\ o.boot = b /\ o.id < n /\ o.event # "line"
    /\ \A m \in G : m.boot = b /\ o.id < m.id /\ m.id < n => m.event = "line"

SegmentFrom(G, b, n, o) == {m.id : m \in {x \in G : x.boot = b /\ o.id <= x.id /\ x.id < n}}

(* What a process knows of its segment (SealState, core.ts:110-118).       *)
Segmented(G, b, n, leaves, segment) ==
    /\ \E s \in G : s.boot = b /\ s.event = "started" /\ s.id < n
    /\ \E o \in G : OpensFor(G, b, n, o) /\ leaves = SegmentFrom(G, b, n, o)
    /\ IsFiniteSet(MarksBefore(G, b, n))
    /\ segment = Cardinality(MarksBefore(G, b, n))

Opened(G, l) == \A m \in G : m.boot = l.boot => l.id <= m.id

(* The chain (core.ts:278-300): a line follows the newest line of its      *)
(* boot, or opens it.                                                      *)
Chained(G, l) ==
    \/ l.prev = 0 /\ l.seq = 1 /\ Opened(G, l)
    \/ \E p \in G : /\ Follows(l, p) /\ p.id < l.id /\ p.boot = l.boot
                    /\ \A m \in G : m.boot = l.boot /\ m.id < l.id => m.id <= p.id

(* A host tag has one process at a time, so none of its other boots comes  *)
(* between two lines of one.                                               *)
HostBlock(G, l) ==
    \A k, m \in G :
       k.id < m.id /\ m.id < l.id /\ k.boot = l.boot /\ m.host = l.host => m.boot = l.boot

(* The checkpoints of the hosts S before the line n.  A link names one of  *)
(* them, or nothing; or it names the newest.                               *)
MarksOf(G, S, n) == {m \in G : m.event = "checkpoint" /\ m.host \in S /\ m.id < n}

Known(G, S, n, x) == x = None \/ \E k \in MarksOf(G, S, n) : NameOf(k) = x

NewestIn(G, S, n, x) ==
    \/ x = None /\ MarksOf(G, S, n) = {}
    \/ \E k \in MarksOf(G, S, n) :
          NameOf(k) = x /\ \A m \in MarksOf(G, S, n) : m.id <= k.id

(* A link that a start has taken already.                                  *)
Taken(G, n, x) == \E s \in G : s.event = "started" /\ s.id < n /\ s.link = x

(* After the checkpoint a host file names, its host wrote no checkpoint of *)
(* another boot, unless a start took that link: a second start that takes  *)
(* it is a fork.                                                           *)
UnlessTaken(G, h, n, x) ==
    \/ x = None
    \/ Taken(G, n, x)
    \/ \E k \in MarksOf(G, {h}, n) :
          /\ NameOf(k) = x
          /\ \A m \in MarksOf(G, {h}, n) : k.id < m.id => m.boot = x.boot

(* A line of the log G, by the lines before it.                            *)
LineOk(G, l) ==
    /\ Chained(G, l)
    /\ HostBlock(G, l)
    /\ \A m \in G : m.boot = l.boot => m.host = l.host
    /\ l.event = "checkpoint" => Segmented(G, l.boot, l.id, l.root, l.segment)
    /\ l.event = "started" =>
          /\ Opened(G, l)
          /\ Known(G, {l.host}, l.id, l.link)
          /\ UnlessTaken(G, l.host, l.id, l.link)
          /\ Known(G, Hosts, l.id, l.volumeLink)

LogOk == \A l \in Written : LineOk(Written, l) /\ l.boot \in 1 .. starts

-----------------------------------------------------------------------------
(* A process that has read the files and not written seal_started.         *)
Reading(h) ==
    LET p == run[h] IN
    /\ p = [Down EXCEPT !.at = "read", !.boot = p.boot, !.link = linkFile[h],
                        !.volumeLink = p.volumeLink]
    /\ \A l \in Written : l.boot # p.boot
    /\ Known(Written, Hosts, Next1, p.volumeLink)

(* The newest line of the process of h.                                    *)
NewestOf(h, l) ==
    LET p == run[h] IN
    /\ l.id = p.prev /\ l.boot = p.boot /\ l.host = h /\ l.seq = p.seq
    /\ \A m \in Written : m.host = h => m.id <= l.id
    /\ p.sealing => (p.pending <=> l.event # "checkpoint")
    /\ p.at # "up" => l.event = "checkpoint" /\ p.written = NameOf(l)

(* A process that writes.  Its segment is open, and the host file names    *)
(* what it linked to or a checkpoint of its own.                           *)
Running(h) ==
    LET p == run[h] IN
    /\ p.at \in {"up", "record", "recordVolume"}
    /\ \E l \in Written : NewestOf(h, l)
    /\ p.sealing =>
          /\ Segmented(Written, p.boot, Next1, p.leaves, p.segment)
          /\ \E s \in Written : s.event = "started" /\ s.boot = p.boot /\ s.link = p.link
          /\ linkFile[h] # p.link => linkFile[h] # None /\ linkFile[h].boot = p.boot
    /\ ~p.sealing =>
          /\ p.at = "up" /\ ~p.pending
          /\ \A m \in Written : m.boot = p.boot => m.event = "line"

(* The processes have boots of their own.                                  *)
ProcOk ==
    \A h \in Hosts : run[h] # Down =>
       /\ run[h].boot \in 1 .. starts
       /\ \A g \in Hosts : g # h => run[g].boot # run[h].boot
       /\ \A m \in Written : m.boot = run[h].boot => m.host = h
       /\ Reading(h) \/ Running(h)

(* The files name checkpoints of the log, and the file of a host one that  *)
(* no start has taken or that is followed by its own boot only.            *)
FilesOk ==
    /\ \A h \in Hosts : /\ Known(Written, {h}, Next1, linkFile[h])
                        /\ UnlessTaken(Written, h, Next1, linkFile[h])
    /\ Known(Written, Hosts, Next1, volumeFile)

(* The copy names checkpoints of the log.  A host link of it is taken      *)
(* already or is still the one on disk: the next start takes it, whichever *)
(* of the two it reads.                                                    *)
BackupOk ==
    backup # <<>> =>
       /\ Known(Written, Hosts, Next1, backup[2])
       /\ \A h \in Hosts :
             LET x == backup[1][h] IN
             /\ Known(Written, {h}, Next1, x)
             /\ \/ x = None
                \/ Taken(Written, Next1, x)
                \/ linkFile[h] = x /\ (run[h] # Down => run[h].boot # x.boot)

-----------------------------------------------------------------------------
(* No boot begins inside another.                                          *)
Blocks(G) ==
    \A k, m, l \in G : k.id < m.id /\ m.id < l.id /\ k.boot = l.boot => m.boot = l.boot

(* While no two processes ran at once.                                     *)
AloneOk ==
    alone =>
       /\ Blocks(Written)
       /\ \A h \in Hosts : run[h] # Down =>
             /\ \A g \in Hosts : g # h => run[g] = Down
             /\ run[h].at # "read" => run[h].prev = Len(log)

(* A start outside behind links to the newest checkpoints before it.       *)
Linked(S, T, n, b, link, volumeLink) ==
    b \notin behind =>
       /\ NewestIn(Written, S, n, link)
       /\ alone => NewestIn(Written, T, n, volumeLink)

BehindOk ==
    /\ \A l \in Written : l.event = "started" =>
          Linked({l.host}, Hosts, l.id, l.boot, l.link, l.volumeLink)
    /\ \A h \in Hosts : run[h].at = "read" =>
          Linked({h}, Hosts, Next1, run[h].boot, run[h].link, run[h].volumeLink)

Recording(h) == run[h].at \in {"record", "recordVolume"}

(* While no process failed, was killed or ran unsealed, beside no other:   *)
(* each boot is closed by a checkpoint or runs, and the files name the     *)
(* newest checkpoints but while they are being recorded.                   *)
OrderlyOk ==
    orderly /\ alone =>
       /\ behind = {}
       /\ \A l \in Written :
             /\ \E s \in Written : s.boot = l.boot /\ s.event = "started"
             /\ \/ \E m \in Written : /\ m.boot = l.boot /\ l.id <= m.id
                                      /\ m.event = "checkpoint"
                \/ \E h \in Hosts : run[h] # Down /\ run[h].boot = l.boot
       /\ \A h \in Hosts : run[h].at # "record" => NewestIn(Written, {h}, Next1, linkFile[h])
       /\ (\A h \in Hosts : ~Recording(h)) => NewestIn(Written, Hosts, Next1, volumeFile)

-----------------------------------------------------------------------------
(* Sets of lines, each with a number of its own.                           *)
Ordered(G) ==
    /\ G \subseteq Lines
    /\ \A l, m \in G : l.id = m.id => l = m
    /\ \E n \in Nat : \A l \in G : l.id <= n

LogIs(G) == Ordered(G) /\ \A l \in G : LineOk(G, l)

(* A set of numbers has a smallest one.                                    *)
LEMMA SmallestOf ==
    ASSUME NEW M, M \subseteq Nat, M # {}
    PROVE  \E m \in M : \A n \in M : m <= n
<1> DEFINE R == {ss \in Nat \X Nat : ss[1] < ss[2]}
<1>1. IsWellFoundedOn(R, Nat)
  BY NatLessThanWellFounded DEF OpToRel
<1> HIDE DEF R
<1>2. \E x \in M : \A y \in M : ~(<<y, x>> \in R)
  BY <1>1, WFMin, Zenon
<1>3. PICK m \in M : \A n \in M : ~(<<n, m>> \in R)
  BY <1>2
<1>4. ASSUME NEW n \in M PROVE m <= n
  <2>1. <<n, m>> \notin R /\ m \in Nat /\ n \in Nat
    BY <1>3
  <2> QED BY <2>1 DEF R
<1> QED BY <1>3, <1>4

(* The fields of a line.                                                   *)
LEMMA LineFields ==
    ASSUME NEW l \in Lines
    PROVE  /\ l.id \in Nat /\ l.boot \in Nat /\ l.host \in Hosts /\ l.seq \in Nat
           /\ l.prev \in Nat /\ l.segment \in Nat /\ l.root \subseteq Nat
           /\ l.event \in {"started", "line", "checkpoint"}
           /\ l.link \in Links /\ l.volumeLink \in Links
BY DEF Lines

(* A part of ordered lines is ordered.                                     *)
LEMMA OrderedPart ==
    ASSUME NEW G, Ordered(G), NEW L, L \subseteq G
    PROVE  Ordered(L)
BY DEF Ordered

(* A set of lines that is not empty has a first line and a last one.       *)
LEMMA FirstLine ==
    ASSUME NEW L, Ordered(L), L # {}
    PROVE  FirstOf(L) \in L /\ \A m \in L : FirstOf(L).id <= m.id
<1>1. \A l \in L : l.id \in Nat
  BY LineFields DEF Ordered
<1>2. \E l \in L : \A m \in L : l.id <= m.id
  <2> DEFINE M == {l.id : l \in L}
  <2>1. M \subseteq Nat /\ M # {}
    BY <1>1
  <2> HIDE DEF M
  <2>2. PICK i \in M : \A j \in M : i <= j
    BY <2>1, SmallestOf
  <2> USE DEF M
  <2> QED BY <2>2
<1> QED BY <1>2 DEF FirstOf

(* A set of lines has a last one.                                          *)
LEMMA LastLine ==
    ASSUME NEW L, Ordered(L), L # {}
    PROVE  LastOf(L) \in L /\ \A m \in L : m.id <= LastOf(L).id
<1>1. \A l \in L : l.id \in Nat
  BY LineFields DEF Ordered
<1>2. PICK n \in Nat : \A l \in L : l.id <= n
  BY DEF Ordered
<1>3. \E l \in L : \A m \in L : m.id <= l.id
  <2> DEFINE M == {n - l.id : l \in L}
  <2>1. M \subseteq Nat /\ M # {}
    BY <1>1, <1>2
  <2> HIDE DEF M
  <2>2. PICK i \in M : \A j \in M : i <= j
    BY <2>1, SmallestOf
  <2> USE DEF M
  <2>3. PICK l \in L : i = n - l.id
    OBVIOUS
  <2>4. \A m \in L : n - l.id <= n - m.id
    BY <2>2, <2>3
  <2> QED BY <1>1, <2>4
<1> QED BY <1>3 DEF LastOf

(* The line that none precedes is the first.                               *)
LEMMA FirstIs ==
    ASSUME NEW L, Ordered(L), NEW x \in L, \A m \in L : x.id <= m.id
    PROVE  FirstOf(L) = x
<1>1. FirstOf(L) \in L /\ FirstOf(L).id <= x.id /\ x.id <= FirstOf(L).id
  BY FirstLine
<1>2. FirstOf(L).id \in Nat /\ x.id \in Nat
  BY <1>1, LineFields DEF Ordered
<1> QED BY <1>1, <1>2 DEF Ordered

(* The line that none follows is the last.                                 *)
LEMMA LastIs ==
    ASSUME NEW L, Ordered(L), NEW x \in L, \A m \in L : m.id <= x.id
    PROVE  LastOf(L) = x
<1>1. LastOf(L) \in L /\ LastOf(L).id <= x.id /\ x.id <= LastOf(L).id
  BY LastLine
<1>2. LastOf(L).id \in Nat /\ x.id \in Nat
  BY <1>1, LineFields DEF Ordered
<1> QED BY <1>1, <1>2 DEF Ordered

-----------------------------------------------------------------------------
(* One boot of a copy.  EndOf(G, b, n) is what a copy cut at n has of the  *)
(* lines of the boot b of the log G: none is missing after the first.      *)
EndOf(G, b, n) == {l \in G : l.boot = b /\ n <= l.id}

(* What a cut boot keeps is in the log.                                    *)
LEMMA EndFacts ==
    ASSUME NEW G, LogIs(G), NEW b, NEW n \in Nat
    PROVE  /\ EndOf(G, b, n) \subseteq G
           /\ Ordered(EndOf(G, b, n))
           /\ \A l \in G : l.id \in Nat
BY OrderedPart, LineFields DEF EndOf, LogIs, Ordered

(* The chain of a start holds in every copy.                               *)
LEMMA ChainOfEnd ==
    ASSUME NEW G, LogIs(G), NEW b, NEW n \in Nat, NEW first, EndOf(G, b, n) # {}
    PROVE  ChainHolds(EndOf(G, b, n), first)
<1> DEFINE L == EndOf(G, b, n)
<1>1. L \subseteq G /\ Ordered(L) /\ \A l \in G : l.id \in Nat
  BY EndFacts
<1>2. \A l \in L : l.boot = b /\ n <= l.id
  BY DEF EndOf
<1>3. ASSUME NEW l \in L, Earlier(L, l) # {}
      PROVE  Follows(l, LastOf(Earlier(L, l)))
  <2>1. PICK e \in L : e.id < l.id
    BY <1>3 DEF Earlier
  <2>2. l \in G /\ e \in G /\ l.id \in Nat /\ e.id \in Nat /\ e.boot = l.boot
    BY <1>1, <1>2, <2>1
  <2>3. ~Opened(G, l)
    BY <2>1, <2>2 DEF Opened
  <2>4. PICK p \in G : /\ Follows(l, p) /\ p.id < l.id /\ p.boot = l.boot
                       /\ \A m \in G : m.boot = l.boot /\ m.id < l.id => m.id <= p.id
    BY <2>2, <2>3 DEF LogIs, LineOk, Chained
  <2>5. p \in Earlier(L, l)
    BY <1>1, <1>2, <2>1, <2>2, <2>4 DEF Earlier, EndOf
  <2>6. \A m \in Earlier(L, l) : m.id <= p.id
    BY <1>1, <1>2, <2>4 DEF Earlier
  <2>7. Ordered(Earlier(L, l))
    BY <1>1, OrderedPart DEF Earlier
  <2>8. LastOf(Earlier(L, l)) = p
    BY <2>5, <2>6, <2>7, LastIs
  <2> QED BY <2>4, <2>8
<1>4. ASSUME NEW l \in L, Earlier(L, l) = {}, HasStarted(L)
      PROVE  l.seq = 1 /\ l.prev = 0
  <2>1. FirstOf(L) \in L /\ FirstOf(L).id <= l.id /\ FirstOf(L).event = "started"
    BY <1>1, <1>4, FirstLine DEF HasStarted
  <2>2. FirstOf(L).id = l.id
    <3>1. ~(FirstOf(L).id < l.id)
      BY <1>4, <2>1 DEF Earlier
    <3> QED BY <1>1, <2>1, <3>1
  <2>3. FirstOf(L) = l
    BY <1>1, <2>1, <2>2 DEF Ordered
  <2>4. Opened(G, l) /\ Chained(G, l) /\ l \in G
    BY <1>1, <2>1, <2>3 DEF LogIs, LineOk
  <2>5. ~\E p \in G : p.id < l.id /\ p.boot = l.boot
    BY <1>1, <2>4 DEF Opened
  <2> QED BY <2>4, <2>5 DEF Chained
<1> QED BY <1>3, <1>4 DEF ChainHolds

(* The lines of a start that began are all in a copy with its first line.  *)
LEMMA StartedIsWhole ==
    ASSUME NEW G, LogIs(G), NEW b, NEW n \in Nat, EndOf(G, b, n) # {},
           HasStarted(EndOf(G, b, n))
    PROVE  \A m \in G : m.boot = b => m \in EndOf(G, b, n)
<1> DEFINE L == EndOf(G, b, n)
<1>1. FirstOf(L) \in L /\ FirstOf(L).event = "started" /\ L \subseteq G
  BY EndFacts, FirstLine DEF HasStarted
<1>2. Opened(G, FirstOf(L)) /\ FirstOf(L).boot = b /\ n <= FirstOf(L).id
  BY <1>1 DEF LogIs, LineOk, EndOf
<1>3. \A m \in G : m.id \in Nat /\ FirstOf(L).id \in Nat
  BY <1>1, EndFacts
<1>4. \A m \in G : m.boot = b => FirstOf(L).id <= m.id
  BY <1>2 DEF Opened
<1>5. \A m \in G : m.boot = b => n <= m.id
  BY <1>2, <1>3, <1>4
<1> QED BY <1>5 DEF EndOf

(* A checkpoint: the line that opened its segment.                         *)
LEMMA OpenerOf ==
    ASSUME NEW G, LogIs(G), NEW m \in G, m.event = "checkpoint"
    PROVE  \E o \in G : /\ OpensFor(G, m.boot, m.id, o)
                        /\ m.root = SegmentFrom(G, m.boot, m.id, o)
BY DEF LogIs, LineOk, Segmented

(* The opening line of a segment is in the copy exactly when its           *)
(* checkpoint does not begin inside it, and then the verifier finds that   *)
(* line.                                                                   *)
LEMMA OpenerInCopy ==
    ASSUME NEW G, LogIs(G), NEW b, NEW n \in Nat, NEW m \in Marks(EndOf(G, b, n)),
           NEW o \in G, OpensFor(G, b, m.id, o)
    PROVE  /\ n <= o.id <=> ~BeginsInside(EndOf(G, b, n), m)
           /\ n <= o.id => Opening(EndOf(G, b, n), m) = o
<1> DEFINE L == EndOf(G, b, n)
           E == Marks(Earlier(L, m))
<1>1. L \subseteq G /\ Ordered(L) /\ \A l \in G : l.id \in Nat
  BY EndFacts
<1>2. /\ \A l \in L : l.boot = b /\ n <= l.id
      /\ m \in L /\ m.event = "checkpoint" /\ m \in G
  BY <1>1 DEF EndOf, Marks
<1>3. \A x \in E : x \in L /\ x.id < m.id /\ x.event = "checkpoint"
  BY DEF Marks, Earlier
<1>4. E \subseteq L /\ Ordered(E)
  BY <1>1, <1>3, OrderedPart
<1>5. /\ o.boot = b /\ o.id < m.id /\ o.event # "line"
      /\ \A x \in G : x.boot = b /\ o.id < x.id /\ x.id < m.id => x.event = "line"
  BY DEF OpensFor
<1>6. \A x \in E : x.id <= o.id
  BY <1>1, <1>2, <1>3, <1>5
<1>7. FirstOf(L) \in L /\ \A x \in L : FirstOf(L).id <= x.id
  BY <1>1, <1>2, FirstLine
<1>8. ASSUME n <= o.id, o.event = "checkpoint"
      PROVE  Opening(L, m) = o /\ ~BeginsInside(L, m)
  <2>1. o \in E
    BY <1>5, <1>8 DEF EndOf, Marks, Earlier
  <2>2. LastOf(E) = o
    BY <1>4, <1>6, <2>1, LastIs
  <2> QED BY <2>1, <2>2 DEF Opening, BeginsInside
<1>9. ASSUME n <= o.id, o.event = "started"
      PROVE  Opening(L, m) = o /\ ~BeginsInside(L, m)
  <2>1. Opened(G, o) /\ o \in L
    BY <1>5, <1>9 DEF LogIs, LineOk, EndOf
  <2>2. \A x \in L : o.id <= x.id
    BY <1>1, <1>2, <1>5, <2>1 DEF Opened
  <2>3. FirstOf(L) = o
    BY <1>1, <2>1, <2>2, FirstIs
  <2>4. E = {}
    <3> SUFFICES ASSUME NEW x \in E PROVE FALSE
      OBVIOUS
    <3>1. x \in L /\ x.event = "checkpoint" /\ x.id <= o.id /\ o.id <= x.id
      BY <1>3, <1>6, <2>2
    <3>2. x = o
      BY <1>1, <2>1, <3>1 DEF Ordered
    <3> QED BY <1>9, <3>1, <3>2
  <2> QED BY <1>9, <2>3, <2>4 DEF Opening, BeginsInside, HasStarted
<1>10. ASSUME ~(n <= o.id) PROVE BeginsInside(L, m)
  <2>1. E = {}
    BY <1>1, <1>2, <1>3, <1>6, <1>10
  <2>2. ~HasStarted(L)
    <3> SUFFICES ASSUME HasStarted(L) PROVE FALSE
      OBVIOUS
    <3>1. o \in L
      BY <1>2, <1>5, StartedIsWhole
    <3> QED BY <1>2, <1>10, <3>1
  <2> QED BY <2>1, <2>2 DEF BeginsInside
<1>11. o.event \in {"started", "checkpoint"}
  BY <1>5, LineFields DEF LogIs, Ordered
<1> QED BY <1>8, <1>9, <1>10, <1>11

(* Roots hold in every copy that has their first line.                     *)
LEMMA RootOfEnd ==
    ASSUME NEW G, LogIs(G), NEW b, NEW n \in Nat, NEW m \in Marks(EndOf(G, b, n)),
           ~BeginsInside(EndOf(G, b, n), m)
    PROVE  RootHolds(EndOf(G, b, n), m)
<1> DEFINE L == EndOf(G, b, n)
<1>1. m \in G /\ m.boot = b /\ m.event = "checkpoint" /\ L \subseteq G
  BY EndFacts DEF Marks, EndOf
<1>2. PICK o \in G : OpensFor(G, b, m.id, o) /\ m.root = SegmentFrom(G, b, m.id, o)
  BY <1>1, OpenerOf
<1>3. n <= o.id /\ Opening(L, m) = o
  BY <1>2, OpenerInCopy
<1>4. \A l \in G : l.id \in Nat
  BY EndFacts
<1>5. {x \in Earlier(L, m) : o.id <= x.id} = {x \in G : x.boot = b /\ o.id <= x.id /\ x.id < m.id}
  BY <1>3, <1>4 DEF Earlier, EndOf
<1> QED BY <1>2, <1>3, <1>5 DEF RootHolds, LeavesOf, SegmentFrom

(* Two disjoint finite sets count together.                                *)
LEMMA DisjointCount ==
    ASSUME NEW A, NEW B, IsFiniteSet(A), IsFiniteSet(B), A \cap B = {}
    PROVE  Cardinality(A \cup B) = Cardinality(A) + Cardinality(B)
<1>1. Cardinality(A \cup B) = Cardinality(A) + Cardinality(B) - Cardinality(A \cap B)
  BY FS_Union
<1>2. Cardinality(A \cap B) = 0 /\ Cardinality(A) \in Nat /\ Cardinality(B) \in Nat
  BY FS_EmptySet, FS_CardinalityType
<1> QED BY <1>1, <1>2

(* Segments are counted in every copy from the first mark it holds.        *)
LEMMA SegmentOfEnd ==
    ASSUME NEW G, LogIs(G), NEW b, NEW n \in Nat, NEW m \in Marks(EndOf(G, b, n))
    PROVE  m.segment = Expected(EndOf(G, b, n), m)
<1> DEFINE L == EndOf(G, b, n)
           E == Marks(Earlier(L, m))
<1>1. L \subseteq G /\ Ordered(L) /\ \A l \in G : l.id \in Nat
  BY EndFacts
<1>2. /\ \A l \in L : l.boot = b /\ n <= l.id
      /\ m \in L /\ m.event = "checkpoint" /\ m \in G
  BY <1>1 DEF EndOf, Marks
<1>3. /\ IsFiniteSet(MarksBefore(G, b, m.id))
      /\ m.segment = Cardinality(MarksBefore(G, b, m.id))
  BY <1>2 DEF LogIs, LineOk, Segmented
<1>4. CASE HasStarted(L)
  <2>1. \A x \in G : x.boot = b => x \in L
    BY <1>2, <1>4, StartedIsWhole
  <2>2. E = MarksBefore(G, b, m.id)
    BY <1>1, <1>2, <2>1 DEF Marks, Earlier, MarksBefore
  <2>3. m.segment \in Nat
    BY <1>3, FS_CardinalityType
  <2> QED BY <1>3, <1>4, <2>2, <2>3 DEF Expected
<1>5. CASE ~HasStarted(L)
  <2> DEFINE f == FirstOf(Marks(L))
  <2>1. Marks(L) # {} /\ Ordered(Marks(L)) /\ Marks(L) \subseteq L
    BY <1>1, <1>2, OrderedPart DEF Marks
  <2>2. f \in Marks(L) /\ \A x \in Marks(L) : f.id <= x.id
    BY <2>1, FirstLine
  <2>3. f \in G /\ f.boot = b /\ f.event = "checkpoint" /\ n <= f.id /\ f.id <= m.id
    BY <1>1, <1>2, <2>1, <2>2 DEF Marks
  <2>4. /\ IsFiniteSet(MarksBefore(G, b, f.id))
        /\ f.segment = Cardinality(MarksBefore(G, b, f.id))
    BY <2>3 DEF LogIs, LineOk, Segmented
  <2>5. MarksBefore(G, b, m.id) = MarksBefore(G, b, f.id) \cup E
    <3>1. ASSUME NEW x \in MarksBefore(G, b, m.id), x \notin E
          PROVE  x \in MarksBefore(G, b, f.id)
      <4>1. x \in G /\ x.event = "checkpoint" /\ x.boot = b /\ x.id < m.id
        BY DEF MarksBefore
      <4>2. x \notin L
        BY <3>1, <4>1 DEF Marks, Earlier
      <4>3. x.id < n
        BY <1>1, <4>1, <4>2 DEF EndOf
      <4> QED BY <1>1, <2>3, <4>1, <4>3 DEF MarksBefore
    <3>2. ASSUME NEW x \in MarksBefore(G, b, f.id)
          PROVE  x \in MarksBefore(G, b, m.id)
      BY <1>1, <1>2, <2>3 DEF MarksBefore
    <3>3. ASSUME NEW x \in E
          PROVE  x \in MarksBefore(G, b, m.id)
      BY <1>1, <1>2 DEF MarksBefore, Marks, Earlier
    <3> QED BY <3>1, <3>2, <3>3
  <2>6. MarksBefore(G, b, f.id) \cap E = {}
    <3> SUFFICES ASSUME NEW x \in MarksBefore(G, b, f.id), x \in E PROVE FALSE
      OBVIOUS
    <3>1. x \in Marks(L) /\ x.id < f.id /\ x \in G
      BY DEF MarksBefore, Marks, Earlier
    <3> QED BY <1>1, <2>2, <2>3, <3>1
  <2>7. IsFiniteSet(E)
    BY <1>3, <2>5, FS_Subset
  <2>8. Cardinality(MarksBefore(G, b, m.id))
           = Cardinality(MarksBefore(G, b, f.id)) + Cardinality(E)
    BY <2>4, <2>5, <2>6, <2>7, DisjointCount
  <2>9. Cardinality(E) \in Nat /\ Cardinality(MarksBefore(G, b, f.id)) \in Nat
    BY <2>4, <2>7, FS_CardinalityType
  <2>10. Expected(L, m) = Cardinality(E) + f.segment
    BY <1>5 DEF Expected
  <2> HIDE DEF f, E
  <2> QED BY <1>3, <2>4, <2>8, <2>9, <2>10
<1> QED BY <1>4, <1>5

(* The segments of a boot are numbered upwards.                            *)
LEMMA SegmentsGrow ==
    ASSUME NEW G, LogIs(G), NEW k \in G, NEW m \in G, k.event = "checkpoint",
           m.event = "checkpoint", k.boot = m.boot, k.id < m.id
    PROVE  k.segment < m.segment
<1> DEFINE K == MarksBefore(G, k.boot, k.id)
           M == MarksBefore(G, k.boot, m.id)
<1>1. /\ IsFiniteSet(K) /\ k.segment = Cardinality(K)
      /\ IsFiniteSet(M) /\ m.segment = Cardinality(M)
  BY DEF LogIs, LineOk, Segmented
<1>2. \A l \in G : l.id \in Nat
  BY LineFields DEF LogIs, Ordered
<1>3. k \notin K /\ K \cup {k} \in SUBSET M
  BY <1>2 DEF MarksBefore
<1>4. IsFiniteSet(K \cup {k}) /\ Cardinality(K \cup {k}) = Cardinality(K) + 1
  BY <1>1, <1>3, FS_AddElement
<1>5. Cardinality(K \cup {k}) <= Cardinality(M)
  BY <1>1, <1>3, FS_Subset
<1>6. Cardinality(K) \in Nat /\ Cardinality(M) \in Nat
  BY <1>1, FS_CardinalityType
<1> HIDE DEF K, M
<1> QED BY <1>1, <1>4, <1>5, <1>6

(* A checkpoint that a copy does not hold, of a start that it does: the    *)
(* copy begins inside that start, after it.                                *)
LEMMA CutTarget ==
    ASSUME NEW G, LogIs(G), NEW n \in Nat, NEW k \in G, k.event = "checkpoint",
           k.id < n, EndOf(G, k.boot, n) # {}
    PROVE  /\ ~HasStarted(EndOf(G, k.boot, n))
           /\ \A x \in Held(EndOf(G, k.boot, n)) : k.segment < x.segment
<1> DEFINE L == EndOf(G, k.boot, n)
<1>1. L \subseteq G /\ Ordered(L) /\ \A l \in G : l.id \in Nat
  BY EndFacts
<1>2. ~HasStarted(L)
  <2> SUFFICES ASSUME HasStarted(L) PROVE FALSE
    OBVIOUS
  <2>1. k \in L
    BY StartedIsWhole
  <2> QED BY <1>1, <2>1 DEF EndOf
<1>3. ASSUME NEW x \in Held(L) PROVE k.segment < x.segment
  <2>1. PICK m \in Marks(L) : x = NameOf(m)
    BY DEF Held
  <2>2. m \in G /\ m.boot = k.boot /\ n <= m.id /\ m.event = "checkpoint"
    BY <1>1, <2>1 DEF Marks, EndOf
  <2>3. k.segment < m.segment
    BY <1>1, <2>2, SegmentsGrow
  <2> QED BY <2>1, <2>3 DEF NameOf, Named
<1> QED BY <1>2, <1>3

-----------------------------------------------------------------------------
(* A copy of the log G: the lines of the hosts S from the number n on.     *)
CopyOf(G, S, n) == {l \in G : n <= l.id /\ l.host \in S}

(* The lines of a copy are lines of the log.                               *)
LEMMA CopyFacts ==
    ASSUME NEW G, LogIs(G), NEW S, NEW n \in Nat
    PROVE  /\ CopyOf(G, S, n) \subseteq G
           /\ Ordered(CopyOf(G, S, n))
           /\ \A l \in G : l \in Lines /\ l.id \in Nat
BY OrderedPart, LineFields DEF CopyOf, LogIs, Ordered

(* Of a boot, a copy holds what the cut leaves.                            *)
LEMMA LinesOfCopy ==
    ASSUME NEW G, LogIs(G), NEW S, NEW n \in Nat, NEW b \in Boots(CopyOf(G, S, n))
    PROVE  LinesOf(CopyOf(G, S, n), b) = EndOf(G, b, n) /\ EndOf(G, b, n) # {}
<1> DEFINE c == CopyOf(G, S, n)
<1>1. PICK l \in c : l.boot = b
  BY DEF Boots
<1>2. \A m \in G : m.boot = b => m.host = l.host
  BY <1>1 DEF LogIs, LineOk, CopyOf
<1>3. LinesOf(c, b) = EndOf(G, b, n)
  BY <1>1, <1>2 DEF LinesOf, EndOf, CopyOf
<1>4. l \in EndOf(G, b, n)
  BY <1>1 DEF EndOf, CopyOf
<1> QED BY <1>3, <1>4

(* The first line of a boot in a copy.                                     *)
LEMMA HeadFacts ==
    ASSUME NEW G, LogIs(G), NEW S, NEW n \in Nat, NEW b \in Boots(CopyOf(G, S, n))
    PROVE  LET s == HeadOf(CopyOf(G, S, n), b) IN
           /\ s \in CopyOf(G, S, n) /\ s.boot = b /\ s \in G /\ n <= s.id /\ s.host \in S
           /\ \A m \in G : m.boot = b /\ n <= m.id => s.id <= m.id
           /\ s.event = "started" <=> HasStarted(LinesOf(CopyOf(G, S, n), b))
<1> DEFINE c == CopyOf(G, S, n)
           L == EndOf(G, b, n)
<1>1. LinesOf(c, b) = L /\ L # {} /\ Ordered(L)
  BY LinesOfCopy, EndFacts
<1>2. HeadOf(c, b) \in L /\ \A m \in L : HeadOf(c, b).id <= m.id
  BY <1>1, FirstLine DEF HeadOf
<1>3. HeadOf(c, b) \in c
  BY <1>1, <1>2 DEF LinesOf
<1> QED BY <1>1, <1>2, <1>3 DEF EndOf, CopyOf, HeadOf, HasStarted

(* The first line of a copy.                                               *)
LEMMA FirstOfCopy ==
    ASSUME NEW G, LogIs(G), NEW S, NEW n \in Nat, CopyOf(G, S, n) # {}
    PROVE  LET x == FirstOf(CopyOf(G, S, n)) IN
           /\ x \in CopyOf(G, S, n) /\ x.boot \in Boots(CopyOf(G, S, n))
           /\ \A m \in CopyOf(G, S, n) : x.id <= m.id
           /\ \A b \in Boots(CopyOf(G, S, n)) : IsFirst(CopyOf(G, S, n), b) <=> b = x.boot
<1> DEFINE c == CopyOf(G, S, n)
           x == FirstOf(c)
<1>1. x \in c /\ (\A m \in c : x.id <= m.id) /\ Ordered(c)
  BY FirstLine, CopyFacts
<1>2. x.boot \in Boots(c)
  BY <1>1 DEF Boots
<1>3. HeadOf(c, x.boot) = x
  <2>1. x \in LinesOf(c, x.boot) /\ LinesOf(c, x.boot) \subseteq c
    BY <1>1 DEF LinesOf
  <2>2. Ordered(LinesOf(c, x.boot)) /\ \A m \in LinesOf(c, x.boot) : x.id <= m.id
    BY <1>1, <2>1, OrderedPart
  <2> QED BY <2>1, <2>2, FirstIs DEF HeadOf
<1>4. ASSUME NEW b \in Boots(c) PROVE IsFirst(c, b) <=> b = x.boot
  <2>1. HeadOf(c, b).boot = b
    BY HeadFacts
  <2> QED BY <1>3, <2>1 DEF IsFirst
<1> QED BY <1>1, <1>2, <1>4

(* A checkpoint verifies in a copy exactly when its first line is there.   *)
LEMMA VerifiedUnlessInside ==
    ASSUME NEW G, LogIs(G), NEW S, NEW n \in Nat, NEW b \in Boots(CopyOf(G, S, n)),
           NEW m \in Marks(LinesOf(CopyOf(G, S, n), b)),
           ~BeginsInside(LinesOf(CopyOf(G, S, n), b), m)
    PROVE  m \in VerifiedIn(CopyOf(G, S, n))
<1> DEFINE c == CopyOf(G, S, n)
<1>1. LinesOf(c, b) = EndOf(G, b, n)
  BY LinesOfCopy
<1>2. m.segment = Expected(LinesOf(c, b), m) /\ RootHolds(LinesOf(c, b), m)
  BY <1>1, SegmentOfEnd, RootOfEnd
<1> QED BY <1>2 DEF VerifiedIn, Verified

(* What a start itself shows is never a break.                             *)
LEMMA StartsHold ==
    ASSUME NEW G, LogIs(G), NEW S, NEW n \in Nat, NEW b \in Boots(CopyOf(G, S, n)),
           NEW f \in StartFindings(CopyOf(G, S, n), b) \cup TailFindings(CopyOf(G, S, n), b)
    PROVE  /\ f[1] # "break"
           /\ f[1] = "unverified" =>
                 \/ ~IsSealed(LinesOf(CopyOf(G, S, n), b))
                 \/ /\ ~IsFirst(CopyOf(G, S, n), b)
                    /\ \E m \in Marks(LinesOf(CopyOf(G, S, n), b)) :
                          BeginsInside(LinesOf(CopyOf(G, S, n), b), m)
                 \/ Ended(CopyOf(G, S, n), LinesOf(CopyOf(G, S, n), b))
<1> DEFINE c == CopyOf(G, S, n)
           L == LinesOf(c, b)
<1>1. L = EndOf(G, b, n) /\ L # {}
  BY LinesOfCopy
<1>2. ChainHolds(L, IsFirst(c, b))
  BY <1>1, ChainOfEnd
<1>3. \A m \in Marks(L) : m.segment = Expected(L, m)
  BY <1>1, SegmentOfEnd
<1>4. \A m \in Marks(L) : ~BeginsInside(L, m) => RootHolds(L, m)
  BY <1>1, RootOfEnd
<1>5. \/ f = <<"unverified", "unsealed-start", b>> /\ ~IsSealed(L)
      \/ /\ f = IF IsFirst(c, b) THEN <<"notice", "copy-begins-mid-segment", b>>
                                 ELSE <<"unverified", "begins-inside", b>>
         /\ \E m \in Marks(L) : BeginsInside(L, m)
      \/ f = <<"unverified", "ended-without-checkpoint", b>> /\ Ended(c, L)
  <2> HIDE DEF c, L
  <2> QED BY <1>2, <1>3, <1>4 DEF StartFindings, TailFindings, If, c, L
<1> HIDE DEF c, L
<1> QED BY <1>5 DEF c, L

-----------------------------------------------------------------------------
(* The links, in a copy of every host from some line on.  Whole: nothing   *)
(* is cut.  In Blocks no start begins inside another.                      *)
Since(G, n) == CopyOf(G, Hosts, n)
Tidy(G, n) == Blocks(G) \/ \A l \in G : n <= l.id

(* A copy of every host has the lines from some line on.                   *)
LEMMA FromFacts ==
    ASSUME NEW G, LogIs(G), NEW n \in Nat
    PROVE  /\ \A l \in G : n <= l.id <=> l \in Since(G, n)
           /\ \A l \in Since(G, n) : l \in G /\ n <= l.id
           /\ \A l \in G : l.id \in Nat /\ l.host \in Hosts /\ l.link \in Links
                              /\ l.volumeLink \in Links
           /\ \A b : b \in Boots(Since(G, n)) <=> \E l \in G : l.boot = b /\ n <= l.id
BY LineFields DEF Since, CopyOf, LogIs, Ordered, Boots

(* A start that links: its first line, and the start of an earlier line.   *)
LEMMA LinkingHead ==
    ASSUME NEW G, LogIs(G), NEW n \in Nat, NEW b \in Linking(Since(G, n))
    PROVE  LET s == HeadOf(Since(G, n), b) IN
           /\ b \in Boots(Since(G, n)) /\ s \in G /\ n <= s.id /\ s.boot = b
           /\ s.event = "started" /\ Opened(G, s)
           /\ \A l \in G : l.id < s.id => l.boot # b
<1> DEFINE s == HeadOf(Since(G, n), b)
<1>1. b \in Boots(Since(G, n)) /\ s.event = "started"
  BY DEF Linking
<1>2. s \in G /\ n <= s.id /\ s.boot = b
  BY <1>1, HeadFacts DEF Since
<1>3. Opened(G, s)
  BY <1>1, <1>2 DEF LogIs, LineOk
<1> HIDE DEF s
<1>4. \A l \in G : l.boot = b => s.id <= l.id
  BY <1>2, <1>3 DEF Opened
<1>5. \A l \in G : l.id < s.id => l.boot # b
  BY <1>2, <1>4, FromFacts
<1> QED BY <1>1, <1>2, <1>3, <1>5 DEF s

(* A boot with a line before the first of another begins before it in a    *)
(* copy that is whole, or whose boots are blocks.                          *)
LEMMA TargetBegins ==
    ASSUME NEW G, LogIs(G), NEW n \in Nat, Tidy(G, n), NEW b \in Linking(Since(G, n)),
           NEW k \in G, k.id < HeadOf(Since(G, n), b).id, k.boot \in Boots(Since(G, n))
    PROVE  HeadOf(Since(G, n), k.boot).id < HeadOf(Since(G, n), b).id
<1> DEFINE c == Since(G, n)
           s == HeadOf(c, b)
           t == HeadOf(c, k.boot)
<1>1. /\ s \in G /\ n <= s.id /\ s.boot = b
      /\ \A l \in G : l.id < s.id => l.boot # b
  BY LinkingHead
<1>2. /\ t \in G /\ t.boot = k.boot /\ n <= t.id
      /\ \A l \in G : l.boot = k.boot /\ n <= l.id => t.id <= l.id
  BY HeadFacts DEF Since
<1> HIDE DEF c, s, t
<1>3. k.boot # b /\ k.id \in Nat /\ s.id \in Nat /\ t.id \in Nat
  BY <1>1, <1>2, FromFacts DEF s, c
<1>4. t.id # s.id
  BY <1>1, <1>2, <1>3 DEF LogIs, Ordered
<1>5. CASE \A l \in G : n <= l.id
  <2>1. t.id <= k.id
    BY <1>2, <1>5
  <2> QED BY <1>3, <2>1 DEF t, s, c
<1>6. CASE Blocks(G)
  <2> SUFFICES ASSUME s.id < t.id PROVE FALSE
    BY <1>3, <1>4 DEF t, s, c
  <2>1. s.boot = k.boot
    BY <1>1, <1>2, <1>6 DEF Blocks, s, c
  <2> QED BY <1>1, <1>3, <2>1
<1> QED BY <1>5, <1>6 DEF Tidy

(* What checkHeld finds of a link that names a checkpoint of the log.      *)
LEMMA CheckHeldFinds ==
    ASSUME NEW G, LogIs(G), NEW n \in Nat, NEW b, NEW link, link.boot \in Boots(Since(G, n)),
           \E k \in G : k.event = "checkpoint" /\ NameOf(k) = link,
           NEW f \in CheckHeld(Since(G, n), b, link)
    PROVE  /\ f[1] # "break"
           /\ \A k \in G : k.event = "checkpoint" /\ NameOf(k) = link => k.id < n
           /\ f[1] = "unverified" => ~IsFirst(Since(G, n), link.boot)
<1> DEFINE c == Since(G, n)
           L == EndOf(G, link.boot, n)
<1>1. LinesOf(c, link.boot) = L /\ L # {}
  BY LinesOfCopy DEF Since
<1>2. ASSUME NEW k \in G, k.event = "checkpoint", NameOf(k) = link, ~(k.id < n)
      PROVE  FALSE
  <2>1. k.boot = link.boot /\ k.id \in Nat
    BY <1>2, FromFacts DEF NameOf, Named
  <2>2. k \in Marks(L)
    BY <1>2, <2>1 DEF EndOf, Marks
  <2>3. link \in Held(L)
    BY <1>2, <2>2 DEF Held
  <2> QED BY <1>1, <2>3 DEF CheckHeld
<1>3. PICK k \in G : k.event = "checkpoint" /\ NameOf(k) = link
  OBVIOUS
<1>4. k.id < n /\ k.boot = link.boot /\ k.segment = link.segment
  BY <1>2, <1>3 DEF NameOf, Named
<1>5. ~HasStarted(L) /\ \A x \in Held(L) : link.segment < x.segment
  BY <1>1, <1>3, <1>4, CutTarget
<1>6. f \in IF IsFirst(c, link.boot) THEN {<<"notice", "copy-begins-later", b>>}
            ELSE {<<"unverified", "link-outside-copy", b>>}
  <2> HIDE DEF c, L
  <2> QED BY <1>1, <1>5 DEF CheckHeld, c
<1> HIDE DEF c, L
<1>7. f[1] # "break" /\ (f[1] = "unverified" => ~IsFirst(c, link.boot))
  BY <1>6
<1> QED BY <1>2, <1>7 DEF c

(* The checkpoints of the starts before one.                               *)
LEMMA HeldBefore ==
    ASSUME NEW G, LogIs(G), NEW n \in Nat, NEW b \in Linking(Since(G, n)),
           NEW e \in HoldingACheckpoint(Since(G, n), Before(Since(G, n), b)),
           \/ Blocks(G)
           \/ HeadOf(Since(G, n), e).host = HeadOf(Since(G, n), b).host
    PROVE  \E m \in G : /\ m.event = "checkpoint" /\ m.boot = e /\ n <= m.id
                        /\ m.id < HeadOf(Since(G, n), b).id
                        /\ HeadOf(Since(G, n), e).id <= m.id
                        /\ m.host = HeadOf(Since(G, n), e).host
<1> DEFINE c == Since(G, n)
           s == HeadOf(c, b)
           t == HeadOf(c, e)
<1>1. /\ e \in Boots(c) /\ t.id < s.id /\ Held(LinesOf(c, e)) # {}
  BY DEF HoldingACheckpoint, Before, Begins
<1>2. LinesOf(c, e) = EndOf(G, e, n)
  BY <1>1, LinesOfCopy DEF Since
<1>3. PICK m \in Marks(EndOf(G, e, n)) : TRUE
  BY <1>1, <1>2 DEF Held
<1>4. m \in G /\ m.event = "checkpoint" /\ m.boot = e /\ n <= m.id
  BY <1>3 DEF Marks, EndOf
<1>5. /\ t \in G /\ t.boot = e /\ n <= t.id
      /\ \A l \in G : l.boot = e /\ n <= l.id => t.id <= l.id
  BY <1>1, HeadFacts DEF Since
<1>6. /\ s \in G /\ n <= s.id /\ s.boot = b
      /\ \A l \in G : l.id < s.id => l.boot # b
  BY LinkingHead
<1>7. Blocks(G) \/ t.host = s.host
  OBVIOUS
<1> HIDE DEF c, s, t
<1>8. m.host = t.host /\ t.id <= m.id
  BY <1>4, <1>5 DEF LogIs, LineOk
<1>9. m.id \in Nat /\ s.id \in Nat /\ t.id \in Nat
  BY <1>4, <1>5, <1>6, FromFacts
<1>10. e # b
  BY <1>1, <1>5, <1>6
<1>11. m.id < s.id
  <2> SUFFICES ASSUME s.id <= m.id PROVE FALSE
    BY <1>9
  <2>1. s.id < m.id
    BY <1>4, <1>6, <1>9, <1>10 DEF LogIs, Ordered
  <2>2. HostBlock(G, m)
    BY <1>4 DEF LogIs, LineOk
  <2>3. s.boot = m.boot
    <3>1. CASE Blocks(G)
      BY <1>1, <1>4, <1>5, <1>6, <2>1, <3>1 DEF Blocks
    <3>2. CASE t.host = s.host
      BY <1>1, <1>4, <1>5, <1>6, <1>8, <2>1, <2>2, <3>2 DEF HostBlock
    <3> QED BY <1>7, <3>1, <3>2
  <2> QED BY <1>4, <1>6, <1>10, <2>3
<1> QED BY <1>4, <1>8, <1>11 DEF c, s, t

(* What the volume link of a start can be found to be.                     *)
LEMMA VolumeLinkFinds ==
    ASSUME NEW G, LogIs(G), NEW n \in Nat, Tidy(G, n), NEW b \in Linking(Since(G, n)),
           NEW f \in VolumeLinkFindings(Since(G, n), b)
    PROVE  LET c == Since(G, n)
               s == HeadOf(c, b)
           IN  /\ ~IsFirst(c, b)
               /\ f[1] = "break" =>
                     /\ s.volumeLink # None /\ s.volumeLink.boot \notin Boots(c)
                     /\ f = <<"break", "missing-start", b>>
               /\ f[1] = "unverified" =>
                     \/ s.volumeLink = None /\ HoldingACheckpoint(c, Before(c, b)) # {}
                     \/ /\ s.volumeLink # None
                        /\ \A k \in G :
                              k.event = "checkpoint" /\ NameOf(k) = s.volumeLink => k.id < n
<1> DEFINE c == Since(G, n)
           s == HeadOf(c, b)
           link == s.volumeLink
<1>1. ~IsFirst(c, b)
  BY DEF VolumeLinkFindings
<1>2. s \in G /\ s.event = "started"
  BY LinkingHead
<1>3. Known(G, Hosts, s.id, link)
  BY <1>2 DEF LogIs, LineOk
<1>4. CASE link = None
  <2>1. /\ f = <<"unverified", "unlinked-start", b>>
        /\ HoldingACheckpoint(c, Before(c, b)) # {}
    <3> HIDE DEF c
    <3> QED BY <1>4 DEF VolumeLinkFindings, SameAsHostLink, c
  <2> QED BY <1>1, <1>4, <2>1
<1>5. CASE link # None
  <2>1. PICK k \in G : k.event = "checkpoint" /\ k.id < s.id /\ NameOf(k) = link
    BY <1>3, <1>5 DEF Known, MarksOf
  <2>2. link.boot = k.boot
    BY <2>1 DEF NameOf, Named
  <2>3. CASE link.boot \notin Boots(c)
    <3>1. f \in IF BeforeOfHost(c, b) = {} THEN {<<"break", "missing-start", b>>}
                ELSE {<<"unverified", "link-outside-copy", b>>}
      <4> HIDE DEF c
      <4> QED BY <1>5, <2>3 DEF VolumeLinkFindings, c
    <3>2. ASSUME NEW j \in G, j.event = "checkpoint", NameOf(j) = link, ~(j.id < n)
          PROVE  FALSE
      <4>1. j.boot = link.boot /\ n <= j.id
        BY <3>2, FromFacts DEF NameOf, Named
      <4> QED BY <2>3, <3>2, <4>1, FromFacts
    <3> HIDE DEF c, s
    <3> QED BY <1>1, <1>5, <2>3, <3>1, <3>2 DEF c, s
  <2>4. CASE link.boot \in Boots(c)
    <3>1. ~Begins(c, b, link.boot)
      <4>1. HeadOf(c, k.boot).id < s.id
        BY <2>1, <2>2, <2>4, TargetBegins
      <4>2. HeadOf(c, k.boot).id \in Nat /\ s.id \in Nat
        BY <1>2, <2>2, <2>4, HeadFacts, FromFacts DEF Since
      <4> HIDE DEF c, s
      <4> QED BY <2>2, <4>1, <4>2 DEF Begins, s
    <3>2. f \in CheckHeld(c, b, link)
      <4> HIDE DEF c
      <4> QED BY <1>5, <2>4, <3>1 DEF VolumeLinkFindings, c
    <3>3. /\ f[1] # "break"
          /\ \A j \in G : j.event = "checkpoint" /\ NameOf(j) = link => j.id < n
      BY <2>1, <2>4, <3>2, CheckHeldFinds
    <3> QED BY <1>1, <1>5, <3>3
  <2> QED BY <2>3, <2>4
<1> QED BY <1>4, <1>5

(* A start that held a checkpoint before b: unless it is the one b links   *)
(* to, it is wholly before the checkpoint that b links to.                 *)
LEMMA PreviousOf ==
    ASSUME NEW G, LogIs(G), NEW n \in Nat, NEW b \in Linking(Since(G, n)),
           NEW e \in Previous(Since(G, n), b),
           NEW k \in MarksOf(G, {HeadOf(Since(G, n), b).host}, HeadOf(Since(G, n), b).id),
           \A m \in MarksOf(G, {HeadOf(Since(G, n), b).host}, HeadOf(Since(G, n), b).id) :
              k.id < m.id => m.boot = k.boot
    PROVE  \/ e = k.boot
           \/ /\ k.boot \in Previous(Since(G, n), b)
              /\ ~Begins(Since(G, n), k.boot, e)
<1> DEFINE c == Since(G, n)
           s == HeadOf(c, b)
           t == HeadOf(c, e)
<1>1. /\ s \in G /\ n <= s.id /\ s.boot = b
      /\ \A l \in G : l.id < s.id => l.boot # b
  BY LinkingHead
<1>2. /\ e \in HoldingACheckpoint(c, Before(c, b)) /\ t.host = s.host
      /\ e \in Boots(c) /\ t.id < s.id
  BY DEF Previous, HoldingACheckpoint, BeforeOfHost, Before, Begins
<1>3. PICK m \in G : /\ m.event = "checkpoint" /\ m.boot = e /\ n <= m.id
                     /\ m.id < s.id /\ t.id <= m.id /\ m.host = t.host
  BY <1>2, HeldBefore
<1>4. t \in G /\ t.boot = e /\ n <= t.id
  BY <1>2, HeadFacts DEF Since
<1>5. k \in G /\ k.event = "checkpoint" /\ k.host = s.host /\ k.id < s.id
  BY DEF MarksOf
<1>6. \A l \in G : l.event = "checkpoint" /\ l.host = s.host /\ l.id < s.id /\ k.id < l.id
                      => l.boot = k.boot
  BY DEF MarksOf
<1> SUFFICES ASSUME e # k.boot
             PROVE  k.boot \in Previous(c, b) /\ ~Begins(c, k.boot, e)
  OBVIOUS
<1> HIDE DEF c, s, t
<1>7. m.id \in Nat /\ s.id \in Nat /\ t.id \in Nat /\ k.id \in Nat
  BY <1>1, <1>3, <1>4, <1>5, FromFacts
<1>8. m.id < k.id
  <2>1. ~(k.id < m.id)
    BY <1>2, <1>3, <1>6
  <2>2. m.id # k.id
    BY <1>3, <1>5 DEF LogIs, Ordered
  <2> QED BY <1>7, <2>1, <2>2
<1>9. t.id < k.id /\ n <= k.id
  BY <1>3, <1>7, <1>8
<1>10. HostBlock(G, k)
  BY <1>5 DEF LogIs, LineOk
<1>11. ASSUME NEW j \in G, j.boot = k.boot, j.id < t.id PROVE FALSE
  <2>1. t.boot = k.boot
    BY <1>2, <1>4, <1>5, <1>9, <1>10, <1>11 DEF HostBlock
  <2> QED BY <1>4, <2>1
<1>12. PICK d \in G : d.boot = k.boot /\ d.event = "started" /\ d.id < k.id
  BY <1>5 DEF LogIs, LineOk, Segmented
<1>13. ~(d.id < t.id) /\ d.id \in Nat /\ n <= d.id
  <2>1. ~(d.id < t.id)
    BY <1>11, <1>12
  <2> QED BY <1>4, <1>7, <1>12, <2>1, FromFacts
<1>14. k.boot \in Boots(c) /\ d \in LinesOf(c, k.boot) /\ k \in LinesOf(c, k.boot)
  <2>1. d \in c /\ k \in c
    BY <1>5, <1>9, <1>12, <1>13, FromFacts DEF c
  <2> QED BY <1>12, <2>1 DEF Boots, LinesOf
<1>15. HeadOf(c, k.boot) = d
  <2>1. Opened(G, d)
    BY <1>12 DEF LogIs, LineOk
  <2>2. LinesOf(c, k.boot) = EndOf(G, k.boot, n)
    BY <1>14, LinesOfCopy DEF c, Since
  <2>3. Ordered(LinesOf(c, k.boot))
    BY <2>2, EndFacts
  <2>4. \A l \in LinesOf(c, k.boot) : d.id <= l.id
    BY <1>12, <2>1, <2>2 DEF Opened, EndOf
  <2> QED BY <1>14, <2>3, <2>4, FirstIs DEF HeadOf
<1>16. d.id < s.id /\ d.host = s.host
  <2>1. d.host = k.host
    BY <1>5, <1>12 DEF LogIs, LineOk
  <2> QED BY <1>5, <1>7, <1>12, <1>13, <2>1
<1>17. k.boot \in BeforeOfHost(c, b)
  BY <1>12, <1>14, <1>15, <1>16 DEF BeforeOfHost, Before, Begins, Linking, s
<1>18. Held(LinesOf(c, k.boot)) # {}
  BY <1>5, <1>14 DEF Held, Marks
<1>19. ~Begins(c, k.boot, e)
  <2>1. ~(d.id < t.id)
    BY <1>13
  <2> QED BY <1>15, <2>1 DEF Begins, t
<1> QED BY <1>17, <1>18, <1>19 DEF Previous, HoldingACheckpoint

(* A link to another start than the newest one before is a fork.           *)
LEMMA ForkIsFound ==
    ASSUME NEW G, LogIs(G), NEW n \in Nat, Tidy(G, n), NEW b \in Linking(Since(G, n)),
           HeadOf(Since(G, n), b).link # None,
           HeadOf(Since(G, n), b).link.boot \in Boots(Since(G, n)),
           NEW e \in Previous(Since(G, n), b),
           \/ HeadOf(Since(G, n), b).link.boot \notin Previous(Since(G, n), b)
           \/ Begins(Since(G, n), HeadOf(Since(G, n), b).link.boot, e)
    PROVE  Forked(Since(G, n), b)
<1> DEFINE c == Since(G, n)
           s == HeadOf(c, b)
           link == s.link
<1>1. s \in G /\ n <= s.id /\ s.boot = b /\ s.event = "started"
  BY LinkingHead
<1>2. Known(G, {s.host}, s.id, link) /\ UnlessTaken(G, s.host, s.id, link)
  BY <1>1 DEF LogIs, LineOk
<1>3. ASSUME NEW k \in MarksOf(G, {s.host}, s.id), NameOf(k) = link,
             \A m \in MarksOf(G, {s.host}, s.id) : k.id < m.id => m.boot = link.boot
      PROVE  FALSE
  <2>1. link.boot = k.boot
    BY <1>3 DEF NameOf, Named
  <2>2. \/ e = k.boot
        \/ k.boot \in Previous(c, b) /\ ~Begins(c, k.boot, e)
    BY <1>3, <2>1, PreviousOf
  <2>3. ~Begins(c, e, e)
    <3>1. HeadOf(c, e).id \in Nat
      BY HeadFacts, FromFacts DEF Since, Previous, HoldingACheckpoint, BeforeOfHost, Before
    <3> HIDE DEF c
    <3> QED BY <3>1 DEF Begins
  <2> QED BY <2>1, <2>2, <2>3
<1>4. Taken(G, s.id, link)
  BY <1>2, <1>3 DEF UnlessTaken
<1>5. PICK u \in G : u.event = "started" /\ u.id < s.id /\ u.link = link
  BY <1>4 DEF Taken
<1>6. PICK k \in G : k.event = "checkpoint" /\ k.id < u.id /\ NameOf(k) = link
  BY <1>5 DEF LogIs, LineOk, Known, MarksOf
<1>7. k.boot = link.boot
  BY <1>6 DEF NameOf, Named
<1>8. Opened(G, u)
  BY <1>5 DEF LogIs, LineOk
<1> DEFINE t == HeadOf(c, k.boot)
<1>9. t \in G /\ t.boot = k.boot /\ n <= t.id
  BY <1>7, HeadFacts DEF Since
<1> HIDE DEF t, c, s
<1>10. u.id \in Nat /\ k.id \in Nat /\ t.id \in Nat /\ s.id \in Nat
  BY <1>1, <1>5, <1>6, <1>9, FromFacts
<1>11. u.boot # k.boot
  BY <1>5, <1>6, <1>8, <1>10 DEF Opened
<1>12. n <= u.id
  <2> SUFFICES ASSUME u.id < n, Blocks(G) PROVE FALSE
    BY <1>5, <1>10 DEF Tidy
  <2>1. u.id < t.id
    BY <1>9, <1>10
  <2> QED BY <1>5, <1>6, <1>9, <1>11, <2>1 DEF Blocks
<1>13. u \in c /\ u.boot \in Boots(c) /\ u \in LinesOf(c, u.boot)
  BY <1>5, <1>12, FromFacts DEF c, LinesOf
<1>14. HeadOf(c, u.boot) = u
  <2>1. LinesOf(c, u.boot) = EndOf(G, u.boot, n)
    BY <1>13, LinesOfCopy DEF c, Since
  <2>2. Ordered(LinesOf(c, u.boot))
    BY <2>1, EndFacts
  <2>3. \A l \in LinesOf(c, u.boot) : u.id <= l.id
    BY <1>8, <2>1 DEF Opened, EndOf
  <2> QED BY <1>13, <2>2, <2>3, FirstIs DEF HeadOf
<1>15. u.boot \in Before(c, b) \cap Linking(c)
  BY <1>5, <1>13, <1>14 DEF Before, Begins, Linking, s
<1> QED BY <1>5, <1>14, <1>15 DEF Forked, s, c

(* What the host link of a start can be found to be.                       *)
LEMMA HostLinkFinds ==
    ASSUME NEW G, LogIs(G), NEW n \in Nat, Tidy(G, n), NEW b \in Linking(Since(G, n)),
           NEW f \in HostLinkFindings(Since(G, n), b)
    PROVE  LET c == Since(G, n)
               s == HeadOf(c, b)
           IN  /\ f[1] = "break" =>
                     /\ s.link # None /\ s.link.boot \notin Boots(c) /\ Previous(c, b) # {}
                     /\ f = <<"break", "missing-start", b>>
               /\ f[1] = "unverified" =>
                     \/ s.link = None /\ Previous(c, b) # {}
                     \/ /\ s.link # None /\ s.link.boot \in Boots(c) /\ Previous(c, b) # {}
                        /\ ~(s.link.boot \in Previous(c, b)
                                /\ IsNewest(c, s.link.boot, Previous(c, b)))
                     \/ /\ s.link # None /\ s.link.boot \in Boots(c)
                        /\ ~IsFirst(c, s.link.boot)
                        /\ \A k \in G :
                              k.event = "checkpoint" /\ NameOf(k) = s.link => k.id < n
<1> DEFINE c == Since(G, n)
           s == HeadOf(c, b)
           link == s.link
           before == Previous(c, b)
<1>1. s \in G /\ s.event = "started"
  BY LinkingHead
<1>2. Known(G, {s.host}, s.id, link)
  BY <1>1 DEF LogIs, LineOk
<1>3. CASE link = None
  <2>1. f = <<"unverified", "unlinked-start", b>> /\ before # {}
    <3> HIDE DEF c, before
    <3> QED BY <1>3 DEF HostLinkFindings, c, before
  <2> QED BY <1>3, <2>1
<1>4. CASE link # None /\ link.boot \notin Boots(c)
  <2>1. f \in IF before = {} THEN {<<"notice", "copy-begins-later", b>>}
              ELSE {<<"break", "missing-start", b>>}
    <3> HIDE DEF c, before
    <3> QED BY <1>4 DEF HostLinkFindings, c, before
  <2> QED BY <1>4, <2>1
<1>5. CASE link # None /\ link.boot \in Boots(c)
  <2>1. PICK k \in G : k.event = "checkpoint" /\ k.id < s.id /\ NameOf(k) = link
    BY <1>2, <1>5 DEF Known, MarksOf
  <2>2. link.boot = k.boot
    BY <2>1 DEF NameOf, Named
  <2>3. ~Begins(c, b, link.boot)
    <3>1. HeadOf(c, k.boot).id < s.id
      BY <1>5, <2>1, <2>2, TargetBegins
    <3>2. HeadOf(c, k.boot).id \in Nat /\ s.id \in Nat
      BY <1>1, <1>5, <2>2, HeadFacts, FromFacts DEF Since
    <3> HIDE DEF c, s
    <3> QED BY <2>2, <3>1, <3>2 DEF Begins, s
  <2>4. CASE before # {} /\ ~(link.boot \in before /\ IsNewest(c, link.boot, before))
    <3>1. PICK e \in before : link.boot \notin before \/ Begins(c, link.boot, e)
      BY <2>4 DEF IsNewest
    <3>2. Forked(c, b)
      BY <1>5, <3>1, ForkIsFound
    <3>3. f = <<"unverified", "fork", b>>
      <4> HIDE DEF c, before
      <4> QED BY <1>5, <2>4, <3>2 DEF HostLinkFindings, c, before
    <3> QED BY <1>5, <2>4, <3>3
  <2>5. CASE ~(before # {} /\ ~(link.boot \in before /\ IsNewest(c, link.boot, before)))
    <3>1. f \in CheckHeld(c, b, link)
      <4> HIDE DEF c, before
      <4> QED BY <1>5, <2>3, <2>5 DEF HostLinkFindings, c, before
    <3>2. /\ f[1] # "break"
          /\ \A j \in G : j.event = "checkpoint" /\ NameOf(j) = link => j.id < n
          /\ f[1] = "unverified" => ~IsFirst(c, link.boot)
      BY <1>5, <2>1, <3>1, CheckHeldFinds
    <3> QED BY <1>5, <3>2
  <2> QED BY <2>4, <2>5
<1> QED BY <1>3, <1>4, <1>5

-----------------------------------------------------------------------------
(* A finding is about a start or about a link.                             *)
LEMMA ReportOf ==
    ASSUME NEW c, NEW f \in Report(c)
    PROVE  \/ \E b \in Boots(c) : f \in StartFindings(c, b) \cup TailFindings(c, b)
           \/ \E b \in Linking(c) : f \in VolumeLinkFindings(c, b) \cup HostLinkFindings(c, b)
<1> DEFINE A(b) == StartFindings(c, b) \cup TailFindings(c, b)
           B(b) == VolumeLinkFindings(c, b) \cup HostLinkFindings(c, b)
<1>1. f \in (UNION {A(b) : b \in Boots(c)}) \cup (UNION {B(b) : b \in Linking(c)})
  BY DEF Report, A, B
<1> HIDE DEF A, B
<1>2. (\E b \in Boots(c) : f \in A(b)) \/ (\E b \in Linking(c) : f \in B(b))
  <2>1. CASE f \in UNION {A(b) : b \in Boots(c)}
    <3>1. PICK X \in {A(b) : b \in Boots(c)} : f \in X
      BY <2>1
    <3> QED BY <3>1
  <2>2. CASE f \in UNION {B(b) : b \in Linking(c)}
    <3>1. PICK X \in {B(b) : b \in Linking(c)} : f \in X
      BY <2>2
    <3> QED BY <3>1
  <2>3. f \in UNION {A(b) : b \in Boots(c)} \/ f \in UNION {B(b) : b \in Linking(c)}
    BY <1>1
  <2> QED BY <2>1, <2>2, <2>3
<1> QED BY <1>2 DEF A, B

(* What breaks a copy is a link to a start that it does not have.          *)
LEMMA BreaksOf ==
    ASSUME NEW G, LogIs(G), NEW n \in Nat, Tidy(G, n), NEW f \in Breaks(Since(G, n))
    PROVE  \E b \in Linking(Since(G, n)) :
              LET c == Since(G, n)
                  s == HeadOf(c, b)
              IN  /\ f = <<"break", "missing-start", b>>
                  /\ \/ ~IsFirst(c, b) /\ s.volumeLink # None /\ s.volumeLink.boot \notin Boots(c)
                     \/ s.link # None /\ s.link.boot \notin Boots(c) /\ Previous(c, b) # {}
<1> DEFINE c == Since(G, n)
<1>1. f \in Report(c) /\ f[1] = "break"
  BY DEF Breaks
<1>2. ~\E b \in Boots(c) : f \in StartFindings(c, b) \cup TailFindings(c, b)
  BY <1>1, StartsHold DEF Since
<1>3. PICK b \in Linking(c) : f \in VolumeLinkFindings(c, b) \cup HostLinkFindings(c, b)
  BY <1>1, <1>2, ReportOf
<1> QED BY <1>1, <1>3, VolumeLinkFinds, HostLinkFinds

(* The copy from 0 on is the log.                                          *)
LEMMA SinceStart ==
    ASSUME NEW G, LogIs(G)
    PROVE  Since(G, 0) = G /\ \A l \in G : 0 <= l.id
<1>1. \A l \in G : l.id \in Nat /\ l.host \in Hosts
  BY FromFacts
<1>2. \A l \in G : 0 <= l.id
  BY <1>1
<1>3. G \subseteq Since(G, 0)
  BY <1>1, <1>2 DEF Since, CopyOf
<1>4. Since(G, 0) \subseteq G
  BY DEF Since, CopyOf
<1> QED BY <1>2, <1>3, <1>4

(* The log itself is not broken.                                           *)
LEMMA LogHolds ==
    ASSUME NEW G, LogIs(G)
    PROVE  Breaks(G) = {}
<1>1. Since(G, 0) = G
  BY SinceStart
<1>2. Tidy(G, 0)
  BY SinceStart DEF Tidy
<1> SUFFICES ASSUME NEW f \in Breaks(Since(G, 0)) PROVE FALSE
  BY <1>1
<1>3. PICK b \in Linking(G) :
         LET s == HeadOf(G, b) IN
         \/ s.volumeLink # None /\ s.volumeLink.boot \notin Boots(G)
         \/ s.link # None /\ s.link.boot \notin Boots(G)
  BY <1>1, <1>2, BreaksOf
<1> DEFINE s == HeadOf(G, b)
<1>4. s \in G /\ s.event = "started"
  BY <1>1, LinkingHead
<1>5. Known(G, Hosts, s.id, s.volumeLink) /\ Known(G, {s.host}, s.id, s.link)
  BY <1>4 DEF LogIs, LineOk
<1>6. \A k \in G : NameOf(k).boot \in Boots(G)
  BY DEF NameOf, Named, Boots
<1> HIDE DEF s
<1> QED BY <1>3, <1>5, <1>6 DEF Known, MarksOf, s

-----------------------------------------------------------------------------
(* One process after another: the copies that rotation leaves.             *)
LinkedIn(G, B) ==
    \A l \in G : l.event = "started" /\ l.boot \notin B =>
       /\ NewestIn(G, {l.host}, l.id, l.link)
       /\ NewestIn(G, Hosts, l.id, l.volumeLink)

(* A link to the newest checkpoint names one, if there is one.             *)
LEMMA NewestIsHeld ==
    ASSUME NEW G, LogIs(G), NEW S, NEW i, NEW x, NewestIn(G, S, i, x),
           NEW m \in MarksOf(G, S, i)
    PROVE  /\ x # None
           /\ \E k \in G : /\ k \in MarksOf(G, S, i) /\ k.event = "checkpoint"
                           /\ NameOf(k) = x /\ m.id <= k.id
                           /\ \A j \in MarksOf(G, S, i) : j.id <= k.id
<1>1. PICK k \in MarksOf(G, S, i) : NameOf(k) = x /\ \A j \in MarksOf(G, S, i) : j.id <= k.id
  BY DEF NewestIn
<1>2. k \in G /\ k.event = "checkpoint"
  BY DEF MarksOf
<1>3. x \in Names
  BY <1>1, <1>2, LineFields DEF NameOf, Named, Names, LogIs, Ordered
<1>4. x # None
  BY <1>3, NoneIsNoName DEF Names
<1> QED BY <1>1, <1>2, <1>4

(* A copy that rotation cut is broken only by a start that seems to be     *)
(* missing, of a boot behind or when the copy begins in a start without a  *)
(* checkpoint.                                                             *)
LEMMA SuffixHolds ==
    ASSUME NEW G, LogIs(G), Blocks(G), NEW n \in Nat, NEW B, LinkedIn(G, B),
           NEW f \in Breaks(Since(G, n))
    PROVE  /\ f[2] = "missing-start"
           /\ \/ Held(LinesOf(Since(G, n), FirstOf(Since(G, n)).boot)) = {}
              \/ f[3] \in B
<1> DEFINE c == Since(G, n)
           x == FirstOf(c)
<1>1. PICK b \in Linking(c) :
         LET s == HeadOf(c, b) IN
         /\ f = <<"break", "missing-start", b>>
         /\ \/ ~IsFirst(c, b) /\ s.volumeLink # None /\ s.volumeLink.boot \notin Boots(c)
            \/ s.link # None /\ s.link.boot \notin Boots(c) /\ Previous(c, b) # {}
  BY BreaksOf DEF Tidy
<1> DEFINE s == HeadOf(c, b)
<1>2. /\ s \in G /\ n <= s.id /\ s.boot = b /\ s.event = "started" /\ b \in Boots(c)
  BY LinkingHead
<1> SUFFICES ASSUME Held(LinesOf(c, x.boot)) # {}, b \notin B PROVE FALSE
  BY <1>1
<1>3. /\ NewestIn(G, {s.host}, s.id, s.link)
      /\ NewestIn(G, Hosts, s.id, s.volumeLink)
  BY <1>2 DEF LinkedIn
<1>4. \A l \in G : NameOf(l).boot = l.boot /\ l.id \in Nat /\ l.host \in Hosts
  BY FromFacts DEF NameOf, Named
<1>5. CASE ~IsFirst(c, b) /\ s.volumeLink # None /\ s.volumeLink.boot \notin Boots(c)
  <2>1. c # {}
    BY <1>2 DEF Boots
  <2>2. /\ x.boot \in Boots(c) /\ x \in c /\ x.boot # b /\ HeadOf(c, x.boot) = x
    <3>1. /\ x \in c /\ x.boot \in Boots(c)
          /\ \A e \in Boots(c) : IsFirst(c, e) <=> e = x.boot
      BY <2>1, FirstOfCopy DEF Since
    <3>2. IsFirst(c, x.boot)
      BY <3>1
    <3> QED BY <1>2, <1>5, <3>1, <3>2 DEF IsFirst
  <2>3. x.id < s.id
    <3>1. x.id <= s.id /\ x \in G
      BY <1>2, <2>1, <2>2, FirstOfCopy, FromFacts DEF Since
    <3>2. x.id # s.id
      BY <1>2, <2>2, <3>1 DEF LogIs, Ordered
    <3> QED BY <1>2, <1>4, <3>1, <3>2
  <2>4. x.boot \in HoldingACheckpoint(c, Before(c, b))
    BY <2>2, <2>3 DEF HoldingACheckpoint, Before, Begins
  <2>5. PICK m \in G : m.event = "checkpoint" /\ n <= m.id /\ m.id < s.id
    BY <2>4, HeldBefore
  <2>6. m \in MarksOf(G, Hosts, s.id)
    BY <1>4, <2>5 DEF MarksOf
  <2>7. PICK k \in G : NameOf(k) = s.volumeLink /\ m.id <= k.id
    BY <1>3, <2>6, NewestIsHeld
  <2>8. s.volumeLink.boot = k.boot /\ n <= k.id
    BY <1>4, <2>5, <2>7
  <2> QED BY <1>5, <2>7, <2>8, FromFacts
<1>6. CASE s.link # None /\ s.link.boot \notin Boots(c) /\ Previous(c, b) # {}
  <2>1. PICK e \in Previous(c, b) : TRUE
    BY <1>6
  <2>2. e \in HoldingACheckpoint(c, Before(c, b)) /\ HeadOf(c, e).host = s.host
    BY DEF Previous, HoldingACheckpoint, BeforeOfHost
  <2>3. PICK m \in G : /\ m.event = "checkpoint" /\ n <= m.id /\ m.id < s.id
                       /\ m.host = s.host
    BY <2>2, HeldBefore
  <2>4. m \in MarksOf(G, {s.host}, s.id)
    BY <2>3 DEF MarksOf
  <2>5. PICK k \in G : NameOf(k) = s.link /\ m.id <= k.id
    BY <1>3, <2>4, NewestIsHeld
  <2>6. s.link.boot = k.boot /\ n <= k.id
    BY <1>4, <2>3, <2>5
  <2> QED BY <1>6, <2>5, <2>6, FromFacts
<1> QED BY <1>1, <1>5, <1>6

(* A start whose lines are cut is the first of its copy.                   *)
LEMMA CutIsFirst ==
    ASSUME NEW G, LogIs(G), Blocks(G), NEW n \in Nat, NEW k \in G, k.id < n,
           k.boot \in Boots(Since(G, n))
    PROVE  IsFirst(Since(G, n), k.boot)
<1> DEFINE c == Since(G, n)
           x == FirstOf(c)
           t == HeadOf(c, k.boot)
<1>1. c # {}
  BY DEF Boots
<1>2. /\ x \in c /\ x \in G /\ n <= x.id /\ (\A m \in c : x.id <= m.id)
      /\ IsFirst(c, k.boot) <=> k.boot = x.boot
  BY <1>1, FirstOfCopy, FromFacts DEF Since
<1>3. t \in c /\ t \in G /\ t.boot = k.boot
  BY HeadFacts DEF Since
<1> HIDE DEF c, x, t
<1> SUFFICES ASSUME k.boot # x.boot PROVE FALSE
  BY <1>2 DEF c
<1>4. k.id \in Nat /\ x.id \in Nat /\ t.id \in Nat
  BY <1>2, <1>3, FromFacts
<1>5. k.id < x.id /\ x.id < t.id
  <2>1. x.id # t.id
    BY <1>2, <1>3 DEF LogIs, Ordered
  <2> QED BY <1>2, <1>3, <1>4, <2>1
<1> QED BY <1>2, <1>3, <1>5 DEF Blocks

(* Every start began, and ended in a checkpoint.                           *)
AllSealed(G) ==
    \A l \in G : /\ \E s \in G : s.boot = l.boot /\ s.event = "started"
                 /\ \E m \in G : m.boot = l.boot /\ l.id <= m.id /\ m.event = "checkpoint"

(* In a log of sealed starts that ended in a checkpoint, nothing is        *)
(* unverified about a start.                                               *)
LEMMA SealedStarts ==
    ASSUME NEW G, LogIs(G), Blocks(G), AllSealed(G), NEW n \in Nat,
           NEW b \in Boots(Since(G, n)),
           NEW f \in StartFindings(Since(G, n), b) \cup TailFindings(Since(G, n), b)
    PROVE  f[1] # "unverified"
<1> DEFINE c == Since(G, n)
           L == LinesOf(c, b)
<1>1. L = EndOf(G, b, n) /\ L # {} /\ L \subseteq G /\ Ordered(L) /\ \A l \in G : l.id \in Nat
  BY LinesOfCopy, EndFacts DEF Since
<1>2. ASSUME NEW l \in L PROVE \E m \in Marks(L) : l.id <= m.id
  <2>1. PICK m \in G : m.boot = l.boot /\ l.id <= m.id /\ m.event = "checkpoint"
    BY <1>1 DEF AllSealed
  <2>2. m \in L
    BY <1>1, <2>1 DEF EndOf
  <2> QED BY <2>1, <2>2 DEF Marks
<1>3. IsSealed(L)
  BY <1>1, <1>2 DEF IsSealed
<1>4. ~Ended(c, L)
  <2> SUFFICES ASSUME NEW l \in TailOf(L) PROVE FALSE
    BY DEF Ended
  <2>1. l \in L /\ \A m \in Marks(L) : m.id < l.id
    BY DEF TailOf
  <2>2. PICK m \in Marks(L) : l.id <= m.id
    BY <1>2, <2>1
  <2>3. m.id \in Nat /\ l.id \in Nat
    BY <1>1, <2>1 DEF Marks
  <2> QED BY <2>1, <2>2, <2>3
<1>5. ASSUME ~IsFirst(c, b), NEW m \in Marks(L), BeginsInside(L, m)
      PROVE  FALSE
  <2>1. ~HasStarted(L)
    BY <1>5 DEF BeginsInside
  <2>2. PICK s \in G : s.boot = b /\ s.event = "started"
    <3>1. PICK l \in L : TRUE
      BY <1>1
    <3>2. l \in G /\ l.boot = b
      BY <1>1 DEF EndOf
    <3> QED BY <3>2 DEF AllSealed
  <2>3. s.id < n
    <3> SUFFICES ASSUME n <= s.id PROVE FALSE
      BY <1>1, <2>2
    <3>1. s \in L
      BY <1>1, <2>2 DEF EndOf
    <3>2. \A l \in L : s.id <= l.id
      BY <1>1, <2>2 DEF LogIs, LineOk, Opened, EndOf
    <3>3. FirstOf(L) = s
      BY <1>1, <3>1, <3>2, FirstIs
    <3> QED BY <2>1, <2>2, <3>3 DEF HasStarted
  <2> QED BY <1>5, <2>2, <2>3, CutIsFirst
<1> QED BY <1>3, <1>4, <1>5, StartsHold DEF Since

(* In such a log, with every link to the newest checkpoint, nothing is     *)
(* unverified about a link.                                                *)
LEMMA SealedLinks ==
    ASSUME NEW G, LogIs(G), Blocks(G), LinkedIn(G, {}), NEW n \in Nat,
           NEW b \in Linking(Since(G, n)), AllSealed(G),
           NEW f \in VolumeLinkFindings(Since(G, n), b) \cup HostLinkFindings(Since(G, n), b)
    PROVE  f[1] # "unverified"
<1> DEFINE c == Since(G, n)
           s == HeadOf(c, b)
           before == Previous(c, b)
<1>1. /\ s \in G /\ n <= s.id /\ s.boot = b /\ s.event = "started" /\ b \in Boots(c)
  BY LinkingHead
<1>2. /\ NewestIn(G, {s.host}, s.id, s.link)
      /\ NewestIn(G, Hosts, s.id, s.volumeLink)
  BY <1>1 DEF LinkedIn
<1>3. \A l \in G : NameOf(l).boot = l.boot /\ l.id \in Nat /\ l.host \in Hosts
  BY FromFacts DEF NameOf, Named
<1>4. ASSUME HoldingACheckpoint(c, Before(c, b)) # {}
      PROVE  /\ s.volumeLink # None
             /\ \E k \in G : /\ k.event = "checkpoint" /\ NameOf(k) = s.volumeLink
                             /\ n <= k.id
  <2>1. PICK m \in G : m.event = "checkpoint" /\ n <= m.id /\ m.id < s.id
    BY <1>4, HeldBefore
  <2>2. m \in MarksOf(G, Hosts, s.id)
    BY <1>3, <2>1 DEF MarksOf
  <2>3. /\ s.volumeLink # None
        /\ \E k \in G : k.event = "checkpoint" /\ NameOf(k) = s.volumeLink /\ m.id <= k.id
    BY <1>2, <2>2, NewestIsHeld
  <2> QED BY <1>3, <2>1, <2>3
<1>5. ASSUME NEW e \in before
      PROVE  /\ s.link # None
             /\ s.link.boot \in before
             /\ ~Begins(c, s.link.boot, e)
  <2>1. e \in HoldingACheckpoint(c, Before(c, b)) /\ HeadOf(c, e).host = s.host /\ e \in Boots(c)
    BY DEF Previous, HoldingACheckpoint, BeforeOfHost, Before
  <2>2. PICK m \in G : /\ m.event = "checkpoint" /\ n <= m.id /\ m.id < s.id
                       /\ m.host = s.host
    BY <2>1, HeldBefore
  <2>3. m \in MarksOf(G, {s.host}, s.id)
    BY <2>2 DEF MarksOf
  <2>4. /\ s.link # None
        /\ \E k \in G : /\ k \in MarksOf(G, {s.host}, s.id) /\ NameOf(k) = s.link
                        /\ \A j \in MarksOf(G, {s.host}, s.id) : j.id <= k.id
    <3> HIDE DEF s
    <3>1. NewestIn(G, {s.host}, s.id, s.link)
      BY <1>2
    <3> QED BY <2>3, <3>1, NewestIsHeld
  <2>5. PICK k \in MarksOf(G, {s.host}, s.id) :
           NameOf(k) = s.link /\ \A j \in MarksOf(G, {s.host}, s.id) : j.id <= k.id
    BY <2>4
  <2>6. k \in G /\ s.link.boot = k.boot
    BY <1>3, <2>5 DEF MarksOf
  <2>7. \A j \in MarksOf(G, {s.host}, s.id) : k.id < j.id => j.boot = k.boot
    <3>1. \A j \in MarksOf(G, {s.host}, s.id) : j.id \in Nat
      BY <1>3 DEF MarksOf
    <3>2. k.id \in Nat
      BY <1>3, <2>6
    <3> QED BY <2>5, <3>1, <3>2
  <2>8. \/ e = k.boot
        \/ k.boot \in before /\ ~Begins(c, k.boot, e)
    BY <2>7, PreviousOf
  <2>9. ~Begins(c, e, e)
    <3>1. HeadOf(c, e).id \in Nat
      BY <2>1, HeadFacts, FromFacts DEF Since
    <3> HIDE DEF c
    <3> QED BY <3>1 DEF Begins
  <2> QED BY <2>4, <2>6, <2>8, <2>9
<1>6. ASSUME f \in VolumeLinkFindings(c, b), f[1] = "unverified" PROVE FALSE
  <2>1. /\ ~IsFirst(c, b)
        /\ \/ s.volumeLink = None /\ HoldingACheckpoint(c, Before(c, b)) # {}
           \/ /\ s.volumeLink # None
              /\ \A k \in G :
                    k.event = "checkpoint" /\ NameOf(k) = s.volumeLink => k.id < n
    BY <1>6, VolumeLinkFinds DEF Tidy
  <2> DEFINE x == FirstOf(c)
  <2>2. c # {}
    BY <1>1 DEF Boots
  <2>3. /\ x \in c /\ x.boot \in Boots(c) /\ IsFirst(c, x.boot)
        /\ \A m \in c : x.id <= m.id
    BY <2>2, FirstOfCopy DEF Since
  <2>4. x \in G /\ n <= x.id /\ s \in c
    BY <1>1, <2>3, FromFacts
  <2>5. HeadOf(c, x.boot) = x
    BY <2>3 DEF IsFirst
  <2>6. x.id < s.id
    <3>1. x.boot # b
      BY <2>1, <2>3
    <3>2. x.id <= s.id
      BY <2>3, <2>4
    <3>3. x.id # s.id
      BY <1>1, <2>4, <3>1 DEF LogIs, Ordered
    <3> QED BY <1>1, <1>3, <2>4, <3>2, <3>3
  <2>7. Held(LinesOf(c, x.boot)) # {}
    <3>1. PICK m \in G : m.boot = x.boot /\ x.id <= m.id /\ m.event = "checkpoint"
      BY <2>4 DEF AllSealed
    <3>2. m \in c
      BY <1>3, <2>4, <3>1, FromFacts
    <3> QED BY <3>1, <3>2 DEF LinesOf, Held, Marks
  <2>8. x.boot \in HoldingACheckpoint(c, Before(c, b))
    BY <2>3, <2>5, <2>6, <2>7 DEF HoldingACheckpoint, Before, Begins
  <2>9. PICK k \in G : k.event = "checkpoint" /\ NameOf(k) = s.volumeLink /\ n <= k.id
    BY <1>4, <2>8
  <2> QED BY <1>3, <1>4, <2>1, <2>8, <2>9
<1>7. ASSUME f \in HostLinkFindings(c, b), f[1] = "unverified" PROVE FALSE
  <2>1. \/ s.link = None /\ before # {}
        \/ /\ s.link # None /\ s.link.boot \in Boots(c) /\ before # {}
           /\ ~(s.link.boot \in before /\ IsNewest(c, s.link.boot, before))
        \/ /\ s.link # None /\ s.link.boot \in Boots(c)
           /\ ~IsFirst(c, s.link.boot)
           /\ \A k \in G : k.event = "checkpoint" /\ NameOf(k) = s.link => k.id < n
    BY <1>7, HostLinkFinds DEF Tidy
  <2>2. before # {} => /\ s.link # None /\ s.link.boot \in before
                       /\ IsNewest(c, s.link.boot, before)
    BY <1>5 DEF IsNewest
  <2>3. /\ s.link # None /\ s.link.boot \in Boots(c) /\ ~IsFirst(c, s.link.boot)
        /\ \A k \in G : k.event = "checkpoint" /\ NameOf(k) = s.link => k.id < n
    BY <2>1, <2>2
  <2>4. PICK k \in MarksOf(G, {s.host}, s.id) : NameOf(k) = s.link
    BY <1>2, <2>3 DEF NewestIn
  <2>5. k \in G /\ k.id < n /\ k.boot = s.link.boot
    BY <1>3, <2>3, <2>4 DEF MarksOf
  <2> QED BY <2>3, <2>5, CutIsFirst
<1> QED BY <1>6, <1>7

(* So no copy of it, cut anywhere, is broken or unverified.                *)
LEMMA SealedCopies ==
    ASSUME NEW G, LogIs(G), Blocks(G), LinkedIn(G, {}), AllSealed(G), NEW n \in Nat
    PROVE  /\ Breaks(Since(G, n)) = {}
           /\ \A f \in Report(Since(G, n)) : f[1] # "unverified"
<1> DEFINE c == Since(G, n)
           x == FirstOf(c)
<1>1. ASSUME NEW f \in Report(c) PROVE f[1] # "unverified"
  BY ReportOf, SealedStarts, SealedLinks
<1>2. ASSUME NEW f \in Breaks(c) PROVE FALSE
  <2>1. Held(LinesOf(c, x.boot)) = {}
    BY SuffixHolds
  <2>2. c # {}
    BY BreaksOf, LinkingHead DEF Boots, Tidy
  <2>3. x \in c
    BY <2>2, FirstOfCopy DEF Since
  <2>4. x \in G /\ n <= x.id /\ \A l \in G : l.id \in Nat
    BY <2>3, FromFacts
  <2>5. PICK m \in G : m.boot = x.boot /\ x.id <= m.id /\ m.event = "checkpoint"
    BY <2>4 DEF AllSealed
  <2>6. m \in c
    BY <2>4, <2>5, FromFacts
  <2> QED BY <2>1, <2>5, <2>6 DEF LinesOf, Held, Marks
<1> QED BY <1>1, <1>2

(* Such a log has a verified segment.                                      *)
LEMMA LogVerifies ==
    ASSUME NEW G, LogIs(G), AllSealed(G), G # {}
    PROVE  VerifiedIn(G) # {}
<1>1. Since(G, 0) = G
  BY SinceStart
<1>2. PICK l \in G : TRUE
  OBVIOUS
<1>3. PICK s \in G : s.boot = l.boot /\ s.event = "started"
  BY DEF AllSealed
<1>4. PICK m \in G : m.boot = l.boot /\ m.event = "checkpoint"
  BY DEF AllSealed
<1> DEFINE b == l.boot
           L == LinesOf(G, b)
<1>5. b \in Boots(G) /\ s \in L /\ m \in L /\ m \in Marks(L)
  BY <1>2, <1>3, <1>4 DEF Boots, LinesOf, Marks
<1>6. L = EndOf(G, b, 0)
  BY <1>1, <1>5, LinesOfCopy DEF Since
<1>7. Ordered(L)
  BY <1>6, EndFacts
<1>8. \A x \in L : s.id <= x.id
  BY <1>3 DEF LogIs, LineOk, Opened, LinesOf
<1>9. HasStarted(L)
  BY <1>3, <1>5, <1>7, <1>8, FirstIs DEF HasStarted
<1>10. m \in VerifiedIn(G)
  BY <1>1, <1>5, <1>9, VerifiedUnlessInside DEF BeginsInside, Since
<1> QED BY <1>10

-----------------------------------------------------------------------------
(* A verified copy: each line under a checkpoint that the copy can tell.   *)
LEMMA StartsAreReported ==
    ASSUME NEW c, NEW b \in Boots(c),
           NEW f \in StartFindings(c, b) \cup TailFindings(c, b)
    PROVE  f \in Report(c)
<1> DEFINE A(e) == StartFindings(c, e) \cup TailFindings(c, e)
<1>1. UNION {A(e) : e \in Boots(c)} \subseteq Report(c)
  BY DEF Report
<1>2. f \in A(b)
  OBVIOUS
<1> HIDE DEF A
<1> QED BY <1>1, <1>2

(* A checkpoint whose lines are all in the copy is verified.               *)
LEMMA WholeIsVerified ==
    ASSUME NEW G, LogIs(G), NEW S, NEW n \in Nat, NEW m \in Whole(CopyOf(G, S, n))
    PROVE  m \in VerifiedIn(CopyOf(G, S, n))
<1> DEFINE c == CopyOf(G, S, n)
           b == m.boot
           L == LinesOf(c, b)
<1>1. m \in c /\ m.event = "checkpoint" /\ m.root \subseteq {l.id : l \in c}
  BY DEF Whole, Marks
<1>2. b \in Boots(c) /\ m \in Marks(L) /\ m \in G
  BY <1>1, CopyFacts DEF Boots, LinesOf, Marks
<1>3. L = EndOf(G, b, n)
  BY <1>2, LinesOfCopy
<1>4. PICK o \in G : OpensFor(G, b, m.id, o) /\ m.root = SegmentFrom(G, b, m.id, o)
  BY <1>1, <1>2, OpenerOf
<1>5. o.id \in m.root
  <2>1. o.boot = b /\ o.id < m.id /\ o.id <= o.id
    BY <1>4, CopyFacts DEF OpensFor
  <2> QED BY <1>4, <2>1 DEF SegmentFrom
<1>6. PICK l \in c : l.id = o.id
  BY <1>1, <1>5
<1>7. n <= o.id
  BY <1>6 DEF CopyOf
<1>8. ~BeginsInside(L, m)
  BY <1>2, <1>3, <1>4, <1>7, OpenerInCopy
<1> QED BY <1>2, <1>8, VerifiedUnlessInside

(* A copy with nothing unverified is accounted for.                        *)
LEMMA VerifiedCopies ==
    ASSUME NEW G, LogIs(G), NEW S, NEW n \in Nat,
           \A f \in Report(CopyOf(G, S, n)) : f[1] # "unverified"
    PROVE  Accounted(CopyOf(G, S, n))
<1> DEFINE c == CopyOf(G, S, n)
<1> SUFFICES ASSUME NEW l \in c \ Marks(c)
             PROVE  \/ \E m \in Whole(c) : l.id \in m.root
                    \/ l \in HeadLines(c)
                    \/ \A m \in Whole(c) : m.id < l.id
  BY DEF Accounted
<1> DEFINE b == l.boot
           L == LinesOf(c, b)
<1>1. l \in c /\ l.event # "checkpoint" /\ l \in G /\ b \in Boots(c) /\ l \in L
  BY CopyFacts DEF Marks, Boots, LinesOf
<1>2. L = EndOf(G, b, n) /\ Ordered(L) /\ L \subseteq G /\ \A x \in G : x.id \in Nat
  BY <1>1, LinesOfCopy, EndFacts
<1>3. \A f \in StartFindings(c, b) \cup TailFindings(c, b) : f[1] # "unverified"
  BY <1>1, StartsAreReported
<1>4. IsSealed(L)
  <2> SUFFICES ASSUME ~IsSealed(L) PROVE FALSE
    OBVIOUS
  <2>1. <<"unverified", "unsealed-start", b>> \in StartFindings(c, b)
    <3> HIDE DEF c
    <3> QED BY DEF StartFindings, If
  <2> QED BY <1>3, <2>1
<1>5. ~Ended(c, L)
  <2> SUFFICES ASSUME Ended(c, L) PROVE FALSE
    OBVIOUS
  <2>1. <<"unverified", "ended-without-checkpoint", b>> \in TailFindings(c, b)
    <3> HIDE DEF c
    <3> QED BY <1>4 DEF TailFindings, If
  <2> QED BY <1>3, <2>1
<1>6. ASSUME NEW m \in Marks(L), BeginsInside(L, m) PROVE IsFirst(c, b)
  <2> SUFFICES ASSUME ~IsFirst(c, b) PROVE FALSE
    OBVIOUS
  <2>1. <<"unverified", "begins-inside", b>> \in StartFindings(c, b)
    <3> HIDE DEF c
    <3> QED BY <1>6 DEF StartFindings, If
  <2> QED BY <1>3, <2>1
<1>7. CASE l \in TailOf(L)
  <2>1. ASSUME NEW m \in Whole(c) PROVE m.id < l.id
    <3>1. m \in VerifiedIn(c) /\ m \in G
      BY WholeIsVerified, CopyFacts DEF Whole, Marks
    <3>2. ~(l.id < m.id)
      BY <1>5, <1>7, <3>1 DEF Ended
    <3>3. m.id # l.id
      <4>1. m.event = "checkpoint"
        BY DEF Whole, Marks
      <4> QED BY <1>1, <3>1, <4>1 DEF LogIs, Ordered
    <3> QED BY <1>1, <1>2, <3>1, <3>2, <3>3
  <2> QED BY <2>1
<1>8. CASE l \notin TailOf(L)
  <2> DEFINE M == {m \in Marks(L) : l.id < m.id}
             m == FirstOf(M)
  <2>1. M # {}
    <3>1. PICK j \in Marks(L) : ~(j.id < l.id)
      BY <1>1, <1>8 DEF TailOf
    <3>2. j \in G /\ j.event = "checkpoint"
      BY <1>2 DEF Marks
    <3>3. j.id # l.id
      BY <1>1, <3>2 DEF LogIs, Ordered
    <3> QED BY <1>1, <1>2, <3>1, <3>2, <3>3
  <2>2. M \subseteq L /\ Ordered(M)
    BY <1>2, OrderedPart DEF Marks
  <2>3. m \in M /\ \A j \in M : m.id <= j.id
    BY <2>1, <2>2, FirstLine
  <2> HIDE DEF m
  <2>4. m \in Marks(L) /\ l.id < m.id /\ m \in G /\ m.event = "checkpoint" /\ m.boot = b
    BY <1>2, <2>3 DEF Marks, LinesOf
  <2>5. \A j \in G : j.boot = b /\ l.id <= j.id /\ j.id < m.id => j.event # "checkpoint"
    <3> SUFFICES ASSUME NEW j \in G, j.boot = b, l.id <= j.id, j.id < m.id,
                        j.event = "checkpoint"
                 PROVE  FALSE
      OBVIOUS
    <3>1. l.id < j.id
      BY <1>1, <1>2 DEF LogIs, Ordered
    <3>2. n <= l.id
      BY <1>1 DEF CopyOf
    <3>3. j \in M
      BY <1>1, <1>2, <3>1, <3>2 DEF EndOf, Marks
    <3> QED BY <1>2, <2>3, <2>4, <3>3
  <2>6. PICK o \in G : OpensFor(G, b, m.id, o) /\ m.root = SegmentFrom(G, b, m.id, o)
    BY <2>4, OpenerOf
  <2>7. o.boot = b /\ o.id < m.id /\ o.event \in {"started", "checkpoint"}
    BY <2>6, CopyFacts, LineFields DEF OpensFor
  <2>8. o.id <= l.id
    <3> SUFFICES ASSUME l.id < o.id PROVE FALSE
      BY <1>1, <1>2
    <3>1. o.event = "started"
      BY <1>1, <1>2, <2>5, <2>7
    <3>2. o.id <= l.id
      BY <1>1, <2>7, <3>1 DEF LogIs, LineOk, Opened
    <3> QED BY <1>1, <1>2, <3>2
  <2>9. l.id \in m.root
    BY <1>1, <2>4, <2>6, <2>8 DEF SegmentFrom
  <2>10. CASE n <= o.id
    <3>1. ASSUME NEW i \in m.root PROVE i \in {x.id : x \in c}
      <4>1. PICK x \in G : x.id = i /\ x.boot = b /\ o.id <= x.id
        BY <2>6 DEF SegmentFrom
      <4>2. x \in EndOf(G, b, n)
        BY <1>2, <2>10, <4>1 DEF EndOf
      <4> QED BY <1>2, <4>1, <4>2 DEF LinesOf
    <3>2. m \in Whole(c)
      BY <2>4, <3>1 DEF Whole, Marks, LinesOf
    <3> QED BY <2>9, <3>2
  <2>11. CASE ~(n <= o.id)
    <3>1. BeginsInside(L, m)
      BY <1>2, <2>4, <2>6, <2>11, OpenerInCopy
    <3>2. IsFirst(c, b)
      BY <1>6, <2>4, <3>1
    <3>3. FirstOf(c).boot = b
      BY <1>1, <3>2, FirstOfCopy
    <3>4. ASSUME NEW j \in L, j.id <= l.id PROVE j.event = "line"
      <4>1. j \in G /\ j.boot = b /\ n <= j.id
        BY <1>2 DEF EndOf
      <4>2. o.id < j.id /\ j.id < m.id
        BY <1>1, <1>2, <2>4, <2>11, <3>4, <4>1
      <4> QED BY <2>6, <4>1, <4>2 DEF OpensFor
    <3>5. l \in HeadLines(c)
      BY <1>1, <3>3, <3>4 DEF HeadLines
    <3> QED BY <3>5
  <2> QED BY <2>10, <2>11
<1> QED BY <1>7, <1>8

-----------------------------------------------------------------------------
(* A line x is written after those of G.                                   *)
Later(G, x) == x.id \in Nat /\ \A l \in G : l.id \in Nat /\ l.id < x.id

(* What is said of the lines before i does not change.                     *)
LEMMA PastIsKept ==
    ASSUME NEW G, NEW x, Later(G, x), NEW i \in Nat, i <= x.id
    PROVE  /\ \A b : MarksBefore(G \cup {x}, b, i) = MarksBefore(G, b, i)
           /\ \A S : MarksOf(G \cup {x}, S, i) = MarksOf(G, S, i)
           /\ \A y : Taken(G \cup {x}, i, y) <=> Taken(G, i, y)
           /\ \A b, leaves, segment :
                 Segmented(G, b, i, leaves, segment)
                    => Segmented(G \cup {x}, b, i, leaves, segment)
<1>1. ~(x.id < i)
  BY DEF Later
<1>2. \A b : MarksBefore(G \cup {x}, b, i) = MarksBefore(G, b, i)
  BY <1>1 DEF MarksBefore
<1>3. \A S : MarksOf(G \cup {x}, S, i) = MarksOf(G, S, i)
  BY <1>1 DEF MarksOf
<1>4. \A y : Taken(G \cup {x}, i, y) <=> Taken(G, i, y)
  BY <1>1 DEF Taken
<1>5. ASSUME NEW b, NEW leaves, NEW segment, Segmented(G, b, i, leaves, segment)
      PROVE  Segmented(G \cup {x}, b, i, leaves, segment)
  <2>1. PICK o \in G : OpensFor(G, b, i, o) /\ leaves = SegmentFrom(G, b, i, o)
    BY <1>5 DEF Segmented
  <2>2. OpensFor(G \cup {x}, b, i, o)
    BY <1>1, <2>1 DEF OpensFor
  <2>3. SegmentFrom(G \cup {x}, b, i, o) = SegmentFrom(G, b, i, o)
    <3>1. {l \in G \cup {x} : l.boot = b /\ o.id <= l.id /\ l.id < i}
             = {l \in G : l.boot = b /\ o.id <= l.id /\ l.id < i}
      BY <1>1
    <3> QED BY <3>1 DEF SegmentFrom
  <2>4. \E s \in G \cup {x} : s.boot = b /\ s.event = "started" /\ s.id < i
    BY <1>5 DEF Segmented
  <2>5. /\ IsFiniteSet(MarksBefore(G \cup {x}, b, i))
        /\ segment = Cardinality(MarksBefore(G \cup {x}, b, i))
    BY <1>2, <1>5 DEF Segmented
  <2> QED BY <2>1, <2>2, <2>3, <2>4, <2>5 DEF Segmented
<1> QED BY <1>2, <1>3, <1>4, <1>5

(* What is known of a line stays true as the log grows.                    *)
LEMMA LineIsKept ==
    ASSUME NEW G, NEW x, Later(G, x), NEW l \in G, LineOk(G, l),
           x.boot = l.boot => x.host = l.host
    PROVE  LineOk(G \cup {x}, l)
<1> DEFINE H == G \cup {x}
<1>1. l.id \in Nat /\ l.id <= x.id /\ ~(x.id < l.id) /\ l.id < x.id /\ x.id \in Nat
  BY DEF Later
<1>2. Chained(H, l)
  <2>1. CASE l.prev = 0 /\ l.seq = 1 /\ Opened(G, l)
    BY <1>1, <2>1 DEF Chained, Opened
  <2>2. ASSUME NEW p \in G, Follows(l, p), p.id < l.id, p.boot = l.boot,
               \A m \in G : m.boot = l.boot /\ m.id < l.id => m.id <= p.id
        PROVE  Chained(H, l)
    <3>1. \A m \in H : m.boot = l.boot /\ m.id < l.id => m.id <= p.id
      BY <1>1, <2>2
    <3> QED BY <2>2, <3>1 DEF Chained
  <2> QED BY <2>1, <2>2 DEF LineOk, Chained
<1>3. HostBlock(H, l)
  <2> SUFFICES ASSUME NEW k \in H, NEW m \in H, k.id < m.id, m.id < l.id,
                      k.boot = l.boot, m.host = l.host
               PROVE  m.boot = l.boot
    BY DEF HostBlock
  <2>1. m \in G /\ k \in G
    BY <1>1 DEF Later
  <2> QED BY <2>1 DEF LineOk, HostBlock
<1>4. \A m \in H : m.boot = l.boot => m.host = l.host
  BY DEF LineOk
<1>5. l.event = "checkpoint" => Segmented(H, l.boot, l.id, l.root, l.segment)
  BY <1>1, PastIsKept DEF LineOk
<1>6. ASSUME l.event = "started"
      PROVE  /\ Opened(H, l)
             /\ Known(H, {l.host}, l.id, l.link)
             /\ UnlessTaken(H, l.host, l.id, l.link)
             /\ Known(H, Hosts, l.id, l.volumeLink)
  <2>1. /\ Opened(G, l)
        /\ Known(G, {l.host}, l.id, l.link)
        /\ UnlessTaken(G, l.host, l.id, l.link)
        /\ Known(G, Hosts, l.id, l.volumeLink)
    BY <1>6 DEF LineOk
  <2>2. Opened(H, l)
    BY <1>1, <2>1 DEF Opened
  <2>3. /\ \A S : MarksOf(H, S, l.id) = MarksOf(G, S, l.id)
        /\ \A y : Taken(H, l.id, y) <=> Taken(G, l.id, y)
    BY <1>1, PastIsKept
  <2> QED BY <2>1, <2>2, <2>3 DEF Known, UnlessTaken
<1> QED BY <1>2, <1>3, <1>4, <1>5, <1>6 DEF LineOk

(* The marks, and with them the links, when x is written.                  *)
LEMMA MarksGrow ==
    ASSUME NEW G, NEW x, Later(G, x), NEW S
    PROVE  /\ MarksOf(G, S, x.id) \subseteq MarksOf(G \cup {x}, S, x.id + 1)
           /\ \A m \in MarksOf(G \cup {x}, S, x.id + 1) :
                 \/ m \in MarksOf(G, S, x.id)
                 \/ m = x /\ x.event = "checkpoint" /\ x.host \in S
           /\ x.event = "checkpoint" /\ x.host \in S => x \in MarksOf(G \cup {x}, S, x.id + 1)
BY DEF MarksOf, Later

(* A known link stays known.                                               *)
LEMMA KnownIsKept ==
    ASSUME NEW G, NEW x, Later(G, x), NEW S, NEW y, Known(G, S, x.id, y)
    PROVE  Known(G \cup {x}, S, x.id + 1, y)
BY MarksGrow DEF Known

(* A taken link stays taken.                                               *)
LEMMA TakenIsKept ==
    ASSUME NEW G, NEW x, Later(G, x), NEW y, Taken(G, x.id, y)
    PROVE  Taken(G \cup {x}, x.id + 1, y)
BY DEF Taken, Later

(* What is said of a host link stays true, unless its host writes a        *)
(* checkpoint of another boot than the one it names.                       *)
LEMMA UnlessTakenIsKept ==
    ASSUME NEW G, NEW x, Later(G, x), NEW h, NEW y, UnlessTaken(G, h, x.id, y),
           \/ y = None
           \/ x.event # "checkpoint"
           \/ x.host # h
           \/ x.boot = y.boot
           \/ Taken(G, x.id, y)
    PROVE  UnlessTaken(G \cup {x}, h, x.id + 1, y)
<1>1. CASE y = None \/ Taken(G, x.id, y)
  BY <1>1, TakenIsKept DEF UnlessTaken
<1>2. ASSUME NEW k \in MarksOf(G, {h}, x.id), NameOf(k) = y,
             \A m \in MarksOf(G, {h}, x.id) : k.id < m.id => m.boot = y.boot,
             ~(y = None \/ Taken(G, x.id, y))
      PROVE  UnlessTaken(G \cup {x}, h, x.id + 1, y)
  <2>1. k \in MarksOf(G \cup {x}, {h}, x.id + 1)
    BY MarksGrow
  <2>2. ASSUME NEW m \in MarksOf(G \cup {x}, {h}, x.id + 1), k.id < m.id
        PROVE  m.boot = y.boot
    <3>1. \/ m \in MarksOf(G, {h}, x.id)
          \/ m = x /\ x.event = "checkpoint" /\ x.host \in {h}
      BY MarksGrow
    <3>2. CASE m \in MarksOf(G, {h}, x.id)
      BY <1>2, <2>2, <3>2
    <3>3. CASE m = x /\ x.event = "checkpoint" /\ x.host \in {h}
      BY <1>2, <3>3
    <3> QED BY <3>1, <3>2, <3>3
  <2> QED BY <1>2, <2>1, <2>2 DEF UnlessTaken
<1> QED BY <1>1, <1>2 DEF UnlessTaken

(* A link stays the newest until its hosts write a checkpoint.             *)
LEMMA NewestIsKept ==
    ASSUME NEW G, NEW x, Later(G, x), NEW S, NEW y, NewestIn(G, S, x.id, y),
           ~(x.event = "checkpoint" /\ x.host \in S)
    PROVE  NewestIn(G \cup {x}, S, x.id + 1, y)
<1>1. MarksOf(G \cup {x}, S, x.id + 1) = MarksOf(G, S, x.id)
  <2>1. ASSUME NEW m \in MarksOf(G \cup {x}, S, x.id + 1) PROVE m \in MarksOf(G, S, x.id)
    <3>1. m \in MarksOf(G, S, x.id) \/ (m = x /\ x.event = "checkpoint" /\ x.host \in S)
      BY MarksGrow
    <3> QED BY <3>1
  <2>2. MarksOf(G, S, x.id) \subseteq MarksOf(G \cup {x}, S, x.id + 1)
    BY MarksGrow
  <2> QED BY <2>1, <2>2
<1> QED BY <1>1 DEF NewestIn

(* A checkpoint that is written is the newest.                             *)
LEMMA NewestIsNew ==
    ASSUME NEW G, NEW x, Later(G, x), NEW S, x.event = "checkpoint", x.host \in S
    PROVE  NewestIn(G \cup {x}, S, x.id + 1, NameOf(x))
<1>1. x \in MarksOf(G \cup {x}, S, x.id + 1)
  BY MarksGrow
<1>2. ASSUME NEW m \in MarksOf(G \cup {x}, S, x.id + 1) PROVE m.id <= x.id
  <2>1. m \in G \/ m = x
    BY DEF MarksOf
  <2> QED BY <2>1 DEF Later
<1> QED BY <1>1, <1>2 DEF NewestIn

(* The open segment of the boot b, when x is written.                      *)
LEMMA OtherSegment ==
    ASSUME NEW G, NEW x, Later(G, x), NEW b, x.boot # b, NEW leaves, NEW segment,
           Segmented(G, b, x.id, leaves, segment)
    PROVE  Segmented(G \cup {x}, b, x.id + 1, leaves, segment)
<1> DEFINE H == G \cup {x}
<1>0. \A l \in G : l.id < x.id /\ l.id < x.id + 1
  BY DEF Later
<1>1. PICK o \in G : OpensFor(G, b, x.id, o) /\ leaves = SegmentFrom(G, b, x.id, o)
  BY DEF Segmented
<1>2. OpensFor(H, b, x.id + 1, o)
  BY <1>0, <1>1 DEF OpensFor
<1>3. {l \in H : l.boot = b /\ o.id <= l.id /\ l.id < x.id + 1}
         = {l \in G : l.boot = b /\ o.id <= l.id /\ l.id < x.id}
  BY <1>0
<1>4. leaves = SegmentFrom(H, b, x.id + 1, o)
  BY <1>1, <1>3 DEF SegmentFrom
<1>5. MarksBefore(H, b, x.id + 1) = MarksBefore(G, b, x.id)
  BY <1>0 DEF MarksBefore
<1>6. \E s \in H : s.boot = b /\ s.event = "started" /\ s.id < x.id + 1
  BY <1>0 DEF Segmented
<1> QED BY <1>1, <1>2, <1>4, <1>5, <1>6 DEF Segmented

(* A line is one more leaf of its segment.                                 *)
LEMMA LongerSegment ==
    ASSUME NEW G, NEW x, Later(G, x), x.event = "line", NEW leaves, NEW segment,
           Segmented(G, x.boot, x.id, leaves, segment)
    PROVE  Segmented(G \cup {x}, x.boot, x.id + 1, leaves \cup {x.id}, segment)
<1> DEFINE H == G \cup {x}
           b == x.boot
<1>0. x.id \in Nat /\ x.id < x.id + 1 /\ \A l \in G : l.id < x.id /\ l.id < x.id + 1 /\ l.id <= x.id
  BY DEF Later
<1>1. PICK o \in G : OpensFor(G, b, x.id, o) /\ leaves = SegmentFrom(G, b, x.id, o)
  BY DEF Segmented
<1>2. OpensFor(H, b, x.id + 1, o)
  BY <1>0, <1>1 DEF OpensFor
<1>3. {l \in H : l.boot = b /\ o.id <= l.id /\ l.id < x.id + 1}
         = {l \in G : l.boot = b /\ o.id <= l.id /\ l.id < x.id} \cup {x}
  BY <1>0
<1>4. leaves \cup {x.id} = SegmentFrom(H, b, x.id + 1, o)
  BY <1>1, <1>3 DEF SegmentFrom
<1>5. MarksBefore(H, b, x.id + 1) = MarksBefore(G, b, x.id)
  BY <1>0 DEF MarksBefore
<1>6. \E s \in H : s.boot = b /\ s.event = "started" /\ s.id < x.id + 1
  BY <1>0 DEF Segmented
<1> QED BY <1>1, <1>2, <1>4, <1>5, <1>6 DEF Segmented

(* A checkpoint opens the next segment, of which it is the first leaf.     *)
LEMMA NextSegmented ==
    ASSUME NEW G, NEW x, Later(G, x), x.event = "checkpoint", NEW leaves, NEW segment,
           Segmented(G, x.boot, x.id, leaves, segment)
    PROVE  Segmented(G \cup {x}, x.boot, x.id + 1, {x.id}, segment + 1)
<1> DEFINE H == G \cup {x}
           b == x.boot
<1>0. /\ x.id \in Nat /\ x.id < x.id + 1
      /\ \A l \in G : l.id < x.id /\ l.id < x.id + 1 /\ ~(x.id <= l.id)
  BY DEF Later
<1>1. OpensFor(H, b, x.id + 1, x)
  BY <1>0 DEF OpensFor, Later
<1>2. {l \in H : l.boot = b /\ x.id <= l.id /\ l.id < x.id + 1} = {x}
  BY <1>0
<1>3. SegmentFrom(H, b, x.id + 1, x) = {x.id}
  BY <1>2 DEF SegmentFrom
<1>4. MarksBefore(H, b, x.id + 1) = MarksBefore(G, b, x.id) \cup {x}
  BY <1>0 DEF MarksBefore
<1>5. x \notin MarksBefore(G, b, x.id)
  BY <1>0 DEF MarksBefore
<1>6. /\ IsFiniteSet(MarksBefore(G, b, x.id))
      /\ segment = Cardinality(MarksBefore(G, b, x.id))
  BY DEF Segmented
<1>7. /\ IsFiniteSet(MarksBefore(H, b, x.id + 1))
      /\ segment + 1 = Cardinality(MarksBefore(H, b, x.id + 1))
  <2>1. /\ IsFiniteSet(MarksBefore(G, b, x.id) \cup {x})
        /\ Cardinality(MarksBefore(G, b, x.id) \cup {x}) = Cardinality(MarksBefore(G, b, x.id)) + 1
    BY <1>5, <1>6, FS_AddElement
  <2> HIDE DEF H, b
  <2> QED BY <1>4, <1>6, <2>1
<1>8. \E s \in H : s.boot = b /\ s.event = "started" /\ s.id < x.id + 1
  BY <1>0 DEF Segmented
<1> QED BY <1>1, <1>3, <1>7, <1>8 DEF Segmented

(* seal_started opens the first segment.                                   *)
LEMMA FirstSegment ==
    ASSUME NEW G, NEW x, Later(G, x), x.event = "started", \A l \in G : l.boot # x.boot
    PROVE  Segmented(G \cup {x}, x.boot, x.id + 1, {x.id}, 0)
<1> DEFINE H == G \cup {x}
           b == x.boot
<1>0. x.id \in Nat /\ x.id < x.id + 1
  BY DEF Later
<1>1. OpensFor(H, b, x.id + 1, x)
  BY <1>0 DEF OpensFor
<1>2. {l \in H : l.boot = b /\ x.id <= l.id /\ l.id < x.id + 1} = {x}
  BY <1>0
<1>3. SegmentFrom(H, b, x.id + 1, x) = {x.id}
  BY <1>2 DEF SegmentFrom
<1>4. MarksBefore(H, b, x.id + 1) = {}
  BY DEF MarksBefore
<1> QED BY <1>0, <1>1, <1>3, <1>4, FS_EmptySet DEF Segmented

-----------------------------------------------------------------------------
(* The types, and the log as the set of its lines.                         *)
LEMMA DownType == Down \in Procs
BY DEF Down, Procs, Links

(* The types hold initially.                                               *)
LEMMA InitType == Init => TypeOK
<1> SUFFICES ASSUME Init PROVE TypeOK
  OBVIOUS
<1>1. log \in Seq(Lines) /\ \A i \in DOMAIN log : log[i].id = i
  BY DEF Init
<1>2. run \in [Hosts -> Procs]
  BY DownType DEF Init
<1>3. linkFile \in [Hosts -> Links] /\ volumeFile \in Links
  BY DEF Init, Links
<1> QED BY <1>1, <1>2, <1>3 DEF Init, TypeOK

(* The fields of a process.                                                *)
LEMMA ProcFields ==
    ASSUME TypeOK, NEW h \in Hosts
    PROVE  LET p == run[h] IN
           /\ p \in Procs
           /\ p.boot \in Nat /\ p.seq \in Nat /\ p.prev \in Nat /\ p.sealing \in BOOLEAN
           /\ p.leaves \subseteq Nat /\ p.segment \in Nat /\ p.pending \in BOOLEAN
           /\ p.link \in Links /\ p.volumeLink \in Links /\ p.written \in Links
BY DEF TypeOK, Procs

(* A line written by p, and p after it, are a line and a process.          *)
LEMMA LineType ==
    ASSUME TypeOK, NEW h \in Hosts, NEW p \in Procs,
           NEW e \in {"started", "line", "checkpoint"}, NEW root \in SUBSET Nat
    PROVE  /\ LineOf(h, p, e, root) \in Lines
           /\ LineOf(h, p, e, root).id = Len(log) + 1
           /\ \A leaves \in SUBSET Nat : Emitted(p, leaves) \in Procs
<1>1. Len(log) \in Nat /\ Len(log) + 1 \in Nat
  BY DEF TypeOK
<1>2. /\ p.boot \in Nat /\ p.seq + 1 \in Nat /\ p.prev \in Nat /\ p.segment \in Nat
      /\ p.link \in Links /\ p.volumeLink \in Links
  BY DEF Procs
<1>3. LineOf(h, p, e, root) \in Lines /\ LineOf(h, p, e, root).id = Len(log) + 1
  BY <1>1, <1>2 DEF LineOf, Lines
<1>4. ASSUME NEW leaves \in SUBSET Nat PROVE Emitted(p, leaves) \in Procs
  <2>1. (IF p.sealing THEN leaves \cup {Len(log) + 1} ELSE {}) \in SUBSET Nat
    BY <1>1
  <2>2. p.sealing \in BOOLEAN
    BY DEF Procs
  <2> HIDE DEF Links
  <2> QED BY <1>1, <1>2, <2>1, <2>2 DEF Emitted, Procs
<1> QED BY <1>3, <1>4

(* A line that is appended is later than the others.                       *)
LEMMA LogGrows ==
    ASSUME TypeOK, NEW x \in Lines, x.id = Len(log) + 1, log' = Append(log, x)
    PROVE  /\ log' \in Seq(Lines) /\ \A i \in DOMAIN log' : log'[i].id = i
           /\ Len(log') = Len(log) + 1 /\ Len(log) \in Nat
           /\ Written' = Written \cup {x}
           /\ Later(Written, x)
<1>1. log \in Seq(Lines) /\ Len(log) \in Nat /\ \A i \in 1 .. Len(log) : log[i].id = i
  BY DEF TypeOK
<1>2. log' \in Seq(Lines) /\ Len(log') = Len(log) + 1
  BY <1>1
<1>3. /\ DOMAIN log' = 1 .. Len(log) + 1 /\ DOMAIN log = 1 .. Len(log)
      /\ log'[Len(log) + 1] = x
      /\ \A i \in 1 .. Len(log) : log'[i] = log[i]
  BY <1>1, <1>2
<1>4. \A i \in DOMAIN log' : log'[i].id = i
  BY <1>1, <1>3
<1>5. Written' = Written \cup {x}
  <2>1. ASSUME NEW l \in Written' PROVE l \in Written \cup {x}
    <3>1. PICK i \in 1 .. Len(log) + 1 : l = log'[i]
      BY <1>3 DEF Written
    <3>2. CASE i = Len(log) + 1
      BY <1>3, <3>1, <3>2
    <3>3. CASE i \in 1 .. Len(log)
      BY <1>3, <3>1, <3>3 DEF Written
    <3> QED BY <1>1, <3>1, <3>2, <3>3
  <2>2. ASSUME NEW l \in Written PROVE l \in Written'
    <3>1. PICK i \in 1 .. Len(log) : l = log[i]
      BY <1>3 DEF Written
    <3>2. i \in 1 .. Len(log) + 1 /\ l = log'[i]
      BY <1>1, <1>3, <3>1
    <3> QED BY <1>3, <3>2 DEF Written
  <2>3. x \in Written'
    BY <1>1, <1>3 DEF Written
  <2> QED BY <2>1, <2>2, <2>3
<1>6. Later(Written, x)
  BY <1>1, <1>3 DEF Later, Written
<1> QED BY <1>1, <1>2, <1>4, <1>5, <1>6

(* The lines of the log are ordered.                                       *)
LEMMA WrittenOrdered ==
    ASSUME TypeOK
    PROVE  /\ Ordered(Written)
           /\ Len(log) \in Nat /\ \A l \in Written : l.id \in 1 .. Len(log)
<1>1. log \in Seq(Lines) /\ Len(log) \in Nat /\ DOMAIN log = 1 .. Len(log)
  BY DEF TypeOK
<1>2. \A i \in 1 .. Len(log) : log[i] \in Lines /\ log[i].id = i
  BY <1>1 DEF TypeOK
<1> QED BY <1>1, <1>2 DEF Ordered, Written

(* Every step keeps the types.                                             *)
LEMMA TypeStep == TypeOK /\ [Next]_vars => TypeOK'
<1> SUFFICES ASSUME TypeOK, [Next]_vars PROVE TypeOK'
  OBVIOUS
<1>0. Len(log) \in Nat
  BY DEF TypeOK
<1>1. ASSUME NEW h \in Hosts, NEW p \in Procs, NEW q \in Procs,
             NEW e \in {"started", "line", "checkpoint"}, NEW root \in SUBSET Nat,
             log' = Append(log, LineOf(h, p, e, root)), Becomes(h, q)
      PROVE  /\ log' \in Seq(Lines) /\ \A i \in DOMAIN log' : log'[i].id = i
             /\ run' \in [Hosts -> Procs]
  BY <1>1, LineType, LogGrows DEF Becomes, TypeOK
<1>2. ASSUME NEW h \in Hosts, NEW q \in Procs, Becomes(h, q)
      PROVE  run' \in [Hosts -> Procs]
  BY <1>2 DEF Becomes, TypeOK
<1>3. CASE UNCHANGED vars
  BY <1>3 DEF vars, files, TypeOK
<1>4. CASE Quiet
  BY <1>4 DEF Quiet, vars, files, TypeOK
<1>5. CASE BackUp
  BY <1>5 DEF BackUp, files, TypeOK, Files
<1>6. CASE Restore
  BY <1>6 DEF Restore, TypeOK, Files
<1>7. ASSUME NEW h \in Hosts, ReadLinks(h) PROVE TypeOK'
  <2> DEFINE q == [Down EXCEPT !.at = "read", !.boot = starts + 1,
                               !.link = linkFile[h], !.volumeLink = volumeFile]
  <2>1. q \in Procs
    <3>1. linkFile[h] \in Links /\ volumeFile \in Links /\ starts + 1 \in Nat
      BY DEF TypeOK
    <3> QED BY <3>1, DownType DEF Procs
  <2>2. run' \in [Hosts -> Procs]
    BY <1>2, <1>7, <2>1 DEF ReadLinks
  <2>3. alone' \in BOOLEAN /\ behind' \subseteq Nat /\ starts' \in Nat
    BY <1>7 DEF ReadLinks, TypeOK
  <2> QED BY <1>7, <2>2, <2>3 DEF ReadLinks, TypeOK, files
<1>8. ASSUME NEW h \in Hosts, Start(h) PROVE TypeOK'
  <2> DEFINE p == [run[h] EXCEPT !.at = "up", !.sealing = TRUE]
  <2>1. p \in Procs
    BY ProcFields DEF Procs
  <2>2. Emitted(p, {}) \in Procs
    BY <2>1, LineType
  <2>3. log' = Append(log, LineOf(h, p, "started", {})) /\ Becomes(h, Emitted(p, {}))
    BY <1>8 DEF Start, Emits
  <2>4. /\ log' \in Seq(Lines) /\ \A i \in DOMAIN log' : log'[i].id = i
        /\ run' \in [Hosts -> Procs]
    BY <1>1, <2>1, <2>2, <2>3
  <2> QED BY <1>8, <2>4 DEF Start, TypeOK, files
<1>9. ASSUME NEW h \in Hosts, StartUnsealed(h) PROVE TypeOK'
  <2> DEFINE p == [Down EXCEPT !.at = "up", !.boot = starts + 1]
  <2>1. p \in Procs
    <3>1. starts + 1 \in Nat
      BY DEF TypeOK
    <3> QED BY <3>1, DownType DEF Procs
  <2>2. Emitted(p, {}) \in Procs
    BY <2>1, LineType
  <2>3. log' = Append(log, LineOf(h, p, "line", {})) /\ Becomes(h, Emitted(p, {}))
    BY <1>9 DEF StartUnsealed, Emits
  <2>4. /\ log' \in Seq(Lines) /\ \A i \in DOMAIN log' : log'[i].id = i
        /\ run' \in [Hosts -> Procs]
    BY <1>1, <2>1, <2>2, <2>3
  <2>5. alone' \in BOOLEAN /\ starts' \in Nat
    BY <1>9 DEF StartUnsealed, TypeOK
  <2>6. orderly' \in BOOLEAN
    BY <1>9, Zenon DEF StartUnsealed
  <2> QED BY <1>9, <2>4, <2>5, <2>6 DEF StartUnsealed, TypeOK, files
<1>10. ASSUME NEW h \in Hosts, Write(h) PROVE TypeOK'
  <2>1. run[h] \in Procs /\ run[h].leaves \in SUBSET Nat
    BY ProcFields
  <2>2. Emitted(run[h], run[h].leaves) \in Procs
    BY <2>1, LineType
  <2>3. /\ log' = Append(log, LineOf(h, run[h], "line", {}))
        /\ Becomes(h, Emitted(run[h], run[h].leaves))
    BY <1>10 DEF Write, Emits
  <2>4. /\ log' \in Seq(Lines) /\ \A i \in DOMAIN log' : log'[i].id = i
        /\ run' \in [Hosts -> Procs]
    BY <1>1, <2>1, <2>2, <2>3
  <2> QED BY <1>10, <2>4 DEF Write, TypeOK, files
<1>11. ASSUME NEW h \in Hosts, Checkpoint(h) PROVE TypeOK'
  <2> DEFINE p == run[h]
             r == Emitted(p, {})
             q == [r EXCEPT !.at = "record", !.segment = @ + 1, !.pending = FALSE,
                            !.written = Named(p.boot, p.segment, p.leaves)]
  <2>1. p \in Procs /\ p.leaves \in SUBSET Nat /\ p.boot \in Nat /\ p.segment \in Nat
    BY ProcFields
  <2>2. r \in Procs
    BY <2>1, LineType
  <2>3. Named(p.boot, p.segment, p.leaves) \in Links
    BY <2>1 DEF Named, Links, Names
  <2>4. q \in Procs
    <3>1. r.segment + 1 \in Nat
      BY <2>2 DEF Procs
    <3> HIDE DEF r
    <3> QED BY <2>2, <2>3, <3>1 DEF Procs
  <2>5. log' = Append(log, LineOf(h, p, "checkpoint", p.leaves)) /\ Becomes(h, q)
    BY <1>11 DEF Checkpoint, NextSegment
  <2>6. /\ log' \in Seq(Lines) /\ \A i \in DOMAIN log' : log'[i].id = i
        /\ run' \in [Hosts -> Procs]
    BY <1>1, <2>1, <2>4, <2>5
  <2> QED BY <1>11, <2>6 DEF Checkpoint, TypeOK, files
<1>12. ASSUME NEW h \in Hosts, RecordHost(h) PROVE TypeOK'
  <2>1. [run[h] EXCEPT !.at = "recordVolume"] \in Procs /\ run[h].written \in Links
    BY ProcFields DEF Procs
  <2>2. run' \in [Hosts -> Procs]
    BY <1>2, <1>12, <2>1 DEF RecordHost
  <2>3. linkFile' \in [Hosts -> Links] /\ faults' \in Nat
    <3>1. \/ linkFile' = [linkFile EXCEPT ![h] = run[h].written] /\ UNCHANGED <<faults, orderly>>
          \/ UNCHANGED linkFile /\ faults' = faults + 1 /\ orderly' = FALSE
      BY <1>12 DEF RecordHost, Records
    <3> QED BY <2>1, <3>1 DEF TypeOK
  <2>4. orderly' \in BOOLEAN
    <3>1. orderly' = orderly \/ orderly' = FALSE
      BY <1>12 DEF RecordHost, Records
    <3>2. orderly \in BOOLEAN
      BY DEF TypeOK
    <3> QED BY <3>1, <3>2, Zenon
  <2> QED BY <1>12, <2>2, <2>3, <2>4 DEF RecordHost, TypeOK
<1>13. ASSUME NEW h \in Hosts, RecordVolume(h) PROVE TypeOK'
  <2>1. [run[h] EXCEPT !.at = "up", !.written = None] \in Procs /\ run[h].written \in Links
    BY ProcFields DEF Procs, Links
  <2>2. run' \in [Hosts -> Procs]
    BY <1>2, <1>13, <2>1 DEF RecordVolume
  <2>3. volumeFile' \in Links /\ faults' \in Nat
    <3>1. \/ volumeFile' = run[h].written /\ UNCHANGED <<faults, orderly>>
          \/ UNCHANGED volumeFile /\ faults' = faults + 1 /\ orderly' = FALSE
      BY <1>13 DEF RecordVolume, Records
    <3> QED BY <2>1, <3>1 DEF TypeOK
  <2>4. orderly' \in BOOLEAN
    <3>1. orderly' = orderly \/ orderly' = FALSE
      BY <1>13 DEF RecordVolume, Records
    <3>2. orderly \in BOOLEAN
      BY DEF TypeOK
    <3> QED BY <3>1, <3>2, Zenon
  <2> QED BY <1>13, <2>2, <2>3, <2>4 DEF RecordVolume, TypeOK
<1>14. ASSUME NEW h \in Hosts, Stop(h) PROVE TypeOK'
  BY <1>2, <1>14, DownType DEF Stop, TypeOK, files
<1>15. ASSUME NEW h \in Hosts, Kill(h) PROVE TypeOK'
  BY <1>2, <1>15, DownType DEF Kill, TypeOK, files
<1> QED BY <1>3, <1>4, <1>5, <1>6, <1>7, <1>8, <1>9, <1>10, <1>11, <1>12, <1>13,
           <1>14, <1>15 DEF Next

-----------------------------------------------------------------------------
Base == LogOk /\ ProcOk /\ FilesOk /\ BackupOk

ProcIs(h) ==
    /\ run[h].boot \in 1 .. starts
    /\ \A g \in Hosts : g # h => run[g].boot # run[h].boot
    /\ \A m \in Written : m.boot = run[h].boot => m.host = h
    /\ Reading(h) \/ Running(h)

(* The boot of a known link is in the log.                                 *)
LEMMA KnownBoot ==
    ASSUME NEW G, NEW S, NEW i, NEW y, Known(G, S, i, y), y # None
    PROVE  \E k \in G : k.boot = y.boot /\ k.event = "checkpoint" /\ k.host \in S
BY DEF Known, MarksOf, NameOf, Named

(* What a line x of the host h leaves as it was.                           *)
LEMMA LineWritten ==
    ASSUME TypeOK, Base, NEW h \in Hosts, NEW x \in Lines,
           x.id = Len(log) + 1, x.host = h, log' = Append(log, x),
           run' \in [Hosts -> Procs], \A g \in Hosts : g # h => run'[g] = run[g],
           run'[h].boot = x.boot,
           UNCHANGED files, backup' = backup,
           starts' \in Nat, starts <= starts', x.boot \in 1 .. starts',
           LineOk(Written \cup {x}, x),
           \A l \in Written : l.boot = x.boot => l.host = h,
           \A g \in Hosts : g # h => run[g].boot # x.boot,
           \/ run[h] # Down /\ run[h].boot = x.boot
           \/ \A l \in Written : l.boot # x.boot,
           \/ x.event # "checkpoint"
           \/ linkFile[h] = None
           \/ x.boot = linkFile[h].boot
           \/ Taken(Written, Len(log) + 1, linkFile[h])
    PROVE  /\ LogOk' /\ FilesOk' /\ BackupOk'
           /\ \A g \in Hosts : g # h /\ run[g] # Down => ProcIs(g)'
           /\ Written' = Written \cup {x} /\ Next1' = x.id + 1 /\ Later(Written, x)
<1> DEFINE G == Written
           H == Written \cup {x}
           i == x.id
<1>1. /\ Written' = H /\ Next1' = i + 1 /\ Next1 = i /\ Later(G, x)
      /\ Len(log') = Len(log) + 1 /\ Len(log) \in Nat
  BY LogGrows DEF Next1
<1>2. LogOk'
  <2>1. ASSUME NEW l \in G PROVE LineOk(H, l) /\ l.boot \in 1 .. starts'
    <3>1. LineOk(G, l) /\ l.boot \in 1 .. starts
      BY DEF Base, LogOk
    <3>2. starts \in Nat
      BY DEF TypeOK
    <3>3. x.boot = l.boot => x.host = l.host
      OBVIOUS
    <3> HIDE DEF H, G
    <3> QED BY <1>1, <3>1, <3>2, <3>3, LineIsKept DEF H, G
  <2>2. \A l \in H : LineOk(H, l) /\ l.boot \in 1 .. starts'
    BY <2>1
  <2> HIDE DEF H
  <2> QED BY <1>1, <2>2 DEF LogOk
<1>3. FilesOk'
  <2>1. ASSUME NEW g \in Hosts
        PROVE  Known(H, {g}, i + 1, linkFile[g]) /\ UnlessTaken(H, g, i + 1, linkFile[g])
    <3>1. Known(G, {g}, i, linkFile[g]) /\ UnlessTaken(G, g, i, linkFile[g])
      BY <1>1 DEF Base, FilesOk
    <3>2. Known(H, {g}, i + 1, linkFile[g])
      BY <1>1, <3>1, KnownIsKept
    <3>3. UnlessTaken(H, g, i + 1, linkFile[g])
      <4>1. CASE g = h
        BY <1>1, <3>1, <4>1, UnlessTakenIsKept DEF Next1
      <4>2. CASE g # h
        BY <1>1, <3>1, <4>2, UnlessTakenIsKept
      <4> QED BY <4>1, <4>2
    <3> QED BY <3>2, <3>3
  <2>2. Known(H, Hosts, i + 1, volumeFile)
    <3>1. Known(G, Hosts, i, volumeFile)
      BY <1>1 DEF Base, FilesOk
    <3> QED BY <1>1, <3>1, KnownIsKept
  <2>3. linkFile' = linkFile /\ volumeFile' = volumeFile
    BY DEF files
  <2> HIDE DEF H, i
  <2> QED BY <1>1, <2>1, <2>2, <2>3 DEF FilesOk
<1>4. BackupOk'
  <2> SUFFICES ASSUME backup # <<>>
               PROVE  /\ Known(H, Hosts, i + 1, backup[2])
                      /\ \A g \in Hosts :
                            LET y == backup[1][g] IN
                            /\ Known(H, {g}, i + 1, y)
                            /\ \/ y = None
                               \/ Taken(H, i + 1, y)
                               \/ linkFile[g] = y /\ (run'[g] # Down => run'[g].boot # y.boot)
    <3> HIDE DEF H, i
    <3> QED BY <1>1 DEF BackupOk, files
  <2>1. Known(H, Hosts, i + 1, backup[2])
    <3>1. Known(G, Hosts, i, backup[2])
      BY <1>1 DEF Base, BackupOk
    <3> QED BY <1>1, <3>1, KnownIsKept
  <2>2. ASSUME NEW g \in Hosts, NEW y, y = backup[1][g]
        PROVE  /\ Known(H, {g}, i + 1, y)
               /\ \/ y = None
                  \/ Taken(H, i + 1, y)
                  \/ linkFile[g] = y /\ (run'[g] # Down => run'[g].boot # y.boot)
    <3>1. /\ Known(G, {g}, i, y)
          /\ \/ y = None
             \/ Taken(G, i, y)
             \/ linkFile[g] = y /\ (run[g] # Down => run[g].boot # y.boot)
      BY <1>1, <2>2 DEF Base, BackupOk
    <3>2. Known(H, {g}, i + 1, y)
      BY <1>1, <3>1, KnownIsKept
    <3>3. CASE y = None
      BY <3>2, <3>3
    <3>4. CASE Taken(G, i, y)
      BY <1>1, <3>2, <3>4, TakenIsKept
    <3>5. CASE y # None /\ linkFile[g] = y /\ (run[g] # Down => run[g].boot # y.boot)
      <4>1. CASE g # h
        BY <3>2, <3>5, <4>1
      <4>2. CASE g = h
        <5>1. PICK k \in G : k.boot = y.boot
          BY <3>1, <3>5, KnownBoot
        <5>2. x.boot # y.boot
          BY <3>5, <4>2, <5>1
        <5> QED BY <3>2, <3>5, <4>2, <5>2
      <4> QED BY <4>1, <4>2
    <3> QED BY <3>1, <3>3, <3>4, <3>5
  <2> QED BY <2>1, <2>2
<1>5. ASSUME NEW g \in Hosts, g # h, run[g] # Down PROVE ProcIs(g)'
  <2> DEFINE p == run[g]
  <2>1. /\ p.boot \in 1 .. starts
        /\ \A e \in Hosts : e # g => run[e].boot # p.boot
        /\ \A m \in G : m.boot = p.boot => m.host = g
        /\ Reading(g) \/ Running(g)
    BY <1>5 DEF Base, ProcOk
  <2>2. run'[g] = p /\ p.boot # x.boot /\ linkFile' = linkFile
    BY <1>5 DEF files
  <2>3. p.boot \in 1 .. starts' /\ \A e \in Hosts : e # g => run'[e].boot # p.boot
    <3>1. p.boot \in 1 .. starts'
      BY <2>1 DEF TypeOK
    <3>2. ASSUME NEW e \in Hosts, e # g PROVE run'[e].boot # p.boot
      <4>1. CASE e = h
        BY <2>2, <4>1
      <4>2. CASE e # h
        BY <2>1, <3>2, <4>2
      <4> QED BY <4>1, <4>2
    <3> QED BY <3>1, <3>2
  <2>4. \A m \in H : m.boot = p.boot => m.host = g
    BY <2>1, <2>2
  <2>5. CASE Reading(g)
    <3>1. /\ p = [Down EXCEPT !.at = "read", !.boot = p.boot, !.link = linkFile[g],
                              !.volumeLink = p.volumeLink]
          /\ \A l \in G : l.boot # p.boot
          /\ Known(G, Hosts, i, p.volumeLink)
      BY <1>1, <2>5 DEF Reading
    <3>2. Known(H, Hosts, i + 1, p.volumeLink) /\ \A l \in H : l.boot # p.boot
      BY <1>1, <2>2, <3>1, KnownIsKept
    <3> HIDE DEF H, p, i
    <3>3. Reading(g)'
      BY <1>1, <2>2, <3>1, <3>2 DEF Reading
    <3> QED BY <1>1, <2>2, <2>3, <2>4, <3>3 DEF ProcIs
  <2>6. CASE Running(g)
    <3>1. PICK l \in G : NewestOf(g, l)
      BY <2>6 DEF Running
    <3>2. l \in H /\ NewestOf(g, l)'
      <4>1. \A m \in H : m.host = g => m.id <= l.id
        BY <1>5, <3>1 DEF NewestOf
      <4> HIDE DEF H
      <4> QED BY <1>1, <2>2, <3>1, <4>1 DEF NewestOf, H
    <3>3. p.sealing =>
             /\ Segmented(H, p.boot, i + 1, p.leaves, p.segment)
             /\ \E s \in H : s.event = "started" /\ s.boot = p.boot /\ s.link = p.link
             /\ linkFile[g] # p.link => linkFile[g] # None /\ linkFile[g].boot = p.boot
      <4> SUFFICES ASSUME p.sealing
                   PROVE  /\ Segmented(H, p.boot, i + 1, p.leaves, p.segment)
                          /\ \E s \in H : s.event = "started" /\ s.boot = p.boot /\ s.link = p.link
                          /\ linkFile[g] # p.link
                                => linkFile[g] # None /\ linkFile[g].boot = p.boot
        OBVIOUS
      <4>1. Segmented(G, p.boot, i, p.leaves, p.segment)
        BY <1>1, <2>6 DEF Running
      <4>2. Segmented(H, p.boot, i + 1, p.leaves, p.segment)
        BY <1>1, <2>2, <4>1, OtherSegment
      <4> QED BY <2>6, <4>2 DEF Running
    <3>4. ~p.sealing => /\ p.at = "up" /\ ~p.pending
                        /\ \A m \in H : m.boot = p.boot => m.event = "line"
      BY <2>2, <2>6 DEF Running
    <3>5. p.at \in {"up", "record", "recordVolume"}
      BY <2>6 DEF Running
    <3> HIDE DEF H, p, i
    <3>6. Running(g)'
      BY <1>1, <2>2, <3>2, <3>3, <3>4, <3>5 DEF Running
    <3> QED BY <1>1, <2>2, <2>3, <2>4, <3>6 DEF ProcIs
  <2> QED BY <2>1, <2>5, <2>6
<1> QED BY <1>1, <1>2, <1>3, <1>4, <1>5

-----------------------------------------------------------------------------
(* A step of one process leaves the others as they were.                   *)
LEMMA ProcsAre ==
    ASSUME NEW h \in Hosts, \A g \in Hosts : g # h => run'[g] = run[g],
           \A g \in Hosts : g # h /\ run[g] # Down => ProcIs(g)',
           run'[h] # Down => ProcIs(h)'
    PROVE  ProcOk'
<1>1. ASSUME NEW g \in Hosts, run'[g] # Down PROVE ProcIs(g)'
  <2>1. CASE g = h
    BY <1>1, <2>1
  <2>2. CASE g # h
    BY <1>1, <2>2
  <2> QED BY <2>1, <2>2
<1> QED BY <1>1 DEF ProcOk, ProcIs, Down

(* A process that is down has no boot.                                     *)
LEMMA DownBoot == Down.boot = 0 /\ Down.at = "down"
BY DEF Down

(* A process reads or runs.                                                *)
LEMMA AtIs ==
    ASSUME Base, NEW h \in Hosts, run[h].at # "down"
    PROVE  /\ run[h] # Down /\ ProcIs(h)
           /\ run[h].at = "read" => Reading(h)
           /\ run[h].at # "read" => Running(h)
<1>1. run[h] # Down
  BY DownBoot
<1>2. ProcIs(h)
  BY <1>1 DEF Base, ProcOk, ProcIs
<1>3. ASSUME run[h].at = "read" PROVE Reading(h)
  BY <1>2, <1>3 DEF ProcIs, Running
<1>4. ASSUME run[h].at # "read" PROVE Running(h)
  BY <1>2, <1>4 DEF ProcIs, Reading, Down
<1> QED BY <1>1, <1>2, <1>3, <1>4

(* Boots are numbered by the starts.                                       *)
LEMMA BootsAre ==
    ASSUME TypeOK, Base
    PROVE  /\ starts \in Nat
           /\ \A h \in Hosts : run[h].boot \in 0 .. starts
           /\ \A l \in Written : l.boot \in 1 .. starts
<1>1. starts \in Nat
  BY DEF TypeOK
<1>2. \A h \in Hosts : run[h].boot \in 0 .. starts
  BY <1>1, DownBoot DEF Base, ProcOk
<1> QED BY <1>1, <1>2 DEF Base, LogOk

(* What a step of the host h that writes no line leaves as it was.         *)
LEMMA NothingWritten ==
    ASSUME TypeOK, Base, NEW h \in Hosts, log' = log,
           \A g \in Hosts : g # h => run'[g] = run[g] /\ linkFile'[g] = linkFile[g],
           \A g \in Hosts : g # h /\ run[g] # Down => run'[h].boot # run[g].boot,
           starts' \in Nat, starts <= starts'
    PROVE  /\ LogOk' /\ Written' = Written /\ Next1' = Next1
           /\ \A g \in Hosts : g # h /\ run[g] # Down => ProcIs(g)'
<1>1. Written' = Written /\ Next1' = Next1
  BY DEF Written, Next1
<1>2. LogOk'
  <2>1. \A l \in Written : LineOk(Written, l) /\ l.boot \in 1 .. starts'
    BY BootsAre DEF Base, LogOk
  <2> QED BY <1>1, <2>1 DEF LogOk
<1>3. ASSUME NEW g \in Hosts, g # h, run[g] # Down PROVE ProcIs(g)'
  <2>1. ProcIs(g)
    BY <1>3 DEF Base, ProcOk, ProcIs
  <2>2. run'[g] = run[g] /\ linkFile'[g] = linkFile[g]
    BY <1>3
  <2>3. run[g].boot \in 1 .. starts'
    BY <2>1, BootsAre DEF ProcIs
  <2>4. ASSUME NEW e \in Hosts, e # g PROVE run'[e].boot # run[g].boot
    BY <1>3, <2>1, <2>4 DEF ProcIs
  <2>5. Reading(g) => Reading(g)'
    BY <1>1, <2>2 DEF Reading
  <2>6. Running(g) => Running(g)'
    BY <1>1, <2>2 DEF Running, NewestOf
  <2> QED BY <1>1, <2>1, <2>2, <2>3, <2>4, <2>5, <2>6 DEF ProcIs
<1> QED BY <1>1, <1>2, <1>3

(* The base of the invariant holds initially.                              *)
LEMMA InitBase == Init => Base
<1> SUFFICES ASSUME Init PROVE Base
  OBVIOUS
<1>1. Written = {}
  BY DEF Init, Written
<1>2. LogOk /\ ProcOk /\ BackupOk
  BY <1>1 DEF Init, LogOk, ProcOk, BackupOk
<1>3. FilesOk
  BY DEF Init, FilesOk, Known, UnlessTaken
<1> QED BY <1>2, <1>3 DEF Base

(* A process that reads the files keeps the base.                          *)
LEMMA ReadLinksBase ==
    ASSUME TypeOK, TypeOK', Base, NEW h \in Hosts, ReadLinks(h)
    PROVE  Base'
<1> DEFINE q == [Down EXCEPT !.at = "read", !.boot = starts + 1,
                             !.link = linkFile[h], !.volumeLink = volumeFile]
<1>1. /\ run' = [run EXCEPT ![h] = q] /\ log' = log /\ linkFile' = linkFile
      /\ volumeFile' = volumeFile /\ backup' = backup /\ starts' = starts + 1
  BY DEF ReadLinks, Becomes, files
<1>2. q.boot = starts + 1 /\ run'[h] = q /\ \A g \in Hosts : g # h => run'[g] = run[g]
  BY <1>1 DEF Down, TypeOK
<1>3. starts \in Nat /\ \A g \in Hosts : run[g].boot # starts + 1
  BY BootsAre
<1>4. /\ LogOk' /\ Written' = Written /\ Next1' = Next1
      /\ \A g \in Hosts : g # h /\ run[g] # Down => ProcIs(g)'
  <2>1. starts' \in Nat /\ starts <= starts'
    BY <1>1, <1>3
  <2>2. \A g \in Hosts : g # h /\ run[g] # Down => run'[h].boot # run[g].boot
    BY <1>2, <1>3
  <2> HIDE DEF q
  <2> QED BY <1>1, <1>2, <2>1, <2>2, NothingWritten
<1>5. \A l \in Written : l.boot # starts + 1
  BY BootsAre
<1>6. Reading(h)'
  <2>1. q = [Down EXCEPT !.at = "read", !.boot = q.boot, !.link = linkFile[h],
                         !.volumeLink = q.volumeLink]
    BY DEF Down
  <2>2. q.volumeLink = volumeFile
    BY DEF Down
  <2>3. Known(Written, Hosts, Next1, volumeFile)
    BY DEF Base, FilesOk
  <2> HIDE DEF q
  <2> QED BY <1>1, <1>2, <1>4, <1>5, <2>1, <2>2, <2>3 DEF Reading
<1>7. ProcIs(h)'
  <2>1. starts + 1 \in 1 .. starts'
    BY <1>1, <1>3
  <2> HIDE DEF q
  <2> QED BY <1>2, <1>3, <1>4, <1>5, <1>6, <2>1 DEF ProcIs
<1>8. ProcOk'
  BY <1>2, <1>4, <1>7, ProcsAre
<1>9. FilesOk'
  BY <1>1, <1>4 DEF Base, FilesOk
<1>10. BackupOk'
  <2> SUFFICES ASSUME backup # <<>>, NEW g \in Hosts, NEW x, x = backup[1][g], x # None,
                      ~Taken(Written, Next1, x), linkFile[g] = x,
                      run[g] # Down => run[g].boot # x.boot
               PROVE  run'[g] # Down => run'[g].boot # x.boot
    BY <1>1, <1>4 DEF Base, BackupOk
  <2>0. Known(Written, {g}, Next1, x)
    BY DEF Base, BackupOk
  <2>1. PICK k \in Written : k.boot = x.boot
    BY <2>0, KnownBoot
  <2>2. x.boot # starts + 1
    BY <1>5, <2>1
  <2> HIDE DEF q
  <2> QED BY <1>2, <2>2
<1> QED BY <1>4, <1>8, <1>9, <1>10 DEF Base

(* A process that stops or is killed keeps it.                             *)
LEMMA StopBase ==
    ASSUME TypeOK, TypeOK', Base, NEW h \in Hosts, Stop(h) \/ Kill(h)
    PROVE  Base'
<1>1. /\ run' = [run EXCEPT ![h] = Down] /\ log' = log /\ linkFile' = linkFile
      /\ volumeFile' = volumeFile /\ backup' = backup /\ starts' = starts
  BY DEF Stop, Kill, Becomes, files
<1>2. run'[h] = Down /\ \A g \in Hosts : g # h => run'[g] = run[g]
  BY <1>1 DEF TypeOK
<1>3. \A g \in Hosts : run[g] # Down => run[g].boot # 0
  BY BootsAre DEF Base, ProcOk
<1>4. /\ LogOk' /\ Written' = Written /\ Next1' = Next1
      /\ \A g \in Hosts : g # h /\ run[g] # Down => ProcIs(g)'
  BY <1>1, <1>2, <1>3, DownBoot, BootsAre, NothingWritten
<1>5. ProcOk'
  BY <1>2, <1>4, ProcsAre
<1>6. FilesOk'
  BY <1>1, <1>4 DEF Base, FilesOk
<1>7. BackupOk'
  <2>1. \A g \in Hosts : run'[g] # Down => run[g] = run'[g]
    BY <1>2
  <2> QED BY <1>1, <1>4, <2>1 DEF Base, BackupOk
<1> QED BY <1>4, <1>5, <1>6, <1>7 DEF Base

(* A copy of the files is as good as the files.                            *)
LEMMA BackUpBase ==
    ASSUME TypeOK, Base, BackUp PROVE Base'
<1>1. /\ log' = log /\ linkFile' = linkFile /\ volumeFile' = volumeFile /\ run' = run
      /\ starts' = starts /\ backup' = <<linkFile, volumeFile>>
  BY DEF BackUp, files
<1>2. Written' = Written /\ Next1' = Next1
  BY <1>1 DEF Written, Next1
<1>3. LogOk' /\ FilesOk'
  BY <1>1, <1>2 DEF Base, LogOk, FilesOk
<1>4. \A h \in Hosts : run'[h] = Down
  BY <1>1 DEF BackUp, AllDown
<1>5. ProcOk'
  BY <1>4 DEF ProcOk, Down
<1>6. backup'[1] = linkFile /\ backup'[2] = volumeFile
  BY <1>1
<1>7. BackupOk'
  BY <1>1, <1>2, <1>4, <1>6 DEF BackupOk, Base, FilesOk
<1> QED BY <1>3, <1>5, <1>7 DEF Base

(* The files put back name checkpoints that are taken, or what they named  *)
(* before.                                                                 *)
LEMMA RestoreBase ==
    ASSUME TypeOK, Base, Restore PROVE Base'
<1>1. /\ log' = log /\ linkFile' = backup[1] /\ volumeFile' = backup[2] /\ run' = run
      /\ starts' = starts /\ backup' = <<>> /\ backup # <<>>
  BY DEF Restore
<1>2. Written' = Written /\ Next1' = Next1
  BY <1>1 DEF Written, Next1
<1>3. LogOk'
  BY <1>1, <1>2 DEF Base, LogOk
<1>4. \A h \in Hosts : run'[h] = Down
  BY <1>1 DEF Restore, AllDown
<1>5. ProcOk' /\ BackupOk'
  BY <1>1, <1>4 DEF ProcOk, BackupOk
<1>6. FilesOk'
  <2>1. ASSUME NEW h \in Hosts PROVE UnlessTaken(Written, h, Next1, backup[1][h])
    BY <1>1 DEF Base, BackupOk, FilesOk, UnlessTaken
  <2> QED BY <1>1, <1>2, <2>1 DEF Base, BackupOk, FilesOk
<1> QED BY <1>3, <1>5, <1>6 DEF Base

-----------------------------------------------------------------------------
(* A line that opens its start, and one that continues it.                 *)
LEMMA OpeningLine ==
    ASSUME NEW G, NEW x, Later(G, x), x.prev = 0, x.seq = 1, \A l \in G : l.boot # x.boot
    PROVE  /\ Chained(G \cup {x}, x) /\ Opened(G \cup {x}, x) /\ HostBlock(G \cup {x}, x)
           /\ \A m \in G \cup {x} : m.boot = x.boot => m.host = x.host
<1>1. Opened(G \cup {x}, x) /\ Chained(G \cup {x}, x)
  BY DEF Opened, Chained, Later
<1>2. ~(x.id < x.id)
  BY DEF Later
<1>3. HostBlock(G \cup {x}, x)
  <2> SUFFICES ASSUME NEW k \in G \cup {x}, NEW m \in G \cup {x}, k.id < m.id, m.id < x.id,
                      k.boot = x.boot
               PROVE  FALSE
    BY DEF HostBlock
  <2>1. m \in G /\ k = x
    BY <1>2
  <2> QED BY <2>1 DEF Later
<1> QED BY <1>1, <1>3

(* A line after the newest of its host continues its boot.                 *)
LEMMA ContinuedLine ==
    ASSUME NEW G, Ordered(G), NEW x, Later(G, x), NEW l \in G, LineOk(G, l),
           Follows(x, l), l.boot = x.boot, l.host = x.host,
           \A m \in G : m.host = x.host => m.id <= l.id,
           \A m \in G : m.boot = x.boot => m.host = x.host
    PROVE  /\ Chained(G \cup {x}, x) /\ HostBlock(G \cup {x}, x)
           /\ \A m \in G \cup {x} : m.boot = x.boot => m.host = x.host
<1>0. ~(x.id < x.id) /\ l.id < x.id /\ \A m \in G : m.id \in Nat
  BY DEF Later
<1>1. Chained(G \cup {x}, x)
  <2>1. \A m \in G \cup {x} : m.boot = x.boot /\ m.id < x.id => m.id <= l.id
    BY <1>0
  <2> QED BY <1>0, <2>1 DEF Chained
<1>2. HostBlock(G \cup {x}, x)
  <2> SUFFICES ASSUME NEW k \in G \cup {x}, NEW m \in G \cup {x}, k.id < m.id, m.id < x.id,
                      k.boot = x.boot, m.host = x.host
               PROVE  m.boot = x.boot
    BY DEF HostBlock
  <2>1. m \in G /\ k \in G
    BY <1>0 DEF Later
  <2>2. CASE m.id = l.id
    BY <2>1, <2>2 DEF Ordered
  <2>3. CASE m.id # l.id
    <3>1. m.id < l.id
      BY <1>0, <2>1, <2>3
    <3> QED BY <2>1, <3>1 DEF LineOk, HostBlock
  <2> QED BY <2>2, <2>3
<1> QED BY <1>1, <1>2

(* seal_started keeps the base: it takes the link it was read.             *)
LEMMA StartBase ==
    ASSUME TypeOK, TypeOK', Base, NEW h \in Hosts, Start(h)
    PROVE  Base'
<1> DEFINE p == [run[h] EXCEPT !.at = "up", !.sealing = TRUE]
           q == Emitted(p, {})
           G == Written
<1>0. PICK x : x = LineOf(h, p, "started", {})
  OBVIOUS
<1>1. /\ log' = Append(log, x) /\ run' = [run EXCEPT ![h] = q] /\ UNCHANGED files
      /\ backup' = backup /\ starts' = starts /\ run[h].at = "read"
  BY <1>0 DEF Start, Emits, Becomes
<1>2. /\ run[h] # Down /\ ProcIs(h) /\ Reading(h)
  BY <1>1, AtIs
<1>3. p \in Procs
  BY ProcFields DEF Procs
<1>4. x \in Lines /\ x.id = Len(log) + 1 /\ q \in Procs
  BY <1>0, <1>3, LineType
<1>5. /\ run[h].seq = 0 /\ run[h].prev = 0 /\ run[h].segment = 0
      /\ run[h].link = linkFile[h] /\ Known(G, Hosts, Next1, run[h].volumeLink)
      /\ \A l \in G : l.boot # run[h].boot
  BY <1>2 DEF Reading, Down
<1>6. /\ x.boot = run[h].boot /\ x.host = h /\ x.event = "started" /\ x.seq = 1 /\ x.prev = 0
      /\ x.link = linkFile[h] /\ x.volumeLink = run[h].volumeLink
  BY <1>0, <1>5 DEF LineOf
<1>7. /\ q.at = "up" /\ q.boot = run[h].boot /\ q.seq = 1 /\ q.prev = x.id /\ q.pending = TRUE
      /\ q.sealing = TRUE /\ q.leaves = {x.id} /\ q.segment = 0 /\ q.link = linkFile[h]
  <2>1. run[h] \in Procs
    BY ProcFields
  <2> QED BY <1>0, <1>4, <1>5, <2>1 DEF Emitted, Procs
<1>8. Later(G, x) /\ Written' = G \cup {x} /\ Next1 = x.id /\ x.id \in Nat
  BY <1>1, <1>4, LogGrows DEF Next1
<1> HIDE DEF q, p
<1>9. run'[h] = q /\ \A g \in Hosts : g # h => run'[g] = run[g]
  BY <1>1 DEF TypeOK
<1>10. LineOk(G \cup {x}, x)
  <2>1. /\ Chained(G \cup {x}, x) /\ Opened(G \cup {x}, x) /\ HostBlock(G \cup {x}, x)
        /\ \A m \in G \cup {x} : m.boot = x.boot => m.host = x.host
    BY <1>5, <1>6, <1>8, OpeningLine
  <2>2. /\ Known(G, {h}, x.id, linkFile[h]) /\ UnlessTaken(G, h, x.id, linkFile[h])
        /\ Known(G, Hosts, x.id, x.volumeLink)
    BY <1>5, <1>6, <1>8 DEF Base, FilesOk
  <2>3. /\ Known(G \cup {x}, {h}, x.id, linkFile[h])
        /\ UnlessTaken(G \cup {x}, h, x.id, linkFile[h])
        /\ Known(G \cup {x}, Hosts, x.id, x.volumeLink)
    <3>1. /\ \A S : MarksOf(G \cup {x}, S, x.id) = MarksOf(G, S, x.id)
          /\ \A y : Taken(G \cup {x}, x.id, y) <=> Taken(G, x.id, y)
      <4>1. x.id <= x.id
        BY <1>8
      <4> QED BY <1>8, <4>1, PastIsKept
    <3> QED BY <2>2, <3>1 DEF Known, UnlessTaken
  <2> QED BY <1>6, <2>1, <2>3 DEF LineOk
<1>11. /\ LogOk' /\ FilesOk' /\ BackupOk'
       /\ \A g \in Hosts : g # h /\ run[g] # Down => ProcIs(g)'
       /\ Next1' = x.id + 1
  <2>1. /\ x.boot \in 1 .. starts' /\ starts' \in Nat /\ starts <= starts'
        /\ run' \in [Hosts -> Procs]
    BY <1>1, <1>2, <1>6, BootsAre DEF ProcIs, TypeOK
  <2>2. /\ \A l \in G : l.boot # x.boot
        /\ \A g \in Hosts : g # h => run[g].boot # x.boot
        /\ run'[h].boot = x.boot /\ x.event # "checkpoint"
    BY <1>2, <1>5, <1>6, <1>7, <1>9 DEF ProcIs
  <2> HIDE DEF G
  <2> QED BY <1>1, <1>4, <1>6, <1>9, <1>10, <2>1, <2>2, LineWritten DEF G
<1>12. ProcIs(h)'
  <2>1. Segmented(G \cup {x}, x.boot, x.id + 1, {x.id}, 0)
    BY <1>5, <1>6, <1>8, FirstSegment
  <2>2. NewestOf(h, x)'
    <3>1. \A m \in G \cup {x} : m.id <= x.id
      BY <1>8 DEF Later
    <3> QED BY <1>6, <1>7, <1>8, <1>9, <3>1 DEF NewestOf
  <2>3. linkFile'[h] = linkFile[h]
    BY <1>1 DEF files
  <2>4. Running(h)'
    <3>1. \E s \in G \cup {x} : s.event = "started" /\ s.boot = q.boot /\ s.link = q.link
      BY <1>6, <1>7
    <3>2. run'[h] = q /\ Written' = G \cup {x} /\ Next1' = x.id + 1
      BY <1>8, <1>9, <1>11
    <3>3. Segmented(G \cup {x}, q.boot, x.id + 1, q.leaves, q.segment)
      BY <1>6, <1>7, <2>1
    <3>4. \E l \in Written' : NewestOf(h, l)'
      <4>1. x \in Written'
        BY <3>2
      <4> QED BY <2>2, <4>1
    <3> HIDE DEF G
    <3> QED BY <1>7, <2>3, <3>1, <3>2, <3>3, <3>4 DEF Running
  <2>5. \A g \in Hosts : g # h => run'[g].boot # q.boot
    BY <1>2, <1>7, <1>9 DEF ProcIs
  <2>6. \A m \in G \cup {x} : m.boot = q.boot => m.host = h
    BY <1>5, <1>6, <1>7
  <2> HIDE DEF G
  <2> QED BY <1>1, <1>2, <1>7, <1>8, <1>9, <2>4, <2>5, <2>6 DEF ProcIs, G
<1>13. ProcOk'
  BY <1>9, <1>11, <1>12, ProcsAre
<1> QED BY <1>11, <1>13 DEF Base

(* A start without the seal keeps the base.                                *)
LEMMA StartUnsealedBase ==
    ASSUME TypeOK, TypeOK', Base, NEW h \in Hosts, StartUnsealed(h)
    PROVE  Base'
<1> DEFINE p == [Down EXCEPT !.at = "up", !.boot = starts + 1]
           q == Emitted(p, {})
           G == Written
<1>0. PICK x : x = LineOf(h, p, "line", {})
  OBVIOUS
<1>1. /\ log' = Append(log, x) /\ run' = [run EXCEPT ![h] = q] /\ UNCHANGED files
      /\ backup' = backup /\ starts' = starts + 1
  BY <1>0 DEF StartUnsealed, Emits, Becomes, files
<1>2. starts \in Nat /\ \A l \in G : l.boot # starts + 1
  BY BootsAre
<1>3. p \in Procs
  <2>1. starts + 1 \in Nat
    BY <1>2
  <2> QED BY <2>1, DownType DEF Procs
<1>4. x \in Lines /\ x.id = Len(log) + 1 /\ q \in Procs
  BY <1>0, <1>3, LineType
<1>5. /\ x.boot = starts + 1 /\ x.host = h /\ x.event = "line" /\ x.seq = 1 /\ x.prev = 0
  BY <1>0 DEF LineOf, Down
<1>6. /\ q.at = "up" /\ q.boot = starts + 1 /\ q.seq = 1 /\ q.prev = x.id /\ q.pending = FALSE
      /\ q.sealing = FALSE
  BY <1>4 DEF Emitted, Down
<1>7. Later(G, x) /\ Written' = G \cup {x} /\ Next1 = x.id /\ x.id \in Nat
  BY <1>1, <1>4, LogGrows DEF Next1
<1> HIDE DEF q, p
<1>8. run'[h] = q /\ \A g \in Hosts : g # h => run'[g] = run[g]
  BY <1>1 DEF TypeOK
<1>9. \A g \in Hosts : run[g].boot # starts + 1
  BY BootsAre
<1>10. LineOk(G \cup {x}, x)
  <2>1. /\ Chained(G \cup {x}, x) /\ HostBlock(G \cup {x}, x)
        /\ \A m \in G \cup {x} : m.boot = x.boot => m.host = x.host
    BY <1>2, <1>5, <1>7, OpeningLine
  <2> QED BY <1>5, <2>1 DEF LineOk
<1>11. /\ LogOk' /\ FilesOk' /\ BackupOk'
       /\ \A g \in Hosts : g # h /\ run[g] # Down => ProcIs(g)'
  <2>1. /\ x.boot \in 1 .. starts' /\ starts' \in Nat /\ starts <= starts'
        /\ run' \in [Hosts -> Procs]
    BY <1>1, <1>2, <1>5 DEF TypeOK
  <2>2. /\ \A l \in G : l.boot # x.boot
        /\ \A g \in Hosts : g # h => run[g].boot # x.boot
        /\ run'[h].boot = x.boot /\ x.event # "checkpoint"
    BY <1>2, <1>5, <1>6, <1>8, <1>9
  <2> HIDE DEF G
  <2> QED BY <1>1, <1>4, <1>5, <1>8, <1>10, <2>1, <2>2, LineWritten DEF G
<1>12. ProcIs(h)'
  <2>1. NewestOf(h, x)'
    <3>1. \A m \in G \cup {x} : m.id <= x.id
      BY <1>7 DEF Later
    <3> QED BY <1>5, <1>6, <1>7, <1>8, <3>1 DEF NewestOf
  <2>2. \A m \in G \cup {x} : m.boot = q.boot => m.event = "line"
    BY <1>2, <1>5, <1>6
  <2>3. Running(h)'
    <3> HIDE DEF G
    <3> QED BY <1>6, <1>7, <1>8, <2>1, <2>2 DEF Running, G
  <2>4. \A g \in Hosts : g # h => run'[g].boot # q.boot
    BY <1>6, <1>8, <1>9
  <2>5. \A m \in G \cup {x} : m.boot = q.boot => m.host = h
    BY <1>2, <1>5, <1>6
  <2>6. q.boot \in 1 .. starts'
    BY <1>1, <1>2, <1>6
  <2> HIDE DEF G
  <2> QED BY <1>7, <1>8, <2>3, <2>4, <2>5, <2>6 DEF ProcIs, G
<1>13. ProcOk'
  BY <1>8, <1>11, <1>12, ProcsAre
<1> QED BY <1>11, <1>13 DEF Base

-----------------------------------------------------------------------------
(* A running process has a newest line, which its next one continues.      *)
LEMMA RunningLine ==
    ASSUME TypeOK, Base, NEW h \in Hosts, run[h].at # "down", run[h].at # "read"
    PROVE  /\ run[h] # Down /\ ProcIs(h) /\ Running(h)
           /\ \E l \in Written : NewestOf(h, l) /\ LineOk(Written, l) /\ l \in Lines
           /\ run[h].boot \in 1 .. starts
           /\ \A g \in Hosts : g # h => run[g].boot # run[h].boot
           /\ \A m \in Written : m.boot = run[h].boot => m.host = h
<1>1. run[h] # Down /\ ProcIs(h) /\ Running(h)
  BY AtIs
<1>2. PICK l \in Written : NewestOf(h, l)
  BY <1>1 DEF Running
<1>3. LineOk(Written, l) /\ l \in Lines
  BY WrittenOrdered DEF Base, LogOk, Ordered
<1> QED BY <1>1, <1>2, <1>3 DEF ProcIs

(* The next line of a process is a good one.                               *)
LEMMA NextLineOk ==
    ASSUME TypeOK, Base, NEW h \in Hosts, run[h].at # "down", run[h].at # "read",
           NEW x, Later(Written, x), x.boot = run[h].boot, x.host = h,
           x.seq = run[h].seq + 1, x.prev = run[h].prev,
           x.event \in {"line", "checkpoint"},
           x.event = "checkpoint" => Segmented(Written, x.boot, x.id, x.root, x.segment)
    PROVE  LineOk(Written \cup {x}, x)
<1>1. PICK l \in Written : NewestOf(h, l) /\ LineOk(Written, l)
  BY RunningLine
<1>2. /\ l.boot = x.boot /\ l.host = x.host /\ Follows(x, l)
      /\ \A m \in Written : m.host = x.host => m.id <= l.id
  BY <1>1 DEF NewestOf, Follows
<1>3. \A m \in Written : m.boot = x.boot => m.host = x.host
  BY RunningLine
<1>4. /\ Chained(Written \cup {x}, x) /\ HostBlock(Written \cup {x}, x)
      /\ \A m \in Written \cup {x} : m.boot = x.boot => m.host = x.host
  BY <1>1, <1>2, <1>3, WrittenOrdered, ContinuedLine
<1>5. x.event = "checkpoint" => Segmented(Written \cup {x}, x.boot, x.id, x.root, x.segment)
  <2>1. x.id \in Nat /\ x.id <= x.id
    BY DEF Later
  <2> QED BY <2>1, PastIsKept
<1> QED BY <1>4, <1>5 DEF LineOk

(* A line keeps the base.                                                  *)
LEMMA WriteBase ==
    ASSUME TypeOK, TypeOK', Base, NEW h \in Hosts, Write(h)
    PROVE  Base'
<1> DEFINE p == run[h]
           q == Emitted(p, p.leaves)
           G == Written
<1>0. PICK x : x = LineOf(h, p, "line", {})
  OBVIOUS
<1>1. /\ log' = Append(log, x) /\ run' = [run EXCEPT ![h] = q] /\ UNCHANGED files
      /\ backup' = backup /\ starts' = starts /\ p.at = "up"
  BY <1>0 DEF Write, Emits, Becomes
<1>2. /\ p # Down /\ ProcIs(h) /\ Running(h)
      /\ p.boot \in 1 .. starts
      /\ \A g \in Hosts : g # h => run[g].boot # p.boot
      /\ \A m \in G : m.boot = p.boot => m.host = h
  BY <1>1, RunningLine
<1>3. p \in Procs /\ p.leaves \in SUBSET Nat
  BY ProcFields
<1>4. x \in Lines /\ x.id = Len(log) + 1 /\ q \in Procs
  BY <1>0, <1>3, LineType
<1>5. /\ x.boot = p.boot /\ x.host = h /\ x.event = "line" /\ x.seq = p.seq + 1
      /\ x.prev = p.prev
  BY <1>0 DEF LineOf
<1>6. /\ q.at = "up" /\ q.boot = p.boot /\ q.seq = p.seq + 1 /\ q.prev = x.id
      /\ q.pending = p.sealing /\ q.sealing = p.sealing /\ q.segment = p.segment
      /\ q.link = p.link /\ (p.sealing => q.leaves = p.leaves \cup {x.id})
  BY <1>1, <1>3, <1>4 DEF Emitted, Procs
<1>7. Later(G, x) /\ Written' = G \cup {x} /\ Next1 = x.id /\ x.id \in Nat
  BY <1>1, <1>4, LogGrows DEF Next1
<1>8. run'[h] = q /\ \A g \in Hosts : g # h => run'[g] = run[g]
  BY <1>1 DEF TypeOK
<1> HIDE DEF q, p
<1>10. LineOk(G \cup {x}, x)
  <2>1. x.event \in {"line", "checkpoint"} /\ x.event # "checkpoint"
    BY <1>5
  <2>2. run[h].at # "down" /\ run[h].at # "read"
    BY <1>1 DEF p
  <2> QED BY <1>5, <1>7, <2>1, <2>2, NextLineOk DEF p
<1>11. /\ LogOk' /\ FilesOk' /\ BackupOk'
       /\ \A g \in Hosts : g # h /\ run[g] # Down => ProcIs(g)'
       /\ Next1' = x.id + 1
  <2>1. /\ x.boot \in 1 .. starts' /\ starts' \in Nat /\ starts <= starts'
        /\ run' \in [Hosts -> Procs]
    BY <1>1, <1>2, <1>5, BootsAre DEF TypeOK
  <2>2. /\ \A l \in G : l.boot = x.boot => l.host = h
        /\ \A g \in Hosts : g # h => run[g].boot # x.boot
        /\ run'[h].boot = x.boot /\ x.event # "checkpoint"
        /\ run[h] # Down /\ run[h].boot = x.boot
    BY <1>2, <1>5, <1>6, <1>8 DEF p
  <2> HIDE DEF G
  <2> QED BY <1>1, <1>4, <1>5, <1>8, <1>10, <2>1, <2>2, LineWritten DEF G
<1>12. ProcIs(h)'
  <2>1. /\ p.sealing \in BOOLEAN
        /\ p.sealing =>
              /\ Segmented(G, p.boot, Next1, p.leaves, p.segment)
              /\ \E s \in G : s.event = "started" /\ s.boot = p.boot /\ s.link = p.link
              /\ linkFile[h] # p.link => linkFile[h] # None /\ linkFile[h].boot = p.boot
        /\ ~p.sealing =>
              /\ p.at = "up" /\ ~p.pending
              /\ \A m \in G : m.boot = p.boot => m.event = "line"
    BY <1>2, ProcFields DEF Running, p
  <2>2. NewestOf(h, x)'
    <3>1. \A m \in G \cup {x} : m.id <= x.id
      BY <1>7 DEF Later
    <3>2. q.sealing => (q.pending <=> x.event # "checkpoint")
      BY <1>5, <1>6
    <3> QED BY <1>5, <1>6, <1>7, <1>8, <3>1, <3>2 DEF NewestOf
  <2>3. linkFile'[h] = linkFile[h]
    BY <1>1 DEF files
  <2>4. ASSUME q.sealing
        PROVE  /\ Segmented(G \cup {x}, q.boot, x.id + 1, q.leaves, q.segment)
               /\ \E s \in G \cup {x} : s.event = "started" /\ s.boot = q.boot /\ s.link = q.link
               /\ linkFile[h] # q.link => linkFile[h] # None /\ linkFile[h].boot = q.boot
    <3>1. Segmented(G, x.boot, x.id, p.leaves, p.segment)
      BY <1>5, <1>6, <1>7, <2>1, <2>4
    <3>2. Segmented(G \cup {x}, x.boot, x.id + 1, p.leaves \cup {x.id}, p.segment)
      BY <1>5, <1>7, <3>1, LongerSegment
    <3> QED BY <1>5, <1>6, <2>1, <2>4, <3>2
  <2>5. ASSUME ~q.sealing
        PROVE  /\ q.at = "up" /\ ~q.pending
               /\ \A m \in G \cup {x} : m.boot = q.boot => m.event = "line"
    BY <1>5, <1>6, <2>1, <2>5
  <2>6. Running(h)'
    <3> HIDE DEF G
    <3> QED BY <1>6, <1>7, <1>8, <1>11, <2>2, <2>3, <2>4, <2>5 DEF Running, G
  <2>7. \A g \in Hosts : g # h => run'[g].boot # q.boot
    BY <1>2, <1>6, <1>8 DEF p
  <2>8. \A m \in G \cup {x} : m.boot = q.boot => m.host = h
    BY <1>2, <1>5, <1>6
  <2> HIDE DEF G
  <2> QED BY <1>1, <1>2, <1>6, <1>7, <1>8, <2>6, <2>7, <2>8 DEF ProcIs, G
<1>13. ProcOk'
  BY <1>8, <1>11, <1>12, ProcsAre
<1> QED BY <1>11, <1>13 DEF Base

(* A checkpoint keeps the base: its boot took the link that the host file  *)
(* still names, or is the boot that the file names.                        *)
LEMMA CheckpointBase ==
    ASSUME TypeOK, TypeOK', Base, NEW h \in Hosts, Checkpoint(h)
    PROVE  Base'
<1> DEFINE p == run[h]
           r == Emitted(p, {})
           q == [r EXCEPT !.at = "record", !.segment = @ + 1, !.pending = FALSE,
                          !.written = Named(p.boot, p.segment, p.leaves)]
           G == Written
<1>0. PICK x : x = LineOf(h, p, "checkpoint", p.leaves)
  OBVIOUS
<1>1. /\ log' = Append(log, x) /\ run' = [run EXCEPT ![h] = q] /\ UNCHANGED files
      /\ backup' = backup /\ starts' = starts /\ p.at = "up" /\ p.pending
  BY <1>0 DEF Checkpoint, Emits, Becomes, NextSegment, Due
<1>2. /\ p # Down /\ ProcIs(h) /\ Running(h)
      /\ p.boot \in 1 .. starts
      /\ \A g \in Hosts : g # h => run[g].boot # p.boot
      /\ \A m \in G : m.boot = p.boot => m.host = h
  BY <1>1, RunningLine
<1>3. p \in Procs /\ p.leaves \in SUBSET Nat
  BY ProcFields
<1>4. x \in Lines /\ x.id = Len(log) + 1 /\ r \in Procs
  BY <1>0, <1>3, LineType
<1>5. /\ x.boot = p.boot /\ x.host = h /\ x.event = "checkpoint" /\ x.seq = p.seq + 1
      /\ x.prev = p.prev /\ x.root = p.leaves /\ x.segment = p.segment
  BY <1>0 DEF LineOf
<1>6. /\ p.sealing \in BOOLEAN /\ p.sealing
      /\ Segmented(G, p.boot, Next1, p.leaves, p.segment)
      /\ \E s \in G : s.event = "started" /\ s.boot = p.boot /\ s.link = p.link
      /\ linkFile[h] # p.link => linkFile[h] # None /\ linkFile[h].boot = p.boot
  BY <1>1, <1>2, ProcFields DEF Running
<1>7. /\ q.at = "record" /\ q.boot = p.boot /\ q.seq = p.seq + 1 /\ q.prev = x.id
      /\ q.pending = FALSE /\ q.sealing /\ q.segment = p.segment + 1
      /\ q.link = p.link /\ q.leaves = {x.id} /\ q.written = NameOf(x)
  <2>1. /\ r.boot = p.boot /\ r.seq = p.seq + 1 /\ r.prev = x.id /\ r.sealing = p.sealing
        /\ r.segment = p.segment /\ r.link = p.link /\ r.leaves = {x.id}
    BY <1>3, <1>4, <1>6 DEF Emitted, Procs
  <2>2. NameOf(x) = Named(p.boot, p.segment, p.leaves)
    BY <1>5 DEF NameOf
  <2> HIDE DEF r
  <2> QED BY <1>4, <1>6, <2>1, <2>2 DEF Procs
<1>8. Later(G, x) /\ Written' = G \cup {x} /\ Next1 = x.id /\ x.id \in Nat
  BY <1>1, <1>4, LogGrows DEF Next1
<1>9. run'[h] = q /\ \A g \in Hosts : g # h => run'[g] = run[g]
  BY <1>1 DEF TypeOK
<1> HIDE DEF q, p
<1>10. LineOk(G \cup {x}, x)
  <2>1. x.event \in {"line", "checkpoint"} /\ Segmented(G, x.boot, x.id, x.root, x.segment)
    BY <1>5, <1>6, <1>8
  <2>2. run[h].at # "down" /\ run[h].at # "read"
    BY <1>1 DEF p
  <2> QED BY <1>5, <1>8, <2>1, <2>2, NextLineOk DEF p
<1>11. /\ LogOk' /\ FilesOk' /\ BackupOk'
       /\ \A g \in Hosts : g # h /\ run[g] # Down => ProcIs(g)'
       /\ Next1' = x.id + 1
  <2>1. /\ x.boot \in 1 .. starts' /\ starts' \in Nat /\ starts <= starts'
        /\ run' \in [Hosts -> Procs]
    BY <1>1, <1>2, <1>5, BootsAre DEF TypeOK
  <2>2. /\ \A l \in G : l.boot = x.boot => l.host = h
        /\ \A g \in Hosts : g # h => run[g].boot # x.boot
        /\ run'[h].boot = x.boot
        /\ run[h] # Down /\ run[h].boot = x.boot
    BY <1>2, <1>5, <1>7, <1>9 DEF p
  <2>3. \/ linkFile[h] = None
        \/ x.boot = linkFile[h].boot
        \/ Taken(Written, Len(log) + 1, linkFile[h])
    <3>1. \A l \in G : l.id < Len(log) + 1
      BY <1>4, <1>8 DEF Later
    <3>2. CASE linkFile[h] # p.link
      BY <1>5, <1>6, <3>2
    <3>3. CASE linkFile[h] = p.link
      BY <1>6, <3>1, <3>3 DEF Taken
    <3> QED BY <3>2, <3>3
  <2> HIDE DEF G
  <2> QED BY <1>1, <1>4, <1>5, <1>9, <1>10, <2>1, <2>2, <2>3, LineWritten DEF G
<1>12. ProcIs(h)'
  <2>2. NewestOf(h, x)'
    <3>1. \A m \in G \cup {x} : m.id <= x.id
      BY <1>8 DEF Later
    <3> QED BY <1>5, <1>7, <1>8, <1>9, <3>1 DEF NewestOf
  <2>3. linkFile'[h] = linkFile[h]
    BY <1>1 DEF files
  <2>4. Segmented(G \cup {x}, q.boot, x.id + 1, q.leaves, q.segment)
    <3>1. Segmented(G, x.boot, x.id, p.leaves, p.segment)
      BY <1>5, <1>6, <1>8
    <3>2. Segmented(G \cup {x}, x.boot, x.id + 1, {x.id}, p.segment + 1)
      BY <1>5, <1>8, <3>1, NextSegmented
    <3> QED BY <1>5, <1>7, <3>2
  <2>5. /\ \E s \in G \cup {x} : s.event = "started" /\ s.boot = q.boot /\ s.link = q.link
        /\ linkFile[h] # q.link => linkFile[h] # None /\ linkFile[h].boot = q.boot
    BY <1>6, <1>7
  <2>6. Running(h)'
    <3> HIDE DEF G
    <3> QED BY <1>7, <1>8, <1>9, <1>11, <2>2, <2>3, <2>4, <2>5 DEF Running, G
  <2>7. \A g \in Hosts : g # h => run'[g].boot # q.boot
    BY <1>2, <1>7, <1>9 DEF p
  <2>8. \A m \in G \cup {x} : m.boot = q.boot => m.host = h
    BY <1>2, <1>5, <1>7
  <2> HIDE DEF G
  <2> QED BY <1>1, <1>2, <1>7, <1>8, <1>9, <2>6, <2>7, <2>8 DEF ProcIs, G
<1>13. ProcOk'
  BY <1>9, <1>11, <1>12, ProcsAre
<1> QED BY <1>11, <1>13 DEF Base

-----------------------------------------------------------------------------
(* The process that records its newest checkpoint.                         *)
LEMMA RecordingIs ==
    ASSUME TypeOK, Base, NEW h \in Hosts, run[h].at \in {"record", "recordVolume"}
    PROVE  /\ run[h] # Down /\ ProcIs(h) /\ Running(h) /\ run[h].sealing
           /\ \A g \in Hosts : g # h => run[g].boot # run[h].boot
           /\ \E s \in Written : s.event = "started" /\ s.boot = run[h].boot
                                 /\ s.link = run[h].link
           /\ linkFile[h] # run[h].link
                 => linkFile[h] # None /\ linkFile[h].boot = run[h].boot
           /\ \E l \in MarksOf(Written, {h}, Next1) :
                 /\ NewestOf(h, l) /\ run[h].written = NameOf(l) /\ NameOf(l) # None
                 /\ NameOf(l).boot = run[h].boot
                 /\ \A m \in MarksOf(Written, {h}, Next1) : m.id <= l.id
                 /\ l \in Written /\ l.event = "checkpoint" /\ l.id \in Nat
<1>1. run[h] # Down /\ ProcIs(h) /\ Running(h)
  BY AtIs
<1>2. run[h].sealing
  <2>1. run[h].sealing \in BOOLEAN
    BY ProcFields
  <2> QED BY <1>1, <2>1 DEF Running
<1>3. PICK l \in Written : NewestOf(h, l)
  BY <1>1 DEF Running
<1>4. l \in Lines /\ l.id \in Nat /\ l.id < Next1
  BY WrittenOrdered DEF Ordered, Next1
<1>5. /\ l.event = "checkpoint" /\ l.host = h /\ l.boot = run[h].boot
      /\ run[h].written = NameOf(l)
      /\ \A m \in Written : m.host = h => m.id <= l.id
  BY <1>3 DEF NewestOf
<1>6. NameOf(l) # None /\ NameOf(l).boot = run[h].boot
  BY <1>4, <1>5, NoneIsNoName, LineFields DEF NameOf, Named
<1>7. l \in MarksOf(Written, {h}, Next1)
  BY <1>4, <1>5 DEF MarksOf
<1>8. \A m \in MarksOf(Written, {h}, Next1) : m.id <= l.id
  BY <1>5 DEF MarksOf
<1> QED BY <1>1, <1>2, <1>3, <1>4, <1>5, <1>6, <1>7, <1>8 DEF Running, ProcIs

(* The host file names the newest checkpoint of its host, or keeps its     *)
(* name.                                                                   *)
LEMMA RecordHostBase ==
    ASSUME TypeOK, TypeOK', Base, NEW h \in Hosts, RecordHost(h)
    PROVE  Base'
<1> DEFINE p == run[h]
           q == [p EXCEPT !.at = "recordVolume"]
           G == Written
<1>1. /\ run' = [run EXCEPT ![h] = q] /\ log' = log /\ volumeFile' = volumeFile
      /\ backup' = backup /\ starts' = starts /\ p.at = "record"
      /\ linkFile' = linkFile \/ linkFile' = [linkFile EXCEPT ![h] = p.written]
  BY DEF RecordHost, Records, Becomes
<1>2. /\ p # Down /\ ProcIs(h) /\ Running(h) /\ p.sealing
      /\ \A g \in Hosts : g # h => run[g].boot # p.boot
      /\ \E s \in Written : s.event = "started" /\ s.boot = p.boot /\ s.link = p.link
      /\ linkFile[h] # p.link => linkFile[h] # None /\ linkFile[h].boot = p.boot
  BY <1>1, RecordingIs
<1>3. PICK l \in MarksOf(G, {h}, Next1) :
         /\ NewestOf(h, l) /\ p.written = NameOf(l) /\ NameOf(l) # None
         /\ NameOf(l).boot = p.boot
         /\ \A m \in MarksOf(G, {h}, Next1) : m.id <= l.id
         /\ l \in G /\ l.event = "checkpoint" /\ l.id \in Nat
  BY <1>1, RecordingIs
<1>4. /\ q.at = "recordVolume" /\ q.boot = p.boot /\ q.seq = p.seq /\ q.prev = p.prev
      /\ q.pending = p.pending /\ q.sealing = p.sealing /\ q.segment = p.segment
      /\ q.link = p.link /\ q.leaves = p.leaves /\ q.written = p.written
  BY ProcFields DEF Procs
<1> HIDE DEF q
<1>5. run'[h] = q /\ \A g \in Hosts : g # h => run'[g] = run[g]
  BY <1>1 DEF TypeOK
<1>6. /\ \A g \in Hosts : g # h => linkFile'[g] = linkFile[g]
      /\ linkFile'[h] = linkFile[h] \/ linkFile'[h] = p.written
  BY <1>1 DEF TypeOK
<1>7. /\ LogOk' /\ Written' = Written /\ Next1' = Next1
      /\ \A g \in Hosts : g # h /\ run[g] # Down => ProcIs(g)'
  <2>1. /\ \A g \in Hosts : g # h /\ run[g] # Down => run'[h].boot # run[g].boot
        /\ starts' \in Nat /\ starts <= starts'
    BY <1>1, <1>2, <1>4, <1>5, BootsAre
  <2> QED BY <1>1, <1>5, <1>6, <2>1, NothingWritten
<1>8. \A m \in G : m.id < Next1
  BY WrittenOrdered DEF Next1
<1>9. Taken(G, Next1, p.link)
  BY <1>2, <1>8 DEF Taken
<1>10. FilesOk'
  <2>1. ASSUME NEW g \in Hosts
        PROVE  Known(G, {g}, Next1, linkFile'[g]) /\ UnlessTaken(G, g, Next1, linkFile'[g])
    <3>1. Known(G, {g}, Next1, linkFile[g]) /\ UnlessTaken(G, g, Next1, linkFile[g])
      BY DEF Base, FilesOk
    <3>2. CASE linkFile'[g] = linkFile[g]
      BY <3>1, <3>2
    <3>3. CASE linkFile'[g] # linkFile[g]
      <4>1. g = h /\ linkFile'[g] = NameOf(l)
        BY <1>3, <1>6, <3>3
      <4>2. Known(G, {h}, Next1, NameOf(l))
        BY <1>3 DEF Known
      <4>3. UnlessTaken(G, h, Next1, NameOf(l))
        <5>1. ASSUME NEW m \in MarksOf(G, {h}, Next1), l.id < m.id PROVE FALSE
          <6>1. m.id \in Nat /\ m.id <= l.id
            BY <1>3, WrittenOrdered DEF MarksOf
          <6> QED BY <1>3, <5>1, <6>1
        <5> QED BY <1>3, <5>1 DEF UnlessTaken
      <4> QED BY <4>1, <4>2, <4>3
    <3> QED BY <3>2, <3>3
  <2>2. Known(G, Hosts, Next1, volumeFile)
    BY DEF Base, FilesOk
  <2> QED BY <1>1, <1>7, <2>1, <2>2 DEF FilesOk
<1>11. BackupOk'
  <2> SUFFICES ASSUME backup # <<>>, NEW g \in Hosts, NEW y, y = backup[1][g], y # None,
                      ~Taken(G, Next1, y), linkFile[g] = y,
                      run[g] # Down => run[g].boot # y.boot
               PROVE  linkFile'[g] = y /\ (run'[g] # Down => run'[g].boot # y.boot)
    BY <1>1, <1>7 DEF Base, BackupOk
  <2>1. g # h
    BY <1>2, <1>9
  <2> QED BY <1>5, <1>6, <2>1
<1>12. ProcIs(h)'
  <2>1. linkFile'[h] # p.link => linkFile'[h] # None /\ linkFile'[h].boot = p.boot
    BY <1>2, <1>3, <1>6
  <2>2. NewestOf(h, l)'
    BY <1>1, <1>3, <1>4, <1>5, <1>7 DEF NewestOf
  <2>3. Segmented(G, q.boot, Next1, q.leaves, q.segment)
    BY <1>2, <1>4 DEF Running
  <2>4. \E s \in G : s.event = "started" /\ s.boot = q.boot /\ s.link = q.link
    BY <1>2, <1>4
  <2>5. Running(h)'
    <3> HIDE DEF G
    <3> QED BY <1>2, <1>3, <1>4, <1>5, <1>7, <2>1, <2>2, <2>3, <2>4 DEF Running, G
  <2>6. /\ q.boot \in 1 .. starts
        /\ \A m \in G : m.boot = q.boot => m.host = h
    BY <1>2, <1>4 DEF ProcIs
  <2>7. \A g \in Hosts : g # h => run'[g].boot # q.boot
    BY <1>2, <1>4, <1>5
  <2> HIDE DEF G
  <2> QED BY <1>1, <1>5, <1>7, <2>5, <2>6, <2>7 DEF ProcIs, G
<1>13. ProcOk'
  BY <1>5, <1>7, <1>12, ProcsAre
<1> QED BY <1>7, <1>10, <1>11, <1>13 DEF Base

(* The volume file names a checkpoint of the log.                          *)
LEMMA RecordVolumeBase ==
    ASSUME TypeOK, TypeOK', Base, NEW h \in Hosts, RecordVolume(h)
    PROVE  Base'
<1> DEFINE p == run[h]
           q == [p EXCEPT !.at = "up", !.written = None]
           G == Written
<1>1. /\ run' = [run EXCEPT ![h] = q] /\ log' = log /\ linkFile' = linkFile
      /\ backup' = backup /\ starts' = starts /\ p.at = "recordVolume"
      /\ volumeFile' = volumeFile \/ volumeFile' = p.written
  BY DEF RecordVolume, Records, Becomes
<1>2. /\ p # Down /\ ProcIs(h) /\ Running(h) /\ p.sealing
      /\ \A g \in Hosts : g # h => run[g].boot # p.boot
      /\ \E s \in Written : s.event = "started" /\ s.boot = p.boot /\ s.link = p.link
      /\ linkFile[h] # p.link => linkFile[h] # None /\ linkFile[h].boot = p.boot
  BY <1>1, RecordingIs
<1>3. PICK l \in MarksOf(G, {h}, Next1) :
         /\ NewestOf(h, l) /\ p.written = NameOf(l)
         /\ l \in G /\ l.event = "checkpoint" /\ l.id \in Nat
  BY <1>1, RecordingIs
<1>4. /\ q.at = "up" /\ q.boot = p.boot /\ q.seq = p.seq /\ q.prev = p.prev
      /\ q.pending = p.pending /\ q.sealing = p.sealing /\ q.segment = p.segment
      /\ q.link = p.link /\ q.leaves = p.leaves
  BY ProcFields DEF Procs
<1> HIDE DEF q
<1>5. run'[h] = q /\ \A g \in Hosts : g # h => run'[g] = run[g]
  BY <1>1 DEF TypeOK
<1>7. /\ LogOk' /\ Written' = Written /\ Next1' = Next1
      /\ \A g \in Hosts : g # h /\ run[g] # Down => ProcIs(g)'
  <2>1. /\ \A g \in Hosts : g # h /\ run[g] # Down => run'[h].boot # run[g].boot
        /\ starts' \in Nat /\ starts <= starts'
    BY <1>1, <1>2, <1>4, <1>5, BootsAre
  <2> QED BY <1>1, <1>5, <2>1, NothingWritten
<1>10. FilesOk'
  <2>1. Known(G, Hosts, Next1, NameOf(l))
    BY <1>3 DEF Known, MarksOf
  <2>2. Known(G, Hosts, Next1, volumeFile')
    BY <1>1, <1>3, <2>1 DEF Base, FilesOk
  <2> QED BY <1>1, <1>7, <2>2 DEF Base, FilesOk
<1>11. BackupOk'
  <2> SUFFICES ASSUME backup # <<>>, NEW g \in Hosts, NEW y, y = backup[1][g], y # None,
                      ~Taken(G, Next1, y), linkFile[g] = y,
                      run[g] # Down => run[g].boot # y.boot
               PROVE  run'[g] # Down => run'[g].boot # y.boot
    BY <1>1, <1>7 DEF Base, BackupOk
  <2> QED BY <1>2, <1>4, <1>5
<1>12. ProcIs(h)'
  <2>2. NewestOf(h, l)'
    BY <1>1, <1>3, <1>4, <1>5, <1>7 DEF NewestOf
  <2>3. Segmented(G, q.boot, Next1, q.leaves, q.segment)
    BY <1>2, <1>4 DEF Running
  <2>4. \E s \in G : s.event = "started" /\ s.boot = q.boot /\ s.link = q.link
    BY <1>2, <1>4
  <2>5. Running(h)'
    <3> HIDE DEF G
    <3> QED BY <1>1, <1>2, <1>3, <1>4, <1>5, <1>7, <2>2, <2>3, <2>4 DEF Running, G
  <2>6. /\ q.boot \in 1 .. starts
        /\ \A m \in G : m.boot = q.boot => m.host = h
    BY <1>2, <1>4 DEF ProcIs
  <2>7. \A g \in Hosts : g # h => run'[g].boot # q.boot
    BY <1>2, <1>4, <1>5
  <2> HIDE DEF G
  <2> QED BY <1>1, <1>5, <1>7, <2>5, <2>6, <2>7 DEF ProcIs, G
<1>13. ProcOk'
  BY <1>5, <1>7, <1>12, ProcsAre
<1> QED BY <1>7, <1>10, <1>11, <1>13 DEF Base

(* Every step keeps the base.                                              *)
LEMMA BaseStep ==
    ASSUME TypeOK, TypeOK', Base, [Next]_vars
    PROVE  Base'
<1>1. CASE UNCHANGED vars
  <2>1. /\ log' = log /\ linkFile' = linkFile /\ volumeFile' = volumeFile /\ run' = run
        /\ starts' = starts /\ backup' = backup
    BY <1>1 DEF vars, files
  <2>2. Written' = Written /\ Next1' = Next1
    BY <2>1 DEF Written, Next1
  <2>3. LogOk' /\ FilesOk'
    BY <2>1, <2>2 DEF Base, LogOk, FilesOk
  <2>4. ProcOk'
    <3>1. ASSUME NEW h \in Hosts PROVE Reading(h) => Reading(h)'
      BY <2>1, <2>2 DEF Reading
    <3>2. ASSUME NEW h \in Hosts PROVE Running(h) => Running(h)'
      BY <2>1, <2>2 DEF Running, NewestOf
    <3> QED BY <2>1, <2>2, <3>1, <3>2 DEF Base, ProcOk
  <2>5. BackupOk'
    BY <2>1, <2>2 DEF Base, BackupOk
  <2> QED BY <2>3, <2>4, <2>5 DEF Base
<1>2. CASE Next
  <2>1. CASE Quiet
    BY <1>1, <2>1 DEF Quiet
  <2>2. CASE BackUp \/ Restore
    BY <2>2, BackUpBase, RestoreBase
  <2>3. ASSUME NEW h \in Hosts,
               \/ ReadLinks(h) \/ Start(h) \/ StartUnsealed(h) \/ Write(h)
               \/ Checkpoint(h) \/ RecordHost(h) \/ RecordVolume(h)
               \/ Stop(h) \/ Kill(h)
        PROVE  Base'
    BY <2>3, ReadLinksBase, StartBase, StartUnsealedBase, WriteBase, CheckpointBase,
       RecordHostBase, RecordVolumeBase, StopBase
  <2> QED BY <1>2, <2>1, <2>2, <2>3 DEF Next
<1> QED BY <1>1, <1>2

-----------------------------------------------------------------------------
(* The line x that a step of the host h writes.                            *)
WrittenBy(h, x) ==
    /\ x.id = Len(log) + 1 /\ Next1 = x.id /\ Next1' = x.id + 1 /\ Len(log') = x.id
    /\ Written' = Written \cup {x} /\ Later(Written, x) /\ x.id \in Nat /\ x \in Lines
    /\ x.host = h /\ run'[h].boot = x.boot /\ run'[h].prev = x.id /\ run'[h] # Down
    /\ \/ run'[h].at = "up" /\ x.event # "checkpoint"
       \/ run'[h].at = "record" /\ x.event = "checkpoint"
    /\ \A g \in Hosts : g # h => run'[g] = run[g]
    /\ linkFile' = linkFile /\ volumeFile' = volumeFile

(* A line of the host h, and what else its step changes.                   *)
LEMMA LineOfStep ==
    ASSUME TypeOK, NEW h \in Hosts, NEW p \in Procs, NEW q,
           NEW e \in {"started", "line", "checkpoint"}, NEW root \in SUBSET Nat,
           NEW x, x = LineOf(h, p, e, root), log' = Append(log, x),
           run' = [run EXCEPT ![h] = q],
           q.boot = p.boot, q.prev = Len(log) + 1,
           q.at = IF e = "checkpoint" THEN "record" ELSE "up",
           UNCHANGED files
    PROVE  WrittenBy(h, x)
<1>2. x \in Lines /\ x.id = Len(log) + 1
  BY LineType
<1>3. /\ x.host = h /\ x.event = e /\ x.boot = p.boot /\ x.link = p.link
      /\ x.volumeLink = p.volumeLink
  BY DEF LineOf
<1>4. /\ Len(log') = Len(log) + 1 /\ Len(log) \in Nat /\ Written' = Written \cup {x}
      /\ Later(Written, x)
  BY <1>2, LogGrows
<1>5. run'[h] = q /\ \A g \in Hosts : g # h => run'[g] = run[g]
  BY DEF TypeOK
<1>6. q # Down
  BY DownBoot
<1>7. Next1 = x.id /\ Next1' = x.id + 1
  BY <1>2, <1>4 DEF Next1
<1>8. linkFile' = linkFile /\ volumeFile' = volumeFile
  BY DEF files
<1>9. WrittenBy(h, x)
  BY <1>2, <1>3, <1>4, <1>5, <1>6, <1>7, <1>8 DEF WrittenBy
<1> QED BY <1>9

(* The line that each of these steps writes.                               *)
LEMMA StartLine ==
    ASSUME TypeOK, NEW h \in Hosts, Start(h)
    PROVE  \E x : /\ WrittenBy(h, x) /\ x.event = "started" /\ x.boot = run[h].boot
                  /\ x.link = run[h].link /\ x.volumeLink = run[h].volumeLink
<1> DEFINE p == [run[h] EXCEPT !.at = "up", !.sealing = TRUE]
<1>1. /\ log' = Append(log, LineOf(h, p, "started", {})) /\ UNCHANGED files
      /\ run' = [run EXCEPT ![h] = Emitted(p, {})]
  BY DEF Start, Emits, Becomes
<1>2. p \in Procs /\ {} \in SUBSET Nat
  BY ProcFields DEF Procs
<1>3. Emitted(p, {}) \in Procs
  BY <1>2, LineType
<1>4. /\ p.boot = run[h].boot /\ p.link = run[h].link /\ p.volumeLink = run[h].volumeLink
      /\ p.at = "up"
  BY ProcFields DEF Procs
<1> HIDE DEF p
<1>5. /\ Emitted(p, {}).boot = p.boot /\ Emitted(p, {}).prev = Len(log) + 1
      /\ Emitted(p, {}).at = p.at
  BY <1>2 DEF Emitted, Procs
<1>6. \E x : /\ WrittenBy(h, x) /\ x.event = "started" /\ x.boot = p.boot
             /\ x.link = p.link /\ x.volumeLink = p.volumeLink
  <2> DEFINE q == Emitted(p, {})
  <2>1. PICK x : x = LineOf(h, p, "started", {})
    OBVIOUS
  <2>2. /\ run' = [run EXCEPT ![h] = q] /\ q.boot = p.boot /\ q.prev = Len(log) + 1
        /\ q.at = "up" /\ UNCHANGED files /\ log' = Append(log, x)
    BY <1>1, <1>4, <1>5, <2>1
  <2> HIDE DEF q
  <2>3. PICK e \in {"started", "line", "checkpoint"}, root \in SUBSET Nat :
           e = "started" /\ root = {}
    OBVIOUS
  <2>4. x = LineOf(h, p, e, root)
    BY <2>1, <2>3
  <2>5. WrittenBy(h, x)
    <3>1. /\ run' = [run EXCEPT ![h] = q] /\ log' = Append(log, x) /\ UNCHANGED files
          /\ q.boot = p.boot /\ q.prev = Len(log) + 1
      BY <2>2
    <3>2. q.at = IF e = "checkpoint" THEN "record" ELSE "up"
      BY <2>2, <2>3
    <3> QED BY <1>2, <2>4, <3>1, <3>2, LineOfStep
  <2> QED BY <2>1, <2>5 DEF LineOf
<1> QED BY <1>4, <1>6

(* See StartLine.                                                          *)
LEMMA UnsealedLine ==
    ASSUME TypeOK, NEW h \in Hosts, StartUnsealed(h)
    PROVE  \E x : WrittenBy(h, x) /\ x.event = "line" /\ x.boot = starts + 1
<1> DEFINE p == [Down EXCEPT !.at = "up", !.boot = starts + 1]
<1>1. /\ log' = Append(log, LineOf(h, p, "line", {})) /\ UNCHANGED files
      /\ run' = [run EXCEPT ![h] = Emitted(p, {})]
  BY DEF StartUnsealed, Emits, Becomes, files
<1>2. p \in Procs /\ {} \in SUBSET Nat
  <2>1. starts + 1 \in Nat
    BY DEF TypeOK
  <2> QED BY <2>1, DownType DEF Procs
<1>3. Emitted(p, {}) \in Procs
  BY <1>2, LineType
<1>4. p.boot = starts + 1 /\ p.at = "up"
  BY DEF Down
<1> HIDE DEF p
<1>5. /\ Emitted(p, {}).boot = p.boot /\ Emitted(p, {}).prev = Len(log) + 1
      /\ Emitted(p, {}).at = p.at
  BY <1>2 DEF Emitted, Procs
<1>6. \E x : /\ WrittenBy(h, x) /\ x.event = "line" /\ x.boot = p.boot
             /\ x.link = p.link /\ x.volumeLink = p.volumeLink
  <2> DEFINE q == Emitted(p, {})
  <2>1. PICK x : x = LineOf(h, p, "line", {})
    OBVIOUS
  <2>2. /\ run' = [run EXCEPT ![h] = q] /\ q.boot = p.boot /\ q.prev = Len(log) + 1
        /\ q.at = "up" /\ UNCHANGED files /\ log' = Append(log, x)
    BY <1>1, <1>4, <1>5, <2>1
  <2> HIDE DEF q
  <2>3. PICK e \in {"started", "line", "checkpoint"}, root \in SUBSET Nat :
           e = "line" /\ root = {}
    OBVIOUS
  <2>4. x = LineOf(h, p, e, root)
    BY <2>1, <2>3
  <2>5. WrittenBy(h, x)
    <3>1. /\ run' = [run EXCEPT ![h] = q] /\ log' = Append(log, x) /\ UNCHANGED files
          /\ q.boot = p.boot /\ q.prev = Len(log) + 1
      BY <2>2
    <3>2. q.at = IF e = "checkpoint" THEN "record" ELSE "up"
      BY <2>2, <2>3
    <3> QED BY <1>2, <2>4, <3>1, <3>2, LineOfStep
  <2> QED BY <2>1, <2>5 DEF LineOf
<1> QED BY <1>4, <1>6

(* See StartLine.                                                          *)
LEMMA WriteLine ==
    ASSUME TypeOK, NEW h \in Hosts, Write(h)
    PROVE  \E x : WrittenBy(h, x) /\ x.event = "line" /\ x.boot = run[h].boot
<1> DEFINE p == run[h]
<1>1. /\ log' = Append(log, LineOf(h, p, "line", {})) /\ UNCHANGED files
      /\ run' = [run EXCEPT ![h] = Emitted(p, p.leaves)] /\ p.at = "up"
  BY DEF Write, Emits, Becomes
<1>2. p \in Procs /\ {} \in SUBSET Nat /\ p.leaves \in SUBSET Nat
  BY ProcFields
<1>3. Emitted(p, p.leaves) \in Procs
  BY <1>2, LineType
<1> HIDE DEF p
<1>5. /\ Emitted(p, p.leaves).boot = p.boot /\ Emitted(p, p.leaves).prev = Len(log) + 1
      /\ Emitted(p, p.leaves).at = p.at
  BY <1>2 DEF Emitted, Procs
<1>6. \E x : /\ WrittenBy(h, x) /\ x.event = "line" /\ x.boot = p.boot
             /\ x.link = p.link /\ x.volumeLink = p.volumeLink
  <2> DEFINE q == Emitted(p, p.leaves)
  <2>1. PICK x : x = LineOf(h, p, "line", {})
    OBVIOUS
  <2>2. /\ run' = [run EXCEPT ![h] = q] /\ q.boot = p.boot /\ q.prev = Len(log) + 1
        /\ q.at = "up" /\ UNCHANGED files /\ log' = Append(log, x)
    BY <1>1, <1>5, <2>1
  <2> HIDE DEF q
  <2>3. PICK e \in {"started", "line", "checkpoint"}, root \in SUBSET Nat :
           e = "line" /\ root = {}
    OBVIOUS
  <2>4. x = LineOf(h, p, e, root)
    BY <2>1, <2>3
  <2>5. WrittenBy(h, x)
    <3>1. /\ run' = [run EXCEPT ![h] = q] /\ log' = Append(log, x) /\ UNCHANGED files
          /\ q.boot = p.boot /\ q.prev = Len(log) + 1
      BY <2>2
    <3>2. q.at = IF e = "checkpoint" THEN "record" ELSE "up"
      BY <2>2, <2>3
    <3> QED BY <1>2, <2>4, <3>1, <3>2, LineOfStep
  <2> QED BY <2>1, <2>5 DEF LineOf
<1> QED BY <1>6 DEF p

(* See StartLine.                                                          *)
LEMMA CheckpointLine ==
    ASSUME TypeOK, NEW h \in Hosts, Checkpoint(h)
    PROVE  \E x : WrittenBy(h, x) /\ x.event = "checkpoint" /\ x.boot = run[h].boot
<1> DEFINE p == run[h]
           r == Emitted(p, {})
           q == [r EXCEPT !.at = "record", !.segment = @ + 1, !.pending = FALSE,
                          !.written = Named(p.boot, p.segment, p.leaves)]
<1>1. /\ log' = Append(log, LineOf(h, p, "checkpoint", p.leaves)) /\ UNCHANGED files
      /\ run' = [run EXCEPT ![h] = q] /\ p.at = "up"
  BY DEF Checkpoint, Becomes, NextSegment, Due
<1>2. p \in Procs /\ p.leaves \in SUBSET Nat
  BY ProcFields
<1>3. r \in Procs
  BY <1>2, LineType
<1>4. r.boot = p.boot /\ r.prev = Len(log) + 1
  BY <1>2 DEF Emitted, Procs
<1> HIDE DEF r
<1>5. q.boot = p.boot /\ q.prev = Len(log) + 1 /\ q.at = "record"
  BY <1>3, <1>4 DEF Procs
<1> HIDE DEF p, q
<1>6. \E x : /\ WrittenBy(h, x) /\ x.event = "checkpoint" /\ x.boot = p.boot
             /\ x.link = p.link /\ x.volumeLink = p.volumeLink
  <2>1. PICK x : x = LineOf(h, p, "checkpoint", p.leaves)
    OBVIOUS
  <2>2. log' = Append(log, x)
    BY <1>1, <2>1
  <2>3. WrittenBy(h, x)
    BY <1>1, <1>2, <1>5, <2>1, <2>2, LineOfStep
  <2> QED BY <2>1, <2>3 DEF LineOf
<1> QED BY <1>6 DEF p

(* A step that writes nothing.                                             *)
LEMMA NoLine ==
    ASSUME log' = log
    PROVE  Written' = Written /\ Next1' = Next1 /\ Len(log') = Len(log)
BY DEF Written, Next1

-----------------------------------------------------------------------------
(* Newest, and NewestIn.                                                   *)
LEMMA NewestName ==
    ASSUME TypeOK, NEW S, NEW x
    PROVE  NewestIn(Written, S, Next1, x) <=> Newest(S) = x
<1> DEFINE M == MarksOf(Written, S, Next1)
<1>1. M = {m \in Marks(Written) : m.host \in S}
  BY WrittenOrdered DEF MarksOf, Marks, Next1
<1>2. Ordered(M) /\ \A m \in M : m.id \in Nat
  BY WrittenOrdered, OrderedPart DEF MarksOf
<1>3. Newest(S) = IF M = {} THEN None ELSE NameOf(LastOf(M))
  <2> HIDE DEF M
  <2> QED BY <1>1 DEF Newest
<1>4. CASE M = {}
  <2> HIDE DEF M
  <2> QED BY <1>3, <1>4 DEF NewestIn, M
<1>5. CASE M # {}
  <2>1. LastOf(M) \in M /\ \A m \in M : m.id <= LastOf(M).id
    BY <1>2, <1>5, LastLine
  <2>2. ASSUME NewestIn(Written, S, Next1, x) PROVE Newest(S) = x
    <3>1. PICK k \in M : NameOf(k) = x /\ \A m \in M : m.id <= k.id
      BY <1>5, <2>2 DEF NewestIn
    <3>2. LastOf(M) = k
      BY <1>2, <3>1, LastIs
    <3> QED BY <1>3, <1>5, <3>1, <3>2
  <2>3. ASSUME Newest(S) = x PROVE NewestIn(Written, S, Next1, x)
    <3>1. NameOf(LastOf(M)) = x
      BY <1>3, <1>5, <2>3
    <3> QED BY <2>1, <3>1 DEF NewestIn
  <2> QED BY <2>2, <2>3
<1> QED BY <1>4, <1>5

(* What was newest before a line stays so for that line.                   *)
LEMMA NewestInPast ==
    ASSUME NEW G, NEW x, Later(G, x), NEW i \in Nat, i <= x.id, NEW S, NEW y,
           NewestIn(G, S, i, y)
    PROVE  NewestIn(G \cup {x}, S, i, y)
<1>1. MarksOf(G \cup {x}, S, i) = MarksOf(G, S, i)
  BY PastIsKept
<1> QED BY <1>1 DEF NewestIn

-----------------------------------------------------------------------------
(* One process at a time: its lines are together, and the newest is its.   *)
LEMMA AloneType == TypeOK => alone \in BOOLEAN /\ orderly \in BOOLEAN
BY DEF TypeOK

(* A line of the only process keeps the boots apart.                       *)
LEMMA AloneLine ==
    ASSUME TypeOK, Base, AloneOk, alone, NEW h \in Hosts, NEW x, WrittenBy(h, x),
           \/ AllDown /\ x.boot = starts + 1
           \/ run[h].at = "read" /\ x.boot = run[h].boot
           \/ run[h].at = "up" /\ x.boot = run[h].boot
    PROVE  AloneOk'
<1> DEFINE G == Written
<1>0. /\ Blocks(G)
      /\ \A g \in Hosts : run[g] # Down =>
            /\ \A e \in Hosts : e # g => run[e] = Down
            /\ run[g].at # "read" => run[g].prev = Len(log)
  BY DEF AloneOk
<1>1. ASSUME NEW k \in G, NEW m \in G, k.id < m.id, k.boot = x.boot PROVE m.boot = x.boot
  <2>1. CASE AllDown /\ x.boot = starts + 1
    BY <1>1, <2>1, BootsAre
  <2>2. CASE run[h].at = "read" /\ x.boot = run[h].boot
    <3>1. Reading(h)
      BY <2>2, AtIs
    <3> QED BY <1>1, <2>2, <3>1 DEF Reading
  <2>3. CASE run[h].at = "up" /\ x.boot = run[h].boot
    <3>1. run[h] # Down /\ \E l \in G : NewestOf(h, l)
      BY <2>3, RunningLine
    <3>2. PICK l \in G : NewestOf(h, l)
      BY <3>1
    <3>3. l.id = Len(log) /\ l.boot = x.boot
      BY <1>0, <2>3, <3>1, <3>2 DEF NewestOf
    <3>4. CASE m.id = l.id
      BY <3>3, <3>4, WrittenOrdered DEF Ordered
    <3>5. CASE m.id # l.id
      <4>1. m.id < l.id
        BY <3>3, <3>5, WrittenOrdered
      <4> QED BY <1>0, <1>1, <3>3, <4>1 DEF Blocks
    <3> QED BY <3>4, <3>5
  <2> QED BY <2>1, <2>2, <2>3
<1>2. Blocks(G \cup {x})
  <2> SUFFICES ASSUME NEW k \in G \cup {x}, NEW m \in G \cup {x}, NEW l \in G \cup {x},
                      k.id < m.id, m.id < l.id, k.boot = l.boot
               PROVE  m.boot = l.boot
    BY DEF Blocks
  <2>1. \A i \in G : i.id \in Nat /\ i.id < x.id /\ x.id \in Nat
    BY DEF WrittenBy, Later
  <2>2. m \in G /\ k \in G
    BY <2>1 DEF WrittenBy
  <2>3. CASE l = x
    BY <1>1, <2>2, <2>3
  <2>4. CASE l \in G
    BY <1>0, <2>2, <2>4 DEF Blocks
  <2> QED BY <2>3, <2>4
<1>3. \A g \in Hosts : g # h => run[g] = Down
  <2>1. AllDown \/ run[h] # Down
    BY DownBoot
  <2> QED BY <1>0, <2>1 DEF AllDown
<1>4. ASSUME NEW g \in Hosts, run'[g] # Down
      PROVE  /\ \A e \in Hosts : e # g => run'[e] = Down
             /\ run'[g].prev = Len(log')
  <2>1. g = h
    BY <1>3, <1>4 DEF WrittenBy
  <2> QED BY <1>3, <2>1 DEF WrittenBy
<1>5. Blocks(Written)'
  BY <1>2 DEF WrittenBy, Blocks
<1> QED BY <1>4, <1>5 DEF AloneOk

(* Every step keeps what is known while processes run one by one.          *)
LEMMA AloneStep ==
    ASSUME TypeOK, Base, AloneOk, [Next]_vars
    PROVE  AloneOk'
<1>1. ASSUME log' = log, run' = run, alone' = alone PROVE AloneOk'
  <2>1. Blocks(Written) => Blocks(Written)'
    BY <1>1, NoLine DEF Blocks
  <2> QED BY <1>1, <2>1 DEF AloneOk
<1>2. CASE UNCHANGED vars \/ Quiet \/ BackUp \/ Restore
  BY <1>1, <1>2 DEF Quiet, BackUp, Restore, vars
<1>3. ASSUME NEW h \in Hosts, ReadLinks(h) PROVE AloneOk'
  <2> SUFFICES ASSUME alone' PROVE AloneOk'
    BY DEF AloneOk
  <2>1. alone /\ AllDown
    BY <1>3 DEF ReadLinks
  <2>2. Blocks(Written)'
    BY <1>3, <2>1, NoLine DEF ReadLinks, AloneOk, Blocks
  <2>3. /\ \A g \in Hosts : g # h => run'[g] = Down
        /\ run'[h].at = "read"
    BY <1>3, <2>1 DEF ReadLinks, Becomes, AllDown, TypeOK, Down
  <2> QED BY <2>2, <2>3 DEF AloneOk
<1>4. ASSUME NEW h \in Hosts, Start(h) PROVE AloneOk'
  <2> SUFFICES ASSUME alone' PROVE AloneOk'
    BY DEF AloneOk
  <2>1. alone /\ run[h].at = "read"
    BY <1>4 DEF Start
  <2>2. \E x : WrittenBy(h, x) /\ x.boot = run[h].boot
    BY <1>4, StartLine
  <2> QED BY <2>1, <2>2, AloneLine
<1>5. ASSUME NEW h \in Hosts, StartUnsealed(h) PROVE AloneOk'
  <2> SUFFICES ASSUME alone' PROVE AloneOk'
    BY DEF AloneOk
  <2>1. alone /\ AllDown
    BY <1>5 DEF StartUnsealed
  <2>2. \E x : WrittenBy(h, x) /\ x.boot = starts + 1
    BY <1>5, UnsealedLine
  <2> QED BY <2>1, <2>2, AloneLine
<1>6. ASSUME NEW h \in Hosts, Write(h) \/ Checkpoint(h) PROVE AloneOk'
  <2> SUFFICES ASSUME alone' PROVE AloneOk'
    BY DEF AloneOk
  <2>1. alone /\ run[h].at = "up"
    BY <1>6 DEF Write, Checkpoint, Due
  <2>2. \E x : WrittenBy(h, x) /\ x.boot = run[h].boot
    BY <1>6, WriteLine, CheckpointLine
  <2> QED BY <2>1, <2>2, AloneLine
<1>7. ASSUME NEW h \in Hosts, NEW q, run' = [run EXCEPT ![h] = q], log' = log, alone' = alone,
             \/ q = Down
             \/ run[h] # Down /\ run[h].at # "read" /\ q.prev = run[h].prev
      PROVE  AloneOk'
  <2>1. run'[h] = q /\ \A g \in Hosts : g # h => run'[g] = run[g]
    BY <1>7 DEF TypeOK
  <2>2. Len(log') = Len(log) /\ (Blocks(Written) => Blocks(Written)')
    BY <1>7, NoLine DEF Blocks
  <2>3. ASSUME alone, NEW g \in Hosts, run'[g] # Down
        PROVE  /\ \A e \in Hosts : e # g => run'[e] = Down
               /\ run'[g].at # "read" => run'[g].prev = Len(log)
    <3>1. run[g] # Down /\ \A e \in Hosts : e # g => run[e] = Down
      BY <1>7, <2>1, <2>3 DEF AloneOk
    <3>2. ASSUME NEW e \in Hosts, e # g PROVE run'[e] = Down
      BY <1>7, <2>1, <2>3, <3>1, <3>2
    <3>3. run[g].at # "read" => run[g].prev = Len(log)
      BY <2>3, <3>1 DEF AloneOk
    <3> QED BY <1>7, <2>1, <2>3, <3>2, <3>3
  <2> QED BY <1>7, <2>2, <2>3 DEF AloneOk
<1>8. ASSUME NEW h \in Hosts, Stop(h) \/ Kill(h) PROVE AloneOk'
  BY <1>7, <1>8 DEF Stop, Kill, Becomes
<1>9. ASSUME NEW h \in Hosts, RecordHost(h) PROVE AloneOk'
  <2>1. /\ run' = [run EXCEPT ![h] = [run[h] EXCEPT !.at = "recordVolume"]]
        /\ log' = log /\ alone' = alone /\ run[h].at = "record"
    BY <1>9 DEF RecordHost, Becomes
  <2>2. /\ run[h] # Down /\ run[h].at # "read"
        /\ [run[h] EXCEPT !.at = "recordVolume"].prev = run[h].prev
    BY <2>1, DownBoot, ProcFields DEF Procs
  <2> QED BY <1>7, <2>1, <2>2
<1>10. ASSUME NEW h \in Hosts, RecordVolume(h) PROVE AloneOk'
  <2>1. /\ run' = [run EXCEPT ![h] = [run[h] EXCEPT !.at = "up", !.written = None]]
        /\ log' = log /\ alone' = alone /\ run[h].at = "recordVolume"
    BY <1>10 DEF RecordVolume, Becomes
  <2>2. /\ run[h] # Down /\ run[h].at # "read"
        /\ [run[h] EXCEPT !.at = "up", !.written = None].prev = run[h].prev
    BY <2>1, DownBoot, ProcFields DEF Procs
  <2> QED BY <1>7, <2>1, <2>2
<1> QED BY <1>2, <1>3, <1>4, <1>5, <1>6, <1>8, <1>9, <1>10 DEF Next

-----------------------------------------------------------------------------
(* Each start outside behind links to the newest checkpoint.               *)
LEMMA BehindNoLine ==
    ASSUME BehindOk, log' = log, behind \subseteq behind', alone' => alone,
           \A h \in Hosts : run'[h].at = "read" =>
              \/ run'[h] = run[h]
              \/ Linked({h}, Hosts, Next1, run[h].boot, run[h].link, run[h].volumeLink)'
    PROVE  BehindOk'
<1>1. Written' = Written /\ Next1' = Next1
  BY NoLine
<1>2. ASSUME NEW l \in Written, l.event = "started"
      PROVE  Linked({l.host}, Hosts, l.id, l.boot, l.link, l.volumeLink)'
  BY <1>1, <1>2 DEF BehindOk, Linked
<1>3. ASSUME NEW h \in Hosts, run'[h].at = "read"
      PROVE  Linked({h}, Hosts, Next1, run[h].boot, run[h].link, run[h].volumeLink)'
  <2>1. CASE run'[h] = run[h]
    BY <1>1, <1>3, <2>1 DEF BehindOk, Linked
  <2> QED BY <1>3, <2>1
<1>4. \A l \in Written : l.event = "started" =>
         Linked({l.host}, Hosts, l.id, l.boot, l.link, l.volumeLink)'
  BY <1>2
<1> QED BY <1>1, <1>3, <1>4 DEF BehindOk

(* A line keeps the links of the starts before it.                         *)
LEMMA BehindLine ==
    ASSUME TypeOK, Base, AloneOk, BehindOk, NEW h \in Hosts, NEW x, WrittenBy(h, x),
           behind' = behind, alone' => alone,
           alone' => AllDown \/ run[h] # Down,
           x.event = "started" =>
              /\ run[h].at = "read" /\ x.boot = run[h].boot /\ x.link = run[h].link
              /\ x.volumeLink = run[h].volumeLink
    PROVE  BehindOk'
<1> DEFINE G == Written
           H == Written \cup {x}
<1>1. /\ Later(G, x) /\ x.id \in Nat /\ Next1 = x.id /\ Next1' = x.id + 1 /\ Written' = H
      /\ x.host = h /\ \A g \in Hosts : g # h => run'[g] = run[g]
      /\ run'[h].at # "read"
  BY DEF WrittenBy
<1>2. \A l \in G : l.id \in Nat /\ l.id <= x.id
  BY <1>1 DEF Later
<1>3. ASSUME NEW l \in H, l.event = "started", l.boot \notin behind
      PROVE  /\ NewestIn(H, {l.host}, l.id, l.link)
             /\ alone => NewestIn(H, Hosts, l.id, l.volumeLink)
  <2>1. CASE l \in G
    <3>1. /\ NewestIn(G, {l.host}, l.id, l.link)
          /\ alone => NewestIn(G, Hosts, l.id, l.volumeLink)
      BY <1>3, <2>1 DEF BehindOk, Linked
    <3>2. l.id \in Nat /\ l.id <= x.id
      BY <1>2, <2>1
    <3> HIDE DEF G
    <3> QED BY <1>1, <3>1, <3>2, NewestInPast DEF G
  <2>2. CASE l = x
    <3>1. /\ NewestIn(G, {h}, x.id, x.link)
          /\ alone => NewestIn(G, Hosts, x.id, x.volumeLink)
      BY <1>1, <1>3, <2>2 DEF BehindOk, Linked
    <3>2. x.id <= x.id
      BY <1>1
    <3> HIDE DEF G
    <3> QED BY <1>1, <2>2, <3>1, <3>2, NewestInPast DEF G
  <2> QED BY <2>1, <2>2
<1>4. ASSUME NEW g \in Hosts, run'[g].at = "read", run'[g].boot \notin behind
      PROVE  /\ NewestIn(H, {g}, x.id + 1, run'[g].link)
             /\ alone' => NewestIn(H, Hosts, x.id + 1, run'[g].volumeLink)
  <2>1. g # h /\ run'[g] = run[g]
    BY <1>1, <1>4
  <2>2. NewestIn(G, {g}, x.id, run[g].link)
    BY <1>1, <1>4, <2>1 DEF BehindOk, Linked
  <2>3. NewestIn(H, {g}, x.id + 1, run[g].link)
    BY <1>1, <2>1, <2>2, NewestIsKept
  <2>4. ~alone'
    <3> SUFFICES ASSUME alone' PROVE FALSE
      OBVIOUS
    <3>1. run[g] # Down
      BY <1>4, <2>1, DownBoot
    <3>2. run[h] # Down
      BY <3>1 DEF AllDown
    <3> QED BY <2>1, <3>1, <3>2 DEF AloneOk
  <2> QED BY <2>1, <2>3, <2>4
<1> HIDE DEF H, G
<1>5. \A l \in H : l.event = "started" =>
         Linked({l.host}, Hosts, l.id, l.boot, l.link, l.volumeLink)'
  <2> SUFFICES ASSUME NEW l \in H, l.event = "started"
               PROVE  Linked({l.host}, Hosts, l.id, l.boot, l.link, l.volumeLink)'
    OBVIOUS
  <2> QED BY <1>1, <1>3 DEF Linked
<1>6. \A g \in Hosts : run'[g].at = "read" =>
         Linked({g}, Hosts, Next1, run[g].boot, run[g].link, run[g].volumeLink)'
  BY <1>1, <1>4 DEF Linked
<1> QED BY <1>1, <1>5, <1>6 DEF BehindOk

(* Every step keeps what is known of the links.                            *)
LEMMA BehindStep ==
    ASSUME TypeOK, Base, AloneOk, BehindOk, [Next]_vars
    PROVE  BehindOk'
<1>1. CASE UNCHANGED vars \/ Quiet \/ BackUp \/ Restore
  <2>1. log' = log /\ run' = run /\ behind' = behind /\ alone' = alone
    BY <1>1 DEF Quiet, BackUp, Restore, vars
  <2> QED BY <2>1, BehindNoLine
<1>2. ASSUME NEW h \in Hosts, ReadLinks(h) PROVE BehindOk'
  <2> DEFINE q == [Down EXCEPT !.at = "read", !.boot = starts + 1,
                               !.link = linkFile[h], !.volumeLink = volumeFile]
  <2>1. /\ run' = [run EXCEPT ![h] = q] /\ log' = log /\ (alone' => alone)
        /\ behind' = IF linkFile[h] = Newest({h}) /\ volumeFile = Newest(Hosts)
                     THEN behind ELSE behind \cup {starts + 1}
    BY <1>2 DEF ReadLinks, Becomes
  <2>2. /\ run'[h] = q /\ q.boot = starts + 1 /\ q.link = linkFile[h]
        /\ q.volumeLink = volumeFile /\ \A g \in Hosts : g # h => run'[g] = run[g]
    BY <2>1 DEF TypeOK, Down
  <2> HIDE DEF q
  <2>3. starts + 1 \notin behind' =>
           /\ NewestIn(Written, {h}, Next1, linkFile[h])
           /\ NewestIn(Written, Hosts, Next1, volumeFile)
    BY <2>1, NewestName
  <2>4. Linked({h}, Hosts, Next1, run[h].boot, run[h].link, run[h].volumeLink)'
    <3>1. Written' = Written /\ Next1' = Next1
      BY <2>1, NoLine
    <3> QED BY <2>2, <2>3, <3>1 DEF Linked
  <2>5. behind \subseteq behind'
    BY <2>1
  <2> QED BY <2>1, <2>2, <2>4, <2>5, BehindNoLine
<1>3. ASSUME NEW h \in Hosts, Start(h) PROVE BehindOk'
  <2>1. /\ run[h].at = "read" /\ behind' = behind /\ alone' = alone /\ run[h] # Down
    BY <1>3, DownBoot DEF Start
  <2>2. \E x : /\ WrittenBy(h, x) /\ x.boot = run[h].boot
               /\ x.link = run[h].link /\ x.volumeLink = run[h].volumeLink
    BY <1>3, StartLine
  <2> QED BY <2>1, <2>2, BehindLine
<1>4. ASSUME NEW h \in Hosts, StartUnsealed(h) PROVE BehindOk'
  <2>1. behind' = behind /\ (alone' => alone /\ AllDown)
    BY <1>4 DEF StartUnsealed
  <2>2. \E x : WrittenBy(h, x) /\ x.event # "started"
    BY <1>4, UnsealedLine
  <2> QED BY <2>1, <2>2, BehindLine
<1>5. ASSUME NEW h \in Hosts, Write(h) \/ Checkpoint(h) PROVE BehindOk'
  <2>1. behind' = behind /\ alone' = alone /\ run[h] # Down
    BY <1>5, DownBoot DEF Write, Checkpoint, Due
  <2>2. \E x : WrittenBy(h, x) /\ x.event # "started"
    <3>1. \E x : WrittenBy(h, x) /\ (x.event = "line" \/ x.event = "checkpoint")
      BY <1>5, WriteLine, CheckpointLine
    <3> QED BY <3>1
  <2> QED BY <2>1, <2>2, BehindLine
<1>6. ASSUME NEW h \in Hosts, RecordHost(h) \/ RecordVolume(h) \/ Stop(h) \/ Kill(h)
      PROVE  BehindOk'
  <2>1. PICK q : run' = [run EXCEPT ![h] = q] /\ q.at # "read"
    <3>1. CASE RecordHost(h)
      <4>1. run' = [run EXCEPT ![h] = [run[h] EXCEPT !.at = "recordVolume"]]
        BY <3>1 DEF RecordHost, Becomes
      <4>2. [run[h] EXCEPT !.at = "recordVolume"].at # "read"
        BY ProcFields DEF Procs
      <4> QED BY <4>1, <4>2
    <3>2. CASE RecordVolume(h)
      <4>1. run' = [run EXCEPT ![h] = [run[h] EXCEPT !.at = "up", !.written = None]]
        BY <3>2 DEF RecordVolume, Becomes
      <4>2. [run[h] EXCEPT !.at = "up", !.written = None].at # "read"
        BY ProcFields DEF Procs
      <4> QED BY <4>1, <4>2
    <3>3. CASE Stop(h) \/ Kill(h)
      BY <3>3, DownBoot DEF Stop, Kill, Becomes
    <3> QED BY <1>6, <3>1, <3>2, <3>3
  <2>2. log' = log /\ behind' = behind /\ alone' = alone
    BY <1>6 DEF RecordHost, RecordVolume, Stop, Kill
  <2>3. \A g \in Hosts : run'[g].at = "read" => run'[g] = run[g]
    BY <2>1 DEF TypeOK
  <2> QED BY <2>2, <2>3, BehindNoLine
<1> QED BY <1>1, <1>2, <1>3, <1>4, <1>5, <1>6 DEF Next

-----------------------------------------------------------------------------
(* While every process is sealed, recorded and stopped, one at a time.     *)
StartedAndClosed(l) ==
    /\ \E s \in Written : s.boot = l.boot /\ s.event = "started"
    /\ \/ \E m \in Written : m.boot = l.boot /\ l.id <= m.id /\ m.event = "checkpoint"
       \/ \E h \in Hosts : run[h] # Down /\ run[h].boot = l.boot

(* The part of the invariant for orderly processes, by lines.              *)
LEMMA OrderlyIs ==
    OrderlyOk <=>
       (orderly /\ alone =>
          /\ behind = {}
          /\ \A l \in Written : StartedAndClosed(l)
          /\ \A h \in Hosts : run[h].at # "record" => NewestIn(Written, {h}, Next1, linkFile[h])
          /\ (\A h \in Hosts : ~Recording(h)) => NewestIn(Written, Hosts, Next1, volumeFile))
BY DEF OrderlyOk, StartedAndClosed

(* The host h writes x, in a start that has its first line.                *)
LEMMA OrderlyLine ==
    ASSUME TypeOK, Base, OrderlyOk, orderly, alone, NEW h \in Hosts, NEW x, WrittenBy(h, x),
           behind' = behind, x.boot = run[h].boot, run[h].at \in {"read", "up"},
           x.event = "started" \/ (run[h].at = "up" /\ x.event # "started")
    PROVE  OrderlyOk'
<1> DEFINE G == Written
           H == Written \cup {x}
<1>1. /\ Later(G, x) /\ x.id \in Nat /\ Next1 = x.id /\ Next1' = x.id + 1 /\ Written' = H
      /\ x.host = h /\ \A g \in Hosts : g # h => run'[g] = run[g]
      /\ run'[h] # Down /\ run'[h].boot = x.boot
      /\ \/ run'[h].at = "up" /\ x.event # "checkpoint"
         \/ run'[h].at = "record" /\ x.event = "checkpoint"
      /\ linkFile' = linkFile /\ volumeFile' = volumeFile
  BY DEF WrittenBy
<1>2. /\ behind = {} /\ \A l \in G : StartedAndClosed(l)
      /\ \A g \in Hosts : run[g].at # "record" => NewestIn(G, {g}, Next1, linkFile[g])
      /\ (\A g \in Hosts : ~Recording(g)) => NewestIn(G, Hosts, Next1, volumeFile)
  BY OrderlyIs
<1>3. \E s \in H : s.boot = x.boot /\ s.event = "started"
  <2>1. CASE x.event = "started"
    BY <2>1
  <2>2. CASE run[h].at = "up" /\ x.event # "started"
    <3>1. PICK l \in G : NewestOf(h, l)
      BY <2>2, RunningLine
    <3>2. l.boot = x.boot
      BY <3>1 DEF NewestOf
    <3> QED BY <1>2, <3>2 DEF StartedAndClosed
  <2> QED BY <2>1, <2>2
<1>4. ASSUME NEW l \in H PROVE StartedAndClosed(l)'
  <2>1. CASE l.boot = x.boot
    <3>1. \E g \in Hosts : run'[g] # Down /\ run'[g].boot = l.boot
      BY <1>1, <2>1
    <3>2. \E s \in H : s.boot = l.boot /\ s.event = "started"
      BY <1>3, <2>1
    <3> HIDE DEF H
    <3> QED BY <1>1, <3>1, <3>2 DEF StartedAndClosed
  <2>2. CASE l.boot # x.boot
    <3>1. l \in G /\ StartedAndClosed(l)
      BY <1>2, <2>2
    <3>2. \E s \in H : s.boot = l.boot /\ s.event = "started"
      BY <3>1 DEF StartedAndClosed
    <3>3. \/ \E m \in H : m.boot = l.boot /\ l.id <= m.id /\ m.event = "checkpoint"
          \/ \E g \in Hosts : run'[g] # Down /\ run'[g].boot = l.boot
      <4>1. CASE \E m \in G : m.boot = l.boot /\ l.id <= m.id /\ m.event = "checkpoint"
        BY <4>1
      <4>2. ASSUME NEW g \in Hosts, run[g] # Down, run[g].boot = l.boot
            PROVE  run'[g] # Down /\ run'[g].boot = l.boot
        BY <1>1, <2>2, <4>2
      <4> QED BY <3>1, <4>1, <4>2 DEF StartedAndClosed
    <3> HIDE DEF H
    <3> QED BY <1>1, <3>2, <3>3 DEF StartedAndClosed
  <2> QED BY <2>1, <2>2
<1>5. ASSUME NEW g \in Hosts, run'[g].at # "record"
      PROVE  NewestIn(H, {g}, x.id + 1, linkFile[g])
  <2>1. run[g].at # "record" /\ ~(x.event = "checkpoint" /\ x.host \in {g})
    BY <1>1, <1>5
  <2>2. NewestIn(G, {g}, x.id, linkFile[g])
    BY <1>1, <1>2, <2>1
  <2> HIDE DEF G
  <2> QED BY <1>1, <2>1, <2>2, NewestIsKept DEF G
<1>6. ASSUME \A g \in Hosts : ~Recording(g)'
      PROVE  NewestIn(H, Hosts, x.id + 1, volumeFile)
  <2>1. x.event # "checkpoint"
    BY <1>1, <1>6 DEF Recording
  <2>2. \A g \in Hosts : ~Recording(g)
    BY <1>1, <1>6 DEF Recording
  <2>3. NewestIn(G, Hosts, x.id, volumeFile)
    BY <1>1, <1>2, <2>2
  <2> HIDE DEF G
  <2> QED BY <1>1, <2>1, <2>3, NewestIsKept DEF G
<1> HIDE DEF H, G
<1>7. /\ \A l \in Written' : StartedAndClosed(l)'
      /\ \A g \in Hosts : run'[g].at # "record" => NewestIn(Written', {g}, Next1', linkFile'[g])
      /\ (\A g \in Hosts : ~Recording(g)') => NewestIn(Written', Hosts, Next1', volumeFile')
  BY <1>1, <1>4, <1>5, <1>6
<1>8. behind' = {}
  BY <1>2
<1>9. \A l \in Written' :
         /\ \E s \in Written' : s.boot = l.boot /\ s.event = "started"
         /\ \/ \E m \in Written' : /\ m.boot = l.boot /\ l.id <= m.id
                                   /\ m.event = "checkpoint"
            \/ \E g \in Hosts : run'[g] # Down /\ run'[g].boot = l.boot
  BY <1>7 DEF StartedAndClosed
<1> QED BY <1>7, <1>8, <1>9 DEF OrderlyOk

(* A step that writes nothing: no process ends without a checkpoint, and   *)
(* no file is left behind.                                                 *)
LEMMA OrderlyNoLine ==
    ASSUME OrderlyOk, log' = log,
           orderly' /\ alone' =>
              /\ orderly /\ alone /\ behind' = {}
              /\ \A h \in Hosts : run[h] # Down =>
                    \/ run'[h] # Down /\ run'[h].boot = run[h].boot
                    \/ \A l \in Written : l.boot = run[h].boot =>
                          \E m \in Written : m.boot = l.boot /\ l.id <= m.id
                                             /\ m.event = "checkpoint"
              /\ \A h \in Hosts : run'[h].at # "record" =>
                    \/ run[h].at # "record" /\ linkFile'[h] = linkFile[h]
                    \/ NewestIn(Written, {h}, Next1, linkFile'[h])
              /\ (\A h \in Hosts : ~Recording(h)') =>
                    \/ (\A h \in Hosts : ~Recording(h)) /\ volumeFile' = volumeFile
                    \/ NewestIn(Written, Hosts, Next1, volumeFile')
    PROVE  OrderlyOk'
<1> SUFFICES ASSUME orderly', alone' PROVE OrderlyOk'
  BY DEF OrderlyOk
<1>0. Written' = Written /\ Next1' = Next1
  BY NoLine
<1>1. /\ orderly /\ alone /\ behind' = {}
      /\ \A h \in Hosts : run[h] # Down =>
            \/ run'[h] # Down /\ run'[h].boot = run[h].boot
            \/ \A l \in Written : l.boot = run[h].boot =>
                  \E m \in Written : m.boot = l.boot /\ l.id <= m.id
                                     /\ m.event = "checkpoint"
  OBVIOUS
<1>2. /\ \A l \in Written : StartedAndClosed(l)
      /\ \A h \in Hosts : run[h].at # "record" => NewestIn(Written, {h}, Next1, linkFile[h])
      /\ (\A h \in Hosts : ~Recording(h)) => NewestIn(Written, Hosts, Next1, volumeFile)
  BY <1>1, OrderlyIs
<1>3. ASSUME NEW l \in Written
      PROVE  /\ \E s \in Written : s.boot = l.boot /\ s.event = "started"
             /\ \/ \E m \in Written : m.boot = l.boot /\ l.id <= m.id /\ m.event = "checkpoint"
                \/ \E h \in Hosts : run'[h] # Down /\ run'[h].boot = l.boot
  <2>1. StartedAndClosed(l)
    BY <1>2
  <2>2. CASE \E m \in Written : m.boot = l.boot /\ l.id <= m.id /\ m.event = "checkpoint"
    BY <2>1, <2>2 DEF StartedAndClosed
  <2>3. ASSUME NEW h \in Hosts, run[h] # Down, run[h].boot = l.boot
        PROVE  \/ \E m \in Written : m.boot = l.boot /\ l.id <= m.id /\ m.event = "checkpoint"
               \/ run'[h] # Down /\ run'[h].boot = l.boot
    BY <1>1, <2>3
  <2> QED BY <2>1, <2>2, <2>3 DEF StartedAndClosed
<1>4. ASSUME NEW h \in Hosts, run'[h].at # "record"
      PROVE  NewestIn(Written, {h}, Next1, linkFile'[h])
  <2>1. \/ run[h].at # "record" /\ linkFile'[h] = linkFile[h]
        \/ NewestIn(Written, {h}, Next1, linkFile'[h])
    BY <1>4
  <2> QED BY <1>2, <2>1
<1>5. ASSUME \A h \in Hosts : ~Recording(h)'
      PROVE  NewestIn(Written, Hosts, Next1, volumeFile')
  <2>1. \/ (\A h \in Hosts : ~Recording(h)) /\ volumeFile' = volumeFile
        \/ NewestIn(Written, Hosts, Next1, volumeFile')
    BY <1>5
  <2> QED BY <1>2, <2>1
<1> QED BY <1>0, <1>1, <1>3, <1>4, <1>5 DEF OrderlyOk

(* Every step keeps what is known of orderly processes.                    *)
LEMMA OrderlyStep ==
    ASSUME TypeOK, Base, AloneOk, OrderlyOk, [Next]_vars
    PROVE  OrderlyOk'
<1>0. orderly \in BOOLEAN /\ alone \in BOOLEAN
  BY AloneType
<1>1. CASE UNCHANGED vars \/ Quiet \/ BackUp
  <2>1. /\ log' = log /\ run' = run /\ linkFile' = linkFile /\ volumeFile' = volumeFile
        /\ orderly' = orderly /\ alone' = alone /\ behind' = behind
    BY <1>1 DEF Quiet, BackUp, vars, files
  <2>2. Written' = Written /\ Next1' = Next1
    BY <2>1, NoLine
  <2> QED BY <2>1, <2>2 DEF OrderlyOk, Recording
<1>2. CASE Restore
  BY <1>2 DEF Restore, OrderlyOk
<1>3. ASSUME NEW h \in Hosts, StartUnsealed(h) \/ Kill(h) PROVE OrderlyOk'
  BY <1>3 DEF StartUnsealed, Kill, OrderlyOk
<1>4. ASSUME NEW h \in Hosts, ReadLinks(h) PROVE OrderlyOk'
  <2> DEFINE q == [Down EXCEPT !.at = "read", !.boot = starts + 1,
                               !.link = linkFile[h], !.volumeLink = volumeFile]
  <2>1. /\ run' = [run EXCEPT ![h] = q] /\ log' = log /\ orderly' = orderly
        /\ alone' = (alone /\ AllDown) /\ linkFile' = linkFile /\ volumeFile' = volumeFile
        /\ behind' = IF linkFile[h] = Newest({h}) /\ volumeFile = Newest(Hosts)
                     THEN behind ELSE behind \cup {starts + 1}
    BY <1>4 DEF ReadLinks, Becomes, files
  <2>2. run'[h] = q /\ q.at = "read" /\ \A g \in Hosts : g # h => run'[g] = run[g]
    BY <2>1 DEF TypeOK, Down
  <2> HIDE DEF q
  <2> SUFFICES ASSUME orderly', alone' PROVE OrderlyOk'
    BY DEF OrderlyOk
  <2>3. orderly /\ alone /\ AllDown
    BY <2>1
  <2>4. \A g \in Hosts : run[g] = Down /\ run[g].at = "down"
    BY <2>3, DownBoot DEF AllDown
  <2>5. /\ behind = {}
        /\ \A g \in Hosts : NewestIn(Written, {g}, Next1, linkFile[g])
        /\ NewestIn(Written, Hosts, Next1, volumeFile)
    BY <2>3, <2>4 DEF OrderlyOk, Recording
  <2>6. linkFile[h] = Newest({h}) /\ volumeFile = Newest(Hosts)
    BY <2>5, NewestName
  <2>7. behind' = {}
    BY <2>1, <2>5, <2>6
  <2> QED BY <2>1, <2>3, <2>4, <2>5, <2>7, OrderlyNoLine
<1>5. ASSUME NEW h \in Hosts, Start(h) PROVE OrderlyOk'
  <2> SUFFICES ASSUME orderly', alone' PROVE OrderlyOk'
    BY DEF OrderlyOk
  <2>1. orderly /\ alone /\ behind' = behind /\ run[h].at = "read"
    BY <1>5 DEF Start
  <2>2. \E x : WrittenBy(h, x) /\ x.event = "started" /\ x.boot = run[h].boot
    BY <1>5, StartLine
  <2> QED BY <2>1, <2>2, OrderlyLine
<1>6. ASSUME NEW h \in Hosts, Write(h) \/ Checkpoint(h) PROVE OrderlyOk'
  <2> SUFFICES ASSUME orderly', alone' PROVE OrderlyOk'
    BY DEF OrderlyOk
  <2>1. orderly /\ alone /\ behind' = behind /\ run[h].at = "up"
    BY <1>6 DEF Write, Checkpoint, Due
  <2>2. \E x : WrittenBy(h, x) /\ x.event # "started" /\ x.boot = run[h].boot
    <3>1. \E x : /\ WrittenBy(h, x) /\ x.boot = run[h].boot
                 /\ (x.event = "line" \/ x.event = "checkpoint")
      BY <1>6, WriteLine, CheckpointLine
    <3> QED BY <3>1
  <2> QED BY <2>1, <2>2, OrderlyLine
<1>7. ASSUME NEW h \in Hosts, RecordHost(h) PROVE OrderlyOk'
  <2> DEFINE q == [run[h] EXCEPT !.at = "recordVolume"]
  <2>1. /\ run' = [run EXCEPT ![h] = q] /\ log' = log /\ volumeFile' = volumeFile
        /\ alone' = alone /\ behind' = behind /\ run[h].at = "record"
        /\ \/ orderly' = FALSE
           \/ orderly' = orderly /\ linkFile' = [linkFile EXCEPT ![h] = run[h].written]
    BY <1>7 DEF RecordHost, Records, Becomes
  <2>2. q.at = "recordVolume" /\ q.boot = run[h].boot
    BY ProcFields DEF Procs
  <2> HIDE DEF q
  <2>3. run'[h] = q /\ q # Down /\ \A g \in Hosts : g # h => run'[g] = run[g]
    BY <2>1, <2>2, DownBoot DEF TypeOK
  <2> SUFFICES ASSUME orderly', alone' PROVE OrderlyOk'
    BY DEF OrderlyOk
  <2>4. /\ orderly /\ alone /\ behind' = {} /\ linkFile'[h] = run[h].written
        /\ \A g \in Hosts : g # h => linkFile'[g] = linkFile[g]
    BY <2>1 DEF OrderlyOk, TypeOK
  <2>5. NewestIn(Written, {h}, Next1, run[h].written)
    <3>1. PICK l \in MarksOf(Written, {h}, Next1) :
             /\ run[h].written = NameOf(l)
             /\ \A m \in MarksOf(Written, {h}, Next1) : m.id <= l.id
      BY <2>1, RecordingIs
    <3> QED BY <3>1 DEF NewestIn
  <2>6. ASSUME NEW g \in Hosts, run'[g].at # "record"
        PROVE  \/ run[g].at # "record" /\ linkFile'[g] = linkFile[g]
               \/ NewestIn(Written, {g}, Next1, linkFile'[g])
    <3>1. CASE g = h
      BY <2>4, <2>5, <3>1
    <3>2. CASE g # h
      BY <2>3, <2>4, <2>6, <3>2
    <3> QED BY <3>1, <3>2
  <2>7. Recording(h)'
    BY <2>2, <2>3 DEF Recording
  <2>8. ASSUME NEW g \in Hosts, run[g] # Down
        PROVE  run'[g] # Down /\ run'[g].boot = run[g].boot
    BY <2>2, <2>3, <2>8
  <2> QED BY <2>1, <2>4, <2>6, <2>7, <2>8, OrderlyNoLine
<1>8. ASSUME NEW h \in Hosts, RecordVolume(h) PROVE OrderlyOk'
  <2> DEFINE q == [run[h] EXCEPT !.at = "up", !.written = None]
  <2>1. /\ run' = [run EXCEPT ![h] = q] /\ log' = log /\ linkFile' = linkFile
        /\ alone' = alone /\ behind' = behind /\ run[h].at = "recordVolume"
        /\ \/ orderly' = FALSE
           \/ orderly' = orderly /\ volumeFile' = run[h].written
    BY <1>8 DEF RecordVolume, Records, Becomes
  <2>2. q.at = "up" /\ q.boot = run[h].boot
    BY ProcFields DEF Procs
  <2> HIDE DEF q
  <2>3. run'[h] = q /\ q # Down /\ \A g \in Hosts : g # h => run'[g] = run[g]
    BY <2>1, <2>2, DownBoot DEF TypeOK
  <2> SUFFICES ASSUME orderly', alone' PROVE OrderlyOk'
    BY DEF OrderlyOk
  <2>4. orderly /\ alone /\ behind' = {} /\ volumeFile' = run[h].written
    BY <2>1 DEF OrderlyOk
  <2>5. NewestIn(Written, Hosts, Next1, run[h].written)
    <3>1. PICK l \in MarksOf(Written, {h}, Next1) :
             run[h].written = NameOf(l) /\ NewestOf(h, l)
      BY <2>1, RecordingIs
    <3>2. run[h] # Down /\ run[h].prev = Len(log)
      BY <2>1, <2>4, DownBoot DEF AloneOk
    <3>3. l.id = Len(log)
      BY <3>1, <3>2 DEF NewestOf
    <3>4. \A m \in MarksOf(Written, Hosts, Next1) : m.id <= l.id
      BY <3>3, WrittenOrdered DEF MarksOf
    <3>5. l \in MarksOf(Written, Hosts, Next1)
      BY <3>1 DEF MarksOf
    <3> QED BY <3>1, <3>4, <3>5 DEF NewestIn
  <2>6. ASSUME NEW g \in Hosts, run'[g].at # "record" PROVE run[g].at # "record"
    BY <2>1, <2>3, <2>6
  <2>7. ASSUME NEW g \in Hosts, run[g] # Down
        PROVE  run'[g] # Down /\ run'[g].boot = run[g].boot
    BY <2>2, <2>3, <2>7
  <2> QED BY <2>1, <2>4, <2>5, <2>6, <2>7, OrderlyNoLine
<1>9. ASSUME NEW h \in Hosts, Stop(h) PROVE OrderlyOk'
  <2>1. /\ run' = [run EXCEPT ![h] = Down] /\ log' = log /\ linkFile' = linkFile
        /\ volumeFile' = volumeFile /\ alone' = alone /\ behind' = behind
        /\ orderly' = orderly /\ run[h].at = "up" /\ ~run[h].pending
    BY <1>9 DEF Stop, Becomes, files, Due
  <2>2. run'[h] = Down /\ \A g \in Hosts : g # h => run'[g] = run[g]
    BY <2>1 DEF TypeOK
  <2> SUFFICES ASSUME orderly', alone' PROVE OrderlyOk'
    BY DEF OrderlyOk
  <2>3. orderly /\ alone /\ behind = {} /\ \A l \in Written : StartedAndClosed(l)
    BY <2>1, OrderlyIs
  <2>4. PICK o \in Written : NewestOf(h, o)
    BY <2>1, RunningLine
  <2>5. /\ o.boot = run[h].boot
        /\ \A m \in Written : m.host = h => m.id <= o.id
        /\ run[h].sealing => (run[h].pending <=> o.event # "checkpoint")
    BY <2>4 DEF NewestOf
  <2>6. o.event = "checkpoint"
    <3>1. PICK s \in Written : s.boot = run[h].boot /\ s.event = "started"
      BY <2>3, <2>5 DEF StartedAndClosed
    <3>2. run[h].sealing \in BOOLEAN /\ run[h].pending \in BOOLEAN
      BY ProcFields
    <3>3. Running(h)
      BY <2>1, RunningLine
    <3>4. s.event # "line"
      BY <3>1
    <3>5. ~run[h].sealing => FALSE
      BY <3>1, <3>3, <3>4 DEF Running
    <3>6. run[h].sealing
      BY <3>2, <3>5, Zenon
    <3> QED BY <2>1, <2>5, <3>6
  <2>7. ASSUME NEW l \in Written, l.boot = run[h].boot PROVE l.id <= o.id
    <3>1. l.host = h
      BY <2>1, <2>7, RunningLine
    <3> QED BY <2>5, <3>1
  <2>8. ASSUME NEW g \in Hosts, run[g] # Down
        PROVE  \/ run'[g] # Down /\ run'[g].boot = run[g].boot
               \/ \A l \in Written : l.boot = run[g].boot =>
                     \E m \in Written : m.boot = l.boot /\ l.id <= m.id
                                        /\ m.event = "checkpoint"
    <3>1. CASE g = h
      BY <2>4, <2>5, <2>6, <2>7, <3>1
    <3>2. CASE g # h
      BY <2>2, <2>8, <3>2
    <3> QED BY <3>1, <3>2
  <2>9. \A g \in Hosts : run'[g].at # "record" => run[g].at # "record"
    BY <2>1, <2>2
  <2>10. (\A g \in Hosts : ~Recording(g)') => (\A g \in Hosts : ~Recording(g))
    BY <2>1, <2>2 DEF Recording
  <2> QED BY <2>1, <2>3, <2>8, <2>9, <2>10, OrderlyNoLine
<1> QED BY <1>1, <1>2, <1>3, <1>4, <1>5, <1>6, <1>7, <1>8, <1>9 DEF Next

-----------------------------------------------------------------------------
(* The inductive invariant, and the properties.                            *)
SealInv == TypeOK /\ Base /\ AloneOk /\ BehindOk /\ OrderlyOk

(* The invariant holds initially.                                          *)
LEMMA InitInv == Init => SealInv
<1> SUFFICES ASSUME Init PROVE SealInv
  OBVIOUS
<1>1. TypeOK /\ Base
  BY InitType, InitBase
<1>2. Written = {} /\ \A h \in Hosts : run[h] = Down
  BY DEF Init, Written
<1>3. AloneOk /\ BehindOk
  BY <1>2, DownBoot DEF AloneOk, BehindOk, Blocks
<1>4. OrderlyOk
  BY <1>2 DEF Init, OrderlyOk, NewestIn, MarksOf
<1> QED BY <1>1, <1>3, <1>4 DEF SealInv

(* Every step keeps it.                                                    *)
LEMMA InvStep == SealInv /\ [Next]_vars => SealInv'
<1> SUFFICES ASSUME SealInv, [Next]_vars PROVE SealInv'
  OBVIOUS
<1>1. TypeOK /\ Base /\ AloneOk /\ BehindOk /\ OrderlyOk
  BY DEF SealInv
<1>2. TypeOK'
  BY <1>1, TypeStep
<1>3. Base' /\ AloneOk' /\ BehindOk' /\ OrderlyOk'
  BY <1>1, <1>2, BaseStep, AloneStep, BehindStep, OrderlyStep
<1> QED BY <1>2, <1>3 DEF SealInv

(* The invariant of the log, its processes and its files (core.ts:278-416, *)
(* sealer.ts:181-197).                                                     *)
THEOREM SealIsInvariant == Spec => []SealInv
BY InitInv, InvStep, PTL DEF Spec

(* The log, the files and the locals of every process keep their shape.    *)
THEOREM SealTypes == Spec => []TypeOK
<1>1. SealInv => TypeOK
  BY DEF SealInv
<1> QED BY <1>1, SealIsInvariant, PTL

(* Every line of the log is good.                                          *)
LEMMA LogIsWritten == SealInv => LogIs(Written) /\ log \in Seq(Lines)
BY WrittenOrdered DEF SealInv, Base, LogOk, LogIs, TypeOK

(* The copies are the lines of some hosts from some number on.             *)
LEMMA FromIs ==
    ASSUME SealInv, NEW n \in DOMAIN log
    PROVE  n \in Nat /\ From(n) = Since(Written, n)
<1>1. /\ log \in Seq(Lines) /\ Len(log) \in Nat /\ DOMAIN log = 1 .. Len(log)
      /\ \A i \in 1 .. Len(log) : log[i] \in Lines /\ log[i].id = i
  BY DEF SealInv, TypeOK
<1>2. n \in Nat
  BY <1>1
<1>3. ASSUME NEW l \in From(n) PROVE l \in Since(Written, n)
  <2>1. PICK i \in n .. Len(log) : l = log[i]
    BY DEF From
  <2>2. i \in 1 .. Len(log) /\ n <= i
    BY <1>1, <2>1
  <2>3. l \in Written /\ n <= l.id /\ l.host \in Hosts
    BY <1>1, <2>1, <2>2, LineFields DEF Written
  <2> QED BY <2>3 DEF Since, CopyOf
<1>4. ASSUME NEW l \in Since(Written, n) PROVE l \in From(n)
  <2>1. l \in Written /\ n <= l.id
    BY DEF Since, CopyOf
  <2>2. PICK i \in 1 .. Len(log) : l = log[i]
    BY <1>1, <2>1 DEF Written
  <2>3. i \in n .. Len(log)
    BY <1>1, <2>1, <2>2
  <2> QED BY <2>2, <2>3 DEF From
<1> QED BY <1>2, <1>3, <1>4

(* Each copy that is looked at is one of some hosts from some line on.     *)
LEMMA CopyIs ==
    ASSUME SealInv, NEW c \in Copies
    PROVE  \E S, n : n \in Nat /\ c = CopyOf(Written, S, n)
<1>1. CASE c \in Suffixes
  BY <1>1, FromIs DEF Suffixes, Since
<1>2. ASSUME NEW d \in Suffixes, NEW h \in Hosts, c = OfHost(d, h)
      PROVE  \E S, n : n \in Nat /\ c = CopyOf(Written, S, n)
  <2>1. PICK n \in DOMAIN log : d = From(n)
    BY DEF Suffixes
  <2>2. n \in Nat /\ d = CopyOf(Written, Hosts, n)
    BY <2>1, FromIs DEF Since
  <2>3. c = CopyOf(Written, {h}, n)
    BY <1>2, <2>2 DEF OfHost, CopyOf
  <2> QED BY <2>2, <2>3
<1> QED BY <1>1, <1>2 DEF Copies

(* While no two processes ran at once.                                     *)
LEMMA LinksAre == SealInv /\ alone => LinkedIn(Written, behind) /\ Blocks(Written)
<1> SUFFICES ASSUME SealInv, alone PROVE LinkedIn(Written, behind) /\ Blocks(Written)
  OBVIOUS
<1>1. BehindOk /\ AloneOk
  BY DEF SealInv
<1>2. LinkedIn(Written, behind)
  BY <1>1 DEF BehindOk, Linked, LinkedIn
<1> QED BY <1>1, <1>2 DEF AloneOk

(* The invariant says that an untouched log is not broken.                 *)
LEMMA InvUntouched == SealInv => UntouchedNotBroken
<1> SUFFICES ASSUME SealInv PROVE UntouchedNotBroken
  OBVIOUS
<1>1. LogIs(Written)
  BY LogIsWritten
<1>2. Breaks(Written) = {}
  BY <1>1, LogHolds
<1>3. ASSUME alone, NEW c \in Suffixes, NEW f \in Breaks(c)
      PROVE  RemovedByRotation(c, f)
  <2>1. PICK n \in Nat : c = Since(Written, n)
    BY FromIs DEF Suffixes
  <2>2. LinkedIn(Written, behind) /\ Blocks(Written)
    BY <1>3, LinksAre
  <2> QED BY <1>1, <1>3, <2>1, <2>2, SuffixHolds DEF RemovedByRotation
<1> QED BY <1>2, <1>3 DEF UntouchedNotBroken

(* An untouched log is never reported broken, whatever was killed,         *)
(* unsealed, restored or written beside it; and while no two processes ran *)
(* at once no copy of it that rotation cut is, but as RemovedByRotation    *)
(* admits (verify.ts:11-20, logging-howto.md:757-774).                     *)
THEOREM UntouchedIsNotBroken == Spec => []UntouchedNotBroken
BY SealIsInvariant, InvUntouched, PTL

(* The invariant says that orderly logs are verified.                      *)
LEMMA InvOrderly == SealInv => OrderlyReadsVerified
<1> SUFFICES ASSUME SealInv, AtRest, orderly, alone, log # <<>>
             PROVE  /\ Status(Written) = "verified"
                    /\ \A c \in Suffixes : Status(c) \in {"verified", "nothing"}
  BY DEF OrderlyReadsVerified
<1>1. LogIs(Written) /\ LinkedIn(Written, behind) /\ Blocks(Written)
  BY LogIsWritten, LinksAre
<1>2. behind = {} /\ \A l \in Written : StartedAndClosed(l)
  BY OrderlyIs DEF SealInv
<1>3. AllSealed(Written)
  BY <1>2 DEF AllSealed, StartedAndClosed, AtRest, AllDown
<1>4. ASSUME NEW n \in Nat
      PROVE  /\ Breaks(Since(Written, n)) = {}
             /\ \A f \in Report(Since(Written, n)) : f[1] # "unverified"
  BY <1>1, <1>2, <1>3, SealedCopies
<1>5. Status(Written) = "verified"
  <2>1. Since(Written, 0) = Written
    BY <1>1, SinceStart
  <2>2. Breaks(Written) = {} /\ \A f \in Report(Written) : f[1] # "unverified"
    BY <1>4, <2>1
  <2>3. Written # {}
    <3>1. log \in Seq(Lines) /\ 1 \in DOMAIN log
      BY LogIsWritten
    <3> QED BY <3>1 DEF Written
  <2>4. VerifiedIn(Written) # {}
    BY <1>1, <1>3, <2>3, LogVerifies
  <2> QED BY <2>2, <2>4 DEF Status
<1>6. ASSUME NEW c \in Suffixes PROVE Status(c) \in {"verified", "nothing"}
  <2>1. PICK n \in Nat : c = Since(Written, n)
    BY FromIs DEF Suffixes
  <2> QED BY <1>4, <2>1 DEF Status
<1> QED BY <1>5, <1>6

(* The log of sealed processes that stopped one after another is verified, *)
(* and no copy of it that rotation cut is less than that while it holds a  *)
(* segment (logging-howto.md:745, 756).                                    *)
THEOREM OrderlyIsVerified == Spec => []OrderlyReadsVerified
BY SealIsInvariant, InvOrderly, PTL

(* The invariant says that a verified copy is accounted for.               *)
LEMMA InvVerified == SealInv => VerifiedMeansSealed
<1> SUFFICES ASSUME SealInv, NEW c \in Copies, Status(c) = "verified"
             PROVE  Accounted(c)
  BY DEF VerifiedMeansSealed
<1>1. LogIs(Written)
  BY LogIsWritten
<1>2. PICK S, n : n \in Nat /\ c = CopyOf(Written, S, n)
  BY CopyIs
<1>3. \A f \in Report(c) : f[1] # "unverified"
  BY DEF Status
<1> QED BY <1>1, <1>2, <1>3, VerifiedCopies

(* A verified copy has each of its lines under a checkpoint whose lines    *)
(* are all there, apart from the first lines of a cut start and the newest *)
(* lines, whatever happened to the processes and the files (logging-       *)
(* howto.md:756).                                                          *)
THEOREM VerifiedIsSealed == Spec => []VerifiedMeansSealed
BY SealIsInvariant, InvVerified, PTL
=============================================================================
