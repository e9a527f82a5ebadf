----------------------------- MODULE SealVerifier ---------------------------
(***************************************************************************)
(* What the verifier answers about a copy of the sealed log                *)
(* (src/lib/server/logging/seal/verify.ts).                                *)
(*                                                                         *)
(* The text of a line is its number, which no other line has and which     *)
(* grows as the log does.  So a copy, whose lines keep their order, is the *)
(* set of its lines, and a root the set of the numbers it covers.  Every   *)
(* checkpoint opens with a key the verifier was given, and no line is      *)
(* malformed: what is left are the chain, the roots and the links.  The    *)
(* lines of other programs, the signed times and the counts of lines of    *)
(* the report are left out.                                                *)
(***************************************************************************)
EXTENDS Integers, FiniteSets

CONSTANT None       \* a link that names no checkpoint

Named(boot, segment, root) == [boot |-> boot, segment |-> segment, root |-> root]

-----------------------------------------------------------------------------
(* Lines in order, and the starts of a copy, by boot id.  L is the set of  *)
(* the lines of one of them.                                               *)

FirstOf(L) == CHOOSE l \in L : \A m \in L : l.id <= m.id
LastOf(L)  == CHOOSE l \in L : \A m \in L : m.id <= l.id

Boots(c) == {l.boot : l \in c}
LinesOf(c, b) == {l \in c : l.boot = b}
HeadOf(c, b) == FirstOf(LinesOf(c, b))
IsFirst(c, b) == HeadOf(c, b) = FirstOf(c)

(* seal_started is the first line of its start.                            *)
HasStarted(L) == FirstOf(L).event = "started"
Marks(L) == {l \in L : l.event = "checkpoint"}
IsSealed(L) == HasStarted(L) \/ Marks(L) # {}
NameOf(l) == Named(l.boot, l.segment, l.root)
Held(L) == {NameOf(m) : m \in Marks(L)}

(* The segment that the checkpoint m closes, as the copy holds it.         *)
Earlier(L, m) == {l \in L : l.id < m.id}
Opening(L, m) == IF Marks(Earlier(L, m)) # {} THEN LastOf(Marks(Earlier(L, m)))
                 ELSE FirstOf(L)
LeavesOf(L, m) == {l.id : l \in {x \in Earlier(L, m) : Opening(L, m).id <= x.id}}

(* A start without its first line begins inside a segment.                 *)
BeginsInside(L, m) == ~HasStarted(L) /\ Marks(Earlier(L, m)) = {}

Expected(L, m) ==
    Cardinality(Marks(Earlier(L, m)))
        + IF HasStarted(L) THEN 0 ELSE FirstOf(Marks(L)).segment

RootHolds(L, m) == m.root = LeavesOf(L, m)
Verified(L, m) ==
    ~BeginsInside(L, m) /\ m.segment = Expected(L, m) /\ RootHolds(L, m)

Follows(l, before) == l.seq = before.seq + 1 /\ l.prev = before.id

ChainHolds(L, first) ==
    \A l \in L :
        IF Earlier(L, l) # {} THEN Follows(l, LastOf(Earlier(L, l)))
        ELSE HasStarted(L) /\ ~first => l.seq = 1 /\ l.prev = 0

(* The lines after the newest checkpoint.                                  *)
TailOf(L) == {l \in L : \A m \in Marks(L) : m.id < l.id}

-----------------------------------------------------------------------------
(* The links.  A finding is the part of the report it goes to, its kind    *)
(* and the start it is about.                                              *)

Linking(c) == {b \in Boots(c) : HeadOf(c, b).event = "started"}
Begins(c, e, b) == HeadOf(c, e).id < HeadOf(c, b).id        \* e before b
Before(c, b) == {e \in Boots(c) : Begins(c, e, b)}
BeforeOfHost(c, b) ==
    {e \in Before(c, b) \cap Linking(c) : HeadOf(c, e).host = HeadOf(c, b).host}

HoldingACheckpoint(c, S) == {e \in S : Held(LinesOf(c, e)) # {}}

(* A start that died before its first checkpoint never moved the link.     *)
Previous(c, b) == HoldingACheckpoint(c, BeforeOfHost(c, b))
IsNewest(c, e, S) == \A f \in S : ~Begins(c, e, f)

(* checkHeld: the target holds the checkpoint, or begins after it.         *)
CheckHeld(c, b, link) ==
    LET target == LinesOf(c, link.boot)
        precedes == \A k \in Held(target) : link.segment < k.segment
        inside == ~HasStarted(target) /\ precedes
    IN  IF link \in Held(target) THEN {}
        ELSE IF ~inside THEN {<<"break", "missing-checkpoint", b>>}
        ELSE IF IsFirst(c, link.boot) THEN {<<"notice", "copy-begins-later", b>>}
        ELSE {<<"unverified", "link-outside-copy", b>>}

SameAsHostLink(c, b) ==
    LET link == HeadOf(c, b).link IN
    link # None /\ link = HeadOf(c, b).volumeLink /\ link.boot \in Boots(c)

VolumeLinkFindings(c, b) ==
    LET link == HeadOf(c, b).volumeLink IN
    IF IsFirst(c, b) \/ SameAsHostLink(c, b) THEN {}
    ELSE IF link = None
         THEN IF HoldingACheckpoint(c, Before(c, b)) = {} THEN {}
              ELSE {<<"unverified", "unlinked-start", b>>}
    ELSE IF link.boot \notin Boots(c)
         THEN IF BeforeOfHost(c, b) = {} THEN {<<"break", "missing-start", b>>}
              ELSE {<<"unverified", "link-outside-copy", b>>}
    ELSE IF Begins(c, b, link.boot) THEN {<<"break", "start-order", b>>}
    ELSE CheckHeld(c, b, link)

(* An earlier start, of any host, names the same checkpoint.               *)
Forked(c, b) ==
    \E e \in Before(c, b) \cap Linking(c) : HeadOf(c, e).link = HeadOf(c, b).link

HostLinkFindings(c, b) ==
    LET link == HeadOf(c, b).link
        before == Previous(c, b)
    IN  IF link = None
        THEN IF before = {} THEN {} ELSE {<<"unverified", "unlinked-start", b>>}
        ELSE IF link.boot \notin Boots(c)
        THEN IF before = {} THEN {<<"notice", "copy-begins-later", b>>}
             ELSE {<<"break", "missing-start", b>>}
        ELSE IF before # {} /\ ~(link.boot \in before /\ IsNewest(c, link.boot, before))
        THEN IF Forked(c, b) THEN {<<"unverified", "fork", b>>}
             ELSE {<<"break", "start-order", b>>}
        ELSE IF Begins(c, b, link.boot) THEN {<<"break", "start-order", b>>}
        ELSE CheckHeld(c, b, link)

-----------------------------------------------------------------------------
If(condition, finding) == IF condition THEN {finding} ELSE {}

StartFindings(c, b) ==
    LET L == LinesOf(c, b)
        marks == Marks(L)
    IN     If(~ChainHolds(L, IsFirst(c, b)), <<"break", "chain", b>>)
      \cup If(~IsSealed(L), <<"unverified", "unsealed-start", b>>)
      \cup If(\E m \in marks : m.segment # Expected(L, m), <<"break", "segment", b>>)
      \cup If(\E m \in marks : BeginsInside(L, m),
              IF IsFirst(c, b) THEN <<"notice", "copy-begins-mid-segment", b>>
                               ELSE <<"unverified", "begins-inside", b>>)
      \cup If(\E m \in marks : ~BeginsInside(L, m) /\ ~RootHolds(L, m),
              <<"break", "root", b>>)

VerifiedIn(c) ==
    UNION {{m \in Marks(LinesOf(c, b)) : Verified(LinesOf(c, b), m)} : b \in Boots(c)}

(* A tail is the newest lines only while nothing verified follows its      *)
(* first line, whichever host wrote that.                                  *)
EndedOnHost(c, L) ==                               \* mutant: by host tag
    \E l \in TailOf(L), m \in VerifiedIn(c) : l.id < m.id /\ l.host = m.host
Ended(c, L) == \E l \in TailOf(L), m \in VerifiedIn(c) : l.id < m.id

TailFindings(c, b) ==
    LET L == LinesOf(c, b) IN
    If(IsSealed(L) /\ Ended(c, L), <<"unverified", "ended-without-checkpoint", b>>)

Report(c) ==
    (UNION {StartFindings(c, b) \cup TailFindings(c, b) : b \in Boots(c)})
       \cup (UNION {VolumeLinkFindings(c, b) \cup HostLinkFindings(c, b) : b \in Linking(c)})

Breaks(c) == {f \in Report(c) : f[1] = "break"}

Status(c) ==
    IF Breaks(c) # {} THEN "broken"
    ELSE IF VerifiedIn(c) = {} THEN "nothing"
    ELSE IF \E f \in Report(c) : f[1] = "unverified" THEN "unverified"
    ELSE "verified"
=============================================================================
