----------------------------- MODULE Admission ------------------------------
(***************************************************************************)
(* Who may start a model generation now: one generation in flight, a       *)
(* bounded waiting room, one request per member with the newest winning,   *)
(* an hourly quota per member, and an epoch that a member's opt-out moves  *)
(* (src/lib/server/ai/admission.ts).                                       *)
(*                                                                         *)
(* The module is synchronous, so each of its functions is one step; what   *)
(* interleaves is its callers.  Their protocol (read the epoch, await the  *)
(* member's AI switches, acquire, release in a finally; write the switches *)
(* and then call cancelUser) is the one its interface documents.           *)
(*                                                                         *)
(* A start is identified with the request that made it, and its time is    *)
(* kept as an age, so that time has no bound.  A request id stands for one *)
(* call and is handed out again when nothing remembers it any more.        *)
(***************************************************************************)
EXTENDS Integers, FiniteSets, Sequences, SequencesExt

CONSTANTS
    Users,          \* members
    Requests,       \* ids of calls of acquire (a bound on those remembered)
    Nobody,         \* no request, no user
    QueueDepth,     \* options.queueDepth
    HourlyQuota,    \* options.hourlyQuota
    Window,         \* WINDOW_MS, in clock ticks
    MaxEpoch        \* how often a member may opt out (a bound)

ASSUME NobodyAssumption == Nobody \notin Users \cup Requests \cup Int

ASSUME LimitAssumption ==
    /\ QueueDepth \in Nat
    /\ HourlyQuota \in Nat \ {0}
    /\ Window \in Nat \ {0}
    /\ MaxEpoch \in Nat

VARIABLES
    call,       \* the call behind each request id
    charge,     \* age of each start still in a member's list, or Nobody
    queue,      \* the waiting room
    running,    \* the request whose generation holds the slot, or Nobody
    epochs,     \* how often cancelUser ran, by member
    aiOn,       \* the member's AI switch in the database (the caller's)
    optingOut   \* members whose switch is off and cancelUser not yet called

vars == <<call, charge, queue, running, epochs, aiOn, optingOut>>

-----------------------------------------------------------------------------
Call == [pc: {"idle", "asking", "ready", "waiting", "running", "released"},
         user: Users \cup {Nobody}, epoch: 0 .. MaxEpoch,
         left: BOOLEAN, aborted: BOOLEAN]

NoCall == [pc |-> "idle", user |-> Nobody, epoch |-> 0,
           left |-> FALSE, aborted |-> FALSE]

(* recentStarts: starts inside the last hour.  Tick drops the older ones.  *)
RecentStarts(u) == {r \in Requests : call[r].user = u /\ charge[r] # Nobody}

(* The places of a member in the room, and the requests that hold them.    *)
Places(u)  == {i \in DOMAIN queue : call[queue[i]].user = u}
Waiting(u) == {queue[i] : i \in Places(u)}

RunningOf(u) == running # Nobody /\ call[running].user = u

(* cancelWaiting resolves one entry 'cancelled'; of's calls then end.      *)
Cancelled(c, of) == [r \in Requests |-> IF r \in of THEN NoCall ELSE c[r]]

(* running.controller.abort(), where the running generation is u's.        *)
AbortRunning(c, u) ==
    IF RunningOf(u) THEN [c EXCEPT ![running] = [c[running] EXCEPT
                                                   !.aborted = TRUE]]
    ELSE c

Without(u) == IF Places(u) = {} THEN queue
              ELSE RemoveAt(queue, CHOOSE i \in Places(u) : TRUE)

-----------------------------------------------------------------------------
Init ==
    /\ call = [r \in Requests |-> NoCall]
    /\ charge = [r \in Requests |-> Nobody]
    /\ queue = <<>>
    /\ running = Nobody
    /\ epochs = [u \in Users |-> 0]
    /\ aiOn = [u \in Users |-> TRUE]
    /\ optingOut = {}

-----------------------------------------------------------------------------
(* The caller: the epoch first, then the switches, then acquire.           *)

Ask(r, u) ==
    /\ call[r].pc = "idle"
    /\ charge[r] = Nobody
    /\ call' = [call EXCEPT ![r] = [NoCall EXCEPT !.pc = "asking", !.user = u,
                                                  !.epoch = epochs[u]]]
    /\ UNCHANGED <<charge, queue, running, epochs, aiOn, optingOut>>

ReadSwitches(r) ==
    /\ call[r].pc = "asking"
    /\ call' = [call EXCEPT ![r] = IF aiOn[@.user]
                                   THEN [@ EXCEPT !.pc = "ready"] ELSE NoCall]
    /\ UNCHANGED <<charge, queue, running, epochs, aiOn, optingOut>>

(* The member turns the AI off: the switch is written, then cancelUser.    *)
TurnOff(u) ==
    /\ aiOn[u]
    /\ u \notin optingOut
    /\ epochs[u] < MaxEpoch
    /\ aiOn' = [aiOn EXCEPT ![u] = FALSE]
    /\ optingOut' = optingOut \cup {u}
    /\ UNCHANGED <<call, charge, queue, running, epochs>>

TurnOn(u) ==
    /\ ~aiOn[u]
    /\ aiOn' = [aiOn EXCEPT ![u] = TRUE]
    /\ UNCHANGED <<call, charge, queue, running, epochs, optingOut>>

-----------------------------------------------------------------------------
(* acquire: one action per outcome, in the order of its early returns.     *)

NeverMoved(r) == FALSE                             \* mutant: no epoch compare
EpochMoved(r) == call[r].epoch # epochs[call[r].user]

Refused(r) == call[r].left \/ EpochMoved(r)

OverQuota(u)    == Cardinality(RecentStarts(u)) > HourlyQuota \* mutant
QuotaReached(u) == Cardinality(RecentStarts(u)) >= HourlyQuota

OneTooMany == Len(queue) > QueueDepth              \* mutant: off by one
RoomFull   == Len(queue) >= QueueDepth

(* 'cancelled' or 'quota_reached': nothing of the room changes, and the    *)
(* member's running generation is left alone.                              *)
AcquireRefused(r) ==
    /\ call[r].pc = "ready"
    /\ Refused(r) \/ QuotaReached(call[r].user)
    /\ call' = [call EXCEPT ![r] = NoCall]
    /\ UNCHANGED <<charge, queue, running, epochs, aiOn, optingOut>>

Admissible(r) ==
    /\ call[r].pc = "ready"
    /\ ~Refused(r)
    /\ ~QuotaReached(call[r].user)

AcquireBusy(r) ==
    LET u == call[r].user IN
    /\ Admissible(r)
    /\ running # Nobody
    /\ ~RunningOf(u)
    /\ Places(u) = {}
    /\ RoomFull
    /\ call' = [call EXCEPT ![r] = NoCall]
    /\ UNCHANGED <<charge, queue, running, epochs, aiOn, optingOut>>

AcquireStart(r) ==
    LET u == call[r].user IN
    /\ Admissible(r)
    /\ running = Nobody
    /\ queue' = Without(u)
    /\ call' = [Cancelled(call, Waiting(u)) EXCEPT
                  ![r] = [call[r] EXCEPT !.pc = "running"]]
    /\ running' = r
    /\ charge' = [charge EXCEPT ![r] = 0]
    /\ UNCHANGED <<epochs, aiOn, optingOut>>

(* The request waits: in the place of the member's waiting one, or at the  *)
(* back, even of a full room when the member's own generation is running.  *)
AtTheHead(r) == <<r>> \o queue                     \* mutant: runs next
AtTheBack(r) == Append(queue, r)

(* What acquire does to the member's older requests before r waits.        *)
OlderKept(u)       == call                         \* mutant: both stay
OlderSuperseded(u) == Cancelled(AbortRunning(call, u), Waiting(u))

AcquireWait(r) ==
    LET u == call[r].user IN
    /\ Admissible(r)
    /\ running # Nobody
    /\ RunningOf(u) \/ Places(u) # {} \/ ~RoomFull
    /\ queue' = IF Places(u) = {} THEN AtTheBack(r)
                ELSE [queue EXCEPT ![CHOOSE i \in Places(u) : TRUE] = r]
    /\ call' = [OlderSuperseded(u) EXCEPT
                  ![r] = [call[r] EXCEPT !.pc = "waiting"]]
    /\ UNCHANGED <<charge, running, epochs, aiOn, optingOut>>

-----------------------------------------------------------------------------
(* The ticket.                                                             *)

EveryTime(r)  == call[r].pc \in {"running", "released"} \* mutant: no flag
FirstTime(r)  == call[r].pc = "running"

(* release: the slot goes to the head of the room, whose start is charged  *)
(* now.  A second call of the same ticket does nothing.                    *)
Release(r) ==
    /\ call[r].pc \in {"running", "released"}
    /\ IF ~FirstTime(r)
       THEN UNCHANGED <<call, charge, queue, running>>
       ELSE IF queue = <<>>
       THEN /\ running' = Nobody
            /\ call' = [call EXCEPT ![r] = [@ EXCEPT !.pc = "released"]]
            /\ UNCHANGED <<charge, queue>>
       ELSE /\ running' = Head(queue)
            /\ queue' = Tail(queue)
            /\ charge' = [charge EXCEPT ![Head(queue)] = 0]
            /\ call' = [call EXCEPT ![r] = [@ EXCEPT !.pc = "released"],
                                    ![Head(queue)] = [@ EXCEPT !.pc = "running"]]
    /\ UNCHANGED <<epochs, aiOn, optingOut>>

(* refund: this ticket's own start leaves the member's list.               *)
Refund(r) ==
    /\ call[r].pc \in {"running", "released"}
    /\ charge[r] # Nobody
    /\ charge' = [charge EXCEPT ![r] = Nobody]
    /\ UNCHANGED <<call, queue, running, epochs, aiOn, optingOut>>

(* The caller drops a ticket it released; only a start in the list, if     *)
(* there is one, still remembers the request and its member.               *)
Forget(r) ==
    /\ call[r].pc = "released"
    /\ charge[r] = Nobody
    /\ call' = [call EXCEPT ![r] = NoCall]
    /\ UNCHANGED <<charge, queue, running, epochs, aiOn, optingOut>>

-----------------------------------------------------------------------------
(* The outer signal aborts: a waiting request leaves the room, a running   *)
(* generation is aborted, an earlier call is refused when it acquires.     *)
Leave(r) ==
    /\ call[r].pc \in {"asking", "ready", "waiting", "running"}
    /\ ~call[r].left
    /\ IF call[r].pc = "waiting"
       THEN /\ queue' = RemoveAt(queue, CHOOSE i \in DOMAIN queue : queue[i] = r)
            /\ call' = [call EXCEPT ![r] = NoCall]
       ELSE /\ call' = [call EXCEPT ![r] =
                          [call[r] EXCEPT
                             !.left = TRUE,
                             !.aborted = @ \/ call[r].pc = "running"]]
            /\ UNCHANGED queue
    /\ UNCHANGED <<charge, running, epochs, aiOn, optingOut>>

CancelUser(u) ==
    /\ u \in optingOut
    /\ optingOut' = optingOut \ {u}
    /\ epochs' = [epochs EXCEPT ![u] = @ + 1]
    /\ call' = Cancelled(AbortRunning(call, u), Waiting(u))
    /\ queue' = Without(u)
    /\ UNCHANGED <<charge, running, aiOn>>

(* The clock moves; a start an hour old leaves every later reading.        *)
NeverDrops(age) ==                                 \* mutant: no filter
    IF age = Nobody THEN Nobody ELSE age + 1

Older(age) == IF age = Nobody \/ (age # Nobody /\ age + 1 >= Window)
              THEN Nobody ELSE age + 1

Tick ==
    /\ charge' = [r \in Requests |-> Older(charge[r])]
    /\ UNCHANGED <<call, queue, running, epochs, aiOn, optingOut>>

-----------------------------------------------------------------------------
RequestStep(r) ==
    \/ \E u \in Users : Ask(r, u)
    \/ ReadSwitches(r)
    \/ AcquireRefused(r)
    \/ AcquireBusy(r)
    \/ AcquireStart(r)
    \/ AcquireWait(r)
    \/ Release(r)
    \/ Refund(r)
    \/ Forget(r)
    \/ Leave(r)

Next ==
    \/ \E r \in Requests : RequestStep(r)
    \/ \E u \in Users : TurnOff(u) \/ TurnOn(u) \/ CancelUser(u)
    \/ Tick

Spec == Init /\ [][Next]_vars

-----------------------------------------------------------------------------
(* Properties.                                                             *)

(* Type invariant.                                                         *)
TypeOK ==
    /\ call \in [Requests -> Call]
    /\ charge \in [Requests -> 0 .. Window - 1 \cup {Nobody}]
    /\ queue \in Seq(Requests)
    /\ running \in Requests \cup {Nobody}
    /\ epochs \in [Users -> 0 .. MaxEpoch]
    /\ aiOn \in [Users -> BOOLEAN]
    /\ optingOut \in SUBSET Users

(* One generation in flight: a ticket that was not released is the one the *)
(* slot records, whoever releases which ticket how often (77-100).         *)
OneInFlight ==
    \A r \in Requests : call[r].pc = "running" <=> running = r

(* The room holds at most its depth, and one more only for a request that  *)
(* superseded the generation running now (148-156).                        *)
RoomBounded ==
    \/ Len(queue) <= QueueDepth
    \/ /\ Len(queue) = QueueDepth + 1
       /\ \E u \in Users : RunningOf(u) /\ Places(u) # {}

(* No member has more starts inside an hour than the quota, although it is *)
(* checked when a request arrives and charged when a generation starts.    *)
QuotaKept == \A u \in Users : Cardinality(RecentStarts(u)) <= HourlyQuota

(* The newest request of a member is its only live one: nothing else of    *)
(* that member waits beside it or generates unaborted (144-158).           *)
OneLivePerMember ==
    \A u \in Users :
       /\ \A i, j \in Places(u) : i = j
       /\ RunningOf(u) /\ Places(u) # {} => call[running].aborted

(* Once a member's opt-out is complete, nothing of that member waits or    *)
(* generates unaborted until the AI is on again, whatever was between its  *)
(* reading of the switches and its acquire (32-38, 132-138).               *)
OptOutHonoured ==
    \A r \in Requests :
       LET u == call[r].user IN
       u # Nobody /\ u \notin optingOut =>
          ~ /\ ~aiOn[u]
            /\ \/ call[r].pc = "waiting"
               \/ call[r].pc = "running" /\ ~call[r].aborted

(* A member who waits is served or told: nobody keeps a member waiting by  *)
(* asking again before each generation ends (144-151, the final pass F2).  *)
NobodyStarves == \A u \in Users : (Places(u) # {}) ~> (Places(u) = {})
-----------------------------------------------------------------------------
(* The inductive invariant: why the properties above hold.                 *)

(* The room holds the waiting calls, each once; a member waits with one    *)
(* call only; the slot is never left free while somebody waits.            *)
RoomConsistent ==
    /\ Range(queue) = {r \in Requests : call[r].pc = "waiting"}
    /\ IsInjective(queue)
    /\ \A r, s \in Range(queue) : call[r].user = call[s].user => r = s
    /\ queue # <<>> => running # Nobody

(* A call is somebody's, with an epoch of the past; only a generation that *)
(* started is charged.                                                     *)
CallsOwned ==
    \A r \in Requests :
       /\ call[r].pc # "idle" => /\ call[r].user \in Users
                                 /\ call[r].epoch <= epochs[call[r].user]
       /\ charge[r] # Nobody => call[r].pc \in {"running", "released"}

(* A member who waits is below the quota, so that the start waited for     *)
(* still fits: only the waiting request can start meanwhile.               *)
WaitingFits ==
    \A u \in Users :
       /\ IsFiniteSet(RecentStarts(u))
       /\ Places(u) # {} => Cardinality(RecentStarts(u)) < HourlyQuota

(* A cancelUser still to come has an epoch left to move to.                *)
EpochLeft == \A u \in optingOut : epochs[u] < MaxEpoch

(* A call past its switches with the present epoch is one of a member who  *)
(* has the AI on, or whose cancelUser is still to come.                    *)
OptOutAhead ==
    \A r \in Requests :
       LET u == call[r].user IN
       /\ \/ call[r].pc = "ready" /\ call[r].epoch = epochs[u]
          \/ call[r].pc = "waiting"
          \/ call[r].pc = "running" /\ ~call[r].aborted
       /\ u \notin optingOut
       => aiOn[u]

IInv ==
    /\ TypeOK
    /\ CallsOwned
    /\ EpochLeft
    /\ RoomConsistent
    /\ OneInFlight
    /\ RoomBounded
    /\ OneLivePerMember
    /\ WaitingFits
    /\ QuotaKept
    /\ OptOutAhead
=============================================================================
