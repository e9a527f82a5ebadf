------------------------------- MODULE SignIn ------------------------------
(***************************************************************************)
(* Signing in to one account, and the changes to how it signs in           *)
(* (src/lib/server/auth.ts, auth/mfaChallenge.ts, auth/totpAcceptance.ts,  *)
(* auth/recoveryCodes.ts, the actions of /login, /settings and /admin).    *)
(*                                                                         *)
(* Every request is made once.  A transaction runs statement by statement  *)
(* under read committed: an update sees what is committed when it starts,  *)
(* visits its rows one by one, waits for a row another transaction has     *)
(* locked and judges it again.  A session or challenge made by a request   *)
(* bears its name.  Passwords are numbers, never used twice.  A secret is  *)
(* the stored ciphertext, which is what the code compares: encryption      *)
(* draws a new vector, so that every enrolment stores another, even of a   *)
(* secret that was disabled before.  A wrong password ends a sign-in and   *)
(* is left out, as are deleting an account, the attempt budgets and what a *)
(* page shows.                                                             *)
(***************************************************************************)
EXTENDS Integers

CONSTANTS
    Requests,
    OldSessions,    \* sessions live at the start
    OldChallenges,  \* sign-ins waiting for their code at the start
    Nobody,         \* no session, challenge or lock holder
    NoCode,
    Steps,          \* the time steps of one-time codes (a bound)
    MaxAttempts     \* how often an aborted transaction runs

Sessions == OldSessions \cup Requests
Challenges == OldChallenges \cup Requests

ASSUME NameAssumption ==
    /\ Requests \cap (OldSessions \cup OldChallenges) = {}
    /\ Nobody \notin Sessions \cup Challenges
ASSUME StepAssumption == Steps \subseteq Nat \ {0}
ASSUME CodeAssumption == NoCode \notin Nat \X Nat
ASSUME AttemptAssumption == MaxAttempts \in Nat \ {0}

VARIABLES
    password, secret,           \* the account: 0 is no second factor
    lastStep,                   \* the last time step spent, 0 is none
    recovery,                   \* its recovery code is unused
    status,                     \* of each session
    token,                      \* rotations of each session's token
    challenge,                  \* of each sign-in waiting for its code
    userLock, sessionLock, challengeLock,
    kind, pc,                   \* of each request
    self, presented,            \* its session and the token of its cookie
    subject,                    \* the challenge or session it is about
    readPassword, readSecret,   \* the account as it read it
    want,                       \* rows its statement has still to visit
    attempts,
    \* History.
    secrets,                    \* how many secrets there have been
    author,                     \* the session of the last factor change
    provedPassword, provedSecret,   \* what each session's sign-in proved
    vouched,                    \* the password each challenge was opened with
    accepted,                   \* the code each request spent
    doomed                      \* challenges a revocation saw when it began

account == <<password, secret, secrets, lastStep, recovery, author>>
rows == <<status, token, challenge>>
locks == <<userLock, sessionLock, challengeLock>>
proofs == <<provedPassword, provedSecret, vouched>>
locals == <<kind, self, presented, subject, readPassword, readSecret>>
vars == <<account, rows, locks, proofs, locals, pc, want, attempts, accepted,
          doomed>>

-----------------------------------------------------------------------------
FactorChange == {"changePassword", "confirmTotpSetup", "disableTotp"}
Revoking == FactorChange \cup {"revokeOtherSessions", "resetPassword"}
Rotating == FactorChange \cup {"revokeOtherSessions", "revokeSession"}

Unrevoked(s) == status[s] \in {"live", "expired"}

(* signInFactorsStillCurrent: the predicate on the account's row.          *)
PasswordStillCurrent(r) == password = readPassword[r]    \* mutant: before #949
TotpStillCurrent(r) == (secret # 0) = (readSecret[r] # 0) \* mutant: before #923
FactorsStillCurrent(r) ==
    /\ password = readPassword[r]
    /\ (secret # 0) = (readSecret[r] # 0)

(* liveSession: the session, still live, with the token presented.         *)
AnyToken(r) == status[self[r]] = "live"                  \* mutant: by id
AnyStatus(r) == token[self[r]] = presented[r]            \* mutant: not live
StillPresented(r) ==
    /\ status[self[r]] = "live"
    /\ token[self[r]] = presented[r]

(* acceptTotpCode: the secret is the account's and the step is unspent.    *)
AnyStep(r, step) == secret # 0 /\ secret = readSecret[r] \* mutant: no step
Unspent(r, step) ==
    /\ secret # 0
    /\ secret = readSecret[r]
    /\ lastStep < step

(* The statements of each transaction, in order.                           *)
First(k) ==
    CASE k = "password" -> "prove"
      [] k = "code" -> "claim"
      [] k = "revokeOtherSessions" -> "challenges"
      [] k = "revokeSession" -> "one"
      [] OTHER -> "factors"

SessionsFirst(k, done) ==                         \* mutant: the other order
    CASE done = "factors" -> "others"
      [] done = "endingOthers" -> "challenges"
      [] done = "endingChallenges" /\ k # "resetPassword" -> "rotate"
      [] done = "one" -> "rotate"
      [] OTHER -> "commit"
After(k, done) ==
    CASE done = "factors" -> "challenges"
      [] done = "endingChallenges" -> "others"
      [] done = "endingOthers" /\ k # "resetPassword" -> "rotate"
      [] done = "one" -> "rotate"
      [] OTHER -> "commit"

-----------------------------------------------------------------------------
Init ==
    /\ password = 1
    /\ secret \in {0, 1}
    /\ secrets = 1
    /\ lastStep = 0
    /\ recovery = (secret = 1)
    /\ author = Nobody
    /\ status = [s \in Sessions |-> IF s \in OldSessions THEN "live" ELSE "unused"]
    /\ token = [s \in Sessions |-> 0]
    /\ challenge = [c \in Challenges |->
                      IF c \in OldChallenges /\ secret = 1 THEN "pending" ELSE "unused"]
    /\ userLock = Nobody
    /\ sessionLock = [s \in Sessions |-> Nobody]
    /\ challengeLock = [c \in Challenges |-> Nobody]
    /\ provedPassword = [s \in Sessions |-> 1]
    /\ provedSecret = [s \in Sessions |-> secret]
    /\ vouched = [c \in Challenges |-> 1]
    /\ kind = [r \in Requests |-> "none"]
    /\ pc = [r \in Requests |-> "idle"]
    /\ self = [r \in Requests |-> Nobody]
    /\ presented = [r \in Requests |-> 0]
    /\ subject = [r \in Requests |-> Nobody]
    /\ readPassword = [r \in Requests |-> 0]
    /\ readSecret = [r \in Requests |-> 0]
    /\ want = [r \in Requests |-> {}]
    /\ attempts = [r \in Requests |-> 1]
    /\ accepted = [r \in Requests |-> NoCode]
    /\ doomed = [r \in Requests |-> {}]

Goto(r, place) == pc' = [pc EXCEPT ![r] = place]

(* The browser presents the cookie of session s.                           *)
Presents(r, s) ==
    /\ self' = [self EXCEPT ![r] = s]
    /\ presented' = [presented EXCEPT ![r] = IF s = Nobody THEN 0 ELSE token[s]]

ReadsAccount(r) ==
    /\ readPassword' = [readPassword EXCEPT ![r] = password]
    /\ readSecret' = [readSecret EXCEPT ![r] = secret]

Begins(r, k) == kind' = [kind EXCEPT ![r] = k]

-----------------------------------------------------------------------------
(* The password step: reads the account and compares the password.         *)
PasswordStep(r, s) ==
    /\ pc[r] = "idle"
    /\ s # Nobody => status[s] = "live"
    /\ Begins(r, "password")
    /\ Presents(r, s)
    /\ ReadsAccount(r)
    /\ Goto(r, IF secret = 0 THEN "retire" ELSE "prove")
    /\ UNCHANGED <<account, rows, locks, proofs, subject, want, attempts,
                   accepted, doomed>>

(* The code step: reads the challenge, then the account.                   *)
CodeStep(r, c, s) ==
    /\ pc[r] = "idle"
    /\ s # Nobody => status[s] = "live"
    /\ challenge[c] = "pending"
    /\ Begins(r, "code")
    /\ Presents(r, s)
    /\ subject' = [subject EXCEPT ![r] = c]
    /\ Goto(r, "account")
    /\ UNCHANGED <<account, rows, locks, proofs, readPassword, readSecret, want,
                   attempts, accepted, doomed>>

ReadForCode(r) ==
    /\ pc[r] = "account"
    /\ ReadsAccount(r)
    /\ Goto(r, IF secret = 0 THEN "consume" ELSE "spend")
    /\ UNCHANGED <<account, rows, locks, proofs, kind, self, presented, subject,
                   want, attempts, accepted, doomed>>

(* Two-factor was turned off meanwhile: consumeMfaChallenge.               *)
Consume(r) ==
    /\ pc[r] = "consume"
    /\ IF challenge[subject[r]] = "pending"
       THEN /\ challengeLock[subject[r]] = Nobody
            /\ challenge' = [challenge EXCEPT ![subject[r]] = "gone"]
       ELSE UNCHANGED challenge
    /\ Goto(r, "refused")
    /\ UNCHANGED <<account, status, token, locks, proofs, locals, want, attempts,
                   accepted, doomed>>

(* A change made from a live session; a logout; an administrator's reset.  *)
Arrive(r, k, s) ==
    /\ pc[r] = "idle"
    /\ k \in Rotating \cup {"logout"}
    /\ status[s] = "live"
    /\ Begins(r, k)
    /\ Presents(r, s)
    /\ Goto(r, IF k = "logout" THEN "logout" ELSE "reauth")
    /\ UNCHANGED <<account, rows, locks, proofs, subject, readPassword,
                   readSecret, want, attempts, accepted, doomed>>

ArriveReset(r) ==
    /\ pc[r] = "idle"
    /\ Begins(r, "resetPassword")
    /\ Goto(r, "factors")
    /\ UNCHANGED <<account, rows, locks, proofs, self, presented, subject,
                   readPassword, readSecret, want, attempts, accepted, doomed>>

-----------------------------------------------------------------------------
(* Re-authentication, before the change.                                   *)

Refused(k) ==
    \/ k = "confirmTotpSetup" /\ secret # 0
    \/ k = "disableTotp" /\ secret = 0

AsksCode(k) ==
    \/ k = "disableTotp"
    \/ k = "changePassword" /\ secret # 0

Reauthenticate(r, x) ==
    /\ pc[r] = "reauth"
    /\ kind[r] = "revokeSession" => x # self[r] /\ status[x] # "unused"
    /\ ReadsAccount(r)
    /\ subject' = [subject EXCEPT ![r] = IF kind[r] = "revokeSession" THEN x ELSE Nobody]
    /\ Goto(r, IF Refused(kind[r]) THEN "refused"
               ELSE IF AsksCode(kind[r]) THEN "spend"
               ELSE First(kind[r]))
    /\ UNCHANGED <<account, rows, locks, proofs, kind, self, presented, want,
                   attempts, accepted, doomed>>

(* Where a request goes on once its code is judged; the code stays spent   *)
(* when the password beside it was wrong.                                  *)
Judged(r, right) ==
    IF kind[r] = "code" THEN "retire" ELSE IF right THEN First(kind[r]) ELSE "refused"

(* acceptTotpCode: one conditional update of the account's row.            *)
SpendStep(r, step, right) ==
    /\ pc[r] = "spend"
    /\ IF Unspent(r, step)
       THEN /\ userLock = Nobody
            /\ lastStep' = step
            /\ accepted' = [accepted EXCEPT ![r] = <<readSecret[r], step>>]
            /\ Goto(r, Judged(r, right))
       ELSE UNCHANGED <<lastStep, accepted>> /\ Goto(r, "refused")
    /\ UNCHANGED <<password, secret, secrets, recovery, author, rows, locks,
                   proofs, locals, want, attempts, doomed>>

(* consumeRecoveryCode, whose rows go with the secret they came with.      *)
SpendRecovery(r, right) ==
    /\ pc[r] = "spend"
    /\ kind[r] \in {"code", "disableTotp"}
    /\ IF recovery /\ secret = readSecret[r]
       THEN /\ userLock # Nobody => kind[userLock] \notin {"confirmTotpSetup", "disableTotp"}
            /\ recovery' = FALSE
            /\ accepted' = [accepted EXCEPT ![r] = <<readSecret[r], 0>>]
            /\ Goto(r, Judged(r, right))
       ELSE UNCHANGED <<recovery, accepted>> /\ Goto(r, "refused")
    /\ UNCHANGED <<password, secret, secrets, lastStep, author, rows, locks,
                   proofs, locals, want, attempts, doomed>>

-----------------------------------------------------------------------------
(* Statements that commit on their own.                                    *)

(* createSession first ends the session of the cookie, by its token.       *)
Retire(r) ==
    /\ pc[r] = "retire"
    /\ IF /\ self[r] # Nobody
          /\ Unrevoked(self[r])
          /\ token[self[r]] = presented[r]
       THEN /\ sessionLock[self[r]] = Nobody
            /\ status' = [status EXCEPT ![self[r]] = "ended"]
       ELSE UNCHANGED status
    /\ Goto(r, First(kind[r]))
    /\ UNCHANGED <<account, token, challenge, locks, proofs, locals, want,
                   attempts, accepted, doomed>>

(* /logout: revokeSession, by the row and not by the token.                *)
Logout(r) ==
    /\ pc[r] = "logout"
    /\ IF Unrevoked(self[r])
       THEN /\ sessionLock[self[r]] = Nobody
            /\ status' = [status EXCEPT ![self[r]] = "ended"]
       ELSE UNCHANGED status
    /\ Goto(r, "done")
    /\ UNCHANGED <<account, token, challenge, locks, proofs, locals, want,
                   attempts, accepted, doomed>>

(* Time passes; a locked row was judged by the statement that locked it.   *)
SessionExpires(s) ==
    /\ status[s] = "live"
    /\ sessionLock[s] = Nobody
    /\ status' = [status EXCEPT ![s] = "expired"]
    /\ UNCHANGED <<account, token, challenge, locks, proofs, locals, pc, want,
                   attempts, accepted, doomed>>

ChallengeExpires(c) ==
    /\ challenge[c] = "pending"
    /\ challengeLock[c] = Nobody
    /\ challenge' = [challenge EXCEPT ![c] = "gone"]
    /\ UNCHANGED <<account, status, token, locks, proofs, locals, pc, want,
                   attempts, accepted, doomed>>

-----------------------------------------------------------------------------
(* The statements of a transaction.                                        *)

Unlocked(lock, r) ==
    [x \in DOMAIN lock |-> IF lock[x] = r THEN Nobody ELSE lock[x]]

Releases(r) ==
    /\ userLock' = IF userLock = r THEN Nobody ELSE userLock
    /\ sessionLock' = Unlocked(sessionLock, r)
    /\ challengeLock' = Unlocked(challengeLock, r)
    /\ want' = [want EXCEPT ![r] = {}]

(* The callback throws: SignInSuperseded, or a session that has ended.     *)
RollsBack(r) == Releases(r) /\ Goto(r, "refused")

Prove(r) ==
    /\ pc[r] = "prove"
    /\ IF FactorsStillCurrent(r)
       THEN /\ userLock = Nobody
            /\ userLock' = r
            /\ Goto(r, "commit")
            /\ UNCHANGED <<sessionLock, challengeLock, want>>
       ELSE RollsBack(r)
    /\ UNCHANGED <<account, rows, proofs, locals, attempts, accepted, doomed>>

Claim(r) ==
    /\ pc[r] = "claim"
    /\ IF challenge[subject[r]] = "pending"
       THEN /\ challengeLock[subject[r]] = Nobody
            /\ challengeLock' = [challengeLock EXCEPT ![subject[r]] = r]
            /\ Goto(r, "commit")
            /\ UNCHANGED <<userLock, sessionLock, want>>
       ELSE RollsBack(r)
    /\ UNCHANGED <<account, rows, proofs, locals, attempts, accepted, doomed>>

Pending == {c \in Challenges : challenge[c] = "pending"}

(* What a revocation sees when its transaction begins.                     *)
Dooms(r) == [doomed EXCEPT ![r] = Pending]

LockAccount(r) ==
    /\ pc[r] = "factors"
    /\ userLock = Nobody
    /\ userLock' = r
    /\ doomed' = Dooms(r)
    /\ Goto(r, After(kind[r], "factors"))
    /\ UNCHANGED <<account, rows, sessionLock, challengeLock, proofs, locals,
                   want, attempts, accepted>>

(* endPendingSignIns: the rows are those committed when it starts.         *)
FindChallenges(r) ==
    /\ pc[r] = "challenges"
    /\ want' = [want EXCEPT ![r] = Pending]
    /\ doomed' = IF kind[r] = "revokeOtherSessions" THEN Dooms(r) ELSE doomed
    /\ Goto(r, "endingChallenges")
    /\ UNCHANGED <<account, rows, locks, proofs, locals, attempts, accepted>>

EndChallenge(r, c) ==
    /\ pc[r] = "endingChallenges"
    /\ c \in want[r]
    /\ challengeLock[c] = Nobody
    /\ challengeLock' = IF challenge[c] = "pending"
                        THEN [challengeLock EXCEPT ![c] = r] ELSE challengeLock
    /\ want' = [want EXCEPT ![r] = want[r] \ {c}]
    /\ UNCHANGED <<account, rows, userLock, sessionLock, proofs, locals, pc,
                   attempts, accepted, doomed>>

(* revokeSessionsOtherThan; a reset deletes every session of its target.   *)
FindSessions(r) ==
    /\ pc[r] = "others"
    /\ want' = [want EXCEPT ![r] = {s \in Sessions : Unrevoked(s) /\ s # self[r]}]
    /\ Goto(r, "endingOthers")
    /\ UNCHANGED <<account, rows, locks, proofs, locals, attempts, accepted,
                   doomed>>

EndSession(r, s) ==
    /\ pc[r] = "endingOthers"
    /\ s \in want[r]
    /\ sessionLock[s] = Nobody
    /\ sessionLock' = IF Unrevoked(s)
                      THEN [sessionLock EXCEPT ![s] = r] ELSE sessionLock
    /\ want' = [want EXCEPT ![r] = want[r] \ {s}]
    /\ UNCHANGED <<account, rows, userLock, challengeLock, proofs, locals, pc,
                   attempts, accepted, doomed>>

AllVisited(r) ==
    /\ pc[r] \in {"endingChallenges", "endingOthers"}
    /\ want[r] = {}
    /\ Goto(r, After(kind[r], pc[r]))
    /\ UNCHANGED <<account, rows, locks, proofs, locals, want, attempts,
                   accepted, doomed>>

(* Settings ends one other session.                                        *)
EndOne(r) ==
    /\ pc[r] = "one"
    /\ IF Unrevoked(subject[r])
       THEN /\ sessionLock[subject[r]] = Nobody
            /\ sessionLock' = [sessionLock EXCEPT ![subject[r]] = r]
       ELSE UNCHANGED sessionLock
    /\ Goto(r, After(kind[r], "one"))
    /\ UNCHANGED <<account, rows, userLock, challengeLock, proofs, locals, want,
                   attempts, accepted, doomed>>

(* The compare-and-set on the session that made the change.                *)
Rotate(r) ==
    /\ pc[r] = "rotate"
    /\ IF StillPresented(r)
       THEN /\ sessionLock[self[r]] = Nobody
            /\ sessionLock' = [sessionLock EXCEPT ![self[r]] = r]
            /\ Goto(r, "commit")
            /\ UNCHANGED <<userLock, challengeLock, want>>
       ELSE RollsBack(r)
    /\ UNCHANGED <<account, rows, proofs, locals, attempts, accepted, doomed>>

-----------------------------------------------------------------------------
(* What a transaction leaves when it commits.                              *)

Opens(r) ==
    /\ challenge' = [challenge EXCEPT ![r] = "pending"]
    /\ vouched' = [vouched EXCEPT ![r] = readPassword[r]]
    /\ UNCHANGED <<status, token, provedPassword, provedSecret>>

SignsIn(r) ==
    LET coded == kind[r] = "code" IN
    /\ status' = [status EXCEPT ![r] = "live"]
    /\ challenge' = IF coded THEN [challenge EXCEPT ![subject[r]] = "gone"] ELSE challenge
    /\ provedPassword' = [provedPassword EXCEPT ![r] =
                            IF coded THEN vouched[subject[r]] ELSE readPassword[r]]
    /\ provedSecret' = [provedSecret EXCEPT ![r] = IF coded THEN readSecret[r] ELSE 0]
    /\ UNCHANGED <<token, vouched>>

CommitSignIn(r) ==
    /\ pc[r] = "commit"
    /\ kind[r] \in {"password", "code"}
    /\ IF kind[r] = "password" /\ readSecret[r] # 0 THEN Opens(r) ELSE SignsIn(r)
    /\ Releases(r)
    /\ Goto(r, "done")
    /\ UNCHANGED <<account, locals, attempts, accepted, doomed>>

(* The account's row, as each change writes it.                            *)
NewPassword ==
    /\ password' = password + 1
    /\ UNCHANGED <<secret, secrets, lastStep, recovery>>

(* Whatever the form brings, its ciphertext is new.                        *)
Enrols(r, step) ==
    /\ secret' = secrets + 1
    /\ secrets' = secrets + 1
    /\ lastStep' = step
    /\ recovery' = TRUE
    /\ UNCHANGED password

Disables ==
    /\ secret' = 0
    /\ lastStep' = 0
    /\ recovery' = FALSE
    /\ UNCHANGED <<password, secrets>>

Writes(r, step) ==
    CASE kind[r] \in {"changePassword", "resetPassword"} -> NewPassword
      [] kind[r] = "confirmTotpSetup" -> Enrols(r, step)
      [] kind[r] = "disableTotp" -> Disables
      [] OTHER -> UNCHANGED <<password, secret, secrets, lastStep, recovery>>

CommitChange(r, step) ==
    /\ pc[r] = "commit"
    /\ kind[r] \in Rotating \cup {"resetPassword"}
    /\ Writes(r, step)
    /\ author' = IF kind[r] \in FactorChange \cup {"resetPassword"} THEN self[r] ELSE author
    /\ accepted' = IF kind[r] = "confirmTotpSetup"
                   THEN [accepted EXCEPT ![r] = <<secrets + 1, step>>] ELSE accepted
    /\ status' = [s \in Sessions |->
                    IF sessionLock[s] # r THEN status[s]
                    ELSE IF s = self[r] THEN "live" ELSE "ended"]
    /\ token' = [s \in Sessions |-> IF s = self[r] THEN token[s] + 1 ELSE token[s]]
    /\ challenge' = [c \in Challenges |->
                       IF challengeLock[c] = r THEN "gone" ELSE challenge[c]]
    /\ Releases(r)
    /\ Goto(r, "done")
    /\ UNCHANGED <<proofs, locals, attempts, doomed>>

(* An administrator's own session has ended.                               *)
AbandonReset(r) ==
    /\ pc[r] = "commit"
    /\ kind[r] = "resetPassword"
    /\ RollsBack(r)
    /\ UNCHANGED <<account, rows, proofs, locals, attempts, accepted, doomed>>

-----------------------------------------------------------------------------
(* The engine aborts a transaction that waits in a circle; it runs again.  *)

Holders(r) ==
    CASE pc[r] \in {"prove", "factors"} -> {userLock}
      [] pc[r] = "claim" -> {challengeLock[subject[r]]}
      [] pc[r] = "endingChallenges" -> {challengeLock[c] : c \in want[r]}
      [] pc[r] = "endingOthers" -> {sessionLock[s] : s \in want[r]}
      [] pc[r] = "one" -> {sessionLock[subject[r]]}
      [] pc[r] = "rotate" -> {sessionLock[self[r]]}
      [] OTHER -> {}

InCircle(r) ==
    \E S \in SUBSET Requests :
        /\ r \in S
        /\ \A q \in S : (Holders(q) \cap S) \ {q} # {}

Abort(r) ==
    /\ InCircle(r)
    /\ Releases(r)
    /\ IF attempts[r] < MaxAttempts
       THEN /\ Goto(r, First(kind[r]))
            /\ attempts' = [attempts EXCEPT ![r] = attempts[r] + 1]
       ELSE Goto(r, "refused") /\ UNCHANGED attempts
    /\ UNCHANGED <<account, rows, proofs, locals, accepted, doomed>>

Runs(r) ==
    \/ Prove(r) \/ Claim(r) \/ LockAccount(r)
    \/ FindChallenges(r) \/ \E c \in Challenges : EndChallenge(r, c)
    \/ FindSessions(r) \/ \E s \in Sessions : EndSession(r, s)
    \/ AllVisited(r) \/ EndOne(r) \/ Rotate(r)
    \/ CommitSignIn(r) \/ \E step \in Steps : CommitChange(r, step)
    \/ AbandonReset(r) \/ Abort(r)

Asks(r) ==
    \/ \E s \in Sessions \cup {Nobody} : PasswordStep(r, s)
    \/ \E c \in Challenges, s \in Sessions \cup {Nobody} : CodeStep(r, c, s)
    \/ ReadForCode(r) \/ Consume(r)
    \/ \E k \in Rotating \cup {"logout"}, s \in Sessions : Arrive(r, k, s)
    \/ ArriveReset(r)
    \/ \E x \in Sessions : Reauthenticate(r, x)
    \/ \E step \in Steps, right \in BOOLEAN : SpendStep(r, step, right)
    \/ \E right \in BOOLEAN : SpendRecovery(r, right)
    \/ Retire(r) \/ Logout(r)

TimePasses ==
    \/ \E s \in Sessions : SessionExpires(s)
    \/ \E c \in Challenges : ChallengeExpires(c)

(* Every request is answered.                                              *)
AllAnswered == (\A r \in Requests : pc[r] \in {"done", "refused"}) /\ UNCHANGED vars

Next ==
    \/ \E r \in Requests : Asks(r) \/ Runs(r)
    \/ TimePasses
    \/ AllAnswered

Spec == Init /\ [][Next]_vars

-----------------------------------------------------------------------------
TypeOK ==
    /\ password \in Nat /\ secret \in Nat /\ secrets \in Nat /\ lastStep \in Nat
    /\ recovery \in BOOLEAN
    /\ author \in Sessions \cup {Nobody}
    /\ status \in [Sessions -> {"unused", "live", "expired", "ended"}]
    /\ token \in [Sessions -> Nat]
    /\ challenge \in [Challenges -> {"unused", "pending", "gone"}]
    /\ userLock \in Requests \cup {Nobody}
    /\ sessionLock \in [Sessions -> Requests \cup {Nobody}]
    /\ challengeLock \in [Challenges -> Requests \cup {Nobody}]
    /\ kind \in [Requests -> {"none", "password", "code", "resetPassword", "logout"} \cup Rotating]
    /\ pc \in [Requests -> {"idle", "account", "consume", "reauth", "spend", "retire",
                            "logout", "prove", "claim", "factors", "challenges",
                            "endingChallenges", "others", "endingOthers", "one",
                            "rotate", "commit", "done", "refused"}]
    /\ self \in [Requests -> Sessions \cup {Nobody}]
    /\ presented \in [Requests -> Nat]
    /\ subject \in [Requests -> Sessions \cup Challenges \cup {Nobody}]
    /\ readPassword \in [Requests -> Nat]
    /\ readSecret \in [Requests -> Nat]
    /\ want \in [Requests -> SUBSET (Sessions \cup Challenges)]
    /\ attempts \in [Requests -> Nat]
    /\ provedPassword \in [Sessions -> Nat]
    /\ provedSecret \in [Sessions -> Nat]
    /\ vouched \in [Challenges -> Nat]
    /\ accepted \in [Requests -> (Nat \X Nat) \cup {NoCode}]
    /\ doomed \in [Requests -> SUBSET Challenges]

(* auth.ts:513-527, 700-709.  However a sign-in, a change to the password  *)
(* or to two-factor, and an administrator's reset interleave, every        *)
(* session that still works, or only expired, proved the account's present *)
(* password and second factor, or made the last change itself.             *)
NoSessionOutlivesChange ==
    \A s \in Sessions :
        Unrevoked(s) =>
            \/ s = author
            \/ /\ provedPassword[s] = password
               /\ secret # 0 => provedSecret[s] = secret

(* auth.ts:656-672, 684-696.  A sign-in waits for its code only while the  *)
(* password it proved is the account's and the account asks for a code.    *)
WaitsOnlyWhileAsked ==
    \A c \in Challenges :
        challenge[c] = "pending" => vouched[c] = password /\ secret # 0

(* totpAcceptance.ts:16-18, recoveryCodes.ts:14.  No two requests, an      *)
(* enrolment included, get anywhere with one code of one enrolment.        *)
CodeSpentOnce ==
    \A q, r \in Requests :
        q # r /\ accepted[q] # NoCode => accepted[q] # accepted[r]

(* auth.ts:185-186.  A session that ended or expired never works again: a  *)
(* rotation that slides the expiry cannot bring one back.                  *)
EndedStaysEnded ==
    [][\A s \in Sessions : status[s] \in {"expired", "ended"} => status'[s] # "live"]_vars

(* auth.ts:529-538.  A change that commits was authenticated against the   *)
(* password and the second factor the account still has at its commit.     *)
Commits(r) == pc[r] = "commit" /\ pc'[r] = "done"
ChangeProvenAtCommit ==
    [][\A r \in Requests :
         Commits(r) /\ kind[r] \in FactorChange =>
             readPassword[r] = password /\ readSecret[r] = secret]_vars

(* auth.ts:684-699.  Ending the other sessions also ends every sign-in     *)
(* that waited for its code when it began: the challenge, and the session  *)
(* of a code step that claimed the challenge first.                        *)
PendingSignInsEnd ==
    [][\A r \in Requests :
         Commits(r) /\ kind[r] \in Revoking =>
             \A c \in doomed[r] :
                 /\ challenge'[c] = "gone"
                 /\ \A q \in Requests :
                      kind[q] = "code" /\ subject[q] = c => status'[q] \in {"unused", "ended"}]_vars
=============================================================================
