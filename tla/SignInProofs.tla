---------------------------- MODULE SignInProofs ---------------------------
(* Theorems about SignIn, for every value of its constants.                *)
EXTENDS SignIn, TLAPS

-----------------------------------------------------------------------------
(* The inductive invariant.                                                *)

(* The changes that lock the account's row, and a request past that lock.  *)
Changing == FactorChange \cup {"resetPassword"}
InChange(r) == pc[r] \in {"challenges", "endingChallenges", "others", "endingOthers",
                          "rotate", "commit"}

(* Where a request can be, by its kind.                                    *)
Fits(r) ==
    /\ pc[r] = "idle" => kind[r] = "none" /\ self[r] = Nobody
    /\ pc[r] \in {"account", "consume", "claim"} => kind[r] = "code"
    /\ pc[r] = "reauth" => kind[r] \in Rotating
    /\ pc[r] = "spend" => kind[r] \in {"code"} \cup FactorChange
    /\ pc[r] = "retire" => kind[r] \in {"password", "code"}
    /\ pc[r] = "prove" => kind[r] = "password"
    /\ pc[r] = "factors" => kind[r] \in Changing
    /\ pc[r] \in {"challenges", "endingChallenges", "others", "endingOthers"} =>
         kind[r] \in Revoking
    /\ pc[r] = "one" => kind[r] = "revokeSession"
    /\ pc[r] = "rotate" => kind[r] \in Rotating
    /\ pc[r] = "commit" => kind[r] \in {"password", "code"} \cup Rotating \cup Changing

(* The session and the challenge of a request do not exist before it ends. *)
Fresh(r) == pc[r] # "done" => status[r] = "unused" /\ challenge[r] = "unused"

(* What it is about has existed since it began.                            *)
About(r) ==
    /\ kind[r] \in Rotating => self[r] \in Sessions
    /\ kind[r] = "resetPassword" => self[r] = Nobody
    /\ self[r] # Nobody => status[self[r]] # "unused" /\ presented[r] <= token[self[r]]
    /\ kind[r] = "code" => subject[r] \in Challenges /\ challenge[subject[r]] # "unused"
    /\ kind[r] = "revokeSession" /\ pc[r] \in {"one", "rotate", "commit"} =>
         subject[r] \in Sessions \ {self[r]}

(* What it has locked; a locked row is one it may still end.               *)
Locks(r) ==
    /\ userLock = r <=> \/ kind[r] = "password" /\ pc[r] = "commit"
                        \/ kind[r] \in Changing /\ InChange(r)
    /\ \A c \in Challenges : challengeLock[c] = r =>
         /\ challenge[c] = "pending"
         /\ \/ kind[r] = "code" /\ pc[r] = "commit"
            \/ kind[r] \in Revoking /\ InChange(r) /\ pc[r] # "challenges"
    /\ \A s \in Sessions : sessionLock[s] = r =>
         /\ Unrevoked(s)
         /\ pc[r] \in {"endingOthers", "rotate", "commit"}
         /\ s = self[r] => status[s] = "live" /\ pc[r] = "commit"
    /\ kind[r] = "code" /\ pc[r] = "commit" => challengeLock[subject[r]] = r
    /\ kind[r] \in Rotating /\ pc[r] = "commit" =>
         sessionLock[self[r]] = r /\ token[self[r]] = presented[r]

(* A code step that signed in used its challenge up.                       *)
Claimed(r) == kind[r] = "code" /\ status[r] # "unused" => challenge[subject[r]] = "gone"

(* What a request read of the account is still so, or it will be refused.  *)
Proven(r) ==
    /\ kind[r] = "password" /\ pc[r] = "commit" => FactorsStillCurrent(r)
    /\ kind[r] = "code" /\ pc[r] \in {"spend", "retire", "claim", "commit"}
         /\ challenge[subject[r]] = "pending" => readSecret[r] = secret
    /\ kind[r] \in FactorChange /\ (pc[r] \in {"spend", "factors"} \/ InChange(r))
         /\ StillPresented(r)
         => readPassword[r] = password /\ readSecret[r] = secret

(* The sign-ins a revocation saw at its start: it ends each challenge it   *)
(* still finds, and then each session that came of one.                    *)
Saw(r) == kind[r] \in Revoking /\ InChange(r) /\ (pc[r] = "challenges" => kind[r] \in Changing)

SweepsChallenges(r) ==
    /\ Saw(r) => \A c \in doomed[r] :
         /\ challenge[c] # "unused"
         /\ \A q \in Requests : kind[q] = "code" /\ subject[q] = c => q # self[r]
    /\ kind[r] \in Changing /\ InChange(r) => Pending \subseteq doomed[r]
    /\ Saw(r) /\ pc[r] # "challenges" => \A c \in doomed[r] :
         challenge[c] = "pending" =>
           challengeLock[c] = r \/ (pc[r] = "endingChallenges" /\ c \in want[r])

Target(r, s) ==
    /\ Unrevoked(s)
    /\ s # self[r]
    /\ kind[r] \in Changing \/ (s \in Requests /\ kind[s] = "code" /\ subject[s] \in doomed[r])

SweepsSessions(r) ==
    /\ pc[r] = "endingOthers" => self[r] \notin want[r]
    /\ kind[r] \in Revoking /\ pc[r] \in {"endingOthers", "rotate", "commit"} =>
         \A s \in Sessions :
           Target(r, s) => sessionLock[s] = r \/ (pc[r] = "endingOthers" /\ s \in want[r])

Own(r) ==
    /\ Fits(r) /\ Fresh(r) /\ About(r) /\ Locks(r)
    /\ Claimed(r) /\ Proven(r) /\ SweepsChallenges(r) /\ SweepsSessions(r)

(* Each code spent came with a secret the account has had, and is behind   *)
(* what the account would accept now.                                      *)
Behind(code, given, current, last, left) ==
    /\ code \in Nat \X Nat
    /\ code[1] \in 1 .. given
    /\ code[1] = current => code[2] <= last /\ (code[2] = 0 => ~left)

Codes ==
    /\ secret <= secrets
    /\ recovery => secret # 0
    /\ \A r \in Requests : accepted[r] # NoCode =>
         Behind(accepted[r], secrets, secret, lastStep, recovery)
    /\ CodeSpentOnce

IInv ==
    /\ TypeOK
    /\ \A r \in Requests : Own(r)
    /\ Codes
    /\ NoSessionOutlivesChange
    /\ WaitsOnlyWhileAsked

-----------------------------------------------------------------------------
(* The types.                                                              *)
Kinds == {"none", "password", "code", "resetPassword", "logout"} \cup Rotating
Places == {"idle", "account", "consume", "reauth", "spend", "retire",
           "logout", "prove", "claim", "factors", "challenges",
           "endingChallenges", "others", "endingOthers", "one",
           "rotate", "commit", "done", "refused"}

AccountTypes ==
    /\ password \in Nat /\ secret \in Nat /\ secrets \in Nat /\ lastStep \in Nat
    /\ recovery \in BOOLEAN
    /\ author \in Sessions \cup {Nobody}
RowTypes ==
    /\ status \in [Sessions -> {"unused", "live", "expired", "ended"}]
    /\ token \in [Sessions -> Nat]
    /\ challenge \in [Challenges -> {"unused", "pending", "gone"}]
LockTypes ==
    /\ userLock \in Requests \cup {Nobody}
    /\ sessionLock \in [Sessions -> Requests \cup {Nobody}]
    /\ challengeLock \in [Challenges -> Requests \cup {Nobody}]
PcTypes == pc \in [Requests -> Places]
LocalTypes ==
    /\ kind \in [Requests -> Kinds]
    /\ self \in [Requests -> Sessions \cup {Nobody}]
    /\ presented \in [Requests -> Nat]
    /\ subject \in [Requests -> Sessions \cup Challenges \cup {Nobody}]
    /\ readPassword \in [Requests -> Nat]
    /\ readSecret \in [Requests -> Nat]
RestTypes ==
    /\ want \in [Requests -> SUBSET (Sessions \cup Challenges)]
    /\ attempts \in [Requests -> Nat]
    /\ accepted \in [Requests -> (Nat \X Nat) \cup {NoCode}]
    /\ doomed \in [Requests -> SUBSET Challenges]
ProofTypes ==
    /\ provedPassword \in [Sessions -> Nat]
    /\ provedSecret \in [Sessions -> Nat]
    /\ vouched \in [Challenges -> Nat]

Types == AccountTypes /\ RowTypes /\ LockTypes /\ PcTypes /\ LocalTypes /\ RestTypes /\ ProofTypes

(* The type invariant, in groups that a step leaves together.              *)
LEMMA TypesAre == TypeOK <=> Types
BY DEF TypeOK, Types, AccountTypes, RowTypes, LockTypes, PcTypes, LocalTypes, RestTypes, ProofTypes,
       Kinds, Places

(* The same of the state after a step.                                     *)
LEMMA TypesAreNext == TypeOK' <=> Types'
BY DEF TypeOK, Types, AccountTypes, RowTypes, LockTypes, PcTypes, LocalTypes, RestTypes, ProofTypes,
       Kinds, Places

(* A request names its session and its challenge; nobody names neither.    *)
LEMMA RequestNames ==
    /\ Requests \subseteq Sessions /\ Requests \subseteq Challenges
    /\ Nobody \notin Requests /\ Nobody \notin Sessions /\ Nobody \notin Challenges
BY NameAssumption DEF Sessions, Challenges

(* The first state is well typed.                                          *)
LEMMA InitTypes == Init => Types
<1> SUFFICES ASSUME Init PROVE Types
  OBVIOUS
<1>1. AccountTypes
  <2>1. recovery \in BOOLEAN
    BY Zenon DEF Init
  <2> QED BY <2>1 DEF Init, AccountTypes
<1>2. RowTypes /\ ProofTypes
  BY DEF Init, RowTypes, ProofTypes
<1>3. LockTypes /\ PcTypes /\ LocalTypes /\ RestTypes
  BY DEF Init, LockTypes, PcTypes, LocalTypes, RestTypes, Kinds, Places
<1> QED BY <1>1, <1>2, <1>3 DEF Types

(* A request goes to one place and the others stay where they are.         *)
LEMMA PlaceTypes ==
    ASSUME PcTypes, NEW r \in Requests, NEW place \in Places, Goto(r, place)
    PROVE  PcTypes' /\ pc'[r] = place /\ \A q \in Requests \ {r} : pc'[q] = pc[q]
BY DEF PcTypes, Goto

(* Releasing locks keeps their types.                                      *)
LEMMA ReleasesTypes ==
    ASSUME LockTypes, RestTypes, NEW r \in Requests, Releases(r)
    PROVE  /\ LockTypes'
           /\ want' \in [Requests -> SUBSET (Sessions \cup Challenges)]
BY DEF LockTypes, RestTypes, Releases, Unlocked

(* Where a transaction starts is a place.                                  *)
LEMMA FirstPlaces == \A k : First(k) \in Places
BY DEF First, Places

(* Where a statement leads is a place.                                     *)
LEMMA AfterPlaces == \A k, done : After(k, done) \in Places
BY DEF After, Places

(* Types survive the steps a request takes outside a transaction.          *)
LEMMA AsksTypes ==
    ASSUME Types, NEW r \in Requests, Asks(r)
    PROVE  Types'
<1> USE DEF Types
<1>1. ASSUME NEW s \in Sessions \cup {Nobody}, PasswordStep(r, s) PROVE Types'
  <2>1. PcTypes'
    <3>1. PICK place \in {"retire", "prove"} : Goto(r, place)
      BY <1>1 DEF PasswordStep
    <3> QED BY <3>1, PlaceTypes DEF Places
  <2>2. LocalTypes'
    BY <1>1 DEF PasswordStep, Begins, Presents, ReadsAccount, LocalTypes, AccountTypes, RowTypes,
       Kinds
  <2> QED BY <1>1, <2>1, <2>2 DEF PasswordStep, account, rows, locks, proofs, AccountTypes,
     RowTypes,
                                  LockTypes, RestTypes, ProofTypes
<1>2. ASSUME NEW c \in Challenges, NEW s \in Sessions \cup {Nobody}, CodeStep(r, c, s) PROVE Types'
  <2>1. PcTypes'
    BY <1>2, PlaceTypes DEF CodeStep, Places
  <2>2. LocalTypes'
    BY <1>2 DEF CodeStep, Begins, Presents, LocalTypes, RowTypes, Kinds
  <2> QED BY <1>2, <2>1, <2>2 DEF CodeStep, account, rows, locks, proofs, AccountTypes, RowTypes,
                                  LockTypes, RestTypes, ProofTypes
<1>3. CASE ReadForCode(r)
  <2>1. PcTypes'
    <3>1. PICK place \in {"consume", "spend"} : Goto(r, place)
      BY <1>3 DEF ReadForCode
    <3> QED BY <3>1, PlaceTypes DEF Places
  <2>2. LocalTypes'
    BY <1>3 DEF ReadForCode, ReadsAccount, LocalTypes, AccountTypes
  <2> QED BY <1>3, <2>1, <2>2 DEF ReadForCode, account, rows, locks, proofs, AccountTypes, RowTypes,
                                  LockTypes, RestTypes, ProofTypes
<1>4. CASE Consume(r)
  <2>1. PcTypes'
    BY <1>4, PlaceTypes DEF Consume, Places
  <2>2. challenge' \in [Challenges -> {"unused", "pending", "gone"}]
    BY <1>4 DEF Consume, RowTypes
  <2> QED BY <1>4, <2>1, <2>2 DEF Consume, account, locals, locks, proofs, AccountTypes, RowTypes,
                                  LockTypes, RestTypes, ProofTypes, LocalTypes
<1>5. ASSUME NEW k \in Rotating \cup {"logout"}, NEW s \in Sessions, Arrive(r, k, s) PROVE Types'
  <2>1. PcTypes'
    <3>1. PICK place \in {"logout", "reauth"} : Goto(r, place)
      BY <1>5 DEF Arrive
    <3> QED BY <3>1, PlaceTypes DEF Places
  <2>2. LocalTypes'
    BY <1>5, RequestNames DEF Arrive, Begins, Presents, LocalTypes, RowTypes, Kinds
  <2> QED BY <1>5, <2>1, <2>2 DEF Arrive, account, rows, locks, proofs, AccountTypes, RowTypes,
                                  LockTypes, RestTypes, ProofTypes
<1>6. CASE ArriveReset(r)
  <2>1. PcTypes'
    BY <1>6, PlaceTypes DEF ArriveReset, Places
  <2>2. LocalTypes'
    BY <1>6 DEF ArriveReset, Begins, LocalTypes, Kinds
  <2> QED BY <1>6, <2>1, <2>2 DEF ArriveReset, account, rows, locks, proofs, AccountTypes, RowTypes,
                                  LockTypes, RestTypes, ProofTypes
<1>7. ASSUME NEW x \in Sessions, Reauthenticate(r, x) PROVE Types'
  <2>1. PcTypes'
    <3>1. PICK place \in Places : Goto(r, place)
      BY <1>7, FirstPlaces DEF Reauthenticate, Places
    <3> QED BY <3>1, PlaceTypes
  <2>2. LocalTypes'
    BY <1>7 DEF Reauthenticate, ReadsAccount, LocalTypes, AccountTypes
  <2> QED BY <1>7, <2>1, <2>2 DEF Reauthenticate, account, rows, locks, proofs, AccountTypes,
     RowTypes,
                                  LockTypes, RestTypes, ProofTypes
<1>8. ASSUME NEW right \in BOOLEAN PROVE Judged(r, right) \in Places
  BY FirstPlaces, Zenon DEF Judged, Places
<1>9. ASSUME NEW step \in Steps, NEW right \in BOOLEAN, SpendStep(r, step, right) PROVE Types'
  <2>1. PcTypes'
    <3>1. PICK place \in Places : Goto(r, place)
      BY <1>8, <1>9, Zenon DEF SpendStep, Places
    <3> QED BY <3>1, PlaceTypes
  <2>2. step \in Nat /\ readSecret[r] \in Nat
    BY StepAssumption DEF LocalTypes
  <2>3. lastStep' \in Nat /\ accepted' \in [Requests -> (Nat \X Nat) \cup {NoCode}]
    BY <1>9, <2>2 DEF SpendStep, AccountTypes, RestTypes
  <2> QED BY <1>9, <2>1, <2>3 DEF SpendStep, locals, rows, locks, proofs, AccountTypes, RowTypes,
                                  LockTypes, RestTypes, ProofTypes, LocalTypes
<1>10. ASSUME NEW right \in BOOLEAN, SpendRecovery(r, right) PROVE Types'
  <2>1. PcTypes'
    <3>1. PICK place \in Places : Goto(r, place)
      BY <1>8, <1>10, Zenon DEF SpendRecovery, Places
    <3> QED BY <3>1, PlaceTypes
  <2>2. readSecret[r] \in Nat
    BY DEF LocalTypes
  <2>3. recovery' \in BOOLEAN
    BY <1>10 DEF SpendRecovery, AccountTypes
  <2>4. accepted' \in [Requests -> (Nat \X Nat) \cup {NoCode}]
    <3>1. accepted' = [accepted EXCEPT ![r] = <<readSecret[r], 0>>] \/ accepted' = accepted
      BY <1>10, Zenon DEF SpendRecovery
    <3> QED BY <2>2, <3>1 DEF RestTypes
  <2> QED BY <1>10, <2>1, <2>3, <2>4 DEF SpendRecovery, locals, rows, locks, proofs, AccountTypes,
                                         RowTypes, LockTypes, RestTypes, ProofTypes, LocalTypes
<1>11. CASE Retire(r)
  <2>1. PcTypes'
    <3>1. Goto(r, First(kind[r])) /\ First(kind[r]) \in Places
      BY <1>11, FirstPlaces DEF Retire
    <3> QED BY <3>1, PlaceTypes
  <2>2. status' \in [Sessions -> {"unused", "live", "expired", "ended"}]
    BY <1>11 DEF Retire, RowTypes
  <2> QED BY <1>11, <2>1, <2>2 DEF Retire, account, locals, locks, proofs, AccountTypes, RowTypes,
                                   LockTypes, RestTypes, ProofTypes, LocalTypes
<1>12. CASE Logout(r)
  <2>1. PcTypes'
    BY <1>12, PlaceTypes DEF Logout, Places
  <2>2. status' \in [Sessions -> {"unused", "live", "expired", "ended"}]
    BY <1>12 DEF Logout, RowTypes
  <2> QED BY <1>12, <2>1, <2>2 DEF Logout, account, locals, locks, proofs, AccountTypes, RowTypes,
                                   LockTypes, RestTypes, ProofTypes, LocalTypes
<1> QED BY <1>1, <1>2, <1>3, <1>4, <1>5, <1>6, <1>7, <1>9, <1>10, <1>11, <1>12 DEF Asks

(* Types survive the statements of a transaction and its commit.           *)
LEMMA RunsTypes ==
    ASSUME Types, NEW r \in Requests, About(r), Runs(r)
    PROVE  Types'
<1> USE DEF Types
<1>1. CASE Prove(r)
  <2>1. PcTypes' /\ LockTypes' /\ want' \in [Requests -> SUBSET (Sessions \cup Challenges)]
    <3>1. CASE FactorsStillCurrent(r)
      BY <1>1, <3>1, PlaceTypes DEF Prove, Places, LockTypes, RestTypes
    <3>2. CASE ~FactorsStillCurrent(r)
      BY <1>1, <3>2, PlaceTypes, ReleasesTypes DEF Prove, RollsBack, Places
    <3> QED BY <3>1, <3>2
  <2> QED BY <1>1, <2>1 DEF Prove, account, rows, proofs, locals, AccountTypes, RowTypes,
                            RestTypes, ProofTypes, LocalTypes
<1>2. CASE Claim(r)
  <2>1. PcTypes' /\ LockTypes' /\ want' \in [Requests -> SUBSET (Sessions \cup Challenges)]
    <3>1. CASE challenge[subject[r]] = "pending"
      BY <1>2, <3>1, PlaceTypes DEF Claim, Places, LockTypes, RestTypes
    <3>2. CASE challenge[subject[r]] # "pending"
      BY <1>2, <3>2, PlaceTypes, ReleasesTypes DEF Claim, RollsBack, Places
    <3> QED BY <3>1, <3>2
  <2> QED BY <1>2, <2>1 DEF Claim, account, rows, proofs, locals, AccountTypes, RowTypes,
                            RestTypes, ProofTypes, LocalTypes
<1>3. Pending \subseteq Challenges /\ Dooms(r) \in [Requests -> SUBSET Challenges]
  BY DEF Pending, Dooms, RestTypes
<1>4. CASE LockAccount(r)
  <2>1. PcTypes'
    BY <1>4, PlaceTypes, AfterPlaces DEF LockAccount
  <2> QED BY <1>3, <1>4, <2>1 DEF LockAccount, account, rows, proofs, locals, AccountTypes,
     RowTypes,
                                  RestTypes, ProofTypes, LocalTypes, LockTypes
<1>5. CASE FindChallenges(r)
  <2>1. PcTypes'
    BY <1>5, PlaceTypes DEF FindChallenges, Places
  <2>2. doomed' \in [Requests -> SUBSET Challenges]
    BY <1>3, <1>5 DEF FindChallenges, RestTypes
  <2>3. want' \in [Requests -> SUBSET (Sessions \cup Challenges)]
    BY <1>3, <1>5 DEF FindChallenges, RestTypes
  <2> QED BY <1>5, <2>1, <2>2, <2>3 DEF FindChallenges, account, rows, locks, proofs, locals,
             AccountTypes, RowTypes, RestTypes, ProofTypes, LocalTypes, LockTypes
<1>6. ASSUME NEW c \in Challenges, EndChallenge(r, c) PROVE Types'
  <2>1. challengeLock' \in [Challenges -> Requests \cup {Nobody}]
    BY <1>6 DEF EndChallenge, LockTypes
  <2>2. want' \in [Requests -> SUBSET (Sessions \cup Challenges)]
    BY <1>6 DEF EndChallenge, RestTypes
  <2> QED BY <1>6, <2>1, <2>2 DEF EndChallenge, account, rows, proofs, locals,
             AccountTypes, RowTypes, RestTypes, ProofTypes, LocalTypes, LockTypes, PcTypes
<1>7. CASE FindSessions(r)
  <2>1. PcTypes'
    BY <1>7, PlaceTypes DEF FindSessions, Places
  <2>2. want' \in [Requests -> SUBSET (Sessions \cup Challenges)]
    BY <1>7 DEF FindSessions, RestTypes
  <2> QED BY <1>7, <2>1, <2>2 DEF FindSessions, account, rows, locks, proofs, locals,
             AccountTypes, RowTypes, RestTypes, ProofTypes, LocalTypes, LockTypes
<1>8. ASSUME NEW s \in Sessions, EndSession(r, s) PROVE Types'
  <2>1. sessionLock' \in [Sessions -> Requests \cup {Nobody}]
    BY <1>8 DEF EndSession, LockTypes
  <2>2. want' \in [Requests -> SUBSET (Sessions \cup Challenges)]
    BY <1>8 DEF EndSession, RestTypes
  <2> QED BY <1>8, <2>1, <2>2 DEF EndSession, account, rows, proofs, locals,
             AccountTypes, RowTypes, RestTypes, ProofTypes, LocalTypes, LockTypes, PcTypes
<1>9. CASE AllVisited(r)
  <2>1. PcTypes'
    BY <1>9, PlaceTypes, AfterPlaces DEF AllVisited
  <2> QED BY <1>9, <2>1 DEF AllVisited, account, rows, locks, proofs, locals,
             AccountTypes, RowTypes, RestTypes, ProofTypes, LocalTypes, LockTypes
<1>10. CASE EndOne(r)
  <2>1. PcTypes'
    BY <1>10, PlaceTypes, AfterPlaces DEF EndOne
  <2>2. sessionLock' \in [Sessions -> Requests \cup {Nobody}]
    BY <1>10 DEF EndOne, LockTypes
  <2> QED BY <1>10, <2>1, <2>2 DEF EndOne, account, rows, proofs, locals,
             AccountTypes, RowTypes, RestTypes, ProofTypes, LocalTypes, LockTypes
<1>11. CASE Rotate(r)
  <2>1. PcTypes' /\ LockTypes' /\ want' \in [Requests -> SUBSET (Sessions \cup Challenges)]
    <3>1. CASE StillPresented(r)
      BY <1>11, <3>1, PlaceTypes DEF Rotate, Places, LockTypes, RestTypes
    <3>2. CASE ~StillPresented(r)
      BY <1>11, <3>2, PlaceTypes, ReleasesTypes DEF Rotate, RollsBack, Places
    <3> QED BY <3>1, <3>2
  <2> QED BY <1>11, <2>1 DEF Rotate, account, rows, proofs, locals, AccountTypes, RowTypes,
                             RestTypes, ProofTypes, LocalTypes
<1>12. CASE CommitSignIn(r)
  <2>1. PcTypes' /\ LockTypes' /\ want' \in [Requests -> SUBSET (Sessions \cup Challenges)]
    BY <1>12, PlaceTypes, ReleasesTypes DEF CommitSignIn, Places
  <2>2. readPassword[r] \in Nat /\ readSecret[r] \in Nat /\ r \in Sessions /\ r \in Challenges
    BY RequestNames DEF LocalTypes
  <2>3. RowTypes' /\ ProofTypes'
    <3>1. CASE Opens(r)
      BY <2>2, <3>1 DEF Opens, RowTypes, ProofTypes
    <3>2. CASE SignsIn(r)
      <4>1. CASE kind[r] = "code"
        <5>1. vouched[subject[r]] \in Nat
          BY <4>1 DEF About, ProofTypes
        <5> QED BY <2>2, <3>2, <4>1, <5>1 DEF SignsIn, RowTypes, ProofTypes
      <4>2. CASE kind[r] # "code"
        BY <2>2, <3>2, <4>2 DEF SignsIn, RowTypes, ProofTypes
      <4> QED BY <4>1, <4>2
    <3> QED BY <1>12, <3>1, <3>2 DEF CommitSignIn
  <2> QED BY <1>12, <2>1, <2>3 DEF CommitSignIn, account, locals, AccountTypes,
                                   RestTypes, LocalTypes
<1>13. ASSUME NEW step \in Steps, CommitChange(r, step) PROVE Types'
  <2>1. PcTypes' /\ LockTypes' /\ want' \in [Requests -> SUBSET (Sessions \cup Challenges)]
    BY <1>13, PlaceTypes, ReleasesTypes DEF CommitChange, Places
  <2>2. step \in Nat
    BY StepAssumption
  <2>3. AccountTypes'
    <3>1. Writes(r, step) /\ author' \in Sessions \cup {Nobody}
      BY <1>13 DEF CommitChange, LocalTypes, AccountTypes
    <3>2. NewPassword \/ Enrols(r, step) \/ Disables
          \/ UNCHANGED <<password, secret, secrets, lastStep, recovery>>
      <4>1. CASE kind[r] \in {"changePassword", "resetPassword"}
        BY <3>1, <4>1 DEF Writes
      <4>2. CASE kind[r] \notin {"changePassword", "resetPassword"}
        <5>1. CASE kind[r] = "confirmTotpSetup"
          BY <3>1, <5>1 DEF Writes
        <5>2. CASE kind[r] = "disableTotp"
          BY <3>1, <5>2 DEF Writes
        <5>3. CASE kind[r] \notin {"confirmTotpSetup", "disableTotp"}
          BY <3>1, <4>2, <5>3 DEF Writes
        <5> QED BY <5>1, <5>2, <5>3
      <4> QED BY <4>1, <4>2
    <3>3. recovery' = TRUE \/ recovery' = FALSE \/ recovery' = recovery
      BY <3>2, Zenon DEF NewPassword, Enrols, Disables
    <3>4. recovery' \in BOOLEAN
      BY <3>3, Zenon DEF AccountTypes
    <3>5. password \in Nat /\ secret \in Nat /\ secrets \in Nat /\ lastStep \in Nat
      BY DEF AccountTypes
    <3>6. password' \in Nat /\ secret' \in Nat /\ secrets' \in Nat /\ lastStep' \in Nat
      <4>1. CASE NewPassword
        BY <3>5, <4>1 DEF NewPassword
      <4>2. CASE Enrols(r, step)
        BY <2>2, <3>5, <4>2 DEF Enrols
      <4>3. CASE Disables
        BY <3>5, <4>3 DEF Disables
      <4> QED BY <3>2, <3>5, <4>1, <4>2, <4>3
    <3> QED BY <3>1, <3>4, <3>6 DEF AccountTypes
  <2>4. accepted' \in [Requests -> (Nat \X Nat) \cup {NoCode}]
    BY <1>13, <2>2 DEF CommitChange, RestTypes, AccountTypes
  <2>5. RowTypes'
    BY <1>13 DEF CommitChange, RowTypes
  <2> QED BY <1>13, <2>1, <2>3, <2>4, <2>5 DEF CommitChange, proofs, locals, RestTypes, ProofTypes,
                                               LocalTypes
<1>14. CASE AbandonReset(r)
  <2>1. PcTypes' /\ LockTypes' /\ want' \in [Requests -> SUBSET (Sessions \cup Challenges)]
    BY <1>14, PlaceTypes, ReleasesTypes DEF AbandonReset, RollsBack, Places
  <2> QED BY <1>14, <2>1 DEF AbandonReset, account, rows, proofs, locals, AccountTypes, RowTypes,
                             RestTypes, ProofTypes, LocalTypes
<1>15. CASE Abort(r)
  <2>1. PcTypes'
    <3>1. PICK place \in Places : Goto(r, place)
      BY <1>15, FirstPlaces DEF Abort, Places
    <3> QED BY <3>1, PlaceTypes
  <2>2. LockTypes' /\ want' \in [Requests -> SUBSET (Sessions \cup Challenges)]
    BY <1>15, ReleasesTypes DEF Abort
  <2>3. attempts' \in [Requests -> Nat]
    BY <1>15 DEF Abort, RestTypes
  <2> QED BY <1>15, <2>1, <2>2, <2>3 DEF Abort, account, rows, proofs, locals, AccountTypes,
     RowTypes,
                             RestTypes, ProofTypes, LocalTypes
<1> QED BY <1>1, <1>2, <1>4, <1>5, <1>6, <1>7, <1>8, <1>9, <1>10, <1>11, <1>12, <1>13, <1>14, <1>15
        DEF Runs

(* Types survive every step.                                               *)
LEMMA NextTypes ==
    ASSUME Types, \A r \in Requests : About(r), [Next]_vars
    PROVE  Types'
<1>1. CASE UNCHANGED vars
  BY <1>1 DEF vars, account, rows, locks, proofs, locals, Types, AccountTypes, RowTypes, LockTypes,
     PcTypes, LocalTypes, RestTypes, ProofTypes
<1>2. CASE TimePasses
  <2>1. ASSUME NEW s \in Sessions, SessionExpires(s) PROVE Types'
    BY <2>1 DEF SessionExpires, account, locks, proofs, locals, Types, AccountTypes, RowTypes,
       LockTypes,
       PcTypes, LocalTypes, RestTypes, ProofTypes
  <2>2. ASSUME NEW c \in Challenges, ChallengeExpires(c) PROVE Types'
    BY <2>2 DEF ChallengeExpires, account, locks, proofs, locals, Types, AccountTypes, RowTypes,
       LockTypes,
       PcTypes, LocalTypes, RestTypes, ProofTypes
  <2> QED BY <1>2, <2>1, <2>2 DEF TimePasses
<1> QED BY <1>1, <1>2, AsksTypes, RunsTypes DEF Next, AllAnswered

-----------------------------------------------------------------------------
(* What a step of r leaves of the other requests, and how it moves the     *)
(* rows they share.  Time passing is a step of nobody.                     *)
Others(r) ==
    \A q \in Requests \ {r} :
        /\ kind'[q] = kind[q] /\ pc'[q] = pc[q] /\ self'[q] = self[q]
        /\ presented'[q] = presented[q] /\ subject'[q] = subject[q]
        /\ readPassword'[q] = readPassword[q] /\ readSecret'[q] = readSecret[q]
        /\ want'[q] = want[q] /\ doomed'[q] = doomed[q]
        /\ userLock' = q <=> userLock = q
        /\ \A s \in Sessions : sessionLock'[s] = q <=> sessionLock[s] = q
        /\ \A c \in Challenges : challengeLock'[c] = q <=> challengeLock[c] = q

SessionsMove(r) ==
    /\ \A s \in Sessions :
         \/ status'[s] = status[s]
         \/ Unrevoked(s) /\ sessionLock[s] \in {r, Nobody} /\ status'[s] \in {"expired", "ended"}
         \/ /\ r \in Requests /\ s = r /\ pc[r] = "commit" /\ kind[r] \in {"password", "code"}
            /\ status[s] = "unused" /\ status'[s] = "live"
    /\ \A s \in Sessions :
         \/ token'[s] = token[s]
         \/ r \in Requests /\ sessionLock[s] = r /\ token'[s] = token[s] + 1

ChallengesMove(r) ==
    \A c \in Challenges :
        \/ challenge'[c] = challenge[c]
        \/ challenge[c] = "pending" /\ challengeLock[c] \in {r, Nobody} /\ challenge'[c] = "gone"
        \/ /\ r \in Requests /\ c = r /\ userLock = r
           /\ challenge[c] = "unused" /\ challenge'[c] = "pending"

FactorsMove(r) ==
    \/ password' = password /\ secret' = secret
    \/ /\ r \in Requests /\ userLock = r /\ kind[r] \in Changing
       /\ \A c \in Challenges : challenge'[c] # "pending"
       /\ \A s \in Sessions : status'[s] = "live" => token'[s] = token[s] + 1

KindMove(r) ==
    r \in Requests /\ kind'[r] = "code" =>
        pc[r] = "idle" \/ (kind[r] = "code" /\ subject'[r] = subject[r])

Moves(r) == Others(r) /\ SessionsMove(r) /\ ChallengesMove(r) /\ FactorsMove(r) /\ KindMove(r)

(* What a request relies on survives every step of anyone else.            *)
LEMMA MovesOwn ==
    ASSUME Types, NEW r \in Requests \cup {Nobody}, Moves(r), \A p \in Requests : Own(p),
           NEW q \in Requests \ {r}
    PROVE  Own(q)'
<1> USE RequestNames
<1>0. /\ kind'[q] = kind[q] /\ pc'[q] = pc[q] /\ self'[q] = self[q]
      /\ presented'[q] = presented[q] /\ subject'[q] = subject[q]
      /\ readPassword'[q] = readPassword[q] /\ readSecret'[q] = readSecret[q]
      /\ want'[q] = want[q] /\ doomed'[q] = doomed[q]
      /\ userLock' = q <=> userLock = q
      /\ \A s \in Sessions : sessionLock'[s] = q <=> sessionLock[s] = q
      /\ \A c \in Challenges : challengeLock'[c] = q <=> challengeLock[c] = q
  BY DEF Moves, Others
<1>1. /\ q \in Sessions /\ q \in Challenges
      /\ self[q] \in Sessions \cup {Nobody} /\ doomed[q] \subseteq Challenges
      /\ presented[q] \in Nat /\ \A s \in Sessions : token[s] \in Nat
  BY DEF Types, LocalTypes, RestTypes, RowTypes
<1>2. Fits(q) /\ Fresh(q) /\ About(q) /\ Locks(q) /\ Claimed(q) /\ Proven(q)
      /\ SweepsChallenges(q) /\ SweepsSessions(q)
  BY DEF Own
<1>3. \A s \in Sessions : status[s] # "unused" => status'[s] # "unused"
  BY DEF Moves, SessionsMove
<1>4. \A c \in Challenges : challenge[c] # "unused" => challenge'[c] # "unused"
  BY DEF Moves, ChallengesMove
<1>5. \A s \in Sessions : sessionLock[s] = q => status'[s] = status[s] /\ token'[s] = token[s]
  BY <1>2 DEF Moves, SessionsMove, Locks, Unrevoked
<1>6. \A c \in Challenges : challengeLock[c] = q => challenge'[c] = challenge[c]
  BY <1>2 DEF Moves, ChallengesMove, Locks
<1>7. Fits(q)'
  BY <1>0, <1>2 DEF Fits
<1>8. Fresh(q)'
  BY <1>0, <1>1, <1>2 DEF Fresh, Moves, SessionsMove, ChallengesMove, Unrevoked
<1>9. About(q)'
  <2>1. self[q] # Nobody => status'[self[q]] # "unused" /\ presented[q] <= token'[self[q]]
    <3> SUFFICES ASSUME self[q] # Nobody
                 PROVE  status'[self[q]] # "unused" /\ presented[q] <= token'[self[q]]
      OBVIOUS
    <3>1. self[q] \in Sessions /\ status[self[q]] # "unused" /\ presented[q] <= token[self[q]]
      BY <1>1, <1>2 DEF About
    <3>2. token'[self[q]] = token[self[q]] \/ token'[self[q]] = token[self[q]] + 1
      BY <3>1 DEF Moves, SessionsMove
    <3> QED BY <1>1, <1>3, <3>1, <3>2
  <2> QED BY <1>0, <1>2, <1>4, <2>1 DEF About
<1>10. Locks(q)'
  <2>1. \A c \in Challenges : challengeLock'[c] = q => challenge'[c] = "pending"
    BY <1>0, <1>2, <1>6 DEF Locks
  <2>2. \A s \in Sessions : sessionLock'[s] = q =>
          Unrevoked(s)' /\ (s = self[q] => status'[s] = "live")
    BY <1>0, <1>2, <1>5 DEF Locks, Unrevoked
  <2>3. kind[q] \in Rotating /\ pc[q] = "commit" => token'[self[q]] = presented[q]
    BY <1>2, <1>5 DEF Locks, About
  <2>4. userLock' = q <=> \/ kind'[q] = "password" /\ pc'[q] = "commit"
                          \/ kind'[q] \in Changing /\ InChange(q)'
    BY <1>0, <1>2 DEF Locks, InChange
  <2>5. \A c \in Challenges : challengeLock'[c] = q =>
           \/ kind'[q] = "code" /\ pc'[q] = "commit"
           \/ kind'[q] \in Revoking /\ InChange(q)' /\ pc'[q] # "challenges"
    BY <1>0, <1>2 DEF Locks, InChange
  <2>6. \A s \in Sessions : sessionLock'[s] = q =>
           /\ pc'[q] \in {"endingOthers", "rotate", "commit"}
           /\ s = self'[q] => pc'[q] = "commit"
    BY <1>0, <1>2 DEF Locks
  <2>7. kind'[q] = "code" /\ pc'[q] = "commit" => challengeLock'[subject'[q]] = q
    BY <1>0, <1>2 DEF Locks, About
  <2>8. kind'[q] \in Rotating /\ pc'[q] = "commit" => sessionLock'[self'[q]] = q
    BY <1>0, <1>2 DEF Locks, About
  <2> QED BY <1>0, <2>1, <2>2, <2>3, <2>4, <2>5, <2>6, <2>7, <2>8 DEF Locks
<1>11. Claimed(q)'
  <2>1. status'[q] # "unused" => status[q] # "unused"
    BY <1>1 DEF Moves, SessionsMove, Unrevoked
  <2> QED BY <1>0, <1>2, <2>1 DEF Claimed, About, Moves, ChallengesMove
<1>12. Proven(q)'
  <2>1. kind[q] = "password" /\ pc[q] = "commit" => FactorsStillCurrent(q)'
    <3>1. kind[q] = "password" /\ pc[q] = "commit" => userLock = q /\ q # r
      BY <1>2 DEF Locks
    <3> QED BY <1>0, <1>2, <3>1 DEF Moves, FactorsMove, Proven, FactorsStillCurrent
  <2>2. ASSUME kind[q] = "code", pc[q] \in {"spend", "retire", "claim", "commit"},
               challenge'[subject[q]] = "pending"
        PROVE  readSecret[q] = secret'
    <3>1. challenge[subject[q]] = "pending" /\ subject[q] \in Challenges
      BY <1>2, <2>2 DEF About, Moves, ChallengesMove
    <3>2. readSecret[q] = secret
      BY <1>2, <2>2, <3>1 DEF Proven
    <3> QED BY <2>2, <3>1, <3>2 DEF Moves, FactorsMove
  <2>3. ASSUME kind[q] \in FactorChange, pc[q] \in {"spend", "factors"} \/ InChange(q),
               status'[self[q]] = "live", token'[self[q]] = presented[q]
        PROVE  readPassword[q] = password' /\ readSecret[q] = secret'
    <3>1. self[q] \in Sessions /\ status[self[q]] # "unused" /\ presented[q] <= token[self[q]]
      BY <1>1, <1>2, <2>3 DEF About, Rotating
    <3>2. token'[self[q]] = token[self[q]]
      <4>1. token'[self[q]] # token[self[q]] + 1
        BY <1>1, <2>3, <3>1
      <4> QED BY <3>1, <4>1 DEF Moves, SessionsMove
    <3>3. status[self[q]] = "live"
      BY <2>3, <3>1 DEF Moves, SessionsMove
    <3>4. readPassword[q] = password /\ readSecret[q] = secret
      BY <1>2, <2>3, <3>2, <3>3 DEF Proven, StillPresented
    <3>5. password' = password /\ secret' = secret
      <4>1. token'[self[q]] # token[self[q]] + 1
        BY <1>1, <3>1, <3>2
      <4> QED BY <2>3, <3>1, <4>1 DEF Moves, FactorsMove
    <3> QED BY <3>4, <3>5
  <2> QED BY <1>0, <2>1, <2>2, <2>3 DEF Proven, InChange, StillPresented
<1>13. SweepsChallenges(q)'
  <2>1. ASSUME Saw(q), NEW c \in doomed[q], NEW p \in Requests, kind'[p] = "code", subject'[p] = c
        PROVE  p # self[q]
    <3>1. CASE p = r /\ pc[r] = "idle"
      <4>1. status[p] = "unused"
        BY <3>1 DEF Own, Fresh
      <4>2. self[q] # Nobody => status[self[q]] # "unused"
        BY <1>2 DEF About
      <4> QED BY <4>1, <4>2
    <3>2. CASE ~(p = r /\ pc[r] = "idle")
      <4>1. kind[p] = "code" /\ subject[p] = c
        BY <2>1, <3>2 DEF Moves, Others, KindMove
      <4> QED BY <1>2, <2>1, <4>1 DEF SweepsChallenges
    <3> QED BY <3>1, <3>2
  <2>2. Saw(q) => \A c \in doomed[q] : challenge'[c] # "unused"
    BY <1>1, <1>2, <1>4 DEF SweepsChallenges
  <2>3. kind[q] \in Changing /\ InChange(q) => Pending' \subseteq doomed[q]
    <3> SUFFICES ASSUME kind[q] \in Changing, InChange(q),
                        NEW c \in Challenges, challenge'[c] = "pending"
                 PROVE  c \in doomed[q]
      BY DEF Pending
    <3>1. userLock = q
      BY <1>2 DEF Locks
    <3>2. challenge[c] = "pending"
      BY <3>1 DEF Moves, ChallengesMove
    <3> QED BY <1>2, <3>2 DEF SweepsChallenges, Pending
  <2>4. ASSUME Saw(q), pc[q] # "challenges", NEW c \in doomed[q], challenge'[c] = "pending"
        PROVE  challengeLock'[c] = q \/ (pc[q] = "endingChallenges" /\ c \in want[q])
    <3>1. challenge[c] = "pending" /\ c \in Challenges
      BY <1>1, <1>2, <2>4 DEF SweepsChallenges, Moves, ChallengesMove
    <3> QED BY <1>0, <1>2, <2>4, <3>1 DEF SweepsChallenges
  <2> QED BY <1>0, <2>1, <2>2, <2>3, <2>4 DEF SweepsChallenges, Saw, InChange
<1>14. SweepsSessions(q)'
  <2> SUFFICES ASSUME kind[q] \in Revoking, pc[q] \in {"endingOthers", "rotate", "commit"},
                      NEW s \in Sessions, Target(q, s)'
               PROVE  sessionLock[s] = q \/ (pc[q] = "endingOthers" /\ s \in want[q])
    BY <1>0, <1>2 DEF SweepsSessions
  <2>1. CASE Unrevoked(s)
    <3>1. s = r => pc[r] # "idle"
      BY <2>1 DEF Own, Fresh, Unrevoked
    <3>2. Target(q, s)
      BY <1>0, <2>1, <3>1 DEF Target, Moves, Others, KindMove
    <3> QED BY <1>2, <3>2 DEF SweepsSessions
  <2>2. CASE ~Unrevoked(s)
    <3>1. r \in Requests /\ s = r /\ pc[r] = "commit" /\ kind[r] \in {"password", "code"}
      BY <2>2 DEF Target, Unrevoked, Moves, SessionsMove
    <3>2. InChange(q) /\ Saw(q) /\ pc[q] # "challenges"
      BY DEF InChange, Saw
    <3>3. kind[r] = "code" /\ subject[r] \in doomed[q]
      <4>1. CASE kind[q] \in Changing
        <5>1. userLock = q
          BY <1>2, <3>2, <4>1 DEF Locks
        <5>2. kind[r] = "code"
          BY <3>1, <5>1 DEF Own, Locks
        <5>3. subject[r] \in Pending
          BY <3>1, <5>2 DEF Own, Locks, About, Pending
        <5> QED BY <1>2, <3>2, <4>1, <5>2, <5>3 DEF SweepsChallenges
      <4>2. CASE kind[q] \notin Changing
        BY <1>0, <3>1, <4>2 DEF Target, Moves, KindMove
      <4> QED BY <4>1, <4>2
    <3>4. challengeLock[subject[r]] = r /\ challenge[subject[r]] = "pending"
      BY <3>1, <3>3 DEF Own, Locks, About
    <3>5. challengeLock[subject[r]] = q
      BY <1>2, <3>2, <3>3, <3>4 DEF SweepsChallenges
    <3> QED BY <3>4, <3>5
  <2> QED BY <2>1, <2>2
<1> QED BY <1>7, <1>8, <1>9, <1>10, <1>11, <1>12, <1>13, <1>14 DEF Own

-----------------------------------------------------------------------------
(* What a step makes of the request that takes it.                         *)

(* A step that writes no row of sessions, challenges or factors.           *)
Quiet == UNCHANGED <<password, secret, author, rows, proofs>>

(* A step that writes no shared row moves none.                            *)
LEMMA QuietMoves ==
    ASSUME NEW r, Quiet, Others(r), KindMove(r)
    PROVE  Moves(r)
BY DEF Quiet, rows, Moves, SessionsMove, ChallengesMove, FactorsMove

(* The end of a transaction, committed or not.                             *)
LEMMA ReleasesOwn ==
    ASSUME Types, NEW r \in Requests, Releases(r), Own(r), UNCHANGED <<locals, doomed>>,
           NEW place \in Places, Goto(r, place)
    PROVE  /\ Others(r) /\ KindMove(r)
           /\ userLock' # r
           /\ \A s \in Sessions : sessionLock'[s] # r
           /\ \A c \in Challenges : challengeLock'[c] # r
           /\ pc'[r] = place /\ want'[r] = {}
<1> USE RequestNames
<1>1. pc'[r] = place /\ \A q \in Requests \ {r} : pc'[q] = pc[q]
  BY PlaceTypes DEF Types
<1>2. /\ userLock' # r
      /\ \A s \in Sessions : sessionLock'[s] # r
      /\ \A c \in Challenges : challengeLock'[c] # r
  BY DEF Releases, Unlocked, Types, LockTypes
<1>3. \A q \in Requests \ {r} :
        /\ userLock' = q <=> userLock = q
        /\ \A s \in Sessions : sessionLock'[s] = q <=> sessionLock[s] = q
        /\ \A c \in Challenges : challengeLock'[c] = q <=> challengeLock[c] = q
  BY DEF Releases, Unlocked, Types, LockTypes
<1>4. want'[r] = {} /\ \A q \in Requests \ {r} : want'[q] = want[q]
  BY DEF Releases, Types, RestTypes
<1>5. KindMove(r)
  BY DEF KindMove, locals
<1> QED BY <1>1, <1>2, <1>3, <1>4, <1>5 DEF Others, locals

(* Refused, or run again from its first statement.                         *)
LEMMA RestartsOwn ==
    ASSUME Types, NEW r \in Requests, Releases(r), Own(r), UNCHANGED <<locals>>, Quiet,
           UNCHANGED doomed,
           pc[r] \in {"prove", "claim", "factors", "rotate", "one", "commit"} \/ InChange(r),
           Goto(r, "refused") \/ (pc[r] # "commit" /\ Goto(r, First(kind[r])))
    PROVE  Own(r)' /\ Moves(r)
<1> USE RequestNames
<1>1. PICK place \in Places :
        /\ Goto(r, place)
        /\ place = "refused" \/ (pc[r] # "commit" /\ place = First(kind[r]))
  BY FirstPlaces DEF Places
<1>2. /\ Others(r) /\ KindMove(r)
      /\ userLock' # r
      /\ \A s \in Sessions : sessionLock'[s] # r
      /\ \A c \in Challenges : challengeLock'[c] # r
      /\ pc'[r] = place /\ want'[r] = {}
  BY <1>1, ReleasesOwn
<1>3. Moves(r)
  BY <1>2, QuietMoves
<1>4. /\ kind' = kind /\ self' = self /\ presented' = presented /\ subject' = subject
      /\ readPassword' = readPassword /\ readSecret' = readSecret /\ doomed' = doomed
      /\ status' = status /\ token' = token /\ challenge' = challenge
      /\ password' = password /\ secret' = secret
  BY DEF locals, Quiet, rows
<1>5. place \in {"refused", "prove", "claim", "challenges", "one", "factors"}
  BY <1>1 DEF First
<1>6. /\ place = "prove" => kind[r] = "password" /\ pc[r] # "commit"
      /\ place = "claim" => kind[r] = "code" /\ pc[r] = "claim"
      /\ place = "challenges" => kind[r] = "revokeOtherSessions"
      /\ place = "one" => kind[r] = "revokeSession" /\ pc[r] \in {"one", "rotate"}
      /\ place = "factors" => kind[r] \in Changing /\ (pc[r] = "factors" \/ InChange(r))
  BY <1>1 DEF First, Own, Fits, InChange, Changing, FactorChange, Revoking, Rotating
<1>7. Fits(r)' /\ Fresh(r)' /\ Claimed(r)'
  BY <1>2, <1>4, <1>5, <1>6 DEF Own, Fits, Fresh, Claimed, Revoking, InChange
<1>8. About(r)'
  BY <1>2, <1>4, <1>5, <1>6 DEF Own, About
<1>9. Locks(r)'
  BY <1>2, <1>4, <1>5, <1>6 DEF Own, Locks, InChange, Changing, FactorChange
<1>10. Proven(r)'
  BY <1>2, <1>4, <1>5, <1>6 DEF Own, Proven, InChange, StillPresented, Changing, FactorChange
<1>11. SweepsChallenges(r)' /\ SweepsSessions(r)'
  BY <1>2, <1>4, <1>5, <1>6 DEF Own, SweepsChallenges, SweepsSessions, InChange, Saw, Changing,
                                FactorChange
<1> QED BY <1>3, <1>7, <1>8, <1>9, <1>10, <1>11 DEF Own

(* Before a request's transaction it has no lock, and nothing to sweep.    *)
Early == {"account", "consume", "reauth", "spend", "retire", "logout", "prove", "claim",
          "factors", "one", "done", "refused"}

(* Without locks there is nothing to say of locks or sweeps.               *)
LEMMA EarlyOwn ==
    ASSUME NEW r \in Requests,
           pc'[r] \in Early \/ (pc'[r] = "challenges" /\ kind'[r] \notin Changing),
           userLock' # r,
           \A s \in Sessions : sessionLock'[s] # r,
           \A c \in Challenges : challengeLock'[c] # r
    PROVE  Locks(r)' /\ SweepsChallenges(r)' /\ SweepsSessions(r)'
BY DEF Locks, SweepsChallenges, SweepsSessions, InChange, Saw, Early

(* A request that has not begun its transaction holds no lock.             *)
LEMMA EarlyUnlocked ==
    ASSUME NEW r \in Requests, Locks(r), pc[r] \in Early \cup {"idle"}, UNCHANGED locks
    PROVE  /\ userLock' # r
           /\ \A s \in Sessions : sessionLock'[s] # r
           /\ \A c \in Challenges : challengeLock'[c] # r
BY DEF Locks, InChange, Early, locks

(* A step that changes its own variables alone leaves the others alone.    *)
LEMMA LocalOthers ==
    ASSUME NEW r \in Requests, UNCHANGED <<locks, want, doomed>>,
           \A q \in Requests \ {r} :
             /\ kind'[q] = kind[q] /\ pc'[q] = pc[q] /\ self'[q] = self[q]
             /\ presented'[q] = presented[q] /\ subject'[q] = subject[q]
             /\ readPassword'[q] = readPassword[q] /\ readSecret'[q] = readSecret[q]
    PROVE  Others(r)
BY DEF Others, locks

(* What a request relies on survives its own steps outside a transaction.  *)
LEMMA AsksOwn ==
    ASSUME Types, NEW r \in Requests, \A p \in Requests : Own(p), Asks(r), Types'
    PROVE  Own(r)' /\ Moves(r)
<1> USE RequestNames
<1>0. Fits(r) /\ Fresh(r) /\ About(r) /\ Locks(r) /\ Claimed(r) /\ Proven(r)
  BY DEF Own
<1>1. ASSUME NEW s \in Sessions \cup {Nobody}, PasswordStep(r, s) PROVE Own(r)' /\ Moves(r)
  <2>1. /\ pc[r] = "idle" /\ kind' = [kind EXCEPT ![r] = "password"]
        /\ self' = [self EXCEPT ![r] = s]
        /\ presented' = [presented EXCEPT ![r] = IF s = Nobody THEN 0 ELSE token[s]]
        /\ readPassword' = [readPassword EXCEPT ![r] = password]
        /\ readSecret' = [readSecret EXCEPT ![r] = secret]
        /\ pc' = [pc EXCEPT ![r] = IF secret = 0 THEN "retire" ELSE "prove"]
        /\ s # Nobody => status[s] = "live"
        /\ UNCHANGED <<account, rows, locks, proofs, subject, want, doomed>>
    BY <1>1 DEF PasswordStep, Begins, Presents, ReadsAccount, Goto
  <2>2. Others(r)
    BY <2>1, LocalOthers DEF Types, LocalTypes, PcTypes
  <2>3. Moves(r)
    BY <2>1, <2>2, QuietMoves DEF Quiet, account, KindMove, Types, LocalTypes
  <2>4. /\ kind'[r] = "password" /\ pc'[r] \in {"retire", "prove"} /\ self'[r] = s
        /\ s # Nobody => presented'[r] = token[s] /\ token[s] \in Nat /\ status[s] = "live"
        /\ status' = status /\ token' = token /\ challenge' = challenge
    BY <2>1 DEF Types, LocalTypes, PcTypes, RowTypes, rows
  <2>5. Locks(r)' /\ SweepsChallenges(r)' /\ SweepsSessions(r)'
    BY <1>0, <2>1, <2>4, EarlyOwn, EarlyUnlocked DEF Early
  <2>6. Fits(r)' /\ Fresh(r)' /\ About(r)' /\ Claimed(r)' /\ Proven(r)'
    BY <1>0, <2>1, <2>4 DEF Fits, Fresh, About, Claimed, Proven, Rotating, FactorChange
  <2> QED BY <2>3, <2>5, <2>6 DEF Own
<1>2. ASSUME NEW c \in Challenges, NEW s \in Sessions \cup {Nobody}, CodeStep(r, c, s)
      PROVE  Own(r)' /\ Moves(r)
  <2>1. /\ pc[r] = "idle" /\ kind' = [kind EXCEPT ![r] = "code"]
        /\ self' = [self EXCEPT ![r] = s]
        /\ presented' = [presented EXCEPT ![r] = IF s = Nobody THEN 0 ELSE token[s]]
        /\ subject' = [subject EXCEPT ![r] = c]
        /\ pc' = [pc EXCEPT ![r] = "account"]
        /\ s # Nobody => status[s] = "live"
        /\ challenge[c] = "pending"
        /\ UNCHANGED <<account, rows, locks, proofs, readPassword, readSecret, want, doomed>>
    BY <1>2 DEF CodeStep, Begins, Presents, Goto
  <2>2. Others(r)
    BY <2>1, LocalOthers DEF Types, LocalTypes, PcTypes
  <2>3. Moves(r)
    BY <2>1, <2>2, QuietMoves DEF Quiet, account, KindMove
  <2>4. /\ kind'[r] = "code" /\ pc'[r] = "account" /\ self'[r] = s /\ subject'[r] = c
        /\ s # Nobody => presented'[r] = token[s] /\ token[s] \in Nat /\ status[s] = "live"
        /\ status' = status /\ token' = token /\ challenge' = challenge
    BY <2>1 DEF Types, LocalTypes, PcTypes, RowTypes, rows
  <2>5. Locks(r)' /\ SweepsChallenges(r)' /\ SweepsSessions(r)'
    BY <1>0, <2>1, <2>4, EarlyOwn, EarlyUnlocked DEF Early
  <2>6. Fits(r)' /\ Fresh(r)' /\ About(r)' /\ Claimed(r)' /\ Proven(r)'
    BY <1>0, <2>1, <2>4 DEF Fits, Fresh, About, Claimed, Proven, Rotating, FactorChange
  <2> QED BY <2>3, <2>5, <2>6 DEF Own
<1>3. CASE ReadForCode(r)
  <2>1. /\ pc[r] = "account"
        /\ readPassword' = [readPassword EXCEPT ![r] = password]
        /\ readSecret' = [readSecret EXCEPT ![r] = secret]
        /\ pc' = [pc EXCEPT ![r] = IF secret = 0 THEN "consume" ELSE "spend"]
        /\ UNCHANGED <<account, rows, locks, proofs, kind, self, presented, subject, want, doomed>>
    BY <1>3 DEF ReadForCode, ReadsAccount, Goto
  <2>2. Others(r)
    BY <2>1, LocalOthers DEF Types, LocalTypes, PcTypes
  <2>3. Moves(r)
    BY <2>1, <2>2, QuietMoves DEF Quiet, account, KindMove
  <2>4. /\ kind[r] = "code" /\ pc'[r] \in {"consume", "spend"}
        /\ readSecret'[r] = secret' /\ secret' = secret
        /\ status' = status /\ token' = token /\ challenge' = challenge
    BY <1>0, <2>1 DEF Types, LocalTypes, PcTypes, RowTypes, rows, account, Fits
  <2>5. Locks(r)' /\ SweepsChallenges(r)' /\ SweepsSessions(r)'
    BY <1>0, <2>1, <2>4, EarlyOwn, EarlyUnlocked DEF Early
  <2>6. Fits(r)' /\ Fresh(r)' /\ About(r)' /\ Claimed(r)' /\ Proven(r)'
    BY <1>0, <2>1, <2>4 DEF Fits, Fresh, About, Claimed, Proven, Rotating, FactorChange
  <2> QED BY <2>3, <2>5, <2>6 DEF Own
<1>4. CASE Consume(r)
  <2>1. /\ pc[r] = "consume" /\ kind[r] = "code" /\ subject[r] \in Challenges
        /\ pc' = [pc EXCEPT ![r] = "refused"]
        /\ UNCHANGED <<account, status, token, locks, proofs, locals, want, doomed>>
    BY <1>0, <1>4 DEF Consume, Goto, Fits, About
  <2>2. /\ ChallengesMove(r)
        /\ \A c \in Challenges : challenge[c] # "unused" => challenge'[c] # "unused"
    BY <1>4, <2>1 DEF Consume, ChallengesMove, Types, RowTypes
  <2>3. Others(r)
    BY <2>1, LocalOthers DEF Types, LocalTypes, PcTypes, locals
  <2>4. Moves(r)
    BY <2>1, <2>2, <2>3 DEF Moves, SessionsMove, FactorsMove, KindMove, account, locals
  <2>5. kind' = kind /\ pc'[r] = "refused" /\ self' = self /\ presented' = presented
        /\ subject' = subject /\ status' = status /\ token' = token
    BY <2>1 DEF Types, PcTypes, locals
  <2>6. Locks(r)' /\ SweepsChallenges(r)' /\ SweepsSessions(r)'
    BY <1>0, <2>1, <2>5, EarlyOwn, EarlyUnlocked DEF Early
  <2>7. challenge'[r] = "unused"
    BY <1>0, <1>4, <2>1 DEF Consume, Fresh, Types, RowTypes
  <2>8. Fits(r)' /\ Fresh(r)' /\ About(r)' /\ Claimed(r)' /\ Proven(r)'
    BY <1>0, <2>1, <2>2, <2>5, <2>7 DEF Fits, Fresh, About, Claimed, Proven, Rotating,
       FactorChange, InChange
  <2> QED BY <2>4, <2>6, <2>8 DEF Own
<1>5. ASSUME NEW k \in Rotating \cup {"logout"}, NEW s \in Sessions, Arrive(r, k, s)
      PROVE  Own(r)' /\ Moves(r)
  <2>1. /\ pc[r] = "idle" /\ kind' = [kind EXCEPT ![r] = k]
        /\ self' = [self EXCEPT ![r] = s]
        /\ presented' = [presented EXCEPT ![r] = IF s = Nobody THEN 0 ELSE token[s]]
        /\ pc' = [pc EXCEPT ![r] = IF k = "logout" THEN "logout" ELSE "reauth"]
        /\ status[s] = "live"
        /\ UNCHANGED <<account, rows, locks, proofs, subject, readPassword,
                       readSecret, want, doomed>>
    BY <1>5 DEF Arrive, Begins, Presents, Goto
  <2>2. Others(r)
    BY <2>1, LocalOthers DEF Types, LocalTypes, PcTypes
  <2>3. Moves(r)
    BY <2>1, <2>2, QuietMoves DEF Quiet, account, KindMove
  <2>4. /\ kind'[r] = k /\ pc'[r] = (IF k = "logout" THEN "logout" ELSE "reauth") /\ self'[r] = s
        /\ presented'[r] = token[s] /\ token[s] \in Nat
        /\ status' = status /\ token' = token /\ challenge' = challenge
    BY <2>1 DEF Types, LocalTypes, PcTypes, RowTypes, rows
  <2>5. Locks(r)' /\ SweepsChallenges(r)' /\ SweepsSessions(r)'
    BY <1>0, <2>1, <2>4, EarlyOwn, EarlyUnlocked DEF Early
  <2>6. Fits(r)' /\ Fresh(r)' /\ About(r)' /\ Claimed(r)' /\ Proven(r)'
    BY <1>0, <2>1, <2>4 DEF Fits, Fresh, About, Claimed, Proven, Rotating, FactorChange, InChange
  <2> QED BY <2>3, <2>5, <2>6 DEF Own
<1>6. CASE ArriveReset(r)
  <2>1. /\ pc[r] = "idle" /\ kind' = [kind EXCEPT ![r] = "resetPassword"]
        /\ pc' = [pc EXCEPT ![r] = "factors"]
        /\ UNCHANGED <<account, rows, locks, proofs, self, presented, subject, readPassword,
                       readSecret, want, doomed>>
    BY <1>6 DEF ArriveReset, Begins, Goto
  <2>2. Others(r)
    BY <2>1, LocalOthers DEF Types, LocalTypes, PcTypes
  <2>3. Moves(r)
    BY <2>1, <2>2, QuietMoves DEF Quiet, account, KindMove, Types, LocalTypes
  <2>4. /\ kind'[r] = "resetPassword" /\ pc'[r] = "factors" /\ self[r] = Nobody
        /\ status' = status /\ token' = token /\ challenge' = challenge
    BY <1>0, <2>1 DEF Types, LocalTypes, PcTypes, rows, Fits
  <2>5. Locks(r)' /\ SweepsChallenges(r)' /\ SweepsSessions(r)'
    BY <1>0, <2>1, <2>4, EarlyOwn, EarlyUnlocked DEF Early
  <2>6. Fits(r)' /\ Fresh(r)' /\ About(r)' /\ Claimed(r)' /\ Proven(r)'
    BY <1>0, <2>1, <2>4 DEF Fits, Fresh, About, Claimed, Proven, Rotating, FactorChange, Changing
  <2> QED BY <2>3, <2>5, <2>6 DEF Own
<1>7. ASSUME NEW x \in Sessions, Reauthenticate(r, x) PROVE Own(r)' /\ Moves(r)
  <2>0. kind[r] \in Rotating
    BY <1>0, <1>7 DEF Reauthenticate, Fits
  <2>1. /\ pc[r] = "reauth"
        /\ kind[r] = "revokeSession" => x # self[r]
        /\ readPassword' = [readPassword EXCEPT ![r] = password]
        /\ readSecret' = [readSecret EXCEPT ![r] = secret]
        /\ subject' = [subject EXCEPT ![r] = IF kind[r] = "revokeSession" THEN x ELSE Nobody]
        /\ UNCHANGED <<account, rows, locks, proofs, kind, self, presented, want, doomed>>
    BY <1>7 DEF Reauthenticate, ReadsAccount
  <2>2. PICK place \in Places :
          /\ Goto(r, place)
          /\ place \in {"refused", "spend"} \/ place = First(kind[r])
          /\ place = "spend" => AsksCode(kind[r])
    <3>1. \/ Goto(r, "refused")
          \/ Goto(r, "spend") /\ AsksCode(kind[r])
          \/ Goto(r, First(kind[r]))
      BY <1>7, Zenon DEF Reauthenticate
    <3> QED BY <3>1, FirstPlaces DEF Places, First
  <2>3. pc'[r] = place /\ \A q \in Requests \ {r} : pc'[q] = pc[q]
    BY <2>2, PlaceTypes DEF Types
  <2>4. Others(r)
    BY <2>1, <2>3, LocalOthers DEF Types, LocalTypes
  <2>5. KindMove(r)
    BY <2>0, <2>1 DEF KindMove, Rotating, FactorChange
  <2>6. Moves(r)
    BY <2>1, <2>4, <2>5, QuietMoves DEF Quiet, account
  <2>7. /\ readPassword'[r] = password' /\ readSecret'[r] = secret'
        /\ subject'[r] = (IF kind[r] = "revokeSession" THEN x ELSE Nobody)
        /\ kind' = kind /\ self' = self /\ presented' = presented
        /\ status' = status /\ token' = token /\ challenge' = challenge
    BY <2>1 DEF Types, LocalTypes, PcTypes, RowTypes, rows, account
  <2>8. \/ place = "refused"
        \/ place \in {"spend", "factors"} /\ kind[r] \in FactorChange
        \/ place = "challenges" /\ kind[r] = "revokeOtherSessions"
        \/ place = "one" /\ kind[r] = "revokeSession"
    BY <2>0, <2>2 DEF First, AsksCode, Rotating, FactorChange
  <2>9. Locks(r)' /\ SweepsChallenges(r)' /\ SweepsSessions(r)'
    <3>1. pc'[r] \in Early \/ (pc'[r] = "challenges" /\ kind'[r] \notin Changing)
      BY <2>3, <2>7, <2>8 DEF Early, Changing, FactorChange
    <3>2. /\ userLock' # r
          /\ \A s \in Sessions : sessionLock'[s] # r
          /\ \A c \in Challenges : challengeLock'[c] # r
      BY <1>0, <2>1, EarlyUnlocked DEF Early
    <3> QED BY <3>1, <3>2, EarlyOwn
  <2>10. Fits(r)' /\ Fresh(r)' /\ About(r)' /\ Claimed(r)' /\ Proven(r)'
    BY <1>0, <2>0, <2>1, <2>3, <2>7, <2>8 DEF Fits, Fresh, About, Claimed, Proven, Rotating,
       FactorChange,
       Changing, Revoking
  <2> QED BY <2>6, <2>9, <2>10 DEF Own
<1>8. CASE (\E step \in Steps, right \in BOOLEAN : SpendStep(r, step, right))
           \/ (\E right \in BOOLEAN : SpendRecovery(r, right))
  <2>1. /\ pc[r] = "spend"
        /\ UNCHANGED <<password, secret, author, rows, locks, proofs, locals, want, doomed>>
    BY <1>8 DEF SpendStep, SpendRecovery
  <2>2. PICK place \in Places :
          /\ Goto(r, place)
          /\ \/ place = "refused"
             \/ kind[r] = "code" /\ place = "retire"
             \/ kind[r] # "code" /\ place = First(kind[r])
    <3>1. \E right \in BOOLEAN : Goto(r, "refused") \/ Goto(r, Judged(r, right))
      BY <1>8, Zenon DEF SpendStep, SpendRecovery
    <3>2. \/ Goto(r, "refused")
          \/ kind[r] = "code" /\ Goto(r, "retire")
          \/ kind[r] # "code" /\ Goto(r, First(kind[r]))
      BY <3>1, Zenon DEF Judged
    <3> QED BY <3>2, FirstPlaces DEF Places
  <2>3. pc'[r] = place /\ \A q \in Requests \ {r} : pc'[q] = pc[q]
    BY <2>2, PlaceTypes DEF Types
  <2>4. Others(r)
    BY <2>1, <2>3, LocalOthers DEF locals
  <2>5. Moves(r)
    BY <2>1, <2>4, QuietMoves DEF Quiet, locals, KindMove
  <2>6. \/ place = "refused"
        \/ place = "retire" /\ kind[r] = "code"
        \/ place = "factors" /\ kind[r] \in FactorChange
    BY <1>0, <2>1, <2>2 DEF First, Fits, FactorChange
  <2>7. Locks(r)' /\ SweepsChallenges(r)' /\ SweepsSessions(r)'
    BY <1>0, <2>1, <2>3, <2>6, EarlyOwn, EarlyUnlocked DEF Early
  <2>8. Fits(r)' /\ Fresh(r)' /\ About(r)' /\ Claimed(r)' /\ Proven(r)'
    BY <1>0, <2>1, <2>3, <2>6 DEF Fits, Fresh, About, Claimed, Proven, FactorChange,
       Changing, locals, rows, StillPresented, InChange
  <2> QED BY <2>5, <2>7, <2>8 DEF Own
<1>9. CASE Retire(r) \/ Logout(r)
  <2>1. /\ pc[r] \in {"retire", "logout"}
        /\ UNCHANGED <<account, token, challenge, locks, proofs, locals, want, doomed>>
    BY <1>9 DEF Retire, Logout
  <2>2. PICK place \in Places :
          /\ Goto(r, place)
          /\ (pc[r] = "logout" /\ place = "done") \/ (pc[r] = "retire" /\ place = First(kind[r]))
    BY <1>9, FirstPlaces DEF Retire, Logout, Places
  <2>3. pc'[r] = place /\ \A q \in Requests \ {r} : pc'[q] = pc[q]
    BY <2>2, PlaceTypes DEF Types
  <2>4. Others(r)
    BY <2>1, <2>3, LocalOthers DEF locals
  <2>5. \A s \in Sessions :
          \/ status'[s] = status[s]
          \/ Unrevoked(s) /\ sessionLock[s] = Nobody /\ status'[s] = "ended"
    BY <1>9 DEF Retire, Logout, Types, RowTypes
  <2>6. Moves(r)
    BY <2>1, <2>4, <2>5 DEF Moves, SessionsMove, ChallengesMove, FactorsMove, KindMove, account,
       locals
  <2>7. \/ place = "done"
        \/ place = "prove" /\ kind[r] = "password"
        \/ place = "claim" /\ kind[r] = "code" /\ pc[r] = "retire"
    BY <1>0, <2>1, <2>2 DEF First, Fits
  <2>8. Locks(r)' /\ SweepsChallenges(r)' /\ SweepsSessions(r)'
    BY <1>0, <2>1, <2>3, <2>7, EarlyOwn, EarlyUnlocked DEF Early
  <2>9. status'[r] = status[r] /\ \A s \in Sessions : status[s] # "unused" => status'[s] # "unused"
    BY <1>0, <2>1, <2>5 DEF Fresh, Unrevoked
  <2>10. Fits(r)' /\ Fresh(r)' /\ About(r)' /\ Claimed(r)' /\ Proven(r)'
    BY <1>0, <2>1, <2>3, <2>7, <2>9 DEF Fits, Fresh, About, Claimed, Proven, FactorChange,
       Changing, locals, account, InChange, Types, LocalTypes
  <2> QED BY <2>6, <2>8, <2>10 DEF Own
<1> QED BY <1>1, <1>2, <1>3, <1>4, <1>5, <1>6, <1>7, <1>8, <1>9 DEF Asks

-----------------------------------------------------------------------------
(* A commit of a sign-in, and of a change: the rows it writes.             *)
LEMMA SignInWrites ==
    ASSUME Types, NEW r \in Requests, Own(r), CommitSignIn(r), WaitsOnlyWhileAsked
    PROVE  /\ Own(r)' /\ Moves(r)
           /\ UNCHANGED <<account, token>>
           /\ \A s \in Sessions \ {r} :
                status'[s] = status[s] /\ provedPassword'[s] = provedPassword[s]
                /\ provedSecret'[s] = provedSecret[s]
           /\ \A c \in Challenges \ {r} :
                vouched'[c] = vouched[c] /\ (challenge'[c] = challenge[c] \/ challenge'[c] = "gone")
           /\ Unrevoked(r)' => /\ provedPassword'[r] = password
                               /\ secret # 0 => provedSecret'[r] = secret
           /\ challenge'[r] = "pending" => vouched'[r] = password /\ secret # 0
<1> USE RequestNames
<1>0. /\ r \in Sessions /\ r \in Challenges
      /\ Fits(r) /\ Fresh(r) /\ About(r) /\ Locks(r) /\ Claimed(r) /\ Proven(r)
  BY DEF Own
<1>1. /\ pc[r] = "commit" /\ kind[r] \in {"password", "code"}
      /\ Releases(r) /\ Goto(r, "done")
      /\ UNCHANGED <<account, locals, doomed>>
  BY DEF CommitSignIn
<1>2. status[r] = "unused" /\ challenge[r] = "unused"
  BY <1>0, <1>1 DEF Fresh
<1>3. /\ Others(r) /\ KindMove(r)
      /\ userLock' # r
      /\ \A s \in Sessions : sessionLock'[s] # r
      /\ \A c \in Challenges : challengeLock'[c] # r
      /\ pc'[r] = "done"
  BY <1>1, ReleasesOwn DEF Places
<1>4. Locks(r)' /\ SweepsChallenges(r)' /\ SweepsSessions(r)'
  BY <1>3, EarlyOwn DEF Early
<1>5. CASE kind[r] = "password" /\ readSecret[r] # 0
  <2>1. /\ challenge' = [challenge EXCEPT ![r] = "pending"]
        /\ vouched' = [vouched EXCEPT ![r] = readPassword[r]]
        /\ UNCHANGED <<status, token, provedPassword, provedSecret>>
    BY <1>5 DEF CommitSignIn, Opens
  <2>2. userLock = r /\ readPassword[r] = password /\ secret # 0
    BY <1>0, <1>1, <1>5 DEF Locks, Proven, FactorsStillCurrent
  <2>3. /\ challenge'[r] = "pending" /\ vouched'[r] = password
        /\ \A c \in Challenges \ {r} : challenge'[c] = challenge[c] /\ vouched'[c] = vouched[c]
    BY <1>0, <2>1, <2>2 DEF Types, RowTypes, ProofTypes
  <2>4. Moves(r)
    BY <1>1, <1>2, <1>3, <2>1, <2>2, <2>3
       DEF Moves, SessionsMove, ChallengesMove, FactorsMove, account
  <2>5. Fits(r)' /\ Fresh(r)' /\ About(r)' /\ Claimed(r)' /\ Proven(r)'
    BY <1>0, <1>1, <1>3, <1>5, <2>1 DEF Fits, Fresh, About, Claimed, Proven, locals, InChange,
       FactorChange, Rotating
  <2> QED BY <1>1, <1>2, <1>4, <2>1, <2>2, <2>3, <2>4, <2>5 DEF Own, Unrevoked
<1>6. CASE kind[r] = "password" /\ readSecret[r] = 0
  <2>1. /\ status' = [status EXCEPT ![r] = "live"]
        /\ challenge' = challenge
        /\ provedPassword' = [provedPassword EXCEPT ![r] = readPassword[r]]
        /\ provedSecret' = [provedSecret EXCEPT ![r] = 0]
        /\ UNCHANGED <<token, vouched>>
    BY <1>6 DEF CommitSignIn, SignsIn
  <2>2. userLock = r /\ readPassword[r] = password /\ secret = 0
    BY <1>0, <1>1, <1>6 DEF Locks, Proven, FactorsStillCurrent
  <2>3. /\ status'[r] = "live" /\ provedPassword'[r] = password
        /\ \A s \in Sessions \ {r} : status'[s] = status[s]
             /\ provedPassword'[s] = provedPassword[s]
             /\ provedSecret'[s] = provedSecret[s]
    BY <1>0, <2>1, <2>2 DEF Types, RowTypes, ProofTypes
  <2>4. Moves(r)
    BY <1>1, <1>2, <1>3, <2>1, <2>2, <2>3
       DEF Moves, SessionsMove, ChallengesMove, FactorsMove, account
  <2>5. Fits(r)' /\ Fresh(r)' /\ About(r)' /\ Claimed(r)' /\ Proven(r)'
    BY <1>0, <1>1, <1>3, <1>6, <2>1, <2>3 DEF Fits, Fresh, About, Claimed, Proven, locals, InChange,
       FactorChange, Rotating, Types, LocalTypes
  <2> QED BY <1>1, <1>2, <1>4, <2>1, <2>2, <2>3, <2>4, <2>5 DEF Own, Unrevoked
<1>7. CASE kind[r] = "code"
  <2>1. /\ status' = [status EXCEPT ![r] = "live"]
        /\ challenge' = [challenge EXCEPT ![subject[r]] = "gone"]
        /\ provedPassword' = [provedPassword EXCEPT ![r] = vouched[subject[r]]]
        /\ provedSecret' = [provedSecret EXCEPT ![r] = readSecret[r]]
        /\ UNCHANGED <<token, vouched>>
    BY <1>7 DEF CommitSignIn, SignsIn
  <2>2. /\ subject[r] \in Challenges /\ challengeLock[subject[r]] = r
        /\ challenge[subject[r]] = "pending"
    BY <1>0, <1>1, <1>7 DEF Locks, About
  <2>3. vouched[subject[r]] = password /\ readSecret[r] = secret
    BY <1>0, <1>1, <1>7, <2>2 DEF WaitsOnlyWhileAsked, Proven
  <2>4. /\ status'[r] = "live" /\ provedPassword'[r] = password /\ provedSecret'[r] = secret
        /\ \A s \in Sessions \ {r} : status'[s] = status[s]
             /\ provedPassword'[s] = provedPassword[s]
             /\ provedSecret'[s] = provedSecret[s]
        /\ challenge'[subject[r]] = "gone"
        /\ \A c \in Challenges \ {subject[r]} : challenge'[c] = challenge[c]
    BY <1>0, <2>1, <2>2, <2>3 DEF Types, RowTypes, ProofTypes
  <2>5. Moves(r)
    BY <1>1, <1>2, <1>3, <1>7, <2>1, <2>2, <2>4
       DEF Moves, SessionsMove, ChallengesMove, FactorsMove, account
  <2>6. Fits(r)' /\ Fresh(r)' /\ About(r)' /\ Claimed(r)' /\ Proven(r)'
    BY <1>0, <1>1, <1>2, <1>3, <1>7, <2>1, <2>2, <2>4 DEF Fits, Fresh, About, Claimed, Proven,
       locals,
       InChange, FactorChange, Rotating, Types, LocalTypes
  <2> QED BY <1>0, <1>1, <1>2, <1>4, <2>1, <2>2, <2>4, <2>5, <2>6 DEF Own, Unrevoked
<1> QED BY <1>1, <1>5, <1>6, <1>7

(* A change ends every other session and every challenge, or no factor.    *)
LEMMA ChangeWrites ==
    ASSUME Types, NEW r \in Requests, Own(r), NEW step \in Steps, CommitChange(r, step),
           \A p \in Requests : Own(p)
    PROVE  /\ Own(r)' /\ Moves(r)
           /\ UNCHANGED proofs
           /\ \A s \in Sessions : status'[s] = status[s] \/ status'[s] = "ended"
           /\ \A c \in Challenges : challenge'[c] = challenge[c] \/ challenge'[c] = "gone"
           /\ \/ kind[r] \in Changing /\ author' = self[r]
                 /\ (\A c \in Challenges : challenge'[c] # "pending")
                 /\ (\A s \in Sessions \ {self[r]} : ~Unrevoked(s)')
              \/ kind[r] \notin Changing /\ UNCHANGED <<password, secret, author>>
<1> USE RequestNames
<1>0. /\ r \in Sessions /\ r \in Challenges /\ self[r] \in Sessions \cup {Nobody}
      /\ Fits(r) /\ Fresh(r) /\ About(r) /\ Locks(r) /\ Claimed(r) /\ Proven(r)
      /\ SweepsChallenges(r) /\ SweepsSessions(r)
  BY DEF Own, Types, LocalTypes
<1>1. /\ pc[r] = "commit" /\ kind[r] \in Rotating \cup {"resetPassword"}
      /\ Writes(r, step)
      /\ author' = IF kind[r] \in Changing THEN self[r] ELSE author
      /\ \A s \in Sessions : status'[s] = IF sessionLock[s] # r THEN status[s]
                                          ELSE IF s = self[r] THEN "live" ELSE "ended"
      /\ \A s \in Sessions : token'[s] = IF s = self[r] THEN token[s] + 1 ELSE token[s]
      /\ \A c \in Challenges : challenge'[c] = IF challengeLock[c] = r THEN "gone" ELSE challenge[c]
      /\ Releases(r) /\ Goto(r, "done")
      /\ UNCHANGED <<proofs, locals, doomed>>
  BY DEF CommitChange, Changing
<1>2. /\ Others(r) /\ KindMove(r)
      /\ userLock' # r
      /\ \A s \in Sessions : sessionLock'[s] # r
      /\ \A c \in Challenges : challengeLock'[c] # r
      /\ pc'[r] = "done"
  BY <1>1, ReleasesOwn DEF Places
<1>3. /\ \A s \in Sessions : sessionLock[s] = r =>
           Unrevoked(s) /\ (s = self[r] => status[s] = "live")
      /\ \A c \in Challenges : challengeLock[c] = r => challenge[c] = "pending"
      /\ self[r] \in Sessions => sessionLock[self[r]] = r
  BY <1>0, <1>1 DEF Locks, About
<1>4. /\ \A s \in Sessions : status'[s] = status[s] \/ status'[s] = "ended"
      /\ \A c \in Challenges : challenge'[c] = challenge[c] \/ challenge'[c] = "gone"
  BY <1>1, <1>3
<1>5. SessionsMove(r) /\ ChallengesMove(r)
  BY <1>1, <1>3 DEF SessionsMove, ChallengesMove
<1>6. ASSUME kind[r] \in Changing
      PROVE  /\ FactorsMove(r) /\ author' = self[r]
             /\ (\A c \in Challenges : challenge'[c] # "pending")
             /\ (\A s \in Sessions \ {self[r]} : ~Unrevoked(s)')
  <2>1. userLock = r /\ InChange(r) /\ Saw(r)
    BY <1>0, <1>1, <1>6 DEF Locks, InChange, Saw, Changing, Revoking
  <2>2. \A c \in Challenges : challenge'[c] # "pending"
    <3> SUFFICES ASSUME NEW c \in Challenges, challenge'[c] = "pending" PROVE FALSE
      OBVIOUS
    <3>1. challenge[c] = "pending" /\ challengeLock[c] # r
      BY <1>1
    <3>2. c \in doomed[r]
      BY <1>0, <1>6, <2>1, <3>1 DEF SweepsChallenges, Pending
    <3> QED BY <1>0, <1>1, <2>1, <3>1, <3>2 DEF SweepsChallenges
  <2>3. \A s \in Sessions \ {self[r]} : ~Unrevoked(s)'
    <3> SUFFICES ASSUME NEW s \in Sessions \ {self[r]}, Unrevoked(s)' PROVE FALSE
      OBVIOUS
    <3>1. Unrevoked(s) /\ sessionLock[s] # r
      BY <1>1 DEF Unrevoked
    <3>2. Target(r, s)
      BY <1>6, <3>1 DEF Target
    <3> QED BY <1>0, <1>1, <1>6, <3>1, <3>2 DEF SweepsSessions, Changing, Revoking
  <2>4. FactorsMove(r)
    <3>1. \A s \in Sessions : status'[s] = "live" => s = self[r]
      BY <2>3 DEF Unrevoked
    <3>2. \A s \in Sessions : status'[s] = "live" => token'[s] = token[s] + 1
      BY <1>1, <3>1
    <3> QED BY <1>6, <2>1, <2>2, <3>2 DEF FactorsMove
  <2>5. author' = self[r]
    BY <1>1, <1>6
  <2> QED BY <2>2, <2>3, <2>4, <2>5
<1>7. ASSUME kind[r] \notin Changing
      PROVE  FactorsMove(r) /\ UNCHANGED <<password, secret, author>>
  <2>1. password' = password /\ secret' = secret
    <3>1. /\ kind[r] \notin {"changePassword", "resetPassword"}
          /\ kind[r] # "confirmTotpSetup" /\ kind[r] # "disableTotp"
      BY <1>7 DEF Changing, FactorChange
    <3>2. UNCHANGED <<password, secret, secrets, lastStep, recovery>>
      BY <1>1, <3>1 DEF Writes
    <3> QED BY <3>2
  <2>2. author' = author
    BY <1>1, <1>7
  <2> QED BY <2>1, <2>2 DEF FactorsMove
<1>8. Moves(r)
  BY <1>2, <1>5, <1>6, <1>7 DEF Moves
<1>9. Own(r)'
  <2>1. Locks(r)' /\ SweepsChallenges(r)' /\ SweepsSessions(r)'
    BY <1>2, EarlyOwn DEF Early
  <2>2. self[r] # Nobody => token'[self[r]] = token[self[r]] + 1 /\ token[self[r]] \in Nat
                            /\ presented[r] \in Nat
    BY <1>0, <1>1 DEF Types, RowTypes, LocalTypes
  <2>3. Fits(r)' /\ Fresh(r)' /\ About(r)' /\ Claimed(r)' /\ Proven(r)'
    BY <1>0, <1>1, <1>2, <1>4, <2>2 DEF Fits, Fresh, About, Claimed, Proven, locals, InChange,
       FactorChange, Rotating
  <2> QED BY <2>1, <2>3 DEF Own
<1> QED BY <1>1, <1>4, <1>6, <1>7, <1>8, <1>9

(* A statement locks rows, or finds them, and writes none.                 *)
LEMMA StatementOthers ==
    ASSUME Types, NEW r \in Requests, UNCHANGED locals,
           \A q \in Requests \ {r} : pc'[q] = pc[q] /\ want'[q] = want[q] /\ doomed'[q] = doomed[q],
           userLock' = userLock \/ (userLock = Nobody /\ userLock' = r),
           \A s \in Sessions :
             sessionLock'[s] = sessionLock[s]
             \/ (sessionLock[s] \in {r, Nobody} /\ sessionLock'[s] = r),
           \A c \in Challenges :
             challengeLock'[c] = challengeLock[c]
             \/ (challengeLock[c] \in {r, Nobody} /\ challengeLock'[c] = r)
    PROVE  Others(r) /\ KindMove(r)
<1> USE RequestNames
<1> QED BY DEF Others, KindMove, locals

(* What a request relies on survives the statements of its transaction.    *)
LEMMA RunsOwn ==
    ASSUME Types, NEW r \in Requests, \A p \in Requests : Own(p),
           WaitsOnlyWhileAsked, Runs(r), Types'
    PROVE  Own(r)' /\ Moves(r)
<1> USE RequestNames
<1>0. /\ Fits(r) /\ Fresh(r) /\ About(r) /\ Locks(r) /\ Claimed(r) /\ Proven(r)
      /\ SweepsChallenges(r) /\ SweepsSessions(r)
  BY DEF Own
<1>1. CASE Prove(r)
  <2>0. pc[r] = "prove" /\ UNCHANGED <<account, rows, proofs, locals, doomed>>
    BY <1>1 DEF Prove
  <2>1. CASE FactorsStillCurrent(r)
    <3>1. /\ userLock = Nobody /\ userLock' = r /\ pc' = [pc EXCEPT ![r] = "commit"]
          /\ UNCHANGED <<sessionLock, challengeLock, want>>
      BY <1>1, <2>1 DEF Prove, Goto
    <3>2. pc'[r] = "commit" /\ \A q \in Requests \ {r} : pc'[q] = pc[q]
      BY <3>1 DEF Types, PcTypes
    <3>3. Moves(r)
      BY <2>0, <3>1, <3>2, StatementOthers, QuietMoves DEF Quiet, account
    <3>4. kind[r] = "password"
      BY <1>0, <2>0 DEF Fits
    <3>5. Own(r)'
      BY <1>0, <2>0, <2>1, <3>1, <3>2, <3>4 DEF Own, Fits, Fresh, About, Locks, Claimed, Proven,
         SweepsChallenges, SweepsSessions, FactorsStillCurrent, locals, rows, account, InChange,
            Saw,
         Changing, FactorChange, Revoking, Rotating
    <3> QED BY <3>3, <3>5
  <2>2. CASE ~FactorsStillCurrent(r)
    BY <1>1, <2>0, <2>2, RestartsOwn DEF Prove, RollsBack, Quiet, account, Own
  <2> QED BY <2>1, <2>2
<1>2. CASE Claim(r)
  <2>0. pc[r] = "claim" /\ UNCHANGED <<account, rows, proofs, locals, doomed>>
    BY <1>2 DEF Claim
  <2>1. CASE challenge[subject[r]] = "pending"
    <3>1. /\ challengeLock[subject[r]] = Nobody
          /\ challengeLock' = [challengeLock EXCEPT ![subject[r]] = r]
          /\ pc' = [pc EXCEPT ![r] = "commit"]
          /\ UNCHANGED <<userLock, sessionLock, want>>
      BY <1>2, <2>1 DEF Claim, Goto
    <3>2. pc'[r] = "commit" /\ \A q \in Requests \ {r} : pc'[q] = pc[q]
      BY <3>1 DEF Types, PcTypes
    <3>3. kind[r] = "code" /\ subject[r] \in Challenges
      BY <1>0, <2>0 DEF Fits, About
    <3>4. challengeLock'[subject[r]] = r
          /\ \A c \in Challenges \ {subject[r]} : challengeLock'[c] = challengeLock[c]
      BY <3>1, <3>3 DEF Types, LockTypes
    <3>5. Moves(r)
      BY <2>0, <3>1, <3>2, <3>3, <3>4, StatementOthers, QuietMoves DEF Quiet, account
    <3>6. Locks(r)'
      BY <1>0, <2>0, <2>1, <3>1, <3>2, <3>3, <3>4 DEF Locks, InChange, locals, rows, Changing,
         FactorChange, Revoking, Rotating
    <3>7. Own(r)'
      BY <1>0, <2>0, <2>1, <3>1, <3>2, <3>3, <3>6 DEF Own, Fits, Fresh, About, Claimed, Proven,
         SweepsChallenges, SweepsSessions, locals, rows, account, InChange, Saw,
         Changing, FactorChange, Revoking, Rotating
    <3> QED BY <3>5, <3>7
  <2>2. CASE challenge[subject[r]] # "pending"
    BY <1>2, <2>0, <2>2, RestartsOwn DEF Claim, RollsBack, Quiet, account, Own
  <2> QED BY <2>1, <2>2
<1>3. CASE LockAccount(r)
  <2>1. /\ pc[r] = "factors" /\ userLock = Nobody /\ userLock' = r
        /\ doomed' = [doomed EXCEPT ![r] = Pending]
        /\ Goto(r, "challenges")
        /\ UNCHANGED <<account, rows, sessionLock, challengeLock, proofs, locals, want>>
    BY <1>3 DEF LockAccount, After, Dooms
  <2>2. pc'[r] = "challenges" /\ \A q \in Requests \ {r} : pc'[q] = pc[q]
    BY <2>1, PlaceTypes DEF Types, Places
  <2>3. doomed'[r] = Pending /\ \A q \in Requests \ {r} : doomed'[q] = doomed[q]
    BY <2>1 DEF Types, RestTypes
  <2>4. Moves(r)
    BY <2>1, <2>2, <2>3, StatementOthers, QuietMoves DEF Quiet, account
  <2>5. kind[r] \in Changing
    BY <1>0, <2>1 DEF Fits
  <2>6. Fits(r)' /\ Fresh(r)' /\ About(r)' /\ Claimed(r)' /\ Proven(r)' /\ SweepsSessions(r)'
    BY <1>0, <2>1, <2>2, <2>5 DEF Fits, Fresh, About, Claimed, Proven, SweepsSessions, locals, rows,
       account, InChange, Changing, FactorChange, Revoking, Rotating, StillPresented
  <2>7. Locks(r)'
    BY <1>0, <2>1, <2>2, <2>5 DEF Locks, locals, rows, InChange, Changing, FactorChange, Revoking,
       Rotating
  <2>8. \A c \in Pending : challenge'[c] # "unused" /\
          \A q \in Requests : kind'[q] = "code" /\ subject'[q] = c => q # self'[r]
    BY <1>0, <2>1 DEF Pending, Own, Claimed, About, locals, rows
  <2>9. SweepsChallenges(r)'
    BY <2>1, <2>2, <2>3, <2>8 DEF SweepsChallenges, Pending, rows
  <2> QED BY <2>4, <2>6, <2>7, <2>9 DEF Own
<1>4. CASE FindChallenges(r)
  <2>1. /\ pc[r] = "challenges" /\ want' = [want EXCEPT ![r] = Pending]
        /\ doomed' = (IF kind[r] = "revokeOtherSessions"
                      THEN [doomed EXCEPT ![r] = Pending] ELSE doomed)
        /\ Goto(r, "endingChallenges")
        /\ UNCHANGED <<account, rows, locks, proofs, locals>>
    BY <1>4 DEF FindChallenges, Dooms
  <2>2. pc'[r] = "endingChallenges" /\ \A q \in Requests \ {r} : pc'[q] = pc[q]
    BY <2>1, PlaceTypes DEF Types, Places
  <2>3. /\ doomed'[r] = (IF kind[r] = "revokeOtherSessions" THEN Pending ELSE doomed[r])
        /\ want'[r] = Pending
        /\ \A q \in Requests \ {r} : doomed'[q] = doomed[q] /\ want'[q] = want[q]
    BY <2>1 DEF Types, RestTypes
  <2>4. Moves(r)
    BY <2>1, <2>2, <2>3, StatementOthers, QuietMoves DEF Quiet, account, locks
  <2>5. kind[r] \in Revoking /\ (kind[r] # "revokeOtherSessions" => kind[r] \in Changing)
    BY <1>0, <2>1 DEF Fits, Revoking, Changing
  <2>6. Fits(r)' /\ Fresh(r)' /\ About(r)' /\ Claimed(r)' /\ Proven(r)' /\ SweepsSessions(r)'
    BY <1>0, <2>1, <2>2, <2>5 DEF Fits, Fresh, About, Claimed, Proven, SweepsSessions, locals, rows,
       account, InChange, Changing, FactorChange, Revoking, Rotating, StillPresented
  <2>7. Locks(r)'
    BY <1>0, <2>1, <2>2, <2>5 DEF Locks, locals, rows, locks, InChange, Changing, FactorChange,
       Revoking,
       Rotating
  <2>8. \A c \in Pending : challenge'[c] # "unused" /\
          \A q \in Requests : kind'[q] = "code" /\ subject'[q] = c => q # self'[r]
    BY <1>0, <2>1 DEF Pending, Own, Claimed, About, locals, rows
  <2>9. SweepsChallenges(r)'
    <3>1. CASE kind[r] = "revokeOtherSessions"
      BY <2>1, <2>2, <2>3, <2>8, <3>1 DEF SweepsChallenges, Pending, rows, locals, Changing,
         FactorChange
    <3>2. CASE kind[r] # "revokeOtherSessions"
      <4>1. Saw(r) /\ InChange(r) /\ kind[r] \in Changing
        BY <2>1, <2>5, <3>2 DEF Saw, InChange
      <4>2. doomed'[r] = doomed[r] /\ want'[r] = Pending /\ Pending \subseteq doomed[r]
        BY <1>0, <2>3, <3>2, <4>1 DEF SweepsChallenges
      <4>3. \A c \in doomed[r] :
              /\ challenge[c] # "unused" /\ c \in Challenges
              /\ \A q \in Requests : kind[q] = "code" /\ subject[q] = c => q # self[r]
        BY <1>0, <4>1 DEF SweepsChallenges, Types, RestTypes
      <4>4. Pending' = Pending /\ kind' = kind /\ subject' = subject /\ self' = self
            /\ challenge' = challenge
        BY <2>1 DEF Pending, rows, locals
      <4>5. \A c \in doomed[r] : challenge[c] = "pending" => c \in want'[r]
        BY <4>2, <4>3 DEF Pending
      <4> QED BY <2>2, <4>2, <4>3, <4>4, <4>5 DEF SweepsChallenges
    <3> QED BY <3>1, <3>2
  <2> QED BY <2>4, <2>6, <2>7, <2>9 DEF Own
<1>5. ASSUME NEW c \in Challenges, EndChallenge(r, c) PROVE Own(r)' /\ Moves(r)
  <2>1. /\ pc[r] = "endingChallenges" /\ c \in want[r] /\ challengeLock[c] = Nobody
        /\ want' = [want EXCEPT ![r] = want[r] \ {c}]
        /\ UNCHANGED <<account, rows, userLock, sessionLock, proofs, locals, pc, doomed>>
    BY <1>5 DEF EndChallenge
  <2>2. want'[r] = want[r] \ {c} /\ \A q \in Requests \ {r} : want'[q] = want[q]
    BY <2>1 DEF Types, RestTypes
  <2>3. /\ challengeLock'[c] = (IF challenge[c] = "pending" THEN r ELSE Nobody)
        /\ \A d \in Challenges \ {c} : challengeLock'[d] = challengeLock[d]
    BY <1>5, <2>1 DEF EndChallenge, Types, LockTypes
  <2>4. Moves(r)
    BY <2>1, <2>2, <2>3, StatementOthers, QuietMoves DEF Quiet, account
  <2>5. kind[r] \in Revoking
    BY <1>0, <2>1 DEF Fits
  <2>6. Fits(r)' /\ Fresh(r)' /\ About(r)' /\ Claimed(r)' /\ Proven(r)' /\ SweepsSessions(r)'
    BY <1>0, <2>1, <2>5 DEF Fits, Fresh, About, Claimed, Proven, SweepsSessions, locals, rows,
       account, InChange, StillPresented, FactorsStillCurrent
  <2>7. Locks(r)'
    BY <1>0, <2>1, <2>3, <2>5 DEF Locks, locals, rows, InChange, Changing, FactorChange, Revoking,
       Rotating
  <2>8. SweepsChallenges(r)'
    BY <1>0, <2>1, <2>2, <2>3 DEF SweepsChallenges, locals, rows, InChange, Saw, Pending, Types,
       RestTypes
  <2> QED BY <2>4, <2>6, <2>7, <2>8 DEF Own
<1>6. CASE FindSessions(r)
  <2> DEFINE F == {s \in Sessions : Unrevoked(s) /\ s # self[r]}
  <2>1. /\ pc[r] = "others" /\ want' = [want EXCEPT ![r] = F]
        /\ Goto(r, "endingOthers")
        /\ UNCHANGED <<account, rows, locks, proofs, locals, doomed>>
    BY <1>6 DEF FindSessions
  <2>2. pc'[r] = "endingOthers" /\ \A q \in Requests \ {r} : pc'[q] = pc[q]
    BY <2>1, PlaceTypes DEF Types, Places
  <2>3. want'[r] = F /\ \A q \in Requests \ {r} : want'[q] = want[q]
    BY <2>1 DEF Types, RestTypes
  <2>4. Moves(r)
    BY <2>1, <2>2, <2>3, StatementOthers, QuietMoves DEF Quiet, account, locks
  <2>5. kind[r] \in Revoking
    BY <1>0, <2>1 DEF Fits
  <2>6. Fits(r)' /\ Fresh(r)' /\ About(r)' /\ Claimed(r)' /\ Proven(r)'
    BY <1>0, <2>1, <2>2, <2>5 DEF Fits, Fresh, About, Claimed, Proven, locals, rows,
       account, InChange, StillPresented, FactorsStillCurrent, Revoking, FactorChange, Rotating
  <2>7. Locks(r)'
    BY <1>0, <2>1, <2>2, <2>5 DEF Locks, locals, rows, locks, InChange, Changing, FactorChange,
       Revoking,
       Rotating
  <2>8. SweepsChallenges(r)'
    BY <1>0, <2>1, <2>2, <2>5 DEF SweepsChallenges, locals, rows, locks, InChange, Saw, Pending
  <2>9. SweepsSessions(r)'
    BY <2>1, <2>2, <2>3 DEF SweepsSessions, Target, Unrevoked, locals, rows
  <2> QED BY <2>4, <2>6, <2>7, <2>8, <2>9 DEF Own
<1>7. ASSUME NEW s \in Sessions, EndSession(r, s) PROVE Own(r)' /\ Moves(r)
  <2>1. /\ pc[r] = "endingOthers" /\ s \in want[r] /\ sessionLock[s] = Nobody
        /\ want' = [want EXCEPT ![r] = want[r] \ {s}]
        /\ UNCHANGED <<account, rows, userLock, challengeLock, proofs, locals, pc, doomed>>
    BY <1>7 DEF EndSession
  <2>2. want'[r] = want[r] \ {s} /\ \A q \in Requests \ {r} : want'[q] = want[q]
    BY <2>1 DEF Types, RestTypes
  <2>3. /\ sessionLock'[s] = (IF Unrevoked(s) THEN r ELSE Nobody)
        /\ \A d \in Sessions \ {s} : sessionLock'[d] = sessionLock[d]
    BY <1>7, <2>1 DEF EndSession, Types, LockTypes
  <2>4. Moves(r)
    BY <2>1, <2>2, <2>3, StatementOthers, QuietMoves DEF Quiet, account
  <2>5. kind[r] \in Revoking /\ s # self[r]
    BY <1>0, <2>1 DEF Fits, SweepsSessions
  <2>6. Fits(r)' /\ Fresh(r)' /\ About(r)' /\ Claimed(r)' /\ Proven(r)'
    BY <1>0, <2>1, <2>5 DEF Fits, Fresh, About, Claimed, Proven, locals, rows,
       account, InChange, StillPresented, FactorsStillCurrent
  <2>7. Locks(r)'
    <3>1. \A d \in Sessions : sessionLock'[d] = r =>
         Unrevoked(d)' /\ (d = self'[r] => status'[d] = "live" /\ pc'[r] = "commit")
      BY <1>0, <2>1, <2>3, <2>5 DEF Locks, locals, rows, Unrevoked
    <3>2. kind'[r] = kind[r] /\ pc'[r] = pc[r]
          /\ InChange(r)' = InChange(r) /\ challenge' = challenge
          /\ userLock' = userLock /\ challengeLock' = challengeLock
      BY <2>1 DEF locals, rows, InChange
    <3> QED BY <1>0, <2>1, <3>1, <3>2 DEF Locks
  <2>8. SweepsChallenges(r)'
    BY <1>0, <2>1, <2>2 DEF SweepsChallenges, locals, rows, InChange, Saw, Pending
  <2>9. SweepsSessions(r)'
    BY <1>0, <2>1, <2>2, <2>3 DEF SweepsSessions, Target, Unrevoked, locals, rows
  <2> QED BY <2>4, <2>6, <2>7, <2>8, <2>9 DEF Own
<1>8. CASE AllVisited(r)
  <2>1. /\ pc[r] \in {"endingChallenges", "endingOthers"} /\ want[r] = {}
        /\ Goto(r, After(kind[r], pc[r]))
        /\ UNCHANGED <<account, rows, locks, proofs, locals, want, doomed>>
    BY <1>8 DEF AllVisited
  <2>2. PICK place : /\ pc'[r] = place /\ \A q \in Requests \ {r} : pc'[q] = pc[q]
                     /\ place = After(kind[r], pc[r])
    BY <2>1, PlaceTypes, AfterPlaces DEF Types
  <2>3. Moves(r)
    BY <2>1, <2>2, StatementOthers, QuietMoves DEF Quiet, account, locks
  <2>4. kind[r] \in Revoking
    BY <1>0, <2>1 DEF Fits
  <2>5. \/ pc[r] = "endingChallenges" /\ place = "others"
        \/ pc[r] = "endingOthers" /\ place = "rotate" /\ kind[r] # "resetPassword"
        \/ pc[r] = "endingOthers" /\ place = "commit" /\ kind[r] = "resetPassword"
    BY <2>1, <2>2 DEF After
  <2>6. Fits(r)' /\ Fresh(r)' /\ About(r)' /\ Claimed(r)' /\ Proven(r)'
    BY <1>0, <2>1, <2>2, <2>4, <2>5 DEF Fits, Fresh, About, Claimed, Proven, locals, rows,
       account, InChange, StillPresented, FactorsStillCurrent, Revoking, Rotating, FactorChange,
          Changing
  <2>7. Locks(r)'
    <3>1. /\ kind' = kind /\ self' = self /\ presented' = presented /\ subject' = subject
          /\ status' = status /\ token' = token /\ challenge' = challenge
          /\ userLock' = userLock /\ sessionLock' = sessionLock /\ challengeLock' = challengeLock
      BY <2>1 DEF locals, rows, locks
    <3>2. InChange(r) /\ InChange(r)' /\ pc'[r] = place
      BY <2>1, <2>2, <2>5 DEF InChange
    <3>3. kind[r] # "password" /\ kind[r] # "code"
      BY <2>4 DEF Revoking, FactorChange
    <3>4. userLock = r <=> kind[r] \in Changing
      BY <1>0, <3>2, <3>3 DEF Locks
    <3>5. \A c \in Challenges : challengeLock[c] = r => challenge[c] = "pending"
      BY <1>0 DEF Locks
    <3>6. \A s \in Sessions : sessionLock[s] = r =>
            Unrevoked(s) /\ place \in {"endingOthers", "rotate", "commit"} /\ s # self[r]
      <4>1. \A s \in Sessions : sessionLock[s] = r =>
              Unrevoked(s) /\ pc[r] = "endingOthers" /\ s # self[r]
        BY <1>0, <2>1 DEF Locks
      <4> QED BY <2>5, <4>1
    <3>7. place = "commit" => kind[r] \notin Rotating
      BY <2>5 DEF Rotating, FactorChange
    <3>8. place # "challenges"
      BY <2>5
    <3> HIDE <2>5
    <3>9. \A s \in Sessions : Unrevoked(s)' <=> Unrevoked(s)
      BY <3>1 DEF Unrevoked
    <3> QED BY <2>4, <3>1, <3>2, <3>3, <3>4, <3>5, <3>6, <3>7, <3>8, <3>9 DEF Locks
  <2>8. SweepsChallenges(r)'
    BY <1>0, <2>1, <2>2, <2>4, <2>5 DEF SweepsChallenges, locals, rows, locks, InChange, Saw,
       Pending
  <2>9. SweepsSessions(r)'
    BY <1>0, <2>1, <2>2, <2>5 DEF SweepsSessions, Target, Unrevoked, locals, rows, locks
  <2> QED BY <2>3, <2>6, <2>7, <2>8, <2>9 DEF Own
<1>9. CASE EndOne(r)
  <2>1. /\ pc[r] = "one" /\ Goto(r, "rotate")
        /\ UNCHANGED <<account, rows, userLock, challengeLock, proofs, locals, want, doomed>>
    BY <1>9 DEF EndOne, After
  <2>2. pc'[r] = "rotate" /\ \A q \in Requests \ {r} : pc'[q] = pc[q]
    BY <2>1, PlaceTypes DEF Types, Places
  <2>3. kind[r] = "revokeSession" /\ subject[r] \in Sessions \ {self[r]}
    BY <1>0, <2>1 DEF Fits, About
  <2>4. \A s \in Sessions :
          \/ sessionLock'[s] = sessionLock[s]
          \/ s = subject[r] /\ Unrevoked(s) /\ sessionLock[s] = Nobody /\ sessionLock'[s] = r
    BY <1>9, <2>3 DEF EndOne, Types, LockTypes
  <2>5. Moves(r)
    BY <2>1, <2>2, <2>4, StatementOthers, QuietMoves DEF Quiet, account
  <2>6. Fits(r)' /\ Fresh(r)' /\ About(r)' /\ Claimed(r)' /\ Proven(r)'
    BY <1>0, <2>1, <2>2, <2>3 DEF Fits, Fresh, About, Claimed, Proven, locals, rows,
       account, InChange, Rotating, FactorChange
  <2>7. Locks(r)'
    <3>1. \A s \in Sessions : sessionLock'[s] = r =>
            Unrevoked(s)' /\ s # self'[r]
      BY <1>0, <2>1, <2>3, <2>4 DEF Locks, locals, rows, Unrevoked
    <3> QED BY <1>0, <2>1, <2>2, <2>3, <3>1 DEF Locks, InChange, locals, rows, Changing,
       FactorChange
  <2>8. SweepsChallenges(r)' /\ SweepsSessions(r)'
    BY <2>1, <2>2, <2>3 DEF SweepsChallenges, SweepsSessions, Saw, locals, Revoking, Changing,
       FactorChange
  <2> QED BY <2>5, <2>6, <2>7, <2>8 DEF Own
<1>10. CASE Rotate(r)
  <2>0. pc[r] = "rotate" /\ UNCHANGED <<account, rows, proofs, locals, doomed>>
    BY <1>10 DEF Rotate
  <2>1. CASE StillPresented(r)
    <3>1. /\ sessionLock[self[r]] = Nobody
          /\ sessionLock' = [sessionLock EXCEPT ![self[r]] = r]
          /\ pc' = [pc EXCEPT ![r] = "commit"]
          /\ UNCHANGED <<userLock, challengeLock, want>>
      BY <1>10, <2>1 DEF Rotate, Goto
    <3>2. pc'[r] = "commit" /\ \A q \in Requests \ {r} : pc'[q] = pc[q]
      BY <3>1 DEF Types, PcTypes
    <3>3. kind[r] \in Rotating /\ self[r] \in Sessions
      BY <1>0, <2>0 DEF Fits, About
    <3>4. sessionLock'[self[r]] = r
          /\ \A s \in Sessions \ {self[r]} : sessionLock'[s] = sessionLock[s]
      BY <3>1, <3>3 DEF Types, LockTypes
    <3>5. Moves(r)
      BY <2>0, <3>1, <3>2, <3>3, <3>4, StatementOthers, QuietMoves DEF Quiet, account
    <3>6. Fits(r)' /\ Fresh(r)' /\ About(r)' /\ Claimed(r)' /\ Proven(r)'
      BY <1>0, <2>0, <2>1, <3>2, <3>3 DEF Fits, Fresh, About, Claimed, Proven, locals, rows,
         account, InChange, Rotating, FactorChange, StillPresented, Changing
    <3>7. Locks(r)'
      <4>1. \A s \in Sessions : sessionLock'[s] = r =>
              Unrevoked(s)' /\ (s = self'[r] => status'[s] = "live")
        BY <1>0, <2>0, <2>1, <3>3, <3>4 DEF Locks, locals, rows, Unrevoked, StillPresented
      <4>2. token'[self'[r]] = presented'[r] /\ sessionLock'[self'[r]] = r
        BY <2>0, <2>1, <3>4 DEF locals, rows, StillPresented
      <4> QED BY <1>0, <2>0, <3>1, <3>2, <3>3, <4>1, <4>2 DEF Locks, InChange, locals, rows,
         Rotating,
                 FactorChange, Changing
    <3>8. SweepsChallenges(r)'
      BY <1>0, <2>0, <3>1, <3>2, <3>3 DEF SweepsChallenges, locals, rows, InChange, Saw, Pending
    <3>9. SweepsSessions(r)'
      BY <1>0, <2>0, <3>1, <3>2, <3>4 DEF SweepsSessions, Target, Unrevoked, locals, rows
    <3> QED BY <3>5, <3>6, <3>7, <3>8, <3>9 DEF Own
  <2>2. CASE ~StillPresented(r)
    BY <1>10, <2>0, <2>2, RestartsOwn DEF Rotate, RollsBack, Quiet, account, Own
  <2> QED BY <2>1, <2>2
<1>11. CASE CommitSignIn(r)
  BY <1>11, SignInWrites
<1>12. ASSUME NEW step \in Steps, CommitChange(r, step) PROVE Own(r)' /\ Moves(r)
  BY <1>12, ChangeWrites
<1>13. CASE AbandonReset(r)
  BY <1>13, RestartsOwn DEF AbandonReset, RollsBack, Quiet, account
<1>14. CASE Abort(r)
  <2>1. /\ Releases(r) /\ UNCHANGED <<account, rows, proofs, locals, doomed>>
        /\ Goto(r, "refused") \/ Goto(r, First(kind[r]))
    BY <1>14 DEF Abort
  <2>2. Holders(r) # {}
    BY <1>14 DEF Abort, InCircle
  <2>3. pc[r] \in {"prove", "factors", "claim", "endingChallenges", "endingOthers", "one", "rotate"}
    BY <2>2 DEF Holders
  <2> QED BY <2>1, <2>3, RestartsOwn DEF Quiet, account, InChange
<1> QED BY <1>1, <1>2, <1>3, <1>4, <1>5, <1>6, <1>7, <1>8, <1>9, <1>10, <1>11, <1>12, <1>13, <1>14
        DEF Runs

-----------------------------------------------------------------------------
(* Every step: whose it is, and what it leaves.                            *)

(* A request's own step before its transaction ends rows and opens none.   *)
LEMMA AsksKeep ==
    ASSUME Types, NEW r \in Requests, Own(r), Asks(r)
    PROVE  /\ UNCHANGED <<password, secret, secrets, author, proofs>>
           /\ \A s \in Sessions : status'[s] = status[s] \/ status'[s] = "ended"
           /\ \A c \in Challenges : challenge'[c] = challenge[c] \/ challenge'[c] = "gone"
<1>1. ASSUME NEW s \in Sessions \cup {Nobody}, PasswordStep(r, s)
      PROVE  UNCHANGED <<account, rows, proofs>>
  BY <1>1 DEF PasswordStep
<1>2. ASSUME NEW c \in Challenges, NEW s \in Sessions \cup {Nobody}, CodeStep(r, c, s)
      PROVE  UNCHANGED <<account, rows, proofs>>
  BY <1>2 DEF CodeStep
<1>3. ASSUME NEW k \in Rotating \cup {"logout"}, NEW s \in Sessions, Arrive(r, k, s)
      PROVE  UNCHANGED <<account, rows, proofs>>
  BY <1>3 DEF Arrive
<1>4. ASSUME NEW x \in Sessions, Reauthenticate(r, x) PROVE UNCHANGED <<account, rows, proofs>>
  BY <1>4 DEF Reauthenticate
<1>5. ASSUME NEW step \in Steps, NEW right \in BOOLEAN, SpendStep(r, step, right)
      PROVE  UNCHANGED <<password, secret, secrets, author, rows, proofs>>
  BY <1>5 DEF SpendStep
<1>6. ASSUME NEW right \in BOOLEAN, SpendRecovery(r, right)
      PROVE  UNCHANGED <<password, secret, secrets, author, rows, proofs>>
  BY <1>6 DEF SpendRecovery
<1>7. CASE Consume(r)
  BY <1>7 DEF Consume, account, Types, RowTypes
<1>8. CASE Retire(r)
  BY <1>8 DEF Retire, account, Types, RowTypes
<1>9. CASE Logout(r)
  BY <1>9 DEF Logout, account, Types, RowTypes
<1>10. CASE UNCHANGED <<account, rows, proofs>>
  BY <1>10 DEF account, rows
<1>11. CASE UNCHANGED <<password, secret, secrets, author, rows, proofs>>
  BY <1>11 DEF rows
<1>12. ReadForCode(r) \/ ArriveReset(r) => UNCHANGED <<account, rows, proofs>>
  BY DEF ReadForCode, ArriveReset
<1> QED BY <1>1, <1>2, <1>3, <1>4, <1>5, <1>6, <1>7, <1>8, <1>9, <1>10, <1>11, <1>12 DEF Asks

(* A statement, or a transaction that fails, writes nothing.               *)
LEMMA RunsKeep ==
    ASSUME NEW r \in Requests, Runs(r), ~CommitSignIn(r),
           \A step \in Steps : ~CommitChange(r, step)
    PROVE  UNCHANGED <<account, rows, proofs, accepted>>
<1>1. ASSUME NEW c \in Challenges, EndChallenge(r, c)
      PROVE  UNCHANGED <<account, rows, proofs, accepted>>
  BY <1>1 DEF EndChallenge
<1>2. ASSUME NEW s \in Sessions, EndSession(r, s)
      PROVE  UNCHANGED <<account, rows, proofs, accepted>>
  BY <1>2 DEF EndSession
<1>3. CASE Prove(r) \/ Claim(r) \/ LockAccount(r) \/ FindChallenges(r)
  BY <1>3 DEF Prove, Claim, LockAccount, FindChallenges
<1>4. CASE FindSessions(r) \/ AllVisited(r) \/ EndOne(r) \/ Rotate(r)
  BY <1>4 DEF FindSessions, AllVisited, EndOne, Rotate
<1>5. CASE AbandonReset(r) \/ Abort(r)
  BY <1>5 DEF AbandonReset, Abort
<1> QED BY <1>1, <1>2, <1>3, <1>4, <1>5 DEF Runs

(* Time ends sessions and challenges that nobody has locked.               *)
LEMMA TimeMoves ==
    ASSUME Types, TimePasses
    PROVE  /\ Moves(Nobody)
           /\ UNCHANGED <<account, proofs, accepted, pc>>
           /\ \A s \in Sessions : Unrevoked(s)' => Unrevoked(s)
           /\ \A c \in Challenges : challenge'[c] = "pending" => challenge[c] = "pending"
<1> USE RequestNames
<1>1. UNCHANGED <<account, proofs, accepted, pc, token, locks, locals, want, doomed>>
  BY DEF TimePasses, SessionExpires, ChallengeExpires
<1>2. Others(Nobody) /\ KindMove(Nobody)
  BY <1>1 DEF Others, KindMove, locks, locals
<1>3. ASSUME NEW s \in Sessions, SessionExpires(s)
      PROVE  /\ SessionsMove(Nobody) /\ ChallengesMove(Nobody) /\ challenge' = challenge
             /\ \A x \in Sessions : Unrevoked(x)' => Unrevoked(x)
  BY <1>1, <1>3 DEF SessionExpires, SessionsMove, ChallengesMove, Unrevoked, Types, RowTypes
<1>4. ASSUME NEW c \in Challenges, ChallengeExpires(c)
      PROVE  /\ SessionsMove(Nobody) /\ ChallengesMove(Nobody) /\ status' = status
             /\ \A d \in Challenges : challenge'[d] = "pending" => challenge[d] = "pending"
  BY <1>1, <1>4 DEF ChallengeExpires, SessionsMove, ChallengesMove, Types, RowTypes
<1>5. FactorsMove(Nobody)
  BY <1>1 DEF FactorsMove, account
<1> QED BY <1>1, <1>2, <1>3, <1>4, <1>5 DEF TimePasses, Moves, Unrevoked

(* The invariants about sessions and challenges survive a step that        *)
(* changes no factor and only ends rows.                                   *)
LEMMA OnlyEnds ==
    ASSUME NoSessionOutlivesChange, WaitsOnlyWhileAsked,
           UNCHANGED <<password, secret, author, proofs>>,
           \A s \in Sessions : Unrevoked(s)' => Unrevoked(s),
           \A c \in Challenges : challenge'[c] = "pending" => challenge[c] = "pending"
    PROVE  NoSessionOutlivesChange' /\ WaitsOnlyWhileAsked'
BY DEF NoSessionOutlivesChange, WaitsOnlyWhileAsked, proofs

(* Sessions and challenges end with what they proved, at every step.       *)
LEMMA NextFactors ==
    ASSUME IInv, Next
    PROVE  NoSessionOutlivesChange' /\ WaitsOnlyWhileAsked'
<1> USE RequestNames
<1>1. Types /\ NoSessionOutlivesChange /\ WaitsOnlyWhileAsked /\ \A r \in Requests : Own(r)
  BY TypesAre DEF IInv
<1>2. CASE TimePasses
  BY <1>1, <1>2, TimeMoves, OnlyEnds DEF account
<1>3. CASE AllAnswered
  BY <1>1, <1>3, OnlyEnds DEF AllAnswered, vars, account, rows, Unrevoked
<1>4. ASSUME NEW r \in Requests, Asks(r) PROVE NoSessionOutlivesChange' /\ WaitsOnlyWhileAsked'
  BY <1>1, <1>4, AsksKeep, OnlyEnds DEF Unrevoked
<1>5. ASSUME NEW r \in Requests, CommitSignIn(r)
      PROVE  NoSessionOutlivesChange' /\ WaitsOnlyWhileAsked'
  <2>1. /\ UNCHANGED <<password, secret, author>>
        /\ \A s \in Sessions \ {r} :
             status'[s] = status[s] /\ provedPassword'[s] = provedPassword[s]
             /\ provedSecret'[s] = provedSecret[s]
        /\ \A c \in Challenges \ {r} :
             vouched'[c] = vouched[c] /\ (challenge'[c] = challenge[c] \/ challenge'[c] = "gone")
        /\ Unrevoked(r)' => /\ provedPassword'[r] = password
                            /\ secret # 0 => provedSecret'[r] = secret
        /\ challenge'[r] = "pending" => vouched'[r] = password /\ secret # 0
    BY <1>1, <1>5, SignInWrites DEF account
  <2> QED BY <1>1, <2>1 DEF NoSessionOutlivesChange, WaitsOnlyWhileAsked, Unrevoked
<1>6. ASSUME NEW r \in Requests, NEW step \in Steps, CommitChange(r, step)
      PROVE  NoSessionOutlivesChange' /\ WaitsOnlyWhileAsked'
  <2>1. /\ UNCHANGED proofs
        /\ \A s \in Sessions : status'[s] = status[s] \/ status'[s] = "ended"
        /\ \A c \in Challenges : challenge'[c] = challenge[c] \/ challenge'[c] = "gone"
        /\ \/ kind[r] \in Changing /\ author' = self[r]
              /\ (\A c \in Challenges : challenge'[c] # "pending")
              /\ (\A s \in Sessions \ {self[r]} : ~Unrevoked(s)')
           \/ kind[r] \notin Changing /\ UNCHANGED <<password, secret, author>>
    BY <1>1, <1>6, ChangeWrites
  <2>2. CASE kind[r] \in Changing
    BY <2>1, <2>2 DEF NoSessionOutlivesChange, WaitsOnlyWhileAsked
  <2>3. CASE kind[r] \notin Changing
    BY <1>1, <2>1, <2>3, OnlyEnds DEF Unrevoked
  <2> QED BY <2>2, <2>3
<1>7. ASSUME NEW r \in Requests, Runs(r) PROVE NoSessionOutlivesChange' /\ WaitsOnlyWhileAsked'
  <2>1. CASE UNCHANGED <<account, rows, proofs>>
    BY <1>1, <2>1, OnlyEnds DEF account, rows, Unrevoked
  <2> QED BY <1>5, <1>6, <1>7, <2>1, RunsKeep
<1> QED BY <1>2, <1>3, <1>4, <1>7 DEF Next

(* No step but a request's own moves it.                                   *)
LEMMA NextOwn ==
    ASSUME IInv, Next, Types'
    PROVE  /\ \A r \in Requests : Own(r)'
           /\ (\E r \in Requests \cup {Nobody} : Moves(r)) \/ UNCHANGED vars
<1> USE RequestNames
<1>1. Types /\ WaitsOnlyWhileAsked /\ \A r \in Requests : Own(r)
  BY TypesAre DEF IInv
<1>2. CASE TimePasses
  <2>1. Moves(Nobody)
    BY <1>1, <1>2, TimeMoves
  <2> QED BY <1>1, <2>1, MovesOwn
<1>3. CASE AllAnswered
  <2>1. UNCHANGED vars
    BY <1>3 DEF AllAnswered
  <2>2. Quiet /\ Others(Nobody) /\ KindMove(Nobody)
    BY <2>1 DEF vars, Quiet, account, rows, proofs, locks, locals, Others, KindMove
  <2>3. Moves(Nobody)
    BY <2>2, QuietMoves
  <2> QED BY <1>1, <2>3, MovesOwn
<1>4. ASSUME NEW r \in Requests, Asks(r) \/ Runs(r) PROVE Moves(r) /\ \A q \in Requests : Own(q)'
  <2>1. Own(r)' /\ Moves(r)
    BY <1>1, <1>4, AsksOwn, RunsOwn
  <2> QED BY <1>1, <2>1, MovesOwn
<1> QED BY <1>2, <1>3, <1>4 DEF Next

-----------------------------------------------------------------------------
(* The codes.                                                              *)
LEMMA CodesKept ==
    ASSUME Codes, UNCHANGED <<secret, secrets, lastStep, recovery, accepted>>
    PROVE  Codes'
BY DEF Codes, Behind, CodeSpentOnce

(* One request's new code, when it is no one's yet.                        *)
LEMMA NewCode ==
    ASSUME Codes, NEW r \in Requests,
           Behind(accepted'[r], secrets', secret', lastStep', recovery'),
           \A q \in Requests \ {r} :
             /\ accepted'[q] = accepted[q]
             /\ accepted[q] # NoCode =>
                  /\ Behind(accepted[q], secrets', secret', lastStep', recovery')
                  /\ accepted[q] # accepted'[r],
           secret' <= secrets', recovery' => secret' # 0
    PROVE  Codes'
<1>1. \A q \in Requests : accepted'[q] # NoCode =>
        Behind(accepted'[q], secrets', secret', lastStep', recovery')
  OBVIOUS
<1>2. CodeSpentOnce'
  <2>1. accepted'[r] # NoCode
    BY CodeAssumption DEF Behind
  <2> QED BY <2>1 DEF CodeSpentOnce, Codes
<1> QED BY <1>1, <1>2 DEF Codes

(* A time step is spent once: it is past every step spent before.          *)
LEMMA SpendCodes ==
    ASSUME Codes, Types, NEW r \in Requests, NEW step \in Steps, NEW right \in BOOLEAN,
           SpendStep(r, step, right)
    PROVE  Codes'
<1>1. UNCHANGED <<secret, secrets, recovery>>
  BY DEF SpendStep
<1>2. CASE ~Unspent(r, step)
  BY <1>1, <1>2, CodesKept DEF SpendStep
<1>3. CASE Unspent(r, step)
  <2>1. /\ secret # 0 /\ secret = readSecret[r] /\ lastStep < step /\ lastStep' = step
        /\ accepted' = [accepted EXCEPT ![r] = <<secret, step>>]
    BY <1>3 DEF SpendStep, Unspent
  <2>6. accepted'[r] = <<secret, step>> /\ \A q \in Requests \ {r} : accepted'[q] = accepted[q]
    BY <2>1 DEF Types, RestTypes
  <2>2. step \in Nat /\ step # 0 /\ secret \in Nat /\ secrets \in Nat /\ lastStep \in Nat
        /\ secret <= secrets
    BY StepAssumption DEF Types, AccountTypes, Codes
  <2>3. Behind(<<secret, step>>, secrets', secret', lastStep', recovery')
    BY <1>1, <2>1, <2>2 DEF Behind
  <2>4. ASSUME NEW q \in Requests \ {r}, accepted[q] # NoCode
        PROVE  /\ Behind(accepted[q], secrets', secret', lastStep', recovery')
               /\ accepted[q] # <<secret, step>>
    <3> DEFINE code == accepted[q]
    <3>1. /\ code \in Nat \X Nat /\ code[1] \in 1 .. secrets
          /\ code[1] = secret => code[2] <= lastStep
      BY <2>4 DEF Codes, Behind
    <3>2. code[1] = secret => (code[2] = 0 => ~recovery)
      BY <2>4 DEF Codes, Behind
    <3>3. code[2] \in Nat
      BY <3>1
    <3> HIDE DEF code
    <3>4. code[1] = secret => code[2] <= step /\ code[2] # step
      BY <2>1, <2>2, <3>1, <3>3
    <3>5. code # <<secret, step>>
      BY <3>4
    <3>6. Behind(code, secrets', secret', lastStep', recovery')
      BY <1>1, <2>1, <3>1, <3>2, <3>4 DEF Behind
    <3> QED BY <3>5, <3>6 DEF code
  <2>5. secret' <= secrets' /\ (recovery' => secret' # 0)
    BY <1>1, <2>1, <2>2
  <2> QED BY <2>3, <2>4, <2>5, <2>6, NewCode
<1> QED BY <1>2, <1>3

(* A recovery code is spent once: nobody had spent this secret's.          *)
LEMMA RecoveryCodes ==
    ASSUME Codes, Types, NEW r \in Requests, NEW right \in BOOLEAN, SpendRecovery(r, right)
    PROVE  Codes'
<1>1. UNCHANGED <<secret, secrets, lastStep>>
  BY DEF SpendRecovery
<1>2. CASE ~(recovery /\ secret = readSecret[r])
  BY <1>1, <1>2, CodesKept DEF SpendRecovery
<1>3. CASE recovery /\ secret = readSecret[r]
  <2>1. /\ recovery /\ secret = readSecret[r] /\ ~recovery'
        /\ accepted' = [accepted EXCEPT ![r] = <<secret, 0>>]
    BY <1>3, Zenon DEF SpendRecovery
  <2>7. accepted'[r] = <<secret, 0>> /\ \A q \in Requests \ {r} : accepted'[q] = accepted[q]
    BY <2>1 DEF Types, RestTypes
  <2>2. secret # 0
    BY <2>1 DEF Codes
  <2>3. secret \in Nat /\ secrets \in Nat /\ lastStep \in Nat /\ secret <= secrets
    BY DEF Types, AccountTypes, Codes
  <2>4. Behind(<<secret, 0>>, secrets', secret', lastStep', recovery')
    BY <1>1, <2>1, <2>2, <2>3 DEF Behind
  <2>5. ASSUME NEW q \in Requests \ {r}, accepted[q] # NoCode
        PROVE  /\ Behind(accepted[q], secrets', secret', lastStep', recovery')
               /\ accepted[q] # <<secret, 0>>
    BY <1>1, <2>1, <2>5 DEF Codes, Behind
  <2>6. secret' <= secrets' /\ (recovery' => secret' # 0)
    BY <1>1, <2>1, <2>3
  <2> QED BY <2>4, <2>5, <2>6, <2>7, NewCode
<1> QED BY <1>2, <1>3

(* A new secret makes its codes new; none makes every code stale.          *)
LEMMA ChangeCodes ==
    ASSUME Codes, Types, NEW r \in Requests, NEW step \in Steps, CommitChange(r, step)
    PROVE  Codes'
<1>0. step \in Nat /\ step # 0 /\ secret \in Nat /\ secrets \in Nat /\ lastStep \in Nat
      /\ secret <= secrets
  BY StepAssumption DEF Types, AccountTypes, Codes
<1>1. Writes(r, step)
  BY DEF CommitChange
<1>2. CASE kind[r] = "confirmTotpSetup"
  <2>1. /\ secret' = secrets + 1 /\ secrets' = secrets + 1 /\ lastStep' = step
        /\ accepted' = [accepted EXCEPT ![r] = <<secrets + 1, step>>]
    BY <1>1, <1>2 DEF Writes, Enrols, CommitChange
  <2>4. accepted'[r] = <<secrets + 1, step>> /\ \A q \in Requests \ {r} : accepted'[q] = accepted[q]
    BY <2>1 DEF Types, RestTypes
  <2>2. Behind(<<secrets + 1, step>>, secrets', secret', lastStep', recovery')
    BY <1>0, <2>1 DEF Behind
  <2>3. ASSUME NEW q \in Requests \ {r}, accepted[q] # NoCode
        PROVE  /\ Behind(accepted[q], secrets', secret', lastStep', recovery')
               /\ accepted[q] # <<secrets + 1, step>>
    <3>1. accepted[q] \in Nat \X Nat /\ accepted[q][1] \in 1 .. secrets
      BY <2>3 DEF Codes, Behind
    <3>2. accepted[q][1] # secrets + 1 /\ accepted[q][1] \in 1 .. (secrets + 1)
      BY <1>0, <3>1
    <3> QED BY <2>1, <3>1, <3>2 DEF Behind
  <2>5. secret' <= secrets' /\ secret' # 0
    BY <1>0, <2>1
  <2> QED BY <2>2, <2>3, <2>4, <2>5, NewCode
<1>3. CASE kind[r] = "disableTotp"
  <2>1. secret' = 0 /\ secrets' = secrets /\ accepted' = accepted
    BY <1>1, <1>3 DEF Writes, Disables, CommitChange
  <2>2. ~recovery'
    BY <1>1, <1>3 DEF Writes, Disables
  <2>3. ASSUME NEW q \in Requests, accepted[q] # NoCode
        PROVE  Behind(accepted[q], secrets', secret', lastStep', recovery')
    <3>1. accepted[q] \in Nat \X Nat /\ accepted[q][1] \in 1 .. secrets
      BY <2>3 DEF Codes, Behind
    <3>2. accepted[q][1] # 0
      BY <1>0, <3>1
    <3> QED BY <2>1, <3>1, <3>2 DEF Behind
  <2> QED BY <1>0, <2>1, <2>2, <2>3 DEF Codes, CodeSpentOnce
<1>4. CASE kind[r] \notin {"confirmTotpSetup", "disableTotp"}
  <2>1. UNCHANGED <<secret, secrets, lastStep, recovery>>
    <3>1. CASE kind[r] \in {"changePassword", "resetPassword"}
      BY <1>1, <3>1 DEF Writes, NewPassword
    <3>2. CASE kind[r] \notin {"changePassword", "resetPassword"}
      BY <1>1, <1>4, <3>2 DEF Writes
    <3> QED BY <3>1, <3>2
  <2>2. accepted' = accepted
    BY <1>4 DEF CommitChange
  <2> QED BY <2>1, <2>2, CodesKept
<1> QED BY <1>2, <1>3, <1>4

(* Codes stay spent, at every step.                                        *)
LEMMA NextCodes ==
    ASSUME Codes, Types, Next
    PROVE  Codes'
<1>1. CASE TimePasses
  BY <1>1, TimeMoves, CodesKept DEF account
<1>2. CASE AllAnswered
  BY <1>2, CodesKept DEF AllAnswered, vars, account
<1>3. ASSUME NEW r \in Requests, Runs(r) PROVE Codes'
  <2>1. CASE CommitSignIn(r)
    BY <2>1, CodesKept DEF CommitSignIn, account
  <2>2. ASSUME NEW step \in Steps, CommitChange(r, step) PROVE Codes'
    BY <2>2, ChangeCodes
  <2>3. CASE UNCHANGED <<account, accepted>>
    BY <2>3, CodesKept DEF account
  <2> QED BY <1>3, <2>1, <2>2, <2>3, RunsKeep
<1>4. ASSUME NEW r \in Requests, Asks(r) PROVE Codes'
  <2>1. CASE UNCHANGED <<account, accepted>>
    BY <2>1, CodesKept DEF account
  <2>2. ASSUME NEW s \in Sessions \cup {Nobody}, PasswordStep(r, s)
        PROVE  UNCHANGED <<account, accepted>>
    BY <2>2 DEF PasswordStep
  <2>3. ASSUME NEW c \in Challenges, NEW s \in Sessions \cup {Nobody}, CodeStep(r, c, s)
        PROVE  UNCHANGED <<account, accepted>>
    BY <2>3 DEF CodeStep
  <2>4. ASSUME NEW k \in Rotating \cup {"logout"}, NEW s \in Sessions, Arrive(r, k, s)
        PROVE  UNCHANGED <<account, accepted>>
    BY <2>4 DEF Arrive
  <2>5. ASSUME NEW x \in Sessions, Reauthenticate(r, x) PROVE UNCHANGED <<account, accepted>>
    BY <2>5 DEF Reauthenticate
  <2>6. ReadForCode(r) \/ Consume(r) \/ ArriveReset(r) \/ Retire(r) \/ Logout(r)
          => UNCHANGED <<account, accepted>>
    BY DEF ReadForCode, Consume, ArriveReset, Retire, Logout
  <2> QED BY <1>4, <2>1, <2>2, <2>3, <2>4, <2>5, <2>6, SpendCodes, RecoveryCodes DEF Asks
<1> QED BY <1>1, <1>2, <1>3, <1>4 DEF Next

-----------------------------------------------------------------------------
(* The invariant, and what follows from it.                                *)
LEMMA InitIInv == Init => IInv
<1> SUFFICES ASSUME Init PROVE IInv
  OBVIOUS
<1> USE RequestNames
<1>1. TypeOK
  BY InitTypes, TypesAre
<1>2. /\ password = 1 /\ secret \in {0, 1} /\ secrets = 1 /\ author = Nobody
      /\ status = [s \in Sessions |-> IF s \in OldSessions THEN "live" ELSE "unused"]
      /\ challenge = [c \in Challenges |->
                        IF c \in OldChallenges /\ secret = 1 THEN "pending" ELSE "unused"]
      /\ userLock = Nobody
      /\ sessionLock = [s \in Sessions |-> Nobody]
      /\ challengeLock = [c \in Challenges |-> Nobody]
      /\ provedPassword = [s \in Sessions |-> 1]
      /\ provedSecret = [s \in Sessions |-> secret]
      /\ vouched = [c \in Challenges |-> 1]
      /\ kind = [r \in Requests |-> "none"]
      /\ pc = [r \in Requests |-> "idle"]
      /\ self = [r \in Requests |-> Nobody]
      /\ accepted = [r \in Requests |-> NoCode]
  BY DEF Init
<1>3. recovery => secret = 1
  BY Zenon DEF Init
<1>4. ASSUME NEW r \in Requests PROVE Own(r)
  <2>1. /\ kind[r] = "none" /\ pc[r] = "idle" /\ self[r] = Nobody
        /\ status[r] = "unused" /\ challenge[r] = "unused"
    BY <1>2, NameAssumption
  <2>2. /\ userLock # r /\ \A s \in Sessions : sessionLock[s] # r
        /\ \A c \in Challenges : challengeLock[c] # r
    BY <1>2
  <2>3. /\ kind[r] \notin Rotating /\ kind[r] \notin Changing /\ kind[r] \notin Revoking
        /\ kind[r] \notin FactorChange /\ ~InChange(r)
    BY <2>1 DEF Rotating, Changing, Revoking, FactorChange, InChange
  <2> QED BY <2>1, <2>2, <2>3 DEF Own, Fits, Fresh, About, Locks, Claimed, Proven, SweepsChallenges,
             SweepsSessions, Saw
<1>5. Codes
  BY <1>2, <1>3 DEF Codes, CodeSpentOnce
<1>6. NoSessionOutlivesChange /\ WaitsOnlyWhileAsked
  BY <1>2 DEF NoSessionOutlivesChange, WaitsOnlyWhileAsked
<1> QED BY <1>1, <1>4, <1>5, <1>6 DEF IInv

(* The invariant survives a stuttering step.                               *)
LEMMA UnchangedIInv == IInv /\ UNCHANGED vars => IInv'
<1> SUFFICES ASSUME IInv, UNCHANGED vars PROVE IInv'
  OBVIOUS
<1>1. /\ UNCHANGED <<password, secret, secrets, lastStep, recovery, author>>
      /\ UNCHANGED <<status, token, challenge, userLock, sessionLock, challengeLock>>
      /\ UNCHANGED <<provedPassword, provedSecret, vouched>>
      /\ UNCHANGED <<kind, self, presented, subject, readPassword, readSecret>>
      /\ UNCHANGED <<pc, want, attempts, accepted, doomed>>
  BY DEF vars, account, rows, locks, proofs, locals
<1>2. Types'
  BY NextTypes, TypesAre DEF IInv, Own
<1>3. ASSUME NEW r \in Requests PROVE Own(r)'
  <2>1. Own(r)
    BY DEF IInv
  <2>2. Fits(r)' /\ Fresh(r)' /\ About(r)' /\ Locks(r)' /\ Claimed(r)' /\ Proven(r)'
    BY <1>1, <2>1 DEF Own, Fits, Fresh, About, Locks, Claimed, Proven, InChange, Unrevoked,
       FactorsStillCurrent, StillPresented
  <2>3. SweepsChallenges(r)' /\ SweepsSessions(r)'
    BY <1>1, <2>1 DEF Own, SweepsChallenges, SweepsSessions, Saw, InChange, Pending, Target,
       Unrevoked
  <2> QED BY <2>2, <2>3 DEF Own
<1>4. Codes'
  BY <1>1, CodesKept DEF IInv
<1>5. NoSessionOutlivesChange' /\ WaitsOnlyWhileAsked'
  BY <1>1, OnlyEnds DEF IInv, proofs, Unrevoked
<1> QED BY <1>2, <1>3, <1>4, <1>5, TypesAreNext DEF IInv

(* The invariant survives every step.                                      *)
LEMMA NextIInv == IInv /\ [Next]_vars => IInv'
<1> SUFFICES ASSUME IInv, Next PROVE IInv'
  BY UnchangedIInv
<1>1. Types /\ Codes /\ \A r \in Requests : About(r)
  BY TypesAre DEF IInv, Own
<1>2. Types'
  BY <1>1, NextTypes
<1>3. \A r \in Requests : Own(r)'
  BY <1>2, NextOwn
<1>4. NoSessionOutlivesChange' /\ WaitsOnlyWhileAsked'
  BY NextFactors
<1>5. Codes'
  BY <1>1, NextCodes
<1> QED BY <1>2, <1>3, <1>4, <1>5, TypesAreNext DEF IInv

(* The invariant holds in every state of every behaviour.                  *)
LEMMA Invariant == Spec => []IInv
BY InitIInv, NextIInv, PTL DEF Spec


(* Every variable keeps its type.                                          *)
THEOREM SignInTypes == Spec => []TypeOK
<1>1. IInv => TypeOK
  BY DEF IInv
<1> QED BY <1>1, Invariant, PTL

(* auth.ts:513-527, 700-709.  No session that works, or only expired, was  *)
(* proved with a password or a second factor the account has since changed *)
(* unless it made the last change itself.  IInv makes this inductive: what *)
(* a sign-in read is still so when it commits (Proven), for the account's  *)
(* row or its challenge is locked, and a change that commits has locked    *)
(* every other session and challenge there is (the two sweeps).            *)
THEOREM SessionsEndWithTheirProof == Spec => []NoSessionOutlivesChange
<1>1. IInv => NoSessionOutlivesChange
  BY DEF IInv
<1> QED BY <1>1, Invariant, PTL

(* auth.ts:656-672, 684-696.  A challenge is pending only while the        *)
(* password it was opened with is the account's and a code is asked for.   *)
THEOREM ChallengesEndWithTheirProof == Spec => []WaitsOnlyWhileAsked
<1>1. IInv => WaitsOnlyWhileAsked
  BY DEF IInv
<1> QED BY <1>1, Invariant, PTL

(* totpAcceptance.ts:16-18, recoveryCodes.ts:14.  No two requests get      *)
(* anywhere with one code of one enrolment.                                *)
THEOREM NoCodeTwice == Spec => []CodeSpentOnce
<1>1. IInv => CodeSpentOnce
  BY DEF IInv, Codes
<1> QED BY <1>1, Invariant, PTL

(* auth.ts:185-186.  A session that ended or expired never works again.    *)
THEOREM NoSessionReturns == Spec => EndedStaysEnded
<1>1. ASSUME IInv, [Next]_vars
      PROVE  [\A s \in Sessions : status[s] \in {"expired", "ended"} => status'[s] # "live"]_vars
  <2>1. ASSUME NEW r \in Requests \cup {Nobody}, Moves(r), NEW s \in Sessions,
               status[s] \in {"expired", "ended"}
        PROVE  status'[s] # "live"
    BY <2>1 DEF Moves, SessionsMove, Unrevoked
  <2>2. CASE Next
    <3>1. Types'
      BY <1>1, <2>2, NextTypes, TypesAre DEF IInv, Own
    <3> QED BY <1>1, <2>1, <2>2, <3>1, NextOwn
  <2> QED BY <1>1, <2>2
<1> QED BY <1>1, Invariant, PTL DEF Spec, EndedStaysEnded

(* auth.ts:529-538.  A change that commits was authenticated against the   *)
(* password and the second factor the account still has: its session, with *)
(* the token it presented, has been locked, and a change to the factors    *)
(* by anyone else would have ended or rotated it.                          *)
THEOREM NoChangeOnOldProof == Spec => ChangeProvenAtCommit
<1>1. IInv => \A r \in Requests :
                Commits(r) /\ kind[r] \in FactorChange =>
                    readPassword[r] = password /\ readSecret[r] = secret
  <2> SUFFICES ASSUME IInv, NEW r \in Requests, pc[r] = "commit", kind[r] \in FactorChange
               PROVE  readPassword[r] = password /\ readSecret[r] = secret
    BY DEF Commits
  <2>1. Locks(r) /\ About(r) /\ Proven(r) /\ InChange(r) /\ kind[r] \in Rotating
    BY DEF IInv, Own, InChange, Rotating
  <2>2. self[r] \in Sessions /\ sessionLock[self[r]] = r /\ token[self[r]] = presented[r]
    BY <2>1 DEF Locks, About
  <2>3. StillPresented(r)
    BY <2>1, <2>2 DEF Locks, StillPresented
  <2> QED BY <2>1, <2>3 DEF Proven
<1>2. ASSUME IInv
      PROVE  [\A r \in Requests :
                Commits(r) /\ kind[r] \in FactorChange =>
                    readPassword[r] = password /\ readSecret[r] = secret]_vars
  BY <1>1, <1>2
<1> QED BY <1>2, Invariant, PTL DEF Spec, ChangeProvenAtCommit

(* The step that commits a revocation is its own.                          *)
LEMMA CommitsItself ==
    ASSUME IInv, Next, Types', NEW r \in Requests, Commits(r), kind[r] \in Revoking
    PROVE  \E step \in Steps : CommitChange(r, step)
<1> USE RequestNames
<1>1. Types /\ WaitsOnlyWhileAsked /\ \A q \in Requests : Own(q)
  BY TypesAre DEF IInv
<1>2. pc[r] = "commit" /\ pc'[r] = "done"
  BY DEF Commits
<1>3. ~TimePasses /\ ~AllAnswered
  BY <1>1, <1>2, TimeMoves DEF AllAnswered, vars
<1>4. PICK q \in Requests : Asks(q) \/ Runs(q)
  BY <1>3 DEF Next
<1>5. q = r
  <2>1. Others(q)
    BY <1>1, <1>4, AsksOwn, RunsOwn DEF Moves
  <2> QED BY <1>2, <2>1 DEF Others
<1>6. ~Asks(r)
  BY <1>2 DEF Asks, PasswordStep, CodeStep, ReadForCode, Consume, Arrive, ArriveReset,
              Reauthenticate, SpendStep, SpendRecovery, Retire, Logout
<1>7. Runs(r)
  BY <1>4, <1>5, <1>6
<1>8. ~CommitSignIn(r)
  BY DEF CommitSignIn, Revoking, FactorChange
<1>9. ~AbandonReset(r)
  <2>1. Goto(r, "refused") => pc'[r] = "refused"
    BY <1>1 DEF Goto, Types, PcTypes
  <2> QED BY <1>2, <2>1 DEF AbandonReset, RollsBack
<1>10. ~Abort(r)
  <2>1. Holders(r) = {}
    BY <1>2 DEF Holders
  <2> QED BY <2>1 DEF Abort, InCircle
<1>11. ~Prove(r) /\ ~Claim(r) /\ ~LockAccount(r) /\ ~FindChallenges(r) /\ ~FindSessions(r)
       /\ ~AllVisited(r) /\ ~EndOne(r) /\ ~Rotate(r)
  BY <1>2 DEF Prove, Claim, LockAccount, FindChallenges, FindSessions, AllVisited, EndOne, Rotate
<1>12. (\A c \in Challenges : ~EndChallenge(r, c)) /\ (\A s \in Sessions : ~EndSession(r, s))
  BY <1>2 DEF EndChallenge, EndSession
<1> QED BY <1>7, <1>8, <1>9, <1>10, <1>11, <1>12 DEF Runs

(* auth.ts:684-699.  Ending the other sessions also ends every sign-in     *)
(* that waited for its code when it began, whichever of the two locks the  *)
(* challenge first.                                                        *)
THEOREM RevocationEndsSignIns == Spec => PendingSignInsEnd
<1>1. ASSUME IInv, Next, NEW r \in Requests, Commits(r), kind[r] \in Revoking, NEW c \in doomed[r]
      PROVE  /\ challenge'[c] = "gone"
             /\ \A q \in Requests :
                  kind[q] = "code" /\ subject[q] = c => status'[q] \in {"unused", "ended"}
  <2> USE RequestNames
  <2>1. Types /\ Own(r)
    BY <1>1, TypesAre DEF IInv
  <2>2. Types'
    BY <1>1, <2>1, NextTypes DEF IInv, Own
  <2>3. PICK step \in Steps : CommitChange(r, step)
    BY <1>1, <2>2, CommitsItself
  <2>4. pc[r] = "commit" /\ Saw(r)
    BY <1>1 DEF Commits, Saw, InChange
  <2>5. /\ \A s \in Sessions : status'[s] = IF sessionLock[s] # r THEN status[s]
                                            ELSE IF s = self[r] THEN "live" ELSE "ended"
        /\ \A d \in Challenges : challenge'[d] =
             IF challengeLock[d] = r THEN "gone" ELSE challenge[d]
    BY <2>3 DEF CommitChange
  <2>6. /\ c \in Challenges /\ challenge[c] \in {"pending", "gone"}
        /\ challenge[c] = "pending" => challengeLock[c] = r
        /\ \A q \in Requests : kind[q] = "code" /\ subject[q] = c => q # self[r]
    BY <1>1, <2>1, <2>4 DEF Own, SweepsChallenges, Types, RestTypes, RowTypes
  <2>7. challenge'[c] = "gone"
    BY <2>5, <2>6
  <2>8. ASSUME NEW q \in Requests, kind[q] = "code", subject[q] = c
        PROVE  status'[q] \in {"unused", "ended"}
    <3>1. q \in Sessions /\ q # self[r]
      BY <2>6, <2>8
    <3>2. Unrevoked(q) => sessionLock[q] = r
      <4>1. Unrevoked(q) => Target(r, q)
        BY <1>1, <2>8, <3>1 DEF Target
      <4> QED BY <1>1, <2>1, <2>4, <3>1, <4>1 DEF Own, SweepsSessions
    <3>3. status[q] \in {"unused", "live", "expired", "ended"}
      BY <2>1, <3>1 DEF Types, RowTypes
    <3>4. sessionLock[q] = r => Unrevoked(q)
      BY <2>1, <3>1 DEF Own, Locks
    <3> QED BY <2>5, <3>1, <3>2, <3>3, <3>4 DEF Unrevoked
  <2> QED BY <2>7, <2>8
<1>2. ASSUME IInv, UNCHANGED vars, NEW r \in Requests PROVE ~Commits(r)
  BY <1>2 DEF Commits, vars
<1>3. ASSUME IInv, [Next]_vars
      PROVE  [\A r \in Requests :
                Commits(r) /\ kind[r] \in Revoking =>
                    \A c \in doomed[r] :
                        /\ challenge'[c] = "gone"
                        /\ \A q \in Requests :
                             kind[q] = "code" /\ subject[q] = c =>
                                 status'[q] \in {"unused", "ended"}]_vars
  BY <1>1, <1>3
<1> QED BY <1>3, Invariant, PTL DEF Spec, PendingSignInsEnd

=============================================================================
