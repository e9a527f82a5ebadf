---------------------------- MODULE InferenceHalt ---------------------------
(***************************************************************************)
(* The instance-wide AI switch (src/lib/server/ai/inferenceHalt.ts) and      *)
(* the door every model call passes (requestLocalModel of                    *)
(* insights/local-llm.ts).  A halt writes a row and then aborts what is      *)
(* registered; a call registers and then reads the row.  A lift deletes      *)
(* the row in the transaction that rotates the administrator's session.      *)
(*                                                                           *)
(* A call is registered from its Enter to its result, which is left in       *)
(* door for its caller: "free" (the model did no work), "charged" or         *)
(* "answered".  The host's probe and the first reading of the model's        *)
(* identity are checked alike and are one phase, "connecting".               *)
(***************************************************************************)
EXTENDS Naturals

CONSTANTS
    Calls,      \* model calls, one of each request
    Presses     \* haltInference actions that may run at once (a bound)

VARIABLES
    halted,     \* the row of InferenceHalt, as committed
    lifting,    \* a lift deleted the row and has not committed
    press,      \* where each press is
    door,       \* where each call is
    aborted,    \* the calls whose controller was aborted
    upheld      \* history: a press found the row standing, no lift since

haltVars == <<halted, lifting, press, door, aborted, upheld>>

Results == {"free", "charged", "answered"}
PastTheRead == {"connecting", "generating", "confirming"}
Registered == {c \in Calls : door[c] = "reading" \/ door[c] \in PastTheRead}

HaltTypeOK ==
    /\ {halted, lifting, upheld} \subseteq BOOLEAN
    /\ press \in [Presses -> {"idle", "aborting"}]
    /\ door \in [Calls -> {"out", "reading"} \cup PastTheRead \cup Results]
    /\ aborted \subseteq Calls

HaltInit ==
    /\ halted \in BOOLEAN
    /\ lifting = FALSE
    /\ press = [p \in Presses |-> "idle"]
    /\ door = [c \in Calls |-> "out"]
    /\ aborted = {}
    /\ upheld = FALSE

-----------------------------------------------------------------------------
(* The door.                                                                 *)

Reaches(c, phase) ==
    /\ door' = [door EXCEPT ![c] = phase]
    /\ aborted' = IF phase \in Results THEN aborted \ {c} ELSE aborted
    /\ UNCHANGED <<halted, lifting, press, upheld>>

(* enterInference.                                                           *)
Enter(c) ==
    /\ door[c] = "out"
    /\ Reaches(c, "reading")

(* isInferenceHalted; a read that throws answers that it is.                 *)
ReadHalt(c) ==
    /\ door[c] = "reading"
    /\ \/ Reaches(c, "free")
       \/ ~halted /\ Reaches(c, "connecting")

Unchecked(c)   == TRUE                     \* mutant: the answer is taken
MayGoOn(c)     == c \notin aborted         \* the check after every await

Connect(c) ==
    /\ door[c] = "connecting"
    /\ Reaches(c, "free") \/ (MayGoOn(c) /\ Reaches(c, "generating"))

(* An error after the request was sent is charged, but for the two that      *)
(* say that the model did no work; an abort by a halt is always charged.     *)
Generate(c) ==
    /\ door[c] = "generating"
    /\ \/ Reaches(c, "charged")
       \/ MayGoOn(c) /\ (Reaches(c, "free") \/ Reaches(c, "confirming"))

Confirm(c) ==
    /\ door[c] = "confirming"
    /\ Reaches(c, "charged") \/ (MayGoOn(c) /\ Reaches(c, "answered"))

DoorStep(c) == Enter(c) \/ ReadHalt(c) \/ Connect(c) \/ Generate(c) \/ Confirm(c)

-----------------------------------------------------------------------------
(* The administrators.                                                       *)

AnyTime     == TRUE           \* mutant: an upsert reads the doomed row
InsertReady == ~lifting       \* an insert waits for a delete of its key

(* haltInference: created, or found by the unique violation.                 *)
Halt(p) ==
    /\ press[p] = "idle"
    /\ InsertReady
    /\ halted' = TRUE
    /\ upheld' = TRUE
    /\ press' = [press EXCEPT ![p] = "aborting"]
    /\ UNCHANGED <<lifting, door, aborted>>

(* The write throws; the finally aborts all the same.                        *)
HaltThrows(p) ==
    /\ press[p] = "idle"
    /\ press' = [press EXCEPT ![p] = "aborting"]
    /\ UNCHANGED <<halted, lifting, door, aborted, upheld>>

ReadFirst == {c \in Calls : door[c] \in {"generating", "confirming"}}
                              \* mutant: registered some time after the read
Reached   == Registered

AbortAll(p) ==
    /\ press[p] = "aborting"
    /\ press' = [press EXCEPT ![p] = "idle"]
    /\ aborted' = aborted \cup Reached
    /\ UNCHANGED <<halted, lifting, door, upheld>>

(* liftInferenceHalt: the delete.  A lift that finds no row changes          *)
(* nothing.                                                                  *)
Lift ==
    /\ halted
    /\ ~lifting
    /\ lifting' = TRUE
    /\ upheld' = FALSE
    /\ UNCHANGED <<halted, press, door, aborted>>

(* commitWithRotatedToken commits, or the rotation fails and it rolls back.  *)
EndLift ==
    /\ lifting
    /\ lifting' = FALSE
    /\ halted' \in BOOLEAN
    /\ UNCHANGED <<press, door, aborted, upheld>>

(* The process stops: an open transaction is undone, the registry is gone.   *)
HaltRestart ==
    /\ lifting' = FALSE
    /\ press' = [p \in Presses |-> "idle"]
    /\ door' = [c \in Calls |-> "out"]
    /\ aborted' = {}
    /\ UNCHANGED <<halted, upheld>>

AdminStep ==
    \/ \E p \in Presses : Halt(p) \/ HaltThrows(p) \/ AbortAll(p)
    \/ Lift
    \/ EndLift

-----------------------------------------------------------------------------
(* Once a row is written and what was registered has been aborted, no call   *)
(* that passed its read of the row goes on: the row refuses or the           *)
(* registry aborts, in every order of the two (inferenceHalt.ts:9-16).       *)
Quiet == halted /\ \A p \in Presses : press[p] = "idle"

HaltReachesEveryCall ==
    Quiet => \A c \in Calls : door[c] \in PastTheRead => c \in aborted

(* No complete answer is handed over once a halt is done, although the       *)
(* generation ran (local-llm.ts:551-554).                                    *)
NoAnswerOnceHalted ==
    [][Quiet => \A c \in Calls :
                   door'[c] = "answered" => door[c] = "answered"]_haltVars

(* A halt that was answered as standing stands until a later lift: a lift    *)
(* already under way cannot take it along (inferenceHalt.ts:34-37).          *)
HaltNeverLost == upheld => halted
=============================================================================
