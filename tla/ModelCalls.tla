----------------------------- MODULE ModelCalls -----------------------------
(***************************************************************************)
(* One server process from admission to answer: the holder of the slot       *)
(* (module Admission) makes its model call through the door (module          *)
(* InferenceHalt), refunds a start the model did no work for, and releases   *)
(* its ticket in a finally.  Administrators halt and lift meanwhile, and     *)
(* the process may stop: admission and the registry start afresh, the row    *)
(* and the members' switches remain.                                         *)
(*                                                                           *)
(* The waiting room and the switch share the holder only.  So that their     *)
(* states add up instead of multiplying, administrators act beside few       *)
(* requests, and few requests are made once they act.  The members keep      *)
(* their switches on here; Admission is checked with opt-outs alone.         *)
(***************************************************************************)
EXTENDS Integers, FiniteSets, Sequences, InferenceHalt

CONSTANTS
    Users, Nobody, QueueDepth, HourlyQuota, Window, MaxEpoch,
    MaxBeside       \* requests beside administrators (a bound)

VARIABLES
    call, charge, queue, running, epochs, aiOn, optingOut

A == INSTANCE Admission WITH Requests <- Calls

admissionVars == <<call, charge, queue, running, epochs, aiOn, optingOut>>
vars == <<admissionVars, haltVars>>

-----------------------------------------------------------------------------
Init == A!Init /\ HaltInit

Live == {r \in Calls : call[r].pc # "idle"}
NoAdministrator == ~halted /\ ~lifting /\ \A p \in Presses : press[p] = "idle"

(* Everything a request does but its ticket's end.                           *)
Admit(r) ==
    /\ \/ /\ NoAdministrator \/ Cardinality(Live) < MaxBeside
          /\ \E u \in Users : A!Ask(r, u)
       \/ A!ReadSwitches(r)
       \/ A!AcquireRefused(r)
       \/ A!AcquireBusy(r)
       \/ A!AcquireStart(r)
       \/ A!AcquireWait(r)
       \/ A!Leave(r)
       \/ A!Forget(r)
    /\ UNCHANGED haltVars

PassDoor(r) ==
    /\ call[r].pc = "running"
    /\ DoorStep(r)
    /\ UNCHANGED admissionVars

GiveBack(r) ==
    /\ call[r].pc = "running"
    /\ door[r] = "free"
    /\ A!Refund(r)
    /\ UNCHANGED haltVars

(* The finally, from whichever result or before the door.                    *)
Release(r) ==
    /\ door[r] \in Results \cup {"out"}
    /\ A!Release(r)
    /\ door' = [door EXCEPT ![r] = "out"]
    /\ UNCHANGED <<halted, lifting, press, aborted, upheld>>

Administer ==
    /\ Cardinality(Live) <= MaxBeside
    /\ AdminStep
    /\ UNCHANGED admissionVars

Restart ==
    /\ call' = [r \in Calls |-> A!NoCall]
    /\ charge' = [r \in Calls |-> Nobody]
    /\ queue' = <<>>
    /\ running' = Nobody
    /\ UNCHANGED <<epochs, aiOn, optingOut>>
    /\ HaltRestart

Next ==
    \/ \E r \in Calls : Admit(r) \/ PassDoor(r) \/ GiveBack(r) \/ Release(r)
    \/ A!Tick /\ UNCHANGED haltVars
    \/ Administer
    \/ Restart

Spec == Init /\ [][Next]_vars

(* Every await of the door ends, by its timeout at the latest, and the       *)
(* holder's finally releases.                                                *)
Fairness == \A r \in Calls : WF_vars(PassDoor(r)) /\ WF_vars(Release(r))

LiveSpec == Spec /\ Fairness
-----------------------------------------------------------------------------
TypeOK == A!TypeOK /\ HaltTypeOK

(* admission.ts:144-151.  See Admission.                                     *)
NobodyStarves == A!NobodyStarves
=============================================================================
