---------------------------- MODULE EventDelivery ----------------------------
(***************************************************************************)
(* What the endpoint agent promises about its telemetry, without a file, a *)
(* retry or a process: an event is pending until the server receives it,   *)
(* until it is the oldest one and MaxQueue newer ones were made, or until  *)
(* a process that ended or a full disk loses it.  AgentQueue implements    *)
(* this specification.                                                     *)
(***************************************************************************)
EXTENDS Naturals, FiniteSetsExt

CONSTANT MaxQueue

VARIABLES
    made,       \* events made so far, numbered from 1
    pending,    \* those the agent still owes the server
    received,   \* those the server has
    lost        \* those that an ending process or a full disk took

vars == <<made, pending, received, lost>>

Init ==
    /\ made = 0
    /\ pending = {}
    /\ received = {}
    /\ lost = {}

Make ==
    /\ made' = made + 1
    /\ pending' = pending \cup {made + 1}
    /\ UNCHANGED <<received, lost>>

Deliver ==
    \E batch \in SUBSET pending :
        /\ received' = received \cup batch
        /\ pending' = pending \ batch
        /\ UNCHANGED <<made, lost>>

\* Only the oldest, and only for MaxQueue newer ones.
GiveUp ==
    /\ pending # {}
    /\ made - Min(pending) >= MaxQueue
    /\ pending' = pending \ {Min(pending)}
    /\ UNCHANGED <<made, received, lost>>

Lose ==
    \E some \in SUBSET pending :
        /\ lost' = lost \cup some
        /\ pending' = pending \ some
        /\ UNCHANGED <<made, received>>

Next == Make \/ Deliver \/ GiveUp \/ Lose

Spec == Init /\ [][Next]_vars
=============================================================================
