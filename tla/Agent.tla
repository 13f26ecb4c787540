-------------------------------- MODULE Agent --------------------------------
(***************************************************************************)
(* The two sides of the endpoint agent, which share no file and no state   *)
(* but the fact that a process may end: its queue (AgentQueue) and its     *)
(* processes, configuration and updates (AgentLifecycle).  A behaviour     *)
(* exercises one side; the other rests.                                    *)
(***************************************************************************)
EXTENDS AgentQueue

CONSTANTS Processes, Releases, Platforms, Machines, None    \* of AgentLifecycle

ASSUME LifeAssumption == None \notin Processes \cup Releases \cup Platforms \cup Machines

VARIABLES side, platform, binary, agent, job, offer, answers, machine, saved, registered

life    == <<platform, binary, agent, job, offer, answers, machine, saved, registered>>
allVars == <<side, vars, life>>

Life == INSTANCE AgentLifecycle WITH up <- answers

LifeRests ==
    /\ platform = None /\ binary = None /\ offer = None /\ answers = FALSE
    /\ agent = [p \in Processes |-> Life!Ended] /\ job = None
    /\ machine = None /\ saved = None /\ registered = {}

AgentInit ==
    /\ Init
    /\ \/ side = "queue" /\ LifeRests
       \/ side = "life" /\ up /\ Life!Init

AgentNext ==
    /\ UNCHANGED side
    /\ \/ side = "queue" /\ Next /\ UNCHANGED life
       \/ side = "life" /\ Life!Next /\ UNCHANGED vars

\* The fairness of AgentQueue; none of AgentLifecycle.
AgentSpec ==
    /\ AgentInit /\ [][AgentNext]_allVars
    /\ WF_allVars(side = "queue" /\ AgentStep /\ UNCHANGED <<side, life>>)

\* AgentLifecycle: the server hears one id of a device.
DeviceIdStable == side = "life" => Life!DeviceIdStable

\* AgentLifecycle: the agents come to an end with installing updates.
UpdatesSettle == Life!UpdatesSettle
==============================================================================
