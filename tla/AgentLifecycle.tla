--------------------------- MODULE AgentLifecycle ---------------------------
(***************************************************************************)
(* The processes of the endpoint agent on one device: a start reads        *)
(* agent.yaml and gives the device an id, the agent registers once, checks *)
(* for a newer version, installs it over its own binary and starts it      *)
(* before it ends itself.  The service manager starts an agent too.  What  *)
(* the agent collects and sends is AgentQueue's.                           *)
(***************************************************************************)
EXTENDS Naturals, Sequences, FiniteSets

CONSTANTS
    Processes,    \* agent processes that may exist at once
    Releases,     \* versions the server may offer, sequences of numbers
    Platforms,    \* subset of {"systemd", "launchd", "windows"}
    Machines,     \* what hostname and first MAC address may be
    None

VARIABLES
    platform,
    binary,       \* the version of the executable at selfPath, or None
    agent,        \* the processes
    job,          \* the process the service manager started and watches
    offer,        \* the server's VersionInfo
    up,           \* whether the server answers
    machine,      \* hostname and MAC address now
    saved,        \* device_id in agent.yaml, None if it is empty
    registered    \* history: the ids the server was told

vars == <<platform, binary, agent, job, offer, up, machine, saved, registered>>

Ended    == [pc |-> "ended"]
NotReady == [pc : {"load", "save"}, version : Releases, id : Machines \cup {None}]
Ready    == [pc : {"register", "run", "download", "rename", "exec", "exit"},
             version : Releases, id : Machines, got : Releases \cup {None}]

Init ==
    /\ platform \in Platforms
    /\ binary \in Releases
    /\ agent = [p \in Processes |-> Ended]
    /\ job = None
    /\ offer \in Releases
    /\ up = TRUE
    /\ machine \in Machines
    /\ saved = None
    /\ registered = {}

(***************************************************************************)
(* isNewerVersion                                                          *)
(***************************************************************************)

NotOlder(candidate, current) ==   \* mutant: >= for >
    candidate = current \/ \E k \in DOMAIN candidate :
        /\ \A j \in 1 .. k - 1 : j <= Len(current) /\ candidate[j] = current[j]
        /\ k <= Len(current) => candidate[k] > current[k]

\* A number-wise greater version, or a longer one with the same start.
IsNewerVersion(candidate, current) ==
    \E k \in DOMAIN candidate :
        /\ \A j \in 1 .. k - 1 : j <= Len(current) /\ candidate[j] = current[j]
        /\ k <= Len(current) => candidate[k] > current[k]

(***************************************************************************)
(* Starts                                                                  *)
(***************************************************************************)

Goes(p, next) == agent' = [agent EXCEPT ![p] = next]
At(p, pc)     == agent[p].pc = pc
Living        == {p \in Processes : ~At(p, "ended")}
Starting      == [pc |-> "load", version |-> binary, id |-> None]

\* systemd restarts what failed and starts at boot, launchd (KeepAlive) whatever
\* ended; neither looks at a process that the agent started itself.
ManagerStarts(p) ==
    /\ job = None
    /\ platform # "launchd" => Living = {}
    /\ At(p, "ended")
    /\ binary # None
    /\ Goes(p, Starting)
    /\ job' = p
    /\ UNCHANGED <<platform, binary, offer, up, machine, saved, registered>>

\* Load and ensureDeviceID: the id of the file, or one made from the machine.
LoadConfig(p) ==
    /\ At(p, "load")
    /\ Goes(p, IF saved # None
               THEN [pc |-> "register", version |-> agent[p].version, id |-> saved, got |-> None]
               ELSE [agent[p] EXCEPT !.pc = "save", !.id = machine])
    /\ UNCHANGED <<platform, binary, job, offer, up, machine, saved, registered>>

Configured(p) ==
    Goes(p, [pc |-> "register", version |-> agent[p].version, id |-> agent[p].id, got |-> None])

KeepInMemory(p) ==   \* mutant: configPath is not set
    /\ At(p, "save")
    /\ Configured(p)
    /\ UNCHANGED <<platform, binary, job, offer, up, machine, saved, registered>>

\* saveDeviceID; the write is not cut short.
SaveDeviceId(p) ==
    /\ At(p, "save")
    /\ saved' = agent[p].id
    /\ Configured(p)
    /\ UNCHANGED <<platform, binary, job, offer, up, machine, registered>>

\* registerDevice, once; a failure is only logged.
RegisterDevice(p) ==
    /\ At(p, "register")
    /\ registered' = IF up THEN registered \cup {agent[p].id} ELSE registered
    /\ Goes(p, [agent[p] EXCEPT !.pc = "run"])
    /\ UNCHANGED <<platform, binary, job, offer, up, machine, saved>>

(***************************************************************************)
(* CheckAndUpdate                                                          *)
(***************************************************************************)

\* CheckVersionFull, and a download that succeeds with the right checksum.
CheckAndDownload(p) ==
    /\ At(p, "run")
    /\ up
    /\ IsNewerVersion(offer, agent[p].version)
    /\ Goes(p, [agent[p] EXCEPT !.pc = IF platform = "windows" THEN "download" ELSE "rename",
                                !.got = offer])
    /\ UNCHANGED <<platform, binary, job, offer, up, machine, saved, registered>>

\* An error of the update is logged, and the next tick checks again.
GivesUp(p) == Goes(p, [agent[p] EXCEPT !.pc = "run", !.got = None])

\* Windows: selfPath is renamed to .old.
MoveAside(p) ==
    /\ At(p, "download")
    /\ binary # None
    /\ binary' = None
    /\ Goes(p, [agent[p] EXCEPT !.pc = "rename"])
    /\ UNCHANGED <<platform, job, offer, up, machine, saved, registered>>

MoveAsideFails(p) ==
    /\ At(p, "download")
    /\ GivesUp(p)
    /\ UNCHANGED <<platform, binary, job, offer, up, machine, saved, registered>>

Install(p) ==
    /\ At(p, "rename")
    /\ binary' = agent[p].got
    /\ Goes(p, [agent[p] EXCEPT !.pc = "exec", !.got = None])
    /\ UNCHANGED <<platform, job, offer, up, machine, saved, registered>>

\* Another file system, a read-only one, or a lock; nothing is moved back.
InstallFails(p) ==
    /\ At(p, "rename")
    /\ GivesUp(p)
    /\ UNCHANGED <<platform, binary, job, offer, up, machine, saved, registered>>

\* reexec: cmd.Start, then os.Exit(0).
Reexec(p) ==
    /\ At(p, "exec")
    /\ binary # None
    /\ \E q \in Processes :
           /\ At(q, "ended")
           /\ agent' = [agent EXCEPT ![p].pc = "exit", ![q] = Starting]
    /\ UNCHANGED <<platform, binary, job, offer, up, machine, saved, registered>>

ReexecFails(p) ==
    /\ At(p, "exec")
    /\ GivesUp(p)
    /\ UNCHANGED <<platform, binary, job, offer, up, machine, saved, registered>>

(***************************************************************************)
(* Ends, and the surroundings                                              *)
(***************************************************************************)

\* os.Exit after a re-exec, a stop, or a kill at any step.
Ends(p) ==
    /\ p \in Living
    /\ Goes(p, Ended)
    /\ job' = IF job = p THEN None ELSE job
    /\ UNCHANGED <<platform, binary, offer, up, machine, saved, registered>>

NewRelease ==
    /\ \E v \in Releases \ {offer} : offer' = v
    /\ UNCHANGED <<platform, binary, agent, job, up, machine, saved, registered>>

ServerChanges ==
    /\ up' = ~up
    /\ UNCHANGED <<platform, binary, agent, job, offer, machine, saved, registered>>

MachineChanges ==
    /\ \E m \in Machines \ {machine} : machine' = m
    /\ UNCHANGED <<platform, binary, agent, job, offer, up, saved, registered>>

ProcessStep(p) ==
    \/ LoadConfig(p) \/ SaveDeviceId(p) \/ RegisterDevice(p)
    \/ CheckAndDownload(p) \/ MoveAside(p) \/ MoveAsideFails(p)
    \/ Install(p) \/ InstallFails(p) \/ Reexec(p) \/ ReexecFails(p)

Next ==
    \/ \E p \in Processes : ManagerStarts(p) \/ ProcessStep(p) \/ Ends(p)
    \/ NewRelease \/ ServerChanges \/ MachineChanges

Spec == Init /\ [][Next]_vars

(***************************************************************************)
(* Properties                                                              *)
(***************************************************************************)

\* The shape of the processes and of the device.
TypeOK ==
    /\ platform \in Platforms
    /\ binary \in Releases \cup {None}
    /\ agent \in [Processes -> {Ended} \cup NotReady \cup Ready]
    /\ job \in Living \cup {None}
    /\ offer \in Releases
    /\ up \in BOOLEAN
    /\ machine \in Machines
    /\ saved \in Machines \cup {None}
    /\ registered \subseteq Machines

\* The id "remains consistent across restarts" (config.go:159): the server hears
\* one id of a device, though hostname and MAC address change, processes end at
\* any step, and two agents start together.
DeviceIdStable ==
    /\ Cardinality(registered) <= 1
    /\ registered # {} => registered = {saved}

Installs       == \E p \in Processes : Install(p)
CannotStartIt  == \E p \in Processes : ReexecFails(p)

\* Updates settle: unless releases or failed re-execs go on for ever, the agents
\* come to an end with installing, however many run and whatever was under way
\* when the last release was made.
UpdatesSettle ==
    <>[][~NewRelease /\ ~CannotStartIt]_vars => <>[][~Installs]_vars
=============================================================================
