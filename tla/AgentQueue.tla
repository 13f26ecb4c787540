----------------------------- MODULE AgentQueue -----------------------------
(***************************************************************************)
(* The endpoint agent's telemetry path: the collector makes an event, the  *)
(* client sends it with retries, and an event that could not be sent goes  *)
(* to a queue file, which is drained when the agent starts.  The process   *)
(* may end at any step (a stop, a kill, the updater's re-exec); what it    *)
(* has written to the file by then stays.                                  *)
(***************************************************************************)
EXTENDS Naturals, Sequences, SequencesExt, FiniteSetsExt

CONSTANTS
    MaxQueue,     \* maxQueueSize
    BatchSize,    \* batchSize of a drain
    MaxRetries,   \* attempts of a request
    MaxEvents,    \* events collected in a behaviour
    MaxSize,      \* size class of the longest event
    Exits,        \* whether the process may end
    DiskFull      \* whether a write to the file may be cut short

ASSUME QueueAssumption ==
    /\ MaxQueue \in Nat \ {0, 1}
    /\ BatchSize \in Nat \ {0}
    /\ MaxRetries \in Nat \ {0}
    /\ MaxEvents \in Nat
    /\ MaxSize \in 1 .. 3
    /\ Exits \in BOOLEAN /\ DiskFull \in BOOLEAN

VARIABLES
    file,         \* the lines of events.queue
    open,         \* its last line has no newline
    pc,           \* where run() is
    event,        \* the event being sent or enqueued
    left,         \* events read by a drain, or lines a rewrite will write
    attempt,      \* attempts of the present request that failed
    up,           \* whether the server can be reached
    \* history, read by properties only
    made,         \* events collected so far
    taken,        \* events the server received
    cut           \* events lost to a process that ended or a full disk

queue == <<file, open>>
run   == <<pc, event, left, attempt>>
vars  == <<queue, run, up, made, taken, cut>>

(***************************************************************************)
(* Lines.  An event is its number; 0 is a line that does not parse.  Size  *)
(* class 1 fits the scanner's default of 64 KiB, 2 only the 4 MiB given to *)
(* the scanner of a drain, 3 neither.                                      *)
(***************************************************************************)

Line    == [ev : 0 .. MaxEvents, size : 1 .. MaxSize]
Nothing == [ev |-> 0, size |-> 1]
DefaultBuffer == 1
DrainBuffer   == 2

\* A scanner ends, as if at the end of the file, at a line beyond its buffer.
Legible(lines, buffer) ==
    LET beyond == {k \in DOMAIN lines : lines[k].size > buffer} IN
    IF beyond = {} THEN lines ELSE SubSeq(lines, 1, Min(beyond) - 1)

Parses(line) == line.ev # 0
EventsOf(lines) == {lines[k].ev : k \in DOMAIN lines} \ {0}

\* The lines up to each that parse, in their order: what a drain unmarshals.
Parsed(lines) ==
    LET upTo[k \in 0 .. Len(lines)] ==
            IF k = 0 THEN <<>>
            ELSE IF Parses(lines[k]) THEN Append(upTo[k - 1], lines[k])
            ELSE upTo[k - 1]
    IN upTo[Len(lines)]

\* What is left of a line when its write is cut short.
Torn(line) == [ev : {0, line.ev}, size : 1 .. line.size]

\* The file, as <<lines, open>>, after a rewrite that was cut short.
CutShort(lines) ==
    {<<SubSeq(lines, 1, k), FALSE>> : k \in 0 .. Len(lines) - 1}
        \cup UNION {{<<Append(SubSeq(lines, 1, k - 1), t), TRUE>> : t \in Torn(lines[k])} :
                       k \in 1 .. Len(lines)}

\* The lines after one is appended: behind an open line the two are one line,
\* which does not parse.
Appended(line) ==
    IF open
    THEN {Append(Front(file), [ev |-> 0, size |-> s]) :
             s \in Max({Last(file).size, line.size}) .. MaxSize}
    ELSE {Append(file, line)}

Init ==
    /\ file = <<>>
    /\ open = FALSE
    /\ pc = "off"
    /\ event = Nothing
    /\ left = <<>>
    /\ attempt = 0
    /\ up \in BOOLEAN
    /\ made = 0
    /\ taken = {}
    /\ cut = {}

(***************************************************************************)
(* run: DrainTo, then the collection loop                                  *)
(***************************************************************************)

\* DrainTo reads the whole file; with no event in it the file stays.
Start ==
    /\ pc = "off"
    /\ left' = Parsed(Legible(file, DrainBuffer))
    /\ pc' = IF left' = <<>> THEN "idle" ELSE "drain"
    /\ UNCHANGED <<queue, event, attempt, up, made, taken, cut>>

Collect ==
    /\ pc = "idle"
    /\ made < MaxEvents
    /\ made' = made + 1
    /\ \E s \in 1 .. MaxSize : event' = [ev |-> made + 1, size |-> s]
    /\ pc' = "send"
    /\ UNCHANGED <<queue, left, attempt, up, taken, cut>>

(***************************************************************************)
(* SendEvents and doWithRetry                                              *)
(***************************************************************************)

Sending == pc \in {"drain", "send"}
Batch   == IF pc = "send" THEN <<event>> ELSE SubSeq(left, 1, Min({BatchSize, Len(left)}))
Rest    == SubSeq(left, Len(Batch) + 1, Len(left))

Receive == taken' = taken \cup EventsOf(Batch)

\* A request that succeeded: the next batch, the end of the drain, or the end
\* of the collection.
Sent ==
    /\ attempt' = 0
    /\ left' = IF pc = "drain" THEN Rest ELSE left
    /\ event' = Nothing
    /\ pc' = IF pc = "send" THEN "idle" ELSE IF Rest = <<>> THEN "remove" ELSE "drain"

\* A request that failed: a drain writes back what it has not sent, the
\* collector enqueues its event.
SendFailed ==
    /\ attempt' = 0
    /\ pc' = IF pc = "drain" THEN "truncate" ELSE "check"
    /\ UNCHANGED <<event, left>>

RetryOnceMore ==   \* mutant: one attempt too many
    IF attempt < MaxRetries
    THEN /\ attempt' = attempt + 1
         /\ UNCHANGED <<pc, event, left>>
    ELSE SendFailed

RetryForever ==   \* mutant: no limit on the attempts
    /\ attempt' = attempt
    /\ UNCHANGED <<pc, event, left>>

Retry ==
    IF attempt + 1 < MaxRetries
    THEN /\ attempt' = attempt + 1
         /\ UNCHANGED <<pc, event, left>>
    ELSE SendFailed

Answered ==
    /\ Sending /\ up
    /\ Receive
    /\ Sent
    /\ UNCHANGED <<queue, up, made, cut>>

\* The server has the batch, but the answer is lost or a 5xx.
AnswerLost ==
    /\ Sending /\ up
    /\ Receive
    /\ Retry
    /\ UNCHANGED <<queue, up, made, cut>>

Unreachable ==
    /\ Sending /\ ~up
    /\ Retry
    /\ UNCHANGED <<queue, up, made, taken, cut>>

\* A 4xx is not retried.
Refused ==
    /\ Sending /\ up
    /\ SendFailed
    /\ UNCHANGED <<queue, up, made, taken, cut>>

(***************************************************************************)
(* The queue file                                                          *)
(***************************************************************************)

RemoveFile ==
    /\ pc = "remove"
    /\ file' = <<>>
    /\ open' = FALSE
    /\ pc' = "idle"
    /\ UNCHANGED <<event, left, attempt, up, made, taken, cut>>

CheckOffByOne ==   \* mutant: one event too many before the oldest is dropped
    /\ pc = "check"
    /\ LET seen == Legible(file, DefaultBuffer) IN
       IF Len(seen) > MaxQueue
       THEN /\ left' = Tail(seen)
            /\ pc' = "truncate"
       ELSE /\ pc' = "append"
            /\ UNCHANGED left
    /\ UNCHANGED <<queue, event, attempt, up, made, taken, cut>>

CheckDropNewest ==   \* mutant: the last line is dropped
    /\ pc = "check"
    /\ LET seen == Legible(file, DefaultBuffer) IN
       IF Len(seen) >= MaxQueue
       THEN /\ left' = Front(seen)
            /\ pc' = "truncate"
       ELSE /\ pc' = "append"
            /\ UNCHANGED left
    /\ UNCHANGED <<queue, event, attempt, up, made, taken, cut>>

\* Enqueue: unsafeSize, and dropOldest, which writes back what it could read.
CheckSize ==
    /\ pc = "check"
    /\ LET seen == Legible(file, DefaultBuffer) IN
       IF Len(seen) >= MaxQueue
       THEN /\ left' = Tail(seen)
            /\ pc' = "truncate"
       ELSE /\ pc' = "append"
            /\ UNCHANGED left
    /\ UNCHANGED <<queue, event, attempt, up, made, taken, cut>>

KeepBehind ==   \* mutant: the file is opened without O_TRUNC
    /\ pc = "truncate"
    /\ pc' = "write"
    /\ UNCHANGED <<queue, event, left, attempt, up, made, taken, cut>>

\* writeLines opens the file with O_TRUNC, and writes when it flushes.
Truncate ==
    /\ pc = "truncate"
    /\ file' = <<>>
    /\ open' = FALSE
    /\ pc' = "write"
    /\ UNCHANGED <<event, left, attempt, up, made, taken, cut>>

\* A rewrite ends a drain or precedes the append of Enqueue.
Rewritten ==
    /\ pc' = IF event = Nothing THEN "idle" ELSE "append"
    /\ left' = <<>>
    /\ UNCHANGED <<event, attempt>>

WriteLines ==
    /\ pc = "write"
    /\ file' = file \o left
    /\ Rewritten
    /\ UNCHANGED <<open, up, made, taken, cut>>

RewriteTorn == \E c \in CutShort(left) : file' = c[1] /\ open' = c[2]

WriteLinesFails ==
    /\ DiskFull
    /\ pc = "write"
    /\ RewriteTorn
    /\ cut' = cut \cup EventsOf(left)
    /\ Rewritten
    /\ UNCHANGED <<up, made, taken>>

AppendLine ==
    /\ pc = "append"
    /\ file' \in Appended(event)
    /\ open' = FALSE
    /\ cut' = IF open THEN cut \cup {event.ev} \cup EventsOf(<<Last(file)>>) ELSE cut
    /\ event' = Nothing
    /\ pc' = "idle"
    /\ UNCHANGED <<left, attempt, up, made, taken>>

\* The event is lost; part of its line may be in the file.
AppendTorn ==
    /\ \/ UNCHANGED queue
       \/ /\ \E t \in Torn(event) : file' \in Appended(t)
          /\ open' = TRUE
    /\ cut' = cut \cup {event.ev} \cup (IF open THEN EventsOf(<<Last(file)>>) ELSE {})

AppendFails ==
    /\ DiskFull
    /\ pc = "append"
    /\ AppendTorn
    /\ event' = Nothing
    /\ pc' = "idle"
    /\ UNCHANGED <<left, attempt, up, made, taken>>

(***************************************************************************)
(* The process and the server                                              *)
(***************************************************************************)

Exit ==
    /\ Exits
    /\ pc # "off"
    /\ CASE pc = "write"  -> /\ RewriteTorn
                             /\ cut' = cut \cup EventsOf(Append(left, event))
         [] pc = "append" -> AppendTorn
         [] OTHER         -> /\ cut' = cut \cup EventsOf(<<event>>)
                             /\ UNCHANGED queue
    /\ pc' = "off"
    /\ event' = Nothing
    /\ left' = <<>>
    /\ attempt' = 0
    /\ UNCHANGED <<up, made, taken>>

ServerUp ==
    /\ ~up
    /\ up' = TRUE
    /\ UNCHANGED <<queue, run, made, taken, cut>>

ServerDown ==
    /\ up
    /\ up' = FALSE
    /\ UNCHANGED <<queue, run, made, taken, cut>>

(***************************************************************************)
(* The specification                                                       *)
(***************************************************************************)

Request  == Answered \/ AnswerLost \/ Unreachable \/ Refused
FileStep == \/ RemoveFile \/ CheckSize \/ Truncate
            \/ WriteLines \/ WriteLinesFails \/ AppendLine \/ AppendFails

AgentStep == Start \/ Collect \/ Request \/ FileStep

Next == AgentStep \/ Exit \/ ServerUp \/ ServerDown

Spec == Init /\ [][Next]_vars

\* A running agent is scheduled, and its ticker ticks; the server owes nothing.
FairSpec == Spec /\ WF_vars(AgentStep)

(***************************************************************************)
(* Properties                                                              *)
(***************************************************************************)

\* The shape of the file and of the process.
TypeOK ==
    /\ file \in Seq(Line)
    /\ open \in BOOLEAN /\ (open => file # <<>>)
    /\ pc \in {"off", "idle", "drain", "send", "remove", "check", "truncate", "write", "append"}
    /\ event \in Line
    /\ left \in Seq(Line)
    /\ attempt \in 0 .. MaxRetries - 1
    /\ up \in BOOLEAN
    /\ made \in 0 .. MaxEvents
    /\ taken \subseteq 1 .. made
    /\ cut \subseteq 1 .. made

\* "The queue holds a maximum of 10,000 events" (agent/README.md:157).
QueueBounded == Len(file) <= MaxQueue

\* Drops, drains that stop half-way and rewrites that are cut short leave the
\* queued events in the order they were collected, each once.
QueueInOrder ==
    \A j, k \in DOMAIN file :
        j < k /\ Parses(file[j]) /\ Parses(file[k]) => file[j].ev < file[k].ev

Held == EventsOf(Append(file \o left, event))

\* "older events are dropped when the limit is reached" (agent/README.md:158):
\* an event that the server did not get, and that no ending process or full disk
\* lost, is held, or was given up for MaxQueue newer ones.
OnlyOldestGivenUp ==
    \A e \in 1 .. made : e \in taken \cup cut \cup Held \/ made - e >= MaxQueue

\* The abstract specification: an event is pending while the agent holds it and
\* the server does not have it.  Only one whose line was cut short may be lost.
Pending == Held \ taken
Lost    == cut \ (Held \cup taken)

D == INSTANCE EventDelivery WITH
    pending <- Pending, received <- taken, lost <- Lost

\* The queue implements EventDelivery: whatever is retried, drained, rewritten and
\* cut short on the way, an event that was given up, lost or received stays so,
\* and only the oldest pending event is given up, for MaxQueue newer ones.
DeliversOrGivesUpOldest == D!Spec

\* No event is retried for ever: the collector comes back to its loop, with the
\* event received, queued or lost, whether the server answers or not.
CollectorComesBack == pc = "send" ~> pc \in {"idle", "off"}
=============================================================================
