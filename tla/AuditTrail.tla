----------------------------- MODULE AuditTrail -----------------------------
(***************************************************************************)
(* The hash-chained audit logs: AuditLogService of the legacy backend, with *)
(* one chain for all tenants, and the audit service, with a chain for each *)
(* tenant.  A writer reads the newest row, hashes its own entry behind that *)
(* row's hash and inserts it; verifyIntegrity recomputes the chain.         *)
(***************************************************************************)
EXTENDS Naturals, Sequences, SequencesExt, FiniteSets

CONSTANTS
    Writers,       \* calls of write or logAction that may overlap
    Tenants,
    MaxRows,       \* entries in a behaviour
    MaxNow,        \* milliseconds in which they are written
    MaxEdits       \* rows edited or deleted behind the service's back

VARIABLES
    perTenant,     \* the chain of the audit service
    log,           \* the rows
    writer,        \* the calls in flight
    now,
    \* history, read by properties only
    written,       \* the rows as they were inserted
    overlapped,    \* two calls were in flight at once
    edits          \* rows edited or deleted

vars == <<perTenant, log, writer, now, written, overlapped, edits>>

\* The hash of an entry is injective in it and in the hash before it, so that it
\* stands for the sequence of the entries it was computed from.
Entry == [tenant : Tenants, what : {"written", "unsorted", "edited"}]
Row   == [id : 1 .. MaxRows, at : 0 .. MaxNow, entry : Entry, hash : Seq(Entry)]
None  == "none"
Idle  == [pc |-> "idle", tenant |-> None, previousHash |-> <<>>]

Init ==
    /\ perTenant \in BOOLEAN
    /\ log = {}
    /\ writer = [w \in Writers |-> Idle]
    /\ now = 0
    /\ written = {}
    /\ overlapped = FALSE
    /\ edits = 0

Of(t, rows) == {r \in rows : r.entry.tenant = t}

\* findFirst, newest first: of rows of the same millisecond, any.
Newest(rows) == {r \in rows : \A q \in rows : q.at <= r.at}

ReadPrevious(w) ==
    /\ writer[w].pc = "idle"
    /\ \E t \in Tenants :
           LET rows == IF perTenant THEN Of(t, log) ELSE log IN
           \E hash \in IF rows = {} THEN {<<>>} ELSE {r.hash : r \in Newest(rows)} :
               writer' = [writer EXCEPT ![w] = [pc |-> "create", tenant |-> t, previousHash |-> hash]]
    /\ overlapped' = (overlapped \/ \E v \in Writers : writer[v].pc # "idle")
    /\ UNCHANGED <<perTenant, log, now, written, edits>>

\* The details that the audit service hashes go into a jsonb column, which sorts
\* their keys; the other service's metadata are stored as the text that was hashed.
AsSent == IF perTenant THEN {"written", "unsorted"} ELSE {"written"}

\* The copy in the ledger file follows; nothing reads it, and its errors are dropped.
Create(w) ==
    /\ writer[w].pc = "create"
    /\ Cardinality(written) < MaxRows
    /\ \E what \in AsSent :
       LET hashed == [tenant |-> writer[w].tenant, what |-> what]
           row    == [id |-> Cardinality(written) + 1, at |-> now,
                      entry |-> [hashed EXCEPT !.what = "written"],
                      hash |-> Append(writer[w].previousHash, hashed)]
       IN log' = log \cup {row} /\ written' = written \cup {row}
    /\ writer' = [writer EXCEPT ![w] = Idle]
    /\ UNCHANGED <<perTenant, now, overlapped, edits>>

WriteFails(w) ==
    /\ writer[w].pc = "create"
    /\ writer' = [writer EXCEPT ![w] = Idle]
    /\ UNCHANGED <<perTenant, log, now, written, overlapped, edits>>

\* A row is edited or deleted in the database, behind the service's back.
RowEdited ==
    /\ edits < MaxEdits
    /\ \E r \in log : log' = (log \ {r}) \cup {[r EXCEPT !.entry.what = "edited"]}
    /\ edits' = edits + 1
    /\ UNCHANGED <<perTenant, writer, now, written, overlapped>>

RowDeleted ==
    /\ edits < MaxEdits
    /\ \E r \in log : log' = log \ {r}
    /\ edits' = edits + 1
    /\ UNCHANGED <<perTenant, writer, now, written, overlapped>>

Tick ==
    /\ now < MaxNow
    /\ now' = now + 1
    /\ UNCHANGED <<perTenant, log, writer, written, overlapped, edits>>

Next ==
    \/ \E w \in Writers : ReadPrevious(w) \/ Create(w) \/ WriteFails(w)
    \/ RowEdited \/ RowDeleted \/ Tick

Spec == Init /\ [][Next]_vars

(***************************************************************************)
(* verifyIntegrity                                                         *)
(***************************************************************************)

\* findMany, oldest first.
Listings(rows) ==
    {s \in SetToSeqs(rows) : \A j, k \in DOMAIN s : j < k => s[j].at <= s[k].at}

EachRowFits(s) ==   \* mutant: every row is checked behind the previousHash it says itself
    \A k \in DOMAIN s : s[k].hash # <<>> /\ s[k].hash = Append(Front(s[k].hash), s[k].entry)

Valid(s) ==
    \A k \in DOMAIN s :
        s[k].hash = Append(IF k = 1 THEN <<>> ELSE s[k - 1].hash, s[k].entry)

(***************************************************************************)
(* Properties                                                              *)
(***************************************************************************)

\* The shape of the rows and of the calls; every row was written.
TypeOK ==
    /\ perTenant \in BOOLEAN
    /\ log \subseteq Row
    /\ writer \in [Writers -> [pc : {"idle", "create"}, tenant : Tenants \cup {None},
                             previousHash : Seq(Entry)]]
    /\ now \in 0 .. MaxNow
    /\ written \subseteq Row
    /\ {r.id : r \in log} \subseteq {r.id : r \in written}
    /\ overlapped \in BOOLEAN
    /\ edits \in 0 .. MaxEdits

\* The rows that verifyIntegrity is asked about: of a tenant, or all.
Questions == {log} \cup {Of(t, log) : t \in Tenants}

\* The rows are as they were written, and behind each stand all it was chained to.
Whole(rows) ==
    /\ rows \subseteq written
    /\ \A r \in rows, n \in 1 .. MaxRows :
           n < Len(r.hash) => \E q \in rows : q.hash = SubSeq(r.hash, 1, n)

\* The rows are a chain of the kind the service writes: nothing was edited or
\* deleted or stored otherwise than hashed, no two writes overlapped or fell into
\* one millisecond.
Undisturbed(rows) ==
    /\ ~overlapped /\ edits = 0
    /\ \A r \in log : r.entry = Last(r.hash)
    /\ \A r, q \in log : r.at = q.at => r = q
    /\ \/ ~perTenant /\ rows = log
       \/ perTenant /\ \E t \in Tenants : rows = Of(t, log)

\* "valid: true" is said only of rows that are as they were written with nothing
\* missing between them, and it is said of every undisturbed chain.
VerdictsAreTrue ==
    \A rows \in Questions : \A s \in Listings(rows) :
        /\ Valid(s) => Whole(rows)
        /\ Undisturbed(rows) => Valid(s)
=============================================================================
