----------------------------- MODULE RateLimits -----------------------------
(***************************************************************************)
(* The limits on requests that are kept in Redis for one key (an address or *)
(* a user), each call of them await by await:                               *)
(*   "counter"  INCR and EXPIRE NX of the gateway and the control plane     *)
(*   "strict"   the sorted sets of AuthRateLimitMiddleware and              *)
(*              IpRateLimitMiddleware                                       *)
(*   "sliding"  that of RateLimitMiddleware, which also counts what it      *)
(*              refuses                                                     *)
(***************************************************************************)
EXTENDS Naturals, FiniteSets

CONSTANTS
    Calls,         \* requests that may be checked at once
    MaxRequests,   \* max, maxRequests
    Window,        \* ttlMs, windowMs
    Slowest,       \* the longest a check takes
    MaxNow         \* time in a behaviour

VARIABLES
    limit,         \* which of the three
    now,
    hits,          \* the sorted set: how many members have each score
    counter,       \* the counter: [value, expires]
    call,          \* the checks in flight
    \* history, read by properties only
    admitted       \* how many requests the limit let through, by the time their
                   \* check began and the time they went on

vars == <<limit, now, hits, counter, call, admitted>>

Times   == 0 .. MaxNow
Limits  == {"counter", "strict", "sliding"}
Idle    == [pc |-> "idle", score |-> 0, admit |-> FALSE]
NoCount == [value |-> 0, expires |-> 0]

\* How many there are of some kinds: every one has a number among those of its kind.
Total(count, kinds) == Cardinality(UNION {{k} \X (1 .. count[k]) : k \in kinds})

Init ==
    /\ limit \in Limits
    /\ now = 0
    /\ hits = [t \in Times |-> 0]
    /\ counter = NoCount
    /\ call = [c \in Calls |-> Idle]
    /\ admitted = [p \in Times \X Times |-> 0]

Admit(c) == admitted' = [admitted EXCEPT ![<<call[c].score, now>>] = @ + 1]

(***************************************************************************)
(* The counter.  Redis runs the two commands of a call behind each other;   *)
(* another call's may come between them, and finds the key without a time   *)
(* to live no differently.                                                  *)
(***************************************************************************)

Increment(c) ==
    /\ limit = "counter"
    /\ call[c].pc = "idle"
    /\ counter' = [value   |-> counter.value + 1,
                   expires |-> IF counter.value = 0 THEN now + Window ELSE counter.expires]
    /\ call' = [call EXCEPT ![c] = [pc |-> "answer", score |-> now,
                                    admit |-> counter.value + 1 <= MaxRequests]]
    /\ UNCHANGED <<limit, now, hits, admitted>>

\* count > max is refused with 429.
CountAnswered(c) ==
    /\ call[c].pc = "answer"
    /\ IF call[c].admit THEN Admit(c) ELSE UNCHANGED admitted
    /\ call' = [call EXCEPT ![c] = Idle]
    /\ UNCHANGED <<limit, now, hits, counter>>

(***************************************************************************)
(* The sorted set                                                          *)
(***************************************************************************)

RemoveExpired(c) ==
    /\ limit # "counter"
    /\ call[c].pc = "idle"
    /\ hits' = [t \in Times |-> IF t + Window <= now THEN 0 ELSE hits[t]]
    /\ call' = [call EXCEPT ![c] = [pc |-> "count", score |-> now, admit |-> FALSE]]
    /\ UNCHANGED <<limit, now, counter, admitted>>

AdmitsOneMore(n) == n <= MaxRequests   \* mutant: > for >=

Admits(n) == n < MaxRequests

\* zcard: a strict limit adds nothing to the set for a request it refuses.
CountRequests(c) ==
    /\ call[c].pc = "count"
    /\ LET admits == Admits(Total(hits, Times)) IN
       call' = [call EXCEPT ![c] =
                   IF admits \/ limit = "sliding"
                   THEN [@ EXCEPT !.pc = "add", !.admit = admits]
                   ELSE Idle]
    /\ UNCHANGED <<limit, now, hits, counter, admitted>>

\* zadd with the time the check began; the key expires no sooner than its members.
AddRequest(c) ==
    /\ call[c].pc = "add"
    /\ hits' = [hits EXCEPT ![call[c].score] = @ + 1]
    /\ IF call[c].admit THEN Admit(c) ELSE UNCHANGED admitted
    /\ call' = [call EXCEPT ![c] = Idle]
    /\ UNCHANGED <<limit, now, counter>>

\* An error of Redis: the counter's caller gets 503, the others go through unlimited.
RedisFails(c) ==
    /\ call[c].pc # "idle"
    /\ call' = [call EXCEPT ![c] = Idle]
    /\ UNCHANGED <<limit, now, hits, counter, admitted>>

(***************************************************************************)
(* Time.  A check takes no longer than Slowest.                            *)
(***************************************************************************)

Tick ==
    /\ now < MaxNow
    /\ \A c \in Calls : call[c].pc # "idle" => now < call[c].score + Slowest
    /\ now' = now + 1
    /\ counter' = IF counter.expires <= now + 1 THEN NoCount ELSE counter
    /\ UNCHANGED <<limit, hits, call, admitted>>

\* As many requests as a behaviour needs to pass every limit.
Bounded == Total(hits, Times) + counter.value <= MaxRequests + Cardinality(Calls) + 1

Next ==
    \/ \E c \in Calls :
           \/ Bounded /\ (Increment(c) \/ RemoveExpired(c))
           \/ CountAnswered(c) \/ CountRequests(c) \/ AddRequest(c) \/ RedisFails(c)
    \/ Tick

Spec == Init /\ [][Next]_vars

(***************************************************************************)
(* Properties                                                              *)
(***************************************************************************)

\* The shape of the state.
TypeOK ==
    /\ limit \in Limits
    /\ now \in Times
    /\ DOMAIN hits = Times /\ \A t \in Times : hits[t] \in Nat
    /\ counter.value \in Nat /\ counter.expires \in 0 .. MaxNow + Window
    /\ call \in [Calls -> [pc : {"idle", "answer", "count", "add"}, score : Times, admit : BOOLEAN]]
    /\ DOMAIN admitted = Times \X Times /\ \A p \in Times \X Times : admitted[p] \in Nat

\* "5 login attempts per 15 minutes" (rate-limit.middleware.ts:68): the sorted
\* sets let through what the limit says, and as many more as checks can overlap
\* another, in any stretch of time as long as the window less the time a check
\* takes.  The windows of the counter are fixed: a stretch meets two of them.
AdmittedBounded ==
    \A t \in Times :
        Total(admitted, {p \in Times \X Times : p[2] <= t /\ t < p[2] + Window - Slowest}) <=
            IF limit = "counter" THEN 2 * MaxRequests
            ELSE MaxRequests + Cardinality(Calls) - 1
=============================================================================
