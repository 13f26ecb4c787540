----------------------------- MODULE BreakGlass -----------------------------
(***************************************************************************)
(* AccessReviewService of the legacy backend: the review of the operators'  *)
(* roles, and break-glass access, by which a token that is good once and    *)
(* for a quarter of an hour signs an operator in.  The calls read, await    *)
(* and write without a transaction or a condition on what they write.       *)
(***************************************************************************)
EXTENDS Naturals, FiniteSets

CONSTANTS
    Operators,
    Callers,       \* calls that may be in flight at once
    Tokens         \* break-glass tokens in a behaviour

VARIABLES
    active,        \* operators whose isActive is true
    review,        \* [status, items, summary]
    token,         \* per token: [owner, used, expired]
    act,           \* the calls in flight: [pc, on, says]
    \* history, read by properties only
    signed         \* per token, how often it signed its operator in

vars == <<active, review, token, act, signed>>

Nobody       == "nobody"
Dispositions == {"pending", "keep", "revoke"}
NoReview     == [status |-> "none", items |-> {}, summary |-> {}]
NoToken      == [owner |-> Nobody, used |-> FALSE, expired |-> FALSE]
Idle         == [pc |-> "idle", on |-> Nobody, says |-> {}]

Init ==
    /\ active = Operators
    /\ review = NoReview
    /\ token = [t \in Tokens |-> NoToken]
    /\ act = [c \in Callers |-> Idle]
    /\ signed = [t \in Tokens |-> 0]

Starts(c, pc, on, says) ==
    /\ act[c] = Idle
    /\ act' = [act EXCEPT ![c] = [pc |-> pc, on |-> on, says |-> says]]
Goto(c, pc) == act' = [act EXCEPT ![c].pc = pc]
Ends(c)     == act' = [act EXCEPT ![c] = Idle]

rows == <<active, review, token, signed>>

\* An operator is switched on or off elsewhere.
SwitchOperator(o) ==
    /\ active' = IF o \in active THEN active \ {o} ELSE active \cup {o}
    /\ UNCHANGED <<review, token, act, signed>>

(***************************************************************************)
(* Access reviews.  Items are pairs of an operator and a disposition.      *)
(***************************************************************************)

StartReview(c) ==
    /\ review = NoReview
    /\ Starts(c, "create review", Nobody, active \X {"pending"})
    /\ UNCHANGED rows

CreateReview(c) ==
    /\ act[c].pc = "create review"
    /\ review' = IF review = NoReview
                 THEN [status |-> "open", items |-> act[c].says, summary |-> {}]
                 ELSE review   \* another review, which is left out
    /\ Ends(c)
    /\ UNCHANGED <<active, token, signed>>

ReviewItem(c) ==
    /\ review.status = "open"
    /\ \E item \in review.items, disposition \in {"keep", "revoke"} :
           Starts(c, "write item", item[1], {<<item[1], disposition>>})
    /\ UNCHANGED rows

\* Whatever the review's status is by now.
WriteItem(c) ==
    /\ act[c].pc = "write item"
    /\ review' = [review EXCEPT !.items =
                     {item \in @ : item[1] # act[c].on} \cup act[c].says]
    /\ Ends(c)
    /\ UNCHANGED <<active, token, signed>>

\* The status is not looked at: a completed review is finalized again.
FinalizeReview(c) ==
    /\ review.items # {}
    /\ Starts(c, "finalize", Nobody, review.items)
    /\ UNCHANGED rows

WriteSummary(c) ==
    /\ act[c].pc = "finalize"
    /\ review' = [review EXCEPT !.status = "completed", !.summary = act[c].says]
    /\ Ends(c)
    /\ UNCHANGED <<active, token, signed>>

(***************************************************************************)
(* Break glass                                                             *)
(***************************************************************************)

CreateBreakGlass(c, o) ==
    /\ o \in active
    /\ Starts(c, "create token", o, {})
    /\ UNCHANGED rows

InsertToken(c) ==
    /\ act[c].pc = "create token"
    /\ \E t \in Tokens :
           /\ token[t] = NoToken
           /\ token' = [token EXCEPT ![t].owner = act[c].on]
    /\ Ends(c)
    /\ UNCHANGED <<active, review, signed>>

GoodWhileFresh(t) == token[t].owner # Nobody /\ ~token[t].expired   \* mutant: no usedAt: null

Good(t) == token[t].owner # Nobody /\ ~token[t].used /\ ~token[t].expired

\* consumeBreakGlassToken
FindToken(c, t) ==
    /\ Good(t)
    /\ Starts(c, "operator", t, {})
    /\ UNCHANGED rows

FindOperator(c) ==
    /\ act[c].pc = "operator"
    /\ IF token[act[c].on].owner \in active THEN Goto(c, "use") ELSE Ends(c)
    /\ UNCHANGED rows

UseToken(c) ==
    /\ act[c].pc = "use"
    /\ token' = [token EXCEPT ![act[c].on].used = TRUE]
    /\ Goto(c, "sign")
    /\ UNCHANGED <<active, review, signed>>

\* The audit row, and the JWT.
SignIn(c) ==
    /\ act[c].pc = "sign"
    /\ signed' = [signed EXCEPT ![act[c].on] = @ + 1]
    /\ Ends(c)
    /\ UNCHANGED <<active, review, token>>

TokenExpires(t) ==
    /\ Good(t)
    /\ token' = [token EXCEPT ![t].expired = TRUE]
    /\ UNCHANGED <<active, review, act, signed>>

\* An await of a call throws.
CallFails(c) == act[c] # Idle /\ Ends(c) /\ UNCHANGED rows

Next ==
    \/ \E c \in Callers :
           \/ StartReview(c) \/ CreateReview(c) \/ ReviewItem(c) \/ WriteItem(c)
           \/ FinalizeReview(c) \/ WriteSummary(c)
           \/ InsertToken(c) \/ FindOperator(c) \/ UseToken(c) \/ SignIn(c) \/ CallFails(c)
           \/ \E o \in Operators : CreateBreakGlass(c, o)
           \/ \E t \in Tokens : FindToken(c, t)
    \/ \E o \in Operators : SwitchOperator(o)
    \/ \E t \in Tokens : TokenExpires(t)

Spec == Init /\ [][Next]_vars

(***************************************************************************)
(* Properties                                                              *)
(***************************************************************************)

\* The shape of the rows and of the calls.
TypeOK ==
    /\ active \subseteq Operators
    /\ review.status \in {"none", "open", "completed"}
    /\ review.items \subseteq Operators \X Dispositions
    /\ review.summary \subseteq Operators \X Dispositions
    /\ token \in [Tokens -> [owner : Operators \cup {Nobody}, used : BOOLEAN, expired : BOOLEAN]]
    /\ \A c \in Callers :
           act[c].pc \in {"idle", "create review", "write item", "finalize", "create token",
                          "operator", "use", "sign"}
    /\ signed \in [Tokens -> Nat]

\* A break-glass token is for one sign-in, but a token that is looked up with usedAt
\* null is spent by an update that does not ask again.  Two calls at once both get in, but
\* never more than overlap, and a token that signed its operator in is used.
TokenUsesBounded ==
    \A t \in Tokens :
        /\ signed[t] <= Cardinality(Callers)
        /\ signed[t] > 0 => token[t].used
=============================================================================
