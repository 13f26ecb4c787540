----------------------------- MODULE WebConsole -----------------------------
(***************************************************************************)
(* One tab of a web console: the tenant's (admin-dashboard), the operator's *)
(* (its pages under /operator) and the control plane's (control-plane-ui).  *)
(* Every page decides by a flag in sessionStorage whether the user is       *)
(* signed in; the cookie, which the page cannot read, decides at the        *)
(* server.  The pages redirect each other while requests are on their way.  *)
(***************************************************************************)
EXTENDS Naturals

CONSTANT MaxMoves   \* what the user does in a behaviour

VARIABLES
    console,   \* whose console it is
    page,
    stage,     \* "load" until the page's effects have run, "wait" for its data, "rest"
    flag,      \* SESSION_FLAG, OP_SESSION_FLAG
    session,   \* the server takes the cookie
    asked,     \* data requests without an answer
    leaving,   \* the logout request: "no", "sent", "done" by the server
    moves,
    \* history, read by properties only
    hops       \* redirects since the user last did something

vars == <<console, page, stage, flag, session, asked, leaving, moves, hops>>

Consoles == {"tenant", "operator", "cp"}
\* "home" stands for every page that shows data.
Pages == {"login", "home", "password", "onboarding"}

Init ==
    /\ console \in Consoles
    /\ page \in IF console = "tenant" THEN Pages ELSE {"login", "home"}
    /\ stage = "load"
    /\ flag \in BOOLEAN
    /\ session \in BOOLEAN
    /\ asked = 0
    /\ leaving = "no"
    /\ moves = 0
    /\ hops = 0

OpenInPlace(p) ==   \* mutant: router.push for window.location.href
    page' = p /\ stage' = "load" /\ leaving' = "no" /\ UNCHANGED asked

\* window.location.href = ...: the tab drops the page and its requests.
Open(p) == page' = p /\ stage' = "load" /\ asked' = 0 /\ leaving' = "no"

\* The same by a page or by its requests.
Redirect(p) == Open(p) /\ hops' = hops + 1

\* What the user does goes on only so long.
Moves == moves < MaxMoves /\ moves' = moves + 1 /\ hops' = 0

(***************************************************************************)
(* The effects of a page                                                   *)
(***************************************************************************)

RunEffects ==
    /\ stage = "load"
    /\ \/ /\ page = "onboarding" \/ (page = "login" /\ ~flag)
          /\ stage' = "rest"
          /\ UNCHANGED <<page, asked, leaving, hops>>
       \/ page = "login" /\ flag /\ Redirect("home")
       \/ page \in {"home", "password"} /\ ~flag /\ Redirect("login")
       \/ /\ page \in {"home", "password"} /\ flag
          /\ stage' = "wait"
          /\ asked' \in asked + 1 .. asked + 2
          /\ UNCHANGED <<page, leaving, hops>>
    /\ UNCHANGED <<console, flag, session, moves>>

Reply ==
    /\ asked > 0
    /\ asked' = asked - 1
    /\ stage' = IF stage = "wait" /\ asked = 1 THEN "rest" ELSE stage

\* 200, or an error that is not 401: the page shows data or a message.
Answered ==
    /\ Reply
    /\ UNCHANGED <<console, page, flag, session, leaving, moves, hops>>

FlagStays == flag   \* mutant: 401 leaves the flag

FlagAfter401 == FALSE

\* 401: apiFetch and cpFetch take the flag away, and those of the dashboard
\* leave the page unless it needs no session.
Refused ==
    /\ asked > 0 /\ ~session
    /\ flag' = FlagAfter401
    /\ IF console = "cp" \/ page \in {"login", "onboarding"}
       THEN Reply /\ UNCHANGED <<page, leaving, hops>>
       ELSE Redirect("login")
    /\ UNCHANGED <<console, session, moves>>

(***************************************************************************)
(* The user                                                                *)
(***************************************************************************)

\* login, operatorLogin; completeOnboarding
SignIn ==
    /\ Moves
    /\ page \in {"login", "onboarding"} /\ stage = "rest"
    /\ flag' = TRUE /\ session' = TRUE
    /\ \E p \in {"home"} \cup IF console = "tenant" /\ page = "login" THEN {"password"} ELSE {} :
           Open(p)
    /\ UNCHANGED console

\* The address bar, and the links of control-plane-ui
Navigate ==
    /\ Moves
    /\ \E p \in Pages :
           /\ console # "tenant" => p \in {"login", "home"}
           /\ Open(p)
    /\ UNCHANGED <<console, flag, session>>

\* A link of the dashboard is no load: what was asked for is still to come.
Link ==
    /\ Moves
    /\ console = "tenant" /\ page \in {"home", "password"} /\ stage # "load" /\ asked < 3
    /\ page' = "home" /\ stage' = "load"
    /\ UNCHANGED <<console, flag, session, asked, leaving>>

\* useApiData's refetch, load() of the operator's page
Refetch ==
    /\ Moves
    /\ page = "home" /\ stage = "rest"
    /\ IF console = "tenant" /\ ~flag
       THEN Open("login")
       ELSE asked' \in 1 .. 2 /\ stage' = "wait" /\ UNCHANGED <<page, leaving>>
    /\ UNCHANGED <<console, flag, session>>

\* changePassword: the server says 401 of a wrong current password.
ChangePassword ==
    /\ Moves
    /\ page = "password" /\ stage = "rest"
    /\ \/ session /\ Open("home") /\ UNCHANGED flag
       \/ flag' = FALSE /\ Open("login")
    /\ UNCHANGED <<console, session>>

\* The tenant's handleLogout goes to the login page at once and without a
\* load: the requests go on, and the flag is still there.
LogOut ==
    /\ Moves
    /\ page \in {"home", "password"} /\ stage # "load" /\ leaving = "no"
    /\ leaving' = "sent"
    /\ IF console = "tenant" THEN page' = "login" /\ stage' = "load" ELSE UNCHANGED <<page, stage>>
    /\ UNCHANGED <<console, flag, session, asked>>

(***************************************************************************)
(* The server                                                              *)
(***************************************************************************)

ServerLogsOut ==
    /\ leaving = "sent"
    /\ session' = FALSE
    /\ leaving' = "done"
    /\ UNCHANGED <<console, page, stage, flag, asked, moves, hops>>

\* The answer, or none: "Best effort."
LogOutAnswered ==
    /\ leaving # "no"
    /\ flag' = FALSE
    /\ Redirect("login")
    /\ UNCHANGED <<console, session, moves>>

\* The token expires or is refused: the account is disabled, signed out elsewhere.
SessionEnds ==
    /\ session
    /\ session' = FALSE
    /\ UNCHANGED <<console, page, stage, flag, asked, leaving, moves, hops>>

Next ==
    \/ RunEffects \/ Answered \/ Refused
    \/ SignIn \/ Navigate \/ Link \/ Refetch \/ ChangePassword \/ LogOut
    \/ ServerLogsOut \/ LogOutAnswered \/ SessionEnds

Spec == Init /\ [][Next]_vars

(***************************************************************************)
(* Properties                                                              *)
(***************************************************************************)

\* The shape of the state; a page at rest waits for no data.
TypeOK ==
    /\ console \in Consoles
    /\ page \in Pages
    /\ stage \in {"load", "wait", "rest"}
    /\ flag \in BOOLEAN /\ session \in BOOLEAN
    /\ asked \in 0 .. 4 /\ (stage = "wait" => asked > 0)
    /\ stage = "rest" /\ page # "login" => asked = 0
    /\ leaving \in {"no", "sent", "done"}
    /\ moves \in 0 .. MaxMoves /\ hops \in Nat

\* Whatever the flag and the cookie say of each other, the pages do not keep
\* redirecting each other: after whatever the user did last there are no more
\* redirects than these.
RedirectsBounded == hops <= 2
=============================================================================
