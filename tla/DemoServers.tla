---------------------------- MODULE DemoServers ------------------------------
(***************************************************************************)
(* The three stand-alone servers in Python and their pages.  Each is a     *)
(* single-threaded HTTPServer on port 3000 over a table `operators` with   *)
(* one row.  simple-control-plane.py and real-control-plane-server.py      *)
(* share control_plane.db, so either can be started after the other;       *)
(* production-mfa-server.py has a file of its own.                         *)
(*                                                                         *)
(* A code is "digits" (six digits) or "letters" (six characters that are   *)
(* not): the pages refuse any other length.  No server compares a code     *)
(* with a secret.  handle_mfa_setup changes nothing and its secret is only *)
(* shown.                                                                  *)
(***************************************************************************)
EXTENDS Naturals

CONSTANTS
    Tabs,        \* the tabs of the operator's browser
    MaxStarts    \* how often a server is started again

VARIABLES
    server,      \* the program that runs
    operator,    \* the row: [enabled, secret, used]
    tabs,        \* tab -> [page, call, next, routed]
    unheard,     \* a request of a page that was left
    starts       \* how often a server was started

vars == <<server, operator, tabs, unheard, starts>>

Servers == {"simple", "real", "production"}
Pages   == {"login", "setup", "verify", "dashboard"}
Codes   == {"digits", "letters"}
None    == "none"

SharesFile(s) == IF s = "production" THEN {s} ELSE {"simple", "real"}

NewRow == [enabled |-> FALSE, secret |-> None, used |-> FALSE]
NoCall == [what |-> None, code |-> None]

\* The forms of a page.  useInvite may have kept a token for the login; the page of
\* production has no such field.
Forms(p) ==
    CASE p = "login"  -> [what : {"login"}, code : {"wrong", "right", "invite"}]
      [] p = "setup"  -> [what : {"enable"}, code : Codes]
      [] p = "verify" -> [what : {"verify"}, code : Codes]
      [] OTHER        -> {}

\* A page that was just loaded: its script has no timer and no call.
Loaded(p, routed) ==
    [page |-> p, call |-> NoCall, next |-> None, routed |-> routed]

Init ==
    /\ server \in Servers
    /\ operator = NewRow
    /\ tabs = [t \in Tabs |-> Loaded("login", FALSE)]
    /\ unheard = NoCall
    /\ starts = 0

(***************************************************************************)
(* The pages                                                               *)
(***************************************************************************)

\* Some requests write.
Changes(call) == call.what = "enable" \/ call.code = "invite"

\* A page is left: the server may have its request, and has no one to answer.
Leave(t, p, routed) ==
    /\ tabs' = [tabs EXCEPT ![t] = Loaded(p, routed)]
    /\ \/ UNCHANGED unheard
       \/ /\ unheard = NoCall /\ Changes(tabs[t].call)
          /\ unheard' = tabs[t].call
    /\ UNCHANGED <<server, operator, starts>>

\* The operator opens a page: the address bar, a link, "Reset MFA Setup", testMfaFlow.
Open(t, p) == p \in Pages /\ Leave(t, p, FALSE)

\* A form is sent.  It can be sent again while the timer of an earlier answer runs.
Submit(t, form) ==
    /\ form \in Forms(tabs[t].page) /\ tabs[t].call = NoCall
    /\ form.code = "invite" => server # "production"
    /\ tabs' = [tabs EXCEPT ![t].call = form]
    /\ UNCHANGED <<server, operator, unheard, starts>>

\* The timer of 1.5 or 2 s runs out.
Redirect(t) == tabs[t].next # None /\ Leave(t, tabs[t].next, tabs[t].page = "login")

(***************************************************************************)
(* The handlers: the row they leave and the page their answer leads to     *)
(***************************************************************************)

\* handle_login
LoginWrites(code) == IF code = "invite" THEN [operator EXCEPT !.used = TRUE] ELSE operator

RequiresMfaSetup == ~operator.enabled

LoginRoute(code) ==
    IF code = "wrong" THEN None
    ELSE IF RequiresMfaSetup THEN "setup" ELSE "verify"

\* handle_mfa_enable: production looks at no code; the others want six digits.
Enables(code) == server = "production" \/ code = "digits"

\* mutant: the row is enabled and no secret is stored
EnableOnly(code) == IF Enables(code) THEN [operator EXCEPT !.enabled = TRUE] ELSE operator

\* Two servers store a constant, production the code itself.
EnableWrites(code) ==
    IF Enables(code)
       THEN [operator EXCEPT !.enabled = TRUE,
                             !.secret = IF server = "production" THEN code ELSE "constant"]
       ELSE operator

\* The page goes to the dashboard once it is told of success.
EnableRoute(code) == IF Enables(code) THEN "dashboard" ELSE None

\* handle_mfa_verify of production reads no row.
ReadsRow == server # "production"

\* handle_mfa_verify of the others: "MFA not configured" without a secret.
Verifies == ReadsRow => operator.secret # None

VerifyRoute(code) == IF Verifies /\ code = "digits" THEN "dashboard" ELSE None

Writes(call) ==
    CASE call.what = "login"  -> LoginWrites(call.code)
      [] call.what = "enable" -> EnableWrites(call.code)
      [] OTHER                -> operator

Route(call) ==
    CASE call.what = "login"  -> LoginRoute(call.code)
      [] call.what = "enable" -> EnableRoute(call.code)
      [] call.what = "verify" -> VerifyRoute(call.code)
      [] OTHER                -> None

\* One request at a time.  The first timer to run out leaves the page, whatever is
\* answered after it was set.
Handle(t) ==
    /\ tabs[t].call # NoCall
    /\ operator' = Writes(tabs[t].call)
    /\ tabs' = [tabs EXCEPT ![t].call = NoCall,
                           ![t].next = IF @ = None THEN Route(tabs[t].call) ELSE @]
    /\ UNCHANGED <<server, unheard, starts>>

HandleUnheard ==
    /\ unheard # NoCall /\ unheard' = NoCall
    /\ operator' = Writes(unheard)
    /\ UNCHANGED <<server, tabs, starts>>

(***************************************************************************)
(* The server ends and one that uses its file is started                   *)
(***************************************************************************)

\* A request that was out fails ("Network error"): the process ended before it was
\* handled, or after its commit and before the answer.  init_db keeps the row.
Start(s) ==
    /\ s \in SharesFile(server) /\ starts < MaxStarts
    /\ server' = s /\ starts' = starts + 1 /\ unheard' = NoCall
    /\ operator' \in {operator} \cup
          {Writes(call) : call \in {unheard} \cup {tabs[t].call : t \in Tabs}}
    /\ tabs' = [t \in Tabs |-> [tabs[t] EXCEPT !.call = NoCall]]

Next ==
    \/ \E t \in Tabs :
        \/ Redirect(t) \/ Handle(t)
        \/ \E p \in Pages : Open(t, p)
        \/ \E form \in Forms(tabs[t].page) : Submit(t, form)
    \/ HandleUnheard
    \/ \E s \in Servers : Start(s)

Spec == Init /\ [][Next]_vars

(***************************************************************************)
(* Properties                                                              *)
(***************************************************************************)

\* The shape of the state.
TypeOK ==
    /\ server \in Servers /\ starts \in 0..MaxStarts
    /\ operator \in [enabled : BOOLEAN, secret : {None, "constant"} \cup Codes, used : BOOLEAN]
    /\ \A t \in Tabs :
        /\ tabs[t].page \in Pages /\ tabs[t].routed \in BOOLEAN
        /\ tabs[t].call \in {NoCall} \cup Forms(tabs[t].page)
        /\ tabs[t].next \in Pages \cup {None}
    /\ unheard = NoCall \/ Changes(unheard)

\* handle_login sends an operator to /mfa-verify only if that page can let it through:
\* the answer is used 1.5 s later, and another tab or another server that uses the file
\* may have written the row by then.
VerifyPageWorks ==
    \A t \in Tabs : tabs[t].page = "verify" /\ tabs[t].routed => Verifies
=============================================================================
