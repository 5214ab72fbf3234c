--------------------------- MODULE PortalSession ----------------------------
(***************************************************************************)
(* One browser of an administrator, who knows the password, with several    *)
(* tabs: the middleware of apps/web/src/middleware.ts, the login form and   *)
(* the logout button of apps/web/src/components, and the session routes     *)
(* and the guard of apps/api/src (routes/auth/session.ts, lib/session.ts,   *)
(* plugins/auth-guard.ts).  AdminBootstrap is how the API starts.           *)
(*                                                                         *)
(* Sessions live in the memory of one API instance.  A CSRF token is valid  *)
(* with the session that it was made for, so that a session stands for it.  *)
(* The API handles a request as it is sent; the answer, with its cookie,    *)
(* arrives later, when other tabs may have changed the cookie.              *)
(***************************************************************************)
EXTENDS AdminBootstrap

CONSTANTS
    Api,         \* the instance that serves the portal
    Tabs,
    Sessions,    \* enough for a fresh one at any time
    NoSession

ASSUME PortalAssumption ==
    /\ Api \in Instances
    /\ NoSession \notin Sessions

VARIABLES
    store,     \* the API's sessions
    cookie,    \* syn_session
    tab,       \* what each tab shows and waits for
    disturbed  \* tabs that others or faults have disturbed since they had a token

portalVars == <<store, cookie, tab, disturbed>>
allVars == <<bootVars, events, portalVars>>

(* What a tab waits for: a token (for its own sake, or to go on with a       *)
(* login), a login, a logout, or a page that it visits.                      *)
Waits == {"nothing", "token", "token_first", "login", "logout", "/login", "/"}

Blank == [page |-> "none", token |-> NoSession, wait |-> "nothing",
          ok |-> FALSE, sets |-> NoSession, had |-> FALSE]

PortalTypeOK ==
    /\ BootTypeOK
    /\ store \in [Sessions -> {"none", "anonymous", "admin"}]
    /\ cookie \in Sessions \cup {NoSession}
    /\ tab \in [Tabs -> [page : {"none", "login", "portal"},
                         token : Sessions \cup {NoSession},
                         wait : Waits,
                         ok : BOOLEAN,                         \* the answer to come
                         sets : Sessions \cup {NoSession},     \* its cookie
                         had : BOOLEAN]]                       \* the visit had a cookie
    /\ disturbed \subseteq Tabs

PortalInit ==
    /\ BootInit
    /\ store = [s \in Sessions |-> "none"]
    /\ cookie = NoSession
    /\ tab = [t \in Tabs |-> Blank]
    /\ disturbed = {}

-----------------------------------------------------------------------------
(* Requests, with the cookie c *)

Up == instance[Api] = "listening"

Live(c) == c # NoSession /\ store[c] # "none"

IsAdmin(c) == c # NoSession /\ store[c] = "admin"

(* Nobody refers to it: not the browser, not a tab, not an answer. *)
Fresh(s) == s # cookie /\ \A t \in Tabs : s # tab[t].token /\ s # tab[t].sets

NewSession == CHOOSE s \in Sessions : Fresh(s)

(* GET /auth/csrf: the session of the cookie or, to keep the secret, a new   *)
(* one.  rec is the tab as it asks, wait says what for.                      *)
AskToken(t, rec, wait, c) ==
    LET s == IF Live(c) THEN c ELSE NewSession
    IN /\ Live(c) \/ (s \in Sessions /\ Fresh(s))
       /\ store' = IF Up /\ ~Live(c) THEN [store EXCEPT ![s] = "anonymous"] ELSE store
       /\ tab' = [tab EXCEPT ![t] = [rec EXCEPT !.wait = wait, !.ok = Up, !.had = FALSE,
                                                !.sets = IF Up THEN s ELSE NoSession]]

(* POST /auth/session with the right password. *)
AskLogin(t, token, c) ==
    LET ok == Up /\ Live(c) /\ token = c /\ admins # {}
    IN /\ store' = IF ok THEN [store EXCEPT ![c] = "admin"] ELSE store
       /\ tab' = [tab EXCEPT ![t].token = token, ![t].wait = "login", ![t].ok = ok,
                             ![t].sets = IF ok THEN c ELSE NoSession]

(* DELETE /auth/session, behind the guard and the CSRF protection. *)
AskLogout(t, c) ==
    LET ok == Up /\ IsAdmin(c) /\ tab[t].token = c
    IN /\ store' = IF ok THEN [store EXCEPT ![c] = "none"] ELSE store
       /\ tab' = [tab EXCEPT ![t].wait = "logout", ![t].ok = ok]

(* The middleware asks GET /auth/session; no answer is a no. *)
AskPage(t, rec, path, c) ==
    tab' = [tab EXCEPT ![t] = [rec EXCEPT !.wait = path, !.ok = Up /\ IsAdmin(c),
                                          !.sets = NoSession, !.had = (c # NoSession)]]

Ended == {s \in Sessions : store[s] # "none" /\ store'[s] = "none"}

(* A new cookie or a logout disturbs the other tabs; a tab that asks for a   *)
(* token starts over.                                                        *)
Remember(t) ==
    disturbed' = (IF cookie' = cookie /\ Ended = {} THEN disturbed
                                                   ELSE disturbed \cup (Tabs \ {t}))
                     \ (IF tab'[t].wait \in {"token", "token_first"} THEN {t} ELSE {})

-----------------------------------------------------------------------------
(* The user *)

(* A link of the shell, or (unloading the page) an address or a reload.      *)
Visit(t, path) ==
    /\ Event
    /\ tab[t].wait = "nothing"
    /\ \E rec \in {Blank} \cup (IF tab[t].page = "portal" THEN {tab[t]} ELSE {}) :
          AskPage(t, rec, path, cookie)
    /\ UNCHANGED <<bootVars, store, cookie>>
    /\ Remember(t)

(* A form without a token gets one before it logs in. *)
Submit(t) ==
    /\ tab[t].page = "login"
    /\ tab[t].wait = "nothing"
    /\ IF tab[t].token = NoSession
       THEN AskToken(t, tab[t], "token_first", cookie)
       ELSE AskLogin(t, tab[t].token, cookie)
    /\ UNCHANGED <<bootVars, events, cookie>>
    /\ Remember(t)

Logout(t) ==
    /\ Event
    /\ tab[t].page = "portal"
    /\ tab[t].wait = "nothing"
    /\ tab[t].token # NoSession
    /\ AskLogout(t, cookie)
    /\ UNCHANGED <<bootVars, cookie>>
    /\ Remember(t)

-----------------------------------------------------------------------------
(* Answers *)

(* Variant of HaveToken: the request goes without credentials, and the        *)
(* browser drops the cookie.                                                 *)
HaveTokenWithoutCookie(t) ==
    /\ tab[t].wait \in {"token", "token_first"}
    /\ tab' = [tab EXCEPT ![t].token = tab[t].sets, ![t].wait = "nothing",
                          ![t].ok = FALSE, ![t].sets = NoSession]
    /\ UNCHANGED <<bootVars, events, cookie, store>>

HaveToken(t) ==
    /\ tab[t].wait \in {"token", "token_first"}
    /\ cookie' = IF tab[t].ok THEN tab[t].sets ELSE cookie
    /\ IF tab[t].ok /\ tab[t].wait = "token_first"
       THEN AskLogin(t, tab[t].sets, cookie')
       ELSE /\ tab' = [tab EXCEPT ![t].token = tab[t].sets, ![t].wait = "nothing",
                                  ![t].ok = FALSE, ![t].sets = NoSession]
            /\ UNCHANGED store
    /\ UNCHANGED <<bootVars, events>>

(* Variant of LoginAnswered: after a refusal the form keeps its token. *)
LoginAnsweredKeepingToken(t) ==
    /\ tab[t].wait = "login"
    /\ IF tab[t].ok
       THEN /\ cookie' = tab[t].sets
            /\ AskPage(t, tab[t], "/", cookie')
       ELSE /\ tab' = [tab EXCEPT ![t].wait = "nothing"]
            /\ UNCHANGED cookie
    /\ UNCHANGED <<bootVars, events, store>>

(* To the page that was asked for, or a new token and another try. *)
LoginAnswered(t) ==
    /\ tab[t].wait = "login"
    /\ IF tab[t].ok
       THEN /\ cookie' = tab[t].sets
            /\ AskPage(t, tab[t], "/", cookie')
            /\ UNCHANGED store
       ELSE /\ AskToken(t, tab[t], "token", cookie)
            /\ UNCHANGED cookie
    /\ UNCHANGED <<bootVars, events>>

(* The browser keeps the cookie of the destroyed session. *)
LogoutAnswered(t) ==
    /\ tab[t].wait = "logout"
    /\ IF tab[t].ok
       THEN AskPage(t, Blank, "/login", cookie) /\ UNCHANGED store
       ELSE AskToken(t, tab[t], "token", cookie)
    /\ UNCHANGED <<bootVars, events, cookie>>

(* A page that is not there yet is mounted, and asks for a token. *)
Show(t, page, c) ==
    IF tab[t].page = page
    THEN /\ tab' = [tab EXCEPT ![t].wait = "nothing", ![t].ok = FALSE, ![t].had = FALSE]
         /\ UNCHANGED store
    ELSE AskToken(t, [Blank EXCEPT !.page = page], "token", c)

(* The middleware's response: the page, or a redirect, which the browser     *)
(* follows.  Without a valid session it deletes the cookie, whichever it is. *)
PageAnswered(t) ==
    /\ tab[t].wait \in {"/", "/login"}
    /\ IF tab[t].ok
       THEN /\ IF tab[t].wait = "/"
               THEN Show(t, "portal", cookie)
               ELSE AskPage(t, tab[t], "/", cookie) /\ UNCHANGED store
            /\ UNCHANGED cookie
       ELSE LET c == IF tab[t].had \/ tab[t].wait = "/" THEN NoSession ELSE cookie
            IN /\ cookie' = c
               /\ IF tab[t].wait = "/"
                  THEN AskPage(t, tab[t], "/login", c) /\ UNCHANGED store
                  ELSE Show(t, "login", c)
    /\ UNCHANGED <<bootVars, events>>

-----------------------------------------------------------------------------
(* Faults *)

(* The API dies, and its sessions with it. *)
ApiDies ==
    /\ Up
    /\ Event
    /\ Advance(Api, "down")
    /\ store' = [s \in Sessions |-> "none"]
    /\ disturbed' = Tabs
    /\ UNCHANGED <<admins, audits, cookie, tab>>

(* A session ends after its 24 hours. *)
Expire(s) ==
    /\ Event
    /\ store[s] # "none"
    /\ store' = [store EXCEPT ![s] = "none"]
    /\ disturbed' = Tabs
    /\ UNCHANGED <<bootVars, cookie, tab>>

(* The answer to a form or a button is lost. *)
LoseAnswer(t) ==
    /\ Event
    /\ tab[t].wait \in {"token", "token_first", "login", "logout"} /\ tab[t].ok
    /\ tab' = [tab EXCEPT ![t].ok = FALSE, ![t].sets = NoSession]
    /\ disturbed' = disturbed \cup {t}
    /\ UNCHANGED <<bootVars, store, cookie>>

-----------------------------------------------------------------------------
Boot(i) == (BootStep(i) \/ StartFails(i)) /\ UNCHANGED portalVars

Answer(t) ==
    /\ HaveToken(t) \/ LoginAnswered(t) \/ LogoutAnswered(t) \/ PageAnswered(t)
    /\ Remember(t)

PortalNext ==
    \/ \E i \in Instances : Boot(i)
    \/ \E t \in Tabs :
          \/ \E path \in {"/", "/login"} : Visit(t, path)
          \/ Submit(t) \/ Logout(t) \/ Answer(t) \/ LoseAnswer(t)
    \/ ApiDies
    \/ \E s \in Sessions : Expire(s)

PortalSpec == PortalInit /\ [][PortalNext]_allVars

(* docker-compose restarts the API, fetches settle, and the user submits the *)
(* form as long as it is there.                                              *)
PortalFairness ==
    /\ \A i \in Instances : WF_allVars(BootStep(i) /\ UNCHANGED portalVars)
    /\ \A t \in Tabs : WF_allVars(Answer(t)) /\ WF_allVars(Submit(t))

FairPortalSpec == PortalSpec /\ PortalFairness

-----------------------------------------------------------------------------
(* Properties *)

(* A login with the right password fails only if another tab or a fault came *)
(* between it and its token: a form never trips over its own requests, its   *)
(* redirects or the cookie that the middleware deletes.                      *)
RefusedOnlyIfDisturbed ==
    \A t \in Tabs :
        (tab[t].wait = "login" /\ ~tab[t].ok) => t \in disturbed

(* Through stale cookies, stale tokens, redirects and restarts of the API,   *)
(* a tab gets into the portal in the end: the middleware never locks the     *)
(* user out of /login, and no form is stuck with a dead token.               *)
GetsIn == \A t \in Tabs : tab[t].wait # "nothing" ~> tab[t].page = "portal"

=============================================================================
