---------------------------- MODULE PortalProofs ----------------------------
(***************************************************************************)
(* Proofs about AdminBootstrap and PortalSession: for any instances with    *)
(* any credentials, any number of tabs, and any sequence of visits, logins, *)
(* logouts, restarts, expiries and lost answers.                            *)
(***************************************************************************)
EXTENDS PortalSession, TLAPS

-----------------------------------------------------------------------------
(* The bootstrap.  An instance that goes on after its create has an           *)
(* administrator; the log that it still owes is not there yet, and nobody    *)
(* else owes it.                                                             *)
OwesLog ==
    \A i \in Instances :
        /\ instance[i] \in {"auditing", "searching"} => EmailOf[i] \in admins
        /\ instance[i] = "auditing" =>
              /\ audits[EmailOf[i]] = 0
              /\ \A k \in Instances \ {i} :
                    instance[k] = "auditing" => EmailOf[k] # EmailOf[i]

BootInv == BootTypeOK /\ ListeningHasAdmin /\ AuditedOnce /\ OwesLog

LEMMA InitBootInv == BootInit => BootInv
BY BootstrapAssumption DEF BootInit, BootInv, BootTypeOK, ListeningHasAdmin, AuditedOnce, OwesLog

LEMMA EventTypes == ASSUME BootTypeOK, Event PROVE events' \in 0..MaxEvents
BY BootstrapAssumption DEF BootTypeOK, Event

(* Steps that leave the tables alone and lead an instance to a state with    *)
(* nothing to show.                                                          *)
LEMMA AdvanceKeepsBootInv ==
    ASSUME BootInv, NEW i \in Instances, NEW step \in {"down", "listening"} \cup Starting,
           Advance(i, step), UNCHANGED <<admins, audits>>, events' \in 0..MaxEvents,
           step # "auditing",
           step = "listening" => admins # {},
           step = "searching" => EmailOf[i] \in admins
    PROVE  BootInv'
<1>1. BootTypeOK'
  BY DEF BootInv, BootTypeOK, Advance
<1>2. instance'[i] = step /\ \A k \in Instances \ {i} : instance'[k] = instance[k]
  BY DEF BootInv, BootTypeOK, Advance
<1> QED
  BY <1>1, <1>2 DEF BootInv, ListeningHasAdmin, AuditedOnce, OwesLog

LEMMA BootStepInv ==
    ASSUME BootInv, NEW i \in Instances, BootStep(i)
    PROVE  BootInv'
<1>1. events' \in 0..MaxEvents
  BY DEF BootStep, BootInv, BootTypeOK
<1>2. CASE Launch(i)
  BY <1>1, <1>2, AdvanceKeepsBootInv DEF Launch, Starting
<1>3. CASE CountAdmins(i)
  BY <1>1, <1>3, AdvanceKeepsBootInv DEF CountAdmins, Starting
<1>4. CASE CreateAdmin(i)
  <2>1. CASE EmailOf[i] \in admins
    <3>1. UNCHANGED <<admins, audits>> /\ Advance(i, "searching")
      BY <1>4, <2>1 DEF CreateAdmin
    <3> QED  BY <1>1, <2>1, <3>1, AdvanceKeepsBootInv DEF Starting
  <2>2. CASE EmailOf[i] \notin admins
    <3>1. /\ instance' = [instance EXCEPT ![i] = "auditing"]
          /\ admins' = admins \cup {EmailOf[i]} /\ audits' = audits
      BY <1>4, <2>2 DEF CreateAdmin, Advance
    <3>2. instance'[i] = "auditing" /\ \A k \in Instances \ {i} : instance'[k] = instance[k]
      BY <3>1 DEF BootInv, BootTypeOK
    <3>3. audits[EmailOf[i]] = 0
      BY <2>2, BootstrapAssumption DEF BootInv, BootTypeOK, AuditedOnce
    <3>4. BootTypeOK'
      BY <1>1, <3>1, BootstrapAssumption DEF BootInv, BootTypeOK, Starting
    <3> QED
      BY <2>2, <3>1, <3>2, <3>3, <3>4 DEF BootInv, ListeningHasAdmin, AuditedOnce, OwesLog
  <2> QED  BY <2>1, <2>2
<1>5. CASE AuditBootstrap(i)
  <2>1. /\ instance[i] = "auditing"
        /\ audits' = [audits EXCEPT ![EmailOf[i]] = @ + 1] /\ admins' = admins
        /\ instance' = [instance EXCEPT ![i] = "listening"]
    BY <1>5 DEF AuditBootstrap, Advance
  <2>2. instance'[i] = "listening" /\ \A k \in Instances \ {i} : instance'[k] = instance[k]
    BY <2>1 DEF BootInv, BootTypeOK
  <2>3. /\ audits'[EmailOf[i]] = 1
        /\ \A e \in Emails \ {EmailOf[i]} : audits'[e] = audits[e]
    BY <2>1, BootstrapAssumption DEF BootInv, BootTypeOK, OwesLog
  <2>4. BootTypeOK'
    <3>1. EmailOf[i] \in Emails /\ audits[EmailOf[i]] + 1 \in Nat
      BY BootstrapAssumption DEF BootInv, BootTypeOK
    <3>2. audits' \in [Emails -> Nat]
      BY <2>1, <3>1 DEF BootInv, BootTypeOK
    <3> QED  BY <1>1, <2>1, <3>2 DEF BootInv, BootTypeOK
  <2>5. EmailOf[i] \in admins
    BY <2>1 DEF BootInv, OwesLog
  <2>6. ListeningHasAdmin' /\ AuditedOnce'
    BY <2>1, <2>2, <2>3, <2>5 DEF BootInv, ListeningHasAdmin, AuditedOnce
  <2>7. OwesLog'
    BY <2>1, <2>2, <2>3, BootstrapAssumption DEF BootInv, OwesLog
  <2> QED  BY <2>4, <2>6, <2>7 DEF BootInv
<1>6. CASE FindAdmin(i)
  BY <1>1, <1>6, AdvanceKeepsBootInv DEF FindAdmin, Starting
<1> QED
  BY <1>2, <1>3, <1>4, <1>5, <1>6 DEF BootStep

LEMMA StartFailsInv ==
    ASSUME BootInv, NEW i \in Instances, StartFails(i)
    PROVE  BootInv'
BY EventTypes, AdvanceKeepsBootInv DEF StartFails, BootInv

-----------------------------------------------------------------------------
(* The portal.  What a tab that nothing has disturbed may rely on.           *)

Tab == [page : {"none", "login", "portal"}, token : Sessions \cup {NoSession}, wait : Waits,
        ok : BOOLEAN, sets : Sessions \cup {NoSession}, had : BOOLEAN]

TokenWaits == {"token", "token_first"}

(* A token to come is of a session that lives, or there is none to come. *)
TokenSound(t) ==
    tab[t].wait \in TokenWaits =>
        IF tab[t].ok THEN Up /\ Live(tab[t].sets) ELSE tab[t].sets = NoSession

(* A form that waits for the user has a token for the browser's session. *)
FormSound(t) ==
    (tab[t].page = "login" /\ tab[t].wait = "nothing" /\ tab[t].token # NoSession) =>
        Up /\ tab[t].token = cookie /\ Live(cookie)

(* A login succeeds, and the visit that follows it. *)
LoginSound(t) ==
    /\ tab[t].wait = "login" => tab[t].ok /\ Up /\ IsAdmin(tab[t].sets)
    /\ (tab[t].page = "login" /\ tab[t].wait \in {"/", "/login"}) =>
          tab[t].wait = "/" /\ tab[t].ok

TabSound(t) == t \notin disturbed => TokenSound(t) /\ FormSound(t) /\ LoginSound(t)

PortalInv ==
    /\ BootInv
    /\ PortalTypeOK
    /\ \A t \in Tabs : TabSound(t)

LEMMA InitPortalInv == PortalInit => PortalInv
<1> SUFFICES ASSUME PortalInit PROVE PortalInv
  OBVIOUS
<1>1. BootInv
  BY InitBootInv DEF PortalInit
<1>2. PortalTypeOK
  BY <1>1 DEF BootInv, PortalInit, PortalTypeOK, Blank, Waits
<1>3. \A t \in Tabs : TabSound(t)
  BY DEF PortalInit, TabSound, TokenSound, FormSound, LoginSound, Blank, TokenWaits
<1> QED
  BY <1>1, <1>2, <1>3 DEF PortalInv

-----------------------------------------------------------------------------
(* What a step of the tab t leaves to the others: their records and, if it    *)
(* ends no session, those of administrators that they have been promised.    *)
Keeps(t) ==
    /\ store' \in [Sessions -> {"none", "anonymous", "admin"}]
    /\ tab' \in [Tabs -> Tab]
    /\ \A u \in Tabs \ {t} :
          /\ tab'[u] = tab[u]
          /\ (IsAdmin(tab[u].sets) /\ Ended = {}) => IsAdmin(tab[u].sets)'

LEMMA OthersSound ==
    ASSUME PortalInv, NEW t \in Tabs, Keeps(t), Remember(t), UNCHANGED instance,
           NEW u \in Tabs \ {t}
    PROVE  TabSound(u)'
<1> SUFFICES ASSUME u \notin disturbed' PROVE TabSound(u)'
  BY DEF TabSound
<1>1. /\ u \notin disturbed /\ cookie' = cookie /\ Ended = {}
  BY DEF Remember
<1>2. \A s \in Sessions : store[s] # "none" => store'[s] # "none"
  BY <1>1 DEF Ended
<1>3. /\ tab'[u] = tab[u]
      /\ tab[u] \in Tab
      /\ IsAdmin(tab[u].sets) => IsAdmin(tab[u].sets)'
      /\ cookie \in Sessions \cup {NoSession}
  BY <1>1 DEF Keeps, PortalInv, PortalTypeOK, Tab
<1>4. TokenSound(u) /\ FormSound(u) /\ LoginSound(u)
  BY <1>1 DEF PortalInv, TabSound
<1>5. TokenSound(u)'
  BY <1>2, <1>3, <1>4 DEF TokenSound, Up, Live, Tab
<1>6. FormSound(u)'
  BY <1>1, <1>2, <1>3, <1>4 DEF FormSound, Up, Live
<1>7. LoginSound(u)'
  BY <1>3, <1>4 DEF LoginSound, Up, IsAdmin
<1> QED
  BY <1>5, <1>6, <1>7 DEF TabSound

(* Asking for a token puts a tab on firm ground. *)
LEMMA AskTokenSound ==
    ASSUME PortalInv, NEW t \in Tabs, NEW rec \in Tab, NEW wait \in TokenWaits,
           NEW c \in Sessions \cup {NoSession}, AskToken(t, rec, wait, c), UNCHANGED instance
    PROVE  /\ Keeps(t)
           /\ tab'[t].wait = wait
           /\ TokenSound(t)' /\ FormSound(t)' /\ LoginSound(t)'
<1> DEFINE s == IF Live(c) THEN c ELSE NewSession
           new == [rec EXCEPT !.wait = wait, !.ok = Up, !.had = FALSE,
                              !.sets = IF Up THEN s ELSE NoSession]
<1>1. s \in Sessions /\ (~Live(c) => Fresh(s))
  BY DEF AskToken, Live
<1>2. /\ store' = IF Up /\ ~Live(c) THEN [store EXCEPT ![s] = "anonymous"] ELSE store
      /\ tab' = [tab EXCEPT ![t] = new]
  BY DEF AskToken
<1>3. s # NoSession
  BY <1>1, PortalAssumption
<1> HIDE DEF s
<1>4. new \in Tab /\ new.wait = wait /\ new.ok = Up
      /\ new.sets = IF Up THEN s ELSE NoSession
  BY <1>1 DEF Tab, TokenWaits, Waits, Up
<1> HIDE DEF new
<1>5. /\ tab \in [Tabs -> Tab] /\ store \in [Sessions -> {"none", "anonymous", "admin"}]
  BY DEF PortalInv, PortalTypeOK, Tab
<1>6. tab'[t] = new /\ \A u \in Tabs \ {t} : tab'[u] = tab[u]
  BY <1>2, <1>5
<1>7. Keeps(t)
  <2>1. store' \in [Sessions -> {"none", "anonymous", "admin"}] /\ tab' \in [Tabs -> Tab]
    BY <1>1, <1>2, <1>4, <1>5
  <2>2. ASSUME NEW u \in Tabs \ {t}, IsAdmin(tab[u].sets) PROVE IsAdmin(tab[u].sets)'
    BY <1>1, <1>2, <1>5, <1>6, <2>2 DEF IsAdmin, Fresh, Tab
  <2> QED  BY <1>6, <2>1, <2>2 DEF Keeps
<1>8. Up => store'[s] # "none"
  BY <1>1, <1>2, <1>5, s = c \/ ~Live(c) DEF Live, s
<1>9. TokenSound(t)'
  BY <1>3, <1>4, <1>6, <1>8 DEF TokenSound, Up, Live
<1>10. FormSound(t)' /\ LoginSound(t)'
  BY <1>4, <1>6 DEF FormSound, LoginSound, TokenWaits
<1> QED
  BY <1>4, <1>6, <1>7, <1>9, <1>10

(* A login with the token of the session that the browser has succeeds. *)
LEMMA AskLoginSound ==
    ASSUME PortalInv, NEW t \in Tabs, NEW c \in Sessions \cup {NoSession},
           NEW token \in Sessions \cup {NoSession}, AskLogin(t, token, c), UNCHANGED instance
    PROVE  /\ Keeps(t)
           /\ tab'[t].wait = "login"
           /\ (Up /\ Live(c) /\ token = c) =>
                 TokenSound(t)' /\ FormSound(t)' /\ LoginSound(t)'
<1> DEFINE ok == Up /\ Live(c) /\ token = c /\ admins # {}
           new == [tab[t] EXCEPT !.token = token, !.wait = "login", !.ok = ok,
                                 !.sets = IF ok THEN c ELSE NoSession]
<1>1. /\ store' = IF ok THEN [store EXCEPT ![c] = "admin"] ELSE store
      /\ tab' = [tab EXCEPT ![t] = new]
  BY DEF AskLogin, PortalInv, PortalTypeOK
<1>2. /\ tab \in [Tabs -> Tab] /\ store \in [Sessions -> {"none", "anonymous", "admin"}]
      /\ ok \in BOOLEAN
  BY DEF PortalInv, PortalTypeOK, Tab
<1>3. ok => c \in Sessions
  BY DEF Live
<1>4. Up => admins # {}
  BY PortalAssumption DEF Up, PortalInv, BootInv, ListeningHasAdmin
<1>5. (Up /\ Live(c) /\ token = c) => ok
  BY <1>4
<1> HIDE DEF ok
<1>6. /\ new \in Tab /\ new.wait = "login" /\ new.ok = ok
      /\ new.sets = IF ok THEN c ELSE NoSession
  BY <1>2 DEF Tab, Waits
<1> HIDE DEF new
<1>7. tab'[t] = new /\ \A u \in Tabs \ {t} : tab'[u] = tab[u]
  BY <1>1, <1>2
<1>8. /\ store' \in [Sessions -> {"none", "anonymous", "admin"}]
      /\ \A s \in Sessions : store[s] = "admin" => store'[s] = "admin"
      /\ ok => store'[c] = "admin"
  BY <1>1, <1>2, <1>3
<1>9. Keeps(t)
  <2>1. tab' \in [Tabs -> Tab]
    BY <1>1, <1>2, <1>6
  <2>2. ASSUME NEW u \in Tabs \ {t}, IsAdmin(tab[u].sets) PROVE IsAdmin(tab[u].sets)'
    BY <1>2, <1>7, <1>8, <2>2 DEF IsAdmin, Tab
  <2> QED  BY <1>7, <1>8, <2>1, <2>2 DEF Keeps
<1>10. ASSUME Up, Live(c), token = c
       PROVE  TokenSound(t)' /\ FormSound(t)' /\ LoginSound(t)'
  BY <1>5, <1>6, <1>7, <1>8, <1>10
  DEF TokenSound, FormSound, LoginSound, TokenWaits, Up, IsAdmin, Live
<1> QED
  BY <1>6, <1>7, <1>9, <1>10

(* A visit changes nothing but the tab that waits for it. *)
LEMMA AskPageSound ==
    ASSUME PortalInv, NEW t \in Tabs, NEW rec \in Tab, NEW path \in {"/", "/login"},
           NEW c \in Sessions \cup {NoSession}, AskPage(t, rec, path, c),
           UNCHANGED <<instance, store>>
    PROVE  /\ Keeps(t)
           /\ tab'[t].wait = path
           /\ TokenSound(t)' /\ FormSound(t)'
           /\ (rec.page # "login" \/ (path = "/" /\ Up /\ IsAdmin(c))) => LoginSound(t)'
<1> DEFINE ok == Up /\ IsAdmin(c)
           new == [rec EXCEPT !.wait = path, !.ok = ok, !.sets = NoSession,
                              !.had = (c # NoSession)]
<1>1. tab' = [tab EXCEPT ![t] = new]
  BY DEF AskPage
<1>2. /\ tab \in [Tabs -> Tab] /\ store \in [Sessions -> {"none", "anonymous", "admin"}]
      /\ ok \in BOOLEAN
  BY DEF PortalInv, PortalTypeOK, Tab
<1>3. (Up /\ IsAdmin(c)) => ok
  OBVIOUS
<1> HIDE DEF ok
<1>4. new \in Tab /\ new.wait = path /\ new.ok = ok /\ new.page = rec.page
  BY <1>2 DEF Tab, Waits
<1> HIDE DEF new
<1>5. tab'[t] = new /\ \A u \in Tabs \ {t} : tab'[u] = tab[u]
  BY <1>1, <1>2
<1>6. Keeps(t)
  BY <1>1, <1>2, <1>4, <1>5 DEF Keeps, IsAdmin
<1>7. TokenSound(t)' /\ FormSound(t)'
  BY <1>4, <1>5 DEF TokenSound, FormSound, TokenWaits
<1>8. (rec.page # "login" \/ (path = "/" /\ Up /\ IsAdmin(c))) => LoginSound(t)'
  BY <1>3, <1>4, <1>5 DEF LoginSound
<1> QED
  BY <1>4, <1>5, <1>6, <1>7, <1>8

-----------------------------------------------------------------------------
(* From the tab that acts to the whole. *)
LEMMA StepSound ==
    ASSUME PortalInv, NEW t \in Tabs, Keeps(t), Remember(t), UNCHANGED bootVars,
           events' \in 0..MaxEvents, cookie' \in Sessions \cup {NoSession}, TabSound(t)'
    PROVE  PortalInv'
<1>1. BootInv'
  BY DEF PortalInv, BootInv, BootTypeOK, ListeningHasAdmin, AuditedOnce, OwesLog, bootVars
<1>2. PortalTypeOK'
  <2>1. disturbed' \subseteq Tabs
    BY DEF Remember, PortalInv, PortalTypeOK
  <2> QED  BY <1>1, <2>1 DEF BootInv, PortalTypeOK, Keeps, Tab
<1>3. \A u \in Tabs : TabSound(u)'
  BY OthersSound DEF bootVars
<1> QED
  BY <1>1, <1>2, <1>3 DEF PortalInv

(* A tab that does not ask for a token stays as disturbed as it was. *)
LEMMA StaysDisturbed ==
    ASSUME NEW t \in Tabs, Remember(t), tab'[t].wait \notin TokenWaits
    PROVE  t \in disturbed <=> t \in disturbed'
BY DEF Remember, TokenWaits

-----------------------------------------------------------------------------
(* One lemma per step of a tab *)

LEMMA VisitSound ==
    ASSUME PortalInv, NEW t \in Tabs, NEW path \in {"/", "/login"}, Visit(t, path)
    PROVE  PortalInv'
<1>1. events' \in 0..MaxEvents
  BY EventTypes DEF Visit, PortalInv, BootInv
<1>2. PICK rec \in {Blank} \cup (IF tab[t].page = "portal" THEN {tab[t]} ELSE {}) :
          AskPage(t, rec, path, cookie)
  BY DEF Visit
<1>3. rec \in Tab /\ rec.page # "login" /\ cookie \in Sessions \cup {NoSession}
  <2>1. Blank \in Tab /\ Blank.page = "none"
    BY DEF Tab, Blank, Waits
  <2>2. tab[t] \in Tab /\ cookie \in Sessions \cup {NoSession}
    BY DEF PortalInv, PortalTypeOK, Tab
  <2>3. rec = Blank \/ (rec = tab[t] /\ tab[t].page = "portal")
    OBVIOUS
  <2> QED  BY <2>1, <2>2, <2>3
<1>4. Keeps(t) /\ TokenSound(t)' /\ FormSound(t)' /\ LoginSound(t)'
  BY <1>2, <1>3, AskPageSound DEF Visit, bootVars
<1> QED
  BY <1>1, <1>3, <1>4, StepSound DEF Visit, TabSound

LEMMA SubmitSound ==
    ASSUME PortalInv, NEW t \in Tabs, Submit(t)
    PROVE  PortalInv'
<1>1. /\ events' \in 0..MaxEvents /\ cookie' = cookie /\ UNCHANGED bootVars /\ Remember(t)
      /\ cookie \in Sessions \cup {NoSession} /\ tab[t] \in Tab
  BY DEF Submit, PortalInv, PortalTypeOK, BootTypeOK, Tab
<1>2. CASE tab[t].token = NoSession
  <2>1. AskToken(t, tab[t], "token_first", cookie)
    BY <1>2 DEF Submit
  <2>2. Keeps(t) /\ TokenSound(t)' /\ FormSound(t)' /\ LoginSound(t)'
    BY <1>1, <2>1, AskTokenSound DEF TokenWaits, bootVars
  <2> QED  BY <1>1, <2>2, StepSound DEF TabSound
<1>3. CASE tab[t].token # NoSession
  <2>1. AskLogin(t, tab[t].token, cookie) /\ tab[t].token \in Sessions \cup {NoSession}
    BY <1>1, <1>3 DEF Submit, Tab
  <2>2. /\ Keeps(t) /\ tab'[t].wait = "login"
        /\ (Up /\ Live(cookie) /\ tab[t].token = cookie) =>
              TokenSound(t)' /\ FormSound(t)' /\ LoginSound(t)'
    BY <1>1, <2>1, AskLoginSound DEF bootVars
  <2>3. ASSUME t \notin disturbed PROVE Up /\ Live(cookie) /\ tab[t].token = cookie
    BY <1>3, <2>3 DEF PortalInv, TabSound, FormSound, Submit
  <2>4. TabSound(t)'
    BY <1>1, <2>2, <2>3, StaysDisturbed DEF TabSound, TokenWaits
  <2> QED  BY <1>1, <2>2, <2>4, StepSound
<1> QED
  BY <1>2, <1>3

LEMMA LogoutSound ==
    ASSUME PortalInv, NEW t \in Tabs, Logout(t)
    PROVE  PortalInv'
<1> DEFINE ok == Up /\ IsAdmin(cookie) /\ tab[t].token = cookie
           new == [tab[t] EXCEPT !.wait = "logout", !.ok = ok]
<1>1. events' \in 0..MaxEvents
  BY EventTypes DEF Logout, PortalInv, BootInv
<1>2. /\ tab \in [Tabs -> Tab] /\ store \in [Sessions -> {"none", "anonymous", "admin"}]
      /\ cookie \in Sessions \cup {NoSession} /\ cookie' = cookie /\ ok \in BOOLEAN
  BY DEF Logout, PortalInv, PortalTypeOK, Tab
<1>3. /\ store' = IF ok THEN [store EXCEPT ![cookie] = "none"] ELSE store
      /\ tab' = [tab EXCEPT ![t] = new]
  BY <1>2 DEF Logout, AskLogout, Tab
<1>4. ok => cookie \in Sessions /\ store[cookie] = "admin"
  BY <1>2 DEF IsAdmin
<1> HIDE DEF ok
<1>5. new \in Tab /\ new.wait = "logout" /\ new.page = "portal"
  BY <1>2 DEF Logout, Tab, Waits
<1> HIDE DEF new
<1>6. tab'[t] = new /\ \A u \in Tabs \ {t} : tab'[u] = tab[u]
  BY <1>2, <1>3
<1>7. Ended = {} => store' = store
  BY <1>2, <1>3, <1>4 DEF Ended
<1>8. Keeps(t)
  <2>1. store' \in [Sessions -> {"none", "anonymous", "admin"}] /\ tab' \in [Tabs -> Tab]
    BY <1>2, <1>3, <1>5
  <2> QED  BY <1>6, <1>7, <2>1 DEF Keeps, IsAdmin
<1>9. TabSound(t)'
  BY <1>5, <1>6 DEF TabSound, TokenSound, FormSound, LoginSound, TokenWaits
<1> QED
  BY <1>1, <1>2, <1>8, <1>9, StepSound DEF Logout

LEMMA LoseAnswerSound ==
    ASSUME PortalInv, NEW t \in Tabs, LoseAnswer(t)
    PROVE  PortalInv'
<1>1. events' \in 0..MaxEvents
  BY EventTypes DEF LoseAnswer, PortalInv, BootInv
<1>2. BootInv'
  BY <1>1 DEF LoseAnswer, PortalInv, BootInv, BootTypeOK, ListeningHasAdmin, AuditedOnce, OwesLog,
              bootVars
<1>3. PortalTypeOK'
  BY <1>2 DEF LoseAnswer, PortalInv, BootInv, PortalTypeOK
<1>4. ASSUME NEW u \in Tabs, u \notin disturbed' PROVE TokenSound(u)' /\ FormSound(u)' /\ LoginSound(u)'
  <2>1. u # t /\ u \notin disturbed /\ tab'[u] = tab[u]
    BY <1>4 DEF LoseAnswer, PortalInv, PortalTypeOK
  <2> QED
    BY <2>1 DEF LoseAnswer, PortalInv, TabSound, TokenSound, FormSound, LoginSound, Up, Live, IsAdmin,
                bootVars
<1> QED
  BY <1>2, <1>3, <1>4 DEF PortalInv, TabSound

(* Every answer but the loss of one is a step of Answer. *)
LEMMA HaveTokenSound ==
    ASSUME PortalInv, NEW t \in Tabs, HaveToken(t), Remember(t)
    PROVE  PortalInv'
<1>1. /\ events' \in 0..MaxEvents /\ UNCHANGED bootVars
      /\ tab[t] \in Tab /\ tab[t].sets \in Sessions \cup {NoSession}
      /\ cookie' \in Sessions \cup {NoSession}
      /\ tab[t].wait \in TokenWaits
  BY DEF HaveToken, PortalInv, PortalTypeOK, BootTypeOK, Tab, TokenWaits
<1>2. CASE tab[t].ok /\ tab[t].wait = "token_first"
  <2>1. cookie' = tab[t].sets /\ AskLogin(t, tab[t].sets, tab[t].sets)
    BY <1>2 DEF HaveToken, AskLogin, Live
  <2>2. /\ Keeps(t) /\ tab'[t].wait = "login"
        /\ (Up /\ Live(tab[t].sets)) => TokenSound(t)' /\ FormSound(t)' /\ LoginSound(t)'
    BY <1>1, <2>1, AskLoginSound DEF bootVars
  <2>3. t \notin disturbed => Up /\ Live(tab[t].sets)
    BY <1>1, <1>2 DEF PortalInv, TabSound, TokenSound
  <2>4. TabSound(t)'
    BY <1>1, <2>2, <2>3, StaysDisturbed DEF TabSound, TokenWaits
  <2> QED  BY <1>1, <2>2, <2>4, StepSound
<1>3. CASE ~(tab[t].ok /\ tab[t].wait = "token_first")
  <2> DEFINE new == [tab[t] EXCEPT !.token = tab[t].sets, !.wait = "nothing", !.ok = FALSE,
                                   !.sets = NoSession]
  <2>1. /\ tab' = [tab EXCEPT ![t] = new] /\ store' = store
        /\ tab[t].ok => cookie' = tab[t].sets
    BY <1>3 DEF HaveToken, PortalInv, PortalTypeOK
  <2>2. new \in Tab /\ new.wait = "nothing" /\ new.token = tab[t].sets
    BY <1>1 DEF Tab, Waits
  <2> HIDE DEF new
  <2>3. tab \in [Tabs -> Tab] /\ store \in [Sessions -> {"none", "anonymous", "admin"}]
    BY DEF PortalInv, PortalTypeOK, Tab
  <2>4. tab'[t] = new /\ \A u \in Tabs \ {t} : tab'[u] = tab[u]
    BY <2>1, <2>3
  <2>5. Keeps(t)
    BY <2>1, <2>2, <2>3, <2>4 DEF Keeps, IsAdmin
  <2>6. t \notin disturbed =>
           IF tab[t].ok THEN Up /\ Live(tab[t].sets) ELSE tab[t].sets = NoSession
    BY <1>1 DEF PortalInv, TabSound, TokenSound
  <2>7. (t \notin disturbed /\ tab'[t].token # NoSession) =>
           Up' /\ tab'[t].token = cookie' /\ Live(cookie)'
    BY <1>1, <2>1, <2>2, <2>4, <2>6 DEF Up, Live, bootVars
  <2>8. TabSound(t)'
    BY <2>2, <2>4, <2>7, StaysDisturbed DEF TabSound, TokenSound, FormSound, LoginSound, TokenWaits
  <2> QED  BY <1>1, <2>5, <2>8, StepSound
<1> QED
  BY <1>2, <1>3

LEMMA LoginAnsweredSound ==
    ASSUME PortalInv, NEW t \in Tabs, LoginAnswered(t), Remember(t)
    PROVE  PortalInv'
<1>1. /\ events' \in 0..MaxEvents /\ UNCHANGED bootVars
      /\ tab[t] \in Tab /\ tab[t].sets \in Sessions \cup {NoSession}
      /\ cookie \in Sessions \cup {NoSession}
      /\ tab[t].wait = "login"
  BY DEF LoginAnswered, PortalInv, PortalTypeOK, BootTypeOK, Tab
<1>2. CASE tab[t].ok
  <2>1. /\ cookie' = tab[t].sets /\ store' = store
        /\ AskPage(t, tab[t], "/", tab[t].sets)
    BY <1>2 DEF LoginAnswered, AskPage, IsAdmin
  <2>2. /\ Keeps(t) /\ tab'[t].wait = "/" /\ TokenSound(t)' /\ FormSound(t)'
        /\ (Up /\ IsAdmin(tab[t].sets)) => LoginSound(t)'
    BY <1>1, <2>1, AskPageSound DEF bootVars
  <2>3. t \notin disturbed => Up /\ IsAdmin(tab[t].sets)
    BY <1>1 DEF PortalInv, TabSound, LoginSound
  <2>4. TabSound(t)'
    BY <2>2, <2>3, StaysDisturbed DEF TabSound, TokenWaits
  <2> QED  BY <1>1, <2>1, <2>2, <2>4, StepSound
<1>3. CASE ~tab[t].ok
  <2>1. cookie' = cookie /\ AskToken(t, tab[t], "token", cookie)
    BY <1>3 DEF LoginAnswered
  <2>2. Keeps(t) /\ TokenSound(t)' /\ FormSound(t)' /\ LoginSound(t)'
    BY <1>1, <2>1, AskTokenSound DEF TokenWaits, bootVars
  <2> QED  BY <1>1, <2>1, <2>2, StepSound DEF TabSound
<1> QED
  BY <1>2, <1>3

LEMMA LogoutAnsweredSound ==
    ASSUME PortalInv, NEW t \in Tabs, LogoutAnswered(t), Remember(t)
    PROVE  PortalInv'
<1>1. /\ events' \in 0..MaxEvents /\ UNCHANGED bootVars /\ cookie' = cookie
      /\ tab[t] \in Tab /\ cookie \in Sessions \cup {NoSession}
  BY DEF LogoutAnswered, PortalInv, PortalTypeOK, BootTypeOK, Tab
<1>2. CASE tab[t].ok
  <2>1. AskPage(t, Blank, "/login", cookie) /\ store' = store
    BY <1>2 DEF LogoutAnswered
  <2>2. Blank \in Tab /\ Blank.page # "login"
    BY DEF Blank, Tab, Waits
  <2>3. Keeps(t) /\ TokenSound(t)' /\ FormSound(t)' /\ LoginSound(t)'
    BY <1>1, <2>1, <2>2, AskPageSound DEF bootVars
  <2> QED  BY <1>1, <2>3, StepSound DEF TabSound
<1>3. CASE ~tab[t].ok
  <2>1. AskToken(t, tab[t], "token", cookie)
    BY <1>3 DEF LogoutAnswered
  <2>2. Keeps(t) /\ TokenSound(t)' /\ FormSound(t)' /\ LoginSound(t)'
    BY <1>1, <2>1, AskTokenSound DEF TokenWaits, bootVars
  <2> QED  BY <1>1, <2>2, StepSound DEF TabSound
<1> QED
  BY <1>2, <1>3

(* A page that was there already is the portal, or the form of a tab that    *)
(* has been disturbed.                                                       *)
LEMMA ShowSound ==
    ASSUME PortalInv, NEW t \in Tabs, NEW page \in {"login", "portal"},
           NEW c \in Sessions \cup {NoSession}, Show(t, page, c), UNCHANGED instance, Remember(t),
           (tab[t].page = "login" /\ page = "login") => t \in disturbed
    PROVE  Keeps(t) /\ TabSound(t)'
<1>1. CASE tab[t].page = page
  <2> DEFINE new == [tab[t] EXCEPT !.wait = "nothing", !.ok = FALSE, !.had = FALSE]
  <2>1. tab' = [tab EXCEPT ![t] = new] /\ store' = store
    BY <1>1 DEF Show, PortalInv, PortalTypeOK
  <2>2. tab \in [Tabs -> Tab] /\ store \in [Sessions -> {"none", "anonymous", "admin"}]
    BY DEF PortalInv, PortalTypeOK, Tab
  <2>3. new \in Tab /\ new.wait = "nothing" /\ new.page = page
    BY <1>1, <2>2 DEF Tab, Waits
  <2> HIDE DEF new
  <2>4. tab'[t] = new /\ \A u \in Tabs \ {t} : tab'[u] = tab[u]
    BY <2>1, <2>2
  <2>5. Keeps(t)
    BY <2>1, <2>2, <2>3, <2>4 DEF Keeps, IsAdmin
  <2>6. TabSound(t)'
    BY <1>1, <2>3, <2>4, StaysDisturbed
    DEF TabSound, TokenSound, FormSound, LoginSound, TokenWaits
  <2> QED  BY <2>5, <2>6
<1>2. CASE tab[t].page # page
  <2>1. AskToken(t, [Blank EXCEPT !.page = page], "token", c)
    BY <1>2 DEF Show
  <2>2. [Blank EXCEPT !.page = page] \in Tab
    BY DEF Blank, Tab, Waits
  <2>3. Keeps(t) /\ TokenSound(t)' /\ FormSound(t)' /\ LoginSound(t)'
    BY <2>1, <2>2, AskTokenSound DEF TokenWaits
  <2> QED  BY <2>3 DEF TabSound
<1> QED
  BY <1>1, <1>2

LEMMA PageAnsweredSound ==
    ASSUME PortalInv, NEW t \in Tabs, PageAnswered(t), Remember(t)
    PROVE  PortalInv'
<1>1. /\ events' \in 0..MaxEvents /\ UNCHANGED bootVars
      /\ tab[t] \in Tab /\ cookie \in Sessions \cup {NoSession}
      /\ tab[t].wait \in {"/", "/login"}
  BY DEF PageAnswered, PortalInv, PortalTypeOK, BootTypeOK, Tab
<1>2. (t \notin disturbed /\ tab[t].page = "login") => tab[t].wait = "/" /\ tab[t].ok
  BY <1>1 DEF PortalInv, TabSound, LoginSound
<1>3. CASE tab[t].ok /\ tab[t].wait = "/"
  <2>1. cookie' = cookie /\ Show(t, "portal", cookie)
    BY <1>3 DEF PageAnswered
  <2>2. Keeps(t) /\ TabSound(t)'
    BY <1>1, <2>1, ShowSound DEF bootVars
  <2> QED  BY <1>1, <2>1, <2>2, StepSound
<1>4. CASE tab[t].ok /\ tab[t].wait = "/login"
  <2>1. cookie' = cookie /\ store' = store /\ AskPage(t, tab[t], "/", cookie)
    BY <1>4 DEF PageAnswered
  <2>2. /\ Keeps(t) /\ tab'[t].wait = "/" /\ TokenSound(t)' /\ FormSound(t)'
        /\ tab[t].page # "login" => LoginSound(t)'
    BY <1>1, <2>1, AskPageSound DEF bootVars
  <2>3. TabSound(t)'
    BY <1>2, <1>4, <2>2, StaysDisturbed DEF TabSound, TokenWaits
  <2> QED  BY <1>1, <2>1, <2>2, <2>3, StepSound
<1>5. CASE ~tab[t].ok
  <2> DEFINE c == IF tab[t].had \/ tab[t].wait = "/" THEN NoSession ELSE cookie
  <2>1. cookie' = c /\ c \in Sessions \cup {NoSession}
    BY <1>1, <1>5 DEF PageAnswered
  <2>2. CASE tab[t].wait = "/"
    <3>1. store' = store /\ AskPage(t, tab[t], "/login", c)
      BY <1>5, <2>2 DEF PageAnswered
    <3> HIDE DEF c
    <3>2. /\ Keeps(t) /\ tab'[t].wait = "/login" /\ TokenSound(t)' /\ FormSound(t)'
          /\ tab[t].page # "login" => LoginSound(t)'
      BY <1>1, <2>1, <3>1, AskPageSound DEF bootVars
    <3>3. TabSound(t)'
      BY <1>2, <1>5, <3>2, StaysDisturbed DEF TabSound, TokenWaits
    <3> QED  BY <1>1, <2>1, <3>2, <3>3, StepSound
  <2>3. CASE tab[t].wait = "/login"
    <3>1. Show(t, "login", c)
      BY <1>5, <2>3 DEF PageAnswered
    <3> HIDE DEF c
    <3>2. Keeps(t) /\ TabSound(t)'
      BY <1>1, <1>2, <2>1, <2>3, <3>1, ShowSound DEF bootVars
    <3> QED  BY <1>1, <2>1, <3>2, StepSound
  <2> QED  BY <1>1, <2>2, <2>3
<1> QED
  BY <1>1, <1>3, <1>4, <1>5

-----------------------------------------------------------------------------
(* Steps that are not a tab's *)

LEMMA BootSound ==
    ASSUME PortalInv, NEW i \in Instances, Boot(i)
    PROVE  PortalInv'
<1>1. BootInv' /\ UNCHANGED portalVars
  BY BootStepInv, StartFailsInv DEF Boot, PortalInv
<1>2. Up => Up'
  <2>1. instance[i] # "listening"
    BY DEF Boot, BootStep, Launch, CountAdmins, CreateAdmin, AuditBootstrap, FindAdmin, StartFails,
           Starting
  <2>2. \E step : instance' = [instance EXCEPT ![i] = step]
    BY DEF Boot, BootStep, Launch, CountAdmins, CreateAdmin, AuditBootstrap, FindAdmin, StartFails,
           Advance
  <2>3. instance[Api] = "listening" => instance'[Api] = instance[Api]
    BY <2>1, <2>2, PortalAssumption DEF PortalInv, PortalTypeOK, BootTypeOK
  <2> QED  BY <2>3 DEF Up
<1>3. PortalTypeOK'
  BY <1>1 DEF PortalInv, BootInv, PortalTypeOK, portalVars
<1>4. \A t \in Tabs : TabSound(t)'
  BY <1>1, <1>2
  DEF PortalInv, TabSound, TokenSound, FormSound, LoginSound, Live, IsAdmin, portalVars
<1> QED
  BY <1>1, <1>3, <1>4 DEF PortalInv

LEMMA ApiDiesSound == PortalInv /\ ApiDies => PortalInv'
<1> SUFFICES ASSUME PortalInv, ApiDies PROVE PortalInv'
  OBVIOUS
<1>1. events' \in 0..MaxEvents
  BY EventTypes DEF ApiDies, PortalInv, BootInv
<1>2. BootInv'
  BY <1>1, PortalAssumption, AdvanceKeepsBootInv DEF ApiDies, PortalInv
<1>3. PortalTypeOK'
  BY <1>2 DEF ApiDies, PortalInv, BootInv, PortalTypeOK
<1> QED
  BY <1>2, <1>3 DEF ApiDies, PortalInv, TabSound

LEMMA ExpireSound ==
    ASSUME PortalInv, NEW s \in Sessions, Expire(s)
    PROVE  PortalInv'
<1>1. events' \in 0..MaxEvents
  BY EventTypes DEF Expire, PortalInv, BootInv
<1>2. BootInv'
  BY <1>1 DEF Expire, PortalInv, BootInv, BootTypeOK, ListeningHasAdmin, AuditedOnce, OwesLog,
              bootVars
<1>3. PortalTypeOK'
  BY <1>2 DEF Expire, PortalInv, BootInv, PortalTypeOK
<1> QED
  BY <1>2, <1>3 DEF Expire, PortalInv, TabSound

-----------------------------------------------------------------------------
LEMMA PortalInvariant == PortalSpec => []PortalInv
<1>1. PortalInv /\ [PortalNext]_allVars => PortalInv'
  <2> SUFFICES ASSUME PortalInv, [PortalNext]_allVars PROVE PortalInv'
    OBVIOUS
  <2>1. ASSUME NEW t \in Tabs, Answer(t) PROVE PortalInv'
    BY <2>1, HaveTokenSound, LoginAnsweredSound, LogoutAnsweredSound, PageAnsweredSound DEF Answer
  <2>2. CASE UNCHANGED allVars
    <3>1. BootInv'
      BY <2>2 DEF PortalInv, BootInv, BootTypeOK, ListeningHasAdmin, AuditedOnce, OwesLog, allVars,
                  bootVars
    <3>2. PortalTypeOK'
      BY <2>2, <3>1 DEF PortalInv, BootInv, PortalTypeOK, allVars, portalVars
    <3>3. \A t \in Tabs : TabSound(t)'
      BY <2>2 DEF PortalInv, TabSound, TokenSound, FormSound, LoginSound, Up, Live, IsAdmin,
                  allVars, bootVars, portalVars
    <3> QED  BY <3>1, <3>2, <3>3 DEF PortalInv
  <2> QED
    BY <2>1, <2>2, BootSound, VisitSound, SubmitSound, LogoutSound, LoseAnswerSound, ApiDiesSound,
       ExpireSound
    DEF PortalNext
<1> QED
  BY <1>1, InitPortalInv, PTL DEF PortalSpec

(* An instance that listens has an administrator to log in.                  *)
THEOREM ListeningCorrect == PortalSpec => []ListeningHasAdmin
<1>1. PortalInv => ListeningHasAdmin
  BY DEF PortalInv, BootInv
<1> QED
  BY <1>1, PortalInvariant, PTL

(* However many instances race, an administrator is logged at most once.     *)
THEOREM AuditCorrect == PortalSpec => []AuditedOnce
<1>1. PortalInv => AuditedOnce
  BY DEF PortalInv, BootInv
<1> QED
  BY <1>1, PortalInvariant, PTL

(* A login that nothing has disturbed since its token is never refused.      *)
THEOREM RefusalsCorrect == PortalSpec => []RefusedOnlyIfDisturbed
<1>1. PortalInv => RefusedOnlyIfDisturbed
  BY DEF PortalInv, TabSound, LoginSound, RefusedOnlyIfDisturbed
<1> QED
  BY <1>1, PortalInvariant, PTL

(* Instances, sessions, tabs and requests stay in their types. *)
THEOREM PortalTypes == PortalSpec => []PortalTypeOK
<1>1. PortalInv => PortalTypeOK
  BY DEF PortalInv
<1> QED
  BY <1>1, PortalInvariant, PTL

=============================================================================
