----------------------------- MODULE Onboarding -----------------------------
(***************************************************************************)
(* Connecting a calendar: the OAuth flow of apps/api/src/lib/oauth.ts and   *)
(* apps/api/src/routes/auth/oauth.ts, POST /connectors with the two         *)
(* handlers of apps/api/src/services/connectors.ts, the adapters of         *)
(* packages/connectors/src/adapters through which they and the jobs talk to *)
(* Google and Microsoft, and the executor of the follow-up jobs,            *)
(* apps/worker/src/executors/connector-validation.ts.                       *)
(*                                                                         *)
(* A flow is one state token; entries are kept in the session, which the    *)
(* API keeps in memory.  Every await of a handler ends a step.  Tokens and   *)
(* a list of calendars bear the name of the callback that got them, and a   *)
(* connector that of the request that inserted it, which makes no other.    *)
(***************************************************************************)
EXTENDS Integers, FiniteSets

CONSTANTS
    Flows,
    Callbacks,
    CallbackOf,       \* the flow a callback returns to
    Codes, CodeOf,    \* the authorization code it brings; a reload brings it again
    Calendars,
    CalendarsOf,      \* the calendars of the account that gave its consent
    Requests,         \* POST /connectors
    FlowOf,           \* the flow a request names, or NoFlow for an HTML/ICS feed
    Attempts,         \* executions of connector_validation jobs
    ProviderAnswers,  \* how a provider or feed answers about calendars it has
    AllowedFaults

NoFlow    == "html_ics"
NoRequest == "none"
NoTokens  == "none"

ASSUME OnboardingAssumption ==
    /\ CallbackOf \in [Callbacks -> Flows]
    /\ CodeOf \in [Callbacks -> Codes]
    /\ CalendarsOf \in [Callbacks -> SUBSET Calendars]
    /\ NoTokens \notin Callbacks
    /\ FlowOf \in [Requests -> Flows \cup {NoFlow}]
    /\ NoFlow \notin Flows
    /\ NoRequest \notin Requests
    /\ ProviderAnswers \subseteq {"success", "error"}
    /\ AllowedFaults \subseteq {"db_error", "api_crash", "worker_crash"}

VARIABLES
    session,     \* session.oauthFlows, per state token
    payload,     \* the tokens and calendars of an entry
    callback,    \* where each callback stands
    spent,       \* the codes that the providers have redeemed
    request,     \* where each POST /connectors stands
    connector,   \* connectors
    calendars,   \* the connectors whose calendars are stored
    audited,     \* the connectors with a "connector.created" audit log
    queued,      \* the connectors whose pair and first job are stored
    attempt      \* where each execution of a validation job stands

flowVars == <<session, payload, callback, spent>>
apiVars == <<flowVars, request>>
onboardingVars == <<apiVars, connector, calendars, audited, queued, attempt>>

(* unused; open: saved without a payload; authorized: with tokens and        *)
(* calendars; gone: consumed, or lost with the session                       *)
Entries == {"unused", "open", "authorized", "gone"}

(* The await that the callback handler is at; then where it redirects to. *)
Redirecting   == {"exchanging", "reading", "listing"}
CallbackSteps == {"idle"} \cup Redirecting \cup {"success", "error"}

(* The await that a handler is at; then 201, 422 or no answer at all. *)
Handling  == {"testing", "inserting", "storing", "updating", "auditing", "queueing", "answering"}
Answered  == {"created", "refused", "lost"}

(* config_json.validation, or validationMetadata.status of a feed; status    *)
(* and last_validated_at are written in the same statements and follow it:   *)
(* "validated" and a time for "success", "pending_validation" and null else. *)
Validations == {"none", "success", "error"}

(* What the form has selected, and what the handler has in hand. *)
RequestRecord == [step : {"unsent"} \cup Handling \cup Answered,
                  selected : SUBSET Calendars,
                  tokens : Callbacks \cup {NoTokens},
                  tested : Validations]

OnboardingTypeOK ==
    /\ session \in [Flows -> Entries]
    /\ payload \in [Flows -> Callbacks \cup {NoTokens}]
    /\ callback \in [Callbacks -> CallbackSteps]
    /\ spent \subseteq Codes
    /\ request \in [Requests -> RequestRecord]
    /\ connector \in [Requests -> [exists : BOOLEAN, validation : Validations]]
    /\ calendars \subseteq Requests
    /\ audited \subseteq Requests
    /\ queued \subseteq Requests
    /\ attempt \in [Attempts -> [step : {"idle", "loaded", "fetched", "done", "lost"},
                                 of : Requests \cup {NoRequest},
                                 ids : {"payload", "selected"},
                                 result : Validations]]

OnboardingInit ==
    /\ session = [f \in Flows |-> "unused"]
    /\ payload = [f \in Flows |-> NoTokens]
    /\ callback = [c \in Callbacks |-> "idle"]
    /\ spent = {}
    /\ request = [r \in Requests |-> [step |-> "unsent", selected |-> {},
                                      tokens |-> NoTokens, tested |-> "none"]]
    /\ connector = [r \in Requests |-> [exists |-> FALSE, validation |-> "none"]]
    /\ calendars = {}
    /\ audited = {}
    /\ queued = {}
    /\ attempt = [a \in Attempts |-> [step |-> "idle", of |-> NoRequest, ids |-> "payload",
                                      result |-> "none"]]

-----------------------------------------------------------------------------
(* The OAuth flow *)

Others == <<request, connector, calendars, audited, queued, attempt>>

StartFlow(f) ==
    /\ session[f] = "unused"
    /\ session' = [session EXCEPT ![f] = "open"]
    /\ UNCHANGED <<payload, callback, spent, Others>>

(* The provider redirects with a code, or with a refusal; without an entry   *)
(* the callback ends here.                                                   *)
BeginCallback(c) ==
    /\ callback[c] = "idle"
    /\ session[CallbackOf[c]] # "unused"
    /\ \E step \in {"exchanging", "error"} :
          /\ step = "exchanging" => session[CallbackOf[c]] \in {"open", "authorized"}
          /\ callback' = [callback EXCEPT ![c] = step]
    /\ UNCHANGED <<session, payload, spent, Others>>

(* exchangeCode: the provider redeems a code once, and the adapter goes on   *)
(* to the profile...                                                         *)
ExchangeCode(c) ==
    /\ callback[c] = "exchanging"
    /\ CodeOf[c] \notin spent
    /\ spent' = spent \cup {CodeOf[c]}
    /\ callback' = [callback EXCEPT ![c] = "reading"]
    /\ UNCHANGED <<session, payload, Others>>

ReadProfile(c) ==
    /\ callback[c] = "reading"
    /\ callback' = [callback EXCEPT ![c] = "listing"]
    /\ UNCHANGED <<session, payload, spent, Others>>

(* Google lists those that the account may write to, Microsoft all of them.  *)
ListCalendars(c) == CalendarsOf[c]

(* ... and listCalendars has answered.  An entry that was consumed meanwhile *)
(* takes no payload; the redirect says success all the same.                 *)
StorePayload(c) ==
    LET f == CallbackOf[c]
    IN  /\ callback[c] = "listing"
        /\ callback' = [callback EXCEPT ![c] = "success"]
        /\ IF session[f] \in {"open", "authorized"}
           THEN /\ session' = [session EXCEPT ![f] = "authorized"]
                /\ payload' = [payload EXCEPT ![f] = c]
           ELSE UNCHANGED <<session, payload>>
        /\ UNCHANGED <<spent, Others>>

(* One of the three requests fails.  The token request may have been         *)
(* answered all the same, and the code is then spent for nothing.            *)
CallbackFails(c) ==
    /\ callback[c] \in Redirecting
    /\ callback' = [callback EXCEPT ![c] = "error"]
    /\ \/ UNCHANGED spent
       \/ callback[c] = "exchanging" /\ spent' = spent \cup {CodeOf[c]}
    /\ UNCHANGED <<session, payload, Others>>

-----------------------------------------------------------------------------
(* POST /connectors *)

IsFeed(r) == FlowOf[r] = NoFlow

Go(r, step) == request' = [request EXCEPT ![r].step = step]

(* Variant of Consume: the entry is read, and left where it is. *)
ConsumeNothing(f) == UNCHANGED <<session, payload>>

(* An entry is removed even if the request is refused for want of a payload. *)
Consume(f) ==
    /\ session' = [session EXCEPT ![f] = IF @ \in {"open", "authorized"} THEN "gone" ELSE @]
    /\ payload' = [payload EXCEPT ![f] = NoTokens]

(* Variants of MayInsert: an entry without a payload is accepted; what was   *)
(* selected is not looked up in the payload.                                 *)
MayInsertOpen(f, selected) == session[f] \in {"open", "authorized"}
MayInsertAny(f, selected) == session[f] = "authorized"

MayInsert(f, selected) ==
    /\ session[f] = "authorized"
    /\ selected \subseteq ListCalendars(payload[f])

(* The form selects a calendar or more, of the payload that it has shown,    *)
(* which need not be the one that the entry has by now.                      *)
Send(r) ==
    /\ request[r].step = "unsent"
    /\ \/ /\ IsFeed(r)
          /\ Go(r, "testing")
          /\ UNCHANGED <<session, payload>>
       \/ /\ ~IsFeed(r)
          /\ \E selected \in (SUBSET Calendars) \ {{}} :
                request' = [request EXCEPT
                    ![r].step = IF MayInsert(FlowOf[r], selected) THEN "inserting" ELSE "refused",
                    ![r].selected = selected,
                    ![r].tokens = payload[FlowOf[r]]]
          /\ Consume(FlowOf[r])
    /\ UNCHANGED <<callback, spent, connector, calendars, audited, queued, attempt>>

(* fetchUpcomingEvents, for every calendar at once: one that the provider    *)
(* does not know is an error, as is any other refusal.                       *)
FetchUpcomingEvents(known) == IF known THEN ProviderAnswers ELSE {"error"}

(* The provider or the feed is asked for events; its refusal is a result.    *)
Test(r) ==
    /\ request[r].step = "testing"
    /\ \E answer \in FetchUpcomingEvents(TRUE) :
          request' = [request EXCEPT
              ![r].step = IF IsFeed(r) THEN "inserting" ELSE "updating",
              ![r].tested = answer]
    /\ UNCHANGED <<flowVars, connector, calendars, audited, queued, attempt>>

Insert(r) ==
    /\ request[r].step = "inserting"
    /\ connector' = [connector EXCEPT
          ![r] = [exists |-> TRUE, validation |-> request[r].tested]]
    /\ Go(r, "storing")
    /\ UNCHANGED <<flowVars, calendars, audited, queued, attempt>>

StoreCalendars(r) ==
    /\ request[r].step = "storing"
    /\ calendars' = calendars \cup {r}
    /\ Go(r, IF IsFeed(r) THEN "auditing" ELSE "testing")
    /\ UNCHANGED <<flowVars, connector, audited, queued, attempt>>

UpdateValidation(r) ==
    /\ request[r].step = "updating"
    /\ connector' = [connector EXCEPT ![r].validation = request[r].tested]
    /\ Go(r, "auditing")
    /\ UNCHANGED <<flowVars, calendars, audited, queued, attempt>>

(* Variant of Audit: the answer does not wait for the job. *)
AuditAndAnswer(r) ==
    /\ request[r].step = "auditing"
    /\ audited' = audited \cup {r}
    /\ Go(r, "created")
    /\ UNCHANGED <<flowVars, connector, calendars, queued, attempt>>

Audit(r) ==
    /\ request[r].step = "auditing"
    /\ audited' = audited \cup {r}
    /\ Go(r, "queueing")
    /\ UNCHANGED <<flowVars, connector, calendars, queued, attempt>>

(* The pair of the first calendar with itself and the job.  A connector that *)
(* is new has no job to find.                                                *)
QueueJob(r) ==
    /\ request[r].step = "queueing"
    /\ queued' = queued \cup {r}
    /\ Go(r, "answering")
    /\ UNCHANGED <<flowVars, connector, calendars, audited, attempt>>

Answer(r) ==
    /\ request[r].step = "answering"
    /\ Go(r, "created")
    /\ UNCHANGED <<flowVars, connector, calendars, audited, queued, attempt>>

(* A statement fails, or its reply is lost: 422, and what was written stays. *)
StatementFails(r) ==
    /\ "db_error" \in AllowedFaults
    /\ request[r].step \in Handling
    /\ Go(r, "refused")
    /\ UNCHANGED <<flowVars, connector, calendars, audited, queued, attempt>>

(* The API dies: no answers, and no sessions. *)
ApiCrash ==
    /\ "api_crash" \in AllowedFaults
    /\ session' = [f \in Flows |-> IF session[f] = "unused" THEN "unused" ELSE "gone"]
    /\ payload' = [f \in Flows |-> NoTokens]
    /\ callback' = [c \in Callbacks |->
          IF callback[c] \in Redirecting THEN "error" ELSE callback[c]]
    /\ request' = [r \in Requests |->
          [request[r] EXCEPT !.step = IF @ \in Handling THEN "lost" ELSE @]]
    /\ UNCHANGED <<spent, connector, calendars, audited, queued, attempt>>
    /\ apiVars' # apiVars

-----------------------------------------------------------------------------
(* The validation job *)

(* The job that the handler queued names the rows of the calendars, one      *)
(* scheduled through POST /jobs/schedule without ids uses the provider's     *)
(* ids that the connector's document keeps.                                  *)
BeginAttempt(a, r) ==
    /\ attempt[a].step = "idle"
    /\ r \in queued /\ ~IsFeed(r)
    /\ \E ids \in {"payload", "selected"} :
          attempt' = [attempt EXCEPT
              ![a] = [step |-> "loaded", of |-> r, ids |-> ids, result |-> "none"]]
    /\ UNCHANGED <<apiVars, connector, calendars, audited, queued>>

(* No provider has a calendar with the id of a row. *)
FetchEvents(a) ==
    /\ attempt[a].step = "loaded"
    /\ \E answer \in FetchUpcomingEvents(attempt[a].ids = "selected") :
          attempt' = [attempt EXCEPT ![a].step = "fetched", ![a].result = answer]
    /\ UNCHANGED <<apiVars, connector, calendars, audited, queued>>

(* Variant of WriteValidation: the status of the row in the place of the     *)
(* result, a value the document's schema does not have.                      *)
WriteStatus(a) ==
    /\ attempt[a].step = "fetched"
    /\ connector' = [connector EXCEPT ![attempt[a].of].validation =
          IF attempt[a].result = "success" THEN "validated" ELSE "pending_validation"]
    /\ attempt' = [attempt EXCEPT ![a].step = "done"]
    /\ UNCHANGED <<apiVars, calendars, audited, queued>>

WriteValidation(a) ==
    /\ attempt[a].step = "fetched"
    /\ connector' = [connector EXCEPT ![attempt[a].of].validation = attempt[a].result]
    /\ attempt' = [attempt EXCEPT ![a].step = "done"]
    /\ UNCHANGED <<apiVars, calendars, audited, queued>>

(* The update of a success fails inside the try: its catch writes an error.  *)
WriteIsCaught(a) ==
    /\ "db_error" \in AllowedFaults
    /\ attempt[a].step = "fetched"
    /\ attempt[a].result = "success"
    /\ attempt' = [attempt EXCEPT ![a].result = "error"]
    /\ UNCHANGED <<apiVars, connector, calendars, audited, queued>>

(* The worker dies, or the update of an error fails. *)
LoseAttempt(a) ==
    /\ AllowedFaults \cap {"db_error", "worker_crash"} # {}
    /\ attempt[a].step \in {"loaded", "fetched"}
    /\ attempt' = [attempt EXCEPT ![a].step = "lost"]
    /\ UNCHANGED <<apiVars, connector, calendars, audited, queued>>

-----------------------------------------------------------------------------
Redirect(c) ==
    BeginCallback(c) \/ ExchangeCode(c) \/ ReadProfile(c) \/ StorePayload(c) \/ CallbackFails(c)

Handle(r) ==
    \/ Send(r) \/ Test(r) \/ Insert(r) \/ StoreCalendars(r) \/ UpdateValidation(r)
    \/ Audit(r) \/ QueueJob(r) \/ Answer(r) \/ StatementFails(r)

Validate(a) ==
    \/ \E r \in Requests : BeginAttempt(a, r)
    \/ FetchEvents(a) \/ WriteValidation(a) \/ WriteIsCaught(a) \/ LoseAttempt(a)

OnboardingNext ==
    \/ \E f \in Flows : StartFlow(f)
    \/ \E c \in Callbacks : Redirect(c)
    \/ \E r \in Requests : Handle(r)
    \/ \E a \in Attempts : Validate(a)
    \/ ApiCrash

OnboardingSpec == OnboardingInit /\ [][OnboardingNext]_onboardingVars

-----------------------------------------------------------------------------
(* Properties *)

(* However often a form is sent, and however its requests race callbacks and *)
(* each other, one authorization makes at most one connector: the entry is   *)
(* removed before the first await (connectors.ts:485).                       *)
OneConnectorPerAuthorization ==
    \A r, s \in Requests :
        (connector[r].exists /\ connector[s].exists /\ FlowOf[r] = FlowOf[s] /\ ~IsFeed(r))
            => r = s

(* No connector without tokens: those of a connector were got by a callback  *)
(* of its own flow that succeeded, and no others share them, although a      *)
(* flow may be authorized again, by another account, while it is in use.     *)
ConnectorNeedsConsent ==
    \A r \in Requests :
        (connector[r].exists /\ ~IsFeed(r))
            => /\ request[r].tokens \in Callbacks
               /\ CallbackOf[request[r].tokens] = FlowOf[r]
               /\ callback[request[r].tokens] = "success"
               /\ \A s \in Requests \ {r} :
                     connector[s].exists => request[s].tokens # request[r].tokens

(* A connector's calendars are those of the account whose tokens it has,     *)
(* whichever account's calendars the form has shown (connectors.ts:499-503). *)
CalendarsOfOwnAccount ==
    \A r \in Requests :
        (connector[r].exists /\ ~IsFeed(r))
            => request[r].selected # {}
               /\ request[r].selected \subseteq CalendarsOf[request[r].tokens]

(* 201 is the last thing to happen: the connector, its calendars, its test,  *)
(* its audit log and its first job are there by then.                        *)
CreatedMeansComplete ==
    \A r \in Requests :
        request[r].step = "created"
            => /\ connector[r].exists /\ connector[r].validation # "none"
               /\ r \in calendars /\ r \in audited /\ r \in queued

(* "validates connector calendars and marks connector as validated"          *)
(* (apps/worker/src/executors/connector-validation.test.ts:93): where the    *)
(* provider answers about every calendar it has and nothing fails, a         *)
(* validation job that ends leaves its connector validated.                  *)
JobMarksValidated ==
    [][\A a \in Attempts :
          (attempt[a].step # "done" /\ attempt'[a].step = "done")
              => connector'[attempt[a].of].validation = "success"]_onboardingVars

=============================================================================
