-------------------------- MODULE OnboardingProofs --------------------------
(***************************************************************************)
(* Proofs about Onboarding, for any number of flows, callbacks, requests    *)
(* and validation jobs.                                                     *)
(***************************************************************************)
EXTENDS Onboarding, TLAPS

(* A request that got past its checks, or has left a connector behind. *)
Uses(r) == request[r].step \in Handling \cup {"created"} \/ connector[r].exists

Consented(f, c) == c \in Callbacks /\ CallbackOf[c] = f /\ callback[c] = "success"

(* An entry with a payload has the one of a callback that succeeded. *)
PayloadSound(f) == session[f] = "authorized" => Consented(f, payload[f])

FeedHasNone(r) == IsFeed(r) => request[r].tokens = NoTokens

(* The entry of a request that uses it is gone, so no other can use it. *)
EntrySpent(r) ==
    (~IsFeed(r) /\ Uses(r)) => /\ session[FlowOf[r]] = "gone"
                               /\ Consented(FlowOf[r], request[r].tokens)
                               /\ request[r].selected # {}
                               /\ request[r].selected \subseteq CalendarsOf[request[r].tokens]

OneUser ==
    \A r, s \in Requests :
        (~IsFeed(r) /\ FlowOf[r] = FlowOf[s] /\ Uses(r) /\ Uses(s)) => r = s

(* What the handler has done by the time it is at each await. *)
DoneSoFar(r) ==
    LET step == request[r].step IN
    /\ step = "unsent" => ~connector[r].exists
    /\ step \in {"storing", "updating", "auditing", "queueing", "answering", "created"}
           => connector[r].exists
    /\ (step = "testing" /\ ~IsFeed(r)) => connector[r].exists
    /\ step \in {"updating", "auditing", "queueing", "answering", "created"} => r \in calendars
    /\ (step = "testing" /\ ~IsFeed(r)) => r \in calendars
    /\ step \in {"queueing", "answering", "created"} => r \in audited
    /\ step \in {"answering", "created"} => r \in queued

(* What the row and the test say meanwhile. *)
ResultSoFar(r) ==
    LET step == request[r].step IN
    /\ (step = "inserting" /\ IsFeed(r)) => request[r].tested # "none"
    /\ (step = "storing" /\ IsFeed(r)) => connector[r].validation # "none"
    /\ step = "updating" => ~IsFeed(r) /\ request[r].tested # "none"
    /\ step \in {"auditing", "queueing", "answering", "created"}
           => connector[r].validation # "none"
    /\ (step \in {"unsent", "inserting"} /\ ~IsFeed(r)) => request[r].tested = "none"
    /\ (step \in {"storing", "testing", "updating"} /\ ~IsFeed(r))
           => connector[r].validation = "none"

(* A job is queued when all that is left is to answer. *)
QueuedLast ==
    \A r \in queued : request[r].step \in {"answering", "created", "refused", "lost"}

AttemptsAfter(a) ==
    /\ attempt[a].step \in {"loaded", "fetched", "done", "lost"} => attempt[a].of \in queued
    /\ attempt[a].step = "fetched" => attempt[a].result # "none"

OnboardingInv ==
    /\ OnboardingTypeOK
    /\ \A f \in Flows : PayloadSound(f)
    /\ \A r \in Requests : FeedHasNone(r) /\ EntrySpent(r) /\ DoneSoFar(r) /\ ResultSoFar(r)
    /\ OneUser
    /\ QueuedLast
    /\ \A a \in Attempts : AttemptsAfter(a)

-----------------------------------------------------------------------------
LEMMA OnboardingInitInv == OnboardingInit => OnboardingInv
<1> SUFFICES ASSUME OnboardingInit PROVE OnboardingInv
  OBVIOUS
<1>1. OnboardingTypeOK
  BY DEF OnboardingInit, OnboardingTypeOK, Entries, CallbackSteps, RequestRecord, Handling,
     Answered, Validations
<1>2. \A r \in Requests : ~Uses(r) /\ DoneSoFar(r) /\ ResultSoFar(r) /\ FeedHasNone(r)
  BY DEF OnboardingInit, Uses, Handling, DoneSoFar, ResultSoFar, FeedHasNone
<1>3. QueuedLast /\ \A a \in Attempts : AttemptsAfter(a)
  BY DEF OnboardingInit, QueuedLast, AttemptsAfter
<1> QED
  BY <1>1, <1>2, <1>3 DEF OnboardingInit, OnboardingInv, EntrySpent, OneUser, PayloadSound

(* What Go does to the record of a request. *)
LEMMA Going ==
    ASSUME OnboardingTypeOK, NEW r \in Requests,
           NEW step \in {"unsent"} \cup Handling \cup Answered,
           request' = [request EXCEPT ![r].step = step]
    PROVE  /\ request' \in [Requests -> RequestRecord]
           /\ request'[r].step = step
           /\ request'[r].tokens = request[r].tokens /\ request'[r].selected = request[r].selected
           /\ request'[r].tested = request[r].tested
           /\ \A s \in Requests \ {r} : request'[s] = request[s]
<1>1. request[r] \in RequestRecord
  BY DEF OnboardingTypeOK
<1>2. /\ [request[r] EXCEPT !.step = step] \in RequestRecord
      /\ [request[r] EXCEPT !.step = step].step = step
      /\ [request[r] EXCEPT !.step = step].tokens = request[r].tokens
      /\ [request[r] EXCEPT !.step = step].selected = request[r].selected
      /\ [request[r] EXCEPT !.step = step].tested = request[r].tested
  BY <1>1 DEF RequestRecord
<1>3. request' = [request EXCEPT ![r] = [request[r] EXCEPT !.step = step]]
  OBVIOUS
<1> HIDE DEF RequestRecord
<1> QED
  BY <1>2, <1>3 DEF OnboardingTypeOK

(* A step of one request that leaves the session alone: the others see no    *)
(* difference, and the request uses no entry that it did not use before.     *)
LEMMA RequestStep ==
    ASSUME OnboardingInv, NEW r \in Requests, OnboardingTypeOK',
           UNCHANGED <<flowVars, attempt>>,
           request'[r].tokens = request[r].tokens, request'[r].selected = request[r].selected,
           \A s \in Requests \ {r} : request'[s] = request[s] /\ connector'[s] = connector[s],
           calendars \subseteq calendars', audited \subseteq audited', queued \subseteq queued',
           queued' \subseteq queued \cup {r},
           r \in queued' => request'[r].step \in {"answering", "created", "refused", "lost"},
           Uses(r)' => Uses(r), DoneSoFar(r)', ResultSoFar(r)'
    PROVE  OnboardingInv'
<1>1. \A s \in Requests : Uses(s)' => Uses(s)
  BY DEF Uses
<1>2. \A s \in Requests : DoneSoFar(s)' /\ ResultSoFar(s)'
  <2> SUFFICES ASSUME NEW s \in Requests \ {r} PROVE DoneSoFar(s)' /\ ResultSoFar(s)'
    OBVIOUS
  <2>1. DoneSoFar(s)'
    BY DEF OnboardingInv, DoneSoFar, IsFeed
  <2>2. ResultSoFar(s)'
    BY DEF OnboardingInv, ResultSoFar, IsFeed
  <2> QED
    BY <2>1, <2>2
<1>3. \A s \in Requests : EntrySpent(s)' /\ FeedHasNone(s)'
  BY <1>1 DEF OnboardingInv, EntrySpent, FeedHasNone, IsFeed, Consented, flowVars
<1>4. OneUser'
  BY <1>1 DEF OnboardingInv, OneUser, IsFeed
<1>5. QueuedLast'
  BY DEF OnboardingInv, OnboardingTypeOK, QueuedLast
<1>6. \A a \in Attempts : AttemptsAfter(a)'
  BY DEF OnboardingInv, AttemptsAfter
<1>7. \A f \in Flows : PayloadSound(f)'
  BY DEF OnboardingInv, PayloadSound, Consented, flowVars
<1> QED
  BY <1>2, <1>3, <1>4, <1>5, <1>6, <1>7 DEF OnboardingInv

(* A step that leaves the requests and connectors alone; entries that are    *)
(* gone stay so, and new tokens come from a callback that has succeeded.     *)
LEMMA FlowStep ==
    ASSUME OnboardingInv, OnboardingTypeOK',
           UNCHANGED <<request, connector, calendars, audited, queued, attempt>>,
           \A c \in Callbacks : callback[c] = "success" => callback'[c] = "success",
           \A f \in Flows : /\ session[f] = "gone" => session'[f] = "gone"
                            /\ PayloadSound(f)'
    PROVE  OnboardingInv'
<1>1. \A r \in Requests : /\ Uses(r)' <=> Uses(r)
                          /\ DoneSoFar(r)' /\ ResultSoFar(r)'
  BY DEF OnboardingInv, Uses, DoneSoFar, ResultSoFar, IsFeed
<1>2. \A r \in Requests : EntrySpent(r)' /\ FeedHasNone(r)'
  BY <1>1, OnboardingAssumption DEF OnboardingInv, EntrySpent, FeedHasNone, IsFeed, Consented
<1>3. OneUser' /\ QueuedLast' /\ \A a \in Attempts : AttemptsAfter(a)'
  BY <1>1 DEF OnboardingInv, OneUser, IsFeed, QueuedLast, AttemptsAfter
<1> QED
  BY <1>1, <1>2, <1>3 DEF OnboardingInv

-----------------------------------------------------------------------------
LEMMA StartFlowKeeps ==
    ASSUME OnboardingInv, NEW f \in Flows, StartFlow(f)
    PROVE  OnboardingInv'
<1>1. OnboardingTypeOK'
  BY DEF OnboardingInv, OnboardingTypeOK, StartFlow, Others, Entries
<1>2. \A g \in Flows : /\ session[g] = "gone" => session'[g] = "gone"
                       /\ PayloadSound(g)'
  BY DEF OnboardingInv, OnboardingTypeOK, StartFlow, PayloadSound, Consented
<1> QED
  BY <1>1, <1>2, FlowStep DEF StartFlow, Others

(* The steps before the last leave the session alone. *)
LEMMA CallbackKeeps ==
    ASSUME OnboardingInv, NEW c \in Callbacks, Redirect(c)
    PROVE  OnboardingInv'
<1> USE DEF Redirecting, CallbackSteps
<1>1. CASE BeginCallback(c) \/ ExchangeCode(c) \/ ReadProfile(c) \/ CallbackFails(c)
  <2>1. PICK step \in CallbackSteps :
            /\ callback[c] # "success"
            /\ callback' = [callback EXCEPT ![c] = step]
            /\ UNCHANGED <<session, payload, request, connector, calendars, audited, queued,
                           attempt>>
    BY <1>1 DEF BeginCallback, ExchangeCode, ReadProfile, CallbackFails, Others
  <2>2. spent' \subseteq Codes
    BY <1>1, OnboardingAssumption
       DEF OnboardingInv, OnboardingTypeOK, BeginCallback, ExchangeCode, ReadProfile,
           CallbackFails
  <2>3. OnboardingTypeOK'
    BY <2>1, <2>2 DEF OnboardingInv, OnboardingTypeOK
  <2>4. \A d \in Callbacks : callback[d] = "success" => callback'[d] = "success"
    BY <2>1 DEF OnboardingInv, OnboardingTypeOK
  <2>5. \A f \in Flows : PayloadSound(f)'
    BY <2>1, <2>4 DEF OnboardingInv, PayloadSound, Consented
  <2> QED
    BY <2>1, <2>3, <2>4, <2>5, FlowStep
<1>2. CASE StorePayload(c)
  <2> DEFINE g == CallbackOf[c]
  <2>1. /\ g \in Flows
        /\ callback' = [callback EXCEPT ![c] = "success"]
        /\ UNCHANGED <<spent, request, connector, calendars, audited, queued, attempt>>
    BY <1>2, OnboardingAssumption DEF StorePayload, Others
  <2>2. \/ UNCHANGED <<session, payload>>
        \/ /\ session[g] # "gone"
           /\ session' = [session EXCEPT ![g] = "authorized"]
           /\ payload' = [payload EXCEPT ![g] = c]
    BY <1>2 DEF StorePayload
  <2>3. OnboardingTypeOK'
    BY <2>1, <2>2 DEF OnboardingInv, OnboardingTypeOK, Entries
  <2>4. /\ callback'[c] = "success"
        /\ \A d \in Callbacks : callback[d] = "success" => callback'[d] = "success"
    BY <2>1 DEF OnboardingInv, OnboardingTypeOK
  <2>5. \A f \in Flows : session[f] = "gone" => session'[f] = "gone"
    BY <2>1, <2>2 DEF OnboardingInv, OnboardingTypeOK
  <2>6. \A f \in Flows : PayloadSound(f)'
    BY <2>1, <2>2, <2>4 DEF OnboardingInv, OnboardingTypeOK, PayloadSound, Consented
  <2> QED
    BY <2>1, <2>3, <2>4, <2>5, <2>6, FlowStep
<1> QED
  BY <1>1, <1>2 DEF Redirect

-----------------------------------------------------------------------------
(* The entry is spent by the request that goes on. *)
LEMMA SendKeeps ==
    ASSUME OnboardingInv, NEW r \in Requests, Send(r)
    PROVE  OnboardingInv'
<1> USE DEF Handling, Answered
<1>1. /\ request[r].step = "unsent"
      /\ UNCHANGED <<callback, spent, connector, calendars, audited, queued, attempt>>
      /\ request[r] \in RequestRecord
  BY DEF OnboardingInv, OnboardingTypeOK, Send
<1>2. r \notin queued
  BY <1>1 DEF OnboardingInv, QueuedLast
<1>3. CASE IsFeed(r)
  <2>1. /\ UNCHANGED <<session, payload>>
        /\ request' = [request EXCEPT ![r].step = "testing"]
    BY <1>3 DEF Send, Go
  <2>2. /\ request' \in [Requests -> RequestRecord]
        /\ request'[r].step = "testing" /\ request'[r].tokens = request[r].tokens
        /\ \A s \in Requests \ {r} : request'[s] = request[s]
    BY <2>1, Going DEF OnboardingInv
  <2>3. OnboardingTypeOK'
    BY <1>1, <2>1, <2>2 DEF OnboardingInv, OnboardingTypeOK
  <2>4. DoneSoFar(r)' /\ ResultSoFar(r)'
    BY <1>3, <2>2 DEF DoneSoFar, ResultSoFar, IsFeed
  <2>5. \A s \in Requests : DoneSoFar(s)' /\ ResultSoFar(s)'
    BY <1>1, <2>2, <2>4 DEF OnboardingInv, DoneSoFar, ResultSoFar, IsFeed
  <2>6. \A s \in Requests : ~IsFeed(s) => (Uses(s)' => Uses(s))
    BY <1>1, <1>3, <2>2 DEF Uses
  <2>7. (\A s \in Requests : EntrySpent(s)' /\ FeedHasNone(s)') /\ OneUser'
    BY <1>1, <1>3, <2>1, <2>2, <2>6
       DEF OnboardingInv, EntrySpent, FeedHasNone, OneUser, IsFeed, Consented
  <2>8. QueuedLast' /\ \A a \in Attempts : AttemptsAfter(a)'
    BY <1>1, <1>2, <2>2 DEF OnboardingInv, OnboardingTypeOK, QueuedLast, AttemptsAfter
  <2>9. \A f \in Flows : PayloadSound(f)'
    BY <1>1, <2>1 DEF OnboardingInv, PayloadSound, Consented
  <2> QED
    BY <2>3, <2>5, <2>7, <2>8, <2>9 DEF OnboardingInv
<1>4. CASE ~IsFeed(r)
  <2> DEFINE f == FlowOf[r]
  <2>0. PICK selected \in (SUBSET Calendars) \ {{}} :
            request' = [request EXCEPT
                ![r].step = IF MayInsert(f, selected) THEN "inserting" ELSE "refused",
                ![r].selected = selected,
                ![r].tokens = payload[f]]
    BY <1>4 DEF Send
  <2> DEFINE next == IF MayInsert(f, selected) THEN "inserting" ELSE "refused"
  <2>1. /\ f \in Flows /\ next \in {"inserting", "refused"}
        /\ Consume(f)
    BY <1>4, OnboardingAssumption DEF Send, IsFeed
  <2>2. /\ session' \in [Flows -> Entries]
        /\ payload' \in [Flows -> Callbacks \cup {NoTokens}]
        /\ \A g \in Flows : \/ session'[g] = session[g] /\ payload'[g] = payload[g]
                            \/ g = f /\ session'[g] \in {"unused", "gone"}
        /\ session[f] \in {"authorized", "gone"} => session'[f] = "gone"
    BY <2>1 DEF Consume, OnboardingInv, OnboardingTypeOK, Entries
  <2>3. /\ request'[r] \in RequestRecord
        /\ request'[r].step = next /\ request'[r].selected = selected
        /\ request'[r].tokens = payload[f] /\ request'[r].tested = request[r].tested
        /\ \A s \in Requests \ {r} : request'[s] = request[s]
    <3> DEFINE new == [request[r] EXCEPT !.step = next, !.selected = selected,
                                         !.tokens = payload[f]]
    <3>1. payload[f] \in Callbacks \cup {NoTokens}
      BY <2>1 DEF OnboardingInv, OnboardingTypeOK
    <3>2. request' = [request EXCEPT ![r] = new]
      BY <2>0
    <3>3. /\ new \in RequestRecord
          /\ new.step = next /\ new.selected = selected
          /\ new.tokens = payload[f] /\ new.tested = request[r].tested
      BY <1>1, <2>1, <3>1 DEF RequestRecord
    <3> QED
      BY <3>2, <3>3 DEF OnboardingInv, OnboardingTypeOK
  <2>4. OnboardingTypeOK'
    <3>1. request' \in [Requests -> RequestRecord]
      BY <2>0, <2>3 DEF OnboardingInv, OnboardingTypeOK
    <3> QED
      BY <1>1, <2>2, <3>1 DEF OnboardingInv, OnboardingTypeOK
  <2>5. next = "inserting" =>
            /\ session[f] = "authorized"
            /\ Consented(f, payload[f])
            /\ selected \subseteq CalendarsOf[payload[f]]
    BY <2>1 DEF MayInsert, ListCalendars, OnboardingInv, PayloadSound
  <2> HIDE DEF next
  <2>6. request[r].tested = "none"
    BY <1>1, <1>4 DEF OnboardingInv, ResultSoFar
  <2>7. \A s \in Requests : DoneSoFar(s)' /\ ResultSoFar(s)'
    <3>1. DoneSoFar(r)' /\ ResultSoFar(r)'
      BY <1>1, <1>4, <2>1, <2>3, <2>6 DEF DoneSoFar, ResultSoFar, IsFeed
    <3> QED
      BY <1>1, <2>3, <3>1 DEF OnboardingInv, DoneSoFar, ResultSoFar, IsFeed
  <2>8. \A s \in Requests \ {r} : (Uses(s)' <=> Uses(s)) /\ request'[s] = request[s]
    BY <1>1, <2>3 DEF Uses
  <2>9. ~Uses(r) /\ (Uses(r)' => next = "inserting")
    <3>1. ~connector[r].exists
      BY <1>1 DEF OnboardingInv, DoneSoFar
    <3> QED
      BY <1>1, <2>1, <2>3, <3>1 DEF Uses
  <2>10. \A g \in Flows : \A c : Consented(g, c)' <=> Consented(g, c)
    BY <1>1 DEF Consented
  <2>11. EntrySpent(r)'
    BY <2>1, <2>2, <2>3, <2>5, <2>9, <2>10 DEF EntrySpent
  <2>12. \A s \in Requests \ {r} : EntrySpent(s)'
    <3> SUFFICES ASSUME NEW s \in Requests \ {r}, ~IsFeed(s), Uses(s)
                 PROVE  session'[FlowOf[s]] = "gone" /\ EntrySpent(s)'
      BY <2>8 DEF EntrySpent, IsFeed
    <3>1. EntrySpent(s) /\ FlowOf[s] \in Flows
      BY OnboardingAssumption DEF OnboardingInv, IsFeed
    <3>2. session'[FlowOf[s]] = "gone"
      BY <2>2, <3>1 DEF EntrySpent
    <3> QED
      BY <2>8, <2>10, <3>1, <3>2 DEF EntrySpent, IsFeed
  <2>13. OneUser'
    <3>1. ASSUME NEW s \in Requests \ {r}, ~IsFeed(s), FlowOf[s] = f, Uses(s), Uses(r)'
          PROVE  FALSE
      BY <2>5, <2>9, <3>1 DEF OnboardingInv, EntrySpent
    <3>2. \A s \in Requests \ {r} : FlowOf[s] = f => ~IsFeed(s)
      BY <1>4 DEF IsFeed
    <3> QED
      BY <2>8, <3>1, <3>2 DEF OnboardingInv, OneUser, IsFeed
  <2>14. QueuedLast' /\ \A a \in Attempts : AttemptsAfter(a)'
    BY <1>1, <1>2, <2>8 DEF OnboardingInv, OnboardingTypeOK, QueuedLast, AttemptsAfter
  <2>15. \A g \in Flows : PayloadSound(g)'
    BY <2>2, <2>10 DEF OnboardingInv, PayloadSound
  <2>16. \A s \in Requests : FeedHasNone(s)'
    BY <1>4, <2>8 DEF OnboardingInv, FeedHasNone, IsFeed
  <2> QED
    BY <2>4, <2>7, <2>11, <2>12, <2>13, <2>14, <2>15, <2>16 DEF OnboardingInv
<1> QED
  BY <1>3, <1>4

(* The other steps of a handler fit RequestStep. *)
LEMMA HandlerKeeps ==
    ASSUME OnboardingInv, NEW r \in Requests,
           \/ Test(r) \/ Insert(r) \/ StoreCalendars(r) \/ UpdateValidation(r)
           \/ Audit(r) \/ QueueJob(r) \/ Answer(r) \/ StatementFails(r)
    PROVE  OnboardingInv'
<1> USE DEF Handling, Answered
<1>1. CASE Test(r)
  <2>1. PICK answer \in ProviderAnswers :
            request' = [request EXCEPT
                ![r].step = IF IsFeed(r) THEN "inserting" ELSE "updating",
                ![r].tested = answer]
    BY <1>1 DEF Test, FetchUpcomingEvents
  <2>2. answer \in {"success", "error"}
    BY OnboardingAssumption
  <2>3. /\ request[r].step = "testing"
        /\ UNCHANGED <<flowVars, connector, calendars, audited, queued, attempt>>
    BY <1>1 DEF Test
  <2>4. request[r] \in RequestRecord
    BY DEF OnboardingInv, OnboardingTypeOK
  <2>5. /\ request'[r] \in RequestRecord
        /\ request'[r].step = IF IsFeed(r) THEN "inserting" ELSE "updating"
        /\ request'[r].tested = answer
        /\ request'[r].tokens = request[r].tokens /\ request'[r].selected = request[r].selected
    BY <2>1, <2>2, <2>4 DEF OnboardingInv, OnboardingTypeOK, RequestRecord, Validations
  <2>6. \A s \in Requests \ {r} : request'[s] = request[s]
    BY <2>1 DEF OnboardingInv, OnboardingTypeOK
  <2>7. OnboardingTypeOK'
    BY <2>1, <2>3, <2>5, <2>6 DEF OnboardingInv, OnboardingTypeOK, flowVars
  <2>8. r \notin queued
    BY <2>3 DEF OnboardingInv, QueuedLast
  <2>9. DoneSoFar(r)' /\ ResultSoFar(r)'
    BY <2>2, <2>3, <2>5 DEF OnboardingInv, DoneSoFar, ResultSoFar, IsFeed
  <2> QED
    BY <2>3, <2>5, <2>6, <2>7, <2>8, <2>9, RequestStep DEF Uses
<1>2. CASE Insert(r)
  <2> DEFINE new == [exists |-> TRUE, validation |-> request[r].tested]
  <2>1. /\ request[r].step = "inserting"
        /\ connector' = [connector EXCEPT ![r] = new]
        /\ request' = [request EXCEPT ![r].step = "storing"]
        /\ UNCHANGED <<flowVars, calendars, audited, queued, attempt>>
    BY <1>2 DEF Insert, Go
  <2>2. /\ request' \in [Requests -> RequestRecord]
        /\ request'[r].step = "storing"
        /\ \A s \in Requests \ {r} : request'[s] = request[s]
        /\ request'[r].tokens = request[r].tokens /\ request'[r].selected = request[r].selected
    BY <2>1, Going DEF OnboardingInv, OnboardingTypeOK
  <2>3. request[r].tested \in Validations
    BY DEF OnboardingInv, OnboardingTypeOK, RequestRecord
  <2>4. /\ connector' \in [Requests -> [exists : BOOLEAN, validation : Validations]]
        /\ connector'[r] = new
        /\ \A s \in Requests \ {r} : connector'[s] = connector[s]
    BY <2>1, <2>3 DEF OnboardingInv, OnboardingTypeOK
  <2>5. OnboardingTypeOK'
    BY <2>1, <2>2, <2>4 DEF OnboardingInv, OnboardingTypeOK, flowVars
  <2>6. r \notin queued
    BY <2>1 DEF OnboardingInv, QueuedLast
  <2>7. DoneSoFar(r)' /\ ResultSoFar(r)'
    BY <2>1, <2>2, <2>4 DEF OnboardingInv, DoneSoFar, ResultSoFar, IsFeed
  <2> QED
    BY <2>1, <2>2, <2>5, <2>6, <2>7, <2>4, RequestStep DEF Uses
<1>3. CASE StoreCalendars(r)
  <2> DEFINE next == IF IsFeed(r) THEN "auditing" ELSE "testing"
  <2>1. /\ request[r].step = "storing"
        /\ calendars' = calendars \cup {r}
        /\ request' = [request EXCEPT ![r].step = next]
        /\ UNCHANGED <<flowVars, connector, audited, queued, attempt>>
    BY <1>3 DEF StoreCalendars, Go
  <2>2. /\ request' \in [Requests -> RequestRecord]
        /\ request'[r].step = next
        /\ \A s \in Requests \ {r} : request'[s] = request[s]
        /\ request'[r].tokens = request[r].tokens /\ request'[r].selected = request[r].selected
    BY <2>1, Going DEF OnboardingInv, OnboardingTypeOK
  <2>3. OnboardingTypeOK'
    BY <2>1, <2>2 DEF OnboardingInv, OnboardingTypeOK, flowVars
  <2>4. r \notin queued
    BY <2>1 DEF OnboardingInv, QueuedLast
  <2>5. DoneSoFar(r)' /\ ResultSoFar(r)'
    BY <2>1, <2>2 DEF OnboardingInv, DoneSoFar, ResultSoFar, IsFeed
  <2> QED
    BY <2>1, <2>2, <2>3, <2>4, <2>5, RequestStep DEF Uses
<1>4. CASE UpdateValidation(r)
  <2>1. /\ request[r].step = "updating"
        /\ connector' = [connector EXCEPT ![r].validation = request[r].tested]
        /\ request' = [request EXCEPT ![r].step = "auditing"]
        /\ UNCHANGED <<flowVars, calendars, audited, queued, attempt>>
    BY <1>4 DEF UpdateValidation, Go
  <2>2. /\ request' \in [Requests -> RequestRecord]
        /\ request'[r].step = "auditing"
        /\ \A s \in Requests \ {r} : request'[s] = request[s]
        /\ request'[r].tokens = request[r].tokens /\ request'[r].selected = request[r].selected
    BY <2>1, Going DEF OnboardingInv, OnboardingTypeOK
  <2>3. request[r].tested \in Validations
    BY DEF OnboardingInv, OnboardingTypeOK, RequestRecord
  <2>4. /\ connector' \in [Requests -> [exists : BOOLEAN, validation : Validations]]
        /\ connector'[r].exists = connector[r].exists
        /\ connector'[r].validation = request[r].tested
        /\ \A s \in Requests \ {r} : connector'[s] = connector[s]
    BY <2>1, <2>3 DEF OnboardingInv, OnboardingTypeOK
  <2>5. OnboardingTypeOK'
    BY <2>1, <2>2, <2>4 DEF OnboardingInv, OnboardingTypeOK, flowVars
  <2>6. r \notin queued
    BY <2>1 DEF OnboardingInv, QueuedLast
  <2>7. DoneSoFar(r)' /\ ResultSoFar(r)'
    BY <2>1, <2>2, <2>4 DEF OnboardingInv, DoneSoFar, ResultSoFar, IsFeed
  <2> QED
    BY <2>1, <2>2, <2>5, <2>6, <2>7, <2>4, RequestStep DEF Uses
<1>5. CASE Audit(r)
  <2>1. /\ request[r].step = "auditing"
        /\ audited' = audited \cup {r}
        /\ request' = [request EXCEPT ![r].step = "queueing"]
        /\ UNCHANGED <<flowVars, connector, calendars, queued, attempt>>
    BY <1>5 DEF Audit, Go
  <2>2. /\ request' \in [Requests -> RequestRecord]
        /\ request'[r].step = "queueing"
        /\ \A s \in Requests \ {r} : request'[s] = request[s]
        /\ request'[r].tokens = request[r].tokens /\ request'[r].selected = request[r].selected
    BY <2>1, Going DEF OnboardingInv, OnboardingTypeOK
  <2>3. OnboardingTypeOK'
    BY <2>1, <2>2 DEF OnboardingInv, OnboardingTypeOK, flowVars
  <2>4. r \notin queued
    BY <2>1 DEF OnboardingInv, QueuedLast
  <2>5. DoneSoFar(r)' /\ ResultSoFar(r)'
    BY <2>1, <2>2 DEF OnboardingInv, DoneSoFar, ResultSoFar, IsFeed
  <2> QED
    BY <2>1, <2>2, <2>3, <2>4, <2>5, RequestStep DEF Uses
<1>6. CASE QueueJob(r)
  <2>1. /\ request[r].step = "queueing"
        /\ queued' = queued \cup {r}
        /\ request' = [request EXCEPT ![r].step = "answering"]
        /\ UNCHANGED <<flowVars, connector, calendars, audited, attempt>>
    BY <1>6 DEF QueueJob, Go
  <2>2. /\ request' \in [Requests -> RequestRecord]
        /\ request'[r].step = "answering"
        /\ \A s \in Requests \ {r} : request'[s] = request[s]
        /\ request'[r].tokens = request[r].tokens /\ request'[r].selected = request[r].selected
    BY <2>1, Going DEF OnboardingInv, OnboardingTypeOK
  <2>3. OnboardingTypeOK'
    BY <2>1, <2>2 DEF OnboardingInv, OnboardingTypeOK, flowVars
  <2>4. DoneSoFar(r)' /\ ResultSoFar(r)'
    BY <2>1, <2>2 DEF OnboardingInv, DoneSoFar, ResultSoFar, IsFeed
  <2> QED
    BY <2>1, <2>2, <2>3, <2>4, RequestStep DEF Uses
<1>7. CASE Answer(r)
  <2>1. /\ request[r].step = "answering"
        /\ request' = [request EXCEPT ![r].step = "created"]
        /\ UNCHANGED <<flowVars, connector, calendars, audited, queued, attempt>>
    BY <1>7 DEF Answer, Go
  <2>2. /\ request' \in [Requests -> RequestRecord]
        /\ request'[r].step = "created"
        /\ \A s \in Requests \ {r} : request'[s] = request[s]
        /\ request'[r].tokens = request[r].tokens /\ request'[r].selected = request[r].selected
    BY <2>1, Going DEF OnboardingInv, OnboardingTypeOK
  <2>3. OnboardingTypeOK'
    BY <2>1, <2>2 DEF OnboardingInv, OnboardingTypeOK, flowVars
  <2>4. DoneSoFar(r)' /\ ResultSoFar(r)'
    BY <2>1, <2>2 DEF OnboardingInv, DoneSoFar, ResultSoFar, IsFeed
  <2> QED
    BY <2>1, <2>2, <2>3, <2>4, RequestStep DEF Uses
<1>8. CASE StatementFails(r)
  <2>1. /\ request[r].step \in Handling
        /\ request' = [request EXCEPT ![r].step = "refused"]
        /\ UNCHANGED <<flowVars, connector, calendars, audited, queued, attempt>>
    BY <1>8 DEF StatementFails, Go
  <2>2. /\ request' \in [Requests -> RequestRecord]
        /\ request'[r].step = "refused"
        /\ \A s \in Requests \ {r} : request'[s] = request[s]
        /\ request'[r].tokens = request[r].tokens /\ request'[r].selected = request[r].selected
    BY <2>1, Going DEF OnboardingInv, OnboardingTypeOK
  <2>3. OnboardingTypeOK'
    BY <2>1, <2>2 DEF OnboardingInv, OnboardingTypeOK, flowVars
  <2>4. DoneSoFar(r)' /\ ResultSoFar(r)'
    BY <2>2 DEF DoneSoFar, ResultSoFar
  <2> QED
    BY <2>1, <2>2, <2>3, <2>4, RequestStep DEF Uses
<1> QED
  BY <1>1, <1>2, <1>3, <1>4, <1>5, <1>6, <1>7, <1>8

LEMMA ApiCrashKeeps ==
    ASSUME OnboardingInv, ApiCrash
    PROVE  OnboardingInv'
<1> USE DEF Handling, Answered
<1>1. /\ session' = [f \in Flows |-> IF session[f] = "unused" THEN "unused" ELSE "gone"]
      /\ payload' = [f \in Flows |-> NoTokens]
      /\ callback' = [c \in Callbacks |->
            IF callback[c] \in Redirecting THEN "error" ELSE callback[c]]
      /\ UNCHANGED <<spent, connector, calendars, audited, queued, attempt>>
  BY DEF ApiCrash
<1>2. \A r \in Requests :
          request'[r] = [request[r] EXCEPT !.step = IF @ \in Handling THEN "lost" ELSE @]
  BY DEF ApiCrash
<1>3. \A r \in Requests :
          /\ request'[r] \in RequestRecord
          /\ \/ request'[r] = request[r]
             \/ request[r].step \in Handling /\ request'[r].step = "lost"
          /\ request'[r].tokens = request[r].tokens
          /\ request'[r].selected = request[r].selected
  <2> SUFFICES ASSUME NEW r \in Requests
               PROVE  /\ request'[r] \in RequestRecord
                      /\ \/ request'[r] = request[r]
                         \/ request[r].step \in Handling /\ request'[r].step = "lost"
                      /\ request'[r].tokens = request[r].tokens
                      /\ request'[r].selected = request[r].selected
    OBVIOUS
  <2>1. request[r] \in RequestRecord
    BY DEF OnboardingInv, OnboardingTypeOK
  <2>2. CASE request[r].step \in Handling
    <3>1. request'[r] = [request[r] EXCEPT !.step = "lost"]
      BY <1>2, <2>2
    <3> QED
      BY <2>1, <2>2, <3>1 DEF RequestRecord
  <2>3. CASE request[r].step \notin Handling
    <3>1. request'[r] = [request[r] EXCEPT !.step = request[r].step]
      BY <1>2, <2>3
    <3>2. request'[r] = request[r]
      BY <2>1, <3>1 DEF RequestRecord
    <3> QED
      BY <2>1, <3>2
  <2> QED
    BY <2>2, <2>3
<1>4. OnboardingTypeOK'
  <2>1. /\ session' \in [Flows -> Entries]
        /\ payload' \in [Flows -> Callbacks \cup {NoTokens}]
        /\ callback' \in [Callbacks -> CallbackSteps]
    BY <1>1 DEF OnboardingInv, OnboardingTypeOK, Entries, CallbackSteps
  <2>2. request' \in [Requests -> RequestRecord]
    BY <1>3 DEF ApiCrash
  <2> QED
    BY <1>1, <2>1, <2>2 DEF OnboardingInv, OnboardingTypeOK
<1>5. \A r \in Requests : (Uses(r)' => Uses(r)) /\ DoneSoFar(r)' /\ ResultSoFar(r)'
  <2> SUFFICES ASSUME NEW r \in Requests
               PROVE  (Uses(r)' => Uses(r)) /\ DoneSoFar(r)' /\ ResultSoFar(r)'
    OBVIOUS
  <2>1. CASE request'[r] = request[r]
    BY <1>1, <2>1 DEF OnboardingInv, Uses, DoneSoFar, ResultSoFar, IsFeed
  <2>2. CASE request[r].step \in Handling /\ request'[r].step = "lost"
    BY <1>1, <2>2 DEF Uses, DoneSoFar, ResultSoFar
  <2> QED
    BY <1>3, <2>1, <2>2
<1>6. /\ \A f \in Flows : session[f] = "gone" => session'[f] = "gone"
      /\ \A f \in Flows : PayloadSound(f)'
      /\ \A c \in Callbacks : callback[c] = "success" => callback'[c] = "success"
  BY <1>1 DEF OnboardingInv, OnboardingTypeOK, PayloadSound, Redirecting
<1>7. \A r \in Requests : EntrySpent(r)' /\ FeedHasNone(r)'
  BY <1>3, <1>5, <1>6, OnboardingAssumption
     DEF OnboardingInv, EntrySpent, FeedHasNone, IsFeed, Consented
<1>8. OneUser'
  BY <1>5 DEF OnboardingInv, OneUser, IsFeed
<1>9. QueuedLast' /\ \A a \in Attempts : AttemptsAfter(a)'
  BY <1>1, <1>3 DEF OnboardingInv, OnboardingTypeOK, QueuedLast, AttemptsAfter
<1> QED
  BY <1>4, <1>5, <1>6, <1>7, <1>8, <1>9 DEF OnboardingInv

-----------------------------------------------------------------------------
(* A validation job changes the row of a request that has nothing to write. *)
LEMMA ValidateKeeps ==
    ASSUME OnboardingInv, NEW a \in Attempts, Validate(a)
    PROVE  OnboardingInv'
<1>1. CASE WriteValidation(a)
  <2> DEFINE r == attempt[a].of
  <2>1. /\ attempt[a].step = "fetched"
        /\ connector' = [connector EXCEPT ![r].validation = attempt[a].result]
        /\ attempt' = [attempt EXCEPT ![a].step = "done"]
        /\ UNCHANGED <<flowVars, request, calendars, audited, queued>>
    BY <1>1 DEF WriteValidation, apiVars
  <2>2. /\ r \in queued /\ r \in Requests /\ attempt[a].result # "none"
        /\ request[r].step \in {"answering", "created", "refused", "lost"}
    BY <2>1 DEF OnboardingInv, OnboardingTypeOK, AttemptsAfter, QueuedLast
  <2>3. OnboardingTypeOK'
    <3>1. attempt[a].result \in Validations
      BY DEF OnboardingInv, OnboardingTypeOK
    <3>2. connector' \in [Requests -> [exists : BOOLEAN, validation : Validations]]
      BY <2>1, <3>1 DEF OnboardingInv, OnboardingTypeOK
    <3>3. attempt' \in [Attempts -> [step : {"idle", "loaded", "fetched", "done", "lost"},
                                    of : Requests \cup {NoRequest},
                                    ids : {"payload", "selected"},
                                    result : Validations]]
      BY <2>1 DEF OnboardingInv, OnboardingTypeOK
    <3> QED
      BY <2>1, <3>2, <3>3 DEF OnboardingInv, OnboardingTypeOK, flowVars
  <2>4. /\ \A s \in Requests : connector'[s].exists = connector[s].exists
        /\ \A s \in Requests \ {r} : connector'[s] = connector[s]
        /\ connector'[r].validation = attempt[a].result
    BY <2>1, <2>2 DEF OnboardingInv, OnboardingTypeOK
  <2>5. \A s \in Requests : (Uses(s)' <=> Uses(s)) /\ DoneSoFar(s)'
    BY <2>1, <2>4 DEF OnboardingInv, Uses, DoneSoFar, IsFeed
  <2>6. \A s \in Requests : ResultSoFar(s)'
    <3>1. ResultSoFar(r)'
      BY <2>1, <2>2, <2>4 DEF ResultSoFar
    <3> QED
      BY <2>1, <2>4, <3>1 DEF OnboardingInv, ResultSoFar, IsFeed
  <2>7. \A b \in Attempts : AttemptsAfter(b)'
    BY <2>1, <2>2 DEF OnboardingInv, OnboardingTypeOK, AttemptsAfter
  <2>8. /\ \A s \in Requests : EntrySpent(s)' /\ FeedHasNone(s)'
        /\ OneUser' /\ QueuedLast'
        /\ \A f \in Flows : PayloadSound(f)'
    BY <2>1, <2>5 DEF OnboardingInv, EntrySpent, FeedHasNone, OneUser, QueuedLast, IsFeed,
       PayloadSound, Consented, flowVars
  <2> QED
    BY <2>3, <2>5, <2>6, <2>7, <2>8 DEF OnboardingInv
<1>2. CASE \/ \E r \in Requests : BeginAttempt(a, r)
           \/ FetchEvents(a) \/ WriteIsCaught(a) \/ LoseAttempt(a)
  <2>1. UNCHANGED <<flowVars, request, connector, calendars, audited, queued>>
    BY <1>2 DEF BeginAttempt, FetchEvents, WriteIsCaught, LoseAttempt, apiVars
  <2>2. OnboardingTypeOK' /\ \A b \in Attempts : AttemptsAfter(b)'
    <3>1. CASE \E r \in Requests : BeginAttempt(a, r)
      BY <2>1, <3>1 DEF OnboardingInv, OnboardingTypeOK, AttemptsAfter, BeginAttempt, Validations,
         flowVars
    <3>2. CASE FetchEvents(a)
      <4>1. PICK answer \in {"success", "error"} :
                attempt' = [attempt EXCEPT ![a].step = "fetched", ![a].result = answer]
        BY <3>2, OnboardingAssumption DEF FetchEvents, FetchUpcomingEvents
      <4>2. attempt[a].step = "loaded"
        BY <3>2 DEF FetchEvents
      <4>3. OnboardingTypeOK'
        <5>1. answer \in Validations
          BY DEF Validations
        <5>2. attempt' \in [Attempts -> [step : {"idle", "loaded", "fetched", "done", "lost"},
                                        of : Requests \cup {NoRequest},
                                        ids : {"payload", "selected"},
                                        result : Validations]]
          BY <4>1, <5>1 DEF OnboardingInv, OnboardingTypeOK
        <5> QED
          BY <2>1, <5>2 DEF OnboardingInv, OnboardingTypeOK, flowVars
      <4>4. attempt'[a].of = attempt[a].of /\ attempt'[a].result = answer
        BY <4>1 DEF OnboardingInv, OnboardingTypeOK
      <4>5. \A b \in Attempts \ {a} : attempt'[b] = attempt[b]
        BY <4>1 DEF OnboardingInv, OnboardingTypeOK
      <4>6. \A b \in Attempts : AttemptsAfter(b)'
        BY <2>1, <4>2, <4>4, <4>5 DEF OnboardingInv, AttemptsAfter
      <4> QED
        BY <4>3, <4>6
    <3>3. CASE WriteIsCaught(a)
      BY <2>1, <3>3 DEF OnboardingInv, OnboardingTypeOK, AttemptsAfter, WriteIsCaught, Validations,
         flowVars
    <3>4. CASE LoseAttempt(a)
      BY <2>1, <3>4 DEF OnboardingInv, OnboardingTypeOK, AttemptsAfter, LoseAttempt, flowVars
    <3> QED
      BY <1>2, <3>1, <3>2, <3>3, <3>4
  <2>3. \A s \in Requests : (Uses(s)' <=> Uses(s)) /\ DoneSoFar(s)' /\ ResultSoFar(s)'
    BY <2>1 DEF OnboardingInv, Uses, DoneSoFar, ResultSoFar, IsFeed
  <2>4. /\ \A s \in Requests : EntrySpent(s)' /\ FeedHasNone(s)'
        /\ OneUser' /\ QueuedLast'
        /\ \A f \in Flows : PayloadSound(f)'
    BY <2>1, <2>3 DEF OnboardingInv, EntrySpent, FeedHasNone, OneUser, QueuedLast, IsFeed,
       PayloadSound, Consented, flowVars
  <2> QED
    BY <2>2, <2>3, <2>4 DEF OnboardingInv
<1> QED
  BY <1>1, <1>2 DEF Validate

LEMMA OnboardingStep == OnboardingInv /\ [OnboardingNext]_onboardingVars => OnboardingInv'
<1> SUFFICES ASSUME OnboardingInv, [OnboardingNext]_onboardingVars
             PROVE  OnboardingInv'
  OBVIOUS
<1>1. CASE UNCHANGED onboardingVars
  <2>1. OnboardingTypeOK' /\ \A r \in Requests : Uses(r)' <=> Uses(r)
    BY <1>1 DEF OnboardingInv, onboardingVars, apiVars, flowVars, OnboardingTypeOK, Uses
  <2> QED
    BY <1>1, <2>1, FlowStep
       DEF OnboardingInv, onboardingVars, apiVars, flowVars, PayloadSound, Consented
<1>2. CASE \E f \in Flows : StartFlow(f)
  BY <1>2, StartFlowKeeps
<1>3. CASE \E c \in Callbacks : Redirect(c)
  BY <1>3, CallbackKeeps
<1>4. CASE \E r \in Requests : Handle(r)
  BY <1>4, SendKeeps, HandlerKeeps DEF Handle
<1>5. CASE \E a \in Attempts : Validate(a)
  BY <1>5, ValidateKeeps
<1>6. CASE ApiCrash
  BY <1>6, ApiCrashKeeps
<1> QED
  BY <1>1, <1>2, <1>3, <1>4, <1>5, <1>6 DEF OnboardingNext

LEMMA OnboardingInvHolds == OnboardingSpec => []OnboardingInv
<1> QED
  BY OnboardingInitInv, OnboardingStep, PTL DEF OnboardingSpec

-----------------------------------------------------------------------------
(* One authorization makes at most one connector, however many requests      *)
(* name its state token (connectors.ts:485).                                 *)
THEOREM AuthorizationUsedOnce == OnboardingSpec => []OneConnectorPerAuthorization
<1>1. OnboardingInv => OneConnectorPerAuthorization
  BY DEF OnboardingInv, OneUser, Uses, OneConnectorPerAuthorization
<1> QED
  BY <1>1, OnboardingInvHolds, PTL

(* A connector's tokens are those of a successful callback of its flow, and  *)
(* no other connector has them (connectors.ts:485-493).                      *)
THEOREM ConsentCorrect == OnboardingSpec => []ConnectorNeedsConsent
<1>1. OnboardingInv => ConnectorNeedsConsent
  <2> SUFFICES ASSUME OnboardingInv, NEW r \in Requests, connector[r].exists, ~IsFeed(r)
               PROVE  /\ Consented(FlowOf[r], request[r].tokens)
                      /\ \A s \in Requests \ {r} :
                            connector[s].exists => request[s].tokens # request[r].tokens
    BY DEF ConnectorNeedsConsent, Consented
  <2>1. Consented(FlowOf[r], request[r].tokens)
    BY DEF OnboardingInv, EntrySpent, Uses
  <2>2. ASSUME NEW s \in Requests \ {r}, connector[s].exists,
               request[s].tokens = request[r].tokens
        PROVE  FALSE
    <3>1. IsFeed(s) => request[s].tokens = NoTokens
      BY DEF OnboardingInv, FeedHasNone
    <3>2. ~IsFeed(s)
      BY <2>1, <2>2, <3>1, OnboardingAssumption DEF Consented
    <3>3. Consented(FlowOf[s], request[s].tokens)
      BY <2>2, <3>2 DEF OnboardingInv, EntrySpent, Uses
    <3> QED
      BY <2>1, <2>2, <3>2, <3>3 DEF OnboardingInv, OneUser, Uses, Consented
  <2> QED
    BY <2>1, <2>2
<1> QED
  BY <1>1, OnboardingInvHolds, PTL

(* A connector has calendars, and the account whose tokens it has lists them *)
(* all (connectors.ts:499-503).                                              *)
THEOREM CalendarsCorrect == OnboardingSpec => []CalendarsOfOwnAccount
<1>1. OnboardingInv => CalendarsOfOwnAccount
  BY DEF OnboardingInv, EntrySpent, Uses, CalendarsOfOwnAccount
<1> QED
  BY <1>1, OnboardingInvHolds, PTL

(* After 201 everything is stored, whatever failed for other requests and    *)
(* whatever validation jobs have written since (connectors.ts:529-622).      *)
THEOREM CreatedCorrect == OnboardingSpec => []CreatedMeansComplete
<1>1. OnboardingInv => CreatedMeansComplete
  BY DEF OnboardingInv, DoneSoFar, ResultSoFar, CreatedMeansComplete
<1> QED
  BY <1>1, OnboardingInvHolds, PTL

(* Sessions, requests, rows and jobs stay in their types. *)
THEOREM OnboardingTypes == OnboardingSpec => []OnboardingTypeOK
<1>1. OnboardingInv => OnboardingTypeOK
  BY DEF OnboardingInv
<1> QED
  BY <1>1, OnboardingInvHolds, PTL

-----------------------------------------------------------------------------
(* What JobMarksValidated lacks.  The run validation_ids refutes it; these   *)
(* theorems say of which jobs it is true.                                    *)

(* A connector that a validation job has just written.                       *)
Judged(a) == attempt[a].step # "done" /\ attempt'[a].step = "done"

(* A provider that answers about all its calendars, and no faults.           *)
NothingFails == ProviderAnswers = {"success"} /\ AllowedFaults = {}

IdsDecide ==
    \A a \in Attempts : attempt[a].step = "fetched" =>
        /\ attempt[a].ids = "payload" => attempt[a].result = "error"
        /\ (attempt[a].ids = "selected" /\ NothingFails) => attempt[a].result = "success"

(* Only a validation job moves a validation job. *)
LEMMA AttemptsMove ==
    ASSUME [OnboardingNext]_onboardingVars
    PROVE  (\E a \in Attempts : Validate(a)) \/ UNCHANGED attempt
<1>1. ASSUME NEW r \in Requests, Handle(r)
      PROVE  UNCHANGED attempt
  BY <1>1 DEF Handle, Send, Test, Insert, StoreCalendars, UpdateValidation, Audit, QueueJob,
              Answer, StatementFails
<1>2. ASSUME NEW c \in Callbacks, Redirect(c)
      PROVE  UNCHANGED attempt
  BY <1>2 DEF Redirect, BeginCallback, ExchangeCode, ReadProfile, StorePayload,
              CallbackFails, Others
<1>3. (\E f \in Flows : StartFlow(f)) \/ ApiCrash \/ UNCHANGED onboardingVars
          => UNCHANGED attempt
  BY DEF StartFlow, ApiCrash, onboardingVars, Others
<1> QED
  BY <1>1, <1>2, <1>3 DEF OnboardingNext

LEMMA IdsDecideHolds == OnboardingSpec => [](OnboardingInv /\ IdsDecide)
<1>1. OnboardingInit => OnboardingInv /\ IdsDecide
  BY OnboardingInitInv DEF OnboardingInit, IdsDecide
<1>2. OnboardingInv /\ IdsDecide /\ [OnboardingNext]_onboardingVars
          => (OnboardingInv /\ IdsDecide)'
  <2> SUFFICES ASSUME OnboardingInv, IdsDecide, [OnboardingNext]_onboardingVars
               PROVE  IdsDecide'
    BY OnboardingStep
  <2> USE DEF OnboardingInv, OnboardingTypeOK
  <2>1. CASE UNCHANGED attempt
    BY <2>1 DEF IdsDecide
  <2>2. ASSUME NEW a \in Attempts, NEW r \in Requests, BeginAttempt(a, r)
        PROVE  IdsDecide'
    BY <2>2 DEF BeginAttempt, IdsDecide
  <2>3. ASSUME NEW a \in Attempts, FetchEvents(a)
        PROVE  IdsDecide'
    BY <2>3 DEF FetchEvents, FetchUpcomingEvents, IdsDecide, NothingFails
  <2>4. ASSUME NEW a \in Attempts, WriteValidation(a) \/ LoseAttempt(a)
        PROVE  IdsDecide'
    BY <2>4 DEF WriteValidation, LoseAttempt, IdsDecide
  <2>5. ASSUME NEW a \in Attempts, WriteIsCaught(a)
        PROVE  IdsDecide'
    BY <2>5 DEF WriteIsCaught, IdsDecide, NothingFails
  <2> QED
    BY <2>1, <2>2, <2>3, <2>4, <2>5, AttemptsMove DEF Validate
<1> QED
  BY <1>1, <1>2, PTL DEF OnboardingSpec

(* A job leaves what it was told, in the connector that it is of.            *)
LEMMA JudgedStep ==
    ASSUME OnboardingInv, [OnboardingNext]_onboardingVars, NEW a \in Attempts, Judged(a)
    PROVE  /\ attempt[a].step = "fetched"
           /\ connector'[attempt[a].of].validation = attempt[a].result
<1> USE DEF OnboardingInv, OnboardingTypeOK
<1>1. PICK b \in Attempts : Validate(b)
  BY AttemptsMove DEF Judged
<1>2. \/ WriteValidation(b)
      \/ \A x \in Attempts : attempt'[x].step = "done" => attempt'[x] = attempt[x]
  <2>1. ASSUME NEW r \in Requests, BeginAttempt(b, r), NEW x \in Attempts
        PROVE  attempt'[x].step = "done" => attempt'[x] = attempt[x]
    BY <2>1 DEF BeginAttempt
  <2>2. ASSUME FetchEvents(b) \/ LoseAttempt(b), NEW x \in Attempts
        PROVE  attempt'[x].step = "done" => attempt'[x] = attempt[x]
    BY <2>2 DEF FetchEvents, LoseAttempt
  <2>3. ASSUME WriteIsCaught(b), NEW x \in Attempts
        PROVE  attempt'[x].step = "done" => attempt'[x] = attempt[x]
    BY <2>3 DEF WriteIsCaught
  <2> QED
    BY <1>1, <2>1, <2>2, <2>3 DEF Validate
<1>3. WriteValidation(b) /\ a = b
  BY <1>2 DEF WriteValidation, Judged
<1>4. attempt[a].of \in DOMAIN connector
  BY <1>3 DEF WriteValidation, OnboardingInv, AttemptsAfter
<1> QED
  BY <1>3, <1>4 DEF WriteValidation

(* The follow-up job that createOAuthConnector queues names the rows of the  *)
(* calendars: whatever providers answer and whatever races it, it leaves its *)
(* connector with an error.                                                  *)
FollowUpJobsFail ==
    [][\A a \in Attempts :
          (Judged(a) /\ attempt[a].ids = "payload")
              => connector'[attempt[a].of].validation = "error"]_onboardingVars

THEOREM FollowUpsNeverValidate == OnboardingSpec => FollowUpJobsFail
<1>1. OnboardingInv /\ IdsDecide /\ [OnboardingNext]_onboardingVars
          => [\A a \in Attempts :
                (Judged(a) /\ attempt[a].ids = "payload")
                    => connector'[attempt[a].of].validation = "error"]_onboardingVars
  BY JudgedStep DEF IdsDecide
<1> QED
  BY <1>1, IdsDecideHolds, PTL DEF OnboardingSpec, FollowUpJobsFail

(* A job without ids in its payload, as POST /jobs/schedule accepts it, uses *)
(* the provider's: if nothing fails, it does mark its connector validated.   *)
ScheduledJobsValidate ==
    [][\A a \in Attempts :
          (Judged(a) /\ attempt[a].ids = "selected")
              => connector'[attempt[a].of].validation = "success"]_onboardingVars

THEOREM ScheduledJobsMarkValidated ==
    ASSUME NothingFails
    PROVE  OnboardingSpec => ScheduledJobsValidate
<1>1. OnboardingInv /\ IdsDecide /\ [OnboardingNext]_onboardingVars
          => [\A a \in Attempts :
                (Judged(a) /\ attempt[a].ids = "selected")
                    => connector'[attempt[a].of].validation = "success"]_onboardingVars
  BY JudgedStep DEF IdsDecide
<1> QED
  BY <1>1, IdsDecideHolds, PTL DEF OnboardingSpec, ScheduledJobsValidate

=============================================================================
