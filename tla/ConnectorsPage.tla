--------------------------- MODULE ConnectorsPage ---------------------------
(***************************************************************************)
(* The connectors page of the portal                                       *)
(* (apps/web/src/app/(connectors)/connectors/page.tsx): the wizard that     *)
(* tests and saves a feed, and the form that chooses calendars after an     *)
(* OAuth redirect.  Requests are answered late, while the user goes on, and *)
(* an answer is applied to whatever the page shows by then.                 *)
(*                                                                         *)
(* An event handler, an answer with all that follows it up to the next      *)
(* await, and the effects that they cause are one step.  The page is shown  *)
(* once: leaving for a provider or reloading unmounts it.                   *)
(***************************************************************************)
EXTENDS Integers, FiniteSets

CONSTANTS
    Forms,       \* contents of the wizard's form that validateHtmlForm accepts
    Incomplete,  \* any content that it does not
    NoForm,      \* null
    Tests,       \* clicks of "Test feed" that pass the form's validation
    Saves,       \* clicks of "Save connector" or "Complete setup", likewise
    Calendars    \* calendars discovered for the authorization in the URL

ASSUME PageAssumption ==
    /\ Incomplete \notin Forms
    /\ NoForm \notin Forms \cup {Incomplete}

VARIABLES
    wizard,         \* isHtmlWizardActive
    form,           \* htmlForm
    result,         \* htmlValidationResult: the form that was tested, and
                    \*   whether the form changed while that test was under way
    isTesting,      \* isTestingHtml
    isSubmitting,
    test,           \* POST /connectors/validate, per click
    save,           \* POST /connectors, per click
    url,            \* the query names the authorization
    navigation,     \* router.replace('/connectors'): none, pending or failed
    context,        \* contextEntries holds the authorization
    firstLoad,      \* loadContext of the mount: sent, read with an answer, over
    selection,      \* the keys of selectionState
    authorization   \* the API's session still has the authorization

wizardVars == <<wizard, form, result, isTesting>>
oauthVars  == <<url, navigation, context, firstLoad, selection, authorization>>
pageVars   == <<wizardVars, isSubmitting, test, save, oauthVars>>

NoResult == [of |-> NoForm, late |-> FALSE]

(* sent: no answer yet; validated, pending: 201, with the connector's status *)
(* and for "pending" an error to show; refused: anything else; saved: all    *)
(* has been told to the user; over: nothing more to come                     *)
InFlight == {"sent", "validated", "pending", "refused"}

(* A click of "Test feed" carries some history: what has become of the form  *)
(* since (same, edited, left for another), and whether an older test was     *)
(* still under way.                                                          *)
NoTest == [step |-> "unsent", form |-> NoForm, since |-> "same", beside |-> FALSE]

TestRecords == [step : {"unsent", "sent", "over"}, form : Forms \cup {NoForm},
                since : {"same", "edited", "left"}, beside : BOOLEAN]

(* fresh is history: after this creation the context was loaded again, with  *)
(* no answer of before still to come.                                        *)
NoSave == [step |-> "unsent", of |-> "none", fresh |-> FALSE]

SaveRecords == [step : {"unsent", "saved", "over"} \cup InFlight,
                of : {"none", "feed", "oauth"}, fresh : BOOLEAN]

PageTypeOK ==
    /\ wizard \in BOOLEAN
    /\ form \in Forms \cup {Incomplete}
    /\ result \in [of : Forms \cup {NoForm}, late : BOOLEAN]
    /\ isTesting \in BOOLEAN
    /\ isSubmitting \in BOOLEAN
    /\ test \in [Tests -> TestRecords]
    /\ save \in [Saves -> SaveRecords]
    /\ url \in BOOLEAN
    /\ navigation \in {"none", "pending", "failed"}
    /\ context \in BOOLEAN
    /\ firstLoad \in {"sent", "there", "spent", "over"}
    /\ selection \subseteq Calendars
    /\ authorization \in BOOLEAN

PageInit ==
    /\ wizard = FALSE
    /\ form = Incomplete
    /\ result = NoResult
    /\ isTesting = FALSE
    /\ isSubmitting = FALSE
    /\ test = [t \in Tests |-> NoTest]
    /\ save = [s \in Saves |-> NoSave]
    /\ url = TRUE
    /\ navigation = "none"
    /\ context = FALSE
    /\ firstLoad = "sent"
    /\ selection = {}
    /\ authorization = TRUE

-----------------------------------------------------------------------------
(* validateHtmlForm finds nothing to complain about. *)
Complete(f) == f \in Forms

(* activeContextEntry *)
Offered(inUrl, inContext) == inUrl /\ inContext

(* The effect of 286-303.  It runs when the entry changes, a reloaded one    *)
(* being a new object, and when the wizard opens or closes.                  *)
DefaultSelection(open, offered) ==
    IF open THEN selection ELSE IF offered THEN Calendars ELSE {}

(* Whatever is under test is not the form any more. *)
TestsAreLate(why) ==
    test' = [t \in Tests |->
        IF test[t].step = "sent"
        THEN [test[t] EXCEPT !.since = IF @ = "left" THEN "left" ELSE why]
        ELSE test[t]]

(* resetHtmlWizard, with setIsHtmlWizardActive. *)
ResetWizard(open) ==
    /\ wizard' = open
    /\ form' = Incomplete
    /\ result' = NoResult
    /\ isTesting' = FALSE
    /\ TestsAreLate("left")

-----------------------------------------------------------------------------
(* The wizard *)

(* From a provider card, or from "Retest feed" in the table, which is there  *)
(* whatever the page shows.  A retested connector gives its label, no URL.   *)
OpenWizard ==
    /\ ResetWizard(TRUE)
    /\ UNCHANGED <<isSubmitting, save, oauthVars>>

(* Variant of CancelWizard: Cancel gives up a submission under way. *)
CancelSubmission ==
    /\ wizard
    /\ ResetWizard(FALSE)
    /\ isSubmitting' = FALSE
    /\ selection' = DefaultSelection(FALSE, Offered(url, context))
    /\ UNCHANGED <<save, url, navigation, context, firstLoad, authorization>>

(* "Cancel", which is always enabled; "Back" is not during a test. *)
CancelWizard ==
    /\ wizard
    /\ ResetWizard(FALSE)
    /\ selection' = DefaultSelection(FALSE, Offered(url, context))
    /\ UNCHANGED <<isSubmitting, save, url, navigation, context, firstLoad, authorization>>

(* Variant of Edit: a validation is kept. *)
EditKeepingResult(f) ==
    /\ wizard
    /\ f # form
    /\ form' = f
    /\ TestsAreLate("edited")
    /\ UNCHANGED <<wizard, result, isTesting, isSubmitting, save, oauthVars>>

(* The fields are enabled during tests and submissions. *)
Edit(f) ==
    /\ wizard
    /\ f # form
    /\ form' = f
    /\ result' = NoResult
    /\ TestsAreLate("edited")
    /\ UNCHANGED <<wizard, isTesting, isSubmitting, save, oauthVars>>

SendTest(t) ==
    test' = [test EXCEPT ![t] =
        [step |-> "sent", form |-> form, since |-> "same",
         beside |-> \E u \in Tests : test[u].step = "sent"]]

(* Variant of ClickTest: whatever is in the fields is sent. *)
ClickTestUnchecked(t) ==
    /\ wizard
    /\ ~isTesting /\ ~isSubmitting
    /\ test[t].step = "unsent"
    /\ SendTest(t)
    /\ isTesting' = TRUE
    /\ UNCHANGED <<wizard, form, result, isSubmitting, save, oauthVars>>

ClickTest(t) ==
    /\ wizard /\ Complete(form)
    /\ ~isTesting /\ ~isSubmitting
    /\ test[t].step = "unsent"
    /\ SendTest(t)
    /\ isTesting' = TRUE
    /\ UNCHANGED <<wizard, form, result, isSubmitting, save, oauthVars>>

(* "ok", or a failed validation, an error status, no answer. *)
AnswerTest(t) ==
    /\ test[t].step = "sent"
    /\ test' = [test EXCEPT ![t] = [NoTest EXCEPT !.step = "over"]]
    /\ \E ok \in BOOLEAN :
          result' = IF ok THEN [of |-> test[t].form, late |-> test[t].since # "same"]
                    ELSE NoResult
    /\ isTesting' = FALSE
    /\ UNCHANGED <<wizard, form, isSubmitting, save, oauthVars>>

(* Variant of MaySave: the button is not disabled during a test. *)
MaySaveWhileTesting == wizard /\ Complete(form) /\ result # NoResult /\ ~isSubmitting

(* "Save connector" is enabled, and what it does goes through. *)
MaySave == wizard /\ Complete(form) /\ result # NoResult /\ ~isTesting /\ ~isSubmitting

ClickSave(s) ==
    /\ MaySave
    /\ save[s].step = "unsent"
    /\ save' = [save EXCEPT ![s] = [step |-> "sent", of |-> "feed", fresh |-> FALSE]]
    /\ isSubmitting' = TRUE
    /\ UNCHANGED <<wizardVars, test, oauthVars>>

-----------------------------------------------------------------------------
(* The form after an OAuth redirect *)

CalendarsShown == ~wizard /\ Offered(url, context)

ReadContext ==
    /\ firstLoad = "sent"
    /\ firstLoad' = IF authorization THEN "there" ELSE "spent"
    /\ UNCHANGED <<wizardVars, isSubmitting, test, save, url, navigation, context, selection, authorization>>

(* The answer arrives, or none does. *)
LoadContext ==
    /\ firstLoad \in {"there", "spent"}
    /\ firstLoad' = "over"
    /\ \/ /\ context' = (firstLoad = "there")
          /\ selection' = DefaultSelection(wizard, Offered(url, context'))
       \/ UNCHANGED <<context, selection>>
    /\ UNCHANGED <<wizardVars, isSubmitting, test, save, url, navigation, authorization>>

ToggleCalendar(c) ==
    /\ CalendarsShown
    /\ selection' = IF c \in selection THEN selection \ {c} ELSE selection \cup {c}
    /\ UNCHANGED <<wizardVars, isSubmitting, test, save, url, navigation, context, firstLoad, authorization>>

(* "Cancel" of this form; it stays until the router has got there. *)
LeaveForm ==
    /\ CalendarsShown
    /\ navigation' = "pending"
    /\ UNCHANGED <<wizardVars, isSubmitting, test, save, url, context, firstLoad, selection,
                   authorization>>

(* The router has the page without the query and commits it. *)
Navigate ==
    /\ navigation = "pending"
    /\ navigation' = "none"
    /\ url' = FALSE
    /\ selection' = DefaultSelection(wizard, FALSE)
    /\ UNCHANGED <<wizardVars, isSubmitting, test, save, context, firstLoad, authorization>>

(* It does not get it, and the page stays as it is. *)
NavigationFails ==
    /\ navigation = "pending"
    /\ navigation' = "failed"
    /\ UNCHANGED <<wizardVars, isSubmitting, test, save, url, context, firstLoad, selection,
                   authorization>>

ClickComplete(s) ==
    /\ CalendarsShown
    /\ ~isSubmitting
    /\ selection # {}
    /\ save[s].step = "unsent"
    /\ save' = [save EXCEPT ![s] = [step |-> "sent", of |-> "oauth", fresh |-> FALSE]]
    /\ isSubmitting' = TRUE
    /\ UNCHANGED <<wizardVars, test, oauthVars>>

-----------------------------------------------------------------------------
(* Both submissions *)

(* The API handles the request, or never sees it.  An authorization is spent *)
(* by the first request that names it, created or not (Onboarding!Send).     *)
HandleSave(s) ==
    /\ save[s].step = "sent"
    /\ \E step \in {"validated", "pending", "refused"}, reached \in BOOLEAN :
          /\ step # "refused" => reached /\ (save[s].of = "oauth" => authorization)
          /\ save' = [save EXCEPT ![s].step = step]
          /\ authorization' = (authorization /\ ~(reached /\ save[s].of = "oauth"))
    /\ UNCHANGED <<wizardVars, isSubmitting, test, url, navigation, context, firstLoad, selection>>

(* Variant of FailSave: the flag is only cleared after a creation. *)
FailSaveKeepingFlag(s) ==
    /\ save[s].step = "refused"
    /\ save' = [save EXCEPT ![s].step = "over"]
    /\ UNCHANGED <<wizardVars, isSubmitting, test, oauthVars>>

(* An error is shown; the form is as it was. *)
FailSave(s) ==
    /\ save[s].step = "refused"
    /\ save' = [save EXCEPT ![s].step = "over"]
    /\ isSubmitting' = FALSE
    /\ UNCHANGED <<wizardVars, test, oauthVars>>

(* loadContext after a creation, whose failure is shown and no more. *)
Reload(loaded) == context' = IF loaded THEN authorization ELSE context

(* closeHtmlWizard closes the wizard that is open by now. *)
FinishFeed(s) ==
    /\ save[s].of = "feed" /\ save[s].step \in {"validated", "pending"}
    /\ save' = [save EXCEPT ![s].step = "saved"]
    /\ isSubmitting' = FALSE
    /\ ResetWizard(FALSE)
    /\ \E loaded \in BOOLEAN :
          /\ Reload(loaded)
          /\ selection' = IF wizard \/ loaded
                           THEN DefaultSelection(FALSE, Offered(url, context'))
                           ELSE selection
    /\ UNCHANGED <<url, navigation, firstLoad, authorization>>

(* The connector is announced, unless there is an error to show, and the     *)
(* buttons are back.                                                         *)
Announce(s, loaded) ==
    /\ save[s].of = "oauth" /\ save[s].step \in {"validated", "pending"}
    /\ save' = [save EXCEPT ![s] =
          [step  |-> IF save[s].step = "validated" THEN "saved" ELSE "over",
           of    |-> "oauth",
           fresh |-> loaded /\ firstLoad # "there"]]
    /\ isSubmitting' = FALSE
    /\ Reload(loaded)

(* Variant of FinishOAuth: the page relies on the reloaded context. *)
FinishOAuthInPlace(s) ==
    /\ \E loaded \in BOOLEAN : Announce(s, loaded)
    /\ selection' = {}
    /\ UNCHANGED <<wizardVars, test, url, navigation, firstLoad, authorization>>

(* The query stays until the router has replaced it; after an error it       *)
(* stays for good, and without a new context the selection too.              *)
FinishOAuth(s) ==
    /\ \E loaded \in BOOLEAN : Announce(s, loaded)
    /\ IF save[s].step = "validated"
       THEN navigation' = "pending" /\ selection' = {}
       ELSE /\ UNCHANGED navigation
            /\ selection' = IF context' = context THEN selection
                            ELSE DefaultSelection(wizard, Offered(url, context'))
    /\ UNCHANGED <<wizardVars, test, url, firstLoad, authorization>>

-----------------------------------------------------------------------------
User ==
    \/ OpenWizard \/ CancelWizard \/ LeaveForm
    \/ \E f \in Forms \cup {Incomplete} : Edit(f)
    \/ \E t \in Tests : ClickTest(t)
    \/ \E s \in Saves : ClickSave(s) \/ ClickComplete(s)
    \/ \E c \in Calendars : ToggleCalendar(c)

EndSave(s) == FailSave(s) \/ FinishFeed(s) \/ FinishOAuth(s)

PageNext ==
    \/ User
    \/ ReadContext \/ LoadContext \/ Navigate \/ NavigationFails
    \/ \E t \in Tests : AnswerTest(t)
    \/ \E s \in Saves : HandleSave(s) \/ EndSave(s)

PageSpec == PageInit /\ [][PageNext]_pageVars

(* Every fetch of a browser settles in the end; users do what they like. *)
PageFairness ==
    /\ \A t \in Tests : WF_pageVars(AnswerTest(t))
    /\ \A s \in Saves : WF_pageVars(HandleSave(s)) /\ WF_pageVars(EndSave(s))

FairPageSpec == PageSpec /\ PageFairness

-----------------------------------------------------------------------------
(* Properties *)

(* However often the user cancels, retests and switches between the two      *)
(* forms, one POST /connectors is under way, and the buttons know it         *)
(* (isSubmitting, which the forms share, page.tsx:158, 819 and 1058).        *)
OneSubmission ==
    /\ isSubmitting <=> \E s \in Saves : save[s].step \in InFlight
    /\ \A r, s \in Saves : (save[r].step \in InFlight /\ save[s].step \in InFlight) => r = s

(* The buttons keep tests and submissions apart (page.tsx:1058, 1222 and     *)
(* 819): a test and a POST /connectors are under way together only if the    *)
(* test was left behind, by a wizard that was closed or opened anew, or was  *)
(* begun beside such a test, whose answer then takes its isTesting away      *)
(* (page.tsx:556).                                                           *)
TestOrSubmit ==
    \A t \in Tests, s \in Saves :
        (test[t].step = "sent" /\ save[s].step \in InFlight)
            => test[t].since = "left" \/ test[t].beside

(* A validation is of the form it is shown with, unless the form was changed *)
(* or left while it was tested (page.tsx:380-392 and 506-558).               *)
ResultMatchesForm ==
    (result # NoResult /\ ~result.late) => result.of = form

(* Once a connector made from an authorization is announced, the page offers *)
(* the authorization no more, except while the router has not left the query *)
(* and, at the same time, the context is an old one: it could not be loaded  *)
(* again, or the mount's own load was answered after that (page.tsx:469 and  *)
(* 483 against 265-278).                                                     *)
OfferedOnlyIfStale ==
    \A s \in Saves :
        (save[s].step = "saved" /\ save[s].of = "oauth" /\ Offered(url, context))
            => navigation # "none" /\ ~save[s].fresh

(* A click is answered, and the buttons come back. *)
ButtonsComeBack == (isTesting \/ isSubmitting) ~> (~isTesting /\ ~isSubmitting)

=============================================================================
