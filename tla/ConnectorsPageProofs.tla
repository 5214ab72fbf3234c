------------------------ MODULE ConnectorsPageProofs ------------------------
(***************************************************************************)
(* Proofs about ConnectorsPage: for any forms, calendars and numbers of     *)
(* tests and submissions, whatever order the answers come in.               *)
(***************************************************************************)
EXTENDS ConnectorsPage, TLAPS

(* Only an open wizard shows a test under way. *)
TestingInWizard == isTesting => wizard

(* For the page, a test is under way or a submission, not both. *)
OneFlag == ~(isTesting /\ isSubmitting)

(* A test that the open wizard waits for is the only one, and the page knows *)
(* that it is under way.                                                     *)
Awaited(t) == test[t].step = "sent" /\ test[t].since # "left" /\ ~test[t].beside

TestsAwaited ==
    \A t \in Tests :
        Awaited(t) => isTesting /\ \A u \in Tests : test[u].step = "sent" => u = t

(* What is tested is in the wizard, unless it was edited or left. *)
TestsKnowForm ==
    \A t \in Tests :
        (test[t].step = "sent" /\ test[t].since = "same") => test[t].form = form

(* A creation that the API has answered with 201 has spent its               *)
(* authorization; once it is announced the router is on its way, or has      *)
(* failed, until the query is gone; and a context that was loaded again      *)
(* stays without the authorization.                                          *)
SpentByCreation ==
    \A s \in Saves :
        (save[s].of = "oauth" /\ save[s].step \in {"validated", "pending", "saved"})
            => ~authorization

Announced(s) == save[s].of = "oauth" /\ save[s].step = "saved"

LeavingWhenAnnounced == \A s \in Saves : (Announced(s) /\ url) => navigation # "none"

FreshWithout ==
    \A s \in Saves : (Announced(s) /\ save[s].fresh) => ~context /\ firstLoad # "there"

PageInv ==
    /\ PageTypeOK
    /\ OneSubmission
    /\ TestingInWizard
    /\ OneFlag
    /\ TestsAwaited
    /\ TestsKnowForm
    /\ ResultMatchesForm
    /\ SpentByCreation
    /\ LeavingWhenAnnounced
    /\ FreshWithout

LEMMA InitPageInv == PageInit => PageInv
<1> SUFFICES ASSUME PageInit PROVE PageInv
  OBVIOUS
<1>1. PageTypeOK
  BY DEF PageInit, PageTypeOK, NoResult, NoTest, NoSave, TestRecords, SaveRecords
<1>2. OneSubmission /\ TestingInWizard /\ OneFlag /\ TestsAwaited /\ TestsKnowForm
  BY DEF PageInit, OneSubmission, InFlight, TestingInWizard, OneFlag, TestsAwaited, Awaited,
         TestsKnowForm, NoTest, NoSave
<1>3. ResultMatchesForm
  BY DEF PageInit, ResultMatchesForm
<1>4. SpentByCreation /\ LeavingWhenAnnounced /\ FreshWithout
  BY DEF PageInit, SpentByCreation, LeavingWhenAnnounced, FreshWithout, Announced, NoSave
<1> QED
  BY <1>1, <1>2, <1>3, <1>4 DEF PageInv

-----------------------------------------------------------------------------
(* Types *)

LEMMA TypesLate ==
    ASSUME PageTypeOK, NEW why \in {"edited", "left"}, TestsAreLate(why)
    PROVE  test' \in [Tests -> TestRecords]
BY DEF PageTypeOK, TestsAreLate, TestRecords

LEMMA TypesReset ==
    ASSUME PageTypeOK, NEW open \in BOOLEAN, ResetWizard(open)
    PROVE  /\ wizard' \in BOOLEAN
           /\ form' \in Forms \cup {Incomplete}
           /\ result' \in [of : Forms \cup {NoForm}, late : BOOLEAN]
           /\ isTesting' \in BOOLEAN
           /\ test' \in [Tests -> TestRecords]
<1>1. test' \in [Tests -> TestRecords]
  BY TypesLate DEF ResetWizard
<1> QED  BY <1>1 DEF PageTypeOK, ResetWizard, NoResult

LEMMA NextTypes == PageTypeOK /\ [PageNext]_pageVars => PageTypeOK'
<1> SUFFICES ASSUME PageTypeOK, [PageNext]_pageVars PROVE PageTypeOK'
  OBVIOUS
<1>1. CASE OpenWizard
  BY <1>1, TypesReset DEF PageTypeOK, OpenWizard, oauthVars
<1>2. CASE CancelWizard
  BY <1>2, TypesReset DEF PageTypeOK, CancelWizard, DefaultSelection
<1>3. CASE LeaveForm
  BY <1>3 DEF PageTypeOK, LeaveForm, wizardVars
<1>4. ASSUME NEW f \in Forms \cup {Incomplete}, Edit(f) PROVE PageTypeOK'
  BY <1>4, TypesLate DEF PageTypeOK, Edit, NoResult, oauthVars
<1>5. ASSUME NEW t \in Tests, ClickTest(t) PROVE PageTypeOK'
  <2>1. test' \in [Tests -> TestRecords]
    BY <1>5 DEF PageTypeOK, ClickTest, SendTest, Complete, TestRecords
  <2> QED  BY <1>5, <2>1 DEF PageTypeOK, ClickTest, oauthVars
<1>6. ASSUME NEW s \in Saves, ClickSave(s) PROVE PageTypeOK'
  <2>1. save' \in [Saves -> SaveRecords]
    BY <1>6 DEF PageTypeOK, ClickSave, SaveRecords, InFlight
  <2> QED  BY <1>6, <2>1 DEF PageTypeOK, ClickSave, wizardVars, oauthVars
<1>7. ASSUME NEW s \in Saves, ClickComplete(s) PROVE PageTypeOK'
  <2>1. save' \in [Saves -> SaveRecords]
    BY <1>7 DEF PageTypeOK, ClickComplete, SaveRecords, InFlight
  <2> QED  BY <1>7, <2>1 DEF PageTypeOK, ClickComplete, wizardVars, oauthVars
<1>8. ASSUME NEW c \in Calendars, ToggleCalendar(c) PROVE PageTypeOK'
  BY <1>8 DEF PageTypeOK, ToggleCalendar, wizardVars
<1>9. CASE ReadContext
  BY <1>9 DEF PageTypeOK, ReadContext, wizardVars
<1>10. CASE LoadContext
  BY <1>10 DEF PageTypeOK, LoadContext, DefaultSelection, wizardVars
<1>11. ASSUME NEW t \in Tests, AnswerTest(t) PROVE PageTypeOK'
  <2>1. test' \in [Tests -> TestRecords]
    BY <1>11 DEF PageTypeOK, AnswerTest, NoTest, TestRecords
  <2>2. result' \in [of : Forms \cup {NoForm}, late : BOOLEAN]
    BY <1>11 DEF PageTypeOK, AnswerTest, NoResult, TestRecords
  <2> QED  BY <1>11, <2>1, <2>2 DEF PageTypeOK, AnswerTest, oauthVars
<1>12. ASSUME NEW s \in Saves, HandleSave(s) PROVE PageTypeOK'
  <2>1. save' \in [Saves -> SaveRecords]
    BY <1>12 DEF PageTypeOK, HandleSave, SaveRecords, InFlight
  <2> QED  BY <1>12, <2>1 DEF PageTypeOK, HandleSave, wizardVars
<1>13. ASSUME NEW s \in Saves, FailSave(s) PROVE PageTypeOK'
  <2>1. save' \in [Saves -> SaveRecords]
    BY <1>13 DEF PageTypeOK, FailSave, SaveRecords
  <2> QED  BY <1>13, <2>1 DEF PageTypeOK, FailSave, wizardVars, oauthVars
<1>14. ASSUME NEW s \in Saves, FinishFeed(s) PROVE PageTypeOK'
  <2>1. save' \in [Saves -> SaveRecords]
    BY <1>14 DEF PageTypeOK, FinishFeed, SaveRecords
  <2> QED  BY <1>14, <2>1, TypesReset DEF PageTypeOK, FinishFeed, Reload, DefaultSelection
<1>15. ASSUME NEW s \in Saves, FinishOAuth(s) PROVE PageTypeOK'
  <2>1. save' \in [Saves -> SaveRecords]
    BY <1>15 DEF PageTypeOK, FinishOAuth, Announce, SaveRecords
  <2>2. context' \in BOOLEAN /\ isSubmitting' \in BOOLEAN
    BY <1>15 DEF PageTypeOK, FinishOAuth, Announce, Reload
  <2>3. selection' \subseteq Calendars /\ navigation' \in {"none", "pending", "failed"}
    BY <1>15 DEF PageTypeOK, FinishOAuth, DefaultSelection
  <2> QED  BY <1>15, <2>1, <2>2, <2>3 DEF PageTypeOK, FinishOAuth, wizardVars
<1>16. CASE Navigate
  BY <1>16 DEF PageTypeOK, Navigate, DefaultSelection, wizardVars
<1>17. CASE NavigationFails
  BY <1>17 DEF PageTypeOK, NavigationFails, wizardVars
<1>18. CASE UNCHANGED pageVars
  BY <1>18 DEF PageTypeOK, pageVars, wizardVars, oauthVars
<1> QED
  BY <1>1, <1>2, <1>3, <1>4, <1>5, <1>6, <1>7, <1>8, <1>9, <1>10, <1>11, <1>12, <1>13, <1>14,
     <1>15, <1>16, <1>17, <1>18
  DEF PageNext, User, EndSave

-----------------------------------------------------------------------------
(* One conjunct after the other.  Most steps leave what it is about alone.   *)

LEMMA NextOneSubmission ==
    PageTypeOK /\ OneSubmission /\ [PageNext]_pageVars => OneSubmission'
<1> SUFFICES ASSUME PageTypeOK, OneSubmission, [PageNext]_pageVars PROVE OneSubmission'
  OBVIOUS
<1>1. CASE UNCHANGED <<isSubmitting, save>>
  BY <1>1 DEF OneSubmission
<1>2. ASSUME NEW s \in Saves, HandleSave(s) PROVE OneSubmission'
  <2>1. /\ save[s].step \in InFlight /\ save'[s].step \in InFlight
        /\ isSubmitting' = isSubmitting
        /\ \A r \in Saves \ {s} : save'[r] = save[r]
    BY <1>2 DEF HandleSave, PageTypeOK, SaveRecords, InFlight
  <2> QED  BY <2>1 DEF OneSubmission
<1>3. ASSUME NEW s \in Saves, EndSave(s) PROVE OneSubmission'
  <2>1. /\ save[s].step \in InFlight /\ save'[s].step \notin InFlight
        /\ isSubmitting' = FALSE
        /\ \A r \in Saves \ {s} : save'[r] = save[r]
    <3>1. CASE FailSave(s)
      BY <3>1 DEF FailSave, PageTypeOK, SaveRecords, InFlight
    <3>2. CASE FinishFeed(s)
      BY <3>2 DEF FinishFeed, PageTypeOK, SaveRecords, InFlight
    <3>3. CASE FinishOAuth(s)
      BY <3>3 DEF FinishOAuth, Announce, PageTypeOK, SaveRecords, InFlight
    <3> QED  BY <1>3, <3>1, <3>2, <3>3 DEF EndSave
  <2> QED  BY <2>1 DEF OneSubmission
<1>4. ASSUME NEW s \in Saves, ClickSave(s) \/ ClickComplete(s) PROVE OneSubmission'
  <2>1. /\ ~isSubmitting /\ isSubmitting' = TRUE
        /\ save'[s].step \in InFlight
        /\ \A r \in Saves \ {s} : save'[r] = save[r]
    BY <1>4 DEF ClickSave, ClickComplete, MaySave, PageTypeOK, InFlight
  <2>2. \A r \in Saves : save[r].step \notin InFlight
    BY <2>1 DEF OneSubmission
  <2> QED  BY <2>1, <2>2 DEF OneSubmission
<1> QED
  BY <1>1, <1>2, <1>3, <1>4
  DEF PageNext, User, OpenWizard, CancelWizard, LeaveForm, Edit, ClickTest, ToggleCalendar,
      ReadContext, LoadContext, Navigate, NavigationFails, AnswerTest, pageVars

LEMMA NextOneFlag ==
    OneSubmission /\ TestingInWizard /\ OneFlag /\ [PageNext]_pageVars
    => TestingInWizard' /\ OneFlag'
<1> SUFFICES ASSUME OneSubmission, TestingInWizard, OneFlag, [PageNext]_pageVars
             PROVE  TestingInWizard' /\ OneFlag'
  OBVIOUS
<1> USE DEF TestingInWizard, OneFlag
<1>1. CASE UNCHANGED <<wizard, isTesting, isSubmitting>>
  BY <1>1
<1>2. CASE isTesting' = FALSE
  BY <1>2
<1>3. ASSUME NEW t \in Tests, ClickTest(t) PROVE TestingInWizard' /\ OneFlag'
  BY <1>3 DEF ClickTest
<1>4. ASSUME NEW s \in Saves, ClickSave(s) \/ ClickComplete(s)
      PROVE  TestingInWizard' /\ OneFlag'
  BY <1>4 DEF ClickSave, MaySave, ClickComplete, CalendarsShown, wizardVars
<1>5. ASSUME NEW s \in Saves, FailSave(s) \/ FinishOAuth(s)
      PROVE  TestingInWizard' /\ OneFlag'
  BY <1>5 DEF FailSave, FinishOAuth, Announce, wizardVars
<1> QED
  BY <1>1, <1>2, <1>3, <1>4, <1>5
  DEF PageNext, User, EndSave, OpenWizard, CancelWizard, LeaveForm, Edit, ToggleCalendar,
      ReadContext, LoadContext, Navigate, NavigationFails, AnswerTest, HandleSave, FinishFeed, ResetWizard, pageVars,
      wizardVars

LEMMA NextTestsAwaited ==
    PageTypeOK /\ TestsAwaited /\ [PageNext]_pageVars => TestsAwaited'
<1> SUFFICES ASSUME PageTypeOK, TestsAwaited, [PageNext]_pageVars PROVE TestsAwaited'
  OBVIOUS
<1> USE DEF TestsAwaited, Awaited
<1>1. CASE UNCHANGED <<test, isTesting>>
  BY <1>1
<1>2. ASSUME NEW open \in BOOLEAN, ResetWizard(open) PROVE TestsAwaited'
  BY <1>2 DEF ResetWizard, TestsAreLate, PageTypeOK, TestRecords
<1>3. ASSUME NEW f \in Forms \cup {Incomplete}, Edit(f) PROVE TestsAwaited'
  <2>1. \A t \in Tests : /\ test'[t].step = test[t].step
                         /\ test'[t].beside = test[t].beside
                         /\ (test[t].since = "left" /\ test[t].step = "sent") => test'[t].since = "left"
    BY <1>3 DEF Edit, TestsAreLate, PageTypeOK, TestRecords
  <2> QED  BY <1>3, <2>1 DEF Edit
<1>4. ASSUME NEW t \in Tests, ClickTest(t) PROVE TestsAwaited'
  <2>1. /\ ~isTesting /\ isTesting'
        /\ test'[t].beside = (\E u \in Tests : test[u].step = "sent")
        /\ \A u \in Tests \ {t} : test'[u] = test[u]
    BY <1>4 DEF ClickTest, SendTest, PageTypeOK
  <2>2. \A u \in Tests : ~Awaited(u)
    BY <2>1
  <2> QED  BY <2>1, <2>2
<1>5. ASSUME NEW t \in Tests, AnswerTest(t) PROVE TestsAwaited'
  <2>1. /\ test[t].step = "sent" /\ test'[t].step = "over"
        /\ \A u \in Tests \ {t} : test'[u] = test[u]
    BY <1>5 DEF AnswerTest, NoTest, PageTypeOK
  <2> QED  BY <2>1
<1> QED
  BY <1>1, <1>2, <1>3, <1>4, <1>5
  DEF PageNext, User, EndSave, OpenWizard, CancelWizard, LeaveForm, ClickSave, ClickComplete,
      ToggleCalendar, ReadContext, LoadContext, Navigate, NavigationFails, HandleSave, FailSave,
      FinishFeed, FinishOAuth, pageVars, wizardVars

LEMMA NextResultMatches ==
    PageTypeOK /\ TestsKnowForm /\ ResultMatchesForm /\ [PageNext]_pageVars
    => TestsKnowForm' /\ ResultMatchesForm'
<1> SUFFICES ASSUME PageTypeOK, TestsKnowForm, ResultMatchesForm, [PageNext]_pageVars
             PROVE  TestsKnowForm' /\ ResultMatchesForm'
  OBVIOUS
<1>1. CASE UNCHANGED <<form, result, test>>
  BY <1>1 DEF TestsKnowForm, ResultMatchesForm
<1>2. ASSUME NEW why \in {"edited", "left"}, TestsAreLate(why), result' = NoResult
      PROVE  TestsKnowForm' /\ ResultMatchesForm'
  BY <1>2 DEF TestsAreLate, TestsKnowForm, ResultMatchesForm, PageTypeOK, TestRecords
<1>3. ASSUME NEW t \in Tests, ClickTest(t) PROVE TestsKnowForm' /\ ResultMatchesForm'
  BY <1>3 DEF ClickTest, SendTest, TestsKnowForm, ResultMatchesForm, PageTypeOK
<1>4. ASSUME NEW t \in Tests, AnswerTest(t) PROVE TestsKnowForm' /\ ResultMatchesForm'
  <2>1. TestsKnowForm'
    BY <1>4 DEF AnswerTest, TestsKnowForm, NoTest, PageTypeOK
  <2>2. ResultMatchesForm'
    BY <1>4 DEF AnswerTest, TestsKnowForm, ResultMatchesForm, NoResult, PageTypeOK
  <2> QED  BY <2>1, <2>2
<1> QED
  BY <1>1, <1>2, <1>3, <1>4
  DEF PageNext, User, EndSave, OpenWizard, CancelWizard, LeaveForm, Edit, ClickSave,
      ClickComplete, ToggleCalendar, ReadContext, LoadContext, Navigate, NavigationFails, HandleSave, FailSave, FinishFeed,
      FinishOAuth, ResetWizard, pageVars, wizardVars

(* What an OAuth connector leaves behind. *)
Spent == SpentByCreation /\ LeavingWhenAnnounced /\ FreshWithout

LEMMA NextSpent == PageTypeOK /\ Spent /\ [PageNext]_pageVars => Spent'
<1> SUFFICES ASSUME PageTypeOK, Spent, [PageNext]_pageVars PROVE Spent'
  OBVIOUS
<1> USE DEF Spent, SpentByCreation, LeavingWhenAnnounced, FreshWithout, Announced
<1>1. CASE UNCHANGED <<save, oauthVars>>
  BY <1>1 DEF oauthVars
<1>2. CASE LeaveForm \/ Navigate \/ NavigationFails
  <2>1. /\ UNCHANGED <<save, context, firstLoad, authorization>>
        /\ navigation' # "none" \/ ~url'
    BY <1>2 DEF LeaveForm, Navigate, NavigationFails
  <2> QED  BY <2>1
<1>3. CASE ReadContext
  BY <1>3 DEF ReadContext
<1>4. CASE LoadContext
  <2>1. UNCHANGED <<save, url, navigation, authorization>> /\ firstLoad' = "over"
    BY <1>4 DEF LoadContext
  <2>2. CASE context' = (firstLoad = "there")
    BY <2>1, <2>2
  <2>3. CASE context' = context
    BY <2>1, <2>3
  <2> QED  BY <1>4, <2>2, <2>3 DEF LoadContext
<1>5. CASE CancelWizard \/ \E c \in Calendars : ToggleCalendar(c)
  <2>1. UNCHANGED <<save, url, navigation, context, firstLoad, authorization>>
    BY <1>5 DEF CancelWizard, ToggleCalendar
  <2> QED  BY <2>1
<1>6. ASSUME NEW s \in Saves, ClickSave(s) \/ ClickComplete(s) PROVE Spent'
  <2>1. /\ UNCHANGED oauthVars /\ save'[s].step = "sent"
        /\ \A r \in Saves \ {s} : save'[r] = save[r]
    BY <1>6 DEF ClickSave, ClickComplete, PageTypeOK
  <2> QED  BY <2>1 DEF oauthVars
<1>7. ASSUME NEW s \in Saves, HandleSave(s) PROVE Spent'
  <2>1. /\ save'[s].of = save[s].of /\ save'[s].step # "saved"
        /\ (save[s].of = "oauth" /\ save'[s].step \in {"validated", "pending"}) => ~authorization'
        /\ authorization' => authorization
        /\ \A r \in Saves \ {s} : save'[r] = save[r]
        /\ UNCHANGED <<url, navigation, context, firstLoad>>
    BY <1>7 DEF HandleSave, PageTypeOK, SaveRecords
  <2> QED  BY <2>1
<1>8. ASSUME NEW s \in Saves, FailSave(s) PROVE Spent'
  <2>1. /\ UNCHANGED oauthVars /\ save'[s].step = "over"
        /\ \A r \in Saves \ {s} : save'[r] = save[r]
    BY <1>8 DEF FailSave, PageTypeOK, SaveRecords
  <2> QED  BY <2>1 DEF oauthVars
<1>9. ASSUME NEW s \in Saves, FinishFeed(s) PROVE Spent'
  <2>1. /\ save'[s].of = "feed" /\ context' \in {context, authorization}
        /\ \A r \in Saves \ {s} : save'[r] = save[r]
        /\ UNCHANGED <<url, navigation, firstLoad, authorization>>
    BY <1>9 DEF FinishFeed, Reload, PageTypeOK, SaveRecords
  <2> QED  BY <2>1
<1>10. ASSUME NEW s \in Saves, FinishOAuth(s) PROVE Spent'
  <2>1. PICK loaded \in BOOLEAN : Announce(s, loaded)
    BY <1>10 DEF FinishOAuth
  <2>2. ~authorization /\ ~authorization'
    BY <1>10, <2>1 DEF Announce, FinishOAuth
  <2>3. /\ save'[s].of = save[s].of
        /\ save'[s].step = "saved" => save[s].step = "validated"
        /\ save'[s].fresh => loaded /\ firstLoad # "there"
        /\ \A r \in Saves \ {s} : save'[r] = save[r]
    BY <2>1 DEF Announce, PageTypeOK, SaveRecords
  <2>4. context' = IF loaded THEN FALSE ELSE context
    BY <2>1, <2>2 DEF Announce, Reload, PageTypeOK
  <2>5. /\ UNCHANGED <<url, firstLoad>>
        /\ navigation' \in {navigation, "pending"}
        /\ save[s].step = "validated" => navigation' = "pending"
    BY <1>10 DEF FinishOAuth
  <2>6. LeavingWhenAnnounced'
    BY <2>3, <2>5
  <2>7. FreshWithout'
    BY <2>3, <2>4, <2>5
  <2> QED  BY <2>2, <2>6, <2>7
<1> QED
  BY <1>1, <1>2, <1>3, <1>4, <1>5, <1>6, <1>7, <1>8, <1>9, <1>10
  DEF PageNext, User, EndSave, OpenWizard, Edit, ClickTest, AnswerTest, pageVars

-----------------------------------------------------------------------------
LEMMA PageInvariant == PageSpec => []PageInv
<1>1. PageInv /\ [PageNext]_pageVars => PageInv'
  BY NextTypes, NextOneSubmission, NextOneFlag, NextTestsAwaited, NextResultMatches, NextSpent
  DEF PageInv, Spent
<1> QED
  BY <1>1, InitPageInv, PTL DEF PageSpec

(* One POST /connectors at a time, and the buttons know it.                  *)
THEOREM OneSubmissionCorrect == PageSpec => []OneSubmission
<1>1. PageInv => OneSubmission
  BY DEF PageInv
<1> QED
  BY <1>1, PageInvariant, PTL

(* A test and a submission are under way together only if the test was left, *)
(* or was begun beside another.                                              *)
THEOREM TestOrSubmitCorrect == PageSpec => []TestOrSubmit
<1>1. PageInv => TestOrSubmit
  BY DEF PageInv, TestOrSubmit, OneSubmission, OneFlag, TestsAwaited, Awaited
<1> QED
  BY <1>1, PageInvariant, PTL

(* A validation that is shown is of the form, unless the form was changed    *)
(* while it was tested.                                                      *)
THEOREM ResultsCorrect == PageSpec => []ResultMatchesForm
<1>1. PageInv => ResultMatchesForm
  BY DEF PageInv
<1> QED
  BY <1>1, PageInvariant, PTL

(* After its connector has been announced, an authorization is only offered  *)
(* while the router has not left the query and the context is an old one.    *)
THEOREM SpentOfferedOnlyIfStale == PageSpec => []OfferedOnlyIfStale
<1>1. PageInv => OfferedOnlyIfStale
  BY DEF PageInv, LeavingWhenAnnounced, FreshWithout, Announced, OfferedOnlyIfStale, Offered
<1> QED
  BY <1>1, PageInvariant, PTL

(* What the page shows and what is under way stay in their types. *)
THEOREM PageTypes == PageSpec => []PageTypeOK
<1>1. PageInv => PageTypeOK
  BY DEF PageInv
<1> QED
  BY <1>1, PageInvariant, PTL

=============================================================================
