CONSTANTS
    Forms = {"feed1", "feed2"}
    Incomplete = "incomplete"
    NoForm = "null"
    Tests = {"t1", "t2"}
    Saves = {"s1", "s2"}
    Calendars = {"c1"}
SPECIFICATION FairPageSpec
INVARIANTS
    PageTypeOK
    OneSubmission
    TestOrSubmit
    ResultMatchesForm
    OfferedOnlyIfStale
PROPERTY
    ButtonsComeBack
