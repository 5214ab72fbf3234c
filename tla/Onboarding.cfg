CONSTANTS
    f1 = f1
    c1 = c1
    c2 = c2
    c3 = c3
    r1 = r1
    r2 = r2
    r3 = r3
    a1 = a1
    a2 = a2
    k1 = k1
    k2 = k2
    cal1 = cal1
    cal2 = cal2
    Flows = {f1}
    Callbacks = {c1, c2, c3}
    CallbackOf <- AllToFirstFlow
    Codes = {k1, k2}
    CodeOf <- TwoCodes
    Calendars = {cal1, cal2}
    CalendarsOf <- TwoAccounts
    Requests = {r1, r2, r3}
    FlowOf <- TwoAndAFeed
    Attempts = {a1}
    ProviderAnswers = {"success", "error"}
    AllowedFaults = {"db_error", "api_crash", "worker_crash"}
SYMMETRY OnboardingSymmetry
SPECIFICATION OnboardingSpec
CHECK_DEADLOCK FALSE
INVARIANTS
    OnboardingTypeOK
    OneConnectorPerAuthorization
    ConnectorNeedsConsent
    CalendarsOfOwnAccount
    CreatedMeansComplete
