CONSTANTS
    Instances = {"api", "second"}
    Api = "api"
    Emails = {"admin"}
    EmailOf <- SameEmail
    Tabs = {"t1", "t2"}
    Sessions = {"s1", "s2", "s3", "s4", "s5"}
    NoSession = "null"
    MaxEvents = 3
SPECIFICATION FairPortalSpec
CHECK_DEADLOCK FALSE
INVARIANTS
    PortalTypeOK
    ListeningHasAdmin
    AuditedOnce
    RefusedOnlyIfDisturbed
PROPERTY
    GetsIn
