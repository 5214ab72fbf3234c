CONSTANTS
    v1 = v1
    v2 = v2
    v3 = v3
    v4 = v4
    a1 = a1
    a2 = a2
    a3 = a3
    Attempts = {a1, a2, a3}
    Versions = {v1, v2, v3, v4}
    KindOf <- KindsOfContent
    HeadersOf <- EverySetOfHeaders
SYMMETRY AttemptSymmetry
SPECIFICATION FeedSpec
INVARIANTS
    FeedTypeOK
    ValidatorsHaveFetchTime
    ErrorsAreRecent
PROPERTIES
    SuccessShowsFeed
    FetchTimeKeptUnlessOvertaken
