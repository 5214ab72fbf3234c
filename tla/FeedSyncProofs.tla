--------------------------- MODULE FeedSyncProofs ---------------------------
(***************************************************************************)
(* Proofs about FeedSync, for any number of attempts and contents.  The     *)
(* inductive invariant says of every document, stored or in hand, that the  *)
(* validator that decides about a 304 belongs to its preview if the preview *)
(* came with one, that validators come with a fetch time, that no fetch     *)
(* time lies in the future, and how errors and fetch times relate.          *)
(***************************************************************************)
EXTENDS FeedSync, TLAPS

CameWith(doc, h) == doc.preview \in Versions /\ h \in HeadersOf[doc.preview]

Coherent(doc) ==
    /\ doc.cache # NoCache => doc.fetchedAt # NoTime /\ doc.preview \in Versions
    /\ CameWith(doc, "etag") => doc.cache["etag"] = doc.preview
    /\ doc.cache["etag"] = NoVersion /\ CameWith(doc, "lastModified")
          => doc.cache["lastModified"] = doc.preview

Sound(doc) == Coherent(doc) /\ doc.fetchedAt <= clock

ErrorRecent(doc) == doc.issues = "error" => doc.validatedAt >= doc.fetchedAt

AttemptSound(a) ==
    /\ Sound(attempt[a].next)
    /\ attempt[a].read.fetchedAt <= attempt[a].next.fetchedAt
    /\ ErrorRecent(attempt[a].next)
    /\ attempt[a].step = "loaded" => attempt[a].next.validatedAt >= attempt[a].next.fetchedAt

FeedInv ==
    /\ FeedTypeOK
    /\ Sound(row) /\ ErrorRecent(row)
    /\ Sound(tested) /\ ErrorRecent(tested)
    /\ \A a \in Attempts : AttemptSound(a)

-----------------------------------------------------------------------------
(* A 304 confirms the preview, unless the preview came without the header    *)
(* that the request was decided by.                                          *)
LEMMA CurrentShowsFeed ==
    ASSUME FeedTypeOK, NEW doc \in Document, Coherent(doc), Current(doc.cache)
    PROVE  /\ doc.fetchedAt # NoTime
           /\ doc.preview \in Versions
           /\ doc.preview = feed \/ Asked(doc.cache) \notin HeadersOf[doc.preview]
<1>1. feed \in Versions /\ feed # NoVersion
  BY FeedAssumption DEF FeedTypeOK
<1>2. Asked(doc.cache) \in Headers /\ doc.cache[Asked(doc.cache)] = feed
  BY DEF Current, Asked, Headers
<1>3. doc.cache # NoCache
  BY <1>1, <1>2 DEF NoCache
<1>4. doc.cache["etag"] = NoVersion => Asked(doc.cache) = "lastModified"
  BY DEF Asked
<1>5. doc.cache["etag"] # NoVersion => Asked(doc.cache) = "etag"
  BY DEF Asked
<1> QED
  BY <1>2, <1>3, <1>4, <1>5 DEF Coherent, CameWith

(* The validators of an answer are validators, and keep the ones of the     *)
(* request where the content has none.                                      *)
LEMMA MetadataSound ==
    ASSUME FeedTypeOK, NEW doc \in Document
    PROVE  /\ CacheMetadata(doc.cache) \in [Headers -> Versions \cup {NoVersion}]
           /\ \A h \in Headers : CacheMetadata(doc.cache)[h]
                  = IF h \in HeadersOf[feed] THEN feed ELSE doc.cache[h]
BY DEF CacheMetadata, FeedTypeOK, Document

(* What validateHtmlIcsFeed may return, one case after the other. *)
LEMMA ResultCases ==
    ASSUME NEW doc, NEW res \in Results(doc)
    PROVE  \/ res = Failed(doc)
           \/ res = ReadWell(doc, CacheMetadata(doc.cache))
           \/ Current(doc.cache) /\ res = NotModified(doc, CacheMetadata(doc.cache))
<1> PICK answer \in FetchFeed(doc.cache) : res = ValidateFeed(doc, answer)
  BY DEF Results
<1>1. CASE answer = [kind |-> "body", cache |-> CacheMetadata(doc.cache)]
  BY <1>1 DEF ValidateFeed
<1>2. CASE answer = [kind |-> "error", cache |-> NoCache]
  BY <1>2 DEF ValidateFeed
<1>3. CASE /\ Current(doc.cache)
           /\ answer = [kind |-> "notModified", cache |-> CacheMetadata(doc.cache)]
  BY <1>3 DEF ValidateFeed
<1> QED
  BY <1>1, <1>2, <1>3 DEF FetchFeed

(* A document stays well typed and coherent through whatever the feed       *)
(* answers, and its fetch time only moves forward.                          *)
LEMMA ResultsSound ==
    ASSUME NEW doc \in Document, FeedTypeOK, Sound(doc), NEW res \in Results(doc)
    PROVE  /\ res \in Document
           /\ Coherent(res)
           /\ doc.fetchedAt <= res.fetchedAt
           /\ res.fetchedAt <= clock + 1
           /\ ~Refused(res)
           /\ doc.validatedAt >= doc.fetchedAt => ErrorRecent(res)
           /\ res.status = "ok" => \/ res.preview = feed
                                  \/ /\ Current(doc.cache)
                                     /\ res.preview \in Versions
                                     /\ Asked(doc.cache) \notin HeadersOf[res.preview]
<1> DEFINE kept == CacheMetadata(doc.cache)
<1>0. /\ kept \in [Headers -> Versions \cup {NoVersion}]
      /\ \A h \in Headers : kept[h] = IF h \in HeadersOf[feed] THEN feed ELSE doc.cache[h]
      /\ feed \in Versions /\ feed # NoVersion /\ clock \in Nat
      /\ doc.fetchedAt \in Nat /\ doc.validatedAt \in Nat
      /\ "etag" \in Headers /\ "lastModified" \in Headers /\ NoVersion \notin Versions
  BY MetadataSound, FeedAssumption DEF FeedTypeOK, Headers, Document
<1> HIDE DEF kept
<1>1. CASE res = Failed(doc)
  <2>1. /\ res \in Document
        /\ res.status = "failed" /\ res.preview = doc.preview
        /\ res.fetchedAt = doc.fetchedAt /\ res.cache = doc.cache
        /\ res.validatedAt = doc.validatedAt
    BY <1>1 DEF Failed, Document
  <2> QED
    BY <1>0, <2>1 DEF Sound, Coherent, CameWith, Refused, ErrorRecent
<1>2. CASE res = ReadWell(doc, kept)
  <2>1. PreviewIssues(doc) \in {"none", "warning"}
    BY DEF PreviewIssues
  <2>2. /\ res.status = "ok" /\ res.preview = feed /\ res.fetchedAt = clock + 1
        /\ res.issues # "error" /\ res.cache = kept /\ res.validatedAt = doc.validatedAt
    BY <1>2, <2>1 DEF ReadWell, Document
  <2>3. res \in Document
    <3>1. res = [status |-> "ok", preview |-> feed, fetchedAt |-> clock + 1,
                 validatedAt |-> doc.validatedAt, issues |-> PreviewIssues(doc), cache |-> kept]
      BY <1>2 DEF ReadWell, Document
    <3>2. clock + 1 \in Nat
      BY <1>0
    <3> QED
      BY <1>0, <2>1, <3>1, <3>2 DEF Document
  <2>4. Coherent(res)
    BY <1>0, <2>2 DEF Coherent, CameWith, NoTime
  <2> QED
    BY <1>0, <2>2, <2>3, <2>4 DEF Sound, Refused, ErrorRecent, NoTime
<1>3. CASE Current(doc.cache) /\ res = NotModified(doc, kept)
  <2>1. /\ doc.fetchedAt # NoTime
        /\ doc.preview \in Versions
        /\ doc.preview = feed \/ Asked(doc.cache) \notin HeadersOf[doc.preview]
    BY <1>3, CurrentShowsFeed DEF Sound
  <2>2. /\ res.status = "ok" /\ res.preview = doc.preview /\ res.fetchedAt = doc.fetchedAt
        /\ res.issues = doc.issues /\ res.cache = kept /\ res.validatedAt = doc.validatedAt
    BY <1>3 DEF NotModified, Document
  <2>3. res \in Document
    BY <1>0, <1>3 DEF NotModified, Document
  <2>4. Coherent(res)
    <3>1. CASE doc.preview = feed
      BY <1>0, <2>1, <2>2, <3>1 DEF Coherent, CameWith, Sound
    <3>2. CASE doc.cache["etag"] # NoVersion /\ "etag" \notin HeadersOf[doc.preview]
      BY <1>0, <2>1, <2>2, <3>2 DEF Coherent, CameWith, Sound
    <3>3. CASE doc.cache["etag"] = NoVersion /\ "lastModified" \notin HeadersOf[doc.preview]
      BY <1>0, <2>1, <2>2, <3>3 DEF Coherent, CameWith, Sound
    <3> QED
      BY <2>1, <3>1, <3>2, <3>3 DEF Asked
  <2> QED
    BY <1>0, <1>3, <2>1, <2>2, <2>3, <2>4 DEF Sound, Refused, ErrorRecent
<1> QED
  BY <1>1, <1>2, <1>3, ResultCases DEF kept

-----------------------------------------------------------------------------
LEMMA FeedInitInv == FeedInit => FeedInv
BY FeedAssumption
   DEF FeedInit, FeedInv, FeedTypeOK, AttemptSteps, Document, Blank, NoCache, NoTime, Sound,
       Coherent, CameWith, ErrorRecent, AttemptSound

(* What is not touched stays sound when the clock does not go back. *)
LEMMA SoundLater ==
    ASSUME NEW doc \in Document, Sound(doc), FeedTypeOK, clock' \in {clock, clock + 1}
    PROVE  Sound(doc)'
BY DEF Sound, Coherent, CameWith, ErrorRecent, FeedTypeOK, Document

LEMMA BlankSound == FeedInv => Blank \in Document /\ Sound(Blank) /\ clock \in Nat
BY FeedAssumption
   DEF FeedInv, FeedTypeOK, Blank, NoCache, Document, Sound, Coherent, CameWith, NoTime

LEMMA FeedStepInv == FeedInv /\ [FeedNext]_feedVars => FeedInv'
<1> SUFFICES ASSUME FeedInv, [FeedNext]_feedVars PROVE FeedInv'
  OBVIOUS
<1> USE FeedAssumption
<1>0. /\ FeedTypeOK
      /\ Sound(row) /\ Sound(tested)
      /\ ErrorRecent(row) /\ ErrorRecent(tested)
      /\ \A a \in Attempts : AttemptSound(a)
      /\ row \in Document /\ tested \in Document /\ clock \in Nat
  BY DEF FeedInv, FeedTypeOK
<1>1. ASSUME NEW v \in Versions, Publish(v) PROVE FeedInv'
  BY <1>0, <1>1
     DEF Publish, FeedInv, FeedTypeOK, Sound, Coherent, CameWith, ErrorRecent, AttemptSound
<1>2. CASE TestFeed
  <2> PICK doc \in Results(Blank) :
        tested' = [doc EXCEPT !.validatedAt = IF doc.status = "ok" THEN clock ELSE NoTime]
    BY <1>2 DEF TestFeed
  <2>1. doc \in Document /\ Coherent(doc) /\ doc.fetchedAt <= clock + 1
    BY <1>0, BlankSound, ResultsSound
  <2>2. tested' \in Document /\ Sound(tested)'
    <3> DEFINE at == IF doc.status = "ok" THEN clock ELSE NoTime
    <3>1. at \in Nat /\ tested' = [doc EXCEPT !.validatedAt = at]
      BY <1>0 DEF NoTime
    <3> HIDE DEF at
    <3>2. /\ tested' \in Document
          /\ tested'.cache = doc.cache /\ tested'.preview = doc.preview
          /\ tested'.fetchedAt = doc.fetchedAt
      BY <2>1, <3>1 DEF Document
    <3> QED
      BY <1>2, <2>1, <3>2 DEF TestFeed, Sound, Coherent, CameWith, ErrorRecent
  <2>3. Sound(row)' /\ \A a \in Attempts : AttemptSound(a)'
    BY <1>0, <1>2, SoundLater
       DEF TestFeed, AttemptSound, Sound, Coherent, CameWith, ErrorRecent, FeedTypeOK,
           Document
  <2>4. FeedTypeOK'
    BY <1>0, <1>2, <2>2 DEF TestFeed, FeedTypeOK
  <2>5. ErrorRecent(tested)' /\ ErrorRecent(row)'
    <3>1. ErrorRecent(doc) /\ (doc.status = "ok" => doc.issues # "error")
      <4>1. Blank.validatedAt >= Blank.fetchedAt /\ Blank \in Document /\ Sound(Blank)
        BY BlankSound DEF Blank, NoTime
      <4>2. ErrorRecent(doc)
        BY <1>0, <4>1, ResultsSound
      <4>3. ~Current(Blank.cache)
        BY <1>0 DEF Current, Asked, Blank, NoCache, Headers, FeedTypeOK
      <4>4. doc = Failed(Blank) \/ doc = ReadWell(Blank, CacheMetadata(Blank.cache))
        BY <4>3, ResultCases
      <4>5. PreviewIssues(Blank) # "error"
        BY DEF PreviewIssues, Blank
      <4>6. Failed(Blank).status = "failed"
        BY DEF Failed, Blank
      <4>7. ReadWell(Blank, CacheMetadata(Blank.cache)).issues = PreviewIssues(Blank)
        BY DEF ReadWell, Blank
      <4>8. doc.status = "ok" => doc.issues # "error"
        BY <4>4, <4>5, <4>6, <4>7
      <4> QED
        BY <4>2, <4>8
    <3>2. doc.status # "ok" => doc.fetchedAt = NoTime
      <4>0. /\ ReadWell(Blank, CacheMetadata(Blank.cache)).status = "ok"
            /\ NotModified(Blank, CacheMetadata(Blank.cache)).status = "ok"
        BY DEF ReadWell, NotModified, Blank
      <4>1. doc = Failed(Blank) \/ doc.status = "ok"
        BY <4>0, ResultCases
      <4> QED
        BY <4>1 DEF Failed, Blank
    <3>3. /\ tested'.issues = doc.issues /\ tested'.fetchedAt = doc.fetchedAt
          /\ doc.status # "ok" => tested'.validatedAt = NoTime
      BY <2>1 DEF Document
    <3> QED
      BY <1>0, <1>2, <3>1, <3>2, <3>3 DEF ErrorRecent, TestFeed, NoTime
  <2> QED
    BY <2>2, <2>3, <2>4, <2>5 DEF FeedInv
<1>3. CASE InsertConnector
  BY <1>0, <1>3
     DEF InsertConnector, FeedInv, FeedTypeOK, Sound, Coherent, CameWith, ErrorRecent,
         AttemptSound
<1>4. ASSUME NEW a \in Attempts, Load(a) PROVE FeedInv'
  <2> DEFINE hand == [row EXCEPT !.validatedAt = clock]
  <2>1. /\ hand \in Document
        /\ hand.cache = row.cache /\ hand.preview = row.preview
        /\ hand.fetchedAt = row.fetchedAt /\ hand.validatedAt = clock
        /\ row.fetchedAt \in Nat /\ row.fetchedAt <= clock
    BY <1>0 DEF Document, Sound
  <2> HIDE DEF hand
  <2>2. /\ attempt' = [attempt EXCEPT ![a] = [step |-> "loaded", read |-> row, next |-> hand]]
        /\ UNCHANGED <<feed, clock, creation, tested, row>>
    BY <1>4 DEF Load, hand
  <2>3. FeedTypeOK'
    BY <1>0, <2>1, <2>2 DEF FeedTypeOK, AttemptSteps
  <2>4. ASSUME NEW b \in Attempts PROVE AttemptSound(b)'
    BY <1>0, <2>1, <2>2
       DEF FeedTypeOK, AttemptSound, Sound, Coherent, CameWith, ErrorRecent, Document
  <2> QED
    BY <1>0, <2>2, <2>3, <2>4 DEF FeedInv, Sound, Coherent, CameWith, ErrorRecent
<1>5. ASSUME NEW a \in Attempts, Fetch(a) PROVE FeedInv'
  <2> DEFINE t == attempt[a]
  <2>1. t.next \in Document /\ t.read \in Document /\ Sound(t.next)
        /\ t.read.fetchedAt <= t.next.fetchedAt
        /\ t.next.validatedAt >= t.next.fetchedAt
    BY <1>0, <1>5 DEF FeedTypeOK, AttemptSound, Fetch
  <2> PICK doc \in Results(t.next) :
        attempt' = [attempt EXCEPT ![a].step = IF Refused(doc) THEN "thrown" ELSE "fetched",
                                   ![a].next = doc]
    BY <1>5 DEF Fetch
  <2>2. doc \in Document /\ Coherent(doc) /\ doc.fetchedAt <= clock + 1
        /\ t.next.fetchedAt <= doc.fetchedAt /\ ErrorRecent(doc)
    BY <1>0, <2>1, ResultsSound
  <2>3. /\ attempt' = [attempt EXCEPT ![a] = attempt'[a]]
        /\ attempt'[a].step \in {"thrown", "fetched"}
        /\ attempt'[a].read = t.read /\ attempt'[a].next = doc
        /\ attempt'[a] \in [step : AttemptSteps, read : Document, next : Document]
    BY <1>0, <2>1, <2>2 DEF FeedTypeOK, AttemptSteps
  <2>4. FeedTypeOK'
    BY <1>0, <1>5, <2>3 DEF FeedTypeOK, Fetch
  <2>5. ASSUME NEW b \in Attempts PROVE AttemptSound(b)'
    <3>1. CASE b = a
      BY <1>0, <1>5, <2>1, <2>2, <2>3, <3>1
         DEF AttemptSound, Sound, Coherent, CameWith, ErrorRecent, Fetch, Document
    <3>2. CASE b # a
      <4>1. attempt'[b] = attempt[b] /\ attempt[b].next \in Document
        BY <1>0, <2>3, <3>2 DEF FeedTypeOK
      <4>2. clock' = clock + 1 /\ AttemptSound(b)
        BY <1>0, <1>5 DEF Fetch
      <4>3. attempt[b].next.fetchedAt \in Nat /\ attempt[b].next.fetchedAt <= clock'
        BY <1>0, <4>1, <4>2 DEF AttemptSound, Sound, Document
      <4> QED
        BY <4>1, <4>2, <4>3 DEF AttemptSound, Sound, Coherent, CameWith, ErrorRecent
    <3> QED
      BY <3>1, <3>2
  <2>6. Sound(row)' /\ Sound(tested)' /\ ErrorRecent(row)' /\ ErrorRecent(tested)'
    BY <1>0, <1>5 DEF Fetch, Sound, Coherent, CameWith, ErrorRecent, Document
  <2> QED
    BY <2>4, <2>5, <2>6 DEF FeedInv
<1>6. ASSUME NEW a \in Attempts, Write(a) PROVE FeedInv'
  <2>1. FeedTypeOK'
    BY <1>0, <1>6 DEF Write, FeedTypeOK, AttemptSteps
  <2>2. \A b \in Attempts : AttemptSound(b)'
    BY <1>0, <1>6
       DEF Write, FeedTypeOK, Sound, Coherent, CameWith, ErrorRecent, AttemptSound
  <2>3. Sound(row)' /\ Sound(tested)' /\ ErrorRecent(row)' /\ ErrorRecent(tested)'
    BY <1>0, <1>6 DEF Write, Sound, Coherent, CameWith, ErrorRecent, AttemptSound
  <2> QED
    BY <2>1, <2>2, <2>3 DEF FeedInv
<1>7. ASSUME NEW a \in Attempts, Abandon(a) PROVE FeedInv'
  BY <1>0, <1>7
     DEF Abandon, FeedInv, FeedTypeOK, AttemptSteps, Sound, Coherent, CameWith, ErrorRecent,
         AttemptSound
<1>8. CASE UNCHANGED feedVars
  BY <1>0, <1>8
     DEF feedVars, FeedInv, FeedTypeOK, Sound, Coherent, CameWith, ErrorRecent, AttemptSound
<1> QED
  BY <1>1, <1>2, <1>3, <1>4, <1>5, <1>6, <1>7, <1>8 DEF FeedNext

LEMMA FeedInvariance == FeedSpec => []FeedInv
BY FeedInitInv, FeedStepInv, PTL DEF FeedSpec

-----------------------------------------------------------------------------
(* The conditional requests of the adapter and the executor never meet a    *)
(* connector without a fetch time, whatever the feed and the workers do.     *)
THEOREM ConditionalFetchSafe == FeedSpec => []ValidatorsHaveFetchTime
<1>1. FeedInv => ValidatorsHaveFetchTime
  BY ResultsSound
     DEF FeedInv, ValidatorsHaveFetchTime, AttemptSound, Sound, Coherent, FeedTypeOK
<1> QED
  BY <1>1, FeedInvariance, PTL

(* An error that is listed is not older than what it is listed beside. *)
THEOREM ErrorsRecent == FeedSpec => []ErrorsAreRecent
<1>1. FeedInv => ErrorsAreRecent
  BY DEF FeedInv, ErrorRecent, ErrorsAreRecent
<1> QED
  BY <1>1, FeedInvariance, PTL

(* A successful fetch is of what the feed serves, or it is a 304 to a       *)
(* request that was decided by a header which the preview came without.     *)
LEMMA SuccessCases ==
    ASSUME FeedInv, [FeedNext]_feedVars, NEW a \in Attempts,
           attempt[a].step = "loaded", attempt'[a].step = "fetched",
           attempt'[a].next.status = "ok"
    PROVE  \/ attempt'[a].next.preview = feed
           \/ /\ Current(attempt[a].next.cache)
              /\ attempt'[a].next.preview \in Versions
              /\ Asked(attempt[a].next.cache) \notin HeadersOf[attempt'[a].next.preview]
<1>0. FeedTypeOK /\ Sound(attempt[a].next) /\ attempt[a].next \in Document
  BY DEF FeedInv, FeedTypeOK, AttemptSound
<1>1. Fetch(a)
  BY <1>0
     DEF FeedNext, feedVars, Publish, TestFeed, InsertConnector, Load, Fetch, Write, Abandon,
         FeedTypeOK
<1> PICK doc \in Results(attempt[a].next) :
      attempt' = [attempt EXCEPT ![a].step = IF Refused(doc) THEN "thrown" ELSE "fetched",
                                 ![a].next = doc]
  BY <1>1 DEF Fetch
<1>2. attempt'[a].next = doc
  BY <1>0 DEF FeedTypeOK
<1> QED
  BY <1>0, <1>2, ResultsSound

(* Every successful attempt shows what the feed served when it answered,    *)
(* with that exception.                                                     *)
THEOREM SuccessfulAttemptsShowFeed == FeedSpec => SuccessShowsFeed
<1> DEFINE Shows(a) ==
        (attempt[a].step = "loaded" /\ attempt'[a].step = "fetched"
            /\ attempt'[a].next.status = "ok")
        => \/ attempt'[a].next.preview = feed
           \/ /\ attempt'[a].next.preview \in Versions
              /\ Asked(attempt[a].next.cache) \notin HeadersOf[attempt'[a].next.preview]
<1>1. FeedInv /\ [FeedNext]_feedVars => \A a \in Attempts : Shows(a)
  BY SuccessCases
<1> QED
  BY <1>1, FeedInvariance, PTL DEF FeedSpec, SuccessShowsFeed

(* A feed that sends the same headers with every content has no exception:  *)
(* whatever attempts overlap, a success shows what the feed served.          *)
THEOREM UniformFeedIsShown ==
    ASSUME \A v, u \in Versions : HeadersOf[v] = HeadersOf[u]
    PROVE  FeedSpec => [][\A a \in Attempts :
                            (attempt[a].step = "loaded" /\ attempt'[a].step = "fetched"
                                /\ attempt'[a].next.status = "ok")
                            => attempt'[a].next.preview = feed]_feedVars
<1> DEFINE ShowsFeed(a) ==
        (attempt[a].step = "loaded" /\ attempt'[a].step = "fetched"
            /\ attempt'[a].next.status = "ok")
        => attempt'[a].next.preview = feed
<1>1. FeedInv /\ [FeedNext]_feedVars => \A a \in Attempts : ShowsFeed(a)
  BY SuccessCases DEF Current, FeedInv, FeedTypeOK
<1> QED
  BY <1>1, FeedInvariance, PTL DEF FeedSpec

(* An attempt that was not overtaken never moves the fetch time back. *)
THEOREM FetchTimeKept == FeedSpec => FetchTimeKeptUnlessOvertaken
<1> DEFINE Keeps(a) ==
        (attempt[a].step = "fetched" /\ attempt'[a].step # "fetched" /\ attempt[a].read = row)
        => row'.fetchedAt >= row.fetchedAt
<1>1. ASSUME FeedInv, [FeedNext]_feedVars, NEW a \in Attempts,
             attempt[a].step = "fetched", attempt'[a].step # "fetched", attempt[a].read = row
      PROVE  row'.fetchedAt >= row.fetchedAt
  <2>0. FeedTypeOK /\ AttemptSound(a) /\ row \in Document /\ attempt[a].next \in Document
    BY <1>1 DEF FeedInv, FeedTypeOK
  <2>1. Write(a) \/ row' = row
    BY <1>1, <2>0
       DEF FeedNext, feedVars, Publish, TestFeed, InsertConnector, Load, Fetch, Write, Abandon,
           FeedTypeOK
  <2> QED
    BY <1>1, <2>0, <2>1 DEF Write, AttemptSound, Document
<1>2. FeedInv /\ [FeedNext]_feedVars => \A a \in Attempts : Keeps(a)
  BY <1>1
<1> QED
  BY <1>2, FeedInvariance, PTL DEF FeedSpec, FetchTimeKeptUnlessOvertaken

(* Times, versions and issues stay in their types. *)
THEOREM FeedTypes == FeedSpec => []FeedTypeOK
<1>1. FeedInv => FeedTypeOK
  BY DEF FeedInv
<1> QED
  BY <1>1, FeedInvariance, PTL

=============================================================================
