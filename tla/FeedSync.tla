------------------------------ MODULE FeedSync ------------------------------
(***************************************************************************)
(* One HTML/ICS connector: createHtmlIcsConnector of                       *)
(* apps/api/src/services/connectors.ts, which tests the feed and inserts   *)
(* the row, and any number of attempts of html_ics_sync jobs               *)
(* (apps/worker/src/executors/html-ics.ts) that read the row, fetch the    *)
(* feed (packages/connectors/src/adapters/html-ics.ts) and write the row's *)
(* whole document back.  Jobs of one connector with different windows are  *)
(* accepted by POST /jobs/schedule and run by different workers at once.   *)
(*                                                                         *)
(* A version stands for one content of the feed, for its preview and for   *)
(* the validators that the feed sends with it: both, one of them or none.   *)
(* The columns of the row are written in the same statements as the         *)
(* document, and status and last_successful_fetch_at from the same values,  *)
(* so one record stands for the document and the columns.                   *)
(***************************************************************************)
EXTENDS Integers

CONSTANTS
    Attempts,         \* executions of html_ics_sync jobs
    Versions,         \* contents the feed may have
    KindOf,           \* "events", "empty" (no upcoming event) or "broken"
    HeadersOf         \* the validators that the feed sends with a content

Headers == {"etag", "lastModified"}

NoVersion == "none"

(* null; the clock starts at 1 and advances with every answer of the feed. *)
NoTime == 0

ASSUME FeedAssumption ==
    /\ KindOf \in [Versions -> {"events", "empty", "broken"}]
    /\ HeadersOf \in [Versions -> SUBSET Headers]
    /\ NoVersion \notin Versions

VARIABLES
    feed,       \* what the feed serves
    clock,
    creation,   \* the create handler: "validating", then "created"
    tested,     \* the document the create handler is about to insert
    row,        \* the connector's document, once it is created
    attempt     \* where each attempt stands

feedVars == <<feed, clock, creation, tested, row, attempt>>

Document ==
    [status : {"ok", "failed"},             \* "validated", "pending_validation"
     preview : Versions \cup {NoVersion},
     fetchedAt : Nat,                       \* lastSuccessfulFetchAt
     validatedAt : Nat,                     \* last_validated_at
     issues : {"none", "warning", "error"},
     cache : [Headers -> Versions \cup {NoVersion}]]    \* fetchCache

NoCache == [h \in Headers |-> NoVersion]

(* What the create handler starts from, before it has an answer. *)
Blank == [status |-> "failed", preview |-> NoVersion, fetchedAt |-> NoTime,
          validatedAt |-> NoTime, issues |-> "none", cache |-> NoCache]

(* idle, loaded (the row is read), fetched (the feed has answered), written, *)
(* thrown (the executor threw, or its worker died)                           *)
AttemptSteps == {"idle", "loaded", "fetched", "written", "thrown"}

FeedTypeOK ==
    /\ feed \in Versions
    /\ clock \in Nat
    /\ creation \in {"new", "validating", "created"}
    /\ tested \in Document
    /\ row \in Document
    /\ attempt \in [Attempts -> [step : AttemptSteps, read : Document, next : Document]]

FeedInit ==
    /\ feed \in Versions
    /\ clock = 1
    /\ creation = "new"
    /\ tested = Blank
    /\ row = Blank
    /\ attempt = [a \in Attempts |-> [step |-> "idle", read |-> Blank, next |-> Blank]]

-----------------------------------------------------------------------------
(* fetchFeed: what the request with these validators may be answered *)

(* Variant of CacheMetadata: what the request had is preferred to what the   *)
(* answer has.                                                               *)
CacheMetadataOfRequest(cache) ==
    [h \in Headers |-> IF cache[h] # NoVersion \/ h \notin HeadersOf[feed]
                       THEN cache[h] ELSE feed]

(* A header that the answer omits is taken over from the request. *)
CacheMetadata(cache) ==
    [h \in Headers |-> IF h \in HeadersOf[feed] THEN feed ELSE cache[h]]

(* If-Modified-Since counts only in a request without If-None-Match. *)
Asked(cache) == IF cache["etag"] # NoVersion THEN "etag" ELSE "lastModified"

Current(cache) == Asked(cache) \in HeadersOf[feed] /\ cache[Asked(cache)] = feed

(* 200 with a body, 304 if the feed still serves what it was asked about, or *)
(* an HTTP error, a timeout, no connection, which return no validators.      *)
FetchFeed(cache) ==
    {[kind |-> "body", cache |-> CacheMetadata(cache)],
     [kind |-> "error", cache |-> NoCache]}
        \cup IF Current(cache)
             THEN {[kind |-> "notModified", cache |-> CacheMetadata(cache)]} ELSE {}

-----------------------------------------------------------------------------
(* validateHtmlIcsFeed, as a function of the previous document *)

(* Variant of Failed: the fetch time is not carried over. *)
FailedForgetting(doc) ==
    [doc EXCEPT !.status = "failed", !.issues = "error", !.fetchedAt = NoTime]

(* A result that is not ok carries no preview, no fetch time and no         *)
(* validators; those of the document stay.                                  *)
Failed(doc) == [doc EXCEPT !.status = "failed", !.issues = "error"]

(* Variant of PreviewIssues: the previous issues are merged in. *)
PreviewIssuesMerged(doc) ==
    IF KindOf[feed] = "empty" THEN "warning" ELSE doc.issues

(* Without upcoming events there is a warning. *)
PreviewIssues(doc) == IF KindOf[feed] = "empty" THEN "warning" ELSE "none"

(* A body that parses. *)
ReadWell(doc, cache) ==
    [doc EXCEPT !.status = "ok",
                !.preview = feed,
                !.fetchedAt = clock + 1,
                !.issues = PreviewIssues(doc),
                !.cache = cache]

(* Variant of NotModified: a status that the schema does not have. *)
NotModifiedAsStatus(doc, cache) == [doc EXCEPT !.status = "not_modified"]

(* 304: preview, fetch time and issues of the last validation stand. *)
NotModified(doc, cache) == [doc EXCEPT !.status = "ok", !.cache = cache]

ValidateFeed(doc, answer) ==
    CASE answer.kind = "notModified" -> NotModified(doc, answer.cache)
      [] answer.kind = "body" /\ KindOf[feed] # "broken" -> ReadWell(doc, answer.cache)
      [] OTHER -> Failed(doc)

Results(doc) == {ValidateFeed(doc, answer) : answer \in FetchFeed(doc.cache)}

(* Without a successful fetch the time is null, which the schema of a        *)
(* result does not accept: validateHtmlIcsFeed throws.                       *)
Refused(doc) == doc.status = "ok" /\ doc.fetchedAt = NoTime

-----------------------------------------------------------------------------
Publish(v) ==
    /\ v # feed
    /\ feed' = v
    /\ UNCHANGED <<clock, creation, tested, row, attempt>>

(* The handler tests the feed without validators; an HTTP error, a timeout   *)
(* or a broken feed does not stop it.                                        *)
TestFeed ==
    /\ creation = "new"
    /\ creation' = "validating"
    /\ \E doc \in Results(Blank) :
          tested' = [doc EXCEPT !.validatedAt = IF doc.status = "ok" THEN clock ELSE NoTime]
    /\ clock' = clock + 1
    /\ UNCHANGED <<feed, row, attempt>>

InsertConnector ==
    /\ creation = "validating"
    /\ creation' = "created"
    /\ row' = tested
    /\ UNCHANGED <<feed, clock, tested, attempt>>

(* Variant of Load: the stored document is taken for invalid, and the        *)
(* executor starts from its default.                                         *)
LoadDefault(a) ==
    /\ creation = "created"
    /\ attempt[a].step = "idle"
    /\ attempt' = [attempt EXCEPT
          ![a] = [step |-> "loaded", read |-> row,
                  next |-> [Blank EXCEPT !.validatedAt = clock]]]
    /\ UNCHANGED <<feed, clock, creation, tested, row>>

(* The document in hand is the one that was read; every write will set      *)
(* last_validated_at, to the time of this read.                              *)
Load(a) ==
    /\ creation = "created"
    /\ attempt[a].step = "idle"
    /\ attempt' = [attempt EXCEPT
          ![a] = [step |-> "loaded", read |-> row,
                  next |-> [row EXCEPT !.validatedAt = clock]]]
    /\ UNCHANGED <<feed, clock, creation, tested, row>>

Fetch(a) ==
    /\ attempt[a].step = "loaded"
    /\ \E doc \in Results(attempt[a].next) :
          attempt' = [attempt EXCEPT ![a].step = IF Refused(doc) THEN "thrown" ELSE "fetched",
                                     ![a].next = doc]
    /\ clock' = clock + 1
    /\ UNCHANGED <<feed, creation, tested, row>>

(* The whole document is written, whatever the row holds by now; if the      *)
(* answer of the database is lost, the executor throws.                      *)
Write(a) ==
    /\ attempt[a].step = "fetched"
    /\ row' = attempt[a].next
    /\ \E step \in {"written", "thrown"} :
          attempt' = [attempt EXCEPT ![a].step = step]
    /\ UNCHANGED <<feed, clock, creation, tested>>

(* The worker dies, or the update fails: nothing is written. *)
Abandon(a) ==
    /\ attempt[a].step \in {"loaded", "fetched"}
    /\ attempt' = [attempt EXCEPT ![a].step = "thrown"]
    /\ UNCHANGED <<feed, clock, creation, tested, row>>

FeedNext ==
    \/ \E v \in Versions : Publish(v)
    \/ TestFeed
    \/ InsertConnector
    \/ \E a \in Attempts : Load(a) \/ Fetch(a) \/ Write(a) \/ Abandon(a)

FeedSpec == FeedInit /\ [][FeedNext]_feedVars

-----------------------------------------------------------------------------
(* Properties *)

(* Whether the feed was read or answered 304, the preview of an attempt that *)
(* succeeds is of what the feed served: through failures, broken contents    *)
(* and concurrent writers, stored validators never outlive the preview they  *)
(* belong to.  The exception is a preview of a content that came without the *)
(* header the feed was asked about, which is then that of an older content   *)
(* (html-ics.ts:124-151 and 195-206, executors/html-ics.ts:104-123).         *)
SuccessShowsFeed ==
    [][\A a \in Attempts :
          (attempt[a].step = "loaded" /\ attempt'[a].step = "fetched"
              /\ attempt'[a].next.status = "ok")
          => \/ attempt'[a].next.preview = feed
             \/ /\ attempt'[a].next.preview \in Versions
                /\ Asked(attempt[a].next.cache) \notin HeadersOf[attempt'[a].next.preview]
      ]_feedVars

(* A conditional request is only made for a document that has a fetch time,  *)
(* so a 304 never makes the executor throw on the null that a connector      *)
(* without a successful fetch has there.                                     *)
ValidatorsHaveFetchTime ==
    /\ row.cache # NoCache => row.fetchedAt # NoTime
    /\ \A a \in Attempts :
          attempt[a].step = "loaded" => \A doc \in Results(attempt[a].next) : ~Refused(doc)

(* An error that a connector lists was met after the content that it shows   *)
(* was fetched: a 304 leaves it beside a status of validated, but whatever   *)
(* overtakes what, no error survives a body that was read after it           *)
(* (html-ics.ts:103-126 and 133-141).                                        *)
ErrorsAreRecent == row.issues = "error" => row.validatedAt >= row.fetchedAt

(* An attempt that nobody has overtaken never moves the last successful      *)
(* fetch back or clears it, whether it fails, reads or gets a 304.           *)
FetchTimeKeptUnlessOvertaken ==
    [][\A a \in Attempts :
          (attempt[a].step = "fetched" /\ attempt'[a].step # "fetched" /\ attempt[a].read = row)
          => row'.fetchedAt >= row.fetchedAt]_feedVars

(* "captures the timestamp of the most recent job or validation that         *)
(* retrieved events successfully" (docs/architecture/database-schema.md:184) *)
FetchTimeNeverGoesBack == [][row'.fetchedAt >= row.fetchedAt]_feedVars

=============================================================================
