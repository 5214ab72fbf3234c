# SynCal in TLA+

SynCal synchronises calendars. An administrator connects calendars through a web
portal, an API stores connectors and queues jobs in PostgreSQL, and worker
processes run the jobs. This directory holds TLA+ modules of the parts that are
hard to get right, the TLC configurations that check them on small instances,
and TLAPS proofs of what the queue, the scheduling route, feed connectors, onboarding,
the connectors page and logins guarantee for any number of jobs, requests, workers and tabs.

- [Inventory](#inventory): the system's parts
- [Modules](#modules): which module models which part, and how
- [Runs](#runs): what is checked, bounds, fairness
- [Proofs](#proofs): what is proved, and along which argument
- [Disagreements found](#disagreements-found): where the code does something else than a document says
- [Not modelled](#not-modelled) and [Plan](#plan)

## Inventory

| Part | Source | State it keeps | Operations | What is hard |
|---|---|---|---|---|
| Queue consumer | `apps/worker/src/consumers/queue.ts` | `sync_jobs`, `sync_job_logs`, `connector_failure_stats`, `alerts`; `active`, `processing`, `timer` in memory | `start`, `tick`, `claimNextJob`, `processJob`, `finalizeSuccess`, `finalizeFailure`, `stop` | several workers on the same rows; snapshots and row locks; failure at every `await`; pauses and alerts that must agree |
| Worker process | `apps/worker/src/worker.ts`, `main.ts` | signal handlers, heartbeat | start, shutdown | signals before the handlers exist; restart by docker-compose |
| Backoff | `packages/core/src/utils/backoff.ts` | none | `calculateBackoffDelayMs`, `calculateNextRunAt` | indices, cap, jitter and rounding |
| Scheduling route | `apps/api/src/routes/jobs/schedule.ts` | `sync_jobs.idempotency_key` | `POST /jobs/schedule` | racing requests, repeated requests, a pause read outside of the transaction |
| Executors and job router | `apps/worker/src/executors/*.ts` | a connector's `status`, `configJson`, `lastValidatedAt`, `lastSuccessfulFetchAt` | route by payload type, fetch, validate, write back | a document read before a 30 s fetch and written back whole; a connector that is written before its job is recorded |
| Connector onboarding | `apps/api/src/services/connectors.ts` | `connectors`, `calendars`, `sync_pairs`, `audit_logs`, `sync_jobs` | create an OAuth or feed connector, queue its job | five writes without a transaction, a job in the end that another process runs |
| OAuth session flow | `apps/api/src/lib/oauth.ts`, `routes/auth/oauth.ts` | `session.oauthFlows` | start, callback, context, consume | two provider calls between reading an entry and writing it |
| Feed adapter | `packages/connectors/src/adapters/html-ics.ts` | `fetchCache` in `configJson` | conditional fetch, preview | what a 304 answer restores; validators that the feed sends only sometimes |
| Provider adapters | `packages/connectors/src/adapters` | none here; the provider remembers which codes it has redeemed | exchange code and read the profile, list calendars, fetch events | several requests, each of which may fail after the one before has had its effect |
| Registry, PKCE | `packages/connectors/src` | none | look up an adapter, derive a challenge | nothing |
| Admin bootstrap | `apps/api/src/lib/bootstrap-admin.ts` | `admin_users`, `audit_logs` | `ensureInitialAdmin` | API instances that start together |
| Admin sessions | `apps/api/src/routes/auth/session.ts`, plugins | session store, cookie | login, logout, guard | expiry against requests in flight |
| Connectors page | `apps/web/src/app/(connectors)` | React state of two forms | OAuth start, select, test feed, submit | answers that arrive after the form has changed |
| Portal shell | `apps/web/src/middleware.ts`, `components` | cookie, theme | redirect, log in, log out | a session that ends while pages are open |

How they interact: the portal calls the API over HTTP with a session cookie. The
API and the workers share nothing but the database: the API inserts `pending`
rows (`schedule.ts`, `connectors.ts`), the workers take them, run an executor,
which may rewrite the connector row, and record the result. The API reads
`paused_until` that the workers write, and the portal reads the connector rows.

What makes the parts correct: a job is run by one worker at a time; every
attempt is counted once and a job gives up after its last retry; retries wait
out their backoff; pauses, failure counts and alerts of a connector/pair agree;
a due job is eventually taken and a taken job eventually recorded, unless a
worker is lost; a slot has one active job and an idempotency key one answer; one authorization
makes one connector, with calendars of the account that gave it, and a connector reported as created is complete;
what the queue records of a job is what its executor did to the connector, and no retry undoes what its own job wrote; a feed
connector shows what the feed served when it was last read; the page submits
once at a time and shows results with the form that they are of; an API that
listens has an administrator, whose login fails only if something came in between,
and whose browser always gets in.
Every hazard, at the line where it bites, is in `PROJECT.json`.

## Modules

```
Backoff  <--  RetrySchedule  <--  RetryScheduleProofs      one job's delays
Backoff  <--  QueueConsumer  --refines-->  JobLifecycle
QueueConsumer  <--  Scheduling                    requests + workers, refines QueueConsumer
QueueConsumer  <--  QueueConsumerProofs  --instance-->  RetryScheduleProofs
Scheduling, QueueConsumerProofs  <--  SchedulingProofs
QueueConsumer  <--  MCQueueConsumer      Scheduling  <--  MCScheduling
FeedSync       <--  FeedSyncProofs, MCFeedSync
QueueConsumer, FeedSync  <--  JobExecution        workers run a feed connector's jobs, refines both
JobExecution   <--  JobExecutionProofs, MCJobExecution
Onboarding     <--  OnboardingProofs, MCOnboarding
ConnectorsPage <--  ConnectorsPageProofs
AdminBootstrap <--  PortalSession  <--  PortalProofs, MCPortalSession
```

### QueueConsumer

State and its source:

| Variable | Code |
|---|---|
| `jobs` | the columns of `sync_jobs` that change: `status`, `retry_count`, `next_run_at`. A job id stands for the columns that do not change, so `PairOf` and `PriorityOf` are functions of it |
| `stats` | `connector_failure_stats`, `exists` saying whether the row has been created |
| `openAlerts` | unacknowledged `sync_circuit_breaker` alerts per connector/pair |
| `logs` | `sync_job_logs`, counted by job and outcome |
| `phase`, `active`, `booting` | where each worker process stands; `this.active`; still inside `await consumer.start()` |
| `snapshot`, `claim`, `result` | locals that live across an `await`: what the claim's SELECT sees, the row its UPDATE returned, the outcome with `finishedAt` and the statistics row under its lock |
| `streak`, `faults` | history: failures since the pair's last success; faults so far |

One action per step between two points where another process can interfere:

| Action | Code |
|---|---|
| `Start`, `Poll`, `LeaveLoop`, `Stop`, `Exit` | `worker.ts` `start` and the shutdown handler; `start`, `tick`, `stop` of `queue.ts`. The `processing` flag is `phase` not being `down` or `idle` |
| `BeginClaim` | the claim transaction takes its snapshot: the WHERE clause decides `Eligible` |
| `LockJob`, `SerializationFailure`, `NoJobFound` | the SELECT under `FOR UPDATE SKIP LOCKED`: it skips rows locked now, fails if the row it wants has changed since the snapshot, and returns nothing if all are locked |
| `CommitClaim` | the UPDATE to `in_progress` and the commit |
| `Execute` | the executor returns or throws: any outcome in `Returned` |
| `BeginFinalize` | the finalize transaction reaches the statistics row and holds its lock; a success whose `updateMany` matches nothing holds none |
| `FinalizeSuccess`, `FinalizeFailure` | everything the two transactions write, with the log, the count, the pause and the alert, at commit |
| `Crash`, `KillBySignal`, `DatabaseError`, `LoseClaimReply`, second case of `NextRound` | a process that dies; a signal without a handler; an error that rolls a transaction back; a commit whose reply is lost |
| `Enqueue`, `Tick` | a `pending` row is inserted; time passes |

Modelling decisions a reader should know:

- PostgreSQL is modelled by what these statements rely on. The claim is
  SERIALIZABLE, so a locking read of a row that has changed since the snapshot
  aborts, and so may a claim that has read a row which another claim has
  written meanwhile. The finalizers are READ COMMITTED: their reads see the
  latest committed row, and the statistics row's lock orders them.
- An aborted finalize leaves no trace, so the rows it had already written are
  represented only by their locks (`RowLocked`, `LocksStat`).
- Time is a counter shared by all clocks. `NoPause` (0) is NULL. A pause
  is over when `paused_until <= now`, in the claim's SQL and in `Trips` alike.
- The executor is a nondeterministic outcome here. Executors touch only the
  connector row, which the queue never reads; `JobExecution` puts the feed's
  executor in the place of the nondeterminism.
- Metrics, logging and `updated_at` are left out.

### JobLifecycle

What the queue promises without rows, transactions, clocks and breakers: a job
goes `new -> queued -> running` and then to `done`, `dead` or back to `queued`; it has at
most one runner; it is dead after `MaxRetries` failures and not earlier; a
job whose worker is lost stays `running` for ever. The map from `QueueConsumer`
is `StateMap`, `FailuresMap`, `RunnerMap`: the runner of a job is the worker
that holds its claim.

### Backoff and RetrySchedule

`Backoff` is `backoff.ts` in exact integer arithmetic: a jitter ratio is a
fraction, a random draw one of `Draws` equidistant values of [0, 1), and
`Math.round` rounds half up. `RetrySchedule` follows one job through `Attempts`
failures with an independent draw each. A delay below the cap is near the documented one
from both sides (`NearDocumented`); at the cap the documents allow no jitter upwards, the code adds it,
and only the lower bound is claimed (see "Disagreements found").

### Scheduling

`QueueConsumer` with requests instead of `Enqueue`. A request is three steps,
because other processes run between them: the pause check (`CheckPause`), the
transaction's lookups (`BeginSchedule`), and its end (`ReturnFound`,
`InsertJob`, `ScheduleFails`). SERIALIZABLE is the guard `Serializable`: an
insert commits only if no row that appeared since its snapshot would have been
found. A request may be sent again once it was answered; `replies` remembers
the job ids it was told. Payload validation (400) and unknown pairs
(404) return before any state is touched.

### FeedSync

One HTML/ICS connector. Its `configJson`, with the columns that the same
statements write from the same values, is one `Document`: status, preview,
fetch time, validation time, issues, and the cache's two validators. A content of
the feed is a version, which comes with an `ETag`, a `Last-Modified`, both or
neither (`HeadersOf`); the preview and each validator of a document are named
by the version they came with, which is what lets the properties say whether they
belong together.

| Action or operator | Code |
|---|---|
| `Publish` | the feed changes, at any time |
| `TestFeed`, `InsertConnector` | `createHtmlIcsConnector`: the test, without validators, then the insert |
| `Load` | the executor reads the row and parses it; its `now` will be `last_validated_at` |
| `Fetch` | `validateHtmlIcsFeed` and the merge with the old document: one of `Results` |
| `FetchFeed`, `CacheMetadata`, `Current` | the conditional request: `If-None-Match` decides about a 304 if there is an `ETag`, else `If-Modified-Since`; a header that the answer omits is replaced by the request's |
| `ReadWell`, `NotModified`, `Failed` | a body that parses; a 304, which keeps preview, fetch time and issues; an error or a broken body, which keeps everything but status and issues |
| `Write` | the whole document is put back; if the answer of the database is lost, the executor throws although it has written |
| `Abandon` | a worker that dies between them, or an update that fails |

`Refused` is a result that `ConnectorValidationResultSchema` does not accept
(a null fetch time on a 304), on which the executor throws. An attempt is an
execution of a job, so retries and jobs of other windows are attempts alike;
`JobExecution` tells them apart. The feed follows HTTP: it answers 304 only about a
validator of what it serves. `SuccessShowsFeed` has an exception, which that leaves:
after a content without an `ETag` the row still has an older content's, and when that
one is served again the feed confirms it, beside the preview of the newer. The executor's fallback
to a default document needs a stored document that its own schema rejects, and
both writers of it parse what they write: it is a variant for a mutant only.

### JobExecution

The composition of the queue's workers with one feed connector. The executor of
`QueueConsumer` is no longer any outcome: between the claim and the finalize the
worker takes `FeedSync`'s steps.

| Action | Code |
|---|---|
| `ConnectorStep`, `QueueFor` | the connector is created and its feed changes; jobs are queued for it once it exists |
| `ExecutorStep` | a step of the executor that the router has found (`sync.ts`, `main.ts`) |
| `Return` | `processJob` gets the executor's answer: `OutcomeOf` is a success exactly if a document of status ok was written and the executor did not throw |
| `FallBack` | a payload whose type nobody has registered: the fallback executor fails |
| `Perish` | a worker dies by crash or signal, and what it was executing with it |
| `QueueStep` | every other step of the queue |

An execution is named by its job, by the retries that the claimed row had counted, and
by its worker; that a name is used once is part of what is shown. Time in the queue (ticks) and the feed's clock are
independent.

### Onboarding

`session.oauthFlows` of one administrator, the callback and creation handlers with the
provider adapters that they call, and the validation job over the row that they leave.

| Variable | Code |
|---|---|
| `session`, `payload` | per state token: not yet drawn, saved, saved with a payload, gone; the payload is named after the callback that stored it |
| `callback`, `request` | the await at which a callback or a `POST /connectors` is; what the form has selected, the tokens in hand, and the result of its test |
| `spent` | the authorization codes that the provider has redeemed |
| `connector` | whether the row is there, and its validation; `status` and `lastValidatedAt` follow it |
| `calendars`, `audited`, `queued` | the connectors for which these rows are stored |
| `attempt` | an execution of a `connector_validation` job: its await, the ids it uses, its result |

| Action | Code |
|---|---|
| `StartFlow`, `BeginCallback`, `StorePayload` | `oauth.ts`: an entry is saved; a redirect finds it; the payload goes into it if it is still there |
| `ExchangeCode`, `ReadProfile`, `ListCalendars`, `CallbackFails` | the adapters: the token request, which spends the code, the profile, the list of calendars; any of them fails |
| `Send` | the entry is read, checked (`MayInsert`: a payload that lists every selected calendar) and removed, all before the first await |
| `Test`, `FetchUpcomingEvents` | all calendars are asked at once; one that the provider does not know is an error |
| `Insert`, `StoreCalendars`, `UpdateValidation`, `Audit`, `QueueJob`, `Answer` | the handler's statements, one step each |
| `BeginAttempt`, `FetchEvents`, `WriteValidation`, `WriteIsCaught`, `LoseAttempt` | `connector-validation.ts` |

A handler's step ends at each await, so callbacks, requests and jobs interleave
there. A form selects what it likes: it has shown some payload of the flow, and another
callback may have replaced that since. A request inserts at most one connector, which is named after it. The
default session store is in memory: it hands out the same
`oauthFlows` object to concurrent requests, and a dying API
(`ApiCrash`) loses it. `StatementFails` covers a failing statement and one whose
reply is lost. A redirect that is loaded again brings the same code; two callbacks with
different codes are two consents, maybe of two accounts. Provider mismatch and malformed bodies
are refused like a request without a payload, after the entry is gone. Connectors and calendars are
never deleted, and a selection is never empty (`min(1)`), so the executor's
early returns for these are not reached.

### ConnectorsPage

`page.tsx`, one page from its mount until the user leaves it.

| Variable | Code |
|---|---|
| `wizard`, `form`, `result`, `isTesting`, `isSubmitting` | `isHtmlWizardActive`, `htmlForm`, `htmlValidationResult`, and the flags |
| `test`, `save` | the requests of each click: a test with the form it is of, a submission up to the end of what follows its answer |
| `url`, `context`, `selection` | the query, `contextEntries` and `selectionState`, as far as they concern the authorization that the user has come back with |
| `navigation` | `router.replace('/connectors')`: none, on its way, or failed; the query changes when it commits |
| `firstLoad`, `authorization` | the mount's `loadContext`; the API's session entry (`Onboarding`) |

A step is an event handler, or an answer with what follows it up to the next
`await`, and the effects that they cause. History: `since` in a test says what has become of the
form since it was sent (the `late` of a result is that it is not the same), `beside` that an older test was under way
then; `fresh` in a submission, that the context was loaded again after it. A content that
`validateHtmlForm` refuses is `Incomplete`; `Complete` is its check. What `HandleSave` does to the
authorization is `Onboarding!Send`. `router.replace` asks the server and the middleware for the page, so
`FinishOAuth` and `LeaveForm` only begin it; `Navigate` and `NavigationFails` end it, in any order with
everything else, and nothing makes them happen. `beginOAuth` leaves the page and is where the
model ends. Messages, display names, privacy modes and the CSRF token (`ensureCsrf`
fails like the request that it precedes) are left out.

### AdminBootstrap and PortalSession

`AdminBootstrap` is the start of API instances: `Launch` (environment,
migrations under Prisma's lock, plugins), then the statements of
`ensureInitialAdmin`: `CountAdmins`, `CreateAdmin`, where the unique key of `admin_users.email` sends the
loser to `FindAdmin`, and `AuditBootstrap`. `StartFails` is a failing statement or a killed
process; an instance without credentials fails like that, too.

`PortalSession` adds one browser with several tabs, whose user knows the
password.

| Variable | Code |
|---|---|
| `store`, `cookie` | the session store of `@fastify/session`; `syn_session`. A session stands for its CSRF token as well |
| `tab` | per tab: the page, the token of its form or its logout button, what it waits for, and the answer to come with its cookie |
| `disturbed` | history: what others, or faults, have done since the tab had its token |

| Action | Code |
|---|---|
| `Visit`, `PageAnswered` | the middleware asks `GET /auth/session`, and lets through, redirects, and deletes the cookie |
| `Submit`, `HaveToken`, `LoginAnswered` | `login-form.tsx`: a token if there is none, `POST /auth/session`, and after a refusal another token |
| `Logout`, `LogoutAnswered` | `logout-button.tsx` and `DELETE /auth/session` |
| `ApiDies`, `Expire`, `LoseAnswer` | the store is in memory; `SESSION_TTL_MS`; the network |

The API handles a request as it is sent, and the answer, with its cookie, is
applied later: a cookie that the middleware deletes is whichever the browser has by
then. A session that nobody refers to any more may be handed out again under
its name, which keeps `Sessions` small. Rolling cookies, the rate limit, Next's prefetch cache
and `router.refresh`, and `from` (a path, where the model has `/`) are left out.

## Runs

| Run | Question | Instance |
|---|---|---|
| `queue_safety` | Do holders, attempts, the breaker and the refinement survive any interleaving and any one fault? | 2 workers (symmetric), 2 jobs of one pair that succeed or fail, 2 retries, threshold 2, 3 ticks, 1 fault; 501,564 states |
| `queue_liveness` | Are due jobs taken, taken jobs recorded, and does `stop()` end? | the same with 2 ticks and 1 crash, under `FairSpec`; 229,076 states |
| `retry_schedule` | Are all delays near the documented schedule? | the defaults in milliseconds, 12 failures, 10 draws; 121 states |
| `scheduling` | Do racing and repeated requests keep one active row per slot and one answer per key, on top of a queue that still is `QueueConsumer`? | 2 requests for one slot, one with a key, each sent twice; 3 rows, every outcome, 1 worker, 1 crash; 338,607 states |
| `feed_sync` | Does what an attempt restores from the cache match the feed, and do errors go away, however attempts overlap? | 4 contents (with both headers, empty with `Last-Modified`, with `ETag`, broken without), 3 attempts (symmetric) and the creation; 1,349,620 states |
| `job_execution` | Do the queue's record and the connector agree, whatever becomes of the workers? | 2 workers (symmetric), a feed job and one without a route, 2 retries, threshold 2, 2 ticks, 1 content, 1 crash; 2,214,506 states |
| `onboarding` | One connector per authorization, with its account's calendars, and is a created one complete? | 1 flow with 3 callbacks (one a reload, one another account's) and 2 requests, 2 codes, 2 calendars, 1 feed request, 1 validation job, every fault (symmetric); 1,350,792 states |
| `connectors_page` | Do tests, submissions and loads that are answered late keep to their forms? | 2 forms and an incomplete one, 2 tests, 2 submissions, 1 calendar; 215,788 states |
| `portal_session` | Does the bootstrap race leave one administrator and one log, and does every tab get in? | 2 API instances with one credential, 2 tabs, 5 sessions, 3 events (visits, logouts, faults); 259,410 states |
| `breaker_alert`, `stale_write`, `validation_ids` | Is a documented claim true of the code? | each finds a counterexample, see below |

Why the bounds are enough. Two workers and two jobs of one pair is the smallest
instance in which finalizers of different jobs meet on one statistics row, and in
which a worker meets a row that another one has locked, taken or put back. Two
retries with threshold two give a job a retry and a last failure, and let the
breaker trip by one job's retries as well as by two jobs' failures; three ticks
are enough for a retry to become due and for a pause to run out. `breaker_alert`
needs three jobs (two failures and a success). One fault may be a crash, a
signal, a database error or a lost reply at any await; `OrphansComeFromFaults`
counts what it leaves behind. Three rows and two sends are the
least with which a key can be answered, forgotten and answered again. A
partial outcome takes the same transaction as a success, so `queue_safety`
leaves it to `scheduling`. Three attempts let one overtake another while a third starts from
what they left, with a content of each kind and each way of sending validators; time in `FeedSync` is bounded because each
attempt and the creation fetch once. In `job_execution` two workers and two retries let a retry
run on another worker, after a crash or beside the other job; the job without a route is the neighbour whose failures
pause the pair. One content is enough there, since any fetch may fail, and what contents do to a document is `feed_sync`'s question.
Two requests are what a form sent twice makes, three callbacks a redirect loaded twice and a second
consent, with accounts of which one lists a calendar that the other does not; `validation_ids` has two jobs, to let one write after the
other. A second flow would share nothing with the first. Two tests and two submissions let one that goes on behind a closed wizard meet the next;
the clicks that pass the form's checks are bounded, everything else is not. Three events
are a visit in each tab and a logout, a crash or an expiry between them. Two instances with the same credential race; instances
with different ones do not share a key (the theorem allows any). In `onboarding` and `portal_session`
everything may end, so these runs do not look for deadlock. The
workers' rules treat workers and (in `scheduling`) jobs alike, attempts of `FeedSync` are alike, and so are
a callback and its reload and the requests of one flow, so symmetry is
sound; the liveness run uses none.

Properties, and what would break them, are in the modules next to their
definitions. Every checked property has a variant of some definition, with a bug
one could plausibly make, under which the run fails: see "mutants" in
`PROJECT.json`; the variants stand before the definitions they vary.

### Fairness

`FairSpec` assumes of each worker that the interval timer keeps firing
(`Poll`), that statements and executors return (feeds and provider calls have
timeouts), that the process is restarted after it exits (`restart:
unless-stopped`), and of time that it passes. `BeginFinalize` is strongly
fair, because it waits for a row lock that others take and release, and
PostgreSQL grants row locks in the order of their requests. Nothing makes
signals, faults or new rows happen. On the page and in the portal every request settles (`PageFairness`,
`PortalFairness`; browsers give up in the end), docker-compose starts the API again, and a user who sees the
login form submits it, which is what `GetsIn` is about. `DueJobIsTaken` allows the pair to be
paused meanwhile: with failing jobs it may be, again and again. `TakenJobIsRecorded` allows a job to stay
behind only after a fault: in a run without one, an error that leaves a job `in_progress` refutes it.

## Proofs

All theorems hold for arbitrary sets of jobs, pairs and workers, any priorities
and delays, any threshold and number of retries, under `QueueAssumption` and
`BackoffAssumption` alone (the sets and ranges the code's types give), for `Scheduling` any requests, slots
and keys under `SchedulingAssumption` (of it the proofs use that the route's rows are due at once: `nextRunAt: now`), for `FeedSync` any contents and
attempts under `FeedAssumption`, for `JobExecution` any of these and any routes under `ExecutionAssumption`
besides, for `Onboarding` any flows, callbacks, codes, calendars, requests and jobs
under `OnboardingAssumption`, and likewise any forms, tests, submissions, instances, credentials, tabs and sessions.

| Theorem | Module | States |
|---|---|---|
| `TypeCorrect` | QueueConsumerProofs | `Spec => []TypeOK` |
| `OneHolderCorrect` | QueueConsumerProofs | one worker per job, whose row says `in_progress` |
| `RetriesWait` | QueueConsumerProofs | no row is taken before its time |
| `AttemptsCorrect` | QueueConsumerProofs | log, count and status agree |
| `BreakerCorrect` | QueueConsumerProofs | count, pause and alert agree |
| `FailuresCounted` | QueueConsumerProofs | no failure is lost between finalizers |
| `ExhaustionPauses` | QueueConsumerProofs | an exhausted job pauses its pair, provided `MaxRetries >= Threshold` (5 and 5 in the code) |
| `QueueImplementsLifecycle` | QueueConsumerProofs | `Spec => Lifecycle!LifecycleSpec` |
| `OnlyBlindSuccessesHideAlerts` | QueueConsumerProofs | a pause loses its alert only by a success that found no statistics row where there is one |
| `LoneWorkerKeepsAlerts` | QueueConsumerProofs | with one worker every pause has its open alert |
| `OrphansCorrect` | QueueConsumerProofs | never more stranded jobs than faults, for infinitely many jobs too |
| `RetriesKeepToSchedule` | QueueConsumerProofs | a retry waits, from the end of its attempt, near the documented delay for the failures its row then counts (at the cap: no less) |
| `DelaysNearDocumented` | RetryScheduleProofs | each delay is the documented one up to jitter and rounding (at the cap: no less), given `PowersAreNatural` |
| `TwelveDelaysNearDocumented` | RetryScheduleProofs | the same for up to twelve attempts, without that |
| `SchedulingImplementsQueue` | SchedulingProofs | `SchedulingSpec => Spec`: the queue's theorems hold below the route |
| `ScheduledJobsAreSafe` | SchedulingProofs | some of them, stated there |
| `SchedulingTypes` | SchedulingProofs | requests, keys and answers keep their types |
| `OneActiveRowCorrect` | SchedulingProofs | one active row per slot |
| `AnswersCorrect` | SchedulingProofs | a key is in one row at most; an answer is a row of the request's slot or with its key |
| `KeyReplayCorrect` | SchedulingProofs | a request that sees a row with its key is told that row |
| `ConditionalFetchSafe` | FeedSyncProofs | a 304 never meets a document without a fetch time |
| `SuccessfulAttemptsShowFeed` | FeedSyncProofs | a success shows what the feed served, with the exception above |
| `UniformFeedIsShown` | FeedSyncProofs | without exception, if every content comes with the same headers |
| `ErrorsRecent` | FeedSyncProofs | no listed error is older than the content beside it |
| `FetchTimeKept` | FeedSyncProofs | only an overtaken attempt moves the fetch time back |
| `ExecutionImplementsQueue` | JobExecutionProofs | `ExecutionSpec => Spec`: the queue's theorems hold with the real executor |
| `ExecutionImplementsFeed` | JobExecutionProofs | `ExecutionSpec => Feed!FeedSpec`: and so do the connector's |
| `ExecutionsCorrect` | JobExecutionProofs | each counted attempt was executed once and did not succeed, a completed job's last one did |
| `NoSelfOvertaking` | JobExecutionProofs | a job overwrites only what it has read or what another job wrote |
| `AuthorizationUsedOnce` | OnboardingProofs | one connector per authorization |
| `ConsentCorrect` | OnboardingProofs | a connector's tokens are those of a successful callback of its flow, and nobody else's |
| `CalendarsCorrect` | OnboardingProofs | a connector's calendars are its account's |
| `CreatedCorrect` | OnboardingProofs | 201 means that everything is stored |
| `FollowUpsNeverValidate` | OnboardingProofs | the job that an OAuth connector's creation queues always leaves it with an error |
| `ScheduledJobsMarkValidated` | OnboardingProofs | one that uses the provider's ids leaves it validated, if nothing fails |
| `OneSubmissionCorrect` | ConnectorsPageProofs | one submission at a time, and the flag says so |
| `TestOrSubmitCorrect` | ConnectorsPageProofs | a test beside a submission was left behind, or begun beside one that was |
| `ResultsCorrect` | ConnectorsPageProofs | a result is of the form, unless it is late |
| `SpentOfferedOnlyIfStale` | ConnectorsPageProofs | after its connector is announced, an authorization is offered only while the query and the context are both old |
| `ListeningCorrect`, `AuditCorrect` | PortalProofs | who listens has an administrator; it is logged at most once |
| `RefusalsCorrect` | PortalProofs | only a disturbed tab's login is refused |
| `FeedTypes`, `OnboardingTypes`, `PageTypes`, `PortalTypes` | the same modules | the other type invariants |

**HolderInv** = `TypeOK /\ ClaimsKnown /\ ClaimedRows`. `OneHolder` is not
inductive: a worker that has locked a row but not committed its claim holds
nothing yet. `ClaimedRows` says of every worker with a claim, from the lock to the end of
the finalize, that nobody else claims the same row and that the row is
still as it was claimed (claimable and due before the commit, `in_progress` after). Each
lemma (`Claims...`) takes one action; a lock is only granted on a row
that no open transaction has locked and that equals the snapshot, so it is
neither taken nor early, which is where `OneHolder` and `RetriesWaitForTheirTime`
come from.

**AttemptInv** adds that rows not yet inserted are untried (`NewRowsUntried`),
that `claim.retryCount` is the row's, and the accounting itself. A
finalizer writes `claim.retryCount + 1`: without the second conjunct a stale
claim could write any number.

**BreakerInv** adds `StatsRead`: while a finalizer holds the statistics row's
lock, `result.stat` is that row, so adding one to what was read adds one to
what is stored, and at most one worker holds the lock (the breaker would lose
failures otherwise). `HoldersDiffer` and `AttemptFails` then give `ExhaustionPauses` from
the lifting of the count to the job's retries.

`AlertShown` of a pair (a pause has an open alert) is what `PauseHasOpenAlert` claims, and what `BreakerInv` keeps in
every step but one: a success that has read no statistics row writes none, yet acknowledges the alerts.
If the row has appeared since, that hides a pause (`BlindSuccess`). A worker that is alone cannot meet
this, since what it has read is what there is (`StatsSeen`).

**The refinement** uses `HolderInv` as its invariant: `RunnerIsHolder` makes
the mapped runner well defined, `SameRunner` shows which steps leave it alone, and one lemma
per action names the abstract step or the stutter.

**OrphanInv** is a bound on a set: the stranded jobs are finitely many and no more than
`faults`. `Jobs` need not be finite, since a fault adds one job, the one that its worker had
in hand, and no other step adds any (`OrphansProcess`, `OrphansClaimStep`, `OrphansJobStep`).
Two things are behind this: a commit whose reply is lost turns one row `in_progress` without
a holder, and a worker that stops or restarts has nothing in hand.

**The delays** need no history: `NearInv` is the property and the range of the count.
`ComputeBaseDelay` reads the sequence for the first five failures and takes `2 ^ (n - 1)` after them,
`SequenceIsDocumented` shows that the document's doubling is both, `JitterBounds` bounds what a draw
can add, and `RoundBounds` what `Math.round` can. The powers are where the provers stop: they know
`2 ^ k` for a literal `k` only, so that it is a natural number at all is a hypothesis from the
sixth failure on (`PowersAreNatural`); for the code's jobs, whose `max_retries` is always the
schema's 5, it says nothing. `QueueConsumerProofs` instantiates these lemmas with its own constants and
follows the delay from `FinalizeFailure` into the row (`RetriesKeepToSchedule`).

**SlotInv** is what the route relies on. `OneActiveRowPerSlot` is not inductive: a request that inserts has
looked at a snapshot, and rows have come and gone since. `LookupsSound` says what it still
knows: if it has found nothing, the rows of its slot that it saw are over, and none has its key.
`Serializable` covers the rows that came later, so that between them no row
of the slot is active and none has the key at the insert. Workers only ever take rows out of the active statuses or move them among
these (`RowSteps`, which a claim's and a finalizer's write both satisfy by `HolderInv`): a completed
or failed row never comes back beside a newer one. `KeysSound` and `AnswersSound` do the same for the key column and the
answers. The refinement maps states by identity; an insert is the queue's `Enqueue` with delay 0,
every other step of a request a stutter.

**FeedInv** says of every document, in the row, in the create handler and in
each attempt's hands, that its validators come with a fetch time, that the validator
that decides about a 304 is of its preview unless the preview came without that header
(`Coherent`), that no fetch time is in the future, and that errors are not older than what they stand beside (`ErrorRecent`).
It is a statement about
documents, so lost updates between attempts do not disturb it:
whichever document is written last is coherent. `ResultsSound` is the lemma
about a single validation, the rest moves documents around.

**ExecutionInv** relates the executions to the rows. `Numbered`: an
execution that has begun is of a number that the row has reached, and while the row has not counted
it, the row is not claimable and nobody but its own worker may hold the job, so nobody begins another. `UnderWay`: one that
is not over is what its worker is running now. `Reports` and `History` carry what
an execution did to the outcome in the worker's hands and from there to the row.
`ReadOrReplaced` follows the connector row from a read to the write. With
`OneHolder` and `ClaimedRows`, which the first refinement brings over from the queue,
these are inductive. Both refinements map states by identity, so
a step is one of the queue's, one of the connector's, or (`Perish`) both at once.

**OnboardingInv** has a conjunct per property. `PayloadSound`: an authorized entry has the
payload of a callback of its own flow that succeeded. `EntrySpent`: the entry of a
request that has passed its checks is gone, for good, and the tokens and calendars it took are
that callback's; `FeedHasNone` keeps feeds out of this. With `OneUser` this gives one connector per authorization, since a
request that passes later would need the entry. `DoneSoFar` and `ResultSoFar`
list what is stored at each await, which at `created` is everything.
`QueuedLast` and `AttemptsAfter` say that jobs run only for handlers that
have nothing left to write.

`IdsDecide` adds that a follow-up job has been answered with an error, since no provider knows the ids of rows,
and that a job with the provider's ids is answered well where nothing fails.

**PageInv** has a strengthening per property: `TestingInWizard` and `OneFlag` (the calendar form, which is
there without the wizard only, cannot submit during a test) with `TestsAwaited` (a test that was neither left nor
begun beside another is the only one, so no answer but its own clears the flag), `TestsKnowForm` (a test
under way whose form has not changed is of the form in the wizard). `Spent` follows an authorization: no 201 leaves it
usable (`SpentByCreation`), so a context that is loaded from then on is without it, and stays so unless the mount's load is still
to be answered (`FreshWithout`); an announcement starts a navigation, which leaves the query or fails
(`LeavingWhenAnnounced`).

**PortalInv** joins `BootInv`, where `OwesLog` says that an instance that has created an
administrator is the only one to log it and has not yet, with `TabSound`: an undisturbed tab may rely on a token to come being of a
live session (`TokenSound`), on its form's token being the browser's (`FormSound`), and on a login
and the visit after it to succeed (`LoginSound`). `AskTokenSound`, `AskLoginSound`,
`AskPageSound` and `ShowSound` are about a request, whichever step sends it; `OthersSound` is why a step of one tab
leaves an undisturbed other one alone: it changes no cookie, ends no session, and takes a
new session only if nobody refers to it.

Only model-checked: the liveness properties (`QueueLiveness.cfg`, `ButtonsComeBack`, `GetsIn`), which need
fairness and ENABLED; and that powers of two are natural numbers, where `TwelveDelaysNearDocumented`
ends, which is an induction. Every invariant and every action property that a
passing run checks is stated by a theorem.

## Disagreements found

1. `breaker_alert`: a success that finds no statistics row acknowledges the
   alert of a pause it does not clear (`queue.ts:223-246`). It takes two workers: `LoneWorkerKeepsAlerts`.
2. `stale_write`: an executor writes back the document it read before its fetch
   (`executors/html-ics.ts:54` and `129`), so a slow job undoes a later one; one that was not overtaken does not (`FetchTimeKept`).
3. `validation_ids`: the follow-up job of an OAuth connector names the calendars' rows
   (`services/connectors.ts:620`) where the executor needs the provider's ids: it always
   fails (`FollowUpsNeverValidate`), and the connector that was validated on creation is not any more.

Two more break a documented claim, without a run of their own. The jitter is added after the 30-minute
cap (`backoff.ts:33-43`), where `error-handling-strategy.md:20` has retries stay within it: with `retryCount > 0 =>
delay <= MaxDelay` as the invariant of `RetrySchedule.cfg`, TLC finds a wait of 30.6 minutes (up to 33 are possible) after
the sixth failure, which the default `max_retries` of 5 does not allow. And the fields of the feed wizard stay enabled
during a test, whose answer becomes the validation of the form as it is by then (`page.tsx:538-540`), so that a
form can be saved that was never tested, where `front-end-spec.md:184` has Save disabled until validations pass:
this is the `late` case of `ResultMatchesForm`.

Seen while modelling: signals have no handler while `start()` drains
the queue (`worker.ts:53`), and the job in hand is stranded (`KillBySignal` when
`booting`); a keyed request answered with another request's job leaves no trace of its key
(`schedule.ts:48-62`), so that sent again later it makes a second job, where
`docs/stories/1.4.database-job-queue-and-worker-loop-scaffold.md:115` expects none; a test that goes on behind a closed wizard clears, when it is answered,
the flag of the test that a new wizard has begun (`page.tsx:556`), so that Save is enabled during the latter and a test and a submission
are under way from one open wizard (the second case of `TestOrSubmit`); a spent authorization is still offered, and can be submitted once more, until
`router.replace` has committed, or for good if that fails, when the context could not be loaded again or the mount's
load is answered last (`page.tsx:469` and `483`, the exception of `OfferedOnlyIfStale`); the creation handlers
write without a transaction (`services/connectors.ts:529`), so that a failure may leave a
connector without calendars behind an answer of 422 and spend the authorization (`StatementFails`); the
middleware logs the browser out when it cannot reach the API (`middleware.ts:77`, `AskPage`), and
its deletion may hit a cookie that another tab has just been given; a save's answer closes
whatever wizard is open by then (`page.tsx:619`), and every new context selects all calendars again
(286-303); the breaker counts a
job's old failures again after another job's success
(`queue.ts:315`, against "5 consecutive failures" in
`error-handling-strategy.md:21`; it is what makes `ExhaustedJobPausesPair` true); a payload without a registered type, which `POST /jobs/schedule` accepts, fails on every retry and
pauses the connector for its healthy jobs (`executors/sync.ts:65`); the code of a redirect is redeemed before the profile and the
calendars are read, so that a failure there, or a reload, cannot be repaired without a new consent
(`services/connectors.ts:230`); a validation job falls due an hour after the tokens were issued, and nothing
uses the refresh token; a 304 after a failed attempt leaves the
failure's issues beside a status of validated (`html-ics.ts:139`, `ErrorsAreRecent` bounds how long); the pause is
read outside of the transaction that inserts the job (`schedule.ts:116`); an administrator whose creator dies
before its audit log is never logged (`bootstrap-admin.ts:127`); `last_validated_at`
of a feed is set by failed attempts too (`executors/html-ics.ts:133`); the
branch of `queueHtmlIcsSyncJob` that resets an existing job (407-421) cannot be reached for
a connector that has just been made.

## Not modelled

Configuration, encryption, metrics, the adapter registry, PKCE, the server's wiring, the
shell and the theme of the portal, the UI package, seed and
smoke scripts keep no state that another part depends on; schemas appear as the
columns and keys of the modules that use them. Of the repositories, the statements that
write are steps of the modules whose handlers call them; read-only lookups are left out. The
list of connectors on the portal's page (which of two loads is answered last) is not in
`ConnectorsPage`. `JobExecution` routes feed jobs; `connector_validation` jobs run in
`Onboarding`, beside the handlers that race them.

## Plan

In this order, most important first:

1. The queue below `Onboarding`'s jobs, as `JobExecution` does for the feed's, with liveness:
   a connector's job is run in the end.
2. An abstract specification of a connector's life (authorized, stored, validated, stale) that
   `Onboarding` and `FeedSync` both implement.
3. The list of connectors in `ConnectorsPage`.
4. More of what the page and the portal promise in the proofs of their parts: each step of liveness
   that is a safety property (that a settled request clears its flag, that a refusal brings a new token).
