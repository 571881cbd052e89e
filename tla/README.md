# A verification of mib-shared

TLA+ models, model-checked with TLC, and theorems proved with TLAPS, of
`mib-shared`: the mechanics every MIB service imports. Line numbers refer to
`src/mib_shared/`.

## 1. The system

`mib-shared` is a library: it runs inside every service, and its concurrency is
that of the service (asyncio tasks, worker threads, several processes sharing one
Redis, several services sharing one database schema).

| component | state it keeps | operations | what makes it correct |
|---|---|---|---|
| Key cache `keys.JWKSCache` | held keys, time of fetch, time to live, time of last attempt, a lock, a retry task | `get`, `warm`, retry task, `_refresh`, `aclose` | a key published early enough is accepted; a held key survives outages; a withdrawn key goes; the lock is never left; the service becomes ready by itself |
| Guest allowance `guest.consume/release/status` | one Redis set per subject and day | `SADD SCARD EXPIRE SREM`, one at a time | never more than the limit, a use is free the second time, a refusal is justified, every key expires |
| Guest token `guest` | none | mint, verify | decided from the token alone |
| Traced client `http_client` | per call: attempt, last failure | `request` (async and sync), fallback | unsafe calls at most once, the whole budget before giving up, fallback covers, calls end |
| Model callers `embeddings`, `generation` | none | `embed_batch`, `complete` | an error's class tells whether to try again; vectors match inputs |
| OSS client `oss` | the bucket (external) | get, put, delete, list, iterate | the stored object is what was put last; a listing is complete |
| Tracing `tracing`, `errors`, `telemetry` | the task's context and log fields, the carrier on a queued job | bind, reset, restore, middleware, error envelope | every response carries the trace of its own request; no line, call or job carries that of other work |
| User authentication `auth` | none (uses the key cache) | verify, bearer, capability, optional | the decision table; 401 and 403 |
| Service authentication `auth` | environment of each service | `require_service`, `service_call_headers` | token rotation refuses no live caller |
| Readiness `readiness` | worker threads | `evaluate_readiness`, `/health`, `/ready` | answers within its deadline, ready only if every check is |
| Migrations `migrations` | one schema shared by services, a version table each | autogenerate, upgrade | no deploy drops a table of anybody |
| Feature switches `features` | the environment, read at every request | `require_feature` | a feature switched off answers 404 before anything else |
| Lints, visitor address, logging set-up | none | pure functions | decision tables |

Interactions. `verify_access_token` awaits `JWKSCache.get`, and every failure of
it becomes a 401; `JWKSCache`, `OSSClient`, `EmbeddingCaller` and
`GenerationCaller` make their calls through `TracedAsyncClient.request`; that
takes the trace of the current context; `/ready` reads `has_keys`. The guest
allowance meets other processes only in Redis. A deploy of a service runs its
migrations against the shared schema and restarts its process, which is when a
service token that was edited in its environment file comes into force.

Hard behaviours: tasks that wait for one lock and act on what they read before
the wait; a cooldown, an age and a time to live that interact; cancellation and
exceptions under the lock; four separate Redis commands per use, racing calls,
calls that break off between or inside commands, a midnight between them; lost
answers, late requests and retries; contexts nested in one another and closed by
exceptions; jobs that run again, long after their request; timeouts of probes racing
their answers and the deadline; edits, restarts and deploys of two services in any
order. `PROJECT.json` lists them as hazards, each at
its line, with the properties that would catch it going wrong.

## 2. What is modelled

### JwksCache, KeyRing (`keys.py`)

Request tasks call `get`, the service's startup calls `warm` (any number of
times), the retry task loops, `aclose` ends it. Each await is a point between two
actions; between awaits the event loop runs one task, so what stands between two
awaits is one action. `pc` says where a task is: waiting for the lock, fetching
under it, or (the retry task) sleeping.

| code | actions |
|---|---|
| `get` up to `_refresh` | `GetFromCache`, `GetNeedsRefresh` |
| `_refresh`: lock, early returns | `SkipRefresh` |
| `_refresh`: stamp and fetch | `StartFetch` |
| `_refresh`: after the answer | `Install`, `Keep`, `Propagate` |
| what the caller does next | `ReturnToGet`, `ReturnToWarm`, `ReturnToRetry`, inside the actions above |
| cancellation of a request | `Abandon` |
| `warm`, retry loop, `aclose` | `BeginWarm`, `RetryAgain`, `RetryDone`, `Close` |
| identity, clock (external) | `Publish`, `Withdraw`, `AnswerOk`, `AnswerBad`, `Tick` |

Ages instead of clock readings: the code only compares differences of
`time.monotonic()` with intervals. Ages saturate at `Horizon`, which the
assumption `IntervalAssumption` keeps beyond every interval plus a fetch, so no
comparison changes. A fetch takes at most `FetchMax`. `anyio.Lock` is fair; the
model lets any waiter have it, which allows more. `Init` has both a fresh clock
(`_last_attempt = 0.0` just now) and one that has run for long.

`lastOutcome`, `due`, `verdict` and `sinceChange` are history: no action's guard
reads the first three.

`KeyRing` is the abstract specification: identity publishes and withdraws; a service
asks for its document (`Ask`), for at most `Lag` ticks (`Pass`; for the cache: one
fetch), sees what stands at one instant of these (`See`), and then puts all of it in
place of the keys held (`Replace`) or keeps what it has (`GiveUp`). So the keys held are
always one document of identity, as it was at one instant, and never none again. Nothing
in it says when; that is what `RotationRule` and `RemovedKeyBound` bound. The cache
implements it with `asking` for the lock, `document` for the keys of the answer in hand
and `age` for the age of the attempt under way.

### GuestAllowance, DailyAllowance (`guest.py`)

One action per Redis command of `consume` and `release`, for any number of tasks
(of any number of processes) of one subject and prefix. `Break` ends a call at any
command, which may have taken effect or not: that covers `AllowanceUnavailable`,
cancellation and the death of the process. `NextDay` turns the day between any two
commands; `Purge` lets a past day's key expire (its hour of grace is longer than
any call, the guard says).

What callers do is theirs: `Careful` says whether the model's callers keep
two rules: never two calls for one use at once; a use is given back on its day, or
when it has not been counted again since. Neither is enforced by the code; the run
`guest_shared_use` shows what the first is for. A caller may well try again a use
whose call broke off, and then the use may be in the set already and be free: the
history variable `retried` keeps these uses, and `AdmittedWithinLimit` bounds all
others. So the excess of a day is at most the number of uses tried again.

`DailyAllowance` is the abstract specification: `Grant`, `GiveBack` and `Waive` on
two sets per day. `GuestAllowance` implements it with `granted <- admitted` and
`waived <- retried`.

### TracedCall, RemoteCall, ModelCalls (`http_client.py`, `embeddings.py`, `generation.py`)

One call of `request` from its first attempt to its return, over a network that
loses requests and answers and delivers requests late, also those the client has
given up. The asynchronous and the synchronous client have the same loop.
A status is one of five classes: `ok` (2xx), `moved` (3xx, which `request` returns
unfollowed), `wrong` (4xx but 429), `busy` (429, 502, 503, 504) and `fault` (500 and the
other 5xx). Of the service it is assumed that a request answered `ok` was carried out
and one answered `wrong` was not; `moved`, `busy` (a gateway's 502 or 504) and `fault`
may come for either. `Propagate` is every exception the loop does not catch,
cancellation included.

`RemoteCall` is the abstract specification, a call as its caller sees it: `CarryOut`,
once unless it may be repeated, and `Return`, whose outcome says what the service did
and whether there was a fallback. Attempts, waits and what is on the network are not in
it; `TracedCall` implements it with `carried <- Carried`.

Calls share nothing but the connection pool, so one call (`Calls = {c1}`) with
all twelve kinds of request is enough for TLC; the theorems are for any set.

`ModelCalls` extends it by `embed_batch` and `complete`, each of which is one traced
call. `AnswerAtOnce` is what `embed_batch` decides without a call (no texts, too
many, a blank one); `Interpret` is what becomes of the call's outcome: a result, a
transient or a permanent error, or an exception that is neither (`"other"`).
`VectorsFrom` is `_vectors_from`, entry by entry: a body is any sequence of entries
with an index in range or not, and a vector, something that is none, or a list that
`float()` refuses; the first entry at fault decides (`FaultError`). The vector
returned for an input is named after the text it embeds.

### OssObject (`oss.py`: `put_object`, `delete_object`)

Extends `TracedCall`: one caller's puts and deletes of one object, awaited one
after the other, each a traced call declared repeatable. `Open` starts a call,
`Digest` is `_file_md5_and_size` in its thread, piece by piece, `Read` and `Post`
are an attempt reading the file again and sending it, `Try` the rest of `request`
(`Fail`, `Receive`, `Wake`, `Propagate` of `TracedCall`), `Arrive` the request
reaching OSS at any later time: it compares the body with `Content-MD5` and, if the
request is carried out, replaces or removes the object. `Rewrite` is anybody
writing to the file, in place, between any two reads. The HTTP library raises a
transport error for a body whose length is not the `Content-Length`, so that there the
only way on is `Fail` (or `Propagate`): a body that is too short never arrives as a
whole, and of one that is too long (`Body`) the part that `Content-Length` speaks of was
sent before the excess is read (`BodyEnded`), and may be carried out although the client
sees an error. The client reads a file in pieces; a body is the function of its pieces,
and MD5 is taken to tell bodies apart.

`touched` and `clean` are history: whether the file was rewritten during a call,
and whether none of the caller's earlier requests was still on its way when it
began. Other writers of the same object and permission errors (403) are left out.

### OssListing (`oss.py`: `list_objects`, `iter_objects`)

`Begin`, then for each page `Serve` (OSS, from the bucket as it is then; a retry is
served again) and `Receive` (`_parse_listing`) or `Raise`; `Yield` hands one entry to
the consumer, during which anything may happen; `FollowMarker` and `Finish` are the
end of the loop's body; `Leave` is a consumer that stops. `Put` and `Delete` change
the bucket at any time. Keys are numbers in listing order. OSS's answer is external:
at most `PageSize` keys after the marker, and `NextMarker` exactly when there are
more, as the comment of `_parse_listing` says it does. An empty page that says it is
truncated, which would end the walk early, is therefore not modelled.

### TracedRequests, Exchange (`tracing.py`, `errors.py`, `auth.py`, `features.py`)

A request from its arrival at `TracingMiddleware` to the client's response and the
`request_completed` line, in a service that also calls others, enqueues jobs and runs
them, on a worker or in a request's own task (a background task).

| code | actions |
|---|---|
| middleware up to the application, `new_trace_context`, `bind_context` | `Arrive` |
| `require_feature`; `bearer_principal`, `require_capability`, `optional_principal` up to the await of `keys.get` | `Authenticate` |
| `verify_access_token` after the await, and what its wrappers decide | `Verify` (`Accept`) |
| an endpoint that starts its response, ends, raises an `HTTPException`, raises anything else | `Respond`, `Complete`, `RaiseHttp`, `RaiseUnhandled` |
| `_http_error`, `_validation_error` | `HttpError` |
| `_unhandled`, called by Starlette's outermost middleware | `ServerError` |
| cancellation inside and outside the middleware | `Cancel`, `CancelOutside` |
| `_traced_headers` of a call | `Call` |
| `trace_carrier`, `restored_trace` and its end | `Enqueue`, `RestoreTrace`, `LeaveJob` |

`current`, `stack` and `fields` are the two kinds of context variables of each task
and the tokens of the contexts open in it. What a job or a header carries may come
back at any time and any number of times (`carrier`, `wire`), so a retried or late
call and a job delivered twice are covered. `root` and `origin` are history: whose
arrival began the work that a request or job is part of, and which request it
belongs to; `closed` remembers that the last change of a task's context closed a
nested one. What the key cache and `jwt.decode` say is one choice: the
credential decides whether it can be accepted, any failure of `keys.get` refuses it.
A call made outside any context gets a fresh trace for each attempt, which the
model names after the task. `Exchange` is the abstract specification of a request as
its client and the operator see it: at most one `Answer`, which the request deserves
(`Deserved`: what 401, 403, 404, and getting in at all, follow from) and which carries
its own reference; at most one line (`Log`), which agrees with the answer; and no end
of an answered request without its line. A trace is named after whoever began it, so that two
traces are equal only if they should be; the 128 random bits are taken to be distinct.

### ServiceTokens, Readiness, Migrations, composed in Deployment

`ServiceTokens` (`auth.py`): the environment of a receiver and the token of its
caller, each as its file says (`file`, `given`) and as its process was started with
(`live`, `presented`). `AddNew`, `GiveNew`, `RemoveOld` are the three steps of the
docstring, `MoveToDigest` the change from the plain to the digest form at any time in
between; `RestartReceiver` and `RestartCaller` may come at any time, wanted or not.
`ServiceCredentials` and `RequireService` are the code's decision.

`Readiness` (`readiness.py`): one `/ready` call. `Evaluate` presets every verdict to
`timeout` and starts all probes, `Answer`, `ProbeTimeout` and `Deadline` race, `Report`
is the answer. `Wedge` and `Recover` are a dependency that stops answering at all,
its probe's thread left behind. Two calls share only the worker threads.

`Migrations` (`migrations.py`): services that share a schema. `Autogenerate` compares
the tables the next release declares with those Alembic reflects through
`own_tables_only`, as they are on that day; `RunMigrations` and `FailMigrations` run
the revision when its release is deployed, on the schema of that day.

`Deployment` composes them: a deploy runs the migrations and, if they succeed,
restarts the process, with the environment file as it is by then; a process also
restarts on its own. A restart of the receiver ends the `/ready` call under way.
Each part also has a specification of its own (`TokensSpec`, `ReadySpec`,
`MigrationsSpec`), which the composition implements.

## 3. What the runs check

Each property of a passing run has a mutant in `PROJECT.json`: a plausible bug in
the code, written as an operator beside the one it replaces, under which the same
run finds the property violated.

| run | bounds | shows |
|---|---|---|
| `jwks_rotation` | 2 requests, 2 kids, cooldown 1, lifetimes 1 and 2, fetches of 0 or 1 ticks, no startup | `RotationRule`, `HeldKeyNotRefused`, `RemovedKeyBound`, `IInv`, refinement of `KeyRing` |
| `jwks_startup` | 1 request, 1 kid, startup, retry task, close; lifetimes 1 and 2, fetches within a tick | `RetryLive`, `LockDiscipline`, `EveryGetReturns`, `StartupRecovers`, and no deadlock |
| `jwks_fails_static` | as above, fetches of 0 or 1 ticks | violated: see Findings |
| `guest_careful` | 3 tasks, 3 uses, limit 2, 2 days | the limit, exact count, expiry, justified refusals, refinement of `DailyAllowance` |
| `guest_shared_use` | 2 tasks, 2 uses, limit 1, 1 day, callers not careful | violated: see Findings |
| `traced_call` | 1 call of 3 attempts, all kinds, or an `embed_batch` of up to 2 texts, or a `complete` | at most once, budget, fallback, truth of the answer, of the result and of its class (`TransientButForFaults`), termination, `ModelInv`, refinement of `RemoteCall` |
| `oss_object` | 2 calls of 2 attempts, a file of 2 pieces rewritten once | `UntouchedNotRefused`, `RepeatsHarmless`, `OssIInv` |
| `oss_late_repeat` | a delete and a put of bytes after it, 2 attempts each, 1 piece | violated: see Findings |
| `oss_listing` | 5 keys, pages of 2, any bucket to begin with | `OnceInOrder`, `CompleteListing`, `IterationEnds`, `IInv` |
| `requests` | 2 requests, 1 job, 1 worker, 2 contexts open at once in a task | `AnsweredUnderItsTrace`, `OneTrace`, `LinesOfTheScope`, `PrincipalIsPresented`, refinement of `Exchange` |
| `request_line` | 1 request, 1 job, no worker | violated: see Findings |
| `deployment` | 2 services of 2 releases, 2 tables one of which moves between them, 2 tokens, 2 checks | `RotationSafe`, `ReadyMeansReady`, `EveryReadyAnswers`, `TablesKept`, and no deadlock |

Why the bounds are enough to be interesting. Two requests suffice for one to wait
while the other fetches, and two kids for a rotation; with a cooldown of one tick,
lifetimes of one and two and a fetch of up to one, every order of "cooldown over",
"cache expired" and "key old enough" occurs. The startup is left out of
`jwks_rotation` (constraint `NoStartup`) and has a run of its own. Three uses and
a limit of two let two calls race at the edge while a third is granted; two days
put midnight between any two commands; calls break off for at most two uses, of one
day or of two (constraint `FewBreaks`). Three attempts have a first, a middle and a
last one. Batches of up to two texts have bodies of up to three entries: too few, too
many, swapped, repeated and out of range. Symmetry is used for requests, kids (all well formed), tasks and uses in
runs of safety properties only.

Documents with a malformed key are left to the proofs, which hold for any set of
them (`Malformed`): no run has one.

For the object, two calls are one and a later one, two attempts a late one and
one that succeeded, and one rewrite can fall between any two of the pieces read for
the digest and the bodies. Contents are few (constraint `FewContents`): a file of one
piece that is rewritten to two others, so that two reads differ in nothing, in a piece
or in length. A put of bytes, which is one of a file nobody rewrites, is left to
`oss_late_repeat`; of two puts or two deletes only one has a repeat (`FewAttempts`); and
a 3xx, which fares like a 500, is left out (`FewAnswers`). The theorems need none of
this. Five keys and pages of two give one, two and three pages, and empty ones.

Two requests are one that calls and one that is called, or one that enqueues a job
and one in whose task the job runs; two contexts open at once are a request and a
job inside it, or a job twice over on a worker. `MCAsks` has a public page and a
member's route with the credentials that tell them apart, a feature switched off and
a probe that is not logged. Two releases of two services let a table move while the
other service's revision is waiting; two tokens are an old and a new one, and a
rotation may be repeated with the old one as the new.

Deadlock is checked in the JWKS, listing and deployment runs. The guest runs stop at
their last day when every use belongs to a broken call, a traced call stops when it
has returned, and requests when all are done and the job has a carrier, so there and
in the runs of the object it is not.

Fairness (`JwksCache.Fairness`): the event loop runs every task that can run, time
passes, a fetch ends (the traced client bounds it), and the lock, which anyio
hands out in order, is not withheld from a waiter for ever (strong fairness: it is
free again and again). `StartupRecovers` assumes more, of identity and of the
callers, in its own statement (`IdentityRecovers`). `TracedCall.LiveSpec`: a call
goes on, and a wait ends, by an answer or by its timeout; the client sets a
timeout on every request (`DEFAULT_TIMEOUT`), but per read, so an answer that
trickles is taken to end too. `OssListing.LiveSpec`: a request for a page is
answered or given up (a traced call ends), and the consumer goes on or stops; storing
and deleting need no fairness, and may go on for ever. `Deployment.LiveSpec`: the
event loop runs the timer of `/ready`'s deadline and then finishes the call; no
dependency is assumed to answer, nobody to deploy or rotate.

## 4. What is proved

For every value of the constants that the modules' assumptions allow. Each component has
an inductive invariant, which TLC checks too: in the runs named above, but for those of
`TracedRequests` and `Deployment`, which would lengthen them and were checked apart, on
the same instances.

A component with an abstract specification is proved to implement it, and of each
abstract specification but `RemoteCall`, whose actions say it all, it is proved what it
gives by itself, so that the refinement is not an empty one. Some properties are
theorems without being in a run, to keep the runs short: `KeysNeverEmptied` and
`LoggedAsAnswered`, which follow from the refinements that are in one, and
`RefreshAdvances`, `MarkerAdvances`, `ReadyAdvances`, which are about progress. They
were checked by TLC apart.

`JwksCache_proofs`. Types, `LockDiscipline`, `RetryLive`, `RotationRule`,
`HeldKeyNotRefused`, `RemovedKeyBound`, `KeysNeverEmptied`, the refinement of `KeyRing`.
The properties are not inductive: whether a refusal is right depends on what the cache
was worth after the last attempt. `IInv` adds what an answer in hand contains
(`ReplyCurrent`: every key published before the attempt began), what therefore the cache
contains after a successful attempt (`CacheCurrent`), what a waiting `get` may rely on
although the cache changes while it waits (`CallsCurrent`), and how old a withdrawn key
can be relative to its set (`WithdrawnBound`). From `CacheCurrent`: a waiting get that
is stopped by the cooldown, whose key was published a whole cooldown before, finds it in
the set the last attempt fetched, unless that attempt failed. What `Bounds` says of the
lock and the attempt's age give `RefinementTheorem`: `StartFetch` is `Ask`, a good
answer `See`, `Install` `Replace`, every other end of an attempt `GiveUp`
(`RingGivesUp`); that a ring is never emptied and never loses a key that stands is
`RingKeepsKeys`. `RefreshTheorem`: from the wait for the lock on, every step of a task
in `_refresh` brings its end nearer (`StepsLeft`, at most three), no other task moves it
away, and whoever has the lock has a step to take.

`GuestAllowance_proofs`. Types for all callers; for careful ones `AdmittedWithinLimit`
(`LimitTheorem`) and the refinement of `DailyAllowance` (`RefinementTheorem`). The limit
is not inductive: a call counts the set long before it answers. `Passed(d)` adds to the
uses granted those whose call has counted within the limit and not yet answered. While a
day can still grant, all of `Passed(d)` is in its set; a call that counts sees itself
and all of them, so if it counts at most `Limit`, they are at most `Limit` with it
(`ScardOfAddedInv`). `Accounted` and `CallsCurrent` say whose the members of a set are,
which is where careful callers matter: only then does "not added" mean "granted, or
tried again". That the abstract specification alone keeps the limit is
`DailyWithinLimit`. Also `CountIsExact` (`CountTheorem`) and `RefusalJustified`
(`RefusalTheorem`). `EveryKeyExpires` (`ExpiryTheorem`) needs `KeysKept`, for any
callers: a set without a time to live belongs to a call between `SADD` and `EXPIRE`, or
one that broke off there.

`TracedCall_proofs`. Types, `UnsafeAtMostOnce`, `OnlyAfterBudget`, `FallbackCovers`,
`AnswerIsTrue`, the refinement of `RemoteCall`. `IInv` says that no request is sent
before its turn and none beyond the budget (`Budget`), that an answer in hand is that of
the attempt under way (`Answer`) and what a returned call implies (`Outcome`). For the
refinement: a late request of a call that is not repeatable is its only one
(`OnlyTheFirst`), so nothing is carried out after its caller was told "wrong".
`ProgressTheorem`: at most three steps for each attempt of the budget, each of which
brings the end nearer, and none after the return.

`ModelCalls_proofs`. `TracedTheorem`: its calls are traced calls, so these theorems hold
of them. `ResultsAreTrue` for any batch: in a body of as many entries as texts, none out
of range and none repeated, every index occurs (`EveryIndexIsThere`, by the pigeonhole
principle), so every text gets its own vector. It follows that the check for a missing
index (`embeddings.py` 175-177) never fires. `VectorsTheorem` says exactly which bodies
are accepted: one entry with a vector for each text and no other, in whatever order; the
converse of the pigeonhole argument, that no entry of such a body is at fault, is
`EveryIndexOnce`. `TransientTheorem` is what does hold of the claim that a transient
error means a spent budget. `CallsTheorem` carries the refinement of `RemoteCall` and the four properties
of traced calls over.

`OssObject_proofs`. `TracedTheorem`: the calls of `OssObject` are traced calls, so every
theorem above holds of them, and `TracedCall`'s inductive invariant is part of this one.
On top of it `OssIInv` says that nothing is sent before digest and body are complete
(`Posted`), that without a rewrite all reads agree (`Undisturbed`), and that after a
call of a quiet caller was carried out nothing but a later call moves the object
(`Kept`), whatever late attempts arrive. From it: `UntouchedNotRefused` and
`RepeatsHarmless`, for any number of calls, attempts, pieces and rewrites. A read that
goes on after the body was complete does not change what was sent (`ReadInv`).
`CallsTheorem` as above.

`OssListing_proofs`. `OnceInOrder` and `CompleteListing`. `Forward`: keys at hand or in
an answer lie behind all keys yielded. `Covered`: a key that stayed is yielded, at hand,
or beyond the marker. `CompleteListing` is also about listings that are left or raise:
they have skipped nothing. `MarkerTheorem`: a further page is always asked for from
beyond the last, so the number of pages is bounded by the keys.

`TracedRequests_proofs`. All properties, for any number of requests, jobs and workers
and any depth. `IInv` says of each task that every open context gives back what the one
around it had bound and whose ids the log fields have (`Nested`, `Attributed`), of each job that its carrier is its request's
(`Carried`), of each request that its own context is the outermost one and the one
stashed on its scope (`Stashed`), and what has been answered and logged, and on whose
behalf, at each point of its way (`Answered`, `Logged`, `Asking`, `Principal`). The
refinement of `Exchange` (`RefinementTheorem`) goes handler by handler
(`AuthenticatePromised`, `VerifyPromised`, `LeavePromised`, `HandlePromised`); beyond
`IInv` it needs that an endpoint that failed had been entered (`Entered`), since only
then is its 500 deserved. What the exchange gives by itself is `ExchangeKeeps`.

`Deployment_proofs`. `RotationSafe`, `ReadyMeansReady` and `TablesKept`. Each is proved
of its part alone, and `PartsTheorem` shows that the composition, whose deploys and
crashes move several parts at once, is no more than its parts. `TokensInv`: both tokens
of the caller, that of its file and that of its process, are accepted by both
environments of the receiver, so it does not matter who is restarted next;
`OnlyTheListed` says which tokens an environment accepts. `ReadyInv`: a verdict is good
exactly if its check has answered well in this call, which is where distinct names
matter. `ReadyAdvancesTheorem`: a call under way has a step that needs nobody's answer,
and nothing moves its end away. `MigrationsInv`: a waiting revision drops nothing, and
creates whatever of its release is missing, whatever the schema has become.

Only model-checked: liveness (`EveryGetReturns`, `StartupRecovers`, `EveryCallEnds`,
`IterationEnds`, `EveryReadyAnswers`), which is outside the prover's reach. For all but
`StartupRecovers` the safety half is proved, a measure that the steps of a call lower
and nothing raises (`RefreshTheorem`, `ProgressTheorem`, `MarkerTheorem`,
`ReadyAdvancesTheorem`); that these steps are taken is fairness. Nor could what a
recursive definition computes be proved for every input; the modules have none.

## 5. Findings

1. `jwks_fails_static`. README.md 162 and keys.py 130 say a failed refresh fails
   static. An exception of the fetch other than a timeout or a transport error
   (a body that cannot be decoded, a closed client) leaves `get` although the key
   is held. In the trace the cache has expired, and a `get` that found its key
   refreshes it.
2. `guest_shared_use`. guest.py 19-21 says racing uses fail towards the
   cost-safe side. Two calls at once for the same use do not: the second finds the
   member of the first, which is about to be refused, and is allowed.
3. `oss_late_repeat`. oss.py 205 and 249 say that a repeat is harmless. It is while
   nothing else is called on the key (`RepeatsHarmless`, proved). A delete succeeds on
   its second attempt, a put succeeds after it, and the delete's first attempt then
   arrives: every call succeeded and the new object is gone. A late put brings a deleted
   object back in the same way.
4. `request_line`. tracing.py 198 says the completion line carries trace_id, span_id and
   request_id. `reset_context` unbinds the fields and does not restore them: after a
   context nested in a request has been closed (a job run under `restored_trace` in the
   request's task), the request's later lines, `request_completed` among them, carry
   none. What does hold is `LinesOfTheScope`, proved: never another's trace.

Further remarks, without a run of their own:

- embeddings.py 193 and generation.py 227 say that "429 and 5xx have been retried by
  the shared client by the time they arrive here, so seeing one means the budget is
  spent". A 500, 501 or 505 is tried once (`RETRY_STATUSES`, http_client.py 30) and is
  transient all the same. What holds is `TransientButForFaults`, checked and proved: the
  budget is spent, or the answer was a 5xx that `request` does not retry.
- `bind_context` leaves the request id that is bound when its context has none
  (tracing.py 129-133): a job that no request enqueued, run inside a request, logs under
  its own trace with that request's id. `LinesOfTheScope` allows just that.
- A withdrawn key outlives its lifetime for as long as every attempt fails or is answered
  with no usable key (`RemovedKeyBound`), by the fail-static rule of README.md 162; the
  comment at keys.py 36-38 ("a removed key stays accepted for at most this long") reads
  as if there were no such case.
- `EmbeddingError` is there "so a caller can catch every failure from one call"
  (embeddings.py 39). What `float()` raises for an entry that is no number, and the
  exceptions of `request` other than timeouts and transport errors, pass through
  `embed_batch` and `complete` as they are (`"other"` in `ModelCalls`).
- The 500 of an unhandled exception is built outside the middleware and has the
  envelope's trace headers but no `traceparent`.
- The envelope drops the headers of an `HTTPException` (errors.py 43-96), a 401's
  `WWW-Authenticate` (README.md 149) among them. No property is about them.
- Two readiness checks of one name overwrite each other's verdict; that names differ
  is `NameAssumption` in `Readiness`, and nothing in the code checks it.

## 6. Not modelled, and what could follow

Not modelled, because there is no state and no order of events in it: the guest
token, the fixed key (`StaticKey`), the visitor address, the logging set-up, the two
lints, `parse_features_off` (read once, at the start, to refuse unknown names) and
`with_connect_timeout`.

Left out of a modelled part: signatures and their encoding; the jitter of the
backoff; durations of calls; spans and the sampled flag of a trace; what
`jwt.decode` checks one by one; columns of tables, and Alembic's offline mode, which
only prints; several event loops that share one key cache; a second retry task beside
the first; headers of an `HTTPException`; the number of threads that
probes leave behind, which the code bounds only through the connect timeout of a URL;
object requests of other writers.

What could follow: a startup run with malformed keys; the promise of `EmbeddingError`
(a finding with a run of its own); one model of `/ready` over `has_keys`, in place of
a dependency that just answers; larger instances of `requests`, now at the limit of
what one run of TLC should take.
