----------------------------- MODULE JwksCache -----------------------------
(***************************************************************************)
(* JWKSCache of keys.py: the process-wide cache of mib-identity's public   *)
(* keys.  Any number of request tasks call get(kid); the service's startup *)
(* calls warm(), which may leave one background task retrying; aclose()    *)
(* ends it.  All of them meet in _refresh, under one lock.                 *)
(*                                                                         *)
(* Identity (external) publishes and withdraws kids at any moment and may  *)
(* answer a fetch late, wrongly or not at all.                             *)
(*                                                                         *)
(* Time.  The code compares differences of time.monotonic() with           *)
(* intervals, so the model keeps ages: how long ago something happened,    *)
(* counted in ticks and saturating at Horizon, beyond every interval.      *)
(***************************************************************************)
EXTENDS Integers

CONSTANTS
  Kids,         \* key ids a token or the published document may carry
  Malformed,    \* kids whose published entry PyJWK rejects
  NoKid,        \* a token without a kid
  Requests,     \* request tasks
  Starter,      \* the task that runs warm()
  Retrier,      \* the background task warm() may create
  NoTask,       \* no holder of the lock
  MinInterval,  \* min_refresh_interval
  DefaultTtl,   \* ttl_seconds
  MaxTtl,       \* max_ttl_seconds
  MaxAges,      \* the max-age values identity may send (no-store is 0)
  FetchMax,     \* longest a fetch takes, its retries included
  Horizon       \* where ages saturate

Tasks == Requests \cup {Starter, Retrier}
NoHeader == -1

ASSUME IntervalAssumption ==
  /\ {MinInterval, DefaultTtl, MaxTtl, FetchMax, Horizon} \subseteq Nat
  /\ MaxAges \subseteq Nat
  /\ \A interval \in {MinInterval, DefaultTtl, MaxTtl} : interval + FetchMax < Horizon

ASSUME TaskAssumption ==
  /\ NoTask \notin Tasks
  /\ Starter \notin Requests /\ Retrier \notin Requests /\ Starter # Retrier
  /\ NoKid \notin Kids
  /\ Malformed \subseteq Kids

VARIABLES
  status,       \* identity: what each kid is, "unborn", "published" or "withdrawn"
  sinceChange,  \* identity: age of the kid's last change of status
  keys,         \* _keys: the kids held
  fetchAge,     \* age of _fetched_at
  ttl,          \* _ttl
  attemptAge,   \* age of _last_attempt
  lock,         \* holder of _lock
  reply,        \* what the fetch under the lock has come back with
  lastOutcome,  \* history: whether the last finished attempt installed keys
  pc,           \* where each task is
  token,        \* the kid a get in progress asks for
  unknown,      \* the unknown_kid argument of its _refresh
  due,          \* history: its kid had been published for MinInterval when it began
  verdict,      \* what the get that returned last came to
  warmed,       \* warm() has completed
  open          \* aclose() has not run

identity == <<status, sinceChange>>
cache    == <<keys, fetchAge, ttl>>
attempt  == <<attemptAge, lock, reply, lastOutcome>>
gets     == <<token, unknown, due, verdict>>
stage    == <<warmed, open>>
vars     == <<identity, cache, attempt, pc, gets, stage>>

Ages     == 0..Horizon
NoReply  == [outcome |-> "none", keys |-> {}, header |-> NoHeader]
Failed   == [NoReply EXCEPT !.outcome = "failed"]  \* no response, not 200, or unparseable
Raised   == [NoReply EXCEPT !.outcome = "raised"]  \* an exception request() does not catch
Replies  == [outcome : {"none", "ok", "failed", "raised"},
             keys    : SUBSET (Kids \ Malformed),
             header  : MaxAges \cup {NoHeader}]

TypeOK ==
  /\ status \in [Kids -> {"unborn", "published", "withdrawn"}]
  /\ sinceChange \in [Kids -> Ages]
  /\ keys \in SUBSET (Kids \ Malformed)
  /\ fetchAge \in Ages
  /\ ttl \in Nat
  /\ attemptAge \in Ages
  /\ lock \in Tasks \cup {NoTask}
  /\ reply \in Replies
  /\ lastOutcome \in {"none", "ok", "failed"}
  /\ pc \in [Tasks -> {"idle", "waiting", "fetching", "sleeping"}]
  /\ token \in [Requests -> Kids \cup {NoKid}]
  /\ unknown \in [Requests -> BOOLEAN]
  /\ due \in [Requests -> BOOLEAN]
  /\ verdict \in {"none", "key", "unavailable", "error"}
  /\ warmed \in BOOLEAN
  /\ open \in BOOLEAN

-----------------------------------------------------------------------------
(* Pure parts of the class *)

\* _ttl_from: the header's max-age between the two bounds, or ttl_seconds.
TtlFrom(header) ==
  IF header = NoHeader THEN DefaultTtl
  ELSE LET raised == IF header < MinInterval THEN MinInterval ELSE header
       IN  IF raised < MaxTtl THEN raised ELSE MaxTtl

Published == {k \in Kids : status[k] = "published"}

\* _parse: a malformed entry is skipped, not fatal to the document.
Parse(document) == document \ Malformed

\* The lookup of get: by kid, or the only key when the token names none.
Matching(kid, held) ==
  IF kid = NoKid THEN IF \E k \in held : held = {k} THEN held ELSE {}
  ELSE held \cap {kid}

Expired == fetchAge > ttl

Older(age) == IF age < Horizon THEN age + 1 ELSE age

-----------------------------------------------------------------------------
(* Identity and time (external) *)

Publish(k) ==
  /\ status[k] = "unborn"
  /\ status' = [status EXCEPT ![k] = "published"]
  /\ sinceChange' = [sinceChange EXCEPT ![k] = 0]
  /\ UNCHANGED <<cache, attempt, pc, gets, stage>>

Withdraw(k) ==
  /\ status[k] = "published"
  /\ status' = [status EXCEPT ![k] = "withdrawn"]
  /\ sinceChange' = [sinceChange EXCEPT ![k] = 0]
  /\ due' = [r \in Requests |-> due[r] /\ token[r] # k]
  /\ UNCHANGED <<cache, attempt, pc, token, unknown, verdict, stage>>

\* A fetch under way ends within FetchMax.
Tick ==
  /\ lock # NoTask => attemptAge < FetchMax
  /\ sinceChange' = [k \in Kids |-> Older(sinceChange[k])]
  /\ fetchAge' = Older(fetchAge)
  /\ attemptAge' = Older(attemptAge)
  /\ UNCHANGED <<status, keys, ttl, lock, reply, lastOutcome, pc, gets, stage>>

-----------------------------------------------------------------------------
(* get, up to its call of _refresh *)

\* The rule of keys.py 47-51: published, then left alone for the interval.
Ripe(kid) == /\ kid \in Parse(Published)
             /\ sinceChange[kid] >= MinInterval

GetFromCache(r, kid) ==
  /\ open /\ pc[r] = "idle"
  /\ Matching(kid, keys) # {} /\ ~Expired
  /\ verdict' = "key"
  /\ UNCHANGED <<identity, cache, attempt, pc, token, unknown, due, stage>>

GetNeedsRefresh(r, kid) ==
  /\ open /\ pc[r] = "idle"
  /\ Matching(kid, keys) = {} \/ Expired
  /\ pc' = [pc EXCEPT ![r] = "waiting"]
  /\ token' = [token EXCEPT ![r] = kid]
  /\ unknown' = [unknown EXCEPT ![r] = Matching(kid, keys) = {}]
  /\ due' = [due EXCEPT ![r] = Ripe(kid)]
  /\ UNCHANGED <<identity, cache, attempt, verdict, stage>>

-----------------------------------------------------------------------------
(* What each caller does when _refresh returns (raised = FALSE) or raises.  *)
(* `held' is the cache as _refresh left it; no task runs in between.        *)

ForgetCall(r) ==
  /\ token' = [token EXCEPT ![r] = NoKid]
  /\ unknown' = [unknown EXCEPT ![r] = FALSE]
  /\ due' = [due EXCEPT ![r] = FALSE]

ReturnToGet(r, held, raised) ==
  LET found == Matching(token[r], held)
  IN  /\ pc' = [pc EXCEPT ![r] = "idle"]
      /\ verdict' = IF raised THEN "error" ELSE IF found = {} THEN "unavailable" ELSE "key"
      /\ ForgetCall(r)
      /\ UNCHANGED stage

\* A bug the code does not have: warm starts no retry task.
WarmWithoutRetry(held) ==
  /\ warmed' = TRUE
  /\ pc' = [pc EXCEPT ![Starter] = "idle"]
  /\ UNCHANGED <<gets, open>>

\* warm swallows the exception; a second warm leaves a live retry task alone.
ReturnToWarm(held) ==
  /\ warmed' = TRUE
  /\ pc' = [pc EXCEPT ![Starter] = "idle",
                      ![Retrier] = IF held = {} /\ @ = "idle" THEN "sleeping" ELSE @]
  /\ UNCHANGED <<gets, open>>

\* A bug the code does not have: the task ends with its first attempt.
RetryOnce ==
  /\ pc' = [pc EXCEPT ![Retrier] = "idle"]
  /\ UNCHANGED <<gets, stage>>

\* Back to the head of the loop.  After an exception the task also sleeps
\* MinInterval; the wait at the head of the loop stands for both.
ReturnToRetry ==
  /\ pc' = [pc EXCEPT ![Retrier] = "sleeping"]
  /\ UNCHANGED <<gets, stage>>

Return(c, held, raised) ==
  \/ c \in Requests /\ ReturnToGet(c, held, raised)
  \/ c = Starter /\ ReturnToWarm(held)
  \/ c = Retrier /\ ReturnToRetry

-----------------------------------------------------------------------------
(* _refresh.  Acquiring the lock and the two early returns are one step:    *)
(* nobody else can change the cache in between.  anyio's lock is fair; the  *)
(* model lets any waiter have it.                                           *)

Fresh(c) == /\ keys # {} /\ ~Expired
            /\ ~(c \in Requests /\ unknown[c])

CoolingDown(c) == /\ keys # {} \/ c = Retrier
                  /\ attemptAge < MinInterval

SkipRefresh(c) ==
  /\ pc[c] = "waiting" /\ lock = NoTask
  /\ Fresh(c) \/ CoolingDown(c)
  /\ Return(c, keys, FALSE)
  /\ UNCHANGED <<identity, cache, attempt>>

StartFetch(c) ==
  /\ pc[c] = "waiting" /\ lock = NoTask
  /\ ~Fresh(c) /\ ~CoolingDown(c)
  /\ lock' = c
  /\ attemptAge' = 0
  /\ pc' = [pc EXCEPT ![c] = "fetching"]
  /\ UNCHANGED <<identity, cache, reply, lastOutcome, gets, stage>>

\* Identity answers with the document as it is now.  A closed client cannot.
AnswerOk ==
  /\ lock # NoTask /\ reply = NoReply /\ open
  /\ \E header \in MaxAges \cup {NoHeader} :
       reply' = [outcome |-> "ok", keys |-> Parse(Published), header |-> header]
  /\ UNCHANGED <<identity, cache, attemptAge, lock, lastOutcome, pc, gets, stage>>

AnswerBad ==
  /\ lock # NoTask /\ reply = NoReply
  /\ reply' \in {Failed, Raised}
  /\ UNCHANGED <<identity, cache, attemptAge, lock, lastOutcome, pc, gets, stage>>

Release(outcome) ==
  /\ lock' = NoTask
  /\ reply' = NoReply
  /\ lastOutcome' = outcome

\* Bugs the code does not have: the cooldown counted from the answer, a fetched
\* set merged into the cache, and an empty one installed.
InstallStamping(c) ==
  /\ pc[c] = "fetching" /\ lock = c
  /\ reply.outcome = "ok" /\ reply.keys # {}
  /\ keys' = reply.keys
  /\ fetchAge' = 0 /\ attemptAge' = 0
  /\ ttl' = TtlFrom(reply.header)
  /\ Release("ok")
  /\ Return(c, keys', FALSE)
  /\ UNCHANGED identity

InstallMerging(c) ==
  /\ pc[c] = "fetching" /\ lock = c
  /\ reply.outcome = "ok" /\ reply.keys # {}
  /\ keys' = keys \cup reply.keys
  /\ fetchAge' = 0
  /\ ttl' = TtlFrom(reply.header)
  /\ Release("ok")
  /\ Return(c, keys', FALSE)
  /\ UNCHANGED <<identity, attemptAge>>

InstallEmpty(c) ==
  /\ pc[c] = "fetching" /\ lock = c
  /\ reply.outcome = "ok"
  /\ keys' = reply.keys
  /\ fetchAge' = 0
  /\ ttl' = TtlFrom(reply.header)
  /\ Release("ok")
  /\ Return(c, keys', FALSE)
  /\ UNCHANGED <<identity, attemptAge>>

\* A fetched set replaces the cache.
Install(c) ==
  /\ pc[c] = "fetching" /\ lock = c
  /\ reply.outcome = "ok" /\ reply.keys # {}
  /\ keys' = reply.keys
  /\ fetchAge' = 0
  /\ ttl' = TtlFrom(reply.header)
  /\ Release("ok")
  /\ Return(c, keys', FALSE)
  /\ UNCHANGED <<identity, attemptAge>>

\* A bug the code does not have: a failure drops what is held.
KeepNothing(c) ==
  /\ pc[c] = "fetching" /\ lock = c
  /\ reply.outcome = "failed" \/ (reply.outcome = "ok" /\ reply.keys = {})
  /\ keys' = {}
  /\ Release("failed")
  /\ Return(c, keys', FALSE)
  /\ UNCHANGED <<identity, fetchAge, ttl, attemptAge>>

\* A failed, unparseable or empty answer leaves it.
Keep(c) ==
  /\ pc[c] = "fetching" /\ lock = c
  /\ reply.outcome = "failed" \/ (reply.outcome = "ok" /\ reply.keys = {})
  /\ Release("failed")
  /\ Return(c, keys, FALSE)
  /\ UNCHANGED <<identity, cache, attemptAge>>

\* A bug the code does not have: the lock is not given back.
PropagateHolding(c) ==
  /\ pc[c] = "fetching" /\ lock = c
  /\ reply.outcome = "raised"
  /\ Return(c, keys, TRUE)
  /\ UNCHANGED <<identity, cache, attempt>>

\* The exception passes through _refresh, which releases the lock.
Propagate(c) ==
  /\ pc[c] = "fetching" /\ lock = c
  /\ reply.outcome = "raised"
  /\ Release("failed")
  /\ Return(c, keys, TRUE)
  /\ UNCHANGED <<identity, cache, attemptAge>>

\* A request task is cancelled where it waits; ``async with'' gives the lock back.
Abandon(r) ==
  /\ pc[r] \in {"waiting", "fetching"}
  /\ pc' = [pc EXCEPT ![r] = "idle"]
  /\ verdict' = "none"
  /\ ForgetCall(r)
  /\ IF lock = r THEN Release("failed") ELSE UNCHANGED <<lock, reply, lastOutcome>>
  /\ UNCHANGED <<identity, cache, attemptAge, stage>>

-----------------------------------------------------------------------------
(* warm, the retry task and aclose *)

BeginWarm ==
  /\ open /\ pc[Starter] = "idle"
  /\ pc' = [pc EXCEPT ![Starter] = "waiting"]
  /\ UNCHANGED <<identity, cache, attempt, gets, stage>>

RetryAgain ==
  /\ pc[Retrier] = "sleeping"
  /\ keys = {} /\ attemptAge >= MinInterval
  /\ pc' = [pc EXCEPT ![Retrier] = "waiting"]
  /\ UNCHANGED <<identity, cache, attempt, gets, stage>>

RetryDone ==
  /\ pc[Retrier] = "sleeping" /\ keys # {}
  /\ pc' = [pc EXCEPT ![Retrier] = "idle"]
  /\ UNCHANGED <<identity, cache, attempt, gets, stage>>

\* Shutdown follows startup: warm has returned.  Cancelling the retry task and
\* closing the client are one step; requests may still be in progress.
Close ==
  /\ open /\ pc[Starter] = "idle"
  /\ open' = FALSE
  /\ pc' = [pc EXCEPT ![Retrier] = "idle"]
  /\ IF lock = Retrier THEN Release("failed") ELSE UNCHANGED <<lock, reply, lastOutcome>>
  /\ UNCHANGED <<identity, cache, attemptAge, gets, warmed>>

-----------------------------------------------------------------------------
\* The process starts with _last_attempt = _fetched_at = 0.0 on a clock that
\* may read anything, and identity may have been publishing for long.
Init ==
  /\ status \in [Kids -> {"unborn", "published"}]
  /\ sinceChange = [k \in Kids |-> Horizon]
  /\ keys = {} /\ ttl = DefaultTtl
  /\ attemptAge \in {0, Horizon} /\ fetchAge = attemptAge
  /\ lock = NoTask /\ reply = NoReply /\ lastOutcome = "none"
  /\ pc = [c \in Tasks |-> "idle"]
  /\ token = [r \in Requests |-> NoKid]
  /\ unknown = [r \in Requests |-> FALSE]
  /\ due = [r \in Requests |-> FALSE]
  /\ verdict = "none"
  /\ warmed = FALSE /\ open = TRUE

Refresh(c) == SkipRefresh(c) \/ StartFetch(c) \/ Install(c) \/ Keep(c) \/ Propagate(c)

Next ==
  \/ \E k \in Kids : Publish(k) \/ Withdraw(k)
  \/ Tick
  \/ \E r \in Requests, kid \in Kids \cup {NoKid} : GetFromCache(r, kid) \/ GetNeedsRefresh(r, kid)
  \/ \E c \in Tasks : Refresh(c)
  \/ AnswerOk \/ AnswerBad
  \/ \E r \in Requests : Abandon(r)
  \/ BeginWarm \/ RetryAgain \/ RetryDone \/ Close

Spec == Init /\ [][Next]_vars

\* Tasks keep running, time passes, a fetch comes back, and the lock, being
\* fair, is not withheld from a waiter for ever.
Fairness ==
  /\ WF_vars(Tick)
  /\ WF_vars(AnswerOk \/ AnswerBad)
  /\ WF_vars(RetryAgain \/ RetryDone)
  /\ \A c \in Tasks : /\ WF_vars(Install(c) \/ Keep(c) \/ Propagate(c))
                      /\ SF_vars(SkipRefresh(c) \/ StartFetch(c))

LiveSpec == Spec /\ Fairness

-----------------------------------------------------------------------------
(* Properties *)

Returns(r, v) == pc[r] # "idle" /\ pc'[r] = "idle" /\ verdict' = v
Refused(r) == Returns(r, "unavailable")

\* keys.py 47-51, publish first and sign later: a token whose well-formed kid
\* had been published for the interval when its get began, and still is, is
\* refused only when the last attempt to fetch failed - never by the cooldown,
\* by the freshness of the cache or by another task's fetch.
RotationRule ==
  [][\A r \in Requests : due[r] /\ Refused(r) => lastOutcome' = "failed"]_vars

\* A get that found its key when it began (and so asked for a plain refresh of
\* an expired cache) is refused only if identity has withdrawn that key: an
\* outage, an empty answer or a racing fetch does not take it away.
HeldKeyNotRefused ==
  [][\A r \in Requests :
       Refused(r) /\ ~unknown[r] /\ token[r] \in Kids => status[token[r]] = "withdrawn"]_vars

\* How long a withdrawn key may be used: the lifetime of the set that delivered
\* it (or the cooldown, when that is longer) and the time that set was under way.
\* After that a get for it finds the cache expired and its refresh does fetch,
\* unless the last attempt failed: no sequence of refreshes keeps it longer.
Longest ==
  LET lifetime == IF DefaultTtl < MaxTtl THEN MaxTtl ELSE DefaultTtl
  IN  IF lifetime < MinInterval THEN MinInterval ELSE lifetime
RemovedKeyBound ==
  \A k \in keys :
    status[k] = "withdrawn" /\ sinceChange[k] > Longest + FetchMax =>
      /\ Expired
      /\ lock # NoTask \/ attemptAge >= MinInterval \/ lastOutcome = "failed"

\* The cache is a ring of keys as KeyRing has it, however get, warm and the retry
\* task share it and identity fails: a document of one instant of the last fetch
\* that succeeded, never a mixture of two and never less than it held.
Ring == INSTANCE KeyRing WITH
  Usable <- Kids \ Malformed, Lag <- FetchMax,
  asking <- lock # NoTask, document <- reply.keys,
  age <- IF lock = NoTask THEN 0 ELSE attemptAge
KeyRingSpec == Ring!RingSpec

\* has_keys never falls back: once ready, an identity outage does not make the
\* process unready.
KeysNeverEmptied == [][keys # {} => keys' # {}]_vars

\* After warm has missed, and as long as nothing is held, a retry task is alive.
RetryLive == warmed /\ open /\ keys = {} => pc[Retrier] # "idle"

\* The lock is held by exactly the task that is fetching; no task is left
\* holding it by an exception, a cancellation or a second warm.
LockDiscipline == \A c \in Tasks : lock = c <=> pc[c] = "fetching"

\* Every get comes to an end, however many others compete for the lock.
EveryGetReturns == \A r \in Requests : pc[r] # "idle" ~> pc[r] = "idle"

\* Why: a refresh takes at most three steps, one fetch among them, and nobody else's
\* step sends it back; the task with the lock waits for its fetch, which ends, or has
\* an answer that one of Install, Keep and Propagate takes.
StepsLeft(c) ==
  CASE pc[c] = "waiting"  -> 3
    [] pc[c] = "fetching" -> IF reply = NoReply THEN 2 ELSE 1
    [] OTHER              -> 0
RefreshAdvances ==
  [][\A c \in Tasks : pc[c] \in {"waiting", "fetching"} =>
       /\ lock = c => reply = NoReply \/ reply.outcome \in {"ok", "failed", "raised"}
       /\ StepsLeft(c)' < StepsLeft(c) \/ UNCHANGED <<pc[c], StepsLeft(c)>>]_vars

\* A process whose warm missed gets keys without a request or a restart, unless
\* it is closed.  Assumed of identity: it ends up publishing a usable key for
\* good, and answers properly again and again; and of the callers, that a task
\* with an answer in hand is not cancelled every single time.
IdentityRecovers ==
  /\ <>[](Parse(Published) # {})
  /\ SF_vars(AnswerOk) /\ \A c \in Tasks : SF_vars(Install(c))
StartupRecovers == IdentityRecovers => (warmed ~> (keys # {} \/ ~open))

-----------------------------------------------------------------------------
(* The inductive invariant behind RotationRule, HeldKeyNotRefused,          *)
(* RemovedKeyBound and RetryLive.                                           *)

\* Only what identity has published is held or on its way.
Genuine == \A k \in keys \cup reply.keys : status[k] # "unborn"

\* The answer in hand holds every published key that was there when the
\* attempt began or that is held already; a key it should not hold has been
\* withdrawn since the attempt began.
ReplyCurrent ==
  reply.outcome = "ok" =>
    /\ \A k \in Parse(Published) :
         sinceChange[k] > attemptAge \/ k \in keys => k \in reply.keys
    /\ \A k \in reply.keys : status[k] = "withdrawn" => sinceChange[k] <= attemptAge
    /\ \A r \in Requests : lock = r /\ due[r] => token[r] \in reply.keys

\* After an attempt that succeeded, every key published before it is held.
CacheCurrent ==
  lock = NoTask /\ lastOutcome = "ok" =>
    /\ fetchAge <= attemptAge
    /\ \A k \in Parse(Published) : sinceChange[k] > attemptAge => k \in keys

\* What a get in progress may rely on.
CallsCurrent ==
  \A r \in Requests : pc[r] # "idle" =>
    /\ due[r] => Ripe(token[r])
    /\ ~unknown[r] /\ token[r] \in Kids =>
         token[r] \in keys \/ status[token[r]] = "withdrawn"

WithdrawnBound ==
  \A k \in keys : status[k] = "withdrawn" => sinceChange[k] <= fetchAge + FetchMax

Bounds == /\ ttl <= Longest
          /\ lock # NoTask => attemptAge <= FetchMax
          /\ lock = NoTask => reply = NoReply
          /\ reply.outcome # "ok" => reply.keys = {}
          /\ lastOutcome = "none" => keys = {}
          /\ \A r \in Requests : pc[r] # "sleeping"

IInv ==
  /\ TypeOK /\ LockDiscipline /\ RetryLive
  /\ Genuine /\ ReplyCurrent /\ CacheCurrent /\ CallsCurrent /\ WithdrawnBound /\ Bounds

-----------------------------------------------------------------------------
(* What the README and a comment say, and the code does not do *)

\* README.md 162, "a failed refresh fails static: keep verifying with cached
\* keys", and keys.py 130, "_refresh already fails soft": a get that found its key,
\* and refreshes only because the cache has expired, does not end in an exception of
\* the fetch while that key is held.
FailsStatic ==
  [][\A r \in Requests :
       Returns(r, "error") /\ ~unknown[r] => Matching(token[r], keys) = {}]_vars
=============================================================================
