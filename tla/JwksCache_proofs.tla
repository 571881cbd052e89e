-------------------------- MODULE JwksCache_proofs --------------------------
(***************************************************************************)
(* Theorems about JwksCache, for every set of kids and of request tasks    *)
(* and every value of the intervals.                                       *)
(***************************************************************************)
EXTENDS JwksCache, TLAPS

\* The ages stay in range: one tick older, or saturated.
LEMMA OlderAge ==
  ASSUME NEW a \in Ages
  PROVE  /\ Older(a) \in Ages
         /\ a <= Older(a) /\ Older(a) <= a + 1
         /\ a < Horizon => Older(a) = a + 1
  BY IntervalAssumption DEF Older, Ages

\* _ttl_from yields a lifetime no longer than the longest interval configured.
LEMMA TtlFromBound ==
  ASSUME NEW h \in MaxAges \cup {NoHeader}
  PROVE  TtlFrom(h) \in Nat /\ TtlFrom(h) <= Longest
  BY IntervalAssumption DEF TtlFrom, NoHeader, Longest

\* What the lookup of get finds.
LEMMA MatchingKid ==
  ASSUME NEW kid \in Kids, NEW held \in SUBSET Kids
  PROVE  Matching(kid, held) = {} <=> kid \notin held
  BY TaskAssumption DEF Matching

-----------------------------------------------------------------------------
(* Type correctness *)

LEMMA ReplyTypes ==
  /\ NoReply \in Replies /\ Failed \in Replies /\ Raised \in Replies
  /\ NoReply.outcome = "none" /\ NoReply.keys = {}
  /\ Failed.outcome = "failed" /\ Failed.keys = {}
  /\ Raised.outcome = "raised" /\ Raised.keys = {}
  BY DEF NoReply, Failed, Raised, Replies

LEMMA ReturnTypes ==
  ASSUME TypeOK, NEW c \in Tasks, NEW held, NEW raised \in BOOLEAN, Return(c, held, raised)
  PROVE  /\ pc' \in [Tasks -> {"idle", "waiting", "fetching", "sleeping"}]
         /\ token' \in [Requests -> Kids \cup {NoKid}]
         /\ unknown' \in [Requests -> BOOLEAN]
         /\ due' \in [Requests -> BOOLEAN]
         /\ verdict' \in {"none", "key", "unavailable", "error"}
         /\ warmed' \in BOOLEAN
         /\ open' \in BOOLEAN
  <1>1. CASE c \in Requests /\ ReturnToGet(c, held, raised)
    BY <1>1 DEF TypeOK, ReturnToGet, ForgetCall, stage
  <1>2. CASE c = Starter /\ ReturnToWarm(held)
    BY <1>2 DEF TypeOK, ReturnToWarm, gets, Tasks
  <1>3. CASE c = Retrier /\ ReturnToRetry
    BY <1>3 DEF TypeOK, ReturnToRetry, gets, stage
  <1>4. QED
    BY <1>1, <1>2, <1>3 DEF Return

LEMMA TypeInit == Init => TypeOK
  <1> SUFFICES ASSUME Init
               PROVE  TypeOK
    OBVIOUS
  <1>1. status \in [Kids -> {"unborn", "published", "withdrawn"}]
    <2>1. status \in [Kids -> {"unborn", "published"}]
      BY DEF Init
    <2>2. QED
      BY <2>1
  <1>2. sinceChange \in [Kids -> Ages] /\ attemptAge \in Ages /\ fetchAge \in Ages /\ ttl \in Nat
    BY IntervalAssumption DEF Init, Ages
  <1>3. /\ pc \in [Tasks -> {"idle", "waiting", "fetching", "sleeping"}]
        /\ token \in [Requests -> Kids \cup {NoKid}]
        /\ unknown \in [Requests -> BOOLEAN]
        /\ due \in [Requests -> BOOLEAN]
    BY DEF Init
  <1>4. QED
    BY <1>1, <1>2, <1>3, ReplyTypes DEF Init, TypeOK

LEMMA TypeStep == TypeOK /\ [Next]_vars => TypeOK'
  <1> SUFFICES ASSUME TypeOK, [Next]_vars
               PROVE  TypeOK'
    OBVIOUS
  <1> USE DEF identity, cache, attempt, gets, stage
  <1>1. ASSUME NEW k \in Kids, Publish(k) \/ Withdraw(k)
        PROVE  TypeOK'
    <2>1. CASE Publish(k)
      BY <2>1, IntervalAssumption DEF TypeOK, Publish, Ages
    <2>2. CASE Withdraw(k)
      <3>1. due' \in [Requests -> BOOLEAN]
        BY <2>2 DEF Withdraw
      <3>2. QED
        BY <2>2, <3>1, IntervalAssumption DEF TypeOK, Withdraw, Ages
    <2>3. QED
      BY <1>1, <2>1, <2>2
  <1>2. CASE Tick
    BY <1>2, OlderAge DEF TypeOK, Tick
  <1>3. ASSUME NEW r \in Requests, NEW kid \in Kids \cup {NoKid},
               GetFromCache(r, kid) \/ GetNeedsRefresh(r, kid)
        PROVE  TypeOK'
    <2>1. CASE GetFromCache(r, kid)
      BY <2>1 DEF TypeOK, GetFromCache
    <2>2. CASE GetNeedsRefresh(r, kid)
      <3>1. Ripe(kid) \in BOOLEAN /\ (Matching(kid, keys) = {}) \in BOOLEAN
        BY DEF Ripe
      <3>2. due' \in [Requests -> BOOLEAN] /\ unknown' \in [Requests -> BOOLEAN]
        BY <2>2, <3>1 DEF TypeOK, GetNeedsRefresh
      <3>3. QED
        BY <2>2, <3>2 DEF TypeOK, GetNeedsRefresh, Tasks
    <2>3. QED
      BY <1>3, <2>1, <2>2
  <1>4. ASSUME NEW c \in Tasks, SkipRefresh(c)
        PROVE  TypeOK'
    <2>1. Return(c, keys, FALSE) /\ UNCHANGED <<identity, cache, attempt>>
      BY <1>4 DEF SkipRefresh
    <2>2. QED
      BY <2>1, ReturnTypes DEF TypeOK
  <1>5. ASSUME NEW c \in Tasks, StartFetch(c)
        PROVE  TypeOK'
    BY <1>5, IntervalAssumption DEF TypeOK, StartFetch, Ages
  <1>6. ASSUME NEW c \in Tasks, Install(c)
        PROVE  TypeOK'
    <2>1. Return(c, keys', FALSE)
      BY <1>6 DEF Install
    <2>2. /\ pc[c] = "fetching" /\ lock = c /\ reply.outcome = "ok"
          /\ keys' = reply.keys /\ fetchAge' = 0 /\ ttl' = TtlFrom(reply.header)
          /\ lock' = NoTask /\ reply' = NoReply /\ lastOutcome' = "ok"
          /\ UNCHANGED <<identity, attemptAge>>
      BY <1>6 DEF Install, Release
    <2>3. ttl' \in Nat /\ fetchAge' \in Ages /\ keys' \in SUBSET (Kids \ Malformed)
      <3>1. reply.header \in MaxAges \cup {NoHeader} /\ reply.keys \in SUBSET (Kids \ Malformed)
        BY DEF TypeOK, Replies
      <3>2. QED
        BY <2>2, <3>1, TtlFromBound, IntervalAssumption DEF Ages
    <2>4. QED
      BY <2>1, <2>2, <2>3, ReturnTypes, ReplyTypes DEF TypeOK
  <1>7. ASSUME NEW c \in Tasks, Keep(c) \/ Propagate(c)
        PROVE  TypeOK'
    <2>1. \E raised \in BOOLEAN : Return(c, keys, raised)
      BY <1>7 DEF Keep, Propagate
    <2>2. /\ lock' = NoTask /\ reply' = NoReply /\ lastOutcome' = "failed"
          /\ UNCHANGED <<identity, cache, attemptAge>>
      BY <1>7 DEF Keep, Propagate, Release
    <2>3. QED
      BY <2>1, <2>2, ReturnTypes, ReplyTypes DEF TypeOK
  <1>8. CASE AnswerOk
    BY <1>8 DEF TypeOK, AnswerOk, Replies, Parse, Published
  <1>9. CASE AnswerBad
    BY <1>9, ReplyTypes DEF TypeOK, AnswerBad
  <1>10. ASSUME NEW r \in Requests, Abandon(r)
         PROVE  TypeOK'
    BY <1>10, ReplyTypes DEF TypeOK, Abandon, ForgetCall, Release
  <1>11. CASE BeginWarm \/ RetryAgain \/ RetryDone
    BY <1>11 DEF TypeOK, BeginWarm, RetryAgain, RetryDone
  <1>12. CASE Close
    BY <1>12, ReplyTypes DEF TypeOK, Close, Release
  <1>13. CASE UNCHANGED vars
    BY <1>13 DEF TypeOK, vars
  <1>14. QED
    BY <1>1, <1>2, <1>3, <1>4, <1>5, <1>6, <1>7, <1>8, <1>9, <1>10, <1>11, <1>12, <1>13
       DEF Next, Refresh

\* The declared types hold in every reachable state.
THEOREM TypeCorrect == Spec => []TypeOK
  BY TypeInit, TypeStep, PTL DEF Spec


-----------------------------------------------------------------------------
(* What a task does when _refresh gives it back control *)

\* Only the returning task and the retry task change their place, nobody is left
\* fetching, and the calls of the other requests are untouched.
LEMMA ReturnEffect ==
  ASSUME TypeOK, NEW c \in Tasks, NEW held, NEW raised \in BOOLEAN, Return(c, held, raised)
  PROVE  /\ \A d \in Tasks : d # c => pc'[d] = pc[d] \/ (d = Retrier /\ pc'[d] = "sleeping")
         /\ pc'[c] \in {"idle", "sleeping"}
         /\ c \in Requests => pc'[c] = "idle"
         /\ \A r \in Requests : r # c => /\ token'[r] = token[r]
                                         /\ unknown'[r] = unknown[r]
                                         /\ due'[r] = due[r]
  <1>1. CASE c \in Requests /\ ReturnToGet(c, held, raised)
    BY <1>1 DEF TypeOK, ReturnToGet, ForgetCall, Tasks
  <1>2. CASE c = Starter /\ ReturnToWarm(held)
    BY <1>2, TaskAssumption DEF TypeOK, ReturnToWarm, gets, Tasks
  <1>3. CASE c = Retrier /\ ReturnToRetry
    BY <1>3, TaskAssumption DEF TypeOK, ReturnToRetry, gets, Tasks
  <1>4. QED
    BY <1>1, <1>2, <1>3 DEF Return

\* Whoever returns with nothing held leaves a retry task where there must be one.
LEMMA ReturnKeepsRetry ==
  ASSUME TypeOK, NEW c \in Tasks, NEW held, NEW raised \in BOOLEAN, Return(c, held, raised),
         warmed /\ open /\ held = {} => pc[Retrier] # "idle"
  PROVE  warmed' /\ open' /\ held = {} => pc'[Retrier] # "idle"
  <1>1. CASE c \in Requests /\ ReturnToGet(c, held, raised)
    BY <1>1, TaskAssumption DEF TypeOK, ReturnToGet, stage, Tasks
  <1>2. CASE c = Starter /\ ReturnToWarm(held)
    BY <1>2, TaskAssumption DEF TypeOK, ReturnToWarm, Tasks
  <1>3. CASE c = Retrier /\ ReturnToRetry
    BY <1>3, TaskAssumption DEF TypeOK, ReturnToRetry, Tasks
  <1>4. QED
    BY <1>1, <1>2, <1>3 DEF Return

-----------------------------------------------------------------------------
(* The inductive invariant *)

LEMMA InitInv == Init => IInv
  <1> SUFFICES ASSUME Init
               PROVE  IInv
    OBVIOUS
  <1>1. TypeOK
    BY TypeInit
  <1>2. LockDiscipline /\ RetryLive
    BY TaskAssumption DEF Init, LockDiscipline, RetryLive
  <1>3. Genuine /\ ReplyCurrent /\ CacheCurrent /\ WithdrawnBound
    BY ReplyTypes DEF Init, Genuine, ReplyCurrent, CacheCurrent, WithdrawnBound
  <1>4. CallsCurrent
    BY DEF Init, CallsCurrent, Tasks
  <1>5. Bounds
    BY IntervalAssumption, ReplyTypes DEF Init, Bounds, Longest, Tasks
  <1>6. QED
    BY <1>1, <1>2, <1>3, <1>4, <1>5 DEF IInv

LEMMA PublishInv == ASSUME IInv, TypeOK', NEW k \in Kids, Publish(k) PROVE IInv'
  <1> USE DEF identity, cache, attempt, gets, stage
  <1>1. /\ status[k] = "unborn" /\ status'[k] = "published" /\ sinceChange'[k] = 0
        /\ \A l \in Kids : l # k => status'[l] = status[l] /\ sinceChange'[l] = sinceChange[l]
        /\ k \notin keys /\ k \notin reply.keys
    BY DEF IInv, TypeOK, Publish, Genuine
  <1>2. \A l \in Kids : l # k => (l \in Parse(Published)' <=> l \in Parse(Published))
    BY <1>1 DEF Parse, Published
  <1>0. Parse(Published) \subseteq Kids /\ Parse(Published)' \subseteq Kids
    BY DEF Parse, Published
  <1>3. attemptAge \in Nat
    BY DEF IInv, TypeOK, Ages
  <1>4. LockDiscipline' /\ RetryLive'
    BY DEF IInv, Publish, LockDiscipline, RetryLive
  <1>5. Genuine' /\ WithdrawnBound'
    BY <1>1 DEF IInv, TypeOK, Replies, Publish, Genuine, WithdrawnBound
  <1>6. ReplyCurrent'
    BY <1>0, <1>1, <1>2, <1>3 DEF IInv, TypeOK, Replies, Publish, ReplyCurrent
  <1>7. CacheCurrent'
    BY <1>0, <1>1, <1>2, <1>3 DEF IInv, Publish, CacheCurrent
  <1>8. CallsCurrent'
    BY <1>1, <1>2 DEF IInv, TypeOK, Publish, CallsCurrent, Ripe, Parse, Published
  <1>9. Bounds'
    BY DEF IInv, Publish, Bounds
  <1>10. QED
    BY <1>4, <1>5, <1>6, <1>7, <1>8, <1>9 DEF IInv

LEMMA WithdrawInv == ASSUME IInv, TypeOK', NEW k \in Kids, Withdraw(k) PROVE IInv'
  <1> USE DEF identity, cache, attempt, gets, stage
  <1>1. /\ status[k] = "published" /\ status'[k] = "withdrawn" /\ sinceChange'[k] = 0
        /\ \A l \in Kids : l # k => status'[l] = status[l] /\ sinceChange'[l] = sinceChange[l]
        /\ \A r \in Requests : due'[r] => due[r] /\ token[r] # k
    BY DEF IInv, TypeOK, Withdraw
  <1>2. \A l \in Kids : l \in Parse(Published)' <=> l \in Parse(Published) /\ l # k
    BY <1>1 DEF Parse, Published
  <1>0. Parse(Published) \subseteq Kids /\ Parse(Published)' \subseteq Kids
    BY DEF Parse, Published
  <1>3. attemptAge \in Nat /\ fetchAge \in Nat /\ FetchMax \in Nat
    BY IntervalAssumption DEF IInv, TypeOK, Ages
  <1>4. LockDiscipline' /\ RetryLive'
    BY DEF IInv, Withdraw, LockDiscipline, RetryLive
  <1>5. Genuine' /\ WithdrawnBound'
    BY <1>1, <1>3 DEF IInv, TypeOK, Replies, Withdraw, Genuine, WithdrawnBound
  <1>6. ReplyCurrent'
    BY <1>0, <1>1, <1>2, <1>3 DEF IInv, TypeOK, Replies, Withdraw, ReplyCurrent
  <1>7. CacheCurrent'
    BY <1>0, <1>1, <1>2, <1>3 DEF IInv, Withdraw, CacheCurrent
  <1>8. CallsCurrent'
    BY <1>1, <1>2 DEF IInv, TypeOK, Withdraw, CallsCurrent, Ripe, Parse, Published
  <1>9. Bounds'
    BY DEF IInv, Withdraw, Bounds
  <1>10. QED
    BY <1>4, <1>5, <1>6, <1>7, <1>8, <1>9 DEF IInv

LEMMA TickInv == ASSUME IInv, TypeOK', Tick PROVE IInv'
  <1> USE DEF gets, stage
  <1>1. /\ {attemptAge, fetchAge} \subseteq Ages /\ \A k \in Kids : sinceChange[k] \in Ages
        /\ attemptAge' = Older(attemptAge) /\ fetchAge' = Older(fetchAge)
        /\ \A k \in Kids : sinceChange'[k] = Older(sinceChange[k])
    BY DEF IInv, TypeOK, Tick
  <1>2. lock # NoTask => attemptAge' = attemptAge + 1 /\ attemptAge' <= FetchMax
    BY <1>1, IntervalAssumption DEF Tick, Ages, Older
  <1>3. LockDiscipline' /\ RetryLive' /\ Genuine'
    BY DEF IInv, Tick, LockDiscipline, RetryLive, Genuine
  <1>4. \A k \in Kids : sinceChange'[k] > attemptAge' => sinceChange[k] > attemptAge
    BY <1>1, IntervalAssumption DEF Older, Ages
  <1>5. Parse(Published)' = Parse(Published)
    BY DEF Tick, Parse, Published
  <1>6. ReplyCurrent'
    <2>1. reply.outcome = "ok" => lock # NoTask
      BY ReplyTypes DEF IInv, Bounds
    <2>2. \A k \in Kids : lock # NoTask /\ sinceChange[k] <= attemptAge => sinceChange'[k] <= attemptAge'
      BY <1>1, <1>2, IntervalAssumption DEF Older, Ages
    <2>3. QED
      BY <1>4, <1>5, <2>1, <2>2 DEF IInv, TypeOK, Replies, Tick, ReplyCurrent, Parse, Published
  <1>7. CacheCurrent'
    <2>1. fetchAge <= attemptAge => fetchAge' <= attemptAge'
      BY <1>1, IntervalAssumption DEF Older, Ages
    <2>2. QED
      BY <1>4, <1>5, <2>1 DEF IInv, Tick, CacheCurrent, Parse, Published
  <1>8. CallsCurrent'
    <2>1. \A k \in Kids : sinceChange[k] >= MinInterval => sinceChange'[k] >= MinInterval
      BY <1>1, IntervalAssumption DEF Older, Ages
    <2>2. QED
      BY <1>5, <2>1 DEF IInv, TypeOK, Tick, CallsCurrent, Ripe, Parse, Published
  <1>9. WithdrawnBound'
    <2>1. \A k \in Kids : sinceChange[k] <= fetchAge + FetchMax => sinceChange'[k] <= fetchAge' + FetchMax
      BY <1>1, IntervalAssumption DEF Older, Ages
    <2>2. QED
      BY <2>1 DEF IInv, TypeOK, Tick, WithdrawnBound
  <1>10. Bounds'
    BY <1>2 DEF IInv, Tick, Bounds
  <1>11. QED
    BY <1>3, <1>6, <1>7, <1>8, <1>9, <1>10 DEF IInv

LEMMA GetNeedsRefreshInv ==
  ASSUME IInv, TypeOK', NEW r \in Requests, NEW kid \in Kids \cup {NoKid}, GetNeedsRefresh(r, kid)
  PROVE  IInv'
  <1> USE DEF identity, cache, attempt, stage
  <1>1. /\ pc[r] = "idle" /\ pc'[r] = "waiting" /\ token'[r] = kid
        /\ due'[r] = Ripe(kid) /\ unknown'[r] = (Matching(kid, keys) = {})
        /\ \A c \in Tasks : c # r => pc'[c] = pc[c]
        /\ \A q \in Requests : q # r =>
             due'[q] = due[q] /\ token'[q] = token[q] /\ unknown'[q] = unknown[q]
    BY DEF IInv, TypeOK, GetNeedsRefresh, Tasks
  <1>2. r \in Tasks /\ r # Retrier
    BY TaskAssumption DEF Tasks
  <1>3. Parse(Published)' = Parse(Published)
    BY DEF GetNeedsRefresh, Parse, Published
  <1>4. LockDiscipline' /\ RetryLive' /\ lock # r
    BY <1>1, <1>2 DEF IInv, GetNeedsRefresh, LockDiscipline, RetryLive, Tasks
  <1>5. Genuine' /\ WithdrawnBound' /\ CacheCurrent'
    BY <1>3 DEF IInv, GetNeedsRefresh, Genuine, WithdrawnBound, CacheCurrent
  <1>6. ReplyCurrent'
    BY <1>1, <1>3, <1>4 DEF IInv, GetNeedsRefresh, ReplyCurrent
  <1>7. CallsCurrent'
    <2>1. kid \in Kids /\ ~unknown'[r] => kid \in keys
      BY <1>1, MatchingKid DEF IInv, TypeOK
    <2>2. Ripe(kid)' = Ripe(kid)
      BY <1>3 DEF GetNeedsRefresh, Ripe
    <2>3. \A q \in Requests : q # r => (Ripe(token[q])' <=> Ripe(token[q]))
      BY <1>1, <1>3 DEF GetNeedsRefresh, Ripe
    <2>4. QED
      <3> SUFFICES ASSUME NEW q \in Requests, pc'[q] # "idle"
                   PROVE  /\ due'[q] => Ripe(token[q])'
                          /\ ~unknown'[q] /\ token'[q] \in Kids =>
                               token'[q] \in keys' \/ status'[token'[q]] = "withdrawn"
        BY DEF CallsCurrent
      <3>1. CASE q = r
        BY <1>1, <2>1, <2>2, <3>1 DEF GetNeedsRefresh
      <3>2. CASE q # r
        BY <1>1, <2>3, <3>2 DEF IInv, GetNeedsRefresh, CallsCurrent, Tasks
      <3>3. QED
        BY <3>1, <3>2
  <1>8. Bounds'
    BY <1>1 DEF IInv, GetNeedsRefresh, Bounds, Tasks
  <1>9. QED
    BY <1>4, <1>5, <1>6, <1>7, <1>8 DEF IInv

LEMMA GetFromCacheInv ==
  ASSUME IInv, TypeOK', NEW r \in Requests, NEW kid \in Kids \cup {NoKid}, GetFromCache(r, kid)
  PROVE  IInv'
  BY DEF IInv, GetFromCache, identity, cache, attempt, stage, LockDiscipline, RetryLive, Genuine,
         ReplyCurrent, CacheCurrent, CallsCurrent, WithdrawnBound, Bounds, Ripe, Published,
         Expired

LEMMA StartFetchInv == ASSUME IInv, TypeOK', NEW c \in Tasks, StartFetch(c) PROVE IInv'
  <1> USE DEF identity, cache, gets, stage
  <1>1. /\ lock = NoTask /\ lock' = c /\ attemptAge' = 0 /\ reply' = reply
        /\ pc[c] = "waiting" /\ pc'[c] = "fetching"
        /\ \A d \in Tasks : d # c => pc'[d] = pc[d]
    BY DEF IInv, TypeOK, StartFetch
  <1>2. c # NoTask /\ reply.outcome = "none"
    BY <1>1, TaskAssumption, ReplyTypes DEF IInv, Bounds
  <1>3. LockDiscipline'
    BY <1>1, <1>2, TaskAssumption DEF IInv, LockDiscipline
  <1>4. RetryLive'
    BY <1>1, TaskAssumption DEF IInv, TypeOK, StartFetch, RetryLive, Tasks
  <1>5. Genuine' /\ WithdrawnBound'
    BY DEF IInv, StartFetch, Genuine, WithdrawnBound
  <1>6. ReplyCurrent' /\ CacheCurrent'
    BY <1>1, <1>2 DEF ReplyCurrent, CacheCurrent
  <1>7. CallsCurrent'
    BY <1>1 DEF IInv, StartFetch, CallsCurrent, Ripe, Published, Tasks
  <1>8. Bounds'
    BY <1>1, <1>2, IntervalAssumption DEF IInv, StartFetch, Bounds, Tasks
  <1>9. QED
    BY <1>3, <1>4, <1>5, <1>6, <1>7, <1>8 DEF IInv

LEMMA AnswerInv == ASSUME IInv, TypeOK', AnswerOk \/ AnswerBad PROVE IInv'
  <1> USE DEF identity, cache, gets, stage
  <1>1. /\ lock # NoTask /\ reply = NoReply
        /\ UNCHANGED <<status, sinceChange, keys, fetchAge, ttl, attemptAge, lock, lastOutcome, pc,
                       token, unknown, due, verdict, warmed, open>>
    BY DEF AnswerOk, AnswerBad
  <1>2. \/ reply'.outcome = "ok" /\ reply'.keys = Parse(Published)
        \/ reply'.outcome # "ok" /\ reply'.keys = {}
    BY ReplyTypes DEF AnswerOk, AnswerBad
  <1>3. LockDiscipline' /\ RetryLive' /\ CacheCurrent' /\ WithdrawnBound' /\ CallsCurrent'
    BY <1>1 DEF IInv, LockDiscipline, RetryLive, CacheCurrent, WithdrawnBound, CallsCurrent, Ripe,
                Published
  <1>4. Genuine'
    BY <1>1, <1>2 DEF IInv, Genuine, Parse, Published
  <1>5. ReplyCurrent'
    <2>1. Parse(Published)' = Parse(Published)
      BY <1>1 DEF Parse, Published
    <2>2. \A k \in Parse(Published) : status[k] # "withdrawn"
      BY DEF Parse, Published
    <2>3. \A r \in Requests : lock = r /\ due[r] => token[r] \in Parse(Published)
      BY DEF IInv, LockDiscipline, CallsCurrent, Ripe, Tasks
    <2>4. QED
      BY <1>1, <1>2, <2>1, <2>2, <2>3 DEF ReplyCurrent
  <1>6. Bounds'
    BY <1>1, <1>2 DEF IInv, Bounds
  <1>7. QED
    BY <1>3, <1>4, <1>5, <1>6 DEF IInv

\* What every return has in common: the lock is free, and what the calls of the
\* other requests may rely on still holds if no published key has been lost.
LEMMA ReturnInv ==
  ASSUME IInv, TypeOK', NEW c \in Tasks, NEW raised \in BOOLEAN, Return(c, keys', raised),
         lock = c \/ (lock = NoTask /\ pc[c] = "waiting"),
         lock' = NoTask, reply' = NoReply,
         UNCHANGED <<status, sinceChange, attemptAge>>,
         \A k \in keys : k \in keys' \/ status[k] = "withdrawn",
         keys # {} => keys' # {}
  PROVE  LockDiscipline' /\ RetryLive' /\ CallsCurrent' /\ ReplyCurrent'
         /\ \A r \in Requests : pc'[r] # "sleeping"
  <1>1. /\ \A d \in Tasks : d # c => pc'[d] = pc[d] \/ (d = Retrier /\ pc'[d] = "sleeping")
        /\ pc'[c] \in {"idle", "sleeping"}
        /\ c \in Requests => pc'[c] = "idle"
        /\ \A r \in Requests : r # c => /\ token'[r] = token[r]
                                        /\ unknown'[r] = unknown[r]
                                        /\ due'[r] = due[r]
    BY ReturnEffect DEF IInv
  <1>2. \A d \in Tasks : d # c => pc[d] # "fetching"
    BY TaskAssumption DEF IInv, LockDiscipline
  <1>3. LockDiscipline'
    <2>1. \A d \in Tasks : pc'[d] # "fetching" /\ d # NoTask
      BY <1>1, <1>2, TaskAssumption
    <2>2. QED
      BY <2>1 DEF LockDiscipline
  <1>4. RetryLive'
    BY ReturnKeepsRetry DEF IInv, RetryLive
  <1>5. CallsCurrent'
    <2> SUFFICES ASSUME NEW r \in Requests, pc'[r] # "idle"
                 PROVE  /\ due'[r] => Ripe(token[r])'
                        /\ ~unknown'[r] /\ token'[r] \in Kids =>
                             token'[r] \in keys' \/ status'[token'[r]] = "withdrawn"
      BY DEF CallsCurrent
    <2>1. r # c /\ r # Retrier /\ pc[r] # "idle"
      BY <1>1, TaskAssumption DEF Tasks
    <2>2. Ripe(token[r])' <=> Ripe(token[r])
      BY <1>1, <2>1 DEF Ripe, Parse, Published
    <2>3. QED
      BY <1>1, <2>1, <2>2 DEF IInv, CallsCurrent
  <1>6. ReplyCurrent'
    BY ReplyTypes DEF ReplyCurrent
  <1>7. \A r \in Requests : pc'[r] # "sleeping"
    BY <1>1, TaskAssumption DEF IInv, Bounds, Tasks
  <1>8. QED
    BY <1>3, <1>4, <1>5, <1>6, <1>7

LEMMA SkipRefreshInv == ASSUME IInv, TypeOK', NEW c \in Tasks, SkipRefresh(c) PROVE IInv'
  <1> USE DEF identity, cache, attempt
  <1>1. /\ lock = NoTask /\ pc[c] = "waiting"
        /\ UNCHANGED <<status, sinceChange, keys, fetchAge, ttl, attemptAge, lock, reply, lastOutcome>>
        /\ Return(c, keys', FALSE)
    BY DEF SkipRefresh
  <1>2. reply = NoReply
    BY <1>1 DEF IInv, Bounds
  <1>3. /\ LockDiscipline' /\ RetryLive' /\ CallsCurrent' /\ ReplyCurrent'
        /\ \A r \in Requests : pc'[r] # "sleeping"
    BY <1>1, <1>2, ReturnInv
  <1>4. Genuine' /\ CacheCurrent' /\ WithdrawnBound' /\ Bounds'
    BY <1>1, <1>3 DEF IInv, Genuine, CacheCurrent, WithdrawnBound, Bounds, Parse, Published
  <1>5. QED
    BY <1>3, <1>4 DEF IInv

LEMMA InstallInv == ASSUME IInv, TypeOK', NEW c \in Tasks, Install(c) PROVE IInv'
  <1> USE DEF identity
  <1>1. /\ lock = c /\ reply.outcome = "ok" /\ reply.keys # {}
        /\ keys' = reply.keys /\ fetchAge' = 0 /\ ttl' = TtlFrom(reply.header)
        /\ lock' = NoTask /\ reply' = NoReply /\ lastOutcome' = "ok"
        /\ UNCHANGED <<status, sinceChange, attemptAge>>
        /\ Return(c, keys', FALSE)
    BY DEF Install, Release
  <1>2. \A k \in keys : k \in keys' \/ status[k] = "withdrawn"
    <2>1. \A k \in keys : k \in Kids \ Malformed /\ status[k] \in {"published", "withdrawn"}
      BY DEF IInv, TypeOK, Genuine
    <2>2. QED
      BY <1>1, <2>1 DEF IInv, ReplyCurrent, Parse, Published
  <1>3. /\ LockDiscipline' /\ RetryLive' /\ CallsCurrent' /\ ReplyCurrent'
        /\ \A r \in Requests : pc'[r] # "sleeping"
    BY <1>1, <1>2, ReturnInv
  <1>4. Genuine'
    BY <1>1, ReplyTypes DEF IInv, Genuine
  <1>5. attemptAge \in Nat /\ attemptAge <= FetchMax /\ FetchMax \in Nat
    BY <1>1, TaskAssumption, IntervalAssumption DEF IInv, TypeOK, Ages, Bounds
  <1>6. CacheCurrent'
    BY <1>1, <1>5 DEF IInv, CacheCurrent, ReplyCurrent, Parse, Published
  <1>7. WithdrawnBound'
    <2>1. \A k \in reply.keys : k \in Kids /\ sinceChange[k] \in Nat
      BY DEF IInv, TypeOK, Replies, Ages
    <2>2. QED
      BY <1>1, <1>5, <2>1 DEF IInv, WithdrawnBound, ReplyCurrent
  <1>8. Bounds'
    <2>1. reply.header \in MaxAges \cup {NoHeader}
      BY DEF IInv, TypeOK, Replies
    <2>2. QED
      BY <1>1, <1>3, <2>1, TtlFromBound, ReplyTypes DEF Bounds, Longest
  <1>9. QED
    BY <1>3, <1>4, <1>6, <1>7, <1>8 DEF IInv

LEMMA FailedAttemptInv ==
  ASSUME IInv, TypeOK', NEW c \in Tasks, Keep(c) \/ Propagate(c) PROVE IInv'
  <1> USE DEF identity, cache
  <1>1. /\ lock = c /\ lock' = NoTask /\ reply' = NoReply /\ lastOutcome' = "failed"
        /\ UNCHANGED <<status, sinceChange, keys, fetchAge, ttl, attemptAge>>
        /\ \E raised \in BOOLEAN : Return(c, keys', raised)
    BY DEF Keep, Propagate, Release
  <1>2. /\ LockDiscipline' /\ RetryLive' /\ CallsCurrent' /\ ReplyCurrent'
        /\ \A r \in Requests : pc'[r] # "sleeping"
    BY <1>1, ReturnInv
  <1>3. Genuine' /\ CacheCurrent' /\ WithdrawnBound' /\ Bounds'
    BY <1>1, <1>2, ReplyTypes
       DEF IInv, Genuine, CacheCurrent, WithdrawnBound, Bounds, Parse, Published
  <1>4. QED
    BY <1>2, <1>3 DEF IInv

LEMMA AbandonInv == ASSUME IInv, TypeOK', NEW r \in Requests, Abandon(r) PROVE IInv'
  <1> USE DEF identity, cache, stage
  <1>1. /\ pc[r] \in {"waiting", "fetching"} /\ pc'[r] = "idle"
        /\ \A d \in Tasks : d # r => pc'[d] = pc[d]
        /\ \A q \in Requests : q # r =>
             due'[q] = due[q] /\ token'[q] = token[q] /\ unknown'[q] = unknown[q]
        /\ UNCHANGED <<status, sinceChange, keys, fetchAge, ttl, attemptAge, warmed, open>>
    BY DEF IInv, TypeOK, Abandon, ForgetCall, Tasks
  <1>2. \/ lock = r /\ lock' = NoTask /\ reply' = NoReply /\ lastOutcome' = "failed"
        \/ lock # r /\ UNCHANGED <<lock, reply, lastOutcome>>
    BY DEF Abandon, Release
  <1>3. r \in Tasks /\ r # Retrier /\ r # NoTask
    BY TaskAssumption DEF Tasks
  <1>4. LockDiscipline' /\ RetryLive'
    BY <1>1, <1>2, <1>3, TaskAssumption DEF IInv, LockDiscipline, RetryLive, Tasks
  <1>5. Genuine' /\ WithdrawnBound' /\ CacheCurrent'
    BY <1>1, <1>2, ReplyTypes
       DEF IInv, Genuine, WithdrawnBound, CacheCurrent, Parse, Published
  <1>6. ReplyCurrent'
    <2>1. CASE lock = r
      BY <1>2, <2>1, ReplyTypes DEF ReplyCurrent
    <2>2. CASE lock # r
      BY <1>1, <1>2, <2>2 DEF IInv, ReplyCurrent, Parse, Published
    <2>3. QED
      BY <2>1, <2>2
  <1>7. CallsCurrent'
    BY <1>1 DEF IInv, CallsCurrent, Ripe, Parse, Published, Tasks
  <1>8. Bounds'
    BY <1>1, <1>2, ReplyTypes DEF IInv, Bounds, Tasks
  <1>9. QED
    BY <1>4, <1>5, <1>6, <1>7, <1>8 DEF IInv

LEMMA RetryTaskInv ==
  ASSUME IInv, TypeOK', BeginWarm \/ RetryAgain \/ RetryDone PROVE IInv'
  <1> USE DEF identity, cache, attempt, gets, stage
  <1>1. /\ \A r \in Requests : pc'[r] = pc[r]
        /\ \A d \in Tasks : pc'[d] = pc[d] \/ (pc[d] # "fetching" /\ pc'[d] # "fetching")
        /\ keys = {} => pc[Retrier] = "idle" \/ pc'[Retrier] # "idle"
        /\ UNCHANGED <<status, sinceChange, keys, fetchAge, ttl, attemptAge, lock, reply, lastOutcome,
                       token, unknown, due, warmed, open>>
    BY TaskAssumption DEF IInv, TypeOK, BeginWarm, RetryAgain, RetryDone, Tasks
  <1>2. LockDiscipline'
    BY <1>1 DEF IInv, LockDiscipline
  <1>3. RetryLive'
    BY <1>1 DEF IInv, RetryLive
  <1>4. Genuine' /\ ReplyCurrent' /\ CacheCurrent' /\ CallsCurrent' /\ WithdrawnBound' /\ Bounds'
    BY <1>1 DEF IInv, Genuine, ReplyCurrent, CacheCurrent, CallsCurrent, WithdrawnBound, Bounds,
                Ripe, Parse, Published
  <1>5. QED
    BY <1>2, <1>3, <1>4 DEF IInv

LEMMA CloseInv == ASSUME IInv, TypeOK', Close PROVE IInv'
  <1> USE DEF identity, cache, gets
  <1>1. /\ pc'[Retrier] = "idle" /\ ~open'
        /\ \A d \in Tasks : d # Retrier => pc'[d] = pc[d]
        /\ UNCHANGED <<status, sinceChange, keys, fetchAge, ttl, attemptAge, token, unknown, due>>
    BY DEF IInv, TypeOK, Close, Tasks
  <1>2. \/ lock = Retrier /\ lock' = NoTask /\ reply' = NoReply /\ lastOutcome' = "failed"
        \/ lock # Retrier /\ UNCHANGED <<lock, reply, lastOutcome>>
    BY DEF Close, Release
  <1>3. Retrier \in Tasks /\ Retrier # NoTask /\ \A r \in Requests : r # Retrier /\ r \in Tasks
    BY TaskAssumption DEF Tasks
  <1>4. LockDiscipline' /\ RetryLive'
    BY <1>1, <1>2, <1>3, TaskAssumption DEF IInv, LockDiscipline, RetryLive
  <1>5. Genuine' /\ WithdrawnBound' /\ CacheCurrent'
    BY <1>1, <1>2, ReplyTypes
       DEF IInv, Genuine, WithdrawnBound, CacheCurrent, Parse, Published
  <1>6. ReplyCurrent'
    <2>1. CASE lock = Retrier
      BY <1>2, <2>1, ReplyTypes DEF ReplyCurrent
    <2>2. CASE lock # Retrier
      BY <1>1, <1>2, <2>2 DEF IInv, ReplyCurrent, Parse, Published
    <2>3. QED
      BY <2>1, <2>2
  <1>7. CallsCurrent'
    BY <1>1, <1>3 DEF IInv, CallsCurrent, Ripe, Parse, Published
  <1>8. Bounds'
    BY <1>1, <1>2, <1>3, ReplyTypes DEF IInv, Bounds
  <1>9. QED
    BY <1>4, <1>5, <1>6, <1>7, <1>8 DEF IInv

LEMMA StepInv == IInv /\ [Next]_vars => IInv'
  <1> SUFFICES ASSUME IInv, [Next]_vars
               PROVE  IInv'
    OBVIOUS
  <1>1. TypeOK'
    BY TypeStep DEF IInv
  <1>2. CASE UNCHANGED vars
    BY <1>2 DEF vars, identity, cache, attempt, gets, stage, IInv, TypeOK, LockDiscipline,
                RetryLive, Genuine, ReplyCurrent, CacheCurrent, CallsCurrent, WithdrawnBound, Bounds,
                Ripe, Parse, Published
  <1>3. CASE Next
    BY <1>1, <1>3, PublishInv, WithdrawInv, TickInv, GetFromCacheInv, GetNeedsRefreshInv,
       SkipRefreshInv, StartFetchInv, InstallInv, FailedAttemptInv, AnswerInv, AbandonInv,
       RetryTaskInv, CloseInv
       DEF Next, Refresh
  <1>4. QED
    BY <1>2, <1>3

\* The inductive invariant holds in every reachable state.
THEOREM Invariance == Spec => []IInv
  BY InitInv, StepInv, PTL DEF Spec

-----------------------------------------------------------------------------
(* The theorems *)

\* The lock is never left held and nobody fetches without it, whatever raises,
\* is cancelled or is called twice (async with self._lock, keys.py 201).
THEOREM LockTheorem == Spec => []LockDiscipline
  BY Invariance, PTL DEF IInv

\* A process whose warm missed always has its retry task (keys.py 124-126, 132).
THEOREM RetryTheorem == Spec => []RetryLive
  BY Invariance, PTL DEF IInv

\* How long a withdrawn key can be used (keys.py 36-38, 197).
THEOREM RemovedKeyTheorem == Spec => []RemovedKeyBound
  <1>1. IInv => RemovedKeyBound
    <2> SUFFICES ASSUME IInv, NEW k \in keys, status[k] = "withdrawn",
                        sinceChange[k] > Longest + FetchMax
                 PROVE  /\ Expired
                        /\ lock # NoTask \/ attemptAge >= MinInterval \/ lastOutcome = "failed"
      BY DEF RemovedKeyBound
    <2>1. /\ {fetchAge, attemptAge, ttl, Longest, FetchMax, MinInterval} \subseteq Nat
          /\ sinceChange[k] \in Nat /\ MinInterval <= Longest /\ ttl <= Longest
      BY IntervalAssumption DEF IInv, TypeOK, Ages, Bounds, Longest
    <2>2. fetchAge > Longest
      BY <2>1 DEF IInv, WithdrawnBound
    <2>3. Expired
      BY <2>1, <2>2 DEF Expired
    <2>4. lock = NoTask /\ lastOutcome # "failed" => attemptAge >= MinInterval
      <3> SUFFICES ASSUME lock = NoTask, lastOutcome # "failed"
                   PROVE  attemptAge >= MinInterval
        OBVIOUS
      <3>1. lastOutcome = "ok"
        BY DEF IInv, TypeOK, Bounds
      <3>2. fetchAge <= attemptAge
        BY <3>1 DEF IInv, CacheCurrent
      <3>3. QED
        BY <2>1, <2>2, <3>2
    <2>5. QED
      BY <2>3, <2>4
  <1>2. QED
    BY <1>1, Invariance, PTL

\* A get that returns does so in a step of its own, in one of three ways.
LEMMA RefusedSteps ==
  ASSUME IInv, [Next]_vars, NEW r \in Requests, Refused(r)
  PROVE  /\ \/ SkipRefresh(r) /\ keys' = keys
            \/ Install(r) /\ keys' = reply.keys
            \/ Keep(r) /\ keys' = keys
         /\ Matching(token[r], keys') = {}
         /\ pc[r] # "idle" /\ UNCHANGED <<status, sinceChange, attemptAge>>
  <1>1. pc[r] # "idle" /\ pc'[r] = "idle" /\ verdict' = "unavailable"
    BY DEF Refused, Returns
  <1>2. r \in Tasks /\ r # Starter /\ r # Retrier
    BY TaskAssumption DEF Tasks
  <1>3. SkipRefresh(r) \/ Install(r) \/ Keep(r) \/ Propagate(r)
    <2>1. ASSUME NEW c \in Tasks, NEW held, NEW raised \in BOOLEAN, Return(c, held, raised)
          PROVE  c = r
      BY <1>1, <1>2, <2>1, ReturnEffect DEF IInv
    <2>2. ASSUME NEW c \in Tasks, Refresh(c)
          PROVE  c = r /\ ~StartFetch(c)
      <3>1. ~StartFetch(c)
        BY <1>1, <1>2 DEF IInv, TypeOK, StartFetch
      <3>2. Return(c, keys, FALSE) \/ Return(c, keys, TRUE) \/ Return(c, keys', FALSE)
        BY <2>2, <3>1 DEF Refresh, SkipRefresh, Install, Keep, Propagate
      <3>3. QED
        BY <2>1, <3>1, <3>2
    <2>3. ~(\E q \in Requests : Abandon(q))
      BY <1>1, <1>2 DEF IInv, TypeOK, Abandon
    <2>4. ~(\E q \in Requests, kid \in Kids \cup {NoKid} : GetFromCache(q, kid) \/ GetNeedsRefresh(q, kid))
      BY <1>1, <1>2 DEF IInv, TypeOK, GetFromCache, GetNeedsRefresh
    <2>5. ~(BeginWarm \/ RetryAgain \/ RetryDone \/ Close)
      BY <1>1, <1>2 DEF IInv, TypeOK, BeginWarm, RetryAgain, RetryDone, Close
    <2>6. ~(Tick \/ AnswerOk \/ AnswerBad \/ UNCHANGED vars) /\ ~(\E k \in Kids : Publish(k) \/ Withdraw(k))
      BY <1>1 DEF Tick, AnswerOk, AnswerBad, Publish, Withdraw, vars
    <2>7. QED
      BY <2>2, <2>3, <2>4, <2>5, <2>6 DEF Next, Refresh
  <1>4. ~Propagate(r)
    BY <1>1, <1>2 DEF Propagate, Return, ReturnToGet
  <1>5. QED
    BY <1>1, <1>2, <1>3, <1>4
       DEF SkipRefresh, Install, Keep, Return, ReturnToGet, identity, cache, attempt

\* Publishing first and signing later is enough: no cooldown, cache freshness or
\* racing fetch refuses such a token (keys.py 47-51).
THEOREM RotationTheorem == Spec => RotationRule
  <1>1. IInv /\ [Next]_vars => (\A r \in Requests : due[r] /\ Refused(r) => lastOutcome' = "failed")
    <2> SUFFICES ASSUME IInv, [Next]_vars, NEW r \in Requests, due[r], Refused(r)
                 PROVE  lastOutcome' = "failed"
      OBVIOUS
    <2> DEFINE k == token[r]
    <2>1. pc[r] # "idle" /\ UNCHANGED <<status, sinceChange, attemptAge>>
      BY RefusedSteps
    <2>2. k \in Parse(Published) /\ sinceChange[k] >= MinInterval /\ k \in Kids
      BY <2>1 DEF IInv, CallsCurrent, Ripe, Parse, Published
    <2>3. k \notin keys' /\ keys' \in SUBSET Kids
      BY <2>2, RefusedSteps, MatchingKid, TypeStep DEF IInv, TypeOK
    <2>4. ~Install(r)
      BY <2>2, <2>3 DEF IInv, ReplyCurrent, Install
    <2>5. CASE Keep(r)
      BY <2>5 DEF Keep, Release
    <2>6. CASE SkipRefresh(r)
      <3>1. /\ lock = NoTask /\ keys' = keys /\ lastOutcome' = lastOutcome /\ keys # {}
            /\ Fresh(r) \/ attemptAge < MinInterval
        BY <2>6, TaskAssumption DEF SkipRefresh, Fresh, CoolingDown, cache, attempt
      <3>2. ~Fresh(r)
        BY <2>1, <2>2, <2>3, <3>1 DEF IInv, CallsCurrent, Fresh, Parse, Published
      <3>3. sinceChange[k] > attemptAge
        BY <2>2, <3>1, <3>2, IntervalAssumption DEF IInv, TypeOK, Ages
      <3>4. lastOutcome # "ok"
        BY <2>2, <2>3, <3>1, <3>3 DEF IInv, CacheCurrent
      <3>5. QED
        BY <3>1, <3>4 DEF IInv, TypeOK, Bounds
    <2>7. QED
      BY RefusedSteps, <2>4, <2>5, <2>6
  <1>2. QED
    BY <1>1, Invariance, PTL DEF Spec, RotationRule

\* Fail static: a get that found its key when it began is refused only if identity
\* withdrew the key (keys.py 195-196).
THEOREM HeldKeyTheorem == Spec => HeldKeyNotRefused
  <1>1. IInv /\ [Next]_vars =>
          (\A r \in Requests :
             Refused(r) /\ ~unknown[r] /\ token[r] \in Kids => status[token[r]] = "withdrawn")
    <2> SUFFICES ASSUME IInv, [Next]_vars, NEW r \in Requests, Refused(r), ~unknown[r],
                        token[r] \in Kids
                 PROVE  status[token[r]] = "withdrawn"
      OBVIOUS
    <2>1. token[r] \in keys \/ status[token[r]] = "withdrawn"
      BY RefusedSteps DEF IInv, CallsCurrent
    <2>2. token[r] \notin keys'
      BY RefusedSteps, MatchingKid, TypeStep DEF IInv, TypeOK
    <2>3. CASE keys' = keys
      BY <2>1, <2>2, <2>3
    <2>4. CASE Install(r) /\ keys' = reply.keys
      <3>1. token[r] \in keys => token[r] \in Kids \ Malformed /\ status[token[r]] \in {"published", "withdrawn"}
        BY DEF IInv, TypeOK, Genuine
      <3>2. QED
        BY <2>1, <2>2, <2>4, <3>1 DEF IInv, ReplyCurrent, Install, Parse, Published
    <2>5. QED
      BY RefusedSteps, <2>3, <2>4
  <1>2. QED
    BY <1>1, Invariance, PTL DEF Spec, HeldKeyNotRefused

\* has_keys never goes back to false (keys.py 104-109).
THEOREM NeverEmptiedTheorem == Spec => KeysNeverEmptied
  <1>1. [Next]_vars => (keys # {} => keys' # {})
    BY DEF Next, vars, Refresh, Publish, Withdraw, Tick, GetFromCache, GetNeedsRefresh, SkipRefresh,
           StartFetch, Install, Keep, Propagate, AnswerOk, AnswerBad, Abandon, BeginWarm, RetryAgain,
           RetryDone, Close, identity, cache, attempt, gets, stage
  <1>2. QED
    BY <1>1, PTL DEF Spec, KeysNeverEmptied

-----------------------------------------------------------------------------
(* Why a refresh ends *)

\* An answer is none, or tells how the fetch went.
ReplyTold == reply = NoReply \/ reply.outcome \in {"ok", "failed", "raised"}

LEMMA ToldInv ==
  /\ Init => ReplyTold
  /\ ReplyTold /\ [Next]_vars => ReplyTold'
  <1>1. Init => ReplyTold
    BY DEF Init, ReplyTold
  <1>2. ASSUME ReplyTold, [Next]_vars
        PROVE  ReplyTold'
    <2> USE DEF ReplyTold
    <2>1. CASE AnswerOk \/ AnswerBad
      BY <2>1, ReplyTypes DEF AnswerOk, AnswerBad
    <2>2. ASSUME NEW o, Release(o)
          PROVE  ReplyTold'
      BY <2>2 DEF Release
    <2>3. CASE UNCHANGED reply
      BY <1>2, <2>3
    <2>4. AnswerOk \/ AnswerBad \/ (\E o : Release(o)) \/ UNCHANGED reply
      BY <1>2 DEF Next, vars, Refresh, Publish, Withdraw, Tick, GetFromCache, GetNeedsRefresh,
             SkipRefresh, StartFetch, Install, Keep, Propagate, Abandon, BeginWarm, RetryAgain,
             RetryDone, Close, attempt
    <2>5. QED
      BY <2>1, <2>2, <2>3, <2>4
  <1>3. QED
    BY <1>1, <1>2

\* A refresh of any task, for a get, for warm or for the retry task, takes at most three
\* steps once it is there, and whoever has the lock is never stuck with it.
THEOREM RefreshTheorem == Spec => RefreshAdvances
  <1> DEFINE Advance(c) ==
        pc[c] \in {"waiting", "fetching"} =>
          /\ lock = c => reply = NoReply \/ reply.outcome \in {"ok", "failed", "raised"}
          /\ StepsLeft(c)' < StepsLeft(c) \/ UNCHANGED <<pc[c], StepsLeft(c)>>
  <1>1. ASSUME IInv, ReplyTold, Next, NEW c \in Tasks, pc[c] \in {"waiting", "fetching"}
        PROVE  StepsLeft(c)' < StepsLeft(c) \/ UNCHANGED <<pc[c], StepsLeft(c)>>
    <2>0. /\ TypeOK /\ \A d \in Tasks : lock = d <=> pc[d] = "fetching"
          /\ reply = NoReply \/ reply.outcome \in {"ok", "failed", "raised"}
          /\ NoReply.outcome = "none" /\ Retrier \in Tasks /\ Starter \in Tasks
      BY <1>1, ReplyTypes DEF IInv, LockDiscipline, ReplyTold, Tasks
    <2>1. StepsLeft(c) = IF pc[c] = "waiting" THEN 3 ELSE IF reply = NoReply THEN 2 ELSE 1
      BY <1>1 DEF StepsLeft
    <2>2. pc'[c] \in {"idle", "sleeping"} => StepsLeft(c)' = 0
      BY DEF StepsLeft
    <2>3. ASSUME pc'[c] = pc[c], reply' = reply \/ pc[c] # "fetching"
          PROVE  UNCHANGED <<pc[c], StepsLeft(c)>>
      BY <1>1, <2>3 DEF StepsLeft
    <2>4. ASSUME NEW d \in Tasks, NEW held, NEW raised \in BOOLEAN, Return(d, held, raised),
                 (pc[d] = "waiting" /\ reply' = reply) \/ lock = d
          PROVE  StepsLeft(c)' < StepsLeft(c) \/ UNCHANGED <<pc[c], StepsLeft(c)>>
      <3>1. CASE d = c
        BY <2>0, <2>1, <2>2, <2>4, <3>1, ReturnEffect
      <3>2. CASE d # c
        <4>1. pc'[c] = pc[c] \/ pc'[c] = "sleeping"
          BY <2>0, <2>4, <3>2, ReturnEffect
        <4>2. lock = d => pc[c] # "fetching"
          BY <2>0, <3>2
        <4>3. QED
          BY <2>1, <2>2, <2>3, <2>4, <4>1, <4>2
      <3>3. QED
        BY <3>1, <3>2
    <2>5. ASSUME NEW d \in Tasks, SkipRefresh(d) \/ Install(d) \/ Keep(d) \/ Propagate(d)
          PROVE  \E held : \E raised \in BOOLEAN :
                   Return(d, held, raised) /\ ((pc[d] = "waiting" /\ reply' = reply) \/ lock = d)
      BY <2>5 DEF SkipRefresh, Install, Keep, Propagate, attempt
    <2>6. ASSUME NEW d \in Tasks, StartFetch(d)
          PROVE  StepsLeft(c)' < StepsLeft(c) \/ UNCHANGED <<pc[c], StepsLeft(c)>>
      <3>1. CASE d = c
        BY <1>1, <2>0, <2>1, <2>6, <3>1 DEF StartFetch, StepsLeft, TypeOK
      <3>2. CASE d # c
        BY <2>0, <2>3, <2>6, <3>2 DEF StartFetch, TypeOK
      <3>3. QED
        BY <3>1, <3>2
    <2>7. CASE AnswerOk \/ AnswerBad
      <3>1. reply = NoReply /\ reply' # NoReply /\ pc' = pc
        BY <2>0, <2>7, ReplyTypes DEF AnswerOk, AnswerBad
      <3>2. QED
        BY <1>1, <2>1, <2>3, <3>1 DEF StepsLeft
    <2>8. ASSUME NEW r \in Requests, Abandon(r)
          PROVE  StepsLeft(c)' < StepsLeft(c) \/ UNCHANGED <<pc[c], StepsLeft(c)>>
      <3>1. CASE r = c
        BY <2>0, <2>1, <2>2, <2>8, <3>1 DEF Abandon, TypeOK
      <3>2. CASE r # c
        <4>1. pc'[c] = pc[c] /\ (reply' = reply \/ lock = r) /\ r \in Tasks
          BY <2>0, <2>8, <3>2 DEF Abandon, TypeOK, Tasks
        <4>2. QED
          BY <2>0, <2>3, <3>2, <4>1
      <3>3. QED
        BY <3>1, <3>2
    <2>9. CASE Close
      <3>1. CASE c = Retrier
        BY <2>0, <2>1, <2>2, <2>9, <3>1 DEF Close, TypeOK
      <3>2. CASE c # Retrier
        <4>1. pc'[c] = pc[c] /\ (reply' = reply \/ lock = Retrier)
          BY <2>0, <2>9, <3>2 DEF Close, TypeOK
        <4>2. QED
          BY <2>0, <2>3, <3>2, <4>1
      <3>3. QED
        BY <3>1, <3>2
    <2>10. CASE BeginWarm \/ RetryAgain \/ RetryDone
      <3>1. pc'[c] = pc[c] /\ reply' = reply
        BY <1>1, <2>0, <2>10 DEF BeginWarm, RetryAgain, RetryDone, attempt, TypeOK
      <3>2. QED
        BY <2>3, <3>1
    <2>11. ASSUME NEW r \in Requests, NEW kid \in Kids \cup {NoKid},
                  GetFromCache(r, kid) \/ GetNeedsRefresh(r, kid)
           PROVE  StepsLeft(c)' < StepsLeft(c) \/ UNCHANGED <<pc[c], StepsLeft(c)>>
      <3>1. pc'[c] = pc[c] /\ reply' = reply
        BY <1>1, <2>0, <2>11 DEF GetFromCache, GetNeedsRefresh, attempt, TypeOK
      <3>2. QED
        BY <2>3, <3>1
    <2>12. ASSUME NEW k \in Kids, Publish(k) \/ Withdraw(k)
           PROVE  UNCHANGED <<pc[c], StepsLeft(c)>>
      BY <2>3, <2>12 DEF Publish, Withdraw, attempt
    <2>13. CASE Tick
      BY <2>3, <2>13 DEF Tick
    <2>14. QED
      BY <1>1, <2>4, <2>5, <2>6, <2>7, <2>8, <2>9, <2>10, <2>11, <2>12, <2>13 DEF Next, Refresh
  <1>2. IInv /\ ReplyTold /\ [Next]_vars => [\A c \in Tasks : Advance(c)]_vars
    BY <1>1 DEF ReplyTold
  <1>3. QED
    BY <1>2, ToldInv, Invariance, PTL DEF Spec, RefreshAdvances

-----------------------------------------------------------------------------
(* What the cache is to a service that verifies tokens *)

\* The mapped state is what it was in every step that leaves lock, answer and keys.
LEMMA RingStutters ==
  ASSUME UNCHANGED <<status, keys, lock, reply, attemptAge>>
  PROVE  UNCHANGED Ring!ringVars
  BY DEF Ring!ringVars

\* An attempt that ends without installing leaves the ring as it is.
LEMMA RingGivesUp ==
  ASSUME lock # NoTask, lock' = NoTask, reply' = NoReply, UNCHANGED <<status, keys>>
  PROVE  Ring!RingNext
  <1>1. reply'.keys = {}
    BY DEF NoReply
  <1>2. Ring!GiveUp
    BY <1>1 DEF Ring!GiveUp, Ring!StopAsking
  <1>3. QED
    BY <1>2 DEF Ring!RingNext

\* Whatever tasks share the cache and however identity fails, it holds what was
\* published at some instant of the last fetch that succeeded, and never loses it.
THEOREM RefinementTheorem == Spec => KeyRingSpec
  <1>1. Init => Ring!RingInit
    BY DEF Init, Ring!RingInit, NoReply
  <1>2. IInv /\ [Next]_vars => [Ring!RingNext]_(Ring!ringVars)
    <2> SUFFICES ASSUME IInv, [Next]_vars
                 PROVE  Ring!RingNext \/ UNCHANGED Ring!ringVars
      OBVIOUS
    <2>1. ASSUME NEW k \in Kids, Publish(k) \/ Withdraw(k)
          PROVE  Ring!RingNext
      <3>1. UNCHANGED <<keys, lock, reply, attemptAge>>
        BY <2>1 DEF Publish, Withdraw, cache, attempt
      <3>2. Ring!Publish(k) \/ Ring!Withdraw(k)
        BY <2>1, <3>1 DEF Publish, Withdraw, Ring!Publish, Ring!Withdraw, Ring!ChangeTo
      <3>3. QED
        BY <3>2 DEF Ring!RingNext
    <2>2. CASE Tick
      <3>1. CASE lock = NoTask
        BY <2>2, <3>1 DEF Tick, Ring!ringVars
      <3>2. CASE lock # NoTask
        <4>1. attemptAge < FetchMax /\ attemptAge' = attemptAge + 1
          BY <2>2, <3>2, IntervalAssumption DEF Tick, Older, IInv, TypeOK, Ages
        <4>2. Ring!Pass
          BY <2>2, <3>2, <4>1 DEF Tick, Ring!Pass
        <4>3. QED
          BY <4>2 DEF Ring!RingNext
      <3>3. QED
        BY <3>1, <3>2
    <2>3. ASSUME NEW c \in Tasks, StartFetch(c)
          PROVE  Ring!RingNext
      <3>1. lock = NoTask /\ lock' # NoTask /\ attemptAge' = 0 /\ UNCHANGED <<status, keys, reply>>
        BY <2>3, TaskAssumption DEF StartFetch, identity, cache
      <3>2. Ring!Ask
        BY <3>1 DEF Ring!Ask
      <3>3. QED
        BY <3>2 DEF Ring!RingNext
    <2>4. CASE AnswerOk
      <3>1. /\ lock # NoTask /\ reply.keys = {} /\ reply'.keys = Parse(Published)
            /\ UNCHANGED <<status, keys, lock, attemptAge>>
        BY <2>4 DEF AnswerOk, NoReply, identity, cache
      <3>2. Parse(Published) = Ring!Standing
        BY DEF Parse, Published, Ring!Standing
      <3>3. Ring!See
        BY <3>1, <3>2 DEF Ring!See
      <3>4. QED
        BY <3>3 DEF Ring!RingNext
    <2>5. CASE AnswerBad
      <3>1. reply.keys = {} /\ reply'.keys = {} /\ UNCHANGED <<status, keys, lock, attemptAge>>
        BY <2>5 DEF AnswerBad, NoReply, Failed, Raised, identity, cache
      <3>2. QED
        BY <3>1 DEF Ring!ringVars
    <2>6. ASSUME NEW c \in Tasks, Install(c)
          PROVE  Ring!RingNext
      <3>1. /\ lock # NoTask /\ lock' = NoTask /\ reply.keys # {} /\ keys' = reply.keys
            /\ reply'.keys = {} /\ UNCHANGED status
        BY <2>6, TaskAssumption DEF Install, Release, NoReply, identity
      <3>2. Ring!Replace
        BY <3>1 DEF Ring!Replace, Ring!StopAsking
      <3>3. QED
        BY <3>2 DEF Ring!RingNext
    <2>7. ASSUME NEW c \in Tasks, Keep(c) \/ Propagate(c)
          PROVE  Ring!RingNext
      <3>1. lock # NoTask /\ lock' = NoTask /\ reply' = NoReply /\ UNCHANGED <<status, keys>>
        BY <2>7, TaskAssumption DEF Keep, Propagate, Release, identity, cache
      <3>2. QED
        BY <3>1, RingGivesUp
    <2>8. ASSUME NEW r \in Requests, Abandon(r)
          PROVE  Ring!RingNext \/ UNCHANGED Ring!ringVars
      <3>1. /\ UNCHANGED <<status, keys, attemptAge>>
            /\ \/ lock # NoTask /\ lock' = NoTask /\ reply' = NoReply
               \/ UNCHANGED <<lock, reply>>
        BY <2>8, TaskAssumption DEF Abandon, Release, Tasks, identity, cache
      <3>2. QED
        BY <3>1, RingGivesUp, RingStutters
    <2>9. CASE Close
      <3>1. /\ UNCHANGED <<status, keys, attemptAge>>
            /\ \/ lock # NoTask /\ lock' = NoTask /\ reply' = NoReply
               \/ UNCHANGED <<lock, reply>>
        BY <2>9, TaskAssumption DEF Close, Release, Tasks, identity, cache
      <3>2. QED
        BY <3>1, RingGivesUp, RingStutters
    <2>10. ASSUME \/ \E r \in Requests, kid \in Kids \cup {NoKid} :
                       GetFromCache(r, kid) \/ GetNeedsRefresh(r, kid)
                  \/ \E c \in Tasks : SkipRefresh(c)
                  \/ BeginWarm \/ RetryAgain \/ RetryDone
                  \/ UNCHANGED vars
           PROVE  UNCHANGED Ring!ringVars
      <3>1. UNCHANGED <<status, keys, lock, reply, attemptAge>>
        BY <2>10 DEF GetFromCache, GetNeedsRefresh, SkipRefresh, BeginWarm, RetryAgain, RetryDone,
                     identity, cache, attempt, vars
      <3>2. QED
        BY <3>1, RingStutters
    <2>11. QED
      BY <2>1, <2>2, <2>3, <2>4, <2>5, <2>6, <2>7, <2>8, <2>9, <2>10 DEF Next, Refresh
  <1>3. QED
    BY <1>1, <1>2, Invariance, PTL DEF Spec, KeyRingSpec, Ring!RingSpec

\* The ring alone never runs empty, and keeps every key that still stands.
THEOREM RingKeepsKeys ==
  KeyRingSpec => KeysNeverEmptied /\ [][\A k \in keys : status[k] = "published" => k \in keys']_keys
  <1> DEFINE Seen == /\ keys \cup reply.keys \subseteq Kids \ Malformed
                     /\ status \in [Kids -> {"unborn", "published", "withdrawn"}]
                     /\ \A k \in keys \cup reply.keys : status[k] # "unborn"
                     /\ reply.keys # {} =>
                          \A k \in keys : status[k] = "published" => k \in reply.keys
  <1> DEFINE Kept == \A k \in keys : status[k] = "published" => k \in keys'
  <1>1. Ring!RingInit => Seen
    BY DEF Ring!RingInit
  <1>2. Seen /\ [Ring!RingNext]_(Ring!ringVars) => Seen' /\ [keys # {} => keys' # {}]_vars /\ [Kept]_keys
    <2> SUFFICES ASSUME Seen, [Ring!RingNext]_(Ring!ringVars)
                 PROVE  Seen' /\ [keys # {} => keys' # {}]_vars /\ [Kept]_keys
      OBVIOUS
    <2>1. ASSUME NEW k \in Kids, Ring!Publish(k) \/ Ring!Withdraw(k)
          PROVE  Seen' /\ keys' = keys
      BY <2>1 DEF Ring!Publish, Ring!Withdraw, Ring!ChangeTo
    <2>2. CASE Ring!Pass \/ Ring!Ask \/ UNCHANGED Ring!ringVars
      <3>1. UNCHANGED <<status, keys, reply.keys>>
        BY <2>2 DEF Ring!Pass, Ring!Ask, Ring!ringVars
      <3>2. QED
        BY <3>1
    <2>3. CASE Ring!See
      <3>1. UNCHANGED <<status, keys>> /\ reply'.keys = Ring!Standing
        BY <2>3 DEF Ring!See
      <3>2. QED
        BY <3>1 DEF Ring!Standing
    <2>4. CASE Ring!Replace \/ Ring!GiveUp
      <3>1. /\ UNCHANGED status /\ reply'.keys = {}
            /\ keys' = keys \/ (keys' = reply.keys /\ reply.keys # {})
        BY <2>4 DEF Ring!Replace, Ring!GiveUp, Ring!StopAsking
      <3>2. QED
        BY <3>1
    <2>5. QED
      BY <2>1, <2>2, <2>3, <2>4 DEF Ring!RingNext
  <1>3. QED
    BY <1>1, <1>2, PTL DEF KeyRingSpec, Ring!RingSpec, KeysNeverEmptied
=============================================================================
