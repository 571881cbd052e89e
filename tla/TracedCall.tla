----------------------------- MODULE TracedCall -----------------------------
(***************************************************************************)
(* TracedAsyncClient.request and TracedClient.request of http_client.py:   *)
(* calls to another service with bounded retry and an optional fallback,   *)
(* over a network that loses and delays requests and answers.  A request   *)
(* the client no longer waits for may still reach the service, while a     *)
(* later attempt is made or after the call has returned.                   *)
(***************************************************************************)
EXTENDS Integers

CONSTANTS
  Calls,     \* calls of request, each made at most once
  Attempts,  \* RetryPolicy.attempts
  Kinds      \* what callers ask for: [method, declared, fallback]

\* "safe" stands for the methods of IDEMPOTENT_METHODS, "unsafe" for POST and PATCH;
\* declared is the argument idempotent (None, True or False).
ASSUME CallAssumption ==
  /\ Attempts \in Nat \ {0}
  /\ Kinds \subseteq [method   : {"safe", "unsafe"},
                      declared : {"none", "yes", "no"},
                      fallback : BOOLEAN]

VARIABLES
  pc,       \* per call: where its request() is
  kind,     \* per call: what the caller asks for
  attempt,  \* per call: the loop variable
  outcome,  \* per call: how it returned
  fate,     \* per call and attempt: what became of the HTTP request
  reply     \* per call: status of the answer on its way to the client

vars == <<pc, kind, attempt, outcome, fate, reply>>

\* ok: 2xx.  moved: 3xx, which the client does not follow.  wrong: 4xx but 429.
\* busy: RETRY_STATUSES.  fault: the other 5xx.
Status == {"ok", "moved", "wrong", "busy", "fault"}
Outcomes == {"none", "raised", "fallback", "propagated"} \cup Status

TypeOK ==
  /\ pc \in [Calls -> {"idle", "send", "wait", "backoff", "done"}]
  /\ kind \in [Calls -> Kinds]
  /\ attempt \in [Calls -> 1..Attempts]
  /\ outcome \in [Calls -> Outcomes]
  /\ fate \in [Calls -> [1..Attempts -> {"unsent", "travelling", "carried", "refused", "lost"}]]
  /\ reply \in [Calls -> Status \cup {"none"}]

-----------------------------------------------------------------------------
IsRetryableMethod(k) ==
  IF k.declared = "none" THEN k.method = "safe" ELSE k.declared = "yes"

\* A bug the code does not have: the caller's declaration only adds to the methods.
AttemptsForSafeMethods(k) ==
  IF k.method = "safe" \/ k.declared = "yes" THEN Attempts ELSE 1

AttemptsFor(k) == IF IsRetryableMethod(k) THEN Attempts ELSE 1

ShouldRetryResponse(s) == s = "busy"

Begin(c) ==
  /\ pc[c] = "idle"
  /\ pc' = [pc EXCEPT ![c] = "send"]
  /\ UNCHANGED <<kind, attempt, outcome, fate, reply>>

Send(c) ==
  /\ pc[c] = "send"
  /\ pc' = [pc EXCEPT ![c] = "wait"]
  /\ fate' = [fate EXCEPT ![c][attempt[c]] = "travelling"]
  /\ UNCHANGED <<kind, attempt, outcome, reply>>

Return(c, o) ==
  /\ pc' = [pc EXCEPT ![c] = "done"]
  /\ outcome' = [outcome EXCEPT ![c] = o]
  /\ reply' = [reply EXCEPT ![c] = "none"]

\* A bug the code does not have: the answer to the attempt given up is kept, and
\* taken for that to the next one.
SleepKeepingAnswer(c) ==
  /\ pc' = [pc EXCEPT ![c] = "backoff"]
  /\ UNCHANGED <<outcome, reply>>

Sleep(c) ==
  /\ pc' = [pc EXCEPT ![c] = "backoff"]
  /\ reply' = [reply EXCEPT ![c] = "none"]
  /\ UNCHANGED outcome

GiveUp(c) == Return(c, IF kind[c].fallback THEN "fallback" ELSE "raised")

\* A bug the code does not have: the budget is spent one attempt early.
FailEarly(c) ==
  /\ pc[c] \in {"send", "wait"}
  /\ IF attempt[c] + 1 >= AttemptsFor(kind[c]) THEN GiveUp(c) ELSE Sleep(c)
  /\ UNCHANGED <<kind, attempt, fate>>

\* A timeout (of the connection pool, the connection or the answer) or a
\* transport error: the request, if sent, travels on.
Fail(c) ==
  /\ pc[c] \in {"send", "wait"}
  /\ IF attempt[c] = AttemptsFor(kind[c]) THEN GiveUp(c) ELSE Sleep(c)
  /\ UNCHANGED <<kind, attempt, fate>>

\* Any other exception leaves request() as it is, fallback or not.
Propagate(c) ==
  /\ pc[c] \in {"send", "wait", "backoff"}
  /\ Return(c, "propagated")
  /\ UNCHANGED <<kind, attempt, fate>>

\* A bug the code does not have: the last failing response goes to the caller
\* although it declared a fallback.
ReceiveFinalAsIs(c) ==
  LET s == reply[c] IN
  /\ pc[c] = "wait" /\ s # "none"
  /\ IF ShouldRetryResponse(s) /\ attempt[c] < AttemptsFor(kind[c])
     THEN Sleep(c)
     ELSE Return(c, s)
  /\ UNCHANGED <<kind, attempt, fate>>

Receive(c) ==
  LET s == reply[c] IN
  /\ pc[c] = "wait" /\ s # "none"
  /\ IF ShouldRetryResponse(s) /\ attempt[c] < AttemptsFor(kind[c])
     THEN Sleep(c)
     ELSE Return(c, IF ShouldRetryResponse(s) /\ kind[c].fallback THEN "fallback" ELSE s)
  /\ UNCHANGED <<kind, attempt, fate>>

\* A bug the code does not have: the attempt that failed is not counted.
WakeUncounted(c) ==
  /\ pc[c] = "backoff"
  /\ pc' = [pc EXCEPT ![c] = "send"]
  /\ UNCHANGED <<kind, attempt, outcome, fate, reply>>

Wake(c) ==
  /\ pc[c] = "backoff"
  /\ pc' = [pc EXCEPT ![c] = "send"]
  /\ attempt' = [attempt EXCEPT ![c] = @ + 1]
  /\ UNCHANGED <<kind, outcome, fate, reply>>

-----------------------------------------------------------------------------
(* The network and the service *)

\* A request arrives, at any time after it was sent, and is carried out or not.  The
\* service is taken to carry out what it answers 2xx and not what it answers 4xx; a
\* redirect, a gateway's 502 and a 500 come for either.  Only the attempt the client
\* still waits for has a connection to answer on.
Handle(c, n, s) ==
  /\ fate[c][n] = "travelling"
  /\ \/ s # "wrong" /\ fate' = [fate EXCEPT ![c][n] = "carried"]
     \/ s # "ok" /\ fate' = [fate EXCEPT ![c][n] = "refused"]
  /\ IF pc[c] = "wait" /\ attempt[c] = n
     THEN reply' = [reply EXCEPT ![c] = s]
     ELSE UNCHANGED reply
  /\ UNCHANGED <<pc, kind, attempt, outcome>>

Lose(c, n) ==
  /\ fate[c][n] = "travelling"
  /\ fate' = [fate EXCEPT ![c][n] = "lost"]
  /\ UNCHANGED <<pc, kind, attempt, outcome, reply>>

Init ==
  /\ pc = [c \in Calls |-> "idle"]
  /\ kind \in [Calls -> Kinds]
  /\ attempt = [c \in Calls |-> 1]
  /\ outcome = [c \in Calls |-> "none"]
  /\ fate = [c \in Calls |-> [n \in 1..Attempts |-> "unsent"]]
  /\ reply = [c \in Calls |-> "none"]

Request(c) == Send(c) \/ Fail(c) \/ Receive(c) \/ Wake(c) \/ Propagate(c)

Next ==
  \/ \E c \in Calls : Begin(c) \/ Request(c)
  \/ \E c \in Calls, n \in 1..Attempts, s \in Status : Handle(c, n, s)
  \/ \E c \in Calls, n \in 1..Attempts : Lose(c, n)

Spec == Init /\ [][Next]_vars

\* The event loop runs the calls; a wait ends, by an answer or by the timeout.
LiveSpec == Spec /\ \A c \in Calls : WF_vars(Request(c))

-----------------------------------------------------------------------------
(* Properties *)

Ended(c) == pc[c] = "done"
Carried(c) == {n \in 1..Attempts : fate[c][n] = "carried"}

\* What nobody declared repeatable, a POST or PATCH or anything declared not
\* idempotent, is carried out at most once, by requests that arrive after the
\* call returned too.
Repeatable(k) == k.declared = "yes" \/ (k.declared = "none" /\ k.method = "safe")
UnsafeAtMostOnce ==
  \A c \in Calls : ~Repeatable(kind[c]) =>
    \A m, n \in Carried(c) : m = n

\* A call is degraded or raises RetryBudgetExceeded only when every attempt it was
\* allowed failed: no answer the caller could use was thrown away.
OnlyAfterBudget ==
  \A c \in Calls : outcome[c] \in {"raised", "fallback"} =>
    attempt[c] = (IF Repeatable(kind[c]) THEN Attempts ELSE 1)

\* A caller with a fallback never sees an exhausted budget, neither the exception
\* nor the failing response.
FallbackCovers ==
  \A c \in Calls : Ended(c) /\ kind[c].fallback => outcome[c] \notin {"raised", "busy"}

\* The answer a caller gets is that to its last attempt, whatever earlier ones came
\* to: that attempt was carried out if it was answered ok, and not if it was answered
\* with a client error; then nothing was, and nothing will be, unless the call is
\* repeatable.  Of a call answered with a redirect, which is returned as it is, with
\* a 5xx, or not at all, the caller knows neither.
AnswerIsTrue ==
  \A c \in Calls :
    /\ outcome[c] = "ok" => attempt[c] \in Carried(c)
    /\ outcome[c] = "wrong" => attempt[c] \notin Carried(c)
    /\ outcome[c] = "wrong" /\ ~Repeatable(kind[c]) => Carried(c) = {}

\* The retry loop, over this network, makes remote calls as RemoteCall has them.
Remote == INSTANCE RemoteCall WITH carried <- [c \in Calls |-> Carried(c)]
RemoteCallSpec == Remote!RemoteSpec

\* A call that has begun returns.
EveryCallEnds == \A c \in Calls : pc[c] # "idle" ~> Ended(c)

-----------------------------------------------------------------------------
(* The inductive invariant behind the safety properties *)

\* No attempt beyond the budget, and no request sent before its turn.
Budget(c) ==
  /\ attempt[c] <= AttemptsFor(kind[c])
  /\ pc[c] = "backoff" => attempt[c] < AttemptsFor(kind[c])
  /\ \A n \in 1..Attempts :
       n > attempt[c] \/ (n = attempt[c] /\ pc[c] \in {"idle", "send"}) => fate[c][n] = "unsent"

\* An answer tells what became of the request it answers.
Answer(c) ==
  /\ reply[c] # "none" => pc[c] = "wait" /\ fate[c][attempt[c]] # "travelling"
  /\ reply[c] = "ok" => fate[c][attempt[c]] = "carried"
  /\ reply[c] = "wrong" => fate[c][attempt[c]] = "refused"

Outcome(c) ==
  /\ Ended(c) <=> outcome[c] # "none"
  /\ outcome[c] = "ok" => fate[c][attempt[c]] = "carried"
  /\ outcome[c] = "wrong" => fate[c][attempt[c]] = "refused"
  /\ outcome[c] \in {"raised", "fallback", "busy"} => attempt[c] = AttemptsFor(kind[c])
  /\ outcome[c] \in {"raised", "busy"} => ~kind[c].fallback

IInv == TypeOK /\ \A c \in Calls : Budget(c) /\ Answer(c) /\ Outcome(c)
=============================================================================
