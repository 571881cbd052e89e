-------------------------- MODULE TracedCall_proofs --------------------------
(***************************************************************************)
(* Theorems about TracedCall, for every number of attempts and whatever    *)
(* callers ask for.                                                        *)
(***************************************************************************)
EXTENDS TracedCall, TLAPS

LEMMA BudgetType ==
  ASSUME NEW k \in Kinds
  PROVE  /\ AttemptsFor(k) \in 1..Attempts
         /\ AttemptsFor(k) = (IF Repeatable(k) THEN Attempts ELSE 1)
  BY CallAssumption DEF AttemptsFor, IsRetryableMethod, Repeatable

LEMMA InitInv == Init => IInv
  <1> SUFFICES ASSUME Init
               PROVE  IInv
    OBVIOUS
  <1>1. TypeOK
    BY CallAssumption DEF Init, TypeOK, Outcomes
  <1>2. ASSUME NEW c \in Calls
        PROVE  Budget(c) /\ Answer(c) /\ Outcome(c)
    <2>1. AttemptsFor(kind[c]) \in Nat \ {0}
      BY BudgetType, CallAssumption DEF Init
    <2>2. QED
      BY <2>1, CallAssumption DEF Init, Budget, Answer, Outcome, Ended
  <1>3. QED
    BY <1>1, <1>2 DEF IInv

\* A step that changes nothing of a call keeps what the invariant says of it.
LEMMA Untouched ==
  ASSUME NEW c \in Calls, Budget(c), Answer(c), Outcome(c),
         pc'[c] = pc[c], kind'[c] = kind[c], attempt'[c] = attempt[c],
         outcome'[c] = outcome[c], fate'[c] = fate[c], reply'[c] = reply[c]
  PROVE  Budget(c)' /\ Answer(c)' /\ Outcome(c)'
  BY DEF Budget, Answer, Outcome, Ended, AttemptsFor, IsRetryableMethod

LEMMA StepInv == IInv /\ [Next]_vars => IInv'
  <1> SUFFICES ASSUME IInv, [Next]_vars
               PROVE  IInv'
    OBVIOUS
  <1> USE CallAssumption
  <1>0. TypeOK /\ \A c \in Calls : Budget(c) /\ Answer(c) /\ Outcome(c)
    BY DEF IInv
  <1>1. ASSUME NEW c \in Calls, Begin(c)
        PROVE  IInv'
    <2>1. TypeOK'
      BY <1>0, <1>1 DEF Begin, TypeOK
    <2>2. Budget(c)' /\ Answer(c)' /\ Outcome(c)'
      BY <1>0, <1>1 DEF Begin, TypeOK, Budget, Answer, Outcome, Ended
    <2>3. \A b \in Calls : b # c => Budget(b)' /\ Answer(b)' /\ Outcome(b)'
      BY <1>0, <1>1, Untouched DEF Begin, TypeOK
    <2>4. QED
      BY <2>1, <2>2, <2>3 DEF IInv
  <1>2. ASSUME NEW c \in Calls, Send(c)
        PROVE  IInv'
    <2>1. TypeOK'
      BY <1>0, <1>2 DEF Send, TypeOK
    <2>2. /\ pc[c] = "send" /\ pc'[c] = "wait" /\ fate'[c] = [fate[c] EXCEPT ![attempt[c]] = "travelling"]
          /\ UNCHANGED <<kind, attempt, outcome, reply>>
      BY <1>0, <1>2 DEF Send, TypeOK
    <2>3. Budget(c)' /\ Answer(c)' /\ Outcome(c)'
      BY <1>0, <2>2 DEF TypeOK, Budget, Answer, Outcome, Ended
    <2>4. \A b \in Calls : b # c => Budget(b)' /\ Answer(b)' /\ Outcome(b)'
      BY <1>0, <1>2, Untouched DEF Send, TypeOK
    <2>5. QED
      BY <2>1, <2>3, <2>4 DEF IInv
  <1>3. ASSUME NEW c \in Calls, Fail(c) \/ Receive(c) \/ Propagate(c)
        PROVE  IInv'
    <2>1. UNCHANGED <<kind, attempt, fate>> /\ AttemptsFor(kind[c]) \in 1..Attempts
      BY <1>0, <1>3, BudgetType DEF Fail, Receive, Propagate, TypeOK
    <2>2. CASE Sleep(c) /\ attempt[c] # AttemptsFor(kind[c]) /\ pc[c] \in {"send", "wait"}
      <3>1. TypeOK'
        BY <1>0, <2>1, <2>2 DEF Sleep, TypeOK
      <3>2. Budget(c)' /\ Answer(c)' /\ Outcome(c)'
        BY <1>0, <2>1, <2>2 DEF Sleep, TypeOK, Budget, Answer, Outcome, Ended
      <3>3. \A b \in Calls : b # c => Budget(b)' /\ Answer(b)' /\ Outcome(b)'
        BY <1>0, <2>1, <2>2, Untouched DEF Sleep, TypeOK
      <3>4. QED
        BY <3>1, <3>2, <3>3 DEF IInv
    <2>3. ASSUME NEW o \in Outcomes, Return(c, o), o # "none", pc[c] \in {"send", "wait", "backoff"},
                 o = "ok" => fate[c][attempt[c]] = "carried",
                 o = "wrong" => fate[c][attempt[c]] = "refused",
                 o \in {"raised", "fallback", "busy"} => attempt[c] = AttemptsFor(kind[c]),
                 o \in {"raised", "busy"} => ~kind[c].fallback
          PROVE  IInv'
      <3>1. TypeOK'
        BY <1>0, <2>1, <2>3 DEF Return, TypeOK
      <3>2. Budget(c)' /\ Answer(c)' /\ Outcome(c)'
        BY <1>0, <2>1, <2>3 DEF Return, TypeOK, Budget, Answer, Outcome, Ended
      <3>3. \A b \in Calls : b # c => Budget(b)' /\ Answer(b)' /\ Outcome(b)'
        BY <1>0, <2>1, <2>3, Untouched DEF Return, TypeOK
      <3>4. QED
        BY <3>1, <3>2, <3>3 DEF IInv
    <2>4. CASE Fail(c)
      BY <2>2, <2>3, <2>4 DEF Fail, GiveUp, Outcomes
    <2>5. CASE Receive(c)
      <3>1. pc[c] = "wait" /\ reply[c] \in Status /\ attempt[c] \in Nat
            /\ attempt[c] <= AttemptsFor(kind[c])
        BY <1>0, <2>5 DEF Receive, TypeOK, Budget
      <3>2. /\ reply[c] = "ok" => fate[c][attempt[c]] = "carried"
            /\ reply[c] = "wrong" => fate[c][attempt[c]] = "refused"
        BY <1>0 DEF Answer
      <3>3. CASE reply[c] = "busy" /\ attempt[c] < AttemptsFor(kind[c])
        BY <2>1, <2>2, <2>5, <3>1, <3>3 DEF Receive, ShouldRetryResponse
      <3>4. CASE reply[c] = "busy" /\ attempt[c] = AttemptsFor(kind[c])
        BY <2>1, <2>3, <2>5, <3>1, <3>4 DEF Receive, ShouldRetryResponse, Outcomes, Status
      <3>5. CASE reply[c] # "busy"
        BY <2>3, <2>5, <3>1, <3>2, <3>5 DEF Receive, ShouldRetryResponse, Outcomes, Status
      <3>6. QED
        BY <2>1, <3>1, <3>3, <3>4, <3>5
    <2>6. CASE Propagate(c)
      BY <2>3, <2>6 DEF Propagate, Outcomes
    <2>7. QED
      BY <1>3, <2>4, <2>5, <2>6
  <1>4. ASSUME NEW c \in Calls, Wake(c)
        PROVE  IInv'
    <2>1. /\ pc[c] = "backoff" /\ pc'[c] = "send" /\ attempt'[c] = attempt[c] + 1
          /\ UNCHANGED <<kind, outcome, fate, reply>>
          /\ attempt[c] \in 1..Attempts /\ attempt[c] < AttemptsFor(kind[c])
          /\ AttemptsFor(kind[c]) \in 1..Attempts
      BY <1>0, <1>4, BudgetType DEF Wake, TypeOK, Budget
    <2>2. TypeOK'
      BY <1>0, <1>4, <2>1 DEF Wake, TypeOK
    <2>3. Budget(c)' /\ Answer(c)' /\ Outcome(c)'
      BY <1>0, <2>1 DEF TypeOK, Budget, Answer, Outcome, Ended
    <2>4. \A b \in Calls : b # c => Budget(b)' /\ Answer(b)' /\ Outcome(b)'
      BY <1>0, <1>4, Untouched DEF Wake, TypeOK
    <2>5. QED
      BY <2>2, <2>3, <2>4 DEF IInv
  <1>5. ASSUME NEW c \in Calls, NEW n \in 1..Attempts, NEW f \in {"carried", "refused", "lost"},
               fate[c][n] = "travelling", fate' = [fate EXCEPT ![c][n] = f],
               UNCHANGED <<pc, kind, attempt, outcome>>,
               \/ UNCHANGED reply
               \/ /\ pc[c] = "wait" /\ attempt[c] = n
                  /\ \E s \in Status : /\ reply' = [reply EXCEPT ![c] = s]
                                       /\ s = "ok" => f = "carried"
                                       /\ s = "wrong" => f = "refused"
        PROVE  IInv'
    <2>1. TypeOK'
      BY <1>0, <1>5 DEF TypeOK
    <2>2. /\ fate'[c][n] = f /\ \A m \in 1..Attempts : m # n => fate'[c][m] = fate[c][m]
          /\ n # attempt[c] \/ pc[c] \notin {"idle", "send"}
          /\ n <= attempt[c]
      BY <1>0, <1>5 DEF TypeOK, Budget
    <2>3. Budget(c)'
      BY <1>0, <1>5, <2>2 DEF TypeOK, Budget
    <2>4. Answer(c)' /\ Outcome(c)'
      BY <1>0, <1>5, <2>2 DEF TypeOK, Answer, Outcome, Ended
    <2>5. \A b \in Calls : b # c => Budget(b)' /\ Answer(b)' /\ Outcome(b)'
      BY <1>0, <1>5, Untouched DEF TypeOK
    <2>6. QED
      BY <2>1, <2>3, <2>4, <2>5 DEF IInv
  <1>6. ASSUME NEW c \in Calls, NEW n \in 1..Attempts, NEW s \in Status, Handle(c, n, s)
        PROVE  IInv'
    BY <1>5, <1>6 DEF Handle
  <1>7. ASSUME NEW c \in Calls, NEW n \in 1..Attempts, Lose(c, n)
        PROVE  IInv'
    BY <1>5, <1>7 DEF Lose
  <1>8. CASE UNCHANGED vars
    BY <1>0, <1>8, Untouched DEF vars, IInv, TypeOK
  <1>9. QED
    BY <1>1, <1>2, <1>3, <1>4, <1>6, <1>7, <1>8 DEF Next, Request

\* IInv holds in every reachable state.
THEOREM Invariance == Spec => []IInv
  BY InitInv, StepInv, PTL DEF Spec

\* The declared types hold: above all, no call makes more than Attempts attempts.
THEOREM TypeCorrect == Spec => []TypeOK
  BY Invariance, PTL DEF IInv

\* Whatever the network delays or loses, a call nobody declared repeatable is
\* carried out at most once.
THEOREM AtMostOnceTheorem == Spec => []UnsafeAtMostOnce
  <1>1. IInv => UnsafeAtMostOnce
    <2> SUFFICES ASSUME IInv, NEW c \in Calls, ~Repeatable(kind[c]), NEW n \in Carried(c)
                 PROVE  n = 1
      BY DEF UnsafeAtMostOnce
    <2>1. AttemptsFor(kind[c]) = 1
      BY BudgetType DEF IInv, TypeOK
    <2>2. QED
      BY <2>1, CallAssumption DEF IInv, TypeOK, Budget, Carried
  <1>2. QED
    BY <1>1, Invariance, PTL

\* A call gives up only on its last attempt.
THEOREM BudgetTheorem == Spec => []OnlyAfterBudget
  <1>1. IInv => OnlyAfterBudget
    BY BudgetType DEF IInv, TypeOK, Outcome, OnlyAfterBudget
  <1>2. QED
    BY <1>1, Invariance, PTL

\* A caller with a fallback is never told of an exhausted budget.
THEOREM FallbackTheorem == Spec => []FallbackCovers
  <1>1. IInv => FallbackCovers
    BY DEF IInv, Outcome, FallbackCovers
  <1>2. QED
    BY <1>1, Invariance, PTL

\* What a call returned as the service's answer is what the service did with its last
\* attempt, and, of a call not repeatable that was refused, with every one.
THEOREM AnswerTheorem == Spec => []AnswerIsTrue
  <1>1. IInv => AnswerIsTrue
    <2> SUFFICES ASSUME IInv, NEW c \in Calls
                 PROVE  /\ outcome[c] = "ok" => attempt[c] \in Carried(c)
                        /\ outcome[c] = "wrong" => attempt[c] \notin Carried(c)
                        /\ outcome[c] = "wrong" /\ ~Repeatable(kind[c]) => Carried(c) = {}
      BY DEF AnswerIsTrue
    <2>1. /\ outcome[c] = "ok" => attempt[c] \in Carried(c)
          /\ outcome[c] = "wrong" => attempt[c] \notin Carried(c)
      BY DEF IInv, TypeOK, Outcome, Carried
    <2>2. ASSUME outcome[c] = "wrong", ~Repeatable(kind[c])
          PROVE  Carried(c) = {}
      <3>1. AttemptsFor(kind[c]) = 1 /\ attempt[c] \in 1..Attempts
        BY <2>2, BudgetType DEF IInv, TypeOK
      <3>2. attempt[c] = 1
        BY <3>1 DEF IInv, Budget
      <3>3. QED
        BY <2>2, <3>2, CallAssumption DEF IInv, Budget, Outcome, Carried
    <2>3. QED
      BY <2>1, <2>2
  <1>2. QED
    BY <1>1, Invariance, PTL

-----------------------------------------------------------------------------
(* What a call is to the caller and the service *)

\* At most one attempt of a call is under way, and none before an earlier one:
\* what is carried out by a call not repeatable is its first attempt.
LEMMA OnlyTheFirst ==
  ASSUME IInv, NEW c \in Calls, ~Repeatable(kind[c]), NEW n \in 1..Attempts, fate[c][n] # "unsent"
  PROVE  n = 1 /\ attempt[c] = 1
  <1>1. AttemptsFor(kind[c]) = 1 /\ attempt[c] \in 1..Attempts
    BY BudgetType DEF IInv, TypeOK
  <1>2. attempt[c] = 1
    BY <1>1 DEF IInv, Budget
  <1>3. QED
    BY <1>2, CallAssumption DEF IInv, Budget

\* A return of TracedCall is a return of RemoteCall.
LEMMA ReturnRefined ==
  ASSUME IInv, NEW c \in Calls, NEW o \in Outcomes, Return(c, o), o # "none", outcome[c] = "none",
         UNCHANGED <<kind, attempt, fate>>,
         o = "ok" => fate[c][attempt[c]] = "carried",
         o = "wrong" => fate[c][attempt[c]] = "refused",
         o = "fallback" => kind[c].fallback,
         o \in {"raised", "busy"} => ~kind[c].fallback
  PROVE  Remote!RemoteNext
  <1> DEFINE carried == [b \in Calls |-> Carried(b)]
  <1>1. carried' = carried /\ carried[c] = Carried(c)
    BY DEF Carried
  <1>2. o = "ok" => Carried(c) # {}
    BY DEF IInv, TypeOK, Carried
  <1>3. o = "wrong" => Repeatable(kind[c]) \/ Carried(c) = {}
    BY OnlyTheFirst DEF Carried
  <1>4. outcome' = [outcome EXCEPT ![c] = o]
    BY DEF Return
  <1>5. Remote!Return(c, o)
    BY <1>1, <1>2, <1>3, <1>4 DEF Remote!Return
  <1>6. QED
    BY <1>5 DEF Remote!RemoteNext

\* Every retried call is a remote call: requests carried out late, lost answers and
\* repeats change nothing of what caller and service may rely on.
THEOREM RefinementTheorem == Spec => RemoteCallSpec
  <1>1. Init => Remote!RemoteInit
    <2> SUFFICES ASSUME Init
                 PROVE  Remote!RemoteInit
      OBVIOUS
    <2>1. \A c \in Calls : Carried(c) = {}
      BY DEF Init, Carried
    <2>2. QED
      BY <2>1 DEF Init, Remote!RemoteInit
  <1>2. IInv /\ [Next]_vars => [Remote!RemoteNext]_<<kind, [c \in Calls |-> Carried(c)], outcome>>
    <2> DEFINE carried == [c \in Calls |-> Carried(c)]
    <2> SUFFICES ASSUME IInv, [Next]_vars
                 PROVE  [Remote!RemoteNext]_<<kind, carried, outcome>>
      OBVIOUS
    <2>0. /\ TypeOK
          /\ \A c \in Calls : /\ pc[c] # "done" => outcome[c] = "none"
                              /\ AttemptsFor(kind[c]) \in 1..Attempts
      BY BudgetType DEF IInv, TypeOK, Outcome, Ended
    <2>1. ASSUME UNCHANGED <<kind, outcome>>, UNCHANGED fate
          PROVE  UNCHANGED <<kind, carried, outcome>>
      BY <2>1 DEF Carried
    <2>2. ASSUME NEW c \in Calls, Begin(c) \/ Wake(c)
          PROVE  UNCHANGED <<kind, carried, outcome>>
      BY <2>1, <2>2 DEF Begin, Wake
    <2>3. ASSUME NEW c \in Calls, NEW n \in 1..Attempts, NEW f, f # "carried", fate[c][n] # "carried",
                 fate' = [fate EXCEPT ![c][n] = f], UNCHANGED <<kind, outcome>>
          PROVE  UNCHANGED <<kind, carried, outcome>>
      BY <2>0, <2>3 DEF TypeOK, Carried
    <2>4. ASSUME NEW c \in Calls, Send(c)
          PROVE  UNCHANGED <<kind, carried, outcome>>
      <3>1. attempt[c] \in 1..Attempts /\ fate[c][attempt[c]] = "unsent"
        BY <2>0, <2>4 DEF Send, TypeOK, IInv, Budget
      <3>2. QED
        BY <2>3, <2>4, <3>1 DEF Send
    <2>5. ASSUME NEW c \in Calls, Fail(c) \/ Receive(c) \/ Propagate(c)
          PROVE  [Remote!RemoteNext]_<<kind, carried, outcome>>
      <3>1. UNCHANGED <<kind, attempt, fate>> /\ pc[c] # "done" /\ outcome[c] = "none"
        BY <2>0, <2>5 DEF Fail, Receive, Propagate
      <3>2. CASE Sleep(c)
        BY <2>1, <3>1, <3>2 DEF Sleep
      <3>3. CASE Fail(c) /\ GiveUp(c)
        BY <3>1, <3>3, ReturnRefined DEF GiveUp, Outcomes
      <3>4. CASE Propagate(c)
        BY <3>1, <3>4, ReturnRefined DEF Propagate, Outcomes
      <3>5. CASE Receive(c) /\ ~Sleep(c)
        <4>1. reply[c] \in Status
          BY <2>0, <3>5 DEF Receive, TypeOK
        <4>2. /\ reply[c] = "ok" => fate[c][attempt[c]] = "carried"
              /\ reply[c] = "wrong" => fate[c][attempt[c]] = "refused"
          BY DEF IInv, Answer
        <4>3. CASE reply[c] = "busy" /\ kind[c].fallback
          BY <3>1, <3>5, <4>3, ReturnRefined DEF Receive, ShouldRetryResponse, Outcomes
        <4>4. CASE ~(reply[c] = "busy" /\ kind[c].fallback)
          BY <3>1, <3>5, <4>1, <4>2, <4>4, ReturnRefined DEF Receive, ShouldRetryResponse, Outcomes, Status
        <4>5. QED
          BY <4>3, <4>4
      <3>6. QED
        BY <2>5, <3>2, <3>3, <3>4, <3>5 DEF Fail
    <2>6. ASSUME NEW c \in Calls, NEW n \in 1..Attempts, NEW s \in Status, Handle(c, n, s)
          PROVE  [Remote!RemoteNext]_<<kind, carried, outcome>>
      <3>1. fate[c][n] = "travelling" /\ UNCHANGED <<kind, outcome>>
        BY <2>6 DEF Handle
      <3>2. CASE fate' = [fate EXCEPT ![c][n] = "carried"]
        <4>1. Carried(c)' = Carried(c) \cup {n} /\ \A b \in Calls : b # c => Carried(b)' = Carried(b)
          BY <2>0, <3>2 DEF TypeOK, Carried
        <4>2. carried' = [carried EXCEPT ![c] = @ \cup {n}] /\ n \notin carried[c]
          BY <3>1, <4>1 DEF Carried
        <4>3. Repeatable(kind[c]) \/ (carried[c] = {} /\ outcome[c] # "wrong")
          <5> SUFFICES ASSUME ~Repeatable(kind[c])
                       PROVE  Carried(c) = {} /\ outcome[c] # "wrong"
            OBVIOUS
          <5>1. n = 1 /\ attempt[c] = 1 /\ \A m \in 1..Attempts : fate[c][m] # "unsent" => m = 1
            BY <3>1, OnlyTheFirst
          <5>2. QED
            BY <3>1, <5>1 DEF Carried, IInv, Outcome
        <4>4. Remote!CarryOut(c, n)
          BY <3>1, <4>2, <4>3 DEF Remote!CarryOut
        <4>5. QED
          BY <4>4 DEF Remote!RemoteNext
      <3>3. CASE fate' = [fate EXCEPT ![c][n] = "refused"]
        BY <2>3, <3>1, <3>3
      <3>4. QED
        BY <2>6, <3>2, <3>3 DEF Handle
    <2>7. ASSUME NEW c \in Calls, NEW n \in 1..Attempts, Lose(c, n)
          PROVE  UNCHANGED <<kind, carried, outcome>>
      BY <2>3, <2>7 DEF Lose
    <2>8. CASE UNCHANGED vars
      BY <2>1, <2>8 DEF vars
    <2>9. QED
      BY <2>2, <2>4, <2>5, <2>6, <2>7, <2>8 DEF Next, Request
  <1>3. QED
    BY <1>1, <1>2, Invariance, PTL DEF Spec, RemoteCallSpec, Remote!RemoteSpec

-----------------------------------------------------------------------------
(* Why a call ends *)

\* Steps a call has left: every attempt is sent, waited for and slept after.
StepsLeft(c) ==
  CASE pc[c] = "idle"    -> 4 + 3 * (AttemptsFor(kind[c]) - attempt[c])
    [] pc[c] = "send"    -> 3 + 3 * (AttemptsFor(kind[c]) - attempt[c])
    [] pc[c] = "wait"    -> 2 + 3 * (AttemptsFor(kind[c]) - attempt[c])
    [] pc[c] = "backoff" -> 1 + 3 * (AttemptsFor(kind[c]) - attempt[c])
    [] pc[c] = "done"    -> 0

\* Every step of request() brings its end nearer and no other step moves it away:
\* however services answer, a call takes at most three steps for each attempt of its
\* budget, and none after it has returned.
THEOREM ProgressTheorem ==
  Spec => [][\A c \in Calls :
               /\ StepsLeft(c) \in 0..(4 + 3 * (Attempts - 1))
               /\ \/ StepsLeft(c)' < StepsLeft(c)
                  \/ UNCHANGED <<pc[c], attempt[c], outcome[c]>>]_vars
  <1> DEFINE Advance(c) == /\ StepsLeft(c) \in 0..(4 + 3 * (Attempts - 1))
                           /\ \/ StepsLeft(c)' < StepsLeft(c)
                              \/ UNCHANGED <<pc[c], attempt[c], outcome[c]>>
  <1>1. ASSUME IInv, [Next]_vars, NEW c \in Calls
        PROVE  Advance(c)
    <2>1. /\ TypeOK /\ AttemptsFor(kind[c]) \in 1..Attempts /\ attempt[c] \in 1..Attempts
          /\ attempt[c] <= AttemptsFor(kind[c])
          /\ pc[c] = "backoff" => attempt[c] < AttemptsFor(kind[c])
      BY <1>1, BudgetType DEF IInv, TypeOK, Budget
    <2>2. kind' = kind
      BY <1>1 DEF Next, Request, vars, Begin, Send, Fail, Receive, Wake, Propagate, Handle, Lose
    <2>3. StepsLeft(c) \in 0..(4 + 3 * (Attempts - 1))
      BY <2>1, CallAssumption DEF StepsLeft, TypeOK
    <2>4. ASSUME NEW b \in Calls, Begin(b) \/ Request(b)
          PROVE  StepsLeft(c)' < StepsLeft(c) \/ UNCHANGED <<pc[c], attempt[c], outcome[c]>>
      <3>1. CASE b # c
        BY <2>1, <2>4, <3>1
           DEF TypeOK, Begin, Request, Send, Fail, Receive, Wake, Propagate, Return, Sleep, GiveUp
      <3>2. CASE b = c /\ (Begin(c) \/ Send(c))
        BY <2>1, <2>2, <3>2, CallAssumption DEF StepsLeft, TypeOK, Begin, Send
      <3>3. CASE b = c /\ Wake(c)
        BY <2>1, <2>2, <3>3, CallAssumption DEF StepsLeft, TypeOK, Wake
      <3>4. CASE b = c /\ (Fail(c) \/ Receive(c) \/ Propagate(c))
        <4>1. /\ pc[c] \in {"send", "wait", "backoff"} /\ attempt' = attempt
              /\ pc'[c] = "done" \/ (pc'[c] = "backoff" /\ pc[c] # "backoff")
          BY <2>1, <3>4 DEF TypeOK, Fail, Receive, Propagate, Return, Sleep, GiveUp
        <4>2. QED
          BY <2>1, <2>2, <4>1, CallAssumption DEF StepsLeft
      <3>5. QED
        BY <2>4, <3>1, <3>2, <3>3, <3>4 DEF Request
    <2>5. QED
      BY <1>1, <2>3, <2>4 DEF Next, vars, Handle, Lose
  <1>2. IInv /\ [Next]_vars => [\A c \in Calls : Advance(c)]_vars
    BY <1>1
  <1>3. QED
    BY <1>2, Invariance, PTL DEF Spec
=============================================================================
