------------------------ MODULE TracedRequests_proofs ------------------------
(* Theorems about TracedRequests, for any requests, jobs, workers and routes. *)
EXTENDS TracedRequests, TLAPS


\* Opening a context keeps the types of the context variables.
LEMMA BindTyped ==
  ASSUME ContextsTyped, NEW t \in Tasks, NEW x \in Owners, NEW ctx \in Context,
         BindContext(t, x, ctx)
  PROVE  ContextsTyped'
  <1>1. [of |-> x, token |-> current[t]] \in Open
    BY DEF ContextsTyped, Open
  <1>2. Append(stack[t], [of |-> x, token |-> current[t]]) \in Seq(Open)
    BY <1>1 DEF ContextsTyped
  <1>3. Bound(fields[t], ctx) \in Fields
    BY DEF ContextsTyped, Fields, Context, Bound
  <1>4. stack' \in [Tasks -> Seq(Open)]
    BY <1>2 DEF ContextsTyped, BindContext
  <1>5. fields' \in [Tasks -> Fields]
    BY <1>3 DEF ContextsTyped, BindContext
  <1>6. current' \in [Tasks -> Contexts] /\ closed' \in [Tasks -> BOOLEAN]
    BY DEF ContextsTyped, BindContext, Contexts
  <1> QED BY <1>4, <1>5, <1>6 DEF ContextsTyped

\* So does closing one.
LEMMA ResetTyped ==
  ASSUME ContextsTyped, NEW t \in Tasks, stack[t] # <<>>, ResetContext(t)
  PROVE  ContextsTyped'
  <1>1. /\ Len(stack[t]) \in Nat \ {0}
        /\ Top(t) \in Open
    BY DEF ContextsTyped, Top
  <1>2. SubSeq(stack[t], 1, Len(stack[t]) - 1) \in Seq(Open)
    BY <1>1 DEF ContextsTyped
  <1>3. Top(t).token \in Contexts
    BY <1>1 DEF Open
  <1>4. [NoFields EXCEPT !.user = fields[t].user] \in Fields
    BY DEF ContextsTyped, Fields, NoFields
  <1>5. stack' \in [Tasks -> Seq(Open)]
    BY <1>2 DEF ContextsTyped, ResetContext, Pop
  <1>6. fields' \in [Tasks -> Fields]
    BY <1>4 DEF ContextsTyped, ResetContext, Unbind
  <1>7. current' \in [Tasks -> Contexts] /\ closed' \in [Tasks -> BOOLEAN]
    BY <1>1, <1>3 DEF ContextsTyped, ResetContext, Closed
  <1> QED BY <1>5, <1>6, <1>7 DEF ContextsTyped

\* So does a completion line.
LEMMA LogTyped ==
  ASSUME ContextsTyped, lines \in [Requests -> Seq(Line)],
         NEW r \in Requests, NEW s \in Nat, LogCompleted(r, s)
  PROVE  lines' \in [Requests -> Seq(Line)]
  <1>1. [status |-> s, trace |-> fields[r].trace] \in Line
    BY DEF ContextsTyped, Fields, Line, Tasks
  <1>2. Append(lines[r], [status |-> s, trace |-> fields[r].trace]) \in Seq(Line)
    BY <1>1
  <1> QED BY <1>2 DEF LogCompleted

\* So does a response, and what an HTTPException becomes.
LEMMA SendTyped ==
  ASSUME RequestsTyped, NEW r \in Requests, NEW s \in Nat, NEW body \in Contexts,
         SendWithTrace(r, s, body)
  PROVE  /\ status' \in [Requests -> Nat]
         /\ response' \in [Requests -> [status : Nat, header : Contexts, body : Contexts]]
  <1>1. scope[r] \in Contexts
    BY DEF RequestsTyped
  <1>2. [status |-> s, header |-> scope[r], body |-> body]
          \in [status : Nat, header : Contexts, body : Contexts]
    BY <1>1
  <1> QED BY <1>2 DEF RequestsTyped, SendWithTrace

LEMMA HttpErrorTyped ==
  ASSUME TypeOK, NEW r \in Requests, NEW s \in Nat, HttpError(r, s), pc[r] # "new"
  PROVE  TypeOK'
  <1>1. RequestsTyped /\ scope[r] \in Contexts
    BY DEF TypeOK, RequestsTyped
  <1>2. SendWithTrace(r, s, scope[r])
    BY DEF HttpError, ContextFromScope
  <1>3. /\ status' \in [Requests -> Nat]
        /\ response' \in [Requests -> [status : Nat, header : Contexts, body : Contexts]]
    BY <1>1, <1>2, SendTyped
  <1>4. RequestsTyped'
    BY <1>1, <1>3 DEF HttpError, Goto, RequestsTyped
  <1>5. ContextsTyped' /\ QueueTyped'
    BY DEF HttpError, TypeOK, ContextsTyped, QueueTyped, contextVars, queueVars
  <1> QED BY <1>4, <1>5 DEF TypeOK

LEMMA AdmitTyped ==
  ASSUME TypeOK, NEW r \in Requests, NEW l \in {"keys", "handler"}, Admit(r, l), pc[r] # "new"
  PROVE  TypeOK'
  <1>1. RequestsTyped'
    BY DEF Admit, Goto, TypeOK, RequestsTyped
  <1>2. ContextsTyped' /\ QueueTyped'
    BY DEF Admit, TypeOK, ContextsTyped, QueueTyped, contextVars, queueVars
  <1> QED BY <1>1, <1>2 DEF TypeOK

\* Every step of a request keeps the types.
LEMMA HandleTyped ==
  ASSUME TypeOK, NEW r \in Requests, Handle(r),
         pc[r] \in InMiddleware => stack[r] # <<>>
  PROVE  TypeOK'
  <1>t. RequestsTyped /\ ContextsTyped /\ QueueTyped /\ lines \in [Requests -> Seq(Line)]
    BY DEF TypeOK, RequestsTyped
  <1>a. r \in Tasks /\ r \in Owners
    BY DEF Tasks, Owners
  <1>c. ASSUME UNCHANGED contextVars PROVE ContextsTyped'
    BY <1>t, <1>c DEF contextVars, ContextsTyped
  <1>q. ASSUME UNCHANGED queueVars PROVE QueueTyped'
    BY <1>t, <1>q DEF queueVars, QueueTyped
  <1>x. scope[r] \in Contexts /\ NoContext \in Contexts
    BY <1>t DEF Contexts, RequestsTyped
  <1>1. CASE Arrive(r)
    <2> PICK h \in Headers(r) :
          LET ctx == NewTraceContext(h.trace, r, r)
          IN  /\ scope' = [scope EXCEPT ![r] = ctx]
              /\ BindContext(r, r, ctx)
              /\ root' = [root EXCEPT ![r] = h.root]
              /\ origin' = [origin EXCEPT ![r] = r]
      BY <1>1 DEF Arrive
    <2>1. NewTraceContext(h.trace, r, r) \in Context /\ h.root \in Traces
      BY <1>t DEF Headers, QueueTyped, NewTraceContext, Context, Traces
    <2>2. ContextsTyped'
      BY <1>t, <2>1, <1>a, BindTyped
    <2>3. QueueTyped'
      BY <1>t, <1>1, <1>a, <2>1 DEF QueueTyped, Arrive
    <2>4. PICK a \in Asks : ask' = [ask EXCEPT ![r] = a]
      BY <1>1 DEF Arrive
    <2>5. RequestsTyped'
      BY <1>t, <1>1, <2>1, <2>4 DEF Arrive, Contexts, RequestsTyped
    <2> QED BY <2>2, <2>3, <2>5 DEF TypeOK
  <1>2. CASE Authenticate(r)
    <2>1. pc[r] # "new"
      BY <1>2 DEF Authenticate
    <2>2. \/ HttpError(r, 404) \/ HttpError(r, 401)
          \/ Admit(r, "handler") \/ Admit(r, "keys")
      BY <1>2 DEF Authenticate
    <2> QED BY <2>1, <2>2, HttpErrorTyped, AdmitTyped
  <1>3. CASE Verify(r)
    <2>0. pc[r] # "new" /\ (Accept(r) \/ HttpError(r, 401))
      BY <1>3 DEF Verify
    <2>1. CASE Accept(r)
      <3>1. ContextsTyped'
        BY <1>t, <2>1, <1>a DEF Accept, BindUser, ContextsTyped, Fields
      <3>2. QueueTyped'
        BY <2>1, <1>q DEF Accept
      <3>3. /\ status' \in [Requests -> Nat]
            /\ response' \in [Requests -> [status : Nat, header : Contexts, body : Contexts]]
        <4>1. CASE SendWithTrace(r, 403, scope[r])
          BY <1>t, <1>x, <4>1, SendTyped
        <4>2. CASE UNCHANGED <<status, response>>
          BY <1>t, <4>2 DEF RequestsTyped
        <4> QED BY <2>1, <4>1, <4>2 DEF Accept, ContextFromScope
      <3>4. pc' \in {[pc EXCEPT ![r] = "answered"], [pc EXCEPT ![r] = "handler"]}
        BY <2>1 DEF Accept, Goto
      <3>5. UNCHANGED <<ask, scope, lines>>
        BY <2>1 DEF Accept
      <3>6. RequestsTyped'
        BY <1>t, <2>0, <3>3, <3>4, <3>5 DEF RequestsTyped
      <3> QED BY <3>1, <3>2, <3>6 DEF TypeOK
    <2> QED BY <2>0, <2>1, HttpErrorTyped
  <1>4. CASE Respond(r)
    <2>1. SendWithTrace(r, 200, NoContext)
          /\ UNCHANGED <<pc, ask, scope, lines, contextVars, queueVars>>
      BY <1>4 DEF Respond
    <2>2. /\ status' \in [Requests -> Nat]
          /\ response' \in [Requests -> [status : Nat, header : Contexts, body : Contexts]]
      BY <1>t, <1>x, <2>1, SendTyped
    <2>3. RequestsTyped'
      BY <1>t, <2>1, <2>2 DEF RequestsTyped
    <2> QED BY <2>1, <2>3, <1>c, <1>q DEF TypeOK
  <1>5. CASE Complete(r)
    <2>1. ContextsTyped' /\ lines' \in [Requests -> Seq(Line)]
      <3>1. stack[r] # <<>> /\ status[r] \in Nat /\ ResetContext(r) /\ LogCompleted(r, status[r])
        BY <1>t, <1>5 DEF Complete, InMiddleware, RequestsTyped
      <3> QED BY <1>t, <1>a, <3>1, ResetTyped, LogTyped
    <2>2. QueueTyped'
      BY <1>5, <1>q DEF Complete
    <2>3. RequestsTyped'
      BY <1>t, <1>5, <2>1 DEF Complete, Goto, RequestsTyped
    <2> QED BY <2>1, <2>2, <2>3 DEF TypeOK
  <1>6. CASE RaiseHttp(r)
    <2>1. HttpError(r, 503) /\ pc[r] # "new"
      BY <1>6 DEF RaiseHttp
    <2> QED BY <2>1, HttpErrorTyped
  <1>7. CASE RaiseUnhandled(r)
    <2>1. status' \in [Requests -> Nat] /\ status'[r] \in Nat
      BY <1>t, <1>7 DEF RaiseUnhandled, RequestsTyped
    <2>2. ContextsTyped' /\ lines' \in [Requests -> Seq(Line)]
      <3>1. stack[r] # <<>> /\ ResetContext(r) /\ LogCompleted(r, status'[r])
        BY <1>7 DEF RaiseUnhandled, InMiddleware
      <3> QED BY <1>t, <1>a, <2>1, <3>1, ResetTyped, LogTyped
    <2>3. QueueTyped'
      BY <1>7, <1>q DEF RaiseUnhandled
    <2>4. RequestsTyped'
      BY <1>t, <1>7, <2>1, <2>2 DEF RaiseUnhandled, Goto, RequestsTyped
    <2> QED BY <2>2, <2>3, <2>4 DEF TypeOK
  <1>8. CASE ServerError(r)
    <2>1. RequestsTyped'
      BY <1>t, <1>8, <1>x DEF ServerError, ContextFromScope, Goto, RequestsTyped
    <2> QED BY <1>8, <2>1, <1>c, <1>q DEF ServerError, TypeOK
  <1>9. CASE Cancel(r)
    <2>1. ContextsTyped' /\ lines' \in [Requests -> Seq(Line)]
      <3>1. /\ stack[r] # <<>> /\ status[r] \in Nat /\ ResetContext(r)
            /\ UNCHANGED lines \/ LogCompleted(r, status[r])
        BY <1>t, <1>9 DEF Cancel, InMiddleware, RequestsTyped
      <3> QED BY <1>t, <1>a, <3>1, ResetTyped, LogTyped
    <2>2. QueueTyped'
      BY <1>9, <1>q DEF Cancel
    <2>3. RequestsTyped'
      BY <1>t, <1>9, <2>1 DEF Cancel, Goto, RequestsTyped
    <2> QED BY <2>1, <2>2, <2>3 DEF TypeOK
  <1>10. CASE CancelOutside(r)
    <2>1. RequestsTyped'
      BY <1>t, <1>10 DEF CancelOutside, Goto, RequestsTyped
    <2> QED BY <1>10, <2>1, <1>c, <1>q DEF CancelOutside, TypeOK
  <1> QED BY <1>1, <1>2, <1>3, <1>4, <1>5, <1>6, <1>7, <1>8, <1>9, <1>10 DEF Handle

\* Every step of a call, a queue or a job keeps the types.
LEMMA WorkTyped ==
  ASSUME TypeOK, NEW t \in Tasks, Work(t)
  PROVE  TypeOK'
  <1> USE DEF TypeOK
  <1>r. ASSUME UNCHANGED requestVars PROVE RequestsTyped'
    BY <1>r DEF requestVars, RequestsTyped
  <1>c. ASSUME UNCHANGED contextVars PROVE ContextsTyped'
    BY <1>c DEF contextVars, ContextsTyped
  <1>q. ASSUME UNCHANGED queueVars PROVE QueueTyped'
    BY <1>q DEF queueVars, QueueTyped
  <1>t. stack[t] # <<>> => Top(t) \in Open /\ Top(t).of \in Owners
    <2>1. stack[t] # <<>> => Top(t) \in Open
      BY DEF ContextsTyped, Top
    <2> QED BY <2>1 DEF Open
  <1>u. RootOf(t) \in Traces
    BY <1>t DEF RootOf, QueueTyped, Tasks, Traces
  <1>1. CASE Call(t)
    <2>1. TracedHeaders(t) \in Traces
      BY DEF TracedHeaders, ContextsTyped, Contexts, Context, Tasks, Traces
    <2> QED BY <1>1, <2>1, <1>u, <1>r, <1>c DEF Call, QueueTyped
  <1>2. CASE LeaveJob(t)
    <2>1. stack[t] # <<>>
      BY <1>2 DEF LeaveJob
    <2> QED BY <1>2, <2>1, ResetTyped, <1>r, <1>q DEF LeaveJob
  <1>3. ASSUME NEW j \in Jobs, Enqueue(t, j) PROVE TypeOK'
    <2>1. j \in Owners
      BY DEF Owners
    <2> QED BY <1>3, <2>1, <1>t, <1>u, <1>r, <1>c DEF Enqueue, QueueTyped, ContextsTyped
  <1>4. ASSUME NEW j \in Jobs, RestoreTrace(t, j) PROVE TypeOK'
    <2>1. carrier[j].trace \in Traces \cup {None} /\ carrier[j].rid \in Requests \cup {None}
      BY DEF QueueTyped, Contexts, Context, NoContext
    <2>2. j \in Owners /\ j \in Traces
      BY DEF Owners, Traces
    <2>3. NewTraceContext(carrier[j].trace, carrier[j].rid, j) \in Context
      BY <2>1, <2>2 DEF NewTraceContext, Context
    <2> QED BY <1>4, <2>2, <2>3, BindTyped, <1>r, <1>q DEF RestoreTrace
  <1> QED BY <1>1, <1>2, <1>3, <1>4 DEF Work

-----------------------------------------------------------------------------
(* Open contexts *)

\* What a step must leave alone: the owners of the contexts that are open.
Kept ==
  \A u \in Tasks : \A i \in 1..Len(stack[u]) :
    LET y == stack[u][i].of
    IN  root'[y] = root[y] /\ origin'[y] = origin[y] /\ (y \in Requests => pc'[y] # "new")

OwnNext(y) == [trace |-> root'[y], rid |-> origin'[y]]

LEMMA FrameNested ==
  ASSUME ContextsTyped, NEW u \in Tasks, Nested(u), Kept,
         stack'[u] = stack[u], current'[u] = current[u], closed'[u] = closed[u],
         fields'[u].trace = fields[u].trace, fields'[u].rid = fields[u].rid
  PROVE  Nested(u)'
  <1>1. \A i \in 1..Len(stack[u]) : Own(stack[u][i].of)' = Own(stack[u][i].of)
    BY DEF Kept, Own
  <1>2. Len(stack[u]) \in Nat /\ (stack[u] # <<>> => Len(stack[u]) \in 1..Len(stack[u]))
    BY DEF ContextsTyped
  <1>3. stack[u] # <<>> => Own(Top(u).of)' = Own(Top(u).of) /\ root'[Top(u).of] = root[Top(u).of]
    BY <1>1, <1>2 DEF Top, Own, Kept
  <1>4. Top(u)' = Top(u)
    BY DEF Top
  <1>5. \A i \in 1..Len(stack[u]) : i # 1 => i - 1 \in 1..Len(stack[u])
    BY <1>2
  <1>6. \A i \in 1..Len(stack[u]) :
          /\ stack[u][i].token = IF i = 1 THEN NoContext ELSE Own(stack[u][i - 1].of)'
          /\ stack[u][i].of \in Requests => pc'[stack[u][i].of] # "new"
    BY <1>1, <1>5 DEF Nested, Kept
  <1>7. stack[u] # <<>> => origin'[Top(u).of] = origin[Top(u).of]
    BY <1>2 DEF Top, Kept
  <1>8. Around(u)' = Around(u)
    BY DEF Around, Kept
  <1>9. Attributed(u)'
    BY <1>3, <1>4, <1>7, <1>8 DEF Nested, Attributed
  <1> QED BY <1>3, <1>4, <1>6, <1>9 DEF Nested, Own

\* A context opened on an owner's own trace and request id is in its place.
LEMMA BindNested ==
  ASSUME ContextsTyped, NEW t \in Tasks, NEW x \in Owners, NEW ctx \in Context,
         BindContext(t, x, ctx), \A u \in Tasks : Nested(u), Kept,
         ctx = OwnNext(x), x \in Requests => pc'[x] # "new"
  PROVE  \A u \in Tasks : Nested(u)'
  <1> DEFINE n == Len(stack[t])
  <1>0. \A i \in 1..n :
          /\ stack[t][i].token = IF i = 1 THEN NoContext ELSE Own(stack[t][i - 1].of)
          /\ stack[t][i].of \in Requests => pc'[stack[t][i].of] # "new"
    BY DEF Nested, Kept
  <1>1. \A u \in Tasks \ {t} :
          /\ stack'[u] = stack[u] /\ current'[u] = current[u]
          /\ fields'[u] = fields[u] /\ closed'[u] = closed[u]
    BY DEF ContextsTyped, BindContext
  <1>2. \A u \in Tasks \ {t} : Nested(u)'
    BY <1>1, FrameNested
  <1>3. /\ n \in Nat /\ stack'[t] = Append(stack[t], [of |-> x, token |-> current[t]])
        /\ current'[t] = ctx /\ closed'[t] = FALSE /\ fields'[t] = Bound(fields[t], ctx)
    BY DEF ContextsTyped, BindContext
  <1>4. /\ Len(stack'[t]) = n + 1
        /\ \A i \in 1..n : stack'[t][i] = stack[t][i]
        /\ stack'[t][n + 1] = [of |-> x, token |-> current[t]]
    BY <1>3 DEF ContextsTyped
  <1>5. Top(t)'.of = x /\ stack'[t] # <<>>
    BY <1>3, <1>4 DEF Top
  <1>6. \A i \in 1..n : OwnNext(stack[t][i].of) = Own(stack[t][i].of)
    BY DEF Kept, Own, OwnNext
  <1>7. ASSUME NEW i \in 1..(n + 1)
        PROVE  /\ stack'[t][i].token = IF i = 1 THEN NoContext ELSE OwnNext(stack'[t][i - 1].of)
               /\ stack'[t][i].of \in Requests => pc'[stack'[t][i].of] # "new"
    <2>1. CASE i \in 1..n
      <3>1. i # 1 => i - 1 \in 1..n
        BY <1>3, <2>1
      <3>2. stack'[t][i] = stack[t][i] /\ (i # 1 => stack'[t][i - 1] = stack[t][i - 1])
        BY <1>4, <2>1, <3>1
      <3>3. i # 1 => OwnNext(stack[t][i - 1].of) = Own(stack[t][i - 1].of)
        BY <1>6, <3>1
      <3> QED BY <1>0, <2>1, <3>2, <3>3
    <2>2. CASE i = n + 1
      <3>1. n = 0 => stack[t] = <<>>
        BY DEF ContextsTyped
      <3>2. n # 0 => n \in 1..n /\ stack[t] # <<>>
        BY <1>3
      <3>3. current[t] = IF n = 0 THEN NoContext ELSE Own(stack[t][n].of)
        BY <3>1, <3>2 DEF Nested, Top
      <3>4. n # 0 => OwnNext(stack'[t][n].of) = Own(stack[t][n].of)
        BY <1>4, <1>6, <3>2
      <3> QED BY <1>3, <1>4, <2>2, <3>3, <3>4
    <2> QED BY <1>3, <2>1, <2>2
  <1>8. Attributed(t)'
    <2>1. fields'[t].trace = root'[x]
      BY <1>3 DEF Bound, OwnNext
    <2>2. fields'[t].rid = IF origin'[x] # None THEN origin'[x] ELSE fields[t].rid
      BY <1>3 DEF Bound, OwnNext
    <2>3. stack[t] = <<>> \/ n \in 1..n
      BY <1>3 DEF ContextsTyped
    <2>4. Around(t) \subseteq Around(t)'
      <3>1. \A i \in 1..n : i \in 1..Len(stack'[t])
        BY <1>3, <1>4
      <3>2. \A i \in 1..n : origin'[stack'[t][i].of] = origin[stack[t][i].of]
        BY <1>4 DEF Kept
      <3> QED BY <3>1, <3>2 DEF Around
    <2>5. fields[t].rid \in Around(t) \cup {None}
      <3>1. CASE stack[t] = <<>>
        BY <3>1 DEF Nested, Attributed
      <3>2. CASE n \in 1..n /\ stack[t] # <<>>
        <4>1. origin[Top(t).of] \in Around(t)
          BY <3>2 DEF Around, Top
        <4> QED BY <3>2, <4>1 DEF Nested, Attributed
      <3> QED BY <2>3, <3>1, <3>2
    <2> QED BY <1>5, <2>1, <2>2, <2>4, <2>5 DEF Attributed
  <1>9. Nested(t)'
    BY <1>3, <1>4, <1>5, <1>7, <1>8 DEF Nested, Own, OwnNext
  <1> QED BY <1>2, <1>9

\* What an innermost context gives back is that of the one around it.
LEMMA ResetNested ==
  ASSUME ContextsTyped, NEW t \in Tasks, stack[t] # <<>>, ResetContext(t),
         \A u \in Tasks : Nested(u), Kept
  PROVE  \A u \in Tasks : Nested(u)'
  <1> DEFINE n == Len(stack[t])
  <1>0. \A i \in 1..n :
          /\ stack[t][i].token = IF i = 1 THEN NoContext ELSE Own(stack[t][i - 1].of)
          /\ stack[t][i].of \in Requests => pc'[stack[t][i].of] # "new"
    BY DEF Nested, Kept
  <1>n. n \in Nat /\ n # 0
    BY DEF ContextsTyped
  <1>1. \A u \in Tasks \ {t} :
          /\ stack'[u] = stack[u] /\ current'[u] = current[u]
          /\ fields'[u] = fields[u] /\ closed'[u] = closed[u]
    BY DEF ContextsTyped, ResetContext, Pop, Closed, Unbind
  <1>2. \A u \in Tasks \ {t} : Nested(u)'
    BY <1>1, FrameNested
  <1>3. /\ n \in Nat \ {0} /\ stack'[t] = SubSeq(stack[t], 1, n - 1)
        /\ current'[t] = stack[t][n].token /\ closed'[t] = (n > 1)
        /\ fields'[t].trace = None /\ fields'[t].rid = None
    BY DEF ContextsTyped, ResetContext, Pop, Closed, Unbind, Top, NoFields
  <1>4. /\ Len(stack'[t]) = n - 1
        /\ \A i \in 1..(n - 1) : stack'[t][i] = stack[t][i]
    <2>1. stack[t] \in Seq(Open) /\ 1 \in 1..(n + 1) /\ n - 1 \in 0..n
      BY <1>3 DEF ContextsTyped
    <2>2. Len(SubSeq(stack[t], 1, n - 1)) = n - 1
      BY <1>3, <2>1
    <2>3. \A i \in 1..(n - 1) : SubSeq(stack[t], 1, n - 1)[i] = stack[t][i]
      BY <1>3, <2>1
    <2> QED BY <1>3, <2>2, <2>3
  <1>5. \A i \in 1..n : OwnNext(stack[t][i].of) = Own(stack[t][i].of)
    BY DEF Kept, Own, OwnNext
  <1>6. ASSUME NEW i \in 1..(n - 1)
        PROVE  /\ stack'[t][i].token = IF i = 1 THEN NoContext ELSE OwnNext(stack'[t][i - 1].of)
               /\ stack'[t][i].of \in Requests => pc'[stack'[t][i].of] # "new"
    <2>1. i \in 1..n /\ (i # 1 => i - 1 \in 1..n /\ i - 1 \in 1..(n - 1))
      BY <1>3
    <2>2. stack'[t][i] = stack[t][i] /\ (i # 1 => stack'[t][i - 1] = stack[t][i - 1])
      BY <1>4, <2>1
    <2>3. i # 1 => OwnNext(stack[t][i - 1].of) = Own(stack[t][i - 1].of)
      BY <1>5, <2>1
    <2> QED BY <1>0, <2>1, <2>2, <2>3
  <1>7. stack'[t] = <<>> <=> n = 1
    <2>1. stack'[t] \in Seq(Open)
      BY ResetTyped DEF ContextsTyped
    <2>2. stack'[t] = <<>> <=> Len(stack'[t]) = 0
      BY <2>1
    <2> QED BY <1>4, <1>n, <2>2
  <1>8. current'[t] = IF n = 1 THEN NoContext ELSE Own(stack[t][n - 1].of)
    <2>1. n \in 1..n
      BY <1>3
    <2> QED BY <1>0, <1>3, <2>1
  <1>9. n # 1 => n - 1 \in 1..(n - 1) /\ n - 1 \in 1..n /\ stack'[t][Len(stack'[t])] = stack[t][n - 1]
    <2>1. n # 1 => n - 1 \in 1..(n - 1) /\ n - 1 \in 1..n
      <3> HIDE DEF n
      <3> QED BY <1>n
    <2> QED BY <1>4, <2>1
  <1>10. Nested(t)'
    <2>1. \A i \in 1..Len(stack'[t]) :
            /\ stack'[t][i].token = IF i = 1 THEN NoContext ELSE OwnNext(stack'[t][i - 1].of)
            /\ stack'[t][i].of \in Requests => pc'[stack'[t][i].of] # "new"
      BY <1>4, <1>6
    <2>2. current'[t] = IF stack'[t] = <<>> THEN NoContext
                        ELSE OwnNext(stack'[t][Len(stack'[t])].of)
      BY <1>5, <1>7, <1>8, <1>9
    <2>3. Attributed(t)'
      <3>1. n # 1 => n > 1
        <4> HIDE DEF n
        <4> QED BY <1>n
      <3> QED BY <1>3, <1>7, <3>1 DEF Attributed
    <2> QED BY <2>1, <2>2, <2>3 DEF Nested, Own, OwnNext, Top
  <1> QED BY <1>2, <1>10

-----------------------------------------------------------------------------
(* Requests *)

\* A step that changes nothing of a request but the contexts nested in its own.
LEMMA SameRequest ==
  ASSUME NEW q \in Requests, RequestInv(q),
         pc'[q] = pc[q], ask'[q] = ask[q], scope'[q] = scope[q], status'[q] = status[q],
         response'[q] = response[q], lines'[q] = lines[q],
         root'[q] = root[q], origin'[q] = origin[q], fields'[q].user = fields[q].user,
         stack[q] = <<>> => stack'[q] = <<>>,
         stack[q] # <<>> => stack'[q] # <<>> /\ stack'[q][1] = stack[q][1]
  PROVE  RequestInv(q)'
  <1>1. Stashed(q)'
    BY DEF RequestInv, Stashed, Own
  <1>2. Answered(q)'
    BY DEF RequestInv, Answered
  <1>3. Logged(q)'
    BY DEF RequestInv, Logged
  <1>4. Asking(q)' /\ Principal(q)'
    BY DEF RequestInv, Asking, Principal
  <1> QED BY <1>1, <1>2, <1>3, <1>4 DEF RequestInv

\* Answering with an error from inside the middleware.
LEMMA HttpErrorInv ==
  ASSUME TypeOK, NEW r \in Requests, RequestInv(r), pc[r] \in {"arrived", "keys", "handler"},
         NEW s \in Nat \ {0}, HttpError(r, s)
  PROVE  RequestInv(r)'
  <1> USE DEF TypeOK, RequestsTyped
  <1>1. /\ pc'[r] = "answered" /\ status'[r] = s /\ stack' = stack /\ fields' = fields
        /\ response'[r] = [status |-> s, header |-> scope[r], body |-> scope[r]]
        /\ ask' = ask /\ scope' = scope /\ lines' = lines /\ root' = root /\ origin' = origin
    BY DEF HttpError, SendWithTrace, Goto, ContextFromScope, contextVars, queueVars
  <1>2. Stashed(r)'
    BY <1>1 DEF RequestInv, Stashed, Own, InMiddleware
  <1>3. Answered(r)'
    BY <1>1 DEF RequestInv, Answered, InMiddleware
  <1>4. Logged(r)'
    BY <1>1 DEF RequestInv, Logged
  <1>5. Asking(r)' /\ Principal(r)'
    BY <1>1 DEF RequestInv, Asking, Principal
  <1> QED BY <1>2, <1>3, <1>4, <1>5 DEF RequestInv

\* Going on, unanswered, to what the next stage may assume.
LEMMA AdmitInv ==
  ASSUME TypeOK, NEW r \in Requests, RequestInv(r), pc[r] = "arrived",
         NEW l \in {"keys", "handler"}, Admit(r, l), ~ask[r].featureOff,
         l = "keys" => ask[r].route # "open" /\ ask[r].credential # "none",
         l = "handler" =>
           ask[r].route = "open" \/ (ask[r].route = "optional" /\ ask[r].credential = "none")
  PROVE  RequestInv(r)'
  <1> USE DEF TypeOK, RequestsTyped
  <1>1. /\ pc'[r] = l /\ status' = status /\ stack' = stack /\ fields' = fields
        /\ response' = response
        /\ ask' = ask /\ scope' = scope /\ lines' = lines /\ root' = root /\ origin' = origin
    BY DEF Admit, Goto, contextVars, queueVars
  <1>2. Stashed(r)'
    BY <1>1 DEF RequestInv, Stashed, Own, InMiddleware
  <1>3. Answered(r)'
    BY <1>1 DEF RequestInv, Answered, InMiddleware
  <1>4. Logged(r)'
    BY <1>1 DEF RequestInv, Logged
  <1>5. Asking(r)' /\ Principal(r)'
    BY <1>1 DEF RequestInv, Asking, Principal
  <1> QED BY <1>2, <1>3, <1>4, <1>5 DEF RequestInv

\* Leaving the middleware: its context closes, after at most one line under it.
LEMMA LeaveInv ==
  ASSUME TypeOK, NEW r \in Requests, RequestInv(r), Nested(r), pc[r] \in InMiddleware,
         Innermost(r), ResetContext(r), NEW l \in {"done", "failed"}, Goto(r, l),
         NEW s \in Nat, IF s = 0 THEN UNCHANGED lines ELSE LogCompleted(r, s),
         status'[r] = status[r] \/ l = "failed",
         UNCHANGED <<ask, scope, response, queueVars>>,
         l = "failed" => s # 0 /\ s = IF status[r] = 0 THEN 500 ELSE status[r],
         l = "done" => s = status[r]
  PROVE  RequestInv(r)'
  <1> USE DEF TypeOK, RequestsTyped
  <1>a. r \in Tasks /\ stack[r] # <<>> /\ Top(r).of = r
    BY DEF Tasks, RequestInv, Stashed, Innermost, Top
  <1>1. /\ pc'[r] = l /\ ask' = ask /\ scope' = scope /\ response' = response
        /\ root' = root /\ origin' = origin
    BY DEF Goto, queueVars
  <1>2. stack'[r] = <<>> /\ fields'[r].user = fields[r].user
    <2>1. stack'[r] = SubSeq(stack[r], 1, 0)
      BY <1>a DEF ResetContext, Pop, Innermost, ContextsTyped
    <2>2. SubSeq(stack[r], 1, 0) = <<>>
      BY <1>a DEF ContextsTyped
    <2> QED BY <1>a, <2>1, <2>2 DEF ResetContext, Unbind, NoFields, ContextsTyped
  <1>3. fields[r].trace \in {root[r], None}
    BY <1>a DEF Nested, Attributed
  <1>4. /\ s # 0 /\ ~ask[r].quiet => lines'[r] = <<[status |-> s, trace |-> fields[r].trace]>>
        /\ s = 0 \/ ask[r].quiet => lines'[r] = <<>>
    <2>1. lines[r] = <<>>
      BY DEF RequestInv, Answered
    <2> QED BY <2>1 DEF LogCompleted
  <1>5. Stashed(r)'
    BY <1>1, <1>2 DEF RequestInv, Stashed, Own, InMiddleware
  <1>6. Answered(r)'
    BY <1>1 DEF RequestInv, Answered, InMiddleware
  <1>7. response[r].status = status[r]
    BY DEF RequestInv, Answered, InMiddleware
  <1>8. Logged(r)'
    <2>1. CASE s # 0 /\ ~ask[r].quiet
      <3> DEFINE line == [status |-> s, trace |-> fields[r].trace]
      <3>1. lines'[r] = <<line>>
        BY <1>4, <2>1
      <3>2. Len(<<line>>) = 1 /\ <<line>>[1] = line /\ <<line>> # <<>>
        OBVIOUS
      <3>3. Len(lines'[r]) = 1 /\ lines'[r][1].status = s /\ lines'[r][1].trace = fields[r].trace
        BY <3>1, <3>2
      <3>4. \A i \in 1..Len(lines'[r]) : lines'[r][i].trace \in {root[r], None}
        BY <1>3, <3>3
      <3> QED BY <1>1, <1>7, <2>1, <3>3, <3>4 DEF Logged
    <2>2. CASE s = 0 \/ ask[r].quiet
      <3>1. lines'[r] = <<>> /\ Len(<<>>) = 0
        BY <1>4, <2>2
      <3> QED BY <1>1, <1>7, <2>2, <3>1 DEF Logged
    <2> QED BY <2>1, <2>2
  <1>9. Asking(r)' /\ Principal(r)'
    BY <1>1 DEF Asking, Principal
  <1> QED BY <1>5, <1>6, <1>8, <1>9 DEF RequestInv

\* Arrival: the new context is the request's own, whatever header came with it.
LEMMA ArriveInv ==
  ASSUME IInv, NEW r \in Requests, Arrive(r)
  PROVE  (\A u \in Tasks : Nested(u)') /\ RequestInv(r)'
  <1> USE DEF IInv, TypeOK, RequestsTyped
  <1> DEFINE ctx(h) == NewTraceContext(h.trace, r, r)
  <1>1. PICK h \in Headers(r) :
          /\ scope' = [scope EXCEPT ![r] = ctx(h)]
          /\ BindContext(r, r, ctx(h))
          /\ root' = [root EXCEPT ![r] = h.root]
          /\ origin' = [origin EXCEPT ![r] = r]
    BY DEF Arrive
  <1>2. ctx(h) = [trace |-> h.root, rid |-> r] /\ h.root \in Traces
    BY RequestAssumption DEF Headers, NewTraceContext, QueueTyped, Traces
  <1>3. r \in Tasks /\ r \in Owners /\ r \in Traces
    BY DEF Tasks, Owners, Traces
  <1>4. root'[r] = h.root /\ origin'[r] = r /\ pc'[r] = "arrived" /\ pc[r] = "new"
    BY <1>1, <1>3 DEF Arrive, QueueTyped
  <1>5. ctx(h) \in Context /\ ctx(h) = OwnNext(r)
    BY <1>2, <1>3, <1>4 DEF Context, OwnNext
  <1>6. Kept
    <2> SUFFICES ASSUME NEW u \in Tasks, NEW i \in 1..Len(stack[u])
                 PROVE  LET y == stack[u][i].of
                        IN  root'[y] = root[y] /\ origin'[y] = origin[y]
                            /\ (y \in Requests => pc'[y] # "new")
      BY DEF Kept
    <2>1. stack[u][i] \in Open
      BY DEF ContextsTyped
    <2>2. stack[u][i].of \in Owners /\ stack[u][i].of # r
      BY <1>4, <2>1 DEF Nested, Open
    <2> QED BY <1>1, <2>2 DEF Arrive, Nested, QueueTyped
  <1>7. \A u \in Tasks : Nested(u)'
    BY <1>1, <1>3, <1>4, <1>5, <1>6, BindNested
  <1>8. stack'[r] # <<>> /\ stack'[r][1].of = r /\ fields'[r].user = fields[r].user
    <2>1. stack[r] = <<>>
      BY <1>4 DEF RequestInv, Stashed, InMiddleware
    <2>2. stack'[r] = Append(stack[r], [of |-> r, token |-> current[r]])
          /\ fields'[r] = Bound(fields[r], ctx(h))
      BY <1>1, <1>3 DEF BindContext, ContextsTyped
    <2>3. stack'[r] = <<[of |-> r, token |-> current[r]]>>
      BY <2>1, <2>2
    <2>4. stack'[r] # <<>> /\ stack'[r][1] = [of |-> r, token |-> current[r]]
      BY <2>3
    <2> QED BY <2>2, <2>4 DEF Bound
  <1>9. Stashed(r)'
    BY <1>1, <1>2, <1>4, <1>8 DEF Stashed, Own, InMiddleware
  <1>10. Answered(r)'
    BY <1>4 DEF Arrive, RequestInv, Answered, InMiddleware
  <1>11. Logged(r)'
    <2>1. lines'[r] = <<>> /\ Len(<<>>) = 0
      BY <1>4 DEF Arrive, RequestInv, Answered
    <2> QED BY <1>4, <2>1 DEF Logged
  <1>12. Asking(r)' /\ Principal(r)'
    BY <1>4, <1>8 DEF RequestInv, Asking, Principal
  <1> QED BY <1>7, <1>9, <1>10, <1>11, <1>12 DEF RequestInv

\* Verification: whom the endpoint then runs for.
LEMMA VerifyInv ==
  ASSUME IInv, NEW r \in Requests, Verify(r)
  PROVE  RequestInv(r)'
  <1>0. pc[r] = "keys" /\ RequestInv(r)
    BY DEF IInv, Verify
  <1>1. CASE HttpError(r, 401)
    BY <1>0, <1>1, HttpErrorInv DEF IInv
  <1> USE DEF IInv, TypeOK, RequestsTyped
  <1>2. CASE Accept(r)
    <2>a. r \in Tasks
      BY DEF Tasks
    <2>1. /\ stack' = stack /\ fields'[r].user = r
          /\ ask' = ask /\ scope' = scope /\ lines' = lines /\ root' = root /\ origin' = origin
      BY <1>2, <2>a DEF Accept, BindUser, queueVars, ContextsTyped, Fields
    <2>2. CASE ask[r].route = "capability" /\ ask[r].credential # "entitled"
      <3>1. SendWithTrace(r, 403, scope[r]) /\ Goto(r, "answered")
        BY <1>2, <2>2 DEF Accept, ContextFromScope
      <3>2. /\ pc'[r] = "answered" /\ status'[r] = 403
            /\ response'[r] = [status |-> 403, header |-> scope[r], body |-> scope[r]]
        BY <3>1 DEF SendWithTrace, Goto
      <3>3. Stashed(r)'
        BY <1>0, <2>1, <3>2 DEF RequestInv, Stashed, Own, InMiddleware
      <3>4. Answered(r)'
        BY <1>0, <2>1, <3>2 DEF RequestInv, Answered, InMiddleware
      <3>5. Logged(r)'
        BY <1>0, <2>1, <3>2 DEF RequestInv, Logged
      <3>6. Asking(r)' /\ Principal(r)'
        BY <3>2 DEF Asking, Principal
      <3> QED BY <3>3, <3>4, <3>5, <3>6 DEF RequestInv
    <2>3. CASE ~(ask[r].route = "capability" /\ ask[r].credential # "entitled")
      <3>1. Goto(r, "handler") /\ status' = status /\ response' = response
        BY <1>2, <2>3 DEF Accept
      <3>2. pc'[r] = "handler"
        BY <3>1 DEF Goto
      <3>3. Stashed(r)'
        BY <1>0, <2>1, <3>2 DEF RequestInv, Stashed, Own, InMiddleware
      <3>4. Answered(r)'
        BY <1>0, <2>1, <3>1, <3>2 DEF RequestInv, Answered, InMiddleware
      <3>5. Logged(r)'
        BY <1>0, <2>1, <3>1, <3>2 DEF RequestInv, Logged
      <3>6. Asking(r)'
        BY <3>2 DEF Asking
      <3>7. Principal(r)'
        BY <1>0, <1>2, <2>1, <2>3, <3>2, RequestAssumption
        DEF Accept, RequestInv, Asking, Principal, Traces
      <3> QED BY <3>3, <3>4, <3>5, <3>6, <3>7 DEF RequestInv
    <2> QED BY <2>2, <2>3
  <1> QED BY <1>1, <1>2 DEF Verify

\* Every step of a request keeps the invariant.
LEMMA HandleInv ==
  ASSUME IInv, NEW r \in Requests, Handle(r)
  PROVE  IInv'
  <1> USE DEF IInv
  <1>a. r \in Tasks /\ r \in Owners
    BY DEF Tasks, Owners
  <1>b. \A q \in Requests : RequestInv(q) /\ (q \in Tasks) /\ (q \in Owners)
    BY DEF Tasks, Owners
  <1>t. TypeOK'
    <2>1. pc[r] \in InMiddleware => stack[r] # <<>>
      BY <1>b DEF RequestInv, Stashed
    <2> QED BY <2>1, HandleTyped
  <1>o. ASSUME NEW q \in Requests \ {r} PROVE RequestInv(q)'
    <2>1. /\ pc'[q] = pc[q] /\ ask'[q] = ask[q] /\ scope'[q] = scope[q]
          /\ status'[q] = status[q] /\ response'[q] = response[q] /\ lines'[q] = lines[q]
      BY DEF TypeOK, RequestsTyped, Handle, Arrive, Authenticate, Verify, Respond, Complete,
             RaiseHttp, RaiseUnhandled, ServerError, Cancel, CancelOutside, HttpError, Admit,
             Accept, SendWithTrace, LogCompleted, Goto
    <2>2. root'[q] = root[q] /\ origin'[q] = origin[q]
      BY <1>b DEF TypeOK, QueueTyped, Handle, Arrive, Authenticate, Verify, Respond, Complete,
             RaiseHttp, RaiseUnhandled, ServerError, Cancel, CancelOutside, HttpError, Admit,
             Accept, queueVars
    <2>3. stack'[q] = stack[q] /\ fields'[q] = fields[q]
      BY <1>b DEF TypeOK, ContextsTyped, Handle, Arrive, Authenticate, Verify, Respond, Complete,
             RaiseHttp, RaiseUnhandled, ServerError, Cancel, CancelOutside, HttpError, Admit,
             Accept, BindUser, BindContext, ResetContext, Pop, Unbind, contextVars
    <2> QED BY <1>b, <2>1, <2>2, <2>3, SameRequest
  <1>q. Arrive(r) \/ UNCHANGED queueVars
    BY DEF Handle, Authenticate, Verify, Respond, Complete, RaiseHttp, RaiseUnhandled,
           ServerError, Cancel, CancelOutside, HttpError, Admit, Accept
  <1>w. (\A h \in wire' : h.trace = h.root) /\ (\A j \in Jobs : Carried(j)')
    <2>1. wire' = wire /\ carrier' = carrier
      BY <1>q DEF Arrive, queueVars
    <2>2. \A j \in Jobs : root'[j] = root[j] /\ origin'[j] = origin[j]
      BY <1>q, <1>a, RequestAssumption DEF Arrive, queueVars, TypeOK, QueueTyped, Owners
    <2> QED BY <2>1, <2>2 DEF Carried, Own
  <1>k. ~Arrive(r) => Kept
    <2> SUFFICES ASSUME ~Arrive(r), NEW u \in Tasks, NEW i \in 1..Len(stack[u])
                 PROVE  LET y == stack[u][i].of
                        IN  root'[y] = root[y] /\ origin'[y] = origin[y]
                            /\ (y \in Requests => pc'[y] # "new")
      BY DEF Kept
    <2>1. root' = root /\ origin' = origin
      BY <1>q DEF queueVars
    <2>2. \A y \in Requests : pc[y] # "new" => pc'[y] # "new"
      BY DEF TypeOK, RequestsTyped, Handle, Authenticate, Verify, Respond, Complete,
             RaiseHttp, RaiseUnhandled, ServerError, Cancel, CancelOutside, HttpError, Admit,
             Accept, Goto
    <2> QED BY <2>1, <2>2 DEF Nested
  <1>f. ASSUME UNCHANGED contextVars, ~Arrive(r) PROVE \A u \in Tasks : Nested(u)'
    BY <1>f, <1>k, FrameNested DEF contextVars, TypeOK
  <1>n. ASSUME ResetContext(r), ~Arrive(r), pc[r] \in InMiddleware PROVE \A u \in Tasks : Nested(u)'
    BY <1>n, <1>a, <1>b, <1>k, ResetNested DEF TypeOK, RequestInv, Stashed
  <1>1. CASE Arrive(r)
    BY <1>1, <1>t, <1>o, <1>w, ArriveInv
  <1> USE DEF RequestInv
  <1>2. CASE ~Arrive(r) /\ Authenticate(r)
    <2>1. pc[r] = "arrived" /\ UNCHANGED contextVars
      BY <1>2 DEF Authenticate, HttpError, Admit
    <2>2. RequestInv(r)'
      BY <1>2, <1>b, <2>1, HttpErrorInv, AdmitInv DEF Authenticate, FeatureEnabled
    <2> QED BY <1>2, <1>t, <1>o, <1>w, <1>f, <2>1, <2>2
  <1>3. CASE ~Arrive(r) /\ Verify(r)
    <2>1. RequestInv(r)'
      BY <1>3, VerifyInv
    <2>2. \A u \in Tasks : /\ stack'[u] = stack[u] /\ current'[u] = current[u]
                          /\ fields'[u].trace = fields[u].trace
                          /\ fields'[u].rid = fields[u].rid /\ closed'[u] = closed[u]
      <3>1. CASE Accept(r)
        <4>1. fields' = [fields EXCEPT ![r].user = r] /\ UNCHANGED <<current, stack, closed>>
          BY <3>1 DEF Accept, BindUser
        <4>2. \A u \in Tasks : fields'[u].trace = fields[u].trace /\ fields'[u].rid = fields[u].rid
          BY <4>1, <1>a DEF TypeOK, ContextsTyped, Fields
        <4> QED BY <4>1, <4>2
      <3>2. CASE HttpError(r, 401)
        BY <3>2 DEF HttpError, contextVars
      <3> QED BY <1>3, <3>1, <3>2 DEF Verify
    <2>3. \A u \in Tasks : Nested(u)'
      BY <1>3, <1>k, <2>2, FrameNested DEF TypeOK
    <2> QED BY <1>t, <1>o, <1>w, <2>1, <2>3
  <1>4. CASE ~Arrive(r) /\ Respond(r)
    <2>1. /\ pc[r] = "handler" /\ pc' = pc /\ ask' = ask /\ scope' = scope /\ lines' = lines
          /\ UNCHANGED contextVars /\ stack' = stack /\ fields' = fields
          /\ root' = root /\ origin' = origin
          /\ status'[r] = 200
          /\ response'[r] = [status |-> 200, header |-> scope[r], body |-> NoContext]
      BY <1>4 DEF Respond, SendWithTrace, contextVars, queueVars, TypeOK, RequestsTyped
    <2>2. Stashed(r)' /\ Answered(r)'
      BY <1>b, <2>1 DEF Stashed, Answered, Own, InMiddleware
    <2>3. Logged(r)' /\ Asking(r)' /\ Principal(r)'
      BY <1>b, <2>1 DEF Logged, Asking, Principal
    <2> QED BY <1>4, <1>t, <1>o, <1>w, <1>f, <2>1, <2>2, <2>3
  <1>5. CASE ~Arrive(r) /\ Complete(r)
    <2>1. pc[r] \in InMiddleware /\ status[r] \in Nat
      BY <1>5 DEF Complete, InMiddleware, TypeOK, RequestsTyped
    <2>2. status[r] # 0
      BY <1>5, <1>b DEF Complete, Answered
    <2>3. RequestInv(r)'
      BY <1>5, <1>a, <1>b, <2>1, <2>2, LeaveInv DEF Complete
    <2> QED BY <1>5, <1>t, <1>o, <1>w, <1>n, <2>1, <2>3 DEF Complete
  <1>6. CASE ~Arrive(r) /\ RaiseHttp(r)
    <2>1. pc[r] = "handler" /\ HttpError(r, 503)
      BY <1>6 DEF RaiseHttp
    <2>2. RequestInv(r)' /\ UNCHANGED contextVars
      BY <1>b, <2>1, HttpErrorInv DEF HttpError
    <2> QED BY <1>6, <1>t, <1>o, <1>w, <1>f, <2>2
  <1>7. CASE ~Arrive(r) /\ RaiseUnhandled(r)
    <2>1. pc[r] \in InMiddleware
      BY <1>7 DEF RaiseUnhandled, InMiddleware
    <2>2. status'[r] \in Nat /\ status'[r] # 0 /\ status'[r] = IF status[r] = 0 THEN 500 ELSE status[r]
      BY <1>7 DEF RaiseUnhandled, TypeOK, RequestsTyped
    <2>3. RequestInv(r)'
      BY <1>7, <1>a, <1>b, <2>1, <2>2, LeaveInv DEF RaiseUnhandled
    <2> QED BY <1>7, <1>t, <1>o, <1>w, <1>n, <2>1, <2>3 DEF RaiseUnhandled
  <1>8. CASE ~Arrive(r) /\ ServerError(r)
    <2>1. /\ pc[r] = "failed" /\ pc'[r] = "done" /\ ask' = ask /\ scope' = scope /\ lines' = lines
          /\ status' = status
          /\ UNCHANGED contextVars /\ stack' = stack /\ fields' = fields
          /\ root' = root /\ origin' = origin
          /\ response'[r] = IF response[r].status # 0 THEN response[r]
                            ELSE [status |-> 500, header |-> scope[r], body |-> scope[r]]
      BY <1>8 DEF ServerError, ContextFromScope, Goto, contextVars, queueVars, TypeOK, RequestsTyped
    <2>2. Stashed(r)' /\ Answered(r)'
      BY <1>b, <2>1 DEF Stashed, Answered, Own, InMiddleware
    <2>3. Logged(r)'
      BY <1>b, <2>1 DEF Logged
    <2>4. Asking(r)' /\ Principal(r)'
      BY <1>b, <2>1 DEF Asking, Principal
    <2> QED BY <1>8, <1>t, <1>o, <1>w, <1>f, <2>1, <2>2, <2>3, <2>4
  <1>9. CASE ~Arrive(r) /\ Cancel(r)
    <2>1. pc[r] \in InMiddleware /\ status[r] \in Nat
      BY <1>9 DEF Cancel, InMiddleware, TypeOK, RequestsTyped
    <2>3. RequestInv(r)'
      BY <1>9, <1>a, <1>b, <2>1, LeaveInv DEF Cancel
    <2> QED BY <1>9, <1>t, <1>o, <1>w, <1>n, <2>1, <2>3 DEF Cancel
  <1>10. CASE ~Arrive(r) /\ CancelOutside(r)
    <2>1. /\ pc[r] = "failed" /\ pc'[r] = "done" /\ ask' = ask /\ scope' = scope /\ lines' = lines
          /\ status' = status /\ response' = response
          /\ UNCHANGED contextVars /\ stack' = stack /\ fields' = fields
          /\ root' = root /\ origin' = origin
      BY <1>10 DEF CancelOutside, Goto, contextVars, queueVars, TypeOK, RequestsTyped
    <2>2. Stashed(r)' /\ Answered(r)'
      BY <1>b, <2>1 DEF Stashed, Answered, Own, InMiddleware
    <2>3. Logged(r)'
      BY <1>b, <2>1 DEF Logged
    <2>4. Asking(r)' /\ Principal(r)'
      BY <1>b, <2>1 DEF Asking, Principal
    <2> QED BY <1>10, <1>t, <1>o, <1>w, <1>f, <2>1, <2>2, <2>3, <2>4
  <1> QED BY <1>1, <1>2, <1>3, <1>4, <1>5, <1>6, <1>7, <1>8, <1>9, <1>10 DEF Handle

\* Every step of a call, a queue or a job keeps the invariant.
LEMMA WorkInv ==
  ASSUME IInv, NEW t \in Tasks, Work(t)
  PROVE  IInv'
  <1> USE DEF IInv
  <1>t. TypeOK'
    BY WorkTyped
  <1>a. stack[t] # <<>> => Top(t).of \in Owners
    <2>1. stack[t] # <<>> => Top(t) \in Open
      BY DEF TypeOK, ContextsTyped, Top
    <2> QED BY <2>1 DEF Open
  <1>b. stack[t] # <<>> => current[t] = Own(Top(t).of) /\ root[Top(t).of] # None
    BY <1>a, RequestAssumption DEF Nested, TypeOK, QueueTyped
  <1>s. ASSUME UNCHANGED <<requestVars, contextVars>>, \A q \in Requests : root'[q] = root[q] /\ origin'[q] = origin[q]
        PROVE  \A q \in Requests : RequestInv(q)'
    BY <1>s, SameRequest DEF requestVars, contextVars
  <1>1. CASE Call(t)
    <2>1. UNCHANGED <<requestVars, contextVars, carrier, root, origin>>
      BY <1>1 DEF Call
    <2>2. \A u \in Tasks : Nested(u)'
      BY <2>1, FrameNested DEF Kept, Nested, TypeOK, requestVars, contextVars
    <2>3. TracedHeaders(t) = RootOf(t)
      <3>1. CASE stack[t] = <<>>
        BY <3>1 DEF TracedHeaders, RootOf, Nested
      <3>2. CASE stack[t] # <<>>
        BY <1>b, <3>2 DEF TracedHeaders, RootOf, Own, NoContext
      <3> QED BY <3>1, <3>2
    <2>4. \A h \in wire' : h.trace = h.root
      BY <1>1, <2>3 DEF Call
    <2>5. \A j \in Jobs : Carried(j)'
      BY <2>1 DEF Carried, Own
    <2> QED BY <1>t, <1>s, <2>1, <2>2, <2>4, <2>5
  <1>2. CASE LeaveJob(t)
    <2>1. UNCHANGED <<requestVars, queueVars>> /\ stack[t] # <<>>
      BY <1>2 DEF LeaveJob
    <2>2. Kept
      BY <2>1 DEF Kept, Nested, requestVars, queueVars
    <2>3. \A u \in Tasks : Nested(u)'
      BY <1>2, <2>1, <2>2, ResetNested DEF LeaveJob, TypeOK
    <2>4. ASSUME NEW q \in Requests PROVE RequestInv(q)'
      <3>1. q \in Tasks
        BY DEF Tasks
      <3>2. fields'[q].user = fields[q].user
        BY <1>2, <3>1 DEF LeaveJob, ResetContext, Unbind, NoFields, TypeOK, ContextsTyped
      <3>3. q # t => stack'[q] = stack[q]
        BY <1>2, <3>1 DEF LeaveJob, ResetContext, Pop, TypeOK, ContextsTyped
      <3>4. q = t => stack'[q] # <<>> /\ stack'[q][1] = stack[q][1]
        <4> SUFFICES ASSUME q = t PROVE stack'[t] # <<>> /\ stack'[t][1] = stack[t][1]
          OBVIOUS
        <4>1. stack[t] \in Seq(Open) /\ Len(stack[t]) \in Nat /\ Len(stack[t]) > 1
          BY <1>2 DEF LeaveJob, TypeOK, ContextsTyped
        <4>2. stack'[t] = SubSeq(stack[t], 1, Len(stack[t]) - 1)
          BY <1>2 DEF LeaveJob, ResetContext, Pop, TypeOK, ContextsTyped
        <4>3. Len(SubSeq(stack[t], 1, Len(stack[t]) - 1)) = Len(stack[t]) - 1
          BY <4>1
        <4>4. SubSeq(stack[t], 1, Len(stack[t]) - 1)[1] = stack[t][1]
          BY <4>1
        <4>5. SubSeq(stack[t], 1, Len(stack[t]) - 1) # <<>>
          <5>1. Len(stack[t]) - 1 # 0
            <6> DEFINE n == Len(stack[t])
            <6>1. n \in Nat /\ n > 1
              BY <4>1
            <6> HIDE DEF n
            <6>2. n - 1 # 0
              BY <6>1
            <6> QED BY <6>2 DEF n
          <5>2. Len(SubSeq(stack[t], 1, Len(stack[t]) - 1)) # Len(<<>>)
            BY <4>3, <5>1
          <5> QED BY <5>2
        <4> QED BY <4>2, <4>4, <4>5
      <3> QED BY <2>1, <3>2, <3>3, <3>4, SameRequest DEF requestVars, queueVars
    <2>5. wire' = wire /\ \A j \in Jobs : Carried(j)'
      BY <2>1 DEF Carried, Own, queueVars
    <2> QED BY <1>t, <2>3, <2>4, <2>5
  <1>3. ASSUME NEW j \in Jobs, Enqueue(t, j) PROVE IInv'
    <2>1. /\ UNCHANGED <<requestVars, contextVars, wire>> /\ ~OnStack(j)
          /\ carrier' = [carrier EXCEPT ![j] = current[t]]
          /\ root' = [root EXCEPT ![j] = root[Top(t).of]]
          /\ origin' = [origin EXCEPT ![j] = origin[Top(t).of]]
      BY <1>3 DEF Enqueue, RootOf
    <2>2. j \in Owners /\ \A q \in Requests : q \in Owners /\ q # j
      BY RequestAssumption DEF Owners
    <2>3. Kept
      <3> SUFFICES ASSUME NEW u \in Tasks, NEW i \in 1..Len(stack[u])
                   PROVE  LET y == stack[u][i].of
                          IN  root'[y] = root[y] /\ origin'[y] = origin[y]
                              /\ (y \in Requests => pc'[y] # "new")
        BY DEF Kept
      <3>1. stack[u][i] \in Open
        BY DEF TypeOK, ContextsTyped
      <3>2. stack[u][i].of \in Owners /\ stack[u][i].of # j
        BY <2>1, <3>1 DEF OnStack, Open
      <3> QED BY <2>1, <2>2, <3>2 DEF Nested, requestVars, TypeOK, QueueTyped
    <2>4. \A u \in Tasks : Nested(u)'
      BY <2>1, <2>3, FrameNested DEF TypeOK, contextVars
    <2>5. \A q \in Requests : RequestInv(q)'
      BY <1>s, <2>1, <2>2 DEF TypeOK, QueueTyped
    <2>6. ASSUME NEW k \in Jobs PROVE Carried(k)'
      <3>1. CASE k = j
        <4>1. carrier'[j] = Own(Top(t).of) /\ root'[j] = root[Top(t).of]
              /\ origin'[j] = origin[Top(t).of]
          BY <1>3, <1>b, <2>1, <2>2 DEF Enqueue, TypeOK, QueueTyped
        <4>2. carrier'[j] # NoContext
          BY <1>3, <1>b, <4>1 DEF Enqueue, Own, NoContext
        <4> QED BY <3>1, <4>1, <4>2 DEF Carried, Own
      <3>2. CASE k # j
        <4>1. carrier'[k] = carrier[k] /\ root'[k] = root[k] /\ origin'[k] = origin[k]
          BY <2>1, <3>2 DEF TypeOK, QueueTyped, Owners
        <4> QED BY <4>1 DEF Carried, Own
      <3> QED BY <3>1, <3>2
    <2> QED BY <1>t, <2>1, <2>4, <2>5, <2>6
  <1>4. ASSUME NEW j \in Jobs, RestoreTrace(t, j) PROVE IInv'
    <2> DEFINE ctx == NewTraceContext(carrier[j].trace, carrier[j].rid, j)
    <2>1. UNCHANGED <<requestVars, queueVars>> /\ BindContext(t, j, ctx)
      BY <1>4 DEF RestoreTrace
    <2>2. j \in Owners /\ j \in Traces /\ j \notin Requests
      BY RequestAssumption DEF Owners, Traces
    <2>3. ctx = Own(j)
      <3>1. CASE carrier[j] = NoContext
        BY <3>1 DEF NewTraceContext, Carried, Own, NoContext
      <3>2. CASE carrier[j] # NoContext
        <4>1. carrier[j] = [trace |-> root[j], rid |-> origin[j]] /\ root[j] # None
          <5>1. Carried(j) /\ root[j] \in Traces
            BY <2>2 DEF TypeOK, QueueTyped
          <5> QED BY <3>2, <5>1, RequestAssumption DEF Carried, Own
        <4> QED BY <4>1 DEF NewTraceContext, Own
      <3> QED BY <3>1, <3>2
    <2>4. ctx = OwnNext(j) /\ ctx \in Context
      BY <2>1, <2>2, <2>3 DEF Own, OwnNext, Context, queueVars, TypeOK, QueueTyped
    <2>5. Kept
      BY <2>1 DEF Kept, Nested, requestVars, queueVars
    <2>6. \A u \in Tasks : Nested(u)'
      BY <2>1, <2>2, <2>4, <2>5, BindNested DEF TypeOK
    <2>7. ASSUME NEW q \in Requests PROVE RequestInv(q)'
      <3>1. q \in Tasks
        BY DEF Tasks
      <3>2. fields'[q].user = fields[q].user
        BY <2>1, <3>1 DEF BindContext, Bound, TypeOK, ContextsTyped
      <3>3. q # t => stack'[q] = stack[q]
        BY <2>1, <3>1 DEF BindContext, TypeOK, ContextsTyped
      <3>4. q = t => stack[q] # <<>> /\ stack'[q] # <<>> /\ stack'[q][1] = stack[q][1]
        <4> SUFFICES ASSUME q = t
                     PROVE  stack[t] # <<>> /\ stack'[t] # <<>> /\ stack'[t][1] = stack[t][1]
          OBVIOUS
        <4>0. q \notin Workers
          BY RequestAssumption
        <4>1. stack[t] # <<>>
          BY <1>4, <4>0 DEF RestoreTrace, Running, RequestInv, Stashed, InMiddleware
        <4>2. stack[t] \in Seq(Open) /\ Len(stack[t]) \in Nat /\ Len(stack[t]) >= 1
          BY <4>1 DEF TypeOK, ContextsTyped
        <4>3. stack'[t] = Append(stack[t], [of |-> j, token |-> current[t]])
          BY <2>1 DEF BindContext, TypeOK, ContextsTyped
        <4> QED BY <4>1, <4>2, <4>3
      <3> QED BY <2>1, <3>2, <3>3, <3>4, SameRequest DEF requestVars, queueVars
    <2>8. wire' = wire /\ \A k \in Jobs : Carried(k)'
      BY <2>1 DEF Carried, Own, queueVars
    <2> QED BY <1>t, <2>6, <2>7, <2>8
  <1> QED BY <1>1, <1>2, <1>3, <1>4 DEF Work

-----------------------------------------------------------------------------
(* Theorems *)

LEMMA InitInv == ASSUME Init PROVE IInv
  <1>1. TypeOK
    BY DEF Init, TypeOK, RequestsTyped, ContextsTyped, QueueTyped, Contexts, NoResponse, NoFields,
           Fields, Traces, Owners
  <1>2. ASSUME NEW t \in Tasks PROVE Nested(t)
    <2>1. stack[t] = <<>> /\ Len(stack[t]) = 0
      BY DEF Init
    <2> QED BY <2>1 DEF Init, Nested, Attributed, NoFields
  <1>3. \A j \in Jobs : Carried(j)
    BY DEF Init, Carried, Own, Owners
  <1>4. ASSUME NEW r \in Requests PROVE RequestInv(r)
    <2>1. r \in Tasks /\ r \in Owners /\ Len(lines[r]) = 0
      BY DEF Init, Tasks, Owners
    <2>2. Stashed(r) /\ Answered(r)
      BY <2>1 DEF Init, Stashed, Answered, InMiddleware, NoResponse
    <2>3. Logged(r) /\ Asking(r) /\ Principal(r)
      BY <2>1 DEF Init, Logged, Asking, Principal, NoFields, NoResponse
    <2> QED BY <2>2, <2>3 DEF RequestInv
  <1>5. \A h \in wire : h.trace = h.root
    BY DEF Init
  <1> QED BY <1>1, <1>2, <1>3, <1>4, <1>5 DEF IInv

LEMMA StutterInv == ASSUME IInv, UNCHANGED vars PROVE IInv'
  <1> USE DEF vars, requestVars, contextVars, queueVars
  <1>1. TypeOK'
    BY DEF IInv, TypeOK, RequestsTyped, ContextsTyped, QueueTyped
  <1>2. \A t \in Tasks : Nested(t)'
    BY DEF IInv, Nested, Attributed, Around, Top, Own
  <1>3. \A j \in Jobs : Carried(j)'
    BY DEF IInv, Carried, Own
  <1>4. \A r \in Requests : RequestInv(r)'
    BY SameRequest DEF IInv
  <1> QED BY <1>1, <1>2, <1>3, <1>4 DEF IInv

\* The inductive invariant: what every open context gives back, what the scope of
\* every request and the carrier of every job hold, how far a request is answered
\* and logged.
THEOREM Invariance == Spec => []IInv
  <1>1. Init => IInv
    BY InitInv
  <1>2. IInv /\ [Next]_vars => IInv'
    BY HandleInv, WorkInv, StutterInv DEF Next
  <1> QED BY <1>1, <1>2, PTL DEF Spec

\* The declared types hold.
THEOREM TypeCorrect == Spec => []TypeOK
  <1>1. IInv => TypeOK
    BY DEF IInv
  <1> QED BY <1>1, Invariance, PTL

\* Every response carries the trace and the id of its own request, the 500 built
\* outside the middleware included.
THEOREM AnsweredTheorem == Spec => []AnsweredUnderItsTrace
  <1>1. IInv => AnsweredUnderItsTrace
    BY DEF IInv, RequestInv, Stashed, Answered, AnsweredUnderItsTrace, TypeOK, RequestsTyped
  <1> QED BY <1>1, Invariance, PTL

\* What a client was answered is logged once and as it was answered.
THEOREM LoggedTheorem == Spec => []LoggedAsAnswered
  <1>1. IInv => LoggedAsAnswered
    BY DEF IInv, RequestInv, Logged, LoggedAsAnswered
  <1> QED BY <1>1, Invariance, PTL

\* Calls, jobs and the code between them stay in the trace of the work at hand.
THEOREM OneTraceTheorem == Spec => []OneTrace
  <1>1. IInv => OneTrace
    BY DEF IInv, Nested, Carried, OneTrace
  <1> QED BY <1>1, Invariance, PTL

\* No line names the trace of other work, or a request it is not done in.
THEOREM LinesTheorem == Spec => []LinesOfTheScope
  <1>1. IInv => LinesOfTheScope
    BY DEF IInv, Nested, RequestInv, Logged, LinesOfTheScope
  <1> QED BY <1>1, Invariance, PTL

\* The endpoint runs only for whom the route lets in, and a credential that does not
\* verify is never served as a visitor.
THEOREM PrincipalTheorem == Spec => []PrincipalIsPresented
  <1>1. IInv => PrincipalIsPresented
    BY DEF IInv, RequestInv, PrincipalIsPresented
  <1> QED BY <1>1, Invariance, PTL

-----------------------------------------------------------------------------
(* The exchange every request is promised *)

\* An endpoint that failed had been entered.
Entered == \A r \in Requests : pc[r] = "failed" => Promise!MayEnter(ask[r])

LEMMA HandlerEntered ==
  ASSUME NEW r \in Requests, pc[r] = "handler", Principal(r), ask[r] \in Asks
  PROVE  Promise!MayEnter(ask[r])
  <1>1. ask[r].credential \in Credentials
    BY RequestAssumption
  <1> QED BY <1>1 DEF Principal, Promise!MayEnter, Credentials

LEMMA EnteredStep ==
  ASSUME IInv, Entered, [Next]_vars
  PROVE  Entered'
  <1>0. pc \in [Requests -> {"new", "arrived", "keys", "handler", "answered", "failed", "done"}]
        /\ ask \in [Requests -> Asks \cup {<<>>}]
    BY DEF IInv, TypeOK, RequestsTyped
  <1> SUFFICES ASSUME NEW q \in Requests, pc'[q] = "failed"
               PROVE  Promise!MayEnter(ask'[q])
    BY DEF Entered, Promise!MayEnter
  <1>1. CASE UNCHANGED <<pc, ask>>
    BY <1>1 DEF Entered
  <1>2. CASE \E t \in Tasks : Work(t)
    BY <1>1, <1>2 DEF Work, Call, LeaveJob, Enqueue, RestoreTrace, requestVars
  <1>3. ASSUME NEW r \in Requests, Handle(r)
        PROVE  Promise!MayEnter(ask'[q])
    <2>1. CASE Arrive(r)
      <3>1. PICK a \in Asks : ask' = [ask EXCEPT ![r] = a]
        BY <2>1 DEF Arrive
      <3> QED BY <1>0, <2>1, <3>1 DEF Arrive, Entered
    <2>2. CASE RaiseUnhandled(r)
      <3>1. CASE q = r
        <4>1. ask'[q] = ask[q] /\ pc[q] = "handler" /\ Principal(q) /\ ask[q] \in Asks
          BY <2>2, <3>1 DEF RaiseUnhandled, IInv, RequestInv, TypeOK, RequestsTyped
        <4> QED BY <4>1, HandlerEntered
      <3> QED BY <1>0, <2>2, <3>1 DEF RaiseUnhandled, Goto, Entered
    <2>3. CASE ~Arrive(r) /\ ~RaiseUnhandled(r)
      <3>1. ask' = ask /\ (pc' = pc \/ \E l \in {"keys", "handler", "answered", "done"} : Goto(r, l))
        BY <1>3, <2>3 DEF Handle, Authenticate, Verify, Accept, Respond, Complete, RaiseHttp, ServerError,
           Cancel, CancelOutside, HttpError, Admit
      <3>2. pc[q] = "failed"
        BY <1>0, <3>1 DEF Goto
      <3> QED BY <3>1, <3>2 DEF Entered
    <2> QED BY <2>1, <2>2, <2>3
  <1> QED BY <1>1, <1>2, <1>3 DEF Next, vars, requestVars

\* Where an exchange is, as its request moves on.
Phase == [r \in Requests |-> CASE pc[r] = "new" -> "new" [] pc[r] = "done" -> "over" [] OTHER -> "open"]

LEMMA PhaseMoves ==
  ASSUME RequestsTyped, NEW r \in Requests, NEW l, Goto(r, l)
  PROVE  /\ l = "done" => Phase' = [Phase EXCEPT ![r] = "over"]
         /\ l \notin {"new", "done"} => Phase' = [Phase EXCEPT ![r] = "open"]
         /\ l \notin {"new", "done"} /\ pc[r] \notin {"new", "done"} => Phase' = Phase
  <1>1. \A q \in Requests : pc'[q] = IF q = r THEN l ELSE pc[q]
    BY DEF Goto, RequestsTyped
  <1> QED BY <1>1 DEF Phase

\* A line of the middleware is one about its request, under its trace or none.
LEMMA LogPromised ==
  ASSUME IInv, NEW r \in Requests, pc[r] \in InMiddleware, Innermost(r), ~ask[r].quiet,
         NEW s \in Nat, LogCompleted(r, s), UNCHANGED response,
         IF response[r].status # 0 THEN s = response[r].status
         ELSE s = 500 /\ Promise!MayEnter(ask[r])
  PROVE  Promise!Log(r) /\ lines'[r] # <<>>
  <1>0. lines \in [Requests -> Seq(Line)] /\ lines[r] = <<>>
    BY DEF IInv, TypeOK, RequestsTyped, RequestInv, Answered
  <1>1. fields[r].trace \in {scope[r].trace, None}
    <2>1. Top(r).of = r /\ stack[r] # <<>> /\ scope[r] = Own(r)
      BY DEF IInv, RequestInv, Stashed, Innermost, InMiddleware, Top
    <2>2. Nested(r)
      BY DEF IInv, Tasks
    <2> QED BY <2>1, <2>2 DEF Nested, Attributed, Own
  <1>2. Append(lines[r], [status |-> s, trace |-> fields[r].trace])
          = <<[status |-> s, trace |-> fields[r].trace]>>
    BY <1>0
  <1>3. lines' = [lines EXCEPT ![r] = <<[status |-> s, trace |-> fields[r].trace]>>]
    BY <1>2 DEF LogCompleted
  <1>4. lines'[r] # <<>>
    BY <1>0, <1>3
  <1>5. scope[r].trace = [q \in Requests |-> scope[q].trace][r]
    OBVIOUS
  <1> DEFINE Shown == IF response[r].status # 0 THEN response[r].status ELSE 500
             Under(t) == lines' = [lines EXCEPT ![r] = <<[status |-> Shown, trace |-> t]>>]
  <1>6. \E t \in {scope[r].trace, None} : Under(t)
    <2>1. s = Shown
      OBVIOUS
    <2>2. Under(fields[r].trace)
      BY <1>3, <2>1
    <2> HIDE DEF Under
    <2> QED BY <1>1, <2>2
  <1> QED BY <1>0, <1>4, <1>6 DEF Promise!Log, Promise!Answered

\* What is stashed on the scope is the request's own reference.
LEMMA StashedReference ==
  ASSUME IInv, NEW r \in Requests, pc[r] # "new"
  PROVE  scope[r] = Promise!Reference(r)
  <1>1. scope[r] = Own(r) /\ origin[r] = r
    BY DEF IInv, RequestInv, Stashed
  <1> QED BY <1>1 DEF Own, Promise!Reference

\* What send_with_trace sends is an answer, if that is what the request deserves.
LEMMA SendPromised ==
  ASSUME IInv, NEW r \in Requests, pc[r] \in InMiddleware, response[r].status = 0,
         NEW s \in {200, 401, 403, 404, 503}, Promise!Deserved(ask[r], s),
         SendWithTrace(r, s, IF s < 400 THEN NoContext ELSE scope[r]), UNCHANGED lines
  PROVE  Promise!Answer(r, s)
  <1>1. lines[r] = <<>> /\ scope[r] = Promise!Reference(r)
    BY StashedReference DEF IInv, RequestInv, Answered, InMiddleware
  <1>2. Promise!NoReference = NoContext
    BY DEF Promise!NoReference, NoContext
  <1> QED BY <1>1, <1>2 DEF Promise!Answer, Promise!Answered, SendWithTrace

LEMMA ArrivePromised ==
  ASSUME IInv, NEW r \in Requests, Arrive(r)
  PROVE  Promise!Arrive(r)
  <1>0. RequestsTyped /\ QueueTyped /\ pc[r] = "new" /\ Goto(r, "arrived")
    BY DEF IInv, TypeOK, Arrive, Goto
  <1>1. PICK h \in Headers(r) : scope' = [scope EXCEPT ![r] = NewTraceContext(h.trace, r, r)]
    BY DEF Arrive
  <1> DEFINE ctx == NewTraceContext(h.trace, r, r)
             Trace == [q \in Requests |-> scope[q].trace]
  <1>2. ctx \in Context
    BY <1>0 DEF Headers, QueueTyped, NewTraceContext, Context, Traces
  <1>3. ctx.trace \in Traces
    BY <1>2 DEF Context
  <1>4. Trace' = [Trace EXCEPT ![r] = ctx.trace]
    <2>1. \A q \in Requests : scope'[q] = IF q = r THEN ctx ELSE scope[q]
      BY <1>0, <1>1 DEF RequestsTyped
    <2> HIDE DEF ctx
    <2> QED BY <2>1
  <1>5. \E t \in Traces : Trace' = [Trace EXCEPT ![r] = t]
    BY <1>3, <1>4
  <1>6. Phase[r] = "new"
    BY <1>0 DEF Phase
  <1>7. Phase' = [Phase EXCEPT ![r] = "open"]
    BY <1>0, PhaseMoves
  <1>8. (\E a \in Asks : ask' = [ask EXCEPT ![r] = a]) /\ UNCHANGED <<response, lines>>
    BY DEF Arrive
  <1> QED BY <1>5, <1>6, <1>7, <1>8 DEF Promise!Arrive, Phase

\* What a step between arrival and end owes to the exchange.
Owed(r) ==
  \/ UNCHANGED <<response, lines>>
  \/ Promise!Log(r)
  \/ \E s \in {200, 401, 403, 404, 500, 503} : Promise!Answer(r, s)

LEMMA ProceedPromised ==
  ASSUME RequestsTyped, NEW r \in Requests, pc[r] \notin {"new", "done"},
         UNCHANGED <<ask, scope>>, Owed(r),
         NEW l \in {"keys", "handler", "answered", "failed", "done"}, Goto(r, l),
         l = "done" => Promise!Settled(r)'
  PROVE  Promise!Proceed(r)
  <1>1. Phase[r] = "open"
    BY DEF Phase
  <1>2. UNCHANGED [q \in Requests |-> scope[q].trace]
    OBVIOUS
  <1>3. UNCHANGED Phase \/ (l = "done" /\ Phase' = [Phase EXCEPT ![r] = "over"])
    BY PhaseMoves
  <1>4. UNCHANGED Phase \/ Promise!End(r)
    BY <1>3 DEF Promise!End, Phase
  <1> QED BY <1>1, <1>2, <1>4 DEF Promise!Proceed, Owed, Phase

LEMMA HttpPromised ==
  ASSUME IInv, NEW r \in Requests, pc[r] \in InMiddleware, status[r] = 0,
         NEW s \in {401, 403, 404, 503}, Promise!Deserved(ask[r], s), HttpError(r, s)
  PROVE  Promise!Proceed(r)
  <1>1. RequestsTyped /\ response[r].status = 0
    BY DEF IInv, TypeOK, RequestInv, Answered
  <1>2. SendWithTrace(r, s, scope[r]) /\ Goto(r, "answered") /\ UNCHANGED <<ask, scope, lines>>
    BY DEF HttpError, ContextFromScope
  <1>3. Promise!Answer(r, s)
    BY <1>1, <1>2, SendPromised
  <1>4. Owed(r)
    BY <1>3 DEF Owed
  <1> QED BY <1>1, <1>2, <1>4, ProceedPromised DEF InMiddleware

\* Whatever the dependencies decide is deserved.
LEMMA AuthenticatePromised ==
  ASSUME IInv, NEW r \in Requests, Authenticate(r)
  PROVE  Promise!Proceed(r)
  <1>0. RequestsTyped /\ pc[r] = "arrived" /\ status[r] = 0 /\ pc[r] \in InMiddleware
    BY DEF IInv, TypeOK, RequestInv, Answered, Authenticate, InMiddleware
  <1>1. ASSUME NEW l \in {"keys", "handler"}, Admit(r, l)
        PROVE  Promise!Proceed(r)
    <2>1. Goto(r, l) /\ UNCHANGED <<ask, scope>> /\ Owed(r)
      BY <1>1 DEF Admit, Owed
    <2> QED BY <1>0, <2>1, ProceedPromised
  <1>2. CASE Admit(r, "handler") \/ Admit(r, "keys")
    BY <1>1, <1>2
  <1>3. CASE ~FeatureEnabled(r) /\ HttpError(r, 404)
    <2>1. Promise!Deserved(ask[r], 404)
      BY <1>3 DEF FeatureEnabled, Promise!Deserved
    <2> QED BY <1>0, <1>3, <2>1, HttpPromised
  <1>4. CASE /\ FeatureEnabled(r) /\ HttpError(r, 401)
             /\ \/ ask[r].route \in {"bearer", "capability"}
                \/ ask[r].route # "open" /\ ask[r].credential \in {"junk", "alg"}
    <2>1. Promise!Deserved(ask[r], 401)
      BY <1>4 DEF FeatureEnabled, Promise!Deserved
    <2> QED BY <1>0, <1>4, <2>1, HttpPromised
  <1> QED BY <1>2, <1>3, <1>4 DEF Authenticate

LEMMA VerifyPromised ==
  ASSUME IInv, NEW r \in Requests, Verify(r)
  PROVE  Promise!Proceed(r)
  <1>0. RequestsTyped /\ pc[r] = "keys" /\ status[r] = 0 /\ response[r].status = 0 /\ pc[r] \in InMiddleware
    BY DEF IInv, TypeOK, RequestInv, Answered, Verify, InMiddleware
  <1>1. ~ask[r].featureOff /\ ask[r].route # "open" /\ ask[r].credential # "none"
    BY <1>0 DEF IInv, RequestInv, Asking
  <1>2. CASE HttpError(r, 401)
    <2>1. Promise!Deserved(ask[r], 401)
      BY <1>1 DEF Promise!Deserved
    <2> QED BY <1>0, <1>2, <2>1, HttpPromised
  <1>3. CASE Accept(r)
    <2>0. UNCHANGED <<ask, scope, lines>> /\ ask[r].credential \in {"user", "entitled"}
      BY <1>3 DEF Accept
    <2>1. CASE ask[r].route = "capability" /\ ask[r].credential # "entitled"
      <3>1. SendWithTrace(r, 403, scope[r]) /\ Goto(r, "answered")
        BY <1>3, <2>1 DEF Accept, ContextFromScope
      <3>2. Promise!Deserved(ask[r], 403)
        BY <1>1, <2>0, <2>1 DEF Promise!Deserved
      <3>3. Promise!Answer(r, 403)
        BY <1>0, <2>0, <3>1, <3>2, SendPromised
      <3>4. Owed(r)
        BY <3>3 DEF Owed
      <3> QED BY <1>0, <2>0, <3>1, <3>4, ProceedPromised
    <2>2. CASE ~(ask[r].route = "capability" /\ ask[r].credential # "entitled")
      <3>1. Goto(r, "handler") /\ Owed(r)
        BY <1>3, <2>2 DEF Accept, Owed
      <3> QED BY <1>0, <2>0, <3>1, ProceedPromised
    <2> QED BY <2>1, <2>2
  <1> QED BY <1>2, <1>3 DEF Verify

\* A request that leaves the middleware with what it answered in its line.
LEMMA LeavePromised ==
  ASSUME IInv, NEW r \in Requests, pc[r] \in InMiddleware, Innermost(r),
         NEW s \in Nat, LogCompleted(r, s), UNCHANGED <<ask, scope, response>>,
         IF response[r].status # 0 THEN s = response[r].status
         ELSE s = 500 /\ Promise!MayEnter(ask[r]),
         NEW l \in {"failed", "done"}, Goto(r, l)
  PROVE  Promise!Proceed(r)
  <1>0. RequestsTyped /\ pc[r] \notin {"new", "done"}
    BY DEF IInv, TypeOK, InMiddleware
  <1>1. CASE ask[r].quiet
    <2>1. Owed(r)
      BY <1>1 DEF LogCompleted, Owed
    <2>2. Promise!Settled(r)'
      BY <1>1 DEF Promise!Settled
    <2> QED BY <1>0, <2>1, <2>2, ProceedPromised
  <1>2. CASE ~ask[r].quiet
    <2>1. Promise!Log(r) /\ lines'[r] # <<>>
      BY <1>2, LogPromised
    <2>2. Owed(r) /\ Promise!Settled(r)'
      BY <2>1 DEF Owed, Promise!Settled
    <2> QED BY <1>0, <2>2, ProceedPromised
  <1> QED BY <1>1, <1>2

LEMMA HandlePromised ==
  ASSUME IInv, Entered, NEW r \in Requests, Handle(r)
  PROVE  Promise!Arrive(r) \/ Promise!Proceed(r)
  <1>0. RequestsTyped /\ Answered(r) /\ Logged(r) /\ status[r] \in Nat
    BY DEF IInv, TypeOK, RequestsTyped, RequestInv
  <1>a. pc[r] = "handler" => pc[r] \in InMiddleware /\ Promise!MayEnter(ask[r])
    BY HandlerEntered DEF IInv, TypeOK, RequestsTyped, RequestInv, InMiddleware
  <1>1. CASE Respond(r)
    <2>1. /\ pc[r] = "handler" /\ status[r] = 0 /\ SendWithTrace(r, 200, NoContext)
          /\ UNCHANGED <<pc, ask, scope, lines>>
      BY <1>1 DEF Respond
    <2>2. Promise!Deserved(ask[r], 200) /\ response[r].status = 0
      BY <1>0, <1>a, <2>1 DEF Promise!Deserved, Answered
    <2>3. Promise!Answer(r, 200)
      BY <1>a, <2>1, <2>2, SendPromised
    <2>4. Owed(r) /\ Goto(r, "handler")
      BY <1>0, <2>1, <2>3 DEF Owed, Goto, RequestsTyped
    <2> QED BY <1>0, <2>1, <2>4, ProceedPromised
  <1>2. CASE Complete(r)
    <2>1. /\ Innermost(r) /\ LogCompleted(r, status[r]) /\ Goto(r, "done")
          /\ UNCHANGED <<ask, scope, response>> /\ pc[r] \in InMiddleware /\ status[r] # 0
      BY <1>0, <1>2 DEF Complete, InMiddleware, Answered
    <2>2. status[r] = response[r].status
      BY <1>0, <2>1 DEF Answered
    <2> QED BY <1>0, <2>1, <2>2, LeavePromised
  <1>3. CASE RaiseHttp(r)
    <2>1. Promise!Deserved(ask[r], 503) /\ pc[r] \in InMiddleware
      BY <1>3, <1>a DEF RaiseHttp, Promise!Deserved
    <2> QED BY <1>3, <2>1, HttpPromised DEF RaiseHttp
  <1>4. CASE RaiseUnhandled(r)
    <2>1. /\ Innermost(r) /\ LogCompleted(r, status'[r]) /\ Goto(r, "failed")
          /\ UNCHANGED <<ask, scope, response>> /\ pc[r] = "handler"
      BY <1>4 DEF RaiseUnhandled
    <2>2. status'[r] = (IF status[r] = 0 THEN 500 ELSE status[r]) /\ status[r] = response[r].status
      BY <1>0, <1>a, <1>4, <2>1 DEF RaiseUnhandled, Answered, RequestsTyped
    <2>3. status'[r] \in Nat
      BY <1>0, <2>2
    <2> QED BY <1>a, <2>1, <2>2, <2>3, LeavePromised
  <1>5. CASE ServerError(r)
    <2>1. /\ pc[r] = "failed" /\ Goto(r, "done") /\ UNCHANGED <<ask, scope, lines>>
          /\ scope[r] = Promise!Reference(r)
      BY <1>5, StashedReference DEF ServerError
    <2>2. ~ask[r].quiet =>
            /\ lines[r] # <<>>
            /\ response[r].status = 0 => lines[r][1].status = 500
      BY <1>0, <2>1 DEF Logged
    <2>3. ask[r].quiet => lines[r] = <<>>
      BY <1>0, <2>1 DEF Logged
    <2>4. Promise!Settled(r)'
      BY <2>1, <2>2 DEF Promise!Settled
    <2>5. CASE response[r].status # 0
      <3>1. Owed(r)
        BY <1>5, <2>1, <2>5 DEF ServerError, Owed
      <3> QED BY <1>0, <2>1, <2>4, <3>1, ProceedPromised
    <2>6. CASE response[r].status = 0
      <3>1. response' = [response EXCEPT ![r] = [status |-> 500, header |-> scope[r], body |-> scope[r]]]
        BY <1>5, <2>6 DEF ServerError, ContextFromScope
      <3>2. Promise!Deserved(ask[r], 500)
        BY <2>1 DEF Entered, Promise!Deserved
      <3>3. lines[r] # <<>> => lines[r][1].status = 500
        BY <2>2, <2>3, <2>6
      <3>4. Promise!Answer(r, 500)
        BY <2>1, <2>6, <3>1, <3>2, <3>3 DEF Promise!Answer, Promise!Answered
      <3>5. Owed(r)
        BY <3>4 DEF Owed
      <3> QED BY <1>0, <2>1, <2>4, <3>5, ProceedPromised
    <2> QED BY <2>5, <2>6
  <1>6. CASE Cancel(r)
    <2>1. /\ Innermost(r) /\ Goto(r, "done") /\ UNCHANGED <<ask, scope, response>>
          /\ pc[r] \in InMiddleware
      BY <1>6 DEF Cancel, InMiddleware
    <2>2. response[r].status = status[r]
      BY <1>0, <2>1 DEF Answered
    <2>3. CASE status[r] # 0
      <3>1. LogCompleted(r, status[r])
        BY <1>6, <2>3 DEF Cancel
      <3> QED BY <1>0, <2>1, <2>2, <2>3, <3>1, LeavePromised
    <2>4. CASE status[r] = 0
      <3>1. Owed(r) /\ Promise!Settled(r)'
        BY <1>6, <2>1, <2>2, <2>4 DEF Cancel, Owed, Promise!Settled, Promise!Answered
      <3> QED BY <1>0, <2>1, <3>1, ProceedPromised DEF InMiddleware
    <2> QED BY <2>3, <2>4
  <1>7. CASE CancelOutside(r)
    <2>1. pc[r] = "failed" /\ Goto(r, "done") /\ UNCHANGED <<ask, scope, response, lines>>
      BY <1>7 DEF CancelOutside
    <2>2. Owed(r) /\ Promise!Settled(r)'
      BY <1>0, <2>1 DEF Logged, Owed, Promise!Settled
    <2> QED BY <1>0, <2>1, <2>2, ProceedPromised
  <1> QED BY <1>1, <1>2, <1>3, <1>4, <1>5, <1>6, <1>7, ArrivePromised, AuthenticatePromised,
             VerifyPromised DEF Handle

\* Every request gets the exchange it is promised, whatever calls, jobs, errors and
\* cancellations go on in its context and in others.
THEOREM RefinementTheorem == Spec => ExchangeSpec
  <1>1. Init => Promise!ExchangeInit
    BY DEF Init, NoContext, NoResponse, Promise!ExchangeInit, Promise!NoReply, Promise!NoReference
  <1>2. Init => Entered
    BY DEF Init, Entered
  <1>3. ASSUME IInv, Entered, [Next]_vars
        PROVE  [Promise!ExchangeNext]_<<Phase, ask, [r \in Requests |-> scope[r].trace], response, lines>>
    <2>1. CASE UNCHANGED requestVars
      BY <2>1 DEF requestVars, Phase
    <2>2. ASSUME NEW r \in Requests, Handle(r)
          PROVE  Promise!ExchangeNext
      BY <1>3, <2>2, HandlePromised DEF Promise!ExchangeNext
    <2> QED BY <1>3, <2>1, <2>2 DEF Next, vars, Work, Call, LeaveJob, Enqueue, RestoreTrace
  <1>4. IInv /\ Entered /\ [Next]_vars
          => [Promise!ExchangeNext]_<<Phase, ask, [r \in Requests |-> scope[r].trace], response, lines>>
    BY <1>3
  <1>5. IInv /\ Entered /\ [Next]_vars => Entered'
    BY EnteredStep
  <1> QED
    BY <1>1, <1>2, <1>4, <1>5, Invariance, PTL DEF Spec, ExchangeSpec, Promise!ExchangeSpec, Phase

\* What the exchange alone keeps of a request: lines and answer agree.
Agreed(r) ==
  /\ lines[r] # <<>> =>
       /\ Len(lines[r]) = 1
       /\ lines[r][1].status = IF response[r].status # 0 THEN response[r].status ELSE 500
  /\ Phase[r] = "new" => lines[r] = <<>> /\ response[r].status = 0
  /\ Phase[r] = "over" => Promise!Settled(r)
  /\ Promise!Answered(r) => Promise!Deserved(ask[r], response[r].status)

Exchanged ==
  /\ ask = [q \in Requests |-> ask[q]] /\ lines = [q \in Requests |-> lines[q]]
  /\ response = [q \in Requests |-> response[q]]
  /\ \A q \in Requests : Agreed(q)

LEMMA ExchangedStep ==
  ASSUME Exchanged, NEW r \in Requests, Promise!Arrive(r) \/ Promise!Proceed(r)
  PROVE  /\ Exchanged'
         /\ \A q \in Requests : Promise!Answered(q) => UNCHANGED response[q]
  <1> USE DEF Exchanged
  <1>1. CASE Promise!Arrive(r)
    <2>1. PICK a \in Asks : ask' = [ask EXCEPT ![r] = a]
      BY <1>1 DEF Promise!Arrive
    <2>2. /\ Phase[r] = "new" /\ Phase' = [Phase EXCEPT ![r] = "open"]
          /\ UNCHANGED <<response, lines>>
      BY <1>1 DEF Promise!Arrive, Phase
    <2>3. ASSUME NEW q \in Requests
          PROVE  Agreed(q)'
      <3>1. Agreed(q) /\ Agreed(r)
        OBVIOUS
      <3>2. CASE q = r
        <4>1. Phase'[q] = "open" /\ lines'[q] = <<>> /\ response'[q].status = 0
          BY <2>2, <3>1, <3>2 DEF Agreed, Phase
        <4> QED BY <4>1 DEF Agreed, Promise!Answered
      <3>3. CASE q # r
        <4>1. Phase'[q] = Phase[q] /\ ask'[q] = ask[q] /\ UNCHANGED <<lines[q], response[q]>>
          BY <2>1, <2>2, <3>3 DEF Phase
        <4> QED BY <3>1, <4>1 DEF Agreed, Promise!Settled, Promise!Answered, Promise!Deserved, Promise!MayEnter
      <3> QED BY <3>2, <3>3
    <2>4. ask' = [q \in Requests |-> ask'[q]]
      BY <2>1
    <2> QED BY <2>2, <2>3, <2>4
  <1>2. CASE Promise!Proceed(r)
    <2>0. /\ Phase[r] = "open" /\ UNCHANGED ask
          /\ UNCHANGED Phase \/ (Phase' = [Phase EXCEPT ![r] = "over"] /\ Promise!Settled(r)')
          /\ Owed(r)
      BY <1>2 DEF Promise!Proceed, Promise!End, Phase, Owed
    <2>1. /\ \A q \in Requests \ {r} : UNCHANGED <<lines[q], response[q], Phase[q]>>
          /\ Phase'[r] = "open" \/ (Phase'[r] = "over" /\ Promise!Settled(r)')
          /\ lines' = [q \in Requests |-> lines'[q]] /\ response' = [q \in Requests |-> response'[q]]
      <3>1. /\ \A q \in Requests \ {r} : UNCHANGED <<lines[q], response[q]>>
            /\ lines' = [q \in Requests |-> lines'[q]] /\ response' = [q \in Requests |-> response'[q]]
        BY <2>0 DEF Owed, Promise!Log, Promise!Answer
      <3>2. Phase = [q \in Requests |-> Phase[q]]
        BY DEF Phase
      <3>3. /\ \A q \in Requests \ {r} : UNCHANGED Phase[q]
            /\ Phase'[r] = "open" \/ (Phase'[r] = "over" /\ Promise!Settled(r)')
        BY <2>0, <3>2
      <3> QED BY <3>1, <3>3
    <2>2. \A q \in Requests \ {r} : Agreed(q)'
      BY <2>0, <2>1 DEF Agreed, Promise!Settled, Promise!Answered, Promise!Deserved, Promise!MayEnter
    <2>3. Agreed(r)' /\ (Promise!Answered(r) => UNCHANGED response[r])
      <3>0. Agreed(r)
        OBVIOUS
      <3>1. CASE UNCHANGED <<response, lines>>
        BY <2>0, <2>1, <3>0, <3>1 DEF Agreed, Promise!Answered, Promise!Deserved, Promise!MayEnter
      <3>2. CASE Promise!Log(r)
        <4>1. PICK t \in {[q \in Requests |-> scope[q].trace][r], None} : lines' = [lines EXCEPT ![r] =
                <<[status |-> IF Promise!Answered(r) THEN response[r].status ELSE 500, trace |-> t]>>]
          BY <3>2 DEF Promise!Log
        <4>2. /\ Len(lines'[r]) = 1 /\ UNCHANGED response
              /\ lines'[r][1].status = IF response[r].status # 0 THEN response[r].status ELSE 500
          BY <3>2, <4>1 DEF Promise!Log, Promise!Answered
        <4> QED BY <2>0, <2>1, <3>0, <4>2 DEF Agreed, Promise!Answered, Promise!Deserved, Promise!MayEnter
      <3>3. ASSUME NEW s \in {200, 401, 403, 404, 500, 503}, Promise!Answer(r, s)
            PROVE  Agreed(r)' /\ ~Promise!Answered(r)
        <4>1. /\ response'[r].status = s /\ s # 0 /\ UNCHANGED lines
              /\ lines[r] # <<>> => lines[r][1].status = s
              /\ Promise!Deserved(ask[r], s) /\ ~Promise!Answered(r)
          BY <3>3 DEF Promise!Answer
        <4> QED BY <2>0, <2>1, <3>0, <4>1 DEF Agreed, Promise!Answered, Promise!Deserved, Promise!MayEnter
      <3> QED BY <2>0, <3>1, <3>2, <3>3 DEF Owed, Promise!Log
    <2> QED BY <2>0, <2>1, <2>2, <2>3
  <1> QED BY <1>1, <1>2

\* The exchange by itself keeps the line of a request in agreement with its answer, the
\* answer final and deserved: the refinement is no weaker than these.
THEOREM ExchangeKeeps ==
  ExchangeSpec =>
    /\ []LoggedAsAnswered
    /\ []\A r \in Requests : Promise!Answered(r) => Promise!Deserved(ask[r], response[r].status)
    /\ [][\A r \in Requests : Promise!Answered(r) => UNCHANGED response[r]]_response
  <1> DEFINE xVars == <<Phase, ask, [r \in Requests |-> scope[r].trace], response, lines>>
  <1>1. Promise!ExchangeInit => Exchanged
    BY DEF Promise!ExchangeInit, Promise!NoReply, Exchanged, Agreed, Promise!Answered, Phase
  <1>2. Exchanged /\ [Promise!ExchangeNext]_xVars =>
          Exchanged' /\ [\A r \in Requests : Promise!Answered(r) => UNCHANGED response[r]]_response
    <2>1. CASE UNCHANGED xVars /\ Exchanged
      BY <2>1 DEF Exchanged, Agreed, Promise!Settled, Promise!Answered, Promise!Deserved, Promise!MayEnter
    <2> QED BY <2>1, ExchangedStep DEF Promise!ExchangeNext
  <1>3. Exchanged => LoggedAsAnswered
    <2> SUFFICES ASSUME Exchanged, NEW r \in Requests
                 PROVE  /\ Len(lines[r]) <= 1
                        /\ pc[r] = "done" /\ ~ask[r].quiet /\ response[r].status # 0 =>
                             Len(lines[r]) = 1 /\ lines[r][1].status = response[r].status
                        /\ pc[r] = "done" /\ lines[r] # <<>> /\ response[r].status = 0 =>
                             lines[r][1].status = 500
      BY Zenon DEF LoggedAsAnswered
    <2>1. pc[r] = "done" => Phase[r] = "over"
      BY DEF Phase
    <2>2. Agreed(r)
      BY DEF Exchanged
    <2>3. Len(lines[r]) <= 1
      <3>1. CASE lines[r] = <<>>
        BY <3>1
      <3>2. CASE lines[r] # <<>>
        <4>1. Len(lines[r]) = 1
          BY <2>2, <3>2, Zenon DEF Agreed
        <4> QED BY <4>1
      <3> QED BY <3>1, <3>2
    <2> QED BY <2>1, <2>2, <2>3 DEF Agreed, Promise!Settled, Promise!Answered
  <1>4. Exchanged => \A r \in Requests : Promise!Answered(r) => Promise!Deserved(ask[r], response[r].status)
    BY DEF Exchanged, Agreed
  <1> QED BY <1>1, <1>2, <1>3, <1>4, PTL DEF ExchangeSpec, Promise!ExchangeSpec, Phase
=============================================================================
