--------------------------- MODULE TracedRequests ---------------------------
(***************************************************************************)
(* The life of a request in a service: TracingMiddleware and the context   *)
(* of tracing.py, the dependencies of auth.py and features.py, the error   *)
(* envelope of errors.py and the header _traced_headers puts on outbound   *)
(* calls.  Jobs carry a trace over a queue; they run on a worker, or in a  *)
(* request's own task (a background task), inside the request's context.   *)
(***************************************************************************)
EXTENDS Integers, Sequences

CONSTANTS
  Requests, Jobs,
  Workers,   \* tasks outside any request: a job runner, a scheduled run
  None,
  Asks,      \* what requests come with: [route, credential, featureOff, quiet]
  MaxDepth   \* bound: contexts open at once in one task

\* A request runs in a task of its own, which has its own context variables.
Tasks == Requests \cup Workers

\* A trace is named after whoever started it, a request id after its request.
Traces == Requests \cup Jobs \cup Workers
Context == [trace : Traces, rid : Requests \cup {None}]
NoContext == [trace |-> None, rid |-> None]

\* Bearer tokens: not a token, another algorithm, one jwt.decode refuses, and good
\* ones without and with the capability.  quiet: a path of _UNLOGGED_PATHS.
Credentials == {"none", "junk", "alg", "refused", "user", "entitled"}

ASSUME RequestAssumption ==
  /\ None \notin Traces /\ MaxDepth \in Nat
  /\ Requests \cap Jobs = {} /\ Requests \cap Workers = {} /\ Jobs \cap Workers = {}
  /\ Asks \subseteq [route : {"open", "bearer", "capability", "optional"},
                     credential : Credentials, featureOff : BOOLEAN, quiet : BOOLEAN]

VARIABLES
  pc,        \* per request: where its ASGI call is
  ask,       \* per request: what it came with (<<>> before)
  scope,     \* per request: scope[SCOPE_KEY], also the middleware's ctx
  status,    \* per request: the middleware's status, 0 for None
  response,  \* per request: status, trace headers and envelope the client got
  lines,     \* per request: its request_completed lines
  current,   \* per task: the context variable _current
  stack,     \* per task: the contexts open, [of, token], innermost last
  fields,    \* per task: structlog's context variables
  carrier,   \* per job: what trace_carrier put on its record
  wire,      \* outbound calls: the trace in their header, and the root
  root,      \* per request and job: whose arrival began the work it is part of
  origin,    \* per request and job: the request that it is, or was enqueued by
  closed     \* per task: the last change of its context closed a nested one

requestVars == <<pc, ask, scope, status, response, lines>>
contextVars == <<current, stack, fields, closed>>
queueVars == <<carrier, wire, root, origin>>
vars == <<requestVars, contextVars, queueVars>>

\* wire, root, origin and closed are history but for the headers in wire.
NoResponse == [status |-> 0, header |-> NoContext, body |-> NoContext]
NoFields == [trace |-> None, rid |-> None, user |-> None]

Contexts == Context \cup {NoContext}
Owners == Requests \cup Jobs
Open == [of : Owners, token : Contexts]
Fields == [trace : Traces \cup {None}, rid : Requests \cup {None}, user : Requests \cup {None}]
Line == [status : Nat, trace : Traces \cup {None}]

RequestsTyped ==
  /\ pc \in [Requests -> {"new", "arrived", "keys", "handler", "answered", "failed", "done"}]
  /\ ask \in [Requests -> Asks \cup {<<>>}]
  /\ \A r \in Requests : (pc[r] # "new") => ask[r] \in Asks
  /\ scope \in [Requests -> Contexts]
  /\ status \in [Requests -> Nat]
  /\ response \in [Requests -> [status : Nat, header : Contexts, body : Contexts]]
  /\ lines \in [Requests -> Seq(Line)]

ContextsTyped ==
  /\ current \in [Tasks -> Contexts]
  /\ stack \in [Tasks -> Seq(Open)]
  /\ fields \in [Tasks -> Fields]
  /\ closed \in [Tasks -> BOOLEAN]

QueueTyped ==
  /\ carrier \in [Jobs -> Contexts]
  /\ wire \subseteq [trace : Traces, root : Traces]
  /\ root \in [Owners -> Traces]
  /\ origin \in [Owners -> Requests \cup {None}]

TypeOK == RequestsTyped /\ ContextsTyped /\ QueueTyped

-----------------------------------------------------------------------------
(* tracing.py: contexts *)

Top(t) == stack[t][Len(stack[t])]

\* A parent that is missing or unusable starts a trace.
NewTraceContext(parent, rid, starter) ==
  [trace |-> IF parent # None THEN parent ELSE starter, rid |-> rid]

\* A context without a request id leaves the field that is bound.
Bound(f, ctx) ==
  [trace |-> ctx.trace, rid |-> IF ctx.rid # None THEN ctx.rid ELSE f.rid, user |-> f.user]

BindContext(t, owner, ctx) ==
  /\ stack' = [stack EXCEPT ![t] = Append(@, [of |-> owner, token |-> current[t]])]
  /\ current' = [current EXCEPT ![t] = ctx]
  /\ fields' = [fields EXCEPT ![t] = Bound(@, ctx)]
  /\ closed' = [closed EXCEPT ![t] = FALSE]

Pop(t) == stack' = [stack EXCEPT ![t] = SubSeq(@, 1, Len(@) - 1)]
Closed(t) == closed' = [closed EXCEPT ![t] = Len(stack[t]) > 1]
Unbind(t) == fields' = [fields EXCEPT ![t] = [NoFields EXCEPT !.user = fields[t].user]]

\* Bugs the code does not have: the variable is cleared rather than given back what
\* it held, or the log fields stay as they were.
ResetToNone(t) ==
  Pop(t) /\ Closed(t) /\ Unbind(t) /\ current' = [current EXCEPT ![t] = NoContext]
ResetKeepingFields(t) ==
  Pop(t) /\ Closed(t) /\ UNCHANGED fields /\ current' = [current EXCEPT ![t] = Top(t).token]

ResetContext(t) ==
  Pop(t) /\ Closed(t) /\ Unbind(t) /\ current' = [current EXCEPT ![t] = Top(t).token]

\* A bug the code does not have: the context variable, which is reset by then.
ContextFromVariable(r) == current[r]
ContextFromScope(r) == scope[r]

\* Application code that may log, call, enqueue and run jobs.
Running(t) == t \in Workers \/ (t \in Requests /\ pc[t] = "handler")
OnStack(x) == \E t \in Tasks : \E i \in 1..Len(stack[t]) : stack[t][i].of = x
RootOf(t) == IF stack[t] = <<>> THEN t ELSE root[Top(t).of]

\* _traced_headers: the current trace; outside any context a fresh one for every
\* attempt, never bound and named after the task.
TracedHeaders(t) == IF current[t] # NoContext THEN current[t].trace ELSE t

Call(t) ==
  /\ Running(t)
  /\ wire' = wire \cup {[trace |-> TracedHeaders(t), root |-> RootOf(t)]}
  /\ UNCHANGED <<requestVars, contextVars, carrier, root, origin>>

\* A job is enqueued by a task with an open context; one that never is has no carrier.
Enqueue(t, j) ==
  /\ Running(t) /\ stack[t] # <<>> /\ carrier[j] = NoContext /\ ~OnStack(j)
  /\ carrier' = [carrier EXCEPT ![j] = current[t]]
  /\ root' = [root EXCEPT ![j] = RootOf(t)]
  /\ origin' = [origin EXCEPT ![j] = origin[Top(t).of]]
  /\ UNCHANGED <<requestVars, contextVars, wire>>

\* restored_trace: a job may be delivered any number of times, long after its request.
RestoreTrace(t, j) ==
  /\ Running(t) /\ Len(stack[t]) < MaxDepth /\ \A i \in 1..Len(stack[t]) : stack[t][i].of # j
  /\ BindContext(t, j, NewTraceContext(carrier[j].trace, carrier[j].rid, j))
  /\ UNCHANGED <<requestVars, queueVars>>

\* The job returns or raises; an exception of it closes its context on its way.
LeaveJob(t) ==
  /\ Running(t) /\ Len(stack[t]) > (IF t \in Requests THEN 1 ELSE 0)
  /\ ResetContext(t)
  /\ UNCHANGED <<requestVars, queueVars>>

-----------------------------------------------------------------------------
(* TracingMiddleware, up to the application *)

\* The edge sends a trace of its own for r or no usable header; a service sends what
\* is on the wire: a call's attempts all carry it, and may arrive late.
Headers(r) == {[trace |-> None, root |-> r], [trace |-> r, root |-> r]} \cup wire

Arrive(r) ==
  /\ pc[r] = "new"
  /\ \E h \in Headers(r) :
       LET ctx == NewTraceContext(h.trace, r, r)
       IN  /\ scope' = [scope EXCEPT ![r] = ctx]
           /\ BindContext(r, r, ctx)
           /\ root' = [root EXCEPT ![r] = h.root]
           /\ origin' = [origin EXCEPT ![r] = r]
  /\ ask' \in {[ask EXCEPT ![r] = a] : a \in Asks}
  /\ pc' = [pc EXCEPT ![r] = "arrived"]
  /\ UNCHANGED <<status, response, lines, carrier, wire>>

Goto(r, l) == pc' = [pc EXCEPT ![r] = l]

\* send_with_trace; an envelope's own headers are overwritten by these.
SendWithTrace(r, s, body) ==
  /\ status' = [status EXCEPT ![r] = s]
  /\ response' = [response EXCEPT ![r] = [status |-> s, header |-> scope[r], body |-> body]]

-----------------------------------------------------------------------------
(* Dependencies, and what an HTTPException becomes *)

\* ExceptionMiddleware calls _http_error or _validation_error.
HttpError(r, s) ==
  /\ SendWithTrace(r, s, ContextFromScope(r))
  /\ Goto(r, "answered")
  /\ UNCHANGED <<ask, scope, lines, contextVars, queueVars>>

Admit(r, l) ==
  /\ Goto(r, l)
  /\ UNCHANGED <<ask, scope, status, response, lines, contextVars, queueVars>>

\* require_feature, with FEATURES_OFF as it is at this request.
FeatureEnabled(r) == ~ask[r].featureOff

\* require_feature, then bearer_principal, require_capability or optional_principal
\* up to the await of keys.get.
Authenticate(r) ==
  /\ pc[r] = "arrived"
  /\ LET a == ask[r] IN
     \/ ~FeatureEnabled(r) /\ HttpError(r, 404)
     \/ /\ FeatureEnabled(r)
        /\ \/ a.route = "open" \/ (a.route = "optional" /\ a.credential = "none")
        /\ Admit(r, "handler")
     \/ /\ FeatureEnabled(r) /\ a.route \in {"bearer", "capability"} /\ a.credential = "none"
        /\ HttpError(r, 401)
     \/ /\ FeatureEnabled(r) /\ a.route # "open" /\ a.credential \in {"junk", "alg"}
        /\ HttpError(r, 401)
     \/ /\ FeatureEnabled(r) /\ a.route # "open" /\ a.credential \in {"refused", "user", "entitled"}
        /\ Admit(r, "keys")

\* keys.get did not raise and jwt.decode accepts: the user id goes on the log lines.
BindUser(r) ==
  /\ fields' = [fields EXCEPT ![r].user = r]
  /\ UNCHANGED <<current, stack, closed>>

Accept(r) ==
  /\ ask[r].credential \in {"user", "entitled"}
  /\ BindUser(r)
  /\ IF ask[r].route = "capability" /\ ask[r].credential # "entitled"
     THEN SendWithTrace(r, 403, ContextFromScope(r)) /\ Goto(r, "answered")
     ELSE Goto(r, "handler") /\ UNCHANGED <<status, response>>
  /\ UNCHANGED <<ask, scope, lines, queueVars>>

\* A bug the code does not have: who cannot be verified is served as a visitor.
VerifyOrVisitor(r) ==
  /\ pc[r] = "keys"
  /\ \/ Accept(r)
     \/ IF ask[r].route = "optional" THEN Admit(r, "handler") ELSE HttpError(r, 401)

\* Any failure of keys.get is a 401, like any refusal of jwt.decode.
Verify(r) ==
  /\ pc[r] = "keys"
  /\ Accept(r) \/ HttpError(r, 401)

-----------------------------------------------------------------------------
(* The endpoint, and the ways out of the middleware *)

\* A stream or background tasks may follow the start of the response.
Respond(r) ==
  /\ pc[r] = "handler" /\ status[r] = 0
  /\ SendWithTrace(r, 200, NoContext)
  /\ UNCHANGED <<pc, ask, scope, lines, contextVars, queueVars>>

Innermost(r) == Len(stack[r]) = 1

LogCompleted(r, s) ==
  lines' = IF ask[r].quiet THEN lines
           ELSE [lines EXCEPT ![r] = Append(@, [status |-> s, trace |-> fields[r].trace])]

\* The application returned: through ExceptionMiddleware, or by itself.
Complete(r) ==
  /\ pc[r] = "answered" \/ (pc[r] = "handler" /\ status[r] # 0)
  /\ Innermost(r)
  /\ LogCompleted(r, status[r]) /\ ResetContext(r) /\ Goto(r, "done")
  /\ UNCHANGED <<ask, scope, status, response, queueVars>>

\* The endpoint raises an HTTPException before the response has begun; after that
\* ExceptionMiddleware raises a RuntimeError, which is RaiseUnhandled.
RaiseHttp(r) ==
  /\ pc[r] = "handler" /\ Innermost(r) /\ status[r] = 0
  /\ HttpError(r, 503)

\* A bug the code does not have: only what went through send is logged.
RaiseUnlogged(r) ==
  /\ pc[r] = "handler" /\ Innermost(r)
  /\ IF status[r] = 0 THEN UNCHANGED lines ELSE LogCompleted(r, status[r])
  /\ ResetContext(r) /\ Goto(r, "failed")
  /\ UNCHANGED <<ask, scope, status, response, queueVars>>

RaiseUnhandled(r) ==
  /\ pc[r] = "handler" /\ Innermost(r)
  /\ status' = [status EXCEPT ![r] = IF @ = 0 THEN 500 ELSE @]
  /\ LogCompleted(r, status'[r])
  /\ ResetContext(r) /\ Goto(r, "failed")
  /\ UNCHANGED <<ask, scope, response, queueVars>>

\* ServerErrorMiddleware, outside: _unhandled, whose response is sent if none began.
ServerError(r) ==
  /\ pc[r] = "failed"
  /\ LET ctx == ContextFromScope(r) IN
       response' = IF response[r].status # 0 THEN response
                   ELSE [response EXCEPT ![r] = [status |-> 500, header |-> ctx, body |-> ctx]]
  /\ Goto(r, "done")
  /\ UNCHANGED <<ask, scope, status, lines, contextVars, queueVars>>

\* Cancellation is no Exception: it is logged only if a response had begun.
Cancel(r) ==
  /\ pc[r] \in {"arrived", "keys", "handler", "answered"} /\ Innermost(r)
  /\ IF status[r] = 0 THEN UNCHANGED lines ELSE LogCompleted(r, status[r])
  /\ ResetContext(r) /\ Goto(r, "done")
  /\ UNCHANGED <<ask, scope, status, response, queueVars>>

CancelOutside(r) ==
  /\ pc[r] = "failed" /\ Goto(r, "done")
  /\ UNCHANGED <<ask, scope, status, response, lines, contextVars, queueVars>>

Init ==
  /\ pc = [r \in Requests |-> "new"]
  /\ ask = [r \in Requests |-> <<>>]
  /\ scope = [r \in Requests |-> NoContext]
  /\ status = [r \in Requests |-> 0]
  /\ response = [r \in Requests |-> NoResponse]
  /\ lines = [r \in Requests |-> <<>>]
  /\ current = [t \in Tasks |-> NoContext]
  /\ stack = [t \in Tasks |-> <<>>]
  /\ fields = [t \in Tasks |-> NoFields]
  /\ carrier = [j \in Jobs |-> NoContext]
  /\ wire = {}
  /\ root = [x \in Owners |-> x]
  /\ origin = [x \in Owners |-> None]
  /\ closed = [t \in Tasks |-> FALSE]

Handle(r) ==
  \/ Arrive(r) \/ Authenticate(r) \/ Verify(r)
  \/ Respond(r) \/ Complete(r) \/ RaiseHttp(r) \/ RaiseUnhandled(r)
  \/ ServerError(r) \/ Cancel(r) \/ CancelOutside(r)

Work(t) ==
  \/ Call(t) \/ LeaveJob(t)
  \/ \E j \in Jobs : Enqueue(t, j) \/ RestoreTrace(t, j)

Next == (\E r \in Requests : Handle(r)) \/ (\E t \in Tasks : Work(t))

Spec == Init /\ [][Next]_vars

-----------------------------------------------------------------------------
(* Properties *)

Own(x) == [trace |-> root[x], rid |-> origin[x]]

\* Every response, success or error, handled inside or outside the middleware,
\* carries the reference of its own request: the trace of the work it is part of,
\* wherever that began, and its request id (FR-BE-12).
AnsweredUnderItsTrace ==
  \A r \in Requests : response[r].status # 0 =>
    /\ response[r].header = Own(r)
    /\ response[r].status >= 400 => response[r].body = Own(r)

\* What a client was answered is logged once, with the status the client saw;
\* what is logged without an answer is a 500 whose sender was cancelled.
LoggedAsAnswered ==
  \A r \in Requests :
    /\ Len(lines[r]) <= 1
    /\ pc[r] = "done" /\ ~ask[r].quiet /\ response[r].status # 0 =>
         Len(lines[r]) = 1 /\ lines[r][1].status = response[r].status
    /\ pc[r] = "done" /\ lines[r] # <<>> /\ response[r].status = 0 =>
         lines[r][1].status = 500

\* Over calls, queues, nested contexts, errors and cancellation: the current context
\* is that of the work at hand, and so is what is sent and enqueued; outside any
\* work there is none.
OneTrace ==
  /\ \A t \in Tasks :
       current[t] = IF stack[t] = <<>> THEN NoContext ELSE Own(Top(t).of)
  /\ \A h \in wire : h.trace = h.root
  /\ \A j \in Jobs : carrier[j] # NoContext => carrier[j] = Own(j)

\* The requests that the open contexts of a task belong to.
Around(t) == {origin[stack[t][i].of] : i \in 1..Len(stack[t])}

Attributed(t) ==
  IF stack[t] = <<>> THEN fields[t].trace = None /\ fields[t].rid = None
  ELSE LET x == Top(t).of IN
       /\ fields[t].trace = root[x] \/ (closed[t] /\ fields[t].trace = None)
       /\ IF origin[x] # None
          THEN fields[t].rid = origin[x] \/ (closed[t] /\ fields[t].rid = None)
          ELSE fields[t].rid \in Around(t) \cup {None}

\* What is logged is put down to the work at hand: bind_context and reset_context never
\* leave a line the trace of other work, or a request id of other work, unless the work
\* at hand has none and is done inside that of the request.  Only after a context nested
\* in it was closed may a line lack them (CompletionNamesTrace); outside any work it
\* has none.
LinesOfTheScope ==
  /\ \A t \in Tasks : Attributed(t)
  /\ \A r \in Requests : \A i \in 1..Len(lines[r]) : lines[r][i].trace \in {root[r], None}

\* TracingMiddleware says of its completion line that, written inside the context, it
\* carries the trace id; so each does, whatever ran in the request's task before.
CompletionNamesTrace ==
  \A r \in Requests : \A i \in 1..Len(lines[r]) : lines[r][i].trace = root[r]

\* The middleware, the handlers of errors and the dependencies together give every
\* request the exchange its caller is promised, whatever else runs in its context.
Promise == INSTANCE Exchange WITH
  phase <- [r \in Requests |-> CASE pc[r] = "new" -> "new" [] pc[r] = "done" -> "over" [] OTHER -> "open"],
  asked <- ask,
  trace <- [r \in Requests |-> scope[r].trace],
  reply <- response
ExchangeSpec == Promise!ExchangeSpec

Principal(r) ==
  pc[r] = "handler" =>
    /\ ~ask[r].featureOff
    /\ fields[r].user # None => ask[r].credential \in {"user", "entitled"}
    /\ fields[r].user = None =>
         ask[r].route = "open" \/ (ask[r].route = "optional" /\ ask[r].credential = "none")
    /\ ask[r].route = "capability" => ask[r].credential = "entitled"

\* The endpoint runs for a user only with a token that verified, for nobody only if
\* nobody was claimed or the route does not ask, and behind a capability only for
\* who has it: a credential that does not verify is never served as a visitor.
PrincipalIsPresented == \A r \in Requests : Principal(r)

-----------------------------------------------------------------------------
(* The inductive invariant *)

InMiddleware == {"arrived", "keys", "handler", "answered"}

\* What a task's open contexts are, and what each of them gives back when it closes.
Nested(t) ==
  /\ \A i \in 1..Len(stack[t]) :
       /\ stack[t][i].token = IF i = 1 THEN NoContext ELSE Own(stack[t][i - 1].of)
       /\ stack[t][i].of \in Requests => pc[stack[t][i].of] # "new"
  /\ current[t] = IF stack[t] = <<>> THEN NoContext ELSE Own(Top(t).of)
  /\ Attributed(t)

\* A job that no request enqueued starts a trace of its own.
Carried(j) ==
  IF carrier[j] = NoContext THEN Own(j) = [trace |-> j, rid |-> None]
  ELSE carrier[j] = Own(j)

\* A request's own context is its outermost one, and is the one stashed on the scope.
Stashed(r) ==
  /\ pc[r] \in InMiddleware => stack[r] # <<>> /\ stack[r][1].of = r
  /\ pc[r] \notin InMiddleware => stack[r] = <<>>
  /\ pc[r] # "new" => scope[r] = Own(r) /\ origin[r] = r

Answered(r) ==
  /\ pc[r] \in {"new", "arrived", "keys"} => status[r] = 0
  /\ pc[r] = "answered" => status[r] # 0
  /\ pc[r] \in InMiddleware \cup {"new"} => lines[r] = <<>> /\ response[r].status = status[r]
  /\ response[r].status # 0 => pc[r] # "new" /\ response[r].header = scope[r]
  /\ response[r].status >= 400 => response[r].body = scope[r]

Logged(r) ==
  /\ Len(lines[r]) <= 1
  /\ \A i \in 1..Len(lines[r]) : pc[r] # "new" /\ lines[r][i].trace \in {root[r], None}
  /\ pc[r] = "failed" /\ ~ask[r].quiet =>
       Len(lines[r]) = 1
       /\ lines[r][1].status = IF response[r].status = 0 THEN 500 ELSE response[r].status
  /\ pc[r] # "new" /\ ask[r].quiet => lines[r] = <<>>
  /\ pc[r] = "done" /\ ~ask[r].quiet /\ response[r].status # 0 =>
       Len(lines[r]) = 1 /\ lines[r][1].status = response[r].status
  /\ pc[r] = "done" /\ lines[r] # <<>> /\ response[r].status = 0 => lines[r][1].status = 500

\* Who the log fields say is asking, at each stage of the dependencies.
Asking(r) ==
  /\ pc[r] \in {"new", "arrived", "keys"} => fields[r].user = None
  /\ pc[r] = "keys" => ~ask[r].featureOff /\ ask[r].route # "open" /\ ask[r].credential # "none"

RequestInv(r) == Stashed(r) /\ Answered(r) /\ Logged(r) /\ Asking(r) /\ Principal(r)

IInv ==
  /\ TypeOK
  /\ \A t \in Tasks : Nested(t)
  /\ \A h \in wire : h.trace = h.root
  /\ \A j \in Jobs : Carried(j)
  /\ \A r \in Requests : RequestInv(r)
=============================================================================
