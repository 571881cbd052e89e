------------------------------ MODULE Exchange ------------------------------
(***************************************************************************)
(* What tracing.py, errors.py and auth.py promise of a request together:   *)
(* whoever asks gets one answer at most, one that follows from what was    *)
(* asked and names the request, and the service's one line about it agrees *)
(* with that answer, however the request ends.                             *)
(***************************************************************************)
EXTENDS Integers, Sequences

CONSTANTS
  Requests,
  Asks,     \* what requests come with: [route, credential, featureOff, quiet]
  Traces,
  None

VARIABLES
  phase,  \* per request: new, open, over
  asked,  \* per request: what it came with
  trace,  \* per request: the trace of the work it is part of
  reply,  \* per request: the answer it got
  lines   \* per request: the lines about it

NoReference == [trace |-> None, rid |-> None]
Reference(r) == [trace |-> trace[r], rid |-> r]
NoReply == [status |-> 0, header |-> NoReference, body |-> NoReference]

ExchangeInit ==
  /\ phase = [r \in Requests |-> "new"]
  /\ asked = [r \in Requests |-> <<>>]
  /\ trace = [r \in Requests |-> None]
  /\ reply = [r \in Requests |-> NoReply]
  /\ lines = [r \in Requests |-> <<>>]

\* Whoever may enter is let in to the endpoint, whose own errors are 500 and 503.
MayEnter(a) ==
  /\ ~a.featureOff
  /\ \/ a.route = "open" \/ (a.route = "optional" /\ a.credential = "none")
     \/ a.credential = "entitled"
     \/ a.credential = "user" /\ a.route # "capability"

\* A credential that is good may be refused all the same, while the keys are missing;
\* one that is not, never passes for none.
Deserved(a, s) ==
  \/ s = 404 /\ a.featureOff
  \/ s = 401 /\ ~a.featureOff /\ a.route # "open" /\ (a.route = "optional" => a.credential # "none")
  \/ s = 403 /\ ~a.featureOff /\ a.route = "capability" /\ a.credential = "user"
  \/ s \in {200, 500, 503} /\ MayEnter(a)

Arrive(r) ==
  /\ phase[r] = "new"
  /\ phase' = [phase EXCEPT ![r] = "open"]
  /\ \E a \in Asks : asked' = [asked EXCEPT ![r] = a]
  /\ \E t \in Traces : trace' = [trace EXCEPT ![r] = t]
  /\ UNCHANGED <<reply, lines>>

Answered(r) == reply[r].status # 0

Answer(r, s) ==
  /\ ~Answered(r) /\ Deserved(asked[r], s)
  /\ lines[r] # <<>> => lines[r][1].status = s
  /\ reply' = [reply EXCEPT ![r] =
       [status |-> s, header |-> Reference(r), body |-> IF s < 400 THEN NoReference ELSE Reference(r)]]
  /\ UNCHANGED lines

\* The line of a request without an answer, a 500, comes before the answer.  A line
\* may lack the trace, which is less than tracing.py says, but never has another's.
Log(r) ==
  /\ lines[r] = <<>> /\ ~asked[r].quiet /\ (~Answered(r) => MayEnter(asked[r]))
  /\ \E t \in {trace[r], None} :
       lines' = [lines EXCEPT ![r] =
         <<[status |-> IF Answered(r) THEN reply[r].status ELSE 500, trace |-> t]>>]
  /\ UNCHANGED reply

\* Who was answered is logged by the end.
Settled(r) == Answered(r) /\ ~asked[r].quiet => lines[r] # <<>>
End(r) == phase' = [phase EXCEPT ![r] = "over"] /\ Settled(r)'

Proceed(r) ==
  /\ phase[r] = "open"
  /\ UNCHANGED <<asked, trace>>
  /\ UNCHANGED <<reply, lines>> \/ Log(r) \/ \E s \in {200, 401, 403, 404, 500, 503} : Answer(r, s)
  /\ UNCHANGED phase \/ End(r)

ExchangeNext == \E r \in Requests : Arrive(r) \/ Proceed(r)

ExchangeSpec == ExchangeInit /\ [][ExchangeNext]_<<phase, asked, trace, reply, lines>>
=============================================================================
