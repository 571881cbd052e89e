----------------------------- MODULE RemoteCall -----------------------------
(***************************************************************************)
(* What http_client.py promises of a call to another service, whatever the *)
(* network does: how often the service carries it out, how it returns, and *)
(* what the way it returned says of the service.                           *)
(***************************************************************************)
EXTENDS Integers

CONSTANTS
  Calls,
  Attempts,
  Kinds,         \* what callers ask for
  Outcomes,      \* how a call may return, and "none"
  Repeatable(_)  \* whether calls of a kind may be carried out more than once

VARIABLES
  kind,     \* per call, what its caller asks for
  carried,  \* per call, the attempts that were carried out
  outcome   \* per call, how it returned

RemoteInit ==
  /\ kind \in [Calls -> Kinds]
  /\ carried = [c \in Calls |-> {}]
  /\ outcome = [c \in Calls |-> "none"]

\* A call is carried out while it is made or later; once it was carried out, or
\* its caller was told that the request is wrong, again only if it is repeatable.
CarryOut(c, n) ==
  /\ n \notin carried[c]
  /\ Repeatable(kind[c]) \/ (carried[c] = {} /\ outcome[c] # "wrong")
  /\ carried' = [carried EXCEPT ![c] = @ \cup {n}]
  /\ UNCHANGED <<kind, outcome>>

\* A call returns once.  It is answered "ok" only if it was carried out (a redirect,
\* "moved", tells nothing), and the caller hears of a spent budget only if it has no
\* fallback.
Return(c, o) ==
  /\ outcome[c] = "none" /\ o # "none"
  /\ o = "ok" => carried[c] # {}
  /\ o = "wrong" => Repeatable(kind[c]) \/ carried[c] = {}
  /\ o = "fallback" => kind[c].fallback
  /\ o \in {"raised", "busy"} => ~kind[c].fallback
  /\ outcome' = [outcome EXCEPT ![c] = o]
  /\ UNCHANGED <<kind, carried>>

RemoteNext ==
  \/ \E c \in Calls, n \in 1..Attempts : CarryOut(c, n)
  \/ \E c \in Calls, o \in Outcomes : Return(c, o)

RemoteSpec == RemoteInit /\ [][RemoteNext]_<<kind, carried, outcome>>
=============================================================================
