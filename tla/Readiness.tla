------------------------------ MODULE Readiness ------------------------------
(***************************************************************************)
(* readiness.py: one /ready call runs every probe at once, each under its  *)
(* own timeout and all under one deadline, over dependencies that answer,  *)
(* fail, hang and recover while it runs.  A plain probe hangs in a thread, *)
(* which is left behind when its time is over.                             *)
(***************************************************************************)
EXTENDS Integers

CONSTANTS
  Checks,  \* the checks a service passes to build_ops_router
  Name     \* ReadinessCheck.name of each

\* The report has one verdict per name: checks that shared one would hide each other.
ASSUME NameAssumption ==
  /\ Name = [c \in Checks |-> Name[c]]
  /\ \A c, d \in Checks : Name[c] = Name[d] => c = d

VARIABLES
  wedged,    \* the checks whose dependency does not answer at all, now
  running,   \* the probes the call under way waits for
  results,   \* evaluate_readiness: the verdict by name
  report,    \* what the last call reported, "none" while one is under way
  answered   \* history: the checks that answered well in this call

readyVars == <<wedged, running, results, report, answered>>

Verdicts == {"ok", "skipped", "unavailable", "timeout"}
Names == {Name[c] : c \in Checks}
Good == {"ok", "skipped"}

ReadyTyped ==
  /\ wedged \subseteq Checks /\ running \subseteq Checks /\ answered \subseteq Checks
  /\ results \in [Names -> Verdicts]
  /\ report \in {"none", "ready", "not_ready"}

\* A bug the code does not have: a verdict is only there once its probe gave it.
EvaluateFromNothing ==
  /\ report # "none" /\ report' = "none"
  /\ results' = [n \in Names |-> "skipped"]
  /\ running' = Checks /\ answered' = {}
  /\ UNCHANGED wedged

Evaluate ==
  /\ report # "none" /\ report' = "none"
  /\ results' = [n \in Names |-> "timeout"]
  /\ running' = Checks /\ answered' = {}
  /\ UNCHANGED wedged

\* A probe that answers in time, or raises: a driver's own TimeoutError too.
Answer(c, v) ==
  /\ c \in running \ wedged
  /\ running' = running \ {c}
  /\ results' = [results EXCEPT ![Name[c]] = v]
  /\ answered' = IF v \in Good THEN answered \cup {c} ELSE answered
  /\ UNCHANGED <<wedged, report>>

\* A bug the code does not have: a thread is waited for, whatever the timeout.
WaitForThread(c) == c \notin wedged
MayAbandon(c) == c \in Checks

\* The timeout of one check.
ProbeTimeout(c) ==
  /\ c \in running /\ MayAbandon(c)
  /\ running' = running \ {c}
  /\ results' = [results EXCEPT ![Name[c]] = "timeout"]
  /\ UNCHANGED <<wedged, report, answered>>

\* The deadline of the call: the probes still running are cancelled.
Deadline ==
  /\ running # {} /\ \A c \in running : MayAbandon(c)
  /\ running' = {}
  /\ UNCHANGED <<wedged, results, report, answered>>

Report ==
  /\ report = "none" /\ running = {}
  /\ report' = IF \A n \in Names : results[n] \in Good THEN "ready" ELSE "not_ready"
  /\ UNCHANGED <<wedged, running, results, answered>>

\* A dependency hangs, or comes back: probes left behind end without any effect.
Wedge(c) == wedged' = wedged \cup {c} /\ UNCHANGED <<running, results, report, answered>>
Recover(c) == wedged' = wedged \ {c} /\ UNCHANGED <<running, results, report, answered>>

\* The process of the call ends; the next one has reported nothing yet.
Forget ==
  /\ running' = {} /\ report' = "not_ready" /\ answered' = {}
  /\ results' = [n \in Names |-> "timeout"]
  /\ UNCHANGED wedged

ReadyInit ==
  /\ wedged = {} /\ running = {} /\ answered = {}
  /\ results = [n \in Names |-> "timeout"] /\ report = "not_ready"

Probe ==
  \/ Evaluate \/ Deadline \/ Report
  \/ \E c \in Checks : ProbeTimeout(c) \/ Wedge(c) \/ Recover(c) \/ \E v \in Verdicts : Answer(c, v)

\* The calls of a service and of the processes that follow it, one after the other.
ReadyNext == Probe \/ Forget
ReadySpec == ReadyInit /\ [][ReadyNext]_readyVars

-----------------------------------------------------------------------------
\* Ready means that every check of this very call answered, and answered well; not
\* ready, that one did not: no verdict is missing, left over or of another check.
ReadyMeansReady ==
  /\ report = "ready" => answered = Checks
  /\ report = "not_ready" /\ Checks # {} => answered # Checks

\* /ready answers, however long a dependency hangs.
EveryReadyAnswers == report = "none" ~> report # "none"

\* Why: a call under way always has a step that the event loop takes by itself, the
\* deadline or the report; that step brings its end nearer, and no other step, of a
\* dependency or of a probe's late thread, moves it away.
StepsToReport == IF report # "none" THEN 0 ELSE IF running = {} THEN 1 ELSE 2
ReadyAdvances ==
  [][report = "none" =>
       /\ running = {} \/ \A c \in running : MayAbandon(c)
       /\ StepsToReport' <= StepsToReport
       /\ Deadline \/ Report => StepsToReport' < StepsToReport]_readyVars

\* Inductive: the verdicts are those of this call so far.
ReadyInv ==
  /\ ReadyTyped
  /\ report # "none" => running = {}
  /\ \A c \in Checks : c \in answered <=> results[Name[c]] \in Good
  /\ running \cap answered = {}
  /\ ReadyMeansReady
=============================================================================
