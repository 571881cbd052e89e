----------------------------- MODULE Deployment -----------------------------
(***************************************************************************)
(* Two services under way: a receiver and its caller, which share a schema *)
(* and a token.  A deploy runs the migrations and restarts the process,    *)
(* with the environment file as it is by then; processes also restart on   *)
(* their own.  A restart of the receiver ends the /ready call it is in.    *)
(***************************************************************************)
EXTENDS ServiceTokens, Readiness, Migrations

CONSTANTS Receiver, Caller
ASSUME ServiceAssumption == Services = {Receiver, Caller} /\ Receiver # Caller

vars == <<tokenVars, readyVars, migrationVars>>

Restart(s) ==
  \/ s = Receiver /\ RestartReceiver /\ Forget
  \/ s = Caller /\ RestartCaller /\ UNCHANGED readyVars

\* A deploy whose migrations fail leaves the old process running.
Deploy(s) ==
  \/ RunMigrations(s) /\ Restart(s)
  \/ FailMigrations(s) /\ UNCHANGED <<tokenVars, readyVars>>

Crash(s) == Restart(s) /\ UNCHANGED migrationVars

Init == TokensInit /\ ReadyInit /\ MigrationsInit

Next ==
  \/ \E s \in Services : Deploy(s) \/ Crash(s)
  \/ Rotate /\ UNCHANGED <<readyVars, migrationVars>>
  \/ Probe /\ UNCHANGED <<tokenVars, migrationVars>>
  \/ (\E s \in Services : Autogenerate(s)) /\ UNCHANGED <<tokenVars, readyVars>>

Spec == Init /\ [][Next]_vars

\* The event loop runs its timers and finishes a call; no dependency is assumed to
\* answer, nobody to rotate or deploy.
LiveSpec == Spec /\ WF_vars(Deadline /\ UNCHANGED <<tokenVars, migrationVars>>)
                 /\ WF_vars(Report /\ UNCHANGED <<tokenVars, migrationVars>>)

IInv == TokensInv /\ ReadyInv /\ MigrationsInv
=============================================================================
