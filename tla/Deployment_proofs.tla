-------------------------- MODULE Deployment_proofs --------------------------
(* Theorems about Deployment, for any tokens, checks, services and releases. *)
EXTENDS Deployment, TLAPS

-----------------------------------------------------------------------------
(* Tokens *)

LEMMA TokensRotate ==
  ASSUME TokensInv, Rotate
  PROVE  TokensInv'
  <1> USE TokenAssumption DEF TokensInv, Environments, Digests, Digest, Accepted
  <1>1. CASE RemoveOld
    BY <1>1 DEF RemoveOld, Edit
  <1>2. ASSUME NEW t \in Tokens, AddNew(t) PROVE TokensInv'
    BY <1>2 DEF AddNew, Edit
  <1>3. ASSUME NEW t \in Tokens, GiveNew(t) PROVE TokensInv'
    BY <1>3 DEF GiveNew
  <1>4. ASSUME NEW t \in Tokens, MoveToDigest(t) PROVE TokensInv'
    BY <1>4 DEF MoveToDigest, Edit
  <1> QED BY <1>1, <1>2, <1>3, <1>4 DEF Rotate

\* A restart of either process, at any point of the rotation.
LEMMA TokensRestart ==
  ASSUME TokensInv, RestartReceiver \/ RestartCaller \/ UNCHANGED tokenVars
  PROVE  TokensInv'
  BY DEF TokensInv, RestartReceiver, RestartCaller, tokenVars, Accepted

LEMMA TokensSafe ==
  ASSUME TokensInv
  PROVE  RotationSafe
  <1> USE TokenAssumption DEF TokensInv, Environments, Digests, Digest
  <1>1. RequireService(live, presented)
    BY DEF RequireService, ServiceCredentials, Accepted
  <1>2. ASSUME NEW x \in Digests \cup {Empty} PROVE ~RequireService(live, x)
    BY DEF RequireService, ServiceCredentials
  <1> QED BY <1>1, <1>2 DEF RotationSafe

\* Nothing that is retired, mistyped or empty gets in: in either form, and in both at
\* once, exactly the tokens that an environment lists are accepted.
THEOREM OnlyTheListed ==
  ASSUME NEW env \in Environments, NEW x \in Tokens \cup Digests \cup {Empty}
  PROVE  RequireService(env, x) <=> x \in Accepted(env)
  <1> USE TokenAssumption DEF Environments, Digests, Digest
  <1>1. CASE x \in Tokens
    BY <1>1 DEF RequireService, ServiceCredentials, Accepted
  <1>2. CASE x \in Digests \cup {Empty}
    BY <1>2 DEF RequireService, ServiceCredentials, Accepted
  <1> QED BY <1>1, <1>2

\* The inductive invariant of a rotation.
THEOREM TokensInvariance == TokensSpec => []TokensInv
  <1>1. TokensInit => TokensInv
    BY TokenAssumption DEF TokensInit, TokensInv, Environments, Accepted, Digests, Digest
  <1>2. TokensInv /\ [TokensNext]_tokenVars => TokensInv'
    BY TokensRotate, TokensRestart DEF TokensNext
  <1> QED BY <1>1, <1>2, PTL DEF TokensSpec

-----------------------------------------------------------------------------
(* Readiness *)

LEMMA ReadyProbe ==
  ASSUME ReadyInv, Probe
  PROVE  ReadyInv'
  <1> USE NameAssumption DEF ReadyInv, ReadyTyped, Names, Verdicts, Good, ReadyMeansReady
  <1>1. CASE Evaluate
    BY <1>1 DEF Evaluate
  <1>2. CASE Deadline
    BY <1>2 DEF Deadline
  <1>3. CASE Report
    BY <1>3 DEF Report
  <1>4. ASSUME NEW c \in Checks, ProbeTimeout(c) PROVE ReadyInv'
    BY <1>4 DEF ProbeTimeout
  <1>5. ASSUME NEW c \in Checks, Wedge(c) \/ Recover(c) PROVE ReadyInv'
    BY <1>5 DEF Wedge, Recover
  <1>6. ASSUME NEW c \in Checks, NEW v \in Verdicts, Answer(c, v) PROVE ReadyInv'
    <2>1. /\ Name[c] \in Names /\ results' = [results EXCEPT ![Name[c]] = v]
          /\ c \in running /\ running' = running \ {c} /\ report' = report /\ wedged' = wedged
          /\ answered' = IF v \in Good THEN answered \cup {c} ELSE answered
      BY <1>6 DEF Answer
    <2>2. \A d \in Checks : results'[Name[d]] = IF d = c THEN v ELSE results[Name[d]]
      BY <2>1
    <2>3. ReadyTyped'
      BY <2>1
    <2>4. \A d \in Checks : d \in answered' <=> results'[Name[d]] \in Good
      BY <2>1, <2>2
    <2> QED BY <2>1, <2>3, <2>4
  <1> HIDE DEF ReadyInv, ReadyTyped, Names, Verdicts, Good, ReadyMeansReady
  <1> QED BY <1>1, <1>2, <1>3, <1>4, <1>5, <1>6 DEF Probe

LEMMA ReadyKept ==
  ASSUME ReadyInv, Forget \/ UNCHANGED readyVars
  PROVE  ReadyInv'
  BY NameAssumption DEF ReadyInv, ReadyTyped, Names, Verdicts, Good, ReadyMeansReady, Forget, readyVars

\* The inductive invariant of the calls of /ready.
THEOREM ReadyInvariance == ReadySpec => []ReadyInv
  <1>1. ReadyInit => ReadyInv
    BY NameAssumption DEF ReadyInit, ReadyInv, ReadyTyped, Names, Verdicts, Good, ReadyMeansReady
  <1>2. ReadyInv /\ [ReadyNext]_readyVars => ReadyInv'
    BY ReadyProbe, ReadyKept DEF ReadyNext
  <1> QED BY <1>1, <1>2, PTL DEF ReadySpec

LEMMA ReadyStepAdvances ==
  ASSUME ReadyInv, ReadyNext, report = "none"
  PROVE  /\ running = {} \/ \A c \in running : MayAbandon(c)
         /\ StepsToReport' <= StepsToReport
         /\ Deadline \/ Report => StepsToReport' < StepsToReport
  <1> USE DEF StepsToReport
  <1>1. \A c \in running : MayAbandon(c)
    BY DEF ReadyInv, ReadyTyped, MayAbandon
  <1>2. Deadline \/ Report => StepsToReport' < StepsToReport
    BY DEF Deadline, Report
  <1>3. StepsToReport' <= StepsToReport
    <2>1. CASE Forget
      BY <2>1 DEF Forget
    <2>2. ASSUME NEW c \in Checks, ProbeTimeout(c) \/ (\E v \in Verdicts : Answer(c, v))
          PROVE  StepsToReport' <= StepsToReport
      BY <2>2 DEF ProbeTimeout, Answer
    <2>3. ASSUME NEW c \in Checks, Wedge(c) \/ Recover(c)
          PROVE  StepsToReport' <= StepsToReport
      BY <2>3 DEF Wedge, Recover
    <2>4. CASE Evaluate
      BY <2>4 DEF Evaluate
    <2> QED BY <1>2, <2>1, <2>2, <2>3, <2>4 DEF ReadyNext, Probe
  <1> QED BY <1>1, <1>2, <1>3

-----------------------------------------------------------------------------
(* Migrations *)

LEMMA AutogenerateInv ==
  ASSUME MigrationsInv, NEW s \in Services, Autogenerate(s)
  PROVE  MigrationsInv' /\ tables' = tables
  <1> USE MigrationAssumption DEF MigrationsInv, MigrationsTyped, Revisions
  <1> DEFINE declared == Declares[s][release[s] + 1]
             new == [creates |-> declared \ Reflected(s), drops |-> Reflected(s) \ declared]
  <1> USE DEF TablesThere
  <1>1. release[s] + 1 \in 1..Releases /\ release[s] < Releases
    BY DEF Autogenerate
  <1>2. declared \subseteq Tables
    BY <1>1
  <1>3. Reflected(s) \ declared = {}
    BY DEF Reflected, IncludeName
  <1>4. new \in Revisions /\ new.drops = {} /\ declared \subseteq tables \cup new.creates
    BY <1>2, <1>3 DEF Reflected
  <1>5. revision' = [revision EXCEPT ![s] = new] /\ tables' = tables /\ release' = release
    BY DEF Autogenerate
  <1> HIDE DEF new
  <1> QED BY <1>1, <1>4, <1>5

LEMMA MigrateInv ==
  ASSUME MigrationsInv, NEW s \in Services, RunMigrations(s) \/ FailMigrations(s)
  PROVE  MigrationsInv' /\ tables \subseteq tables'
  <1> USE MigrationAssumption DEF MigrationsInv, MigrationsTyped
  <1>1. CASE RunMigrations(s)
    <2>1. /\ revision[s] \in Revisions /\ revision[s].drops = {} /\ release[s] < Releases
          /\ Declares[s][release[s] + 1] \subseteq tables \cup revision[s].creates
      BY <1>1 DEF RunMigrations
    <2>2. revision[s].creates \subseteq Tables
      BY <2>1 DEF Revisions
    <2>3. release[s] + 1 \in 0..Releases
      BY <2>1
    <2>4. tables' = tables \cup revision[s].creates \cup {VersionTable[s]}
      BY <1>1, <2>1 DEF RunMigrations
    <2>5. /\ release' = [release EXCEPT ![s] = @ + 1] /\ revision' = [revision EXCEPT ![s] = <<>>]
          /\ release[s] \in Nat
      BY <1>1 DEF RunMigrations
    <2>6. MigrationsTyped'
      BY <2>2, <2>3, <2>4, <2>5
    <2>7. TablesThere'
      BY <2>1, <2>4, <2>5 DEF TablesThere
    <2>8. ASSUME NEW u \in Services, revision'[u] # <<>>
          PROVE  /\ release'[u] < Releases /\ revision'[u].drops = {}
                 /\ Declares[u][release'[u] + 1] \subseteq tables' \cup revision'[u].creates
      <3>1. u # s
        BY <2>5, <2>8
      <3>2. release'[u] = release[u] /\ revision'[u] = revision[u]
        BY <2>5, <3>1
      <3> QED BY <2>4, <2>8, <3>2
    <2> QED BY <2>4, <2>6, <2>7, <2>8
  <1>2. CASE FailMigrations(s)
    BY <1>2 DEF FailMigrations, TablesThere
  <1> QED BY <1>1, <1>2

LEMMA MigrationsStep ==
  ASSUME MigrationsInv, [MigrationsNext]_migrationVars
  PROVE  MigrationsInv' /\ tables \subseteq tables'
  <1>1. CASE UNCHANGED migrationVars
    BY <1>1 DEF migrationVars, MigrationsInv, MigrationsTyped, TablesThere
  <1> QED BY <1>1, AutogenerateInv, MigrateInv DEF MigrationsNext

\* The inductive invariant of revisions and releases.
THEOREM MigrationsInvariance == MigrationsSpec => []MigrationsInv
  <1>1. MigrationsInit => MigrationsInv
    BY MigrationAssumption DEF MigrationsInit, MigrationsInv, MigrationsTyped, TablesThere
  <1>2. MigrationsInv /\ [MigrationsNext]_migrationVars => MigrationsInv'
    BY MigrationsStep
  <1> QED BY <1>1, <1>2, PTL DEF MigrationsSpec

-----------------------------------------------------------------------------
(* The parts together *)

\* Deploys, crashes and restarts move several parts in one step; even so each part
\* goes on as it would alone, and what is proved of it alone holds of the whole.
THEOREM PartsTheorem == Spec => TokensSpec /\ ReadySpec /\ MigrationsSpec
  <1>1. Init => TokensInit /\ ReadyInit /\ MigrationsInit
    BY DEF Init
  <1>2. ASSUME [Next]_vars
        PROVE  [TokensNext]_tokenVars /\ [ReadyNext]_readyVars /\ [MigrationsNext]_migrationVars
    <2>1. ASSUME NEW s \in Services, Restart(s)
          PROVE  TokensNext /\ [ReadyNext]_readyVars
      BY <2>1 DEF Restart, TokensNext, ReadyNext
    <2>2. ASSUME NEW s \in Services, Deploy(s)
          PROVE  [TokensNext]_tokenVars /\ [ReadyNext]_readyVars /\ MigrationsNext
      BY <2>1, <2>2 DEF Deploy, MigrationsNext
    <2>3. ASSUME NEW s \in Services, Crash(s)
          PROVE  TokensNext /\ [ReadyNext]_readyVars /\ UNCHANGED migrationVars
      BY <2>1, <2>3 DEF Crash
    <2>4. CASE Rotate /\ UNCHANGED <<readyVars, migrationVars>>
      BY <2>4 DEF TokensNext
    <2>5. CASE Probe /\ UNCHANGED <<tokenVars, migrationVars>>
      BY <2>5 DEF ReadyNext
    <2>6. CASE (\E s \in Services : Autogenerate(s)) /\ UNCHANGED <<tokenVars, readyVars>>
      BY <2>6 DEF MigrationsNext
    <2>7. CASE UNCHANGED vars
      BY <2>7 DEF vars
    <2> QED BY <1>2, <2>2, <2>3, <2>4, <2>5, <2>6, <2>7 DEF Next
  <1> QED BY <1>1, <1>2, PTL DEF Spec, TokensSpec, ReadySpec, MigrationsSpec

\* The inductive invariant of tokens, /ready calls and revisions.
THEOREM Invariance == Spec => []IInv
  BY PartsTheorem, TokensInvariance, ReadyInvariance, MigrationsInvariance, PTL DEF IInv

\* Rotations in three steps, mixed with moves to the digest form and restarts in any
\* order, never leave a live caller refused, and no digest or empty token opens.
THEOREM RotationTheorem == Spec => []RotationSafe
  <1>1. TokensInv => RotationSafe
    BY TokensSafe
  <1> QED BY <1>1, PartsTheorem, TokensInvariance, PTL

\* Ready is reported exactly when every check of the call answered well.
THEOREM ReadyTheorem == Spec => []ReadyMeansReady
  <1>1. ReadyInv => ReadyMeansReady
    BY DEF ReadyInv
  <1> QED BY <1>1, PartsTheorem, ReadyInvariance, PTL

\* A call of /ready always has a step that needs nobody's answer and brings its end
\* nearer, and nothing moves the end away, wedged dependencies and restarts included.
THEOREM ReadyAdvancesTheorem == Spec => ReadyAdvances
  <1>1. ReadyInv /\ [ReadyNext]_readyVars =>
          [report = "none" =>
             /\ running = {} \/ \A c \in running : MayAbandon(c)
             /\ StepsToReport' <= StepsToReport
             /\ Deadline \/ Report => StepsToReport' < StepsToReport]_readyVars
    BY ReadyStepAdvances
  <1> QED BY <1>1, PartsTheorem, ReadyInvariance, PTL DEF ReadySpec, ReadyAdvances

\* No deploy drops a table, and a deployed release has those it declares, whatever the
\* services declare, release by release, and in whatever order they are deployed.
THEOREM TablesTheorem == Spec => TablesKept
  <1>1. MigrationsInv /\ [MigrationsNext]_migrationVars => [tables \subseteq tables']_migrationVars
    BY MigrationsStep
  <1>2. MigrationsInv => TablesThere
    BY DEF MigrationsInv
  <1> QED BY <1>1, <1>2, PartsTheorem, MigrationsInvariance, PTL DEF MigrationsSpec, TablesKept
=============================================================================
