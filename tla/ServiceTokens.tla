---------------------------- MODULE ServiceTokens ----------------------------
(***************************************************************************)
(* Service authentication in auth.py (_service_credentials,                *)
(* require_service, service_call_headers) while a token shared by a caller *)
(* and a receiver is rotated, and moved from the plain to the digest form, *)
(* by edits of two environment files and restarts of two processes.        *)
(***************************************************************************)
CONSTANTS
  Tokens,  \* tokens of the caller
  Empty    \* what a trailing comma leaves in a variable

\* SHA-256 as an injection: what is hashed can be told from the hash.
Digest(x) == <<x>>
Digests == {Digest(t) : t \in Tokens}

ASSUME TokenAssumption == Empty \notin Tokens /\ Tokens \cap Digests = {} /\ Empty \notin Digests

VARIABLES
  file,       \* the receiver's environment file
  live,       \* the environment the receiver's process was started with
  given,      \* the token in the caller's environment file
  presented   \* the token the caller's process was started with

tokenVars == <<file, live, given, presented>>

\* plain: entries of MIB_SERVICE_TOKEN_<NAME>, digest: of MIB_SERVICE_TOKEN_SHA256_<NAME>.
Environments == [plain : SUBSET (Tokens \cup {Empty}), digest : SUBSET (Digests \cup {Empty})]

\* A bug the code does not have: one variable replaces what the other said.
CredentialsOfOneForm(env) ==
  IF env.digest \ {Empty} # {} THEN env.digest \ {Empty}
  ELSE {Digest(t) : t \in env.plain \ {Empty}}

\* Both forms are read, each entry of each is accepted, empty entries are dropped.
ServiceCredentials(env) ==
  {Digest(t) : t \in env.plain \ {Empty}} \cup (env.digest \ {Empty})

\* require_service with the caller among those permitted.
RequireService(env, token) == token # Empty /\ Digest(token) \in ServiceCredentials(env)

\* The tokens an environment accepts, in either form.
Accepted(env) == {t \in Tokens : t \in env.plain \/ Digest(t) \in env.digest}

-----------------------------------------------------------------------------
(* The three steps of the docstring, each an edit; a restart may come at any time *)

Edit(env) == file' = env /\ UNCHANGED <<live, given, presented>>

\* 1. The new token, or its digest, alongside the old one.
AddNew(t) ==
  /\ Accepted(file) = {presented} /\ given = presented /\ t \in Tokens \ {presented}
  /\ \/ Edit([file EXCEPT !.plain = @ \cup {t}])
     \/ Edit([file EXCEPT !.digest = @ \cup {Digest(t)}])

\* 2. Once the receiver has been restarted with it, the caller gets the new token.
GiveNew(t) ==
  /\ t \in Accepted(live) \cap Accepted(file) /\ t # given
  /\ given' = t
  /\ UNCHANGED <<file, live, presented>>

\* 3. Once the caller has been restarted with it, everything else is removed.
RemoveOld ==
  /\ presented = given
  /\ Edit([plain |-> file.plain \cap {given, Empty}, digest |-> file.digest \cap {Digest(given)}])

\* A plain entry becomes a digest, whenever somebody gets round to it.
MoveToDigest(t) ==
  /\ t \in file.plain \cap Tokens
  /\ Edit([plain |-> file.plain \ {t}, digest |-> file.digest \cup {Digest(t)}])

RestartReceiver == live' = file /\ UNCHANGED <<file, given, presented>>
RestartCaller == presented' = given /\ UNCHANGED <<file, live, given>>

\* A variable with one token and a trailing comma.
TokensInit ==
  \E t \in Tokens :
    /\ file = [plain |-> {t, Empty}, digest |-> {}] /\ live = file
    /\ given = t /\ presented = t

Rotate ==
  \/ RemoveOld
  \/ \E t \in Tokens : AddNew(t) \/ GiveNew(t) \/ MoveToDigest(t)

\* The two services, as far as their token goes.
TokensNext == Rotate \/ RestartReceiver \/ RestartCaller
TokensSpec == TokensInit /\ [][TokensNext]_tokenVars

-----------------------------------------------------------------------------
\* At no point of a rotation is a live caller presenting something the receiver
\* refuses; and a receiver's own digests, or nothing at all, never open it.
RotationSafe ==
  /\ RequireService(live, presented)
  /\ \A x \in Digests \cup {Empty} : ~RequireService(live, x)

\* Inductive: whichever of the two processes is restarted next, and with whichever of
\* the two files, they still understand each other.
TokensInv ==
  /\ file \in Environments /\ live \in Environments
  /\ {given, presented} \subseteq Accepted(file) \cap Accepted(live)
=============================================================================
