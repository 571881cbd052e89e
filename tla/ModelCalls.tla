----------------------------- MODULE ModelCalls -----------------------------
(***************************************************************************)
(* EmbeddingCaller.embed_batch and GenerationCaller.complete: each is one  *)
(* traced call, a POST declared idempotent and without a fallback, whose   *)
(* outcome becomes a result, a transient error (worth trying again later)  *)
(* or a permanent one.  The other calls of the process are TracedCall's.   *)
(***************************************************************************)
EXTENDS TracedCall, Sequences, FiniteSets

CONSTANT MaxBatch  \* MAX_EMBEDDING_BATCH
ASSUME BatchAssumption == MaxBatch \in Nat

VARIABLES
  ask,    \* per call: what for, and for how many texts, one of them blank or not
  result  \* per call: what the caller of embed_batch or complete gets

mvars == <<vars, ask, result>>

ModelKind == [method |-> "unsafe", declared |-> "yes", fallback |-> FALSE]
Asks == [what : {"other", "embed", "complete"}, texts : 0..(MaxBatch + 1), blank : BOOLEAN]

\* Results: vectors by input, each standing for the text it is the embedding of.
NoResult == [is |-> "none", vectors |-> <<>>]
Error(class) == [is |-> class, vectors |-> <<>>]
Vectors(v) == [is |-> "vectors", vectors |-> v]
Completion == [is |-> "completion", vectors |-> <<>>]

-----------------------------------------------------------------------------
(* Reading a body that came with a 200 (external: any of these) *)

\* Entries of "data": an index, in range or not, and a vector of the right dimension,
\* something that is none, or a list of that length of what float() refuses.
Entries(n) == [index : 0..n, embedding : {"vector", "unusable", "unnumbered"}]
Data(n) == UNION {[1..m -> Entries(n)] : m \in 0..(n + 1)}

Misplaced(data, n, m) ==
  data[m].index >= n \/ \E l \in 1..(m - 1) : data[l].index = data[m].index
Faults(data, n) == {m \in 1..n : Misplaced(data, n, m) \/ data[m].embedding # "vector"}

\* The first entry at fault decides; float's own exception is no EmbeddingError.
FaultError(data, n) ==
  LET m == CHOOSE f \in Faults(data, n) : \A g \in Faults(data, n) : f <= g
  IN  Error(IF ~Misplaced(data, n, m) /\ data[m].embedding = "unnumbered"
            THEN "other" ELSE "permanent")

\* A bug the code does not have: vectors are taken in the order they came in.
VectorsByPosition(data, n) ==
  IF Len(data) # n THEN Error("permanent")
  ELSE IF Faults(data, n) # {} THEN FaultError(data, n)
  ELSE Vectors([i \in 1..n |-> data[i].index])

VectorsFrom(data, n) ==
  IF Len(data) # n THEN Error("permanent")
  ELSE IF Faults(data, n) # {} THEN FaultError(data, n)
  ELSE Vectors([i \in 1..n |-> data[CHOOSE m \in 1..n : data[m].index = i - 1].index])

\* No choices, no message, or no content but blanks; the usage may always be missing.
CompletionFrom(content) == IF content = "text" THEN Completion ELSE Error("permanent")

-----------------------------------------------------------------------------
StatusError(o) == Error(IF o \in {"busy", "fault"} THEN "transient" ELSE "permanent")

\* Another 2xx than 200 and a redirect are refused like a client error.
Interpret(c) ==
  /\ pc[c] = "done" /\ ask[c].what # "other" /\ result[c] = NoResult
  /\ \E r \in
       CASE outcome[c] = "raised" -> {Error("transient")}
         [] outcome[c] = "propagated" -> {Error("other")}
         [] outcome[c] = "ok" /\ ask[c].what = "embed" ->
              {Error("permanent")} \cup {VectorsFrom(d, ask[c].texts) : d \in Data(ask[c].texts)}
         [] outcome[c] = "ok" /\ ask[c].what = "complete" ->
              {CompletionFrom(content) : content \in {"none", "blank", "text"}}
         [] OTHER -> {StatusError(outcome[c])} :
       result' = [result EXCEPT ![c] = r]
  /\ UNCHANGED <<vars, ask>>

\* No texts, too many, or a blank one: answered without a call.
Admissible(a) == a.what = "embed" => a.texts \in 1..MaxBatch /\ ~a.blank

AnswerAtOnce(c) ==
  /\ pc[c] = "idle" /\ result[c] = NoResult /\ ~Admissible(ask[c])
  /\ result' = [result EXCEPT ![c] =
                  IF ask[c].texts = 0 THEN Vectors(<<>>) ELSE Error("other")]
  /\ UNCHANGED <<vars, ask>>

Keep == UNCHANGED <<ask, result>>

ModelInit ==
  /\ Init
  /\ ask \in [Calls -> Asks]
  /\ \A c \in Calls : ask[c].what # "other" => kind[c] = ModelKind
  /\ result = [c \in Calls |-> NoResult]

ModelNext ==
  \/ \E c \in Calls : Admissible(ask[c]) /\ Begin(c) /\ Keep
  \/ \E c \in Calls : Request(c) /\ Keep
  \/ \E c \in Calls : AnswerAtOnce(c) \/ Interpret(c)
  \/ \E c \in Calls, n \in 1..Attempts, s \in Status : Handle(c, n, s) /\ Keep
  \/ \E c \in Calls, n \in 1..Attempts : Lose(c, n) /\ Keep

ModelSpec == ModelInit /\ [][ModelNext]_mvars
ModelLiveSpec == ModelSpec /\ \A c \in Calls : WF_mvars(Request(c) /\ Keep)

-----------------------------------------------------------------------------
(* Properties *)

\* A result that looks good is: the service carried the call out, and every vector
\* is the embedding of the text in its place, however the entries were ordered,
\* repeated or left out.  (The docstring of embed_batch: "the one thing worse than a
\* failed embedding is a successful-looking one attached to the wrong input".)
ResultsAreTrue ==
  \A c \in Calls : result[c].is \in {"vectors", "completion"} =>
    /\ ask[c].texts > 0 \/ ask[c].what = "complete" => Carried(c) # {}
    /\ result[c].is = "vectors" =>
         /\ DOMAIN result[c].vectors = 1..ask[c].texts
         /\ \A i \in 1..ask[c].texts : result[c].vectors[i] = i - 1

\* Inductive: a result stays true, for an attempt carried out stays carried out.
ModelInv ==
  /\ IInv
  /\ ask \in [Calls -> Asks] /\ DOMAIN result = Calls
  /\ ResultsAreTrue

\* A transient error tells the caller that an attempt at once is no use: the budget is
\* spent.  embeddings.py 193 and generation.py 227 say so of every 429 and 5xx; it holds
\* of all but a 500 or another 5xx that request() does not retry.
TransientButForFaults ==
  \A c \in Calls : result[c].is = "transient" => attempt[c] = Attempts \/ outcome[c] = "fault"
=============================================================================
