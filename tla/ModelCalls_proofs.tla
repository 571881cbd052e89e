------------------------- MODULE ModelCalls_proofs -------------------------
(***************************************************************************)
(* Theorems about ModelCalls, for any batch size and number of attempts,   *)
(* and whatever the model service answers.                                 *)
(***************************************************************************)
EXTENDS ModelCalls, TracedCall_proofs, FiniteSetTheorems

-----------------------------------------------------------------------------
(* The calls of the callers are traced calls *)

LEMMA StepTraced == [ModelNext]_mvars => [Next]_vars
  <1> SUFFICES ASSUME ModelNext
               PROVE  Next \/ UNCHANGED vars
    BY DEF mvars
  <1>1. ASSUME NEW c \in Calls, Begin(c) \/ Request(c)
        PROVE  Next
    BY <1>1 DEF Next
  <1>2. ASSUME NEW c \in Calls, AnswerAtOnce(c) \/ Interpret(c)
        PROVE  UNCHANGED vars
    BY <1>2 DEF AnswerAtOnce, Interpret
  <1>3. ASSUME NEW c \in Calls, NEW n \in 1..Attempts, NEW s \in Status, Handle(c, n, s)
        PROVE  Next
    BY <1>3 DEF Next
  <1>4. ASSUME NEW c \in Calls, NEW n \in 1..Attempts, Lose(c, n)
        PROVE  Next
    BY <1>4 DEF Next
  <1>5. QED
    BY <1>1, <1>2, <1>3, <1>4 DEF ModelNext

\* embed_batch and complete change the state of request only as request does: all
\* that is proved of traced calls holds of them.
THEOREM TracedTheorem == ModelSpec => Spec
  <1>1. ModelInit => Init
    BY DEF ModelInit
  <1>2. QED
    BY <1>1, StepTraced, PTL DEF ModelSpec, Spec

-----------------------------------------------------------------------------
(* Reading the vectors *)

\* As many entries as texts, no index out of range and none twice: every text has
\* its entry.  (So the check for a missing one never fires.)
LEMMA EveryIndexIsThere ==
  ASSUME NEW n \in Nat, NEW index \in [1..n -> 0..(n - 1)],
         \A l, m \in 1..n : index[l] = index[m] => l = m,
         NEW i \in 0..(n - 1)
  PROVE  \E m \in 1..n : index[m] = i
  <1>1. index \in Injection(1..n, 0..(n - 1))
    BY DEF Injection, IsInjective
  <1>2. IsFiniteSet(0..(n - 1)) /\ Cardinality(0..(n - 1)) = n /\ Cardinality(1..n) = n
    BY FS_Interval
  <1>3. index \in Surjection(1..n, 0..(n - 1))
    BY <1>1, <1>2, FS_Injection
  <1>4. QED
    BY <1>3 DEF Surjection

\* In a body that is accepted, every text has its entry.
LEMMA IndicesOfAccepted ==
  ASSUME NEW n \in Nat, NEW data \in Data(n), VectorsFrom(data, n).is = "vectors",
         NEW i \in 0..(n - 1)
  PROVE  \E m \in 1..n : data[m].index = i
  <1>1. Len(data) = n /\ Faults(data, n) = {}
    BY DEF VectorsFrom, FaultError, Error
  <1>2. PICK k \in 0..(n + 1) : data \in [1..k -> Entries(n)]
    BY DEF Data
  <1>3. data \in Seq(Entries(n)) /\ Len(data) = k
    BY <1>2
  <1>4. data \in [1..n -> Entries(n)]
    BY <1>1, <1>2, <1>3
  <1>5. \A m \in 1..n : data[m].index \in 0..(n - 1)
    <2> TAKE m \in 1..n
    <2>1. data[m].index \in 0..n
      BY <1>4 DEF Entries
    <2>2. ~(data[m].index >= n)
      BY <1>1 DEF Faults, Misplaced
    <2>3. QED
      BY <2>1, <2>2
  <1>6. \A l, m \in 1..n : data[l].index = data[m].index => l = m
    <2>1. \A m \in 1..n : \A l \in 1..(m - 1) : data[l].index # data[m].index
      BY <1>1 DEF Faults, Misplaced
    <2>2. QED
      BY <2>1
  <1> DEFINE index == [m \in 1..n |-> data[m].index]
  <1>7. index \in [1..n -> 0..(n - 1)]
    BY <1>5
  <1>8. \A l, m \in 1..n : index[l] = index[m] => l = m
    BY <1>6
  <1>9. \E m \in 1..n : index[m] = i
    <2> HIDE DEF index
    <2>1. QED
      BY <1>7, <1>8, EveryIndexIsThere
  <1>10. QED
    BY <1>9

LEMMA VectorsAreInPlace ==
  ASSUME NEW n \in Nat, NEW data \in Data(n), VectorsFrom(data, n).is = "vectors"
  PROVE  /\ DOMAIN VectorsFrom(data, n).vectors = 1..n
         /\ \A i \in 1..n : VectorsFrom(data, n).vectors[i] = i - 1
  <1>1. ASSUME NEW i \in 1..n
        PROVE  \E m \in 1..n : data[m].index = i - 1
    <2>1. i - 1 \in 0..(n - 1)
      OBVIOUS
    <2>2. QED
      BY <2>1, IndicesOfAccepted
  <1>2. VectorsFrom(data, n).vectors =
          [i \in 1..n |-> data[CHOOSE m \in 1..n : data[m].index = i - 1].index]
    BY DEF VectorsFrom, FaultError, Error, Vectors
  <1>3. \A i \in 1..n : data[CHOOSE m \in 1..n : data[m].index = i - 1].index = i - 1
    BY <1>1
  <1>4. QED
    BY <1>2, <1>3

\* A function onto an interval of as many numbers as its domain has hits none of them
\* twice, and nothing else.
LEMMA EveryIndexOnce ==
  ASSUME NEW n \in Nat, NEW index \in [1..n -> 0..n],
         \A i \in 0..(n - 1) : \E m \in 1..n : index[m] = i
  PROVE  \A m \in 1..n : index[m] # n /\ \A l \in 1..n : index[l] = index[m] => l = m
  <1> DEFINE entry == [i \in 0..(n - 1) |-> CHOOSE m \in 1..n : index[m] = i]
  <1>1. \A i \in 0..(n - 1) : entry[i] \in 1..n /\ index[entry[i]] = i
    OBVIOUS
  <1>2. entry \in [0..(n - 1) -> 1..n]
    OBVIOUS
  <1> HIDE DEF entry
  <1>3. entry \in Injection(0..(n - 1), 1..n)
    BY <1>1, <1>2 DEF Injection, IsInjective
  <1>4. IsFiniteSet(1..n) /\ Cardinality(0..(n - 1)) = n /\ Cardinality(1..n) = n
    BY FS_Interval
  <1>5. entry \in Surjection(0..(n - 1), 1..n)
    BY <1>3, <1>4, FS_Injection
  <1>6. \A m \in 1..n : \E i \in 0..(n - 1) : entry[i] = m
    BY <1>5 DEF Surjection
  <1>7. ASSUME NEW m \in 1..n
        PROVE  index[m] \in 0..(n - 1) /\ entry[index[m]] = m
    <2>1. PICK i \in 0..(n - 1) : entry[i] = m
      BY <1>6
    <2>2. index[m] = i
      BY <1>1, <2>1
    <2>3. QED
      BY <2>1, <2>2
  <1>8. ASSUME NEW m \in 1..n
        PROVE  index[m] # n /\ \A l \in 1..n : index[l] = index[m] => l = m
    <2>1. index[m] # n
      BY <1>7
    <2>2. ASSUME NEW l \in 1..n, index[l] = index[m]
          PROVE  l = m
      <3>1. entry[index[l]] = l /\ entry[index[m]] = m
        BY <1>7
      <3>2. QED
        BY <2>2, <3>1
    <2>3. QED
      BY <2>1, <2>2
  <1>9. QED
    BY <1>8

\* _vectors_from accepts a body exactly if it has one entry, with a vector, for each
\* text and no other, in whatever order; then every text gets the vector of its entry,
\* and otherwise the caller gets an error.
THEOREM VectorsTheorem ==
  ASSUME NEW n \in Nat, NEW data \in Data(n)
  PROVE  /\ VectorsFrom(data, n).is = "vectors" <=>
              /\ Len(data) = n
              /\ \A m \in 1..n : data[m].embedding = "vector"
              /\ \A i \in 0..(n - 1) : \E m \in 1..n : data[m].index = i
         /\ VectorsFrom(data, n).is = "vectors" =>
              VectorsFrom(data, n).vectors = [i \in 1..n |-> i - 1]
         /\ VectorsFrom(data, n).is \in {"vectors", "permanent", "other"}
  <1> DEFINE accepted == VectorsFrom(data, n).is = "vectors"
  <1>1. PICK k \in 0..(n + 1) : data \in [1..k -> Entries(n)]
    BY DEF Data
  <1>2. data \in Seq(Entries(n)) /\ Len(data) = k
    BY <1>1
  <1>3. accepted <=> Len(data) = n /\ Faults(data, n) = {}
    BY DEF VectorsFrom, FaultError, Error, Vectors
  <1>4. ASSUME accepted
        PROVE  /\ \A m \in 1..n : data[m].embedding = "vector"
               /\ \A i \in 0..(n - 1) : \E m \in 1..n : data[m].index = i
    <2>1. \A m \in 1..n : data[m].embedding = "vector"
      BY <1>3, <1>4 DEF Faults
    <2>2. ASSUME NEW i \in 0..(n - 1)
          PROVE  \E m \in 1..n : data[m].index = i
      BY <1>4, IndicesOfAccepted
    <2>3. QED
      BY <2>1, <2>2
  <1>5. ASSUME Len(data) = n,
               \A m \in 1..n : data[m].embedding = "vector",
               \A i \in 0..(n - 1) : \E m \in 1..n : data[m].index = i
        PROVE  accepted
    <2> DEFINE index == [m \in 1..n |-> data[m].index]
    <2>1. data \in [1..n -> Entries(n)]
      BY <1>1, <1>2, <1>5
    <2>2. index \in [1..n -> 0..n]
      BY <2>1 DEF Entries
    <2>3. \A i \in 0..(n - 1) : \E m \in 1..n : index[m] = i
      BY <1>5
    <2>4. \A m \in 1..n : index[m] # n /\ \A l \in 1..n : index[l] = index[m] => l = m
      <3> HIDE DEF index
      <3>1. QED
        BY <2>2, <2>3, EveryIndexOnce
    <2>5. ASSUME NEW m \in 1..n
          PROVE  ~Misplaced(data, n, m)
      <3>1. data[m].index \in 0..n /\ data[m].index # n
        BY <2>2, <2>4
      <3>2. \A l \in 1..(m - 1) : l \in 1..n /\ l # m
        OBVIOUS
      <3>3. \A l \in 1..(m - 1) : data[l].index # data[m].index
        BY <2>4, <3>2
      <3>4. QED
        BY <3>1, <3>3 DEF Misplaced
    <2>6. Faults(data, n) = {}
      BY <1>5, <2>5 DEF Faults
    <2>7. QED
      BY <1>3, <1>5, <2>6
  <1>6. ASSUME accepted
        PROVE  VectorsFrom(data, n).vectors = [i \in 1..n |-> i - 1]
    <2>1. VectorsFrom(data, n).vectors =
            [i \in 1..n |-> data[CHOOSE m \in 1..n : data[m].index = i - 1].index]
      BY <1>3, <1>6 DEF VectorsFrom, Vectors
    <2>2. \A i \in 1..n : VectorsFrom(data, n).vectors[i] = i - 1
      BY <1>6, VectorsAreInPlace
    <2>3. QED
      BY <2>1, <2>2
  <1>7. VectorsFrom(data, n).is \in {"vectors", "permanent", "other"}
    BY DEF VectorsFrom, FaultError, Error, Vectors
  <1>8. QED
    BY <1>3, <1>4, <1>5, <1>6, <1>7

-----------------------------------------------------------------------------
(* The inductive invariant *)

LEMMA ModelInitInv == ModelInit => ModelInv
  BY InitInv DEF ModelInit, ModelInv, ResultsAreTrue, NoResult

\* What was carried out stays carried out.
LEMMA CarriedStays ==
  ASSUME IInv, [Next]_vars, NEW c \in Calls, Carried(c) # {}
  PROVE  Carried(c)' # {}
  <1>0. TypeOK
    BY DEF IInv
  <1>1. PICK n \in 1..Attempts : fate[c][n] = "carried"
    BY DEF Carried
  <1>2. fate'[c][n] = "carried"
    <2>1. ASSUME UNCHANGED fate
          PROVE  fate'[c][n] = "carried"
      BY <1>1, <2>1
    <2>2. ASSUME NEW b \in Calls, NEW m \in 1..Attempts, NEW f,
                 fate[b][m] # "carried", fate' = [fate EXCEPT ![b][m] = f]
          PROVE  fate'[c][n] = "carried"
      BY <1>0, <1>1, <2>2 DEF TypeOK
    <2>3. CASE UNCHANGED vars
      BY <2>1, <2>3 DEF vars
    <2>4. ASSUME NEW b \in Calls, Begin(b) \/ Fail(b) \/ Receive(b) \/ Wake(b) \/ Propagate(b)
          PROVE  UNCHANGED fate
      BY <2>4 DEF Begin, Fail, Receive, Wake, Propagate
    <2>5. ASSUME NEW b \in Calls, Send(b), fate[b][attempt[b]] # "carried"
          PROVE  fate'[c][n] = "carried"
      BY <1>0, <2>2, <2>5 DEF Send, TypeOK
    <2>6. ASSUME NEW b \in Calls, NEW m \in 1..Attempts, NEW s \in Status, Handle(b, m, s)
          PROVE  fate'[c][n] = "carried"
      BY <2>2, <2>6 DEF Handle
    <2>7. ASSUME NEW b \in Calls, NEW m \in 1..Attempts, Lose(b, m)
          PROVE  fate'[c][n] = "carried"
      BY <2>2, <2>7 DEF Lose
    <2>8. \A b \in Calls : Send(b) => fate[b][attempt[b]] # "carried"
      BY DEF IInv, TypeOK, Budget, Send
    <2>9. QED
      BY <2>1, <2>3, <2>4, <2>5, <2>6, <2>7, <2>8 DEF Next, Request
  <1>3. QED
    BY <1>2 DEF Carried

\* What one call's result is held to.
TrueResult(c) ==
  result[c].is \in {"vectors", "completion"} =>
    /\ ask[c].texts > 0 \/ ask[c].what = "complete" => Carried(c) # {}
    /\ result[c].is = "vectors" =>
         /\ DOMAIN result[c].vectors = 1..ask[c].texts
         /\ \A i \in 1..ask[c].texts : result[c].vectors[i] = i - 1

LEMMA TrueStays ==
  ASSUME ModelInv, [Next]_vars, NEW c \in Calls, TrueResult(c),
         ask'[c] = ask[c], result'[c] = result[c]
  PROVE  TrueResult(c)'
  BY CarriedStays DEF ModelInv, TrueResult

LEMMA InterpretedTruly ==
  ASSUME ModelInv, NEW c \in Calls, Interpret(c)
  PROVE  TrueResult(c)'
  <1>1. PICK r :
          /\ result' = [result EXCEPT ![c] = r]
          /\ r \in
               CASE outcome[c] = "raised" -> {Error("transient")}
                 [] outcome[c] = "propagated" -> {Error("other")}
                 [] outcome[c] = "ok" /\ ask[c].what = "embed" ->
                      {Error("permanent")}
                        \cup {VectorsFrom(d, ask[c].texts) : d \in Data(ask[c].texts)}
                 [] outcome[c] = "ok" /\ ask[c].what = "complete" ->
                      {CompletionFrom(content) : content \in {"none", "blank", "text"}}
                 [] OTHER -> {StatusError(outcome[c])}
    BY DEF Interpret
  <1>2. result'[c] = r /\ ask' = ask /\ fate' = fate /\ ask[c].texts \in Nat
    BY <1>1, BatchAssumption DEF Interpret, ModelInv, Asks, vars
  <1>3. ASSUME r.is \in {"vectors", "completion"}
        PROVE  outcome[c] = "ok" /\ Carried(c) # {}
    <2>1. outcome[c] = "ok"
      BY <1>1, <1>3 DEF Error, StatusError
    <2>2. QED
      BY <2>1 DEF ModelInv, IInv, TypeOK, Outcome, Carried
  <1>4. ASSUME r.is = "vectors"
        PROVE  /\ DOMAIN r.vectors = 1..ask[c].texts
               /\ \A i \in 1..ask[c].texts : r.vectors[i] = i - 1
    <2>1. PICK d \in Data(ask[c].texts) : r = VectorsFrom(d, ask[c].texts)
      <3>1. CASE ask[c].what = "embed"
        BY <1>1, <1>3, <1>4, <3>1 DEF Error
      <3>2. CASE ask[c].what = "complete"
        BY <1>1, <1>3, <1>4, <3>2 DEF Error, CompletionFrom, Completion
      <3>3. ask[c].what \in {"embed", "complete"}
        BY DEF Interpret, ModelInv, Asks
      <3>4. QED
        BY <3>1, <3>2, <3>3
    <2>2. QED
      BY <1>2, <1>4, <2>1, VectorsAreInPlace
  <1>5. QED
    BY <1>2, <1>3, <1>4 DEF TrueResult, Carried

LEMMA AnsweredTruly ==
  ASSUME ModelInv, NEW c \in Calls, AnswerAtOnce(c)
  PROVE  TrueResult(c)'
  BY DEF AnswerAtOnce, ModelInv, TrueResult, Vectors, Error, Admissible

LEMMA ModelStepInv == ModelInv /\ [ModelNext]_mvars => ModelInv'
  <1> SUFFICES ASSUME ModelInv, [ModelNext]_mvars
               PROVE  ModelInv'
    OBVIOUS
  <1>1. [Next]_vars
    BY StepTraced
  <1>2. IInv'
    BY <1>1, StepInv DEF ModelInv
  <1>3. ask' = ask /\ DOMAIN result' = Calls
    BY DEF ModelInv, ModelNext, Keep, AnswerAtOnce, Interpret, mvars
  <1>4. ASSUME NEW c \in Calls
        PROVE  TrueResult(c)'
    <2>1. TrueResult(c)
      BY DEF ModelInv, ResultsAreTrue, TrueResult
    <2>2. CASE Interpret(c) \/ AnswerAtOnce(c)
      BY <2>2, InterpretedTruly, AnsweredTruly
    <2>3. CASE result'[c] = result[c]
      BY <1>1, <1>3, <2>1, <2>3, TrueStays
    <2>4. Interpret(c) \/ AnswerAtOnce(c) \/ result'[c] = result[c]
      BY DEF ModelInv, ModelNext, Keep, AnswerAtOnce, Interpret, mvars
    <2>5. QED
      BY <2>2, <2>3, <2>4
  <1>5. ResultsAreTrue'
    BY <1>4 DEF ResultsAreTrue, TrueResult
  <1>6. QED
    BY <1>2, <1>3, <1>5 DEF ModelInv

THEOREM ModelInvariance == ModelSpec => []ModelInv
  BY ModelInitInv, ModelStepInv, PTL DEF ModelSpec

\* Whatever the model service answers, a result that looks good was computed by it,
\* and every vector is the embedding of the text in its place.
THEOREM ResultsTheorem == ModelSpec => []ResultsAreTrue
  BY ModelInvariance, PTL DEF ModelInv

\* What the runs check of traced calls, for embed_batch and complete among any others.
THEOREM CallsTheorem ==
  ModelSpec => /\ RemoteCallSpec
               /\ []UnsafeAtMostOnce /\ []OnlyAfterBudget /\ []FallbackCovers /\ []AnswerIsTrue
  BY TracedTheorem, RefinementTheorem, AtMostOnceTheorem, BudgetTheorem, FallbackTheorem,
     AnswerTheorem, PTL

-----------------------------------------------------------------------------
(* Transient errors *)

\* The outcome of a call is final, and what kind of call it is never changes.
LEMMA OutcomeStays ==
  ASSUME IInv, [Next]_vars, NEW c \in Calls
  PROVE  kind' = kind /\ (outcome[c] # "none" => outcome'[c] = outcome[c])
  <1>0. TypeOK /\ \A b \in Calls : outcome[b] # "none" => pc[b] = "done"
    BY DEF IInv, Outcome, Ended
  <1>1. ASSUME NEW b \in Calls, Begin(b) \/ Send(b) \/ Wake(b)
        PROVE  kind' = kind /\ outcome' = outcome
    BY <1>1 DEF Begin, Send, Wake
  <1>2. ASSUME NEW b \in Calls, Fail(b) \/ Receive(b) \/ Propagate(b)
        PROVE  kind' = kind /\ (outcome[c] # "none" => outcome'[c] = outcome[c])
    <2>1. pc[b] # "done"
      BY <1>2 DEF Fail, Receive, Propagate
    <2>2. c # b => outcome'[c] = outcome[c]
      BY <1>0, <1>2 DEF Fail, Receive, Propagate, GiveUp, Return, Sleep, TypeOK
    <2>3. QED
      BY <1>0, <1>2, <2>1, <2>2 DEF Fail, Receive, Propagate
  <1>3. ASSUME NEW b \in Calls, NEW n \in 1..Attempts, NEW s \in Status, Handle(b, n, s)
        PROVE  kind' = kind /\ outcome' = outcome
    BY <1>3 DEF Handle
  <1>4. ASSUME NEW b \in Calls, NEW n \in 1..Attempts, Lose(b, n)
        PROVE  kind' = kind /\ outcome' = outcome
    BY <1>4 DEF Lose
  <1>5. CASE UNCHANGED vars
    BY <1>5 DEF vars
  <1>6. QED
    BY <1>1, <1>2, <1>3, <1>4, <1>5 DEF Next, Request

\* Inductive: the calls of the callers are of their kind, and a transient error is due
\* to one of three outcomes.
Blame(c) ==
  /\ ask[c].what # "other" => kind[c] = ModelKind
  /\ result[c].is = "transient" =>
       ask[c].what # "other" /\ outcome[c] \in {"raised", "busy", "fault"}

LEMMA BlameStep ==
  ASSUME ModelInv, \A c \in Calls : Blame(c), [ModelNext]_mvars
  PROVE  \A c \in Calls : Blame(c)'
  <1> TAKE c \in Calls
  <1>1. kind' = kind /\ (outcome[c] # "none" => outcome'[c] = outcome[c])
    BY StepTraced, OutcomeStays DEF ModelInv
  <1>2. ask' = ask
    BY DEF ModelNext, Keep, AnswerAtOnce, Interpret, mvars
  <1>3. CASE result'[c] = result[c]
    BY <1>1, <1>2, <1>3 DEF Blame
  <1>4. CASE AnswerAtOnce(c)
    BY <1>1, <1>2, <1>4 DEF Blame, AnswerAtOnce, ModelInv, Vectors, Error
  <1>5. CASE Interpret(c)
    <2>1. PICK r :
            /\ result' = [result EXCEPT ![c] = r]
            /\ r \in
                 CASE outcome[c] = "raised" -> {Error("transient")}
                   [] outcome[c] = "propagated" -> {Error("other")}
                   [] outcome[c] = "ok" /\ ask[c].what = "embed" ->
                        {Error("permanent")}
                          \cup {VectorsFrom(d, ask[c].texts) : d \in Data(ask[c].texts)}
                   [] outcome[c] = "ok" /\ ask[c].what = "complete" ->
                        {CompletionFrom(content) : content \in {"none", "blank", "text"}}
                   [] OTHER -> {StatusError(outcome[c])}
      BY <1>5 DEF Interpret
    <2>2. result'[c] = r /\ outcome'[c] = outcome[c] /\ ask[c].what # "other"
      BY <1>5, <2>1 DEF Interpret, ModelInv, vars
    <2>3. \A d \in Data(ask[c].texts) : VectorsFrom(d, ask[c].texts).is # "transient"
      BY DEF VectorsFrom, FaultError, Error, Vectors
    <2>4. \A content : CompletionFrom(content).is # "transient"
      BY DEF CompletionFrom, Completion, Error
    <2>5. r.is = "transient" => outcome[c] \in {"raised", "busy", "fault"}
      BY <2>1, <2>3, <2>4 DEF Error, StatusError
    <2>6. QED
      BY <1>1, <1>2, <2>2, <2>5 DEF Blame
  <1>6. Interpret(c) \/ AnswerAtOnce(c) \/ result'[c] = result[c]
    BY DEF ModelInv, ModelNext, Keep, AnswerAtOnce, Interpret, mvars
  <1>7. QED
    BY <1>3, <1>4, <1>5, <1>6

\* A transient error means that the whole budget was spent, but for the statuses that
\* request() hands on at once: embeddings.py 193 and generation.py 227, corrected.
THEOREM TransientTheorem == ModelSpec => []TransientButForFaults
  <1> DEFINE Blamed == \A c \in Calls : Blame(c)
  <1>1. ModelInit => Blamed
    <2>1. ASSUME ModelInit, NEW c \in Calls
          PROVE  Blame(c)
      <3>1. result[c].is = "none"
        BY <2>1 DEF ModelInit, NoResult
      <3>2. ask[c].what # "other" => kind[c] = ModelKind
        BY <2>1 DEF ModelInit
      <3>3. QED
        BY <3>1, <3>2 DEF Blame
    <2>2. QED
      BY <2>1
  <1>2. ModelInv /\ Blamed /\ [ModelNext]_mvars => Blamed'
    BY BlameStep
  <1>3. ModelInv /\ Blamed => TransientButForFaults
    BY DEF ModelInv, IInv, Outcome, Blame, TransientButForFaults, AttemptsFor,
           IsRetryableMethod, ModelKind
  <1> HIDE DEF Blamed
  <1>4. QED
    BY <1>1, <1>2, <1>3, ModelInvariance, PTL DEF ModelSpec
=============================================================================
