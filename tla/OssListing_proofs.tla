------------------------- MODULE OssListing_proofs -------------------------
(***************************************************************************)
(* Theorems about OssListing, for any number of keys, any page size and    *)
(* whatever others do to the bucket.                                       *)
(***************************************************************************)
EXTENDS OssListing, TLAPS

\* What Append does to the keys yielded.
LEMMA AppendSeen ==
  ASSUME NEW s \in Seq(Keys), NEW k \in Keys
  PROVE  /\ Append(s, k) \in Seq(Keys)
         /\ Range(Append(s, k)) = Range(s) \cup {k}
         /\ Len(Append(s, k)) = Len(s) + 1
         /\ \A i \in 1..Len(s) : Append(s, k)[i] = s[i] /\ s[i] \in Range(s)
         /\ Append(s, k)[Len(s) + 1] = k
  <1>1. /\ Append(s, k) \in Seq(Keys)
        /\ Len(Append(s, k)) = Len(s) + 1
        /\ \A i \in 1..Len(s) : Append(s, k)[i] = s[i] /\ s[i] \in Range(s)
        /\ Append(s, k)[Len(s) + 1] = k
    BY DEF Range
  <1>2. DOMAIN s = 1..Len(s) /\ DOMAIN Append(s, k) = 1..(Len(s) + 1) /\ Len(s) \in Nat
    BY <1>1
  <1>3. Range(Append(s, k)) = Range(s) \cup {k}
    BY <1>1, <1>2 DEF Range
  <1>4. QED
    BY <1>1, <1>3

LEMMA Typing ==
  ASSUME TypeOK
  PROVE  Seen \subseteq Keys /\ Keys \subseteq Nat \ {0}
  <1>1. DOMAIN yielded = 1..Len(yielded) /\ \A i \in 1..Len(yielded) : yielded[i] \in Keys
    BY DEF TypeOK
  <1>2. QED
    BY <1>1 DEF Seen, Range, Keys

LEMMA InitInv == Init => IInv
  <1> SUFFICES ASSUME Init
               PROVE  IInv
    OBVIOUS
  <1>1. Seen = {} /\ Len(yielded) = 0
    BY DEF Init, Seen, Range
  <1>2. QED
    BY <1>1 DEF Init, IInv, TypeOK, Forward, Covered, OnceInOrder, CompleteListing,
                Keys, NoMarker, NoAnswer

\* A step that yields nothing does not disturb what was yielded.
LEMMA SameYielded ==
  ASSUME OnceInOrder, UNCHANGED yielded
  PROVE  OnceInOrder' /\ Seen' = Seen
  BY DEF OnceInOrder, Seen

LEMMA StepInv == IInv /\ [Next]_vars => IInv'
  <1> SUFFICES ASSUME IInv, [Next]_vars
               PROVE  IInv'
    OBVIOUS
  <1> USE DEF NoMarker
  <1>0. /\ TypeOK /\ Forward /\ Covered /\ OnceInOrder /\ CompleteListing
        /\ pc = "idle" => marker = NoMarker
        /\ pc \in {"idle", "asking"} => page = {}
        /\ pc # "asking" => answer = NoAnswer
        /\ Seen \subseteq Keys /\ Keys \subseteq Nat \ {0}
    BY Typing DEF IInv
  <1>1. ASSUME NEW k \in Keys, Put(k)
        PROVE  IInv'
    BY <1>0, <1>1, SameYielded
       DEF Put, IInv, TypeOK, Forward, Covered, CompleteListing
  <1>2. ASSUME NEW k \in Keys, Delete(k)
        PROVE  IInv'
    BY <1>0, <1>2, SameYielded
       DEF Delete, IInv, TypeOK, Forward, Covered, CompleteListing
  <1>3. ASSUME Serve
        PROVE  IInv'
    <2>1. After(marker) \subseteq Keys /\ \A k \in After(marker) : marker < k
      BY <1>0 DEF TypeOK, After
    <2>2. \A k \in stayed : k > marker => k \in After(marker)
      BY <1>0 DEF TypeOK, After
    <2>3. PICK n \in After(marker) \cup {NoMarker} :
            answer' = [keys |-> IF n = NoMarker THEN After(marker)
                                ELSE {k \in After(marker) : k <= n}, next |-> n]
      BY <1>0, <1>3, <2>1 DEF Serve
    <2>4. /\ answer' \in Pages /\ answer' # NoAnswer
          /\ answer'.next = n
          /\ \A k \in Keys : k \in answer'.keys <=> k \in After(marker) /\ (n = NoMarker \/ k <= n)
          /\ answer'.keys \subseteq Keys
      BY <1>0, <2>1, <2>3 DEF Pages, NoAnswer
    <2>5. pc = "asking" /\ UNCHANGED <<bucket, pc, marker, page, next, yielded, stayed>>
      BY <1>3 DEF Serve
    <2>6. Forward'
      BY <1>0, <2>1, <2>4, <2>5, SameYielded DEF Forward
    <2>7. Covered'
      BY <1>0, <2>2, <2>4, <2>5, SameYielded DEF Covered, TypeOK
    <2>8. QED
      BY <1>0, <2>4, <2>5, <2>6, <2>7, SameYielded DEF IInv, TypeOK, CompleteListing
  <1>4. ASSUME Begin
        PROVE  IInv'
    <2>1. /\ pc = "idle" /\ marker' = marker /\ answer = NoAnswer /\ page = {} /\ stayed' = bucket
          /\ Seen = {}
      <3>1. pc = "idle" /\ marker' = marker /\ answer = NoAnswer /\ page = {} /\ stayed' = bucket
        BY <1>0, <1>4 DEF Begin
      <3>2. \A y \in Seen : y \in Nat \ {0} /\ y <= 0
        BY <1>0, <3>1 DEF Forward
      <3>3. QED
        BY <3>1, <3>2
    <2>2. \A k \in Keys : ~(k <= marker')
      BY <1>0, <2>1
    <2>3. TypeOK' /\ Forward'
      BY <1>0, <1>4, <2>1, SameYielded DEF Begin, TypeOK, Forward
    <2>4. Covered'
      BY <1>0, <1>4, <2>1, <2>2, SameYielded DEF Begin, TypeOK, Covered
    <2>5. QED
      BY <1>0, <1>4, <2>1, <2>3, <2>4, SameYielded DEF Begin, IInv, CompleteListing
  <1>5. ASSUME Receive
        PROVE  IInv'
    <2>1. answer \in Pages /\ answer.keys \subseteq Keys /\ answer.next \in Keys \cup {NoMarker}
      BY <1>0, <1>5 DEF Receive, TypeOK, Pages
    <2>2. TypeOK' /\ UNCHANGED Seen
      BY <1>0, <1>5, <2>1, SameYielded DEF Receive, TypeOK
    <2>3. /\ pc' = "yielding" /\ page' = answer.keys /\ next' = answer.next
          /\ answer' = NoAnswer /\ pc = "asking" /\ answer # NoAnswer
          /\ UNCHANGED <<marker, stayed>>
      BY <1>5 DEF Receive
    <2>4. marker \in Nat /\ Seen \subseteq Nat /\ stayed \subseteq Nat
      <3>1. Keys \subseteq Nat /\ stayed \subseteq Keys /\ marker \in Keys \cup {NoMarker}
        BY <1>0 DEF TypeOK
      <3>2. QED
        BY <1>0, <3>1
    <2>5. page' \subseteq Nat /\ next' \in Nat
      <3>1. Keys \subseteq Nat
        BY <1>0
      <3>2. page' \subseteq Keys /\ next' \in Keys \cup {NoMarker}
        BY <2>1, <2>3
      <3>3. QED
        BY <3>1, <3>2
    <2>6. \A y \in Seen, k \in page' : y <= marker /\ marker < k
      BY <1>0, <2>3, <2>4, <2>5 DEF Forward
    <2>7. Forward'
      <3>1. next' # NoMarker => marker < next' /\ \A k \in page' : k <= next'
        BY <1>0, <2>3, <2>4, <2>5 DEF Forward
      <3>2. \A k \in page', y \in Seen : y < k
        BY <2>4, <2>5, <2>6
      <3>3. next' # NoMarker => \A k \in Seen \cup page' : k <= next'
        BY <1>0, <2>3, <2>4, <2>5, <3>1 DEF Forward
      <3>4. QED
        BY <2>2, <2>3, <3>1, <3>2, <3>3 DEF Forward
    <2>8. Covered'
      <3>1. \A k \in stayed : k <= marker \/ k > marker
        BY <2>4, <2>5
      <3>2. \A k \in stayed : next' = NoMarker \/ k <= next' => k \in Seen \cup page'
        BY <1>0, <2>3, <2>4, <2>5, <3>1 DEF Covered
      <3>3. QED
        BY <2>2, <2>3, <3>2 DEF Covered
    <2>9. QED
      BY <1>0, <1>5, <2>2, <2>7, <2>8, SameYielded DEF Receive, IInv, CompleteListing
  <1>6. ASSUME Raise \/ Leave
        PROVE  IInv'
    BY <1>0, <1>6, SameYielded
       DEF Raise, Leave, IInv, TypeOK, Forward, Covered, CompleteListing
  <1>7. ASSUME Yield
        PROVE  IInv'
    <2>1. PICK k \in page : /\ \A j \in page : k <= j
                            /\ yielded' = Append(yielded, k) /\ page' = page \ {k}
      BY <1>7 DEF Yield
    <2>2. /\ pc = "yielding" /\ answer = NoAnswer
          /\ UNCHANGED <<bucket, pc, marker, answer, next, stayed>>
      BY <1>0, <1>7 DEF Yield
    <2>3. k \in Keys /\ \A y \in Seen : y < k
      BY <1>0 DEF TypeOK, Forward
    <2>4. /\ yielded' \in Seq(Keys) /\ Seen' = Seen \cup {k} /\ Len(yielded') = Len(yielded) + 1
          /\ \A i \in 1..Len(yielded) : yielded'[i] = yielded[i] /\ yielded[i] \in Seen
          /\ yielded'[Len(yielded) + 1] = k
      BY <1>0, <2>1, <2>3, AppendSeen DEF TypeOK, Seen
    <2>5. OnceInOrder'
      <3> SUFFICES ASSUME NEW i \in 1..Len(yielded'), NEW j \in 1..Len(yielded'), i < j
                   PROVE  yielded'[i] < yielded'[j]
        BY DEF OnceInOrder
      <3>1. Len(yielded) \in Nat
        BY <1>0 DEF TypeOK
      <3>2. CASE j = Len(yielded) + 1
        BY <2>3, <2>4, <3>1, <3>2
      <3>3. CASE j \in 1..Len(yielded)
        BY <1>0, <2>4, <3>1, <3>3 DEF OnceInOrder
      <3>4. QED
        BY <2>4, <3>1, <3>2, <3>3
    <2>6. TypeOK'
      BY <1>0, <2>1, <2>2, <2>4 DEF TypeOK
    <2>7. Forward' /\ Covered'
      <3>1. \A j \in page' : k < j
        BY <1>0, <2>1 DEF TypeOK
      <3>2. Seen' \cup page' = Seen \cup page
        BY <2>1, <2>4
      <3>3. QED
        BY <1>0, <2>1, <2>2, <2>3, <2>4, <3>1, <3>2 DEF Forward, Covered, NoAnswer
    <2>8. CompleteListing'
      <3>1. \A j \in stayed : j < k => j \in Seen
        <4> SUFFICES ASSUME NEW j \in stayed, j < k
                     PROVE  j \in Seen
          OBVIOUS
        <4>1. j \in Nat /\ k \in Nat /\ next \in Nat /\ (next = NoMarker \/ k <= next)
          <5>1. stayed \subseteq Nat /\ page \subseteq Nat /\ next \in Nat
            BY <1>0 DEF TypeOK
          <5>2. next = NoMarker \/ k <= next
            BY <1>0, <2>1, <2>2 DEF Forward
          <5>3. QED
            BY <5>1, <5>2
        <4>2. j \in Seen \cup page
          BY <1>0, <2>2, <4>1 DEF Covered
        <4>3. j \notin page
          BY <2>1, <4>1
        <4>4. QED
          BY <4>2, <4>3
      <3>2. QED
        BY <1>0, <2>2, <2>4, <3>1 DEF CompleteListing
    <2>9. QED
      BY <1>0, <2>1, <2>2, <2>5, <2>6, <2>7, <2>8 DEF IInv
  <1>8. ASSUME FollowMarker
        PROVE  IInv'
    BY <1>0, <1>8, SameYielded
       DEF FollowMarker, IInv, TypeOK, Forward, Covered, CompleteListing, NoAnswer
  <1>9. ASSUME Finish
        PROVE  IInv'
    BY <1>0, <1>9, SameYielded
       DEF Finish, IInv, TypeOK, Forward, Covered, CompleteListing, NoAnswer
  <1>10. ASSUME UNCHANGED vars
         PROVE  IInv'
    BY <1>0, <1>10, SameYielded
       DEF vars, IInv, TypeOK, Forward, Covered, CompleteListing
  <1>11. QED
    BY <1>1, <1>2, <1>3, <1>4, <1>5, <1>6, <1>7, <1>8, <1>9, <1>10 DEF Next, Iterate

\* The inductive invariant holds of every behaviour of the listing.
THEOREM Invariance == Spec => []IInv
  BY InitInv, StepInv, PTL DEF Spec

\* The variables keep their types: the generator's locals in iter_objects.
THEOREM TypeCorrect == Spec => []TypeOK
  <1>1. IInv => TypeOK
    BY DEF IInv
  <1>2. QED
    BY <1>1, Invariance, PTL

\* iter_objects yields each object at most once and in key order.
THEOREM OnceInOrderTheorem == Spec => []OnceInOrder
  <1>1. IInv => OnceInOrder
    BY DEF IInv
  <1>2. QED
    BY <1>1, Invariance, PTL

\* iter_objects never takes a partial listing for the whole one.
THEOREM CompleteTheorem == Spec => []CompleteListing
  <1>1. IInv => CompleteListing
    BY DEF IInv
  <1>2. QED
    BY <1>1, Invariance, PTL

\* The marker of iter_objects only moves forward, so a listing of LastKey keys takes
\* at most LastKey + 1 pages, however many objects are stored meanwhile.
THEOREM MarkerTheorem == Spec => MarkerAdvances
  <1>1. IInv /\ [Next]_vars => [pc = "yielding" /\ pc' = "asking" => marker < marker']_vars
    <2> SUFFICES ASSUME IInv, [Next]_vars, pc = "yielding", pc' = "asking"
                 PROVE  marker < marker'
      OBVIOUS
    <2>1. FollowMarker
      BY DEF Next, vars, Put, Delete, Serve, Begin, Leave, Iterate, Receive, Raise, Yield, Finish
    <2>2. QED
      BY <2>1 DEF FollowMarker, IInv, Forward
  <1>2. QED
    BY <1>1, Invariance, PTL DEF Spec, MarkerAdvances
============================================================================
