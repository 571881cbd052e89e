----------------------- MODULE GuestAllowance_proofs -----------------------
(***************************************************************************)
(* Theorems about GuestAllowance, for every limit, every finite set of use *)
(* ids and every set of tasks.                                             *)
(***************************************************************************)
EXTENDS GuestAllowance, FiniteSetTheorems, TLAPS

LEMMA IdleType == Idle \in Calls /\ Idle.pc = "idle" /\ Idle.use = NoUse
  BY AllowanceAssumption DEF Idle, Calls, Days

LEMMA RemoveTypes ==
  ASSUME TypeOK, NEW d \in Days, NEW u, Remove(d, u)
  PROVE  /\ stored' \in [Days -> SUBSET Uses] /\ expiring' \in [Days -> BOOLEAN]
         /\ stored'[d] = stored[d] \ {u}
         /\ \A e \in Days : e # d => stored'[e] = stored[e]
  <1>1. stored' = [stored EXCEPT ![d] = @ \ {u}]
    BY DEF Remove
  <1>2. expiring' \in [Days -> BOOLEAN]
    <2>1. (expiring[d] /\ stored[d] \ {u} # {}) \in BOOLEAN
      OBVIOUS
    <2>2. QED
      BY <2>1 DEF Remove, TypeOK
  <1>3. QED
    BY <1>1, <1>2 DEF TypeOK

LEMMA SetTtlType ==
  ASSUME TypeOK, NEW d \in Days, SetTtl(d)
  PROVE  expiring' \in [Days -> BOOLEAN]
  BY DEF TypeOK, SetTtl

\* Within a call, only that task's record changes.
LEMMA FinishEffect ==
  ASSUME TypeOK, NEW t \in Tasks, Finish(t)
  PROVE  /\ call' \in [Tasks -> Calls] /\ call'[t] = Idle
         /\ \A s \in Tasks : s # t => call'[s] = call[s]
  BY IdleType DEF TypeOK, Finish

LEMMA CallFields ==
  ASSUME TypeOK, NEW t \in Tasks
  PROVE  /\ call[t] \in Calls
         /\ call[t].use \in Uses \cup {NoUse} /\ call[t].day \in Days
         /\ call[t].used \in Nat /\ call[t].added \in BOOLEAN
  BY DEF TypeOK, Calls

LEMMA CountType ==
  ASSUME TypeOK, NEW d \in Days
  PROVE  IsFiniteSet(stored[d]) /\ Cardinality(stored[d]) \in Nat
  BY FS_Subset, FS_CardinalityType, AllowanceAssumption DEF TypeOK

-----------------------------------------------------------------------------
(* Types, and what a call in progress looks like *)

WellFormed == TypeOK /\ CallsWellFormed

LEMMA WellFormedInit == Init => WellFormed
  BY IdleType, AllowanceAssumption DEF Init, WellFormed, TypeOK, CallsWellFormed, InProgress, Days

LEMMA FinishWellFormed ==
  ASSUME WellFormed, NEW t \in Tasks, Finish(t), today' \in Days, today' >= today
  PROVE  call' \in [Tasks -> Calls] /\ CallsWellFormed'
  <1>1. TypeOK /\ today \in Nat /\ today' \in Nat
    BY DEF WellFormed, TypeOK, Days
  <1>2. call' \in [Tasks -> Calls] /\ call'[t] = Idle /\ \A s \in Tasks : s # t => call'[s] = call[s]
    BY <1>1, FinishEffect
  <1>3. \A s \in Tasks : call[s].day \in Nat
    BY <1>1, CallFields DEF Days
  <1>4. QED
    BY <1>1, <1>2, <1>3, IdleType DEF WellFormed, CallsWellFormed, InProgress

LEMMA WellFormedStep == WellFormed /\ [Next]_vars => WellFormed'
  <1> SUFFICES ASSUME WellFormed, [Next]_vars
               PROVE  WellFormed'
    OBVIOUS
  <1>0. TypeOK /\ today \in Nat
    BY DEF WellFormed, TypeOK, Days
  <1>1. ASSUME NEW t \in Tasks, NEW u \in Uses, BeginConsume(t, u)
        PROVE  WellFormed'
    <2> DEFINE c == [Idle EXCEPT !.pc = "sadd", !.use = u, !.day = today]
    <2>1. c \in Calls /\ c.pc = "sadd" /\ c.use = u /\ c.day = today
      BY <1>0 DEF Idle, Calls, TypeOK
    <2>2. call' = [call EXCEPT ![t] = c] /\ today' = today
      BY <1>1 DEF BeginConsume
    <2> HIDE DEF c
    <2>3. /\ UNCHANGED <<stored, expiring, admitted, broken>>
          /\ retried' \in [Days -> SUBSET Uses]
      BY <1>1, <1>0 DEF BeginConsume, TypeOK
    <2>4. QED
      BY <1>0, <2>1, <2>2, <2>3 DEF WellFormed, TypeOK, CallsWellFormed, InProgress
  <1>2. ASSUME NEW t \in Tasks, NEW u \in Uses, NEW d \in Days, BeginRelease(t, u, d)
        PROVE  WellFormed'
    <2> DEFINE c == [Idle EXCEPT !.pc = "release", !.use = u, !.day = today]
    <2>1. c \in Calls /\ c.pc = "release" /\ c.use = u /\ c.day = today
      BY <1>0 DEF Idle, Calls, TypeOK
    <2>2. call' = [call EXCEPT ![t] = c] /\ today' = today
      BY <1>2 DEF BeginRelease
    <2> HIDE DEF c
    <2>3. UNCHANGED <<stored, expiring, broken, retried>> /\ admitted' \in [Days -> SUBSET Uses]
      BY <1>2, <1>0 DEF BeginRelease, TypeOK
    <2>4. QED
      BY <1>0, <2>1, <2>2, <2>3 DEF WellFormed, TypeOK, CallsWellFormed, InProgress
  <1>3. ASSUME NEW t \in Tasks, Sadd(t)
        PROVE  WellFormed'
    <2> DEFINE c == [call[t] EXCEPT !.pc = "scard", !.added = call[t].use \notin stored[call[t].day]]
    <2>1. c \in Calls /\ c.pc = "scard" /\ c.use = call[t].use /\ c.day = call[t].day
      BY <1>0, CallFields DEF Calls
    <2>2. call[t].use \in Uses
      BY <1>3 DEF Sadd, WellFormed, CallsWellFormed, InProgress
    <2>3. call' = [call EXCEPT ![t] = c]
      BY <1>3 DEF Sadd
    <2> HIDE DEF c
    <2>4. QED
      BY <1>0, <1>3, <2>1, <2>2, <2>3 DEF Sadd, WellFormed, TypeOK, CallsWellFormed, InProgress
  <1>4. ASSUME NEW t \in Tasks, ScardOfAdded(t)
        PROVE  WellFormed'
    <2> DEFINE c == [call[t] EXCEPT !.pc = "expire", !.used = Cardinality(stored[call[t].day])]
    <2>1. c \in Calls /\ c.pc = "expire" /\ c.use = call[t].use /\ c.day = call[t].day
      BY <1>0, CallFields, CountType DEF Calls
    <2>2. call' = [call EXCEPT ![t] = c]
      BY <1>4 DEF ScardOfAdded
    <2> HIDE DEF c
    <2>3. QED
      BY <1>0, <1>4, <2>1, <2>2 DEF ScardOfAdded, WellFormed, TypeOK, CallsWellFormed, InProgress
  <1>5. ASSUME NEW t \in Tasks, ScardOfCounted(t) \/ ExpireWithinLimit(t)
        PROVE  WellFormed'
    <2>1. call[t].use \in Uses /\ call[t].day \in Days
      BY <1>0, <1>5, CallFields
         DEF ScardOfCounted, ExpireWithinLimit, WellFormed, CallsWellFormed, InProgress
    <2>2. call' \in [Tasks -> Calls] /\ CallsWellFormed' /\ admitted' \in [Days -> SUBSET Uses]
      BY <1>0, <1>5, <2>1, FinishWellFormed DEF ScardOfCounted, ExpireWithinLimit, Allow, TypeOK
    <2>3. expiring' \in [Days -> BOOLEAN]
      BY <1>0, <1>5, <2>1, SetTtlType DEF ScardOfCounted, ExpireWithinLimit, TypeOK
    <2>4. QED
      BY <1>0, <1>5, <2>2, <2>3 DEF ScardOfCounted, ExpireWithinLimit, WellFormed, TypeOK
  <1>6. ASSUME NEW t \in Tasks, ExpireOverLimit(t)
        PROVE  WellFormed'
    <2>1. expiring' \in [Days -> BOOLEAN]
      BY <1>0, <1>6, CallFields, SetTtlType DEF ExpireOverLimit
    <2>2. [call[t] EXCEPT !.pc = "srem"] \in Calls
      BY <1>0, CallFields DEF Calls
    <2>3. call' = [call EXCEPT ![t] = [call[t] EXCEPT !.pc = "srem"]]
      BY <1>6 DEF ExpireOverLimit, Goto
    <2>4. QED
      BY <1>0, <1>6, <2>1, <2>2, <2>3, CallFields
         DEF ExpireOverLimit, WellFormed, TypeOK, CallsWellFormed, InProgress
  <1>7. ASSUME NEW t \in Tasks, SremRefused(t) \/ SremReleased(t)
        PROVE  WellFormed'
    <2>1. Remove(call[t].day, call[t].use) /\ Finish(t) /\ UNCHANGED <<today, admitted, broken, retried>>
      BY <1>7 DEF SremRefused, SremReleased
    <2>2. stored' \in [Days -> SUBSET Uses] /\ expiring' \in [Days -> BOOLEAN]
      BY <1>0, <2>1, CallFields, RemoveTypes
    <2>3. call' \in [Tasks -> Calls] /\ CallsWellFormed'
      BY <1>0, <2>1, FinishWellFormed DEF TypeOK
    <2>4. QED
      BY <1>0, <2>1, <2>2, <2>3 DEF WellFormed, TypeOK
  <1>8. ASSUME NEW t \in Tasks, Break(t)
        PROVE  WellFormed'
    <2>1. call[t].use \in Uses /\ call[t].day \in Days
      BY <1>0, <1>8, CallFields DEF Break, WellFormed, CallsWellFormed
    <2>2. stored' \in [Days -> SUBSET Uses] /\ expiring' \in [Days -> BOOLEAN]
      <3>1. CASE UNCHANGED <<stored, expiring>>
        BY <1>0, <3>1 DEF TypeOK
      <3>2. CASE stored' = [stored EXCEPT ![call[t].day] = @ \cup {call[t].use}] /\ UNCHANGED expiring
        BY <1>0, <2>1, <3>2 DEF TypeOK
      <3>3. CASE SetTtl(call[t].day) /\ UNCHANGED stored
        BY <1>0, <2>1, <3>3, SetTtlType DEF TypeOK
      <3>4. CASE Remove(call[t].day, call[t].use)
        BY <1>0, <2>1, <3>4, RemoveTypes
      <3>5. QED
        BY <1>8, <3>1, <3>2, <3>3, <3>4 DEF Break, MayHaveRun
    <2>3. call' \in [Tasks -> Calls] /\ CallsWellFormed'
      BY <1>0, <1>8, FinishWellFormed DEF Break, TypeOK
    <2>4. broken' \in [Days -> SUBSET Uses] /\ UNCHANGED <<today, admitted, retried>>
      BY <1>0, <1>8, <2>1 DEF Break, TypeOK
    <2>5. QED
      BY <1>0, <2>2, <2>3, <2>4 DEF WellFormed, TypeOK
  <1>9. CASE NextDay
    <2>1. today' \in Days /\ today' = today + 1 /\ call' = call
      BY <1>0, <1>9, AllowanceAssumption DEF NextDay, TypeOK, Days
    <2>2. \A s \in Tasks : call[s].day \in Nat
      BY <1>0, CallFields DEF Days
    <2>3. QED
      BY <1>0, <1>9, <2>1, <2>2 DEF NextDay, WellFormed, TypeOK, CallsWellFormed, InProgress
  <1>10. ASSUME NEW d \in Days, Purge(d)
         PROVE  WellFormed'
    BY <1>10 DEF Purge, WellFormed, TypeOK, CallsWellFormed, InProgress
  <1>11. CASE UNCHANGED vars
    BY <1>11 DEF vars, WellFormed, TypeOK, CallsWellFormed, InProgress
  <1>12. QED
    BY <1>1, <1>2, <1>3, <1>4, <1>5, <1>6, <1>7, <1>8, <1>9, <1>10, <1>11 DEF Next, Consume

\* The declared types hold in every reachable state.
THEOREM TypeCorrect == Spec => []TypeOK
  BY WellFormedInit, WellFormedStep, PTL DEF Spec, WellFormed

-----------------------------------------------------------------------------
(* The invariant that careful callers keep *)

CarefulInv == Exclusive /\ Stored /\ Accounted /\ CallsCurrent /\ PassedWithinLimit

\* The uses passed that the limit counts.
Charged(d) == Passed(d) \ retried[d]

LEMMA ChargedFinite ==
  ASSUME WellFormed, NEW d \in Days
  PROVE  /\ Charged(d) \in SUBSET Uses
         /\ IsFiniteSet(Charged(d)) /\ Cardinality(Charged(d)) \in Nat
  <1>1. Pending(d) \subseteq Uses
    BY DEF Pending, WellFormed, CallsWellFormed, InProgress
  <1>2. Passed(d) \in SUBSET Uses
    BY <1>1 DEF Passed, WellFormed, TypeOK
  <1>3. Charged(d) \in SUBSET Uses
    BY <1>2 DEF Charged
  <1>4. QED
    BY <1>3, FS_Subset, FS_CardinalityType, AllowanceAssumption

\* A step after which no further use is charged, or all that are charged are in a
\* set within the limit, keeps the bound.
LEMMA BoundStep ==
  ASSUME WellFormed, PassedWithinLimit,
         \A d \in Days : \/ Charged(d)' \subseteq Charged(d)
                         \/ Charged(d)' \subseteq stored[d] /\ Cardinality(stored[d]) <= Limit
  PROVE  PassedWithinLimit'
  <1>1. ASSUME NEW d \in Days
        PROVE  Cardinality(Charged(d)') <= Limit
    <2>1. PICK X \in {Charged(d), stored[d]} : Charged(d)' \subseteq X /\ Cardinality(X) <= Limit
      BY DEF PassedWithinLimit, Charged
    <2>2. IsFiniteSet(X) /\ Cardinality(X) \in Nat
      BY ChargedFinite, CountType DEF WellFormed
    <2>3. Cardinality(Charged(d)') \in Nat /\ Cardinality(Charged(d)') <= Cardinality(X)
      BY <2>1, <2>2, FS_Subset, FS_CardinalityType
    <2>4. QED
      BY <2>1, <2>2, <2>3, AllowanceAssumption
  <1>2. QED
    BY <1>1 DEF PassedWithinLimit, Charged

LEMMA BoundKept ==
  ASSUME WellFormed, PassedWithinLimit, \A d \in Days : Charged(d)' \subseteq Charged(d)
  PROVE  PassedWithinLimit'
  <1>1. \A d \in Days : \/ Charged(d)' \subseteq Charged(d)
                        \/ Charged(d)' \subseteq stored[d] /\ Cardinality(stored[d]) <= Limit
    OBVIOUS
  <1>2. QED
    BY <1>1, BoundStep

LEMMA CarefulInit == Init => CarefulInv
  <1> SUFFICES ASSUME Init
               PROVE  CarefulInv
    OBVIOUS
  <1>1. Exclusive /\ Stored /\ Accounted /\ CallsCurrent
    BY IdleType DEF Init, Exclusive, Stored, Accounted, CallsCurrent, InProgress
  <1>2. \A d \in Days : Passed(d) = {}
    BY IdleType DEF Init, Passed, Pending
  <1>3. PassedWithinLimit
    <2>1. ASSUME NEW d \in Days
          PROVE  Cardinality(Passed(d) \ retried[d]) <= Limit
      <3>1. Cardinality({}) <= Limit
        BY FS_EmptySet, AllowanceAssumption
      <3>2. Passed(d) \ retried[d] = {}
        BY <1>2
      <3>3. QED
        BY <3>1, <3>2, Zenon
    <2>2. QED
      BY <2>1 DEF PassedWithinLimit
  <1>4. QED
    BY <1>1, <1>3 DEF CarefulInv

LEMMA BeginConsumeInv ==
  ASSUME Careful, WellFormed, CarefulInv, NEW t \in Tasks, NEW u \in Uses, BeginConsume(t, u)
  PROVE  CarefulInv'
  <1>1. /\ call[t].pc = "idle" /\ call'[t].pc = "sadd" /\ call'[t].use = u /\ call'[t].day = today
        /\ \A s \in Tasks : s # t => call'[s] = call[s]
        /\ \A s \in Tasks : call[s].use # u
        /\ retried'[today] = retried[today] \cup ({u} \cap broken[today])
        /\ \A e \in Days : retried[e] \subseteq retried'[e]
        /\ UNCHANGED <<today, stored, expiring, admitted, broken>>
    BY DEF BeginConsume, WellFormed, TypeOK, InProgress, Unshared, Idle
  <1>2. today \in Days /\ today \in Nat
    BY DEF WellFormed, TypeOK, Days
  <1>3. Exclusive'
    BY <1>1 DEF CarefulInv, Exclusive, InProgress
  <1>4. Stored'
    <2> SUFFICES ASSUME NEW e \in Days
                 PROVE  /\ e >= today \/ (\E s \in Tasks : InProgress(s)' /\ call'[s].day = e) =>
                             admitted'[e] \subseteq stored[e]
                        /\ e > today => stored[e] = {}
      BY <1>1 DEF Stored
    <2>1. (\E s \in Tasks : InProgress(s)' /\ call'[s].day = e) =>
            e >= today \/ (\E s \in Tasks : InProgress(s) /\ call[s].day = e)
      BY <1>1, <1>2 DEF InProgress
    <2>2. QED
      BY <1>1, <2>1 DEF CarefulInv, Stored
  <1>5. Accounted'
    BY <1>1 DEF CarefulInv, Accounted, InProgress
  <1>6. CallsCurrent'
    <2>1. u \in stored[today] => u \in admitted[today] \cup retried'[today]
      BY <1>1, <1>2 DEF CarefulInv, Accounted
    <2>2. \A s \in Tasks : call[s].day \in Days
      BY CallFields DEF WellFormed
    <2>3. QED
      BY <1>1, <2>1, <2>2 DEF CarefulInv, CallsCurrent
  <1>7. \A d \in Days : Charged(d)' \subseteq Charged(d)
    BY <1>1 DEF Charged, Passed, Pending
  <1>8. QED
    BY <1>3, <1>4, <1>5, <1>6, <1>7, BoundKept DEF CarefulInv

LEMMA BeginReleaseInv ==
  ASSUME Careful, WellFormed, CarefulInv, NEW t \in Tasks, NEW u \in Uses, NEW d \in Days,
         BeginRelease(t, u, d)
  PROVE  CarefulInv'
  <1>1. /\ call[t].pc = "idle" /\ call'[t].pc = "release" /\ call'[t].use = u /\ call'[t].day = today
        /\ \A s \in Tasks : s # t => call'[s] = call[s]
        /\ \A s \in Tasks : call[s].use # u
        /\ d = today \/ u \notin stored[today]
        /\ admitted'[d] = admitted[d] \ {u}
        /\ \A e \in Days : e # d => admitted'[e] = admitted[e]
        /\ UNCHANGED <<today, stored, expiring, broken, retried>>
    BY DEF BeginRelease, WellFormed, TypeOK, InProgress, Unshared, Idle
  <1>2. today \in Days /\ today \in Nat
    BY DEF WellFormed, TypeOK, Days
  <1>3. Exclusive'
    BY <1>1 DEF CarefulInv, Exclusive, InProgress
  <1>4. Stored'
    <2> SUFFICES ASSUME NEW e \in Days
                 PROVE  /\ e >= today \/ (\E s \in Tasks : InProgress(s)' /\ call'[s].day = e) =>
                             admitted'[e] \subseteq stored[e]
                        /\ e > today => stored[e] = {}
      BY <1>1 DEF Stored
    <2>1. (\E s \in Tasks : InProgress(s)' /\ call'[s].day = e) =>
            e >= today \/ (\E s \in Tasks : InProgress(s) /\ call[s].day = e)
      BY <1>1, <1>2 DEF InProgress
    <2>2. QED
      BY <1>1, <2>1 DEF CarefulInv, Stored
  <1>5. Accounted'
    <2> SUFFICES ASSUME NEW e \in Days, e >= today, NEW v \in stored[e]
                 PROVE  \/ v \in admitted'[e] \cup broken[e]
                        \/ \E s \in Tasks : InProgress(s)' /\ call'[s].day = e /\ call'[s].use = v
      BY <1>1 DEF Accounted
    <2>1. CASE v \in admitted[e] \cup broken[e]
      <3>1. CASE e = d /\ v = u
        <4>1. d = today
          BY <1>1, <1>2, <2>1, <3>1 DEF CarefulInv, Stored, Days
        <4>2. QED
          BY <1>1, <3>1, <4>1 DEF InProgress
      <3>2. CASE ~(e = d /\ v = u)
        BY <1>1, <2>1, <3>2
      <3>3. QED
        BY <3>1, <3>2
    <2>2. CASE \E s \in Tasks : InProgress(s) /\ call[s].day = e /\ call[s].use = v
      BY <1>1, <2>2 DEF InProgress
    <2>3. QED
      BY <2>1, <2>2 DEF CarefulInv, Accounted
  <1>6. CallsCurrent'
    <2>1. u \notin admitted'[today]
      BY <1>1, <1>2 DEF CarefulInv, Stored
    <2>2. \A s \in Tasks : call[s].day \in Days
      BY CallFields DEF WellFormed
    <2>3. \A s \in Tasks : call[s].use \in admitted[call[s].day] <=> call[s].use \in admitted'[call[s].day]
      BY <1>1, <2>2
    <2>4. QED
      BY <1>1, <2>1, <2>3 DEF CarefulInv, CallsCurrent
  <1>7. \A e \in Days : Charged(e)' \subseteq Charged(e)
    BY <1>1 DEF Charged, Passed, Pending
  <1>8. QED
    BY <1>3, <1>4, <1>5, <1>6, <1>7, BoundKept DEF CarefulInv

\* A step of one call, seen from the others: it touches its own use on its own
\* day only, so what the invariant says of the others stays.
LEMMA CallStep ==
  ASSUME Careful, WellFormed, CarefulInv, NEW t \in Tasks, NEW u, NEW d,
         InProgress(t), u = call[t].use, d = call[t].day, today' = today, retried' = retried,
         \A s \in Tasks : s # t => call'[s] = call[s],
         InProgress(t)' => call'[t].use = u /\ call'[t].day = d,
         ~InProgress(t)' => call'[t] = Idle,
         \A e \in Days, v \in Uses : e # d \/ v # u =>
            /\ v \in stored'[e] <=> v \in stored[e]
            /\ v \in admitted'[e] <=> v \in admitted[e]
            /\ v \in broken'[e] <=> v \in broken[e],
         \A e \in Days : /\ stored'[e] \in SUBSET Uses
                         /\ admitted'[e] \in SUBSET Uses
                         /\ broken'[e] \in SUBSET Uses,
         u \in admitted'[d] => u \in stored'[d],
         u \in stored'[d] => u \in admitted'[d] \/ u \in broken'[d] \/ InProgress(t)',
         LET c == call'[t] IN
           /\ c.pc = "sadd" /\ u \in stored'[d] => u \in admitted'[d] \cup retried[d]
           /\ c.pc \in {"scard", "expire", "srem"} => u \in stored'[d]
           /\ c.pc = "scard" /\ ~c.added => u \in admitted'[d] \cup retried[d]
           /\ c.pc = "scard" /\ c.added => u \notin admitted'[d]
           /\ c.pc \in {"expire", "srem", "release"} => u \notin admitted'[d]
  PROVE  Exclusive' /\ Stored' /\ Accounted' /\ CallsCurrent'
  <1>1. u \in Uses /\ d \in Days /\ d <= today /\ today \in Days
    BY CallFields DEF WellFormed, CallsWellFormed, TypeOK
  <1>2. \A s \in Tasks : s # t => call[s].use # u
    BY <1>1, IdleType, AllowanceAssumption DEF CarefulInv, Exclusive, WellFormed, CallsWellFormed
  <1>3. Exclusive'
    <2>1. \A r, s \in Tasks : r # t /\ s # t /\ r # s /\ InProgress(r)' => call'[r].use # call'[s].use
      BY DEF CarefulInv, Exclusive, InProgress
    <2>2. \A s \in Tasks : s # t /\ InProgress(s)' => call'[s].use # call'[t].use
      BY <1>2, IdleType, AllowanceAssumption DEF WellFormed, CallsWellFormed, InProgress
    <2>3. \A s \in Tasks : s # t /\ InProgress(t)' => call'[t].use # call'[s].use
      BY <1>2
    <2>4. QED
      BY <2>1, <2>2, <2>3 DEF Exclusive
  <1>4. Stored'
    <2> SUFFICES ASSUME NEW e \in Days
                 PROVE  /\ e >= today \/ (\E s \in Tasks : InProgress(s)' /\ call'[s].day = e) =>
                             admitted'[e] \subseteq stored'[e]
                        /\ e > today => stored'[e] = {}
      BY DEF Stored
    <2>1. (\E s \in Tasks : InProgress(s)' /\ call'[s].day = e) =>
             \E s \in Tasks : InProgress(s) /\ call[s].day = e
      BY DEF InProgress
    <2>2. e >= today \/ (\E s \in Tasks : InProgress(s) /\ call[s].day = e) =>
             admitted[e] \subseteq stored[e]
      BY DEF CarefulInv, Stored
    <2>3. e > today => stored[e] = {} /\ e # d
      BY <1>1 DEF CarefulInv, Stored, Days
    <2>4. QED
      BY <1>1, <2>1, <2>2, <2>3
  <1>5. Accounted'
    <2> SUFFICES ASSUME NEW e \in Days, e >= today, NEW v \in stored'[e]
                 PROVE  \/ v \in admitted'[e] \cup broken'[e]
                        \/ \E s \in Tasks : InProgress(s)' /\ call'[s].day = e /\ call'[s].use = v
      BY DEF Accounted
    <2>1. CASE e = d /\ v = u
      BY <2>1
    <2>2. CASE ~(e = d /\ v = u)
      <3>1. v \in stored[e]
        BY <2>2
      <3>2. \/ v \in admitted[e] \cup broken[e]
            \/ \E s \in Tasks : s # t /\ InProgress(s) /\ call[s].day = e /\ call[s].use = v
        BY <2>2, <3>1 DEF CarefulInv, Accounted
      <3>3. QED
        BY <2>2, <3>2 DEF InProgress
    <2>3. QED
      BY <2>1, <2>2
  <1>6. CallsCurrent'
    <2>1. ASSUME NEW s \in Tasks, s # t, InProgress(s)
          PROVE  LET c == call'[s] IN
                 /\ c.use \in stored'[c.day] <=> c.use \in stored[c.day]
                 /\ c.use \in admitted'[c.day] <=> c.use \in admitted[c.day]
      BY <1>2, <2>1, CallFields DEF WellFormed, CallsWellFormed
    <2>2. ASSUME NEW s \in Tasks, s # t, ~InProgress(s)
          PROVE  call'[s].pc = "idle"
      BY <2>2 DEF InProgress
    <2>3. \A s \in Tasks : s # t =>
            LET c == call'[s] IN
            /\ c.pc = "sadd" /\ c.use \in stored'[c.day] => c.use \in admitted'[c.day] \cup retried[c.day]
            /\ c.pc \in {"scard", "expire", "srem"} => c.use \in stored'[c.day]
            /\ c.pc = "scard" /\ ~c.added => c.use \in admitted'[c.day] \cup retried[c.day]
            /\ c.pc = "scard" /\ c.added => c.use \notin admitted'[c.day]
            /\ c.pc \in {"expire", "srem", "release"} => c.use \notin admitted'[c.day]
      BY <2>1, <2>2 DEF CarefulInv, CallsCurrent
    <2>4. LET c == call'[t] IN c.pc \in {"sadd", "scard", "expire", "srem", "release"} =>
            c.use = u /\ c.day = d
      BY DEF InProgress
    <2>5. QED
      BY <2>3, <2>4 DEF CallsCurrent
  <1>7. QED
    BY <1>3, <1>4, <1>5, <1>6

LEMMA SaddInv ==
  ASSUME Careful, WellFormed, CarefulInv, NEW t \in Tasks, Sadd(t)
  PROVE  CarefulInv'
  <1> DEFINE u == call[t].use
             d == call[t].day
  <1>1. /\ u = call[t].use /\ d = call[t].day /\ InProgress(t) /\ call[t].pc = "sadd"
        /\ u \in Uses /\ d \in Days /\ d <= today
    BY CallFields DEF Sadd, WellFormed, CallsWellFormed, InProgress
  <1>2. /\ call'[t].pc = "scard" /\ call'[t].use = u /\ call'[t].day = d
        /\ call'[t].added = (u \notin stored[d])
        /\ \A s \in Tasks : s # t => call'[s] = call[s]
    BY DEF Sadd, WellFormed, TypeOK, Calls
  <1>3. /\ stored' = [stored EXCEPT ![d] = @ \cup {u}]
        /\ UNCHANGED <<today, admitted, broken, retried>>
    BY DEF Sadd
  <1>4. TypeOK
    BY DEF WellFormed
  <1> HIDE DEF u, d
  <1>5. /\ u \in admitted[d] => u \in stored[d]
        /\ u \in stored[d] => u \in admitted[d] \cup retried[d]
        /\ u \in stored'[d]
        /\ \A e \in Days : stored'[e] \in SUBSET Uses
        /\ \A e \in Days, v \in Uses : e # d \/ v # u => (v \in stored'[e] <=> v \in stored[e])
    <2>1. u \in stored[d] => u \in admitted[d] \cup retried[d]
      BY <1>1 DEF CarefulInv, CallsCurrent
    <2>2. admitted[d] \subseteq stored[d]
      BY <1>1 DEF CarefulInv, Stored
    <2>3. QED
      BY <2>1, <2>2, <1>1, <1>3, <1>4 DEF TypeOK
  <1>6. Exclusive' /\ Stored' /\ Accounted' /\ CallsCurrent'
    <2>1. InProgress(t)'
      BY <1>2 DEF InProgress
    <2>2. \A e \in Days : admitted'[e] \in SUBSET Uses /\ broken'[e] \in SUBSET Uses
      BY <1>3, <1>4 DEF TypeOK
    <2>3. LET c == call'[t] IN
            /\ c.pc = "scard" /\ ~c.added => u \in admitted'[d] \cup retried[d]
            /\ c.pc = "scard" /\ c.added => u \notin admitted'[d]
      BY <1>2, <1>3, <1>5
    <2>4. QED
      BY <1>1, <1>2, <1>3, <1>5, <2>1, <2>2, <2>3, CallStep
  <1>7. \A e \in Days : Charged(e)' \subseteq Charged(e)
    BY <1>2, <1>3 DEF Charged, Passed, Pending
  <1>8. QED
    BY <1>6, <1>7, BoundKept DEF CarefulInv

\* A call whose answer is "allowed": its use is retried, was granted already, or has
\* passed.
LEMMA AllowInv ==
  ASSUME Careful, WellFormed, CarefulInv, NEW t \in Tasks, InProgress(t), Allow(t),
         UNCHANGED <<today, stored, broken, retried>>,
         call[t].use \in Passed(call[t].day) \cup retried[call[t].day], call[t].use \in stored[call[t].day]
  PROVE  CarefulInv'
  <1> DEFINE u == call[t].use
             d == call[t].day
  <1>1. /\ u = call[t].use /\ d = call[t].day
        /\ u \in Uses /\ d \in Days /\ u \in Passed(d) \cup retried[d] /\ u \in stored[d]
    BY CallFields DEF WellFormed, CallsWellFormed
  <1>2. TypeOK
    BY DEF WellFormed
  <1>3. call'[t] = Idle /\ \A s \in Tasks : s # t => call'[s] = call[s]
    BY <1>2, FinishEffect DEF Allow
  <1>4. admitted' = [admitted EXCEPT ![d] = @ \cup {u}]
    BY DEF Allow
  <1> HIDE DEF u, d
  <1>5. /\ u \in admitted'[d] /\ u \in stored'[d]
        /\ \A e \in Days : admitted'[e] \in SUBSET Uses
        /\ \A e \in Days, v \in Uses : e # d \/ v # u => (v \in admitted'[e] <=> v \in admitted[e])
    BY <1>1, <1>2, <1>4 DEF TypeOK
  <1>6. Exclusive' /\ Stored' /\ Accounted' /\ CallsCurrent'
    BY <1>1, <1>2, <1>3, <1>5, CallStep, IdleType DEF InProgress, TypeOK
  <1>7. \A e \in Days : Charged(e)' \subseteq Charged(e)
    <2>1. \A e \in Days : Pending(e)' \subseteq Pending(e)
      BY <1>3, IdleType DEF Pending
    <2>2. \A e \in Days : admitted'[e] \subseteq admitted[e] \cup Passed(e) \cup retried[e]
      BY <1>1, <1>2, <1>4 DEF TypeOK
    <2>3. QED
      BY <2>1, <2>2 DEF Charged, Passed
  <1>8. QED
    BY <1>6, <1>7, BoundKept DEF CarefulInv

LEMMA ScardOfCountedInv ==
  ASSUME Careful, WellFormed, CarefulInv, NEW t \in Tasks, ScardOfCounted(t)
  PROVE  CarefulInv' /\ call[t].use \in admitted[call[t].day] \cup retried[call[t].day]
  <1>1. /\ InProgress(t) /\ Allow(t) /\ UNCHANGED <<today, stored, broken, retried>>
        /\ call[t].use \in admitted[call[t].day] \cup retried[call[t].day]
        /\ call[t].use \in stored[call[t].day]
    BY DEF ScardOfCounted, InProgress, CarefulInv, CallsCurrent
  <1>2. QED
    BY <1>1, AllowInv DEF Passed

LEMMA ExpireWithinLimitInv ==
  ASSUME Careful, WellFormed, CarefulInv, NEW t \in Tasks, ExpireWithinLimit(t)
  PROVE  /\ CarefulInv' /\ call[t].use \in Passed(call[t].day)
         /\ call[t].use \notin admitted[call[t].day]
  <1>1. /\ InProgress(t) /\ Allow(t) /\ UNCHANGED <<today, stored, broken, retried>>
        /\ call[t].use \in Pending(call[t].day) /\ call[t].use \in stored[call[t].day]
        /\ call[t].use \notin admitted[call[t].day]
    BY DEF ExpireWithinLimit, InProgress, CarefulInv, CallsCurrent, Pending
  <1>2. QED
    BY <1>1, AllowInv DEF Passed

\* The count is taken of a set that holds every use passed so far and this one.
LEMMA ScardOfAddedInv ==
  ASSUME Careful, WellFormed, CarefulInv, NEW t \in Tasks, ScardOfAdded(t)
  PROVE  CarefulInv'
  <1> DEFINE u == call[t].use
             d == call[t].day
  <1>1. /\ u = call[t].use /\ d = call[t].day /\ InProgress(t)
        /\ call[t].pc = "scard" /\ call[t].added
        /\ u \in Uses /\ d \in Days /\ d <= today
    BY CallFields DEF ScardOfAdded, WellFormed, CallsWellFormed, InProgress
  <1>2. TypeOK
    BY DEF WellFormed
  <1>3. /\ call'[t].pc = "expire" /\ call'[t].use = u /\ call'[t].day = d
        /\ call'[t].used = Cardinality(stored[d])
        /\ \A s \in Tasks : s # t => call'[s] = call[s]
        /\ UNCHANGED <<today, stored, admitted, broken, retried>>
    BY <1>2 DEF ScardOfAdded, TypeOK, Calls
  <1> HIDE DEF u, d
  <1>4. u \in stored[d] /\ u \notin admitted[d]
    BY <1>1 DEF CarefulInv, CallsCurrent
  <1>5. Exclusive' /\ Stored' /\ Accounted' /\ CallsCurrent'
    BY <1>1, <1>2, <1>3, <1>4, CallStep DEF InProgress, TypeOK
  <1>6. \A e \in Days : Passed(e)' \subseteq Passed(e) \/ (Passed(e)' \subseteq stored[e] /\ Cardinality(stored[e]) <= Limit)
    <2> SUFFICES ASSUME NEW e \in Days, ~(Passed(e)' \subseteq Passed(e))
                 PROVE  Passed(e)' \subseteq stored[e] /\ Cardinality(stored[e]) <= Limit
      OBVIOUS
    <2>1. Pending(e)' \subseteq Pending(e) \cup {u}
      BY <1>3 DEF Pending
    <2>2. e = d /\ Cardinality(stored[d]) <= Limit
      <3>1. e # d \/ ~(Cardinality(stored[d]) <= Limit) => Pending(e)' \subseteq Pending(e)
        BY <1>3 DEF Pending
      <3>2. QED
        BY <3>1, <1>3 DEF Passed
    <2>3. Pending(e) \subseteq stored[e]
      BY DEF Pending, CarefulInv, CallsCurrent
    <2>4. admitted[e] \subseteq stored[e]
      BY <1>1, <2>2 DEF CarefulInv, Stored
    <2>5. QED
      BY <1>3, <1>4, <2>1, <2>2, <2>3, <2>4 DEF Passed
  <1>7. PassedWithinLimit'
    <2>1. ASSUME NEW e \in Days
          PROVE  \/ Charged(e)' \subseteq Charged(e)
                 \/ Charged(e)' \subseteq stored[e] /\ Cardinality(stored[e]) <= Limit
      <3>1. Charged(e)' = Passed(e)' \ retried[e]
        BY <1>3 DEF Charged
      <3>2. CASE Passed(e)' \subseteq Passed(e)
        BY <3>1, <3>2 DEF Charged
      <3>3. CASE Passed(e)' \subseteq stored[e] /\ Cardinality(stored[e]) <= Limit
        BY <3>1, <3>3
      <3>4. QED
        BY <1>6, <3>2, <3>3
    <2>2. QED
      BY <2>1, BoundStep DEF CarefulInv
  <1>8. QED
    BY <1>5, <1>7 DEF CarefulInv

LEMMA ExpireOverLimitInv ==
  ASSUME Careful, WellFormed, CarefulInv, NEW t \in Tasks, ExpireOverLimit(t)
  PROVE  CarefulInv'
  <1> DEFINE u == call[t].use
             d == call[t].day
  <1>1. /\ u = call[t].use /\ d = call[t].day /\ InProgress(t) /\ call[t].pc = "expire"
        /\ u \in stored[d] /\ u \notin admitted[d]
    BY DEF ExpireOverLimit, InProgress, CarefulInv, CallsCurrent
  <1>2. TypeOK
    BY DEF WellFormed
  <1>3. /\ call'[t].pc = "srem" /\ call'[t].use = u /\ call'[t].day = d
        /\ \A s \in Tasks : s # t => call'[s] = call[s]
        /\ UNCHANGED <<today, stored, admitted, broken, retried>>
    BY <1>2 DEF ExpireOverLimit, Goto, TypeOK, Calls
  <1> HIDE DEF u, d
  <1>4. Exclusive' /\ Stored' /\ Accounted' /\ CallsCurrent'
    BY <1>1, <1>2, <1>3, CallStep DEF InProgress, TypeOK
  <1>5. \A e \in Days : Charged(e)' \subseteq Charged(e)
    BY <1>3 DEF Charged, Passed, Pending
  <1>6. QED
    BY <1>4, <1>5, BoundKept DEF CarefulInv

\* A call that ends, answering no or broken off: its use may be put into the set
\* or, not being granted, taken out of it.
LEMMA EndInv ==
  ASSUME Careful, WellFormed, CarefulInv, NEW t \in Tasks, NEW u, NEW d,
         InProgress(t), u = call[t].use, d = call[t].day, Finish(t),
         UNCHANGED <<today, admitted, retried>>,
         broken' \in [Days -> SUBSET Uses],
         stored' \in [Days -> SUBSET Uses],
         \A e \in Days, v \in Uses : e # d \/ v # u =>
            (v \in broken'[e] <=> v \in broken[e]) /\ (v \in stored'[e] <=> v \in stored[e]),
         u \in stored'[d] => u \in admitted'[d] \/ u \in broken'[d],
         u \in admitted[d] => u \in stored'[d]
  PROVE  CarefulInv'
  <1>1. TypeOK /\ u \in Uses /\ d \in Days
    BY CallFields DEF WellFormed, CallsWellFormed
  <1>2. call'[t] = Idle /\ \A s \in Tasks : s # t => call'[s] = call[s]
    BY <1>1, FinishEffect
  <1>3. /\ \A e \in Days : admitted'[e] \in SUBSET Uses /\ broken'[e] \in SUBSET Uses
        /\ \A e \in Days, v \in Uses : e # d \/ v # u =>
             v \in admitted'[e] <=> v \in admitted[e]
    BY <1>1 DEF TypeOK
  <1>4. Exclusive' /\ Stored' /\ Accounted' /\ CallsCurrent'
    BY <1>1, <1>2, <1>3, CallStep, IdleType DEF InProgress
  <1>5. \A e \in Days : Charged(e)' \subseteq Charged(e)
    BY <1>2, IdleType DEF Charged, Passed, Pending
  <1>6. QED
    BY <1>4, <1>5, BoundKept DEF CarefulInv

LEMMA SremInv ==
  ASSUME Careful, WellFormed, CarefulInv, NEW t \in Tasks, SremRefused(t) \/ SremReleased(t)
  PROVE  CarefulInv'
  <1>1. /\ Remove(call[t].day, call[t].use) /\ Finish(t)
        /\ UNCHANGED <<today, admitted, broken, retried>>
        /\ InProgress(t) /\ call[t].use \notin admitted[call[t].day]
    BY DEF SremRefused, SremReleased, InProgress, CarefulInv, CallsCurrent
  <1>2. TypeOK /\ call[t].day \in Days
    BY CallFields DEF WellFormed
  <1>3. /\ stored' \in [Days -> SUBSET Uses]
        /\ stored'[call[t].day] = stored[call[t].day] \ {call[t].use}
        /\ \A e \in Days : e # call[t].day => stored'[e] = stored[e]
    BY <1>1, <1>2, RemoveTypes
  <1>4. QED
    BY <1>1, <1>2, <1>3, EndInv DEF TypeOK

LEMMA BreakInv ==
  ASSUME Careful, WellFormed, CarefulInv, NEW t \in Tasks, Break(t)
  PROVE  CarefulInv'
  <1> DEFINE u == call[t].use
             d == call[t].day
  <1>1. /\ u = call[t].use /\ d = call[t].day /\ InProgress(t) /\ Finish(t)
        /\ u \in Uses /\ d \in Days
        /\ broken' = [broken EXCEPT ![d] = @ \cup {u}]
        /\ UNCHANGED <<today, admitted, retried>>
    BY CallFields DEF Break, WellFormed, CallsWellFormed
  <1>2. TypeOK
    BY DEF WellFormed
  <1>3. \/ stored' = stored
        \/ stored' = [stored EXCEPT ![d] = @ \cup {u}]
        \/ call[t].pc \in {"srem", "release"} /\ Remove(d, u)
    BY DEF Break, MayHaveRun
  <1>4. admitted[d] \subseteq stored[d]
    BY <1>1 DEF CarefulInv, Stored
  <1>5. call[t].pc \in {"srem", "release"} => u \notin admitted[d]
    BY DEF CarefulInv, CallsCurrent
  <1> HIDE DEF u, d
  <1>6. /\ u \in broken'[d] /\ broken' \in [Days -> SUBSET Uses]
        /\ \A e \in Days, v \in Uses : e # d \/ v # u => (v \in broken'[e] <=> v \in broken[e])
    BY <1>1, <1>2 DEF TypeOK
  <1>7. /\ stored' \in [Days -> SUBSET Uses]
        /\ \A e \in Days, v \in Uses : e # d \/ v # u => (v \in stored'[e] <=> v \in stored[e])
        /\ u \in admitted[d] => u \in stored'[d]
    <2>1. CASE stored' = stored \/ stored' = [stored EXCEPT ![d] = @ \cup {u}]
      BY <1>1, <1>2, <1>4, <2>1 DEF TypeOK
    <2>2. CASE call[t].pc \in {"srem", "release"} /\ Remove(d, u)
      <3>1. /\ stored' \in [Days -> SUBSET Uses] /\ stored'[d] = stored[d] \ {u}
            /\ \A e \in Days : e # d => stored'[e] = stored[e]
        BY <1>1, <1>2, <2>2, RemoveTypes
      <3>2. QED
        BY <1>5, <2>2, <3>1
    <2>3. QED
      BY <1>3, <2>1, <2>2
  <1>8. QED
    BY <1>1, <1>6, <1>7, EndInv

LEMMA NextDayInv ==
  ASSUME Careful, WellFormed, CarefulInv, NextDay
  PROVE  CarefulInv'
  <1>1. today \in Nat /\ today' = today + 1 /\ UNCHANGED <<stored, call, admitted, broken, retried>>
    BY DEF NextDay, WellFormed, TypeOK, Days
  <1>2. \A e \in Days : (e >= today' => e >= today) /\ (e > today' => e > today)
    BY <1>1 DEF Days
  <1>3. Exclusive' /\ CallsCurrent'
    BY <1>1 DEF CarefulInv, Exclusive, CallsCurrent, InProgress
  <1>4. Stored' /\ Accounted'
    BY <1>1, <1>2 DEF CarefulInv, Stored, Accounted, InProgress
  <1>5. \A e \in Days : Charged(e)' \subseteq Charged(e)
    BY <1>1 DEF Charged, Passed, Pending
  <1>6. QED
    BY <1>3, <1>4, <1>5, BoundKept DEF CarefulInv

LEMMA PurgeInv ==
  ASSUME Careful, WellFormed, CarefulInv, NEW d \in Days, Purge(d)
  PROVE  CarefulInv'
  <1>1. /\ today \in Nat /\ d \in Nat /\ d < today
        /\ \A s \in Tasks : InProgress(s) => call[s].day # d
        /\ stored'[d] = {} /\ \A e \in Days : e # d => stored'[e] = stored[e]
        /\ UNCHANGED <<today, call, admitted, broken, retried>>
    BY DEF Purge, WellFormed, TypeOK, Days
  <1>2. Exclusive'
    BY <1>1 DEF CarefulInv, Exclusive, InProgress
  <1>3. CallsCurrent'
    <2>1. ASSUME NEW s \in Tasks, InProgress(s)
          PROVE  call'[s] = call[s] /\ stored'[call[s].day] = stored[call[s].day]
      BY <1>1, <2>1, CallFields DEF WellFormed
    <2>2. QED
      BY <1>1, <2>1 DEF CarefulInv, CallsCurrent, InProgress
  <1>4. Stored' /\ Accounted'
    BY <1>1 DEF CarefulInv, Stored, Accounted, InProgress
  <1>5. \A e \in Days : Charged(e)' \subseteq Charged(e)
    BY <1>1 DEF Charged, Passed, Pending
  <1>6. QED
    BY <1>2, <1>3, <1>4, <1>5, BoundKept DEF CarefulInv

LEMMA CarefulStep ==
  ASSUME Careful, WellFormed, CarefulInv, [Next]_vars
  PROVE  CarefulInv'
  <1>1. CASE UNCHANGED vars
    <2>1. \A e \in Days : Charged(e)' \subseteq Charged(e)
      BY <1>1 DEF vars, Charged, Passed, Pending
    <2>2. QED
      BY <1>1, <2>1, BoundKept
         DEF vars, CarefulInv, Exclusive, Stored, Accounted, CallsCurrent, InProgress
  <1>2. ASSUME NEW t \in Tasks, Consume(t) \/ SremReleased(t) \/ Break(t)
        PROVE  CarefulInv'
    BY <1>2, SaddInv, ScardOfCountedInv, ScardOfAddedInv, ExpireWithinLimitInv, ExpireOverLimitInv,
       SremInv, BreakInv DEF Consume
  <1>3. QED
    BY <1>1, <1>2, BeginConsumeInv, BeginReleaseInv, NextDayInv, PurgeInv DEF Next

\* IInv holds in every reachable state.
THEOREM Invariance == Spec => []IInv
  <1>1. Init => WellFormed /\ (Careful => CarefulInv)
    BY WellFormedInit, CarefulInit
  <1>2. WellFormed /\ (Careful => CarefulInv) /\ [Next]_vars => (WellFormed /\ (Careful => CarefulInv))'
    BY WellFormedStep, CarefulStep
  <1>3. WellFormed /\ (Careful => CarefulInv) => IInv
    BY DEF WellFormed, CarefulInv, IInv
  <1>4. QED
    BY <1>1, <1>2, <1>3, PTL DEF Spec

-----------------------------------------------------------------------------
(* What careful callers get *)

\* If callers are careful, no day ever has more than Limit uses granted and not
\* given back, but for those consumed again after a call for them broke off: racing
\* consumes and calls broken off at any command cannot exceed it.
THEOREM LimitTheorem == Careful => (Spec => []AdmittedWithinLimit)
  <1> SUFFICES ASSUME Careful
               PROVE  Spec => []AdmittedWithinLimit
    OBVIOUS
  <1>1. IInv => AdmittedWithinLimit
    <2> SUFFICES ASSUME IInv
                 PROVE  AdmittedWithinLimit
      OBVIOUS
    <2>1. ASSUME NEW d \in Days
          PROVE  Cardinality(admitted[d] \ retried[d]) <= Limit
      <3>1. /\ IsFiniteSet(Charged(d)) /\ Cardinality(Charged(d)) \in Nat
            /\ Cardinality(Charged(d)) <= Limit
        BY ChargedFinite DEF IInv, WellFormed, PassedWithinLimit, Charged
      <3>2. admitted[d] \ retried[d] \subseteq Charged(d)
        BY DEF Charged, Passed
      <3>3. /\ Cardinality(admitted[d] \ retried[d]) \in Nat
            /\ Cardinality(admitted[d] \ retried[d]) <= Cardinality(Charged(d))
        BY <3>1, <3>2, FS_Subset, FS_CardinalityType
      <3>4. QED
        BY <3>1, <3>3, AllowanceAssumption
    <2>2. QED
      BY <2>1 DEF AdmittedWithinLimit
  <1>2. QED
    BY <1>1, Invariance, PTL

\* If callers are careful, consume and release implement the daily allowance:
\* every answer "allowed" is a Grant, every use given back a GiveBack, a use tried
\* again after its call broke off a Waive, and no other step shows.
THEOREM RefinementTheorem == Careful => (Spec => DailyAllowanceSpec)
  <1> SUFFICES ASSUME Careful
               PROVE  Spec => DailyAllowanceSpec
    OBVIOUS
  <1>1. Init => Daily!DailyInit
    <2> SUFFICES ASSUME admitted = [d \in Days |-> {}], retried = [d \in Days |-> {}]
                 PROVE  Daily!DailyInit
      BY DEF Init
    <2> QED BY DEF Daily!DailyInit
  <1>2. IInv /\ [Next]_vars => [Daily!DailyNext]_<<admitted, retried>>
    <2> SUFFICES ASSUME IInv, [Next]_vars
                 PROVE  [Daily!DailyNext]_<<admitted, retried>>
      OBVIOUS
    <2>0. WellFormed /\ CarefulInv
      BY DEF IInv, WellFormed, CarefulInv
    <2>1. ASSUME NEW t \in Tasks, ScardOfCounted(t)
          PROVE  Daily!DailyNext
      <3>1. /\ call[t].use \in Uses /\ call[t].day \in Days
            /\ call[t].use \in admitted[call[t].day] \cup retried[call[t].day]
        BY <2>0, <2>1, ScardOfCountedInv, CallFields
           DEF ScardOfCounted, WellFormed, CallsWellFormed, InProgress
      <3>2. Daily!Grant(call[t].day, call[t].use)
        BY <2>1, <3>1 DEF ScardOfCounted, Allow, Daily!Grant
      <3>3. QED
        BY <3>1, <3>2 DEF Daily!DailyNext
    <2>2. ASSUME NEW t \in Tasks, ExpireWithinLimit(t)
          PROVE  Daily!DailyNext
      <3> DEFINE u == call[t].use
                 d == call[t].day
                 A == admitted[d] \ retried[d]
      <3>1. u \in Uses /\ d \in Days /\ u \in Passed(d) /\ u \notin admitted[d]
        BY <2>0, <2>2, ExpireWithinLimitInv, CallFields
           DEF ExpireWithinLimit, WellFormed, CallsWellFormed, InProgress
      <3>2. admitted' = [admitted EXCEPT ![d] = @ \cup {u}] /\ UNCHANGED retried
        BY <2>2 DEF ExpireWithinLimit, Allow
      <3>3. u \notin retried[d] => Cardinality(A) < Limit
        <4> SUFFICES ASSUME u \notin retried[d]
                     PROVE  Cardinality(A) < Limit
          OBVIOUS
        <4>1. /\ IsFiniteSet(Charged(d)) /\ Cardinality(Charged(d)) \in Nat
              /\ Cardinality(Charged(d)) <= Limit
          BY <2>0, <3>1, ChargedFinite DEF CarefulInv, PassedWithinLimit, Charged
        <4>2. A \cup {u} \subseteq Charged(d) /\ u \notin A
          BY <3>1 DEF Charged, Passed
        <4> HIDE DEF A
        <4>3. IsFiniteSet(A) /\ Cardinality(A) \in Nat
          BY <4>1, <4>2, FS_Subset, FS_CardinalityType
        <4>4. Cardinality(A \cup {u}) = Cardinality(A) + 1
          BY <4>2, <4>3, FS_AddElement
        <4>5. Cardinality(A \cup {u}) <= Cardinality(Charged(d))
          BY <4>1, <4>2, FS_Subset
        <4>6. QED
          BY <4>1, <4>3, <4>4, <4>5, AllowanceAssumption
      <3> HIDE DEF u, d
      <3>4. Daily!Grant(d, u)
        BY <3>2, <3>3 DEF Daily!Grant, Daily!Cardinality, Cardinality, Daily!IsFiniteSet, IsFiniteSet
      <3>5. QED
        BY <3>1, <3>4 DEF Daily!DailyNext
    <2>3. ASSUME NEW t \in Tasks, NEW u \in Uses, NEW d \in Days, BeginRelease(t, u, d)
          PROVE  Daily!DailyNext
      BY <2>3 DEF BeginRelease, Daily!DailyNext, Daily!GiveBack
    <2>4. ASSUME NEW t \in Tasks, NEW u \in Uses, BeginConsume(t, u)
          PROVE  [Daily!DailyNext]_<<admitted, retried>>
      <3>1. today \in Days /\ retried \in [Days -> SUBSET Uses] /\ UNCHANGED admitted
        BY <2>0, <2>4 DEF BeginConsume, WellFormed, TypeOK
      <3>2. CASE u \in broken[today]
        <4>1. retried' = [retried EXCEPT ![today] = @ \cup {u}]
          BY <2>4, <3>2 DEF BeginConsume
        <4>2. QED
          BY <3>1, <4>1 DEF Daily!DailyNext, Daily!Waive
      <3>3. CASE u \notin broken[today]
        <4>1. retried' = retried
          BY <2>4, <3>1, <3>3 DEF BeginConsume
        <4>2. QED
          BY <3>1, <4>1
      <3>4. QED
        BY <3>2, <3>3
    <2>5. QED
      BY <2>1, <2>2, <2>3, <2>4
         DEF Next, vars, Consume, Sadd, ScardOfAdded, ExpireOverLimit, SremRefused,
             SremReleased, Break, NextDay, Purge
  <1>3. QED
    BY <1>1, <1>2, Invariance, PTL DEF Spec, DailyAllowanceSpec, Daily!DailySpec

\* The daily allowance alone, whoever keeps it, stays within the limit: what the
\* refinement shows is no weaker than the bound.
THEOREM DailyWithinLimit == DailyAllowanceSpec => []AdmittedWithinLimit
  <1> DEFINE Granted == admitted \in [Days -> SUBSET Uses] /\ retried \in [Days -> SUBSET Uses]
  <1>1. Daily!DailyInit => Granted /\ AdmittedWithinLimit
    <2> SUFFICES ASSUME admitted = [d \in Days |-> {}], retried = [d \in Days |-> {}]
                 PROVE  Granted /\ AdmittedWithinLimit
      BY DEF Daily!DailyInit
    <2>1. \A d \in Days : admitted[d] \ retried[d] = {}
      OBVIOUS
    <2>2. Cardinality({}) <= Limit
      BY FS_EmptySet, AllowanceAssumption
    <2>3. AdmittedWithinLimit
      BY <2>1, <2>2, Zenon DEF AdmittedWithinLimit
    <2>4. QED
      BY <2>3
  <1>2. Granted /\ AdmittedWithinLimit /\ [Daily!DailyNext]_<<admitted, retried>>
          => (Granted /\ AdmittedWithinLimit)'
    <2> SUFFICES ASSUME Granted, AdmittedWithinLimit, Daily!DailyNext
                 PROVE  (Granted /\ AdmittedWithinLimit)'
      BY DEF AdmittedWithinLimit
    <2>1. PICK d \in Days, u \in Uses : Daily!Grant(d, u) \/ Daily!GiveBack(d, u) \/ Daily!Waive(d, u)
      BY DEF Daily!DailyNext
    <2>2. Granted'
      BY <2>1 DEF Daily!Grant, Daily!GiveBack, Daily!Waive
    <2>3. ASSUME NEW e \in Days
          PROVE  Cardinality(admitted'[e] \ retried'[e]) <= Limit
      <3> DEFINE A == admitted[e] \ retried[e]
                 B == admitted'[e] \ retried'[e]
      <3>1. IsFiniteSet(A) /\ Cardinality(A) \in Nat /\ Cardinality(A) <= Limit
        BY FS_Subset, FS_CardinalityType, AllowanceAssumption DEF AdmittedWithinLimit
      <3>2. B \subseteq A \/ (B \subseteq A \cup {u} /\ Cardinality(A) < Limit)
        <4>1. CASE Daily!Grant(d, u)
          BY <4>1 DEF Daily!Grant, Daily!Cardinality, Cardinality, Daily!IsFiniteSet, IsFiniteSet
        <4>2. CASE Daily!GiveBack(d, u) \/ Daily!Waive(d, u)
          BY <4>2 DEF Daily!GiveBack, Daily!Waive
        <4>3. QED
          BY <2>1, <4>1, <4>2
      <3> SUFFICES Cardinality(B) <= Limit
        OBVIOUS
      <3> HIDE DEF A, B
      <3>3. CASE B \subseteq A
        BY <3>1, <3>3, FS_Subset, FS_CardinalityType, AllowanceAssumption
      <3>4. CASE B \subseteq A \cup {u} /\ Cardinality(A) < Limit
        <4>1. /\ IsFiniteSet(A \cup {u}) /\ Cardinality(A \cup {u}) \in Nat
              /\ Cardinality(A \cup {u}) <= Cardinality(A) + 1
          <5>1. Cardinality(A \cup {u}) = IF u \in A THEN Cardinality(A) ELSE Cardinality(A) + 1
            BY <3>1, FS_AddElement
          <5>2. IsFiniteSet(A \cup {u})
            BY <3>1, FS_AddElement
          <5>3. QED
            BY <3>1, <5>1, <5>2
        <4>2. Cardinality(B) \in Nat /\ Cardinality(B) <= Cardinality(A \cup {u})
          BY <3>4, <4>1, FS_Subset, FS_CardinalityType
        <4>3. QED
          BY <3>1, <3>4, <4>1, <4>2, AllowanceAssumption
      <3>5. QED
        BY <3>2, <3>3, <3>4
    <2>4. QED
      BY <2>2, <2>3 DEF AdmittedWithinLimit
  <1>3. QED
    BY <1>1, <1>2, PTL DEF DailyAllowanceSpec, Daily!DailySpec

\* If callers are careful, today's set holds exactly the uses granted whenever no
\* call on it is in progress or broke off.
THEOREM CountTheorem == Careful => (Spec => []CountIsExact)
  <1> SUFFICES ASSUME Careful
               PROVE  Spec => []CountIsExact
    OBVIOUS
  <1>1. IInv => CountIsExact
    <2> SUFFICES ASSUME IInv, Quiet(today)
                 PROVE  stored[today] = admitted[today]
      BY DEF CountIsExact
    <2>1. today \in Days /\ today >= today
      BY DEF IInv, TypeOK, Days
    <2>2. stored[today] \subseteq admitted[today]
      BY <2>1 DEF IInv, Accounted, Quiet
    <2>3. admitted[today] \subseteq stored[today]
      BY <2>1 DEF IInv, Stored
    <2>4. QED
      BY <2>2, <2>3
  <1>2. QED
    BY <1>1, Invariance, PTL

LEMMA ScardStep ==
  ASSUME WellFormed, [Next]_vars, NEW t \in Tasks, call[t].pc = "scard", call'[t].pc = "expire"
  PROVE  ScardOfAdded(t)
  <1>0. TypeOK
    BY DEF WellFormed
  <1>1. ASSUME NEW s \in Tasks, call' = [call EXCEPT ![s] = call'[s]], call'[s].pc # "expire" \/ call[s].pc # "scard"
        PROVE  FALSE
    BY <1>0, <1>1 DEF TypeOK
  <1>2. ASSUME NEW s \in Tasks, NEW u \in Uses, NEW d \in Days,
               BeginConsume(s, u) \/ BeginRelease(s, u, d)
        PROVE  FALSE
    <2>1. call' = [call EXCEPT ![s] = call'[s]] /\ call[s].pc = "idle"
      BY <1>0, <1>2 DEF BeginConsume, BeginRelease, InProgress, TypeOK
    <2>2. QED
      BY <1>1, <2>1
  <1>3. ASSUME NEW s \in Tasks, Sadd(s) \/ ExpireWithinLimit(s) \/ ExpireOverLimit(s)
                                \/ SremRefused(s) \/ SremReleased(s)
        PROVE  FALSE
    <2>1. call' = [call EXCEPT ![s] = call'[s]] /\ call[s].pc # "scard"
      BY <1>0, <1>3 DEF Sadd, ExpireWithinLimit, ExpireOverLimit, SremRefused, SremReleased,
                        Allow, Finish, Goto, TypeOK
    <2>2. QED
      BY <1>1, <2>1
  <1>4. ASSUME NEW s \in Tasks, ScardOfCounted(s) \/ Break(s)
        PROVE  FALSE
    <2>1. call' = [call EXCEPT ![s] = call'[s]] /\ call'[s].pc = "idle"
      BY <1>0, <1>4, FinishEffect, IdleType DEF ScardOfCounted, Break, Allow, Finish, TypeOK
    <2>2. QED
      BY <1>1, <2>1
  <1>5. ASSUME NEW s \in Tasks, ScardOfAdded(s)
        PROVE  s = t
    <2>1. call' = [call EXCEPT ![s] = call'[s]]
      BY <1>0, <1>5 DEF ScardOfAdded, TypeOK
    <2>2. QED
      BY <1>0, <2>1 DEF TypeOK
  <1>6. ~(NextDay \/ UNCHANGED vars \/ \E d \in Days : Purge(d))
    BY DEF NextDay, Purge, vars
  <1>7. today \in Days
    BY <1>0 DEF TypeOK
  <1>8. QED
    BY <1>2, <1>3, <1>4, <1>5, <1>6, <1>7 DEF Next, Consume

\* If callers are careful, a use is found over the limit on its day only when Limit
\* other uses of that day are granted, in progress or left by a broken call.
THEOREM RefusalTheorem == Careful => (Spec => RefusalJustified)
  <1> SUFFICES ASSUME Careful
               PROVE  Spec => RefusalJustified
    OBVIOUS
  <1> USE AllowanceAssumption
  <1>1. ASSUME IInv, [Next]_vars, NEW t \in Tasks, call[t].day = today,
               call[t].pc = "scard", call'[t].pc = "expire", call'[t].used > Limit
        PROVE  Cardinality(Others(t)) >= Limit
    <2>1. WellFormed
      BY <1>1 DEF IInv, WellFormed
    <2>2. ScardOfAdded(t)
      BY <1>1, <2>1, ScardStep
    <2> DEFINE d == call[t].day
               u == call[t].use
    <2>3. d \in Days /\ d >= today /\ call'[t].used = Cardinality(stored[d])
      BY <1>1, <2>1, <2>2, CallFields DEF ScardOfAdded, WellFormed, TypeOK, Days
    <2>4. stored[d] \ {u} \subseteq Others(t)
      <3>1. \A x \in stored[d] :
              \/ x \in admitted[d] \cup broken[d]
              \/ \E s \in Tasks : InProgress(s) /\ call[s].day = d /\ call[s].use = x
        BY <1>1, <2>3 DEF IInv, Accounted
      <3>2. QED
        BY <3>1 DEF Others
    <2>5. IsFiniteSet(Others(t)) /\ Cardinality(Others(t)) \in Nat
      <3>1. Others(t) \subseteq Uses
        <4>1. \A s \in Tasks : InProgress(s) => call[s].use \in Uses
          BY <2>1 DEF WellFormed, CallsWellFormed
        <4>2. admitted[d] \subseteq Uses /\ broken[d] \subseteq Uses
          BY <2>1, <2>3 DEF WellFormed, TypeOK
        <4>3. QED
          BY <4>1, <4>2 DEF Others
      <3>2. QED
        BY <3>1, FS_Subset, FS_CardinalityType
    <2>6. IsFiniteSet(stored[d]) /\ Cardinality(stored[d]) \in Nat
      BY <2>1, <2>3, CountType DEF WellFormed
    <2> HIDE DEF d, u
    <2>7. Cardinality(stored[d] \ {u}) >= Cardinality(stored[d]) - 1
      <3>1. Cardinality(stored[d] \ {u}) =
              IF u \in stored[d] THEN Cardinality(stored[d]) - 1 ELSE Cardinality(stored[d])
        BY <2>6, FS_RemoveElement
      <3>2. QED
        BY <2>6, <3>1
    <2>8. Cardinality(stored[d] \ {u}) \in Nat /\ Cardinality(stored[d] \ {u}) <= Cardinality(Others(t))
      BY <2>4, <2>5, FS_Subset, FS_CardinalityType
    <2>9. QED
      BY <1>1, <2>3, <2>5, <2>6, <2>7, <2>8
  <1>2. IInv /\ [Next]_vars =>
          [\A t \in Tasks :
             (/\ call[t].day = today
              /\ call[t].pc = "scard" /\ call'[t].pc = "expire" /\ call'[t].used > Limit) =>
               Cardinality(Others(t)) >= Limit]_vars
    BY <1>1
  <1>3. QED
    BY <1>2, Invariance, PTL DEF Spec, RefusalJustified

-----------------------------------------------------------------------------
(* What all callers get *)

\* A step that leaves a day's set, its time to live and its calls as they are, or
\* gives the set a time to live, empties it or marks the day as broken.
LEMMA KeyKept ==
  ASSUME NEW d \in Days, KeysKept,
         \/ stored'[d] = {} \/ expiring'[d] \/ broken'[d] # {}
         \/ /\ stored'[d] = stored[d] /\ expiring'[d] = expiring[d] /\ broken'[d] = broken[d]
            /\ \A t \in Tasks : call[t].day = d /\ AboutToExpire(t) => call'[t] = call[t]
  PROVE  stored'[d] # {} =>
           expiring'[d] \/ broken'[d] # {} \/ \E t \in Tasks : call'[t].day = d /\ AboutToExpire(t)'
  BY DEF KeysKept, AboutToExpire

LEMMA KeysKeptStep == WellFormed /\ KeysKept /\ [Next]_vars => KeysKept'
  <1> SUFFICES ASSUME WellFormed, KeysKept, [Next]_vars, NEW d \in Days, stored'[d] # {}
               PROVE  expiring'[d] \/ broken'[d] # {} \/ \E t \in Tasks : call'[t].day = d /\ AboutToExpire(t)'
    BY DEF KeysKept
  <1>0. TypeOK /\ \A t \in Tasks : call[t].day \in Days
    BY CallFields DEF WellFormed
  <1>1. ASSUME NEW t \in Tasks, call' = [call EXCEPT ![t] = call'[t]], ~AboutToExpire(t),
               UNCHANGED <<stored, expiring, broken>>
        PROVE  expiring'[d] \/ broken'[d] # {} \/ \E s \in Tasks : call'[s].day = d /\ AboutToExpire(s)'
    <2>1. \A s \in Tasks : AboutToExpire(s) => call'[s] = call[s]
      BY <1>0, <1>1 DEF TypeOK
    <2>2. QED
      BY <1>1, <2>1, KeyKept
  <1>2. ASSUME NEW t \in Tasks, NEW u \in Uses, NEW e \in Days,
               BeginConsume(t, u) \/ BeginRelease(t, u, e)
        PROVE  expiring'[d] \/ broken'[d] # {} \/ \E s \in Tasks : call'[s].day = d /\ AboutToExpire(s)'
    <2>1. call' = [call EXCEPT ![t] = call'[t]] /\ UNCHANGED <<stored, expiring, broken>>
      BY <1>0, <1>2 DEF BeginConsume, BeginRelease, TypeOK
    <2>2. ~AboutToExpire(t)
      BY <1>2 DEF BeginConsume, BeginRelease, InProgress, AboutToExpire
    <2>3. QED
      BY <1>1, <2>1, <2>2
  <1>3. ASSUME NEW t \in Tasks, Sadd(t)
        PROVE  expiring'[d] \/ broken'[d] # {} \/ \E s \in Tasks : call'[s].day = d /\ AboutToExpire(s)'
    <2> DEFINE c == [call[t] EXCEPT !.pc = "scard", !.added = call[t].use \notin stored[call[t].day]]
    <2>1. /\ c.pc = "scard" /\ c.day = call[t].day
          /\ c.added = (call[t].use \notin stored[call[t].day])
      BY <1>0, CallFields DEF Calls
    <2>2. call' = [call EXCEPT ![t] = c]
      BY <1>3 DEF Sadd
    <2> HIDE DEF c
    <2>3. call'[t] = c /\ \A s \in Tasks : s # t => call'[s] = call[s]
      BY <1>0, <2>2 DEF TypeOK
    <2>4. CASE call[t].day = d /\ call[t].use \notin stored[d]
      BY <2>1, <2>3, <2>4 DEF AboutToExpire
    <2>5. CASE ~(call[t].day = d /\ call[t].use \notin stored[d])
      <3>1. stored'[d] = stored[d] /\ expiring'[d] = expiring[d] /\ broken'[d] = broken[d]
        BY <1>0, <1>3, <2>5 DEF Sadd, TypeOK
      <3>2. ~AboutToExpire(t)
        BY <1>3 DEF Sadd, AboutToExpire
      <3>3. QED
        BY <2>3, <3>1, <3>2, KeyKept
    <2>6. QED
      BY <2>4, <2>5
  <1>4. ASSUME NEW t \in Tasks, ScardOfCounted(t)
        PROVE  expiring'[d] \/ broken'[d] # {} \/ \E s \in Tasks : call'[s].day = d /\ AboutToExpire(s)'
    <2>1. call' = [call EXCEPT ![t] = call'[t]] /\ UNCHANGED <<stored, expiring, broken>>
      BY <1>0, <1>4 DEF ScardOfCounted, Allow, Finish, TypeOK
    <2>2. ~AboutToExpire(t)
      BY <1>4 DEF ScardOfCounted, AboutToExpire
    <2>3. QED
      BY <1>1, <2>1, <2>2
  <1>5. ASSUME NEW t \in Tasks, ScardOfAdded(t)
        PROVE  expiring'[d] \/ broken'[d] # {} \/ \E s \in Tasks : call'[s].day = d /\ AboutToExpire(s)'
    <2> DEFINE c == [call[t] EXCEPT !.pc = "expire", !.used = Cardinality(stored[call[t].day])]
    <2>1. c.pc = "expire" /\ c.day = call[t].day
      BY <1>0, CallFields DEF Calls
    <2>2. call' = [call EXCEPT ![t] = c] /\ UNCHANGED <<stored, expiring, broken>>
      BY <1>5 DEF ScardOfAdded
    <2> HIDE DEF c
    <2>3. call'[t] = c /\ \A s \in Tasks : s # t => call'[s] = call[s]
      BY <1>0, <2>2 DEF TypeOK
    <2>4. CASE call[t].day = d
      BY <2>1, <2>3, <2>4 DEF AboutToExpire
    <2>5. CASE call[t].day # d
      BY <2>2, <2>3, <2>5, KeyKept
    <2>6. QED
      BY <2>4, <2>5
  <1>6. ASSUME NEW t \in Tasks, \A s \in Tasks : s # t => call'[s] = call[s], NEW e \in Days, e = call[t].day,
               UNCHANGED broken \/ (e = d => broken'[d] # {}),
               \A b \in Days : b # e => /\ stored'[b] = stored[b] /\ expiring'[b] = expiring[b]
                                        /\ broken'[b] = broken[b],
               e = d => stored'[d] = {} \/ expiring'[d] \/ broken'[d] # {}
                        \/ (/\ stored'[d] = stored[d] /\ expiring'[d] = expiring[d]
                            /\ broken'[d] = broken[d] /\ ~AboutToExpire(t))
                        \/ (stored[d] # {} /\ expiring'[d] = expiring[d]
                            /\ broken'[d] = broken[d] /\ ~AboutToExpire(t))
        PROVE  expiring'[d] \/ broken'[d] # {} \/ \E s \in Tasks : call'[s].day = d /\ AboutToExpire(s)'
    BY <1>6 DEF KeysKept, AboutToExpire
  <1>7. ASSUME NEW t \in Tasks, ExpireWithinLimit(t) \/ ExpireOverLimit(t)
        PROVE  expiring'[d] \/ broken'[d] # {} \/ \E s \in Tasks : call'[s].day = d /\ AboutToExpire(s)'
    <2>1. /\ expiring' = [expiring EXCEPT ![call[t].day] = stored[call[t].day] # {}]
          /\ UNCHANGED <<stored, broken>> /\ \A s \in Tasks : s # t => call'[s] = call[s]
      BY <1>0, <1>7 DEF ExpireWithinLimit, ExpireOverLimit, SetTtl, Allow, Finish, Goto, TypeOK
    <2>2. expiring'[call[t].day] = (stored[call[t].day] # {})
          /\ \A b \in Days : b # call[t].day => expiring'[b] = expiring[b]
      BY <1>0, <2>1 DEF TypeOK
    <2>3. QED
      BY <1>0, <1>6, <2>1, <2>2
  <1>8. ASSUME NEW t \in Tasks, SremRefused(t) \/ SremReleased(t)
        PROVE  expiring'[d] \/ broken'[d] # {} \/ \E s \in Tasks : call'[s].day = d /\ AboutToExpire(s)'
    <2> DEFINE e == call[t].day
    <2>1. /\ Remove(e, call[t].use) /\ UNCHANGED broken
          /\ \A s \in Tasks : s # t => call'[s] = call[s]
      BY <1>0, <1>8 DEF SremRefused, SremReleased, Finish, TypeOK
    <2>2. ~AboutToExpire(t)
      BY <1>8 DEF SremRefused, SremReleased, AboutToExpire
    <2>3. /\ stored'[e] = stored[e] \ {call[t].use}
          /\ expiring'[e] = (expiring[e] /\ stored[e] \ {call[t].use} # {})
          /\ \A b \in Days : b # e => stored'[b] = stored[b] /\ expiring'[b] = expiring[b]
      BY <1>0, <2>1 DEF Remove, TypeOK
    <2>4. CASE e = d
      <3>1. CASE expiring[d]
        <4>1. stored[d] \ {call[t].use} # {}
          BY <2>3, <2>4
        <4>2. QED
          BY <2>3, <2>4, <3>1, <4>1
      <3>2. CASE broken[d] # {}
        BY <2>1, <3>2
      <3>3. CASE ~expiring[d] /\ broken[d] = {}
        <4>1. PICK s \in Tasks : call[s].day = d /\ AboutToExpire(s)
          BY <2>3, <2>4, <3>3 DEF KeysKept
        <4>2. s # t
          BY <2>2, <4>1
        <4>3. QED
          BY <2>1, <4>1, <4>2 DEF AboutToExpire
      <3>4. QED
        BY <3>1, <3>2, <3>3
    <2>5. CASE e # d
      BY <1>0, <1>6, <2>1, <2>3, <2>5
    <2>6. QED
      BY <2>4, <2>5
  <1>9. ASSUME NEW t \in Tasks, Break(t)
        PROVE  expiring'[d] \/ broken'[d] # {} \/ \E s \in Tasks : call'[s].day = d /\ AboutToExpire(s)'
    <2> DEFINE e == call[t].day
    <2>1. /\ broken' = [broken EXCEPT ![e] = @ \cup {call[t].use}]
          /\ \A s \in Tasks : s # t => call'[s] = call[s]
      BY <1>0, <1>9 DEF Break, Finish, TypeOK
    <2>2. \A b \in Days : b # e => stored'[b] = stored[b] /\ expiring'[b] = expiring[b]
      BY <1>0, <1>9 DEF Break, MayHaveRun, SetTtl, Remove, TypeOK
    <2>3. broken'[e] # {} /\ \A b \in Days : b # e => broken'[b] = broken[b]
      BY <1>0, <2>1 DEF TypeOK
    <2>4. QED
      BY <1>0, <1>6, <2>1, <2>2, <2>3
  <1>10. ASSUME NEW e \in Days, Purge(e)
         PROVE  expiring'[d] \/ broken'[d] # {} \/ \E s \in Tasks : call'[s].day = d /\ AboutToExpire(s)'
    <2>1. e # d
      BY <1>0, <1>10 DEF Purge, TypeOK
    <2>2. stored'[d] = stored[d] /\ expiring'[d] = expiring[d] /\ UNCHANGED <<call, broken>>
      BY <1>0, <1>10, <2>1 DEF Purge, TypeOK
    <2>3. QED
      BY <2>2, KeyKept
  <1>11. CASE NextDay \/ UNCHANGED vars
    BY <1>11, KeyKept DEF NextDay, vars
  <1>12. QED
    BY <1>2, <1>3, <1>4, <1>5, <1>7, <1>8, <1>9, <1>10, <1>11 DEF Next, Consume

\* However careless callers are, a day's set has a time to live once no call on it is
\* in progress and none broke off.
THEOREM ExpiryTheorem == Spec => []EveryKeyExpires
  <1>1. Init => KeysKept
    BY DEF Init, KeysKept
  <1>2. KeysKept => EveryKeyExpires
    BY DEF KeysKept, EveryKeyExpires, Quiet, AboutToExpire, InProgress
  <1>3. QED
    BY <1>1, <1>2, WellFormedInit, WellFormedStep, KeysKeptStep, PTL DEF Spec
=============================================================================
