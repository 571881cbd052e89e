--------------------------- MODULE GuestAllowance ---------------------------
(***************************************************************************)
(* consume and release of guest.py for one subject and prefix: tasks (of   *)
(* any number of processes) that share one Redis set per day.  Every Redis *)
(* command is atomic and is a step of its own; between two commands of a   *)
(* call other calls run, the day may turn, and the call may break off:     *)
(* a command fails before or after it took effect (AllowanceUnavailable),  *)
(* or the task is cancelled or its process dies.                           *)
(*                                                                         *)
(* How callers name their uses is up to them (docstring of consume: a      *)
(* message id, a document version, a query).  Careful callers never have   *)
(* two calls for the same use at once, and give a use back on its day or   *)
(* when it has not been counted again since.  They may consume again a use *)
(* whose call broke off: retried keeps count of these.                     *)
(***************************************************************************)
EXTENDS Integers, FiniteSets

CONSTANTS
  Tasks,    \* tasks that call consume or release
  Uses,     \* use ids
  NoUse,
  Limit,    \* the caller's limit
  LastDay,  \* bound: days 1..LastDay
  Careful   \* whether callers are careful

Days == 1..LastDay

ASSUME AllowanceAssumption ==
  /\ IsFiniteSet(Uses) /\ NoUse \notin Uses
  /\ Limit \in Nat /\ LastDay \in Nat \ {0}
  /\ Careful \in BOOLEAN

VARIABLES
  today,     \* the WIB day of datetime.now
  stored,    \* Redis: per day, the set at _key(prefix, subject, day)
  expiring,  \* Redis: per day, whether that key has a time to live
  call,      \* per task, the call in progress
  admitted,  \* history: per day, uses answered allowed and not given back
  broken,    \* history: per day, uses of calls that broke off
  retried    \* history: per day, uses consumed again after that

vars == <<today, stored, expiring, call, admitted, broken, retried>>

\* pc names the command the call is about to send.
Calls == [pc    : {"idle", "sadd", "scard", "expire", "srem", "release"},
          use   : Uses \cup {NoUse},
          day   : Days,
          added : BOOLEAN,
          used  : Nat]
Idle == [pc |-> "idle", use |-> NoUse, day |-> 1, added |-> FALSE, used |-> 0]

TypeOK ==
  /\ today \in Days
  /\ stored \in [Days -> SUBSET Uses]
  /\ expiring \in [Days -> BOOLEAN]
  /\ call \in [Tasks -> Calls]
  /\ admitted \in [Days -> SUBSET Uses]
  /\ broken \in [Days -> SUBSET Uses]
  /\ retried \in [Days -> SUBSET Uses]

InProgress(t) == call[t].pc # "idle"
Goto(t, pc) == call' = [call EXCEPT ![t].pc = pc]
Finish(t) == call' = [call EXCEPT ![t] = Idle]

Unshared(u) == \A t \in Tasks : call[t].use # u

-----------------------------------------------------------------------------
(* consume *)

\* The key, and so the day, is fixed when the call begins.
BeginConsume(t, u) ==
  /\ ~InProgress(t)
  /\ Careful => Unshared(u)
  /\ call' = [call EXCEPT ![t] = [Idle EXCEPT !.pc = "sadd", !.use = u, !.day = today]]
  /\ retried' = [retried EXCEPT ![today] = @ \cup ({u} \cap broken[today])]
  /\ UNCHANGED <<today, stored, expiring, admitted, broken>>

Sadd(t) ==
  LET c == call[t] IN
  /\ c.pc = "sadd"
  /\ stored' = [stored EXCEPT ![c.day] = @ \cup {c.use}]
  /\ call' = [call EXCEPT ![t] = [c EXCEPT !.pc = "scard", !.added = c.use \notin stored[c.day]]]
  /\ UNCHANGED <<today, expiring, admitted, broken, retried>>

\* The caller is told the use is allowed.
Allow(t) ==
  /\ admitted' = [admitted EXCEPT ![call[t].day] = @ \cup {call[t].use}]
  /\ Finish(t)

\* A use that was in the set already is free.
ScardOfCounted(t) ==
  /\ call[t].pc = "scard" /\ ~call[t].added
  /\ Allow(t)
  /\ UNCHANGED <<today, stored, expiring, broken, retried>>

ScardOfAdded(t) ==
  LET c == call[t] IN
  /\ c.pc = "scard" /\ c.added
  /\ call' = [call EXCEPT ![t] = [c EXCEPT !.pc = "expire", !.used = Cardinality(stored[c.day])]]
  /\ UNCHANGED <<today, stored, expiring, admitted, broken, retried>>

\* EXPIRE does nothing to a key that is not there.
SetTtl(d) == expiring' = [expiring EXCEPT ![d] = stored[d] # {}]

\* Bugs the code does not have: one use too many, and a time to live set only
\* by the call that sees itself alone in the set.
ExpireWithinLimitPlusOne(t) ==
  /\ call[t].pc = "expire" /\ call[t].used <= Limit + 1
  /\ SetTtl(call[t].day)
  /\ Allow(t)
  /\ UNCHANGED <<today, stored, broken, retried>>

ExpireByTheFirst(t) ==
  /\ call[t].pc = "expire" /\ call[t].used <= Limit
  /\ IF call[t].used = 1 THEN SetTtl(call[t].day) ELSE UNCHANGED expiring
  /\ Allow(t)
  /\ UNCHANGED <<today, stored, broken, retried>>

ExpireWithinLimit(t) ==
  /\ call[t].pc = "expire" /\ call[t].used <= Limit
  /\ SetTtl(call[t].day)
  /\ Allow(t)
  /\ UNCHANGED <<today, stored, broken, retried>>

ExpireOverLimit(t) ==
  /\ call[t].pc = "expire" /\ call[t].used > Limit
  /\ SetTtl(call[t].day)
  /\ Goto(t, "srem")
  /\ UNCHANGED <<today, stored, admitted, broken, retried>>

\* Redis drops a set that becomes empty, its time to live with it.
Remove(d, u) ==
  /\ stored' = [stored EXCEPT ![d] = @ \ {u}]
  /\ expiring' = [expiring EXCEPT ![d] = @ /\ stored[d] \ {u} # {}]

\* A bug the code does not have: the refused use stays in the set.
RefusedStays(t) ==
  /\ call[t].pc = "srem"
  /\ Finish(t)
  /\ UNCHANGED <<today, stored, expiring, admitted, broken, retried>>

\* The use is taken out again and the caller is told it is refused.
SremRefused(t) ==
  /\ call[t].pc = "srem"
  /\ Remove(call[t].day, call[t].use)
  /\ Finish(t)
  /\ UNCHANGED <<today, admitted, broken, retried>>

-----------------------------------------------------------------------------
(* release *)

\* A use admitted on day d is given back; the key is that of the day on which
\* release is called.
BeginRelease(t, u, d) ==
  /\ ~InProgress(t)
  /\ u \in admitted[d]
  /\ Careful => Unshared(u) /\ (d = today \/ u \notin stored[today])
  /\ admitted' = [admitted EXCEPT ![d] = @ \ {u}]
  /\ call' = [call EXCEPT ![t] = [Idle EXCEPT !.pc = "release", !.use = u, !.day = today]]
  /\ UNCHANGED <<today, stored, expiring, broken, retried>>

\* A bug the code does not have: the use given back stays in the set.
ReleasedStays(t) ==
  /\ call[t].pc = "release"
  /\ Finish(t)
  /\ UNCHANGED <<today, stored, expiring, admitted, broken, retried>>

SremReleased(t) ==
  /\ call[t].pc = "release"
  /\ Remove(call[t].day, call[t].use)
  /\ Finish(t)
  /\ UNCHANGED <<today, admitted, broken, retried>>

-----------------------------------------------------------------------------
(* Failure, and the passing of days *)

\* What the command a broken call was sending may have done to the store.
MayHaveRun(c) ==
  \/ UNCHANGED <<stored, expiring>>
  \/ /\ c.pc = "sadd"
     /\ stored' = [stored EXCEPT ![c.day] = @ \cup {c.use}]
     /\ UNCHANGED expiring
  \/ c.pc = "expire" /\ SetTtl(c.day) /\ UNCHANGED stored
  \/ c.pc \in {"srem", "release"} /\ Remove(c.day, c.use)

\* A bug the code does not have: a call that cannot reach the store lets the
\* visitor pass.
BreakOpen(t) ==
  /\ InProgress(t)
  /\ MayHaveRun(call[t])
  /\ admitted' = [admitted EXCEPT ![call[t].day] = @ \cup {call[t].use}]
  /\ Finish(t)
  /\ UNCHANGED <<today, broken, retried>>

Break(t) ==
  /\ InProgress(t)
  /\ MayHaveRun(call[t])
  /\ broken' = [broken EXCEPT ![call[t].day] = @ \cup {call[t].use}]
  /\ Finish(t)
  /\ UNCHANGED <<today, admitted, retried>>

NextDay ==
  /\ today < LastDay
  /\ today' = today + 1
  /\ UNCHANGED <<stored, expiring, call, admitted, broken, retried>>

\* The key goes an hour after its day; no call takes that long.
Purge(d) ==
  /\ d < today /\ expiring[d]
  /\ \A t \in Tasks : InProgress(t) => call[t].day # d
  /\ stored' = [stored EXCEPT ![d] = {}]
  /\ expiring' = [expiring EXCEPT ![d] = FALSE]
  /\ UNCHANGED <<today, call, admitted, broken, retried>>

-----------------------------------------------------------------------------
Init ==
  /\ today = 1
  /\ stored = [d \in Days |-> {}]
  /\ expiring = [d \in Days |-> FALSE]
  /\ call = [t \in Tasks |-> Idle]
  /\ admitted = [d \in Days |-> {}]
  /\ broken = [d \in Days |-> {}]
  /\ retried = [d \in Days |-> {}]

Consume(t) == Sadd(t) \/ ScardOfCounted(t) \/ ScardOfAdded(t)
              \/ ExpireWithinLimit(t) \/ ExpireOverLimit(t) \/ SremRefused(t)

Next ==
  \/ \E t \in Tasks, u \in Uses : BeginConsume(t, u)
  \/ \E t \in Tasks, u \in Uses, d \in Days : BeginRelease(t, u, d)
  \/ \E t \in Tasks : Consume(t) \/ SremReleased(t) \/ Break(t)
  \/ NextDay
  \/ \E d \in Days : Purge(d)

Spec == Init /\ [][Next]_vars

-----------------------------------------------------------------------------
(* Properties *)

\* On no day are more than Limit uses granted and not given back, whatever the
\* calls' interleaving and wherever they break off, but for uses consumed again
\* after a call for them broke off: such a use may be in the set already.
AdmittedWithinLimit == \A d \in Days : Cardinality(admitted[d] \ retried[d]) <= Limit

Quiet(d) == broken[d] = {} /\ \A t \in Tasks : InProgress(t) => call[t].day # d

\* When no call is in progress and none broke off, the set holds exactly the uses
\* granted: a refused or given back use is taken out again, and no racing call
\* takes out another's.
CountIsExact == Quiet(today) => stored[today] = admitted[today]

\* ... and it has a time to live, so no day's set stays for ever.
EveryKeyExpires == \A d \in Days : Quiet(d) /\ stored[d] # {} => expiring[d]

\* A use is found over the limit on its day only when Limit other uses of that day
\* are granted, in progress or left by a call that broke off.  (After midnight a
\* use given back stays in the set of the day before.)
Others(t) ==
  LET d == call[t].day IN
  (admitted[d] \cup broken[d] \cup {call[s].use : s \in {s \in Tasks : InProgress(s) /\ call[s].day = d}})
    \ {call[t].use}
RefusalJustified ==
  [][\A t \in Tasks :
       (/\ call[t].day = today
        /\ call[t].pc = "scard" /\ call'[t].pc = "expire" /\ call'[t].used > Limit) =>
         Cardinality(Others(t)) >= Limit]_vars

\* The calls implement the daily allowance.
Daily == INSTANCE DailyAllowance WITH granted <- admitted, waived <- retried
DailyAllowanceSpec == Daily!DailySpec

-----------------------------------------------------------------------------
(* The inductive invariant behind AdmittedWithinLimit and DailyAllowanceSpec *)

\* Uses found within the limit whose answer is about to be given.
Pending(d) == {call[t].use : t \in {t \in Tasks : /\ call[t].pc = "expire"
                                                  /\ call[t].used <= Limit
                                                  /\ call[t].day = d}}
Passed(d) == admitted[d] \cup Pending(d)

CallsWellFormed ==
  \A t \in Tasks : IF InProgress(t) THEN call[t].use \in Uses /\ call[t].day <= today
                   ELSE call[t] = Idle

Exclusive == \A s, t \in Tasks : s # t /\ InProgress(s) => call[s].use # call[t].use

\* While a day can still grant, what it has granted is in its set; the days to
\* come have no set.
Stored ==
  \A d \in Days :
    /\ d >= today \/ (\E t \in Tasks : InProgress(t) /\ call[t].day = d) =>
         admitted[d] \subseteq stored[d]
    /\ d > today => stored[d] = {}

\* Every use in today's set is granted, in progress or left by a broken call.
Accounted ==
  \A d \in Days : d >= today =>
    \A u \in stored[d] :
      \/ u \in admitted[d] \cup broken[d]
      \/ \E t \in Tasks : InProgress(t) /\ call[t].day = d /\ call[t].use = u

CallsCurrent ==
  \A t \in Tasks : LET c == call[t] IN
    /\ c.pc = "sadd" /\ c.use \in stored[c.day] => c.use \in admitted[c.day] \cup retried[c.day]
    /\ c.pc \in {"scard", "expire", "srem"} => c.use \in stored[c.day]
    /\ c.pc = "scard" /\ ~c.added => c.use \in admitted[c.day] \cup retried[c.day]
    /\ c.pc = "scard" /\ c.added => c.use \notin admitted[c.day]
    /\ c.pc \in {"expire", "srem", "release"} => c.use \notin admitted[c.day]

PassedWithinLimit == \A d \in Days : Cardinality(Passed(d) \ retried[d]) <= Limit

IInv ==
  /\ TypeOK /\ CallsWellFormed
  /\ Careful => Exclusive /\ Stored /\ Accounted /\ CallsCurrent /\ PassedWithinLimit

\* Inductive, of careless callers too: a set has a time to live, or is about to get
\* one, or a call on it broke off.
AboutToExpire(t) == call[t].pc = "expire" \/ (call[t].pc = "scard" /\ call[t].added)
KeysKept ==
  \A d \in Days : stored[d] # {} =>
    expiring[d] \/ broken[d] # {} \/ \E t \in Tasks : call[t].day = d /\ AboutToExpire(t)
=============================================================================
