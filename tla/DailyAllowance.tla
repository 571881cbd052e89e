--------------------------- MODULE DailyAllowance ---------------------------
(***************************************************************************)
(* What guest.py promises of a visitor's daily allowance: on each day at   *)
(* most Limit different uses are granted and not given back.  A use that   *)
(* is granted already is granted again at no cost; a refusal, which        *)
(* changes nothing here, is always possible.  Once a use is waived (its    *)
(* caller tries it again after a call that broke off) it may be granted    *)
(* however many others are.                                                *)
(***************************************************************************)
EXTENDS Integers, FiniteSets

CONSTANTS Uses, Days, Limit

VARIABLES
  granted,  \* per day, the uses granted and not given back
  waived    \* per day, the uses the limit no longer counts

DailyInit ==
  /\ granted = [d \in Days |-> {}]
  /\ waived = [d \in Days |-> {}]

Grant(d, u) ==
  /\ u \in granted[d] \cup waived[d] \/ Cardinality(granted[d] \ waived[d]) < Limit
  /\ granted' = [granted EXCEPT ![d] = @ \cup {u}]
  /\ UNCHANGED waived

GiveBack(d, u) ==
  /\ u \in granted[d]
  /\ granted' = [granted EXCEPT ![d] = @ \ {u}]
  /\ UNCHANGED waived

Waive(d, u) ==
  /\ waived' = [waived EXCEPT ![d] = @ \cup {u}]
  /\ UNCHANGED granted

DailyNext == \E d \in Days, u \in Uses : Grant(d, u) \/ GiveBack(d, u) \/ Waive(d, u)

DailySpec == DailyInit /\ [][DailyNext]_<<granted, waived>>
=============================================================================
