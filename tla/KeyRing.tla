------------------------------ MODULE KeyRing ------------------------------
(***************************************************************************)
(* What keys.py promises of the keys a service verifies tokens with: they  *)
(* are one document of identity, as it was published at one instant at     *)
(* most Lag ticks ago when it was taken over, replaced as a whole, at any  *)
(* time or never, and never lost again.                                    *)
(***************************************************************************)
EXTENDS Integers

CONSTANTS
  Kids,
  Usable,   \* kids whose published entry is well formed
  Lag       \* how old a document may be when it is taken over

VARIABLES
  status,    \* what identity has done with each kid
  asking,    \* whether identity is being asked
  age,       \* since when, in ticks
  document,  \* the usable part of the document seen, {} before
  keys       \* the keys held

RingInit ==
  /\ status \in [Kids -> {"unborn", "published"}]
  /\ asking = FALSE /\ age = 0
  /\ document = {} /\ keys = {}

ChangeTo(k, s) ==
  /\ status' = [status EXCEPT ![k] = s]
  /\ UNCHANGED <<asking, age, document, keys>>

Publish(k) == status[k] = "unborn" /\ ChangeTo(k, "published")
Withdraw(k) == status[k] = "published" /\ ChangeTo(k, "withdrawn")

Pass ==
  /\ asking /\ age < Lag
  /\ age' = age + 1
  /\ UNCHANGED <<status, asking, document, keys>>

Standing == {k \in Usable : status[k] = "published"}

Ask ==
  /\ ~asking
  /\ asking' = TRUE
  /\ UNCHANGED <<status, age, document, keys>>

\* The instant whose keys are taken.
See ==
  /\ asking /\ document = {}
  /\ document' = Standing
  /\ UNCHANGED <<status, asking, age, keys>>

StopAsking ==
  /\ asking' = FALSE /\ age' = 0
  /\ document' = {}
  /\ UNCHANGED status

Replace == asking /\ document # {} /\ keys' = document /\ StopAsking
GiveUp == asking /\ UNCHANGED keys /\ StopAsking

RingNext ==
  \/ \E k \in Kids : Publish(k) \/ Withdraw(k)
  \/ Pass \/ Ask \/ See \/ Replace \/ GiveUp

ringVars == <<status, asking, age, document, keys>>
RingSpec == RingInit /\ [][RingNext]_ringVars
=============================================================================
