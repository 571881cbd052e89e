---------------------------- MODULE MCDeployment ----------------------------
(* Deployment on a small instance. *)
EXTENDS Deployment

CONSTANTS users, summaries

MCName == [c \in Checks |-> c]

\* A table the receiver declares first and the caller takes over, and one that stays.
MCDeclares ==
  [s \in Services |-> IF s = Receiver THEN <<{users, summaries}, {users}>>
                      ELSE <<{}, {summaries}>>]
MCVersionTable == [s \in Services |-> <<"alembic_version", s>>]
=============================================================================
