---------------------------- MODULE MCOssObject ----------------------------
EXTENDS OssObject, TLC

\* With and without a fallback the object fares alike.
MCKinds == {[method |-> "safe", declared |-> "yes", fallback |-> TRUE]}

\* The file has one piece and is rewritten to two: two reads of it differ in nothing,
\* in a piece, or in length, as the rewrite falls between them.
FewContents ==
  /\ file = [i \in Piece |-> IF rewrites > 0 THEN "b" ELSE IF i = 1 THEN "a" ELSE Nothing]
  /\ \A c \in Calls : op[c] # "file" => digest[c] = [i \in Piece |-> "b"]

\* A put of bytes is one of a file that nobody rewrites; and of two puts or two deletes
\* one has no repeat.
FewAttempts ==
  /\ \A c \in Calls : op[c] # "bytes"
  /\ op[1] = op[2] => attempt[1] = 1 \/ attempt[2] = 1

\* A redirect and a 500 fare alike: returned at once, and sent for either fate.
FewAnswers == \A c \in Calls : reply[c] # "moved"

\* What the run of LastCallDetermines is about.
DeleteThenPut == op[1] = "delete" /\ op[2] = "bytes"
=============================================================================
