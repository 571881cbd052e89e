-------------------------- MODULE OssObject_proofs --------------------------
(***************************************************************************)
(* Theorems about OssObject, for any number of calls, attempts and pieces, *)
(* whatever the file contains and however often it is rewritten.           *)
(***************************************************************************)
EXTENDS OssObject, TracedCall_proofs

-----------------------------------------------------------------------------
(* The calls of OssObject are traced calls *)

LEMMA StepTraced == [OssNext]_<<vars, ossVars>> => [Next]_vars
  <1> SUFFICES ASSUME OssNext
               PROVE  Next \/ UNCHANGED vars
    BY DEF vars
  <1>1. ASSUME NEW f \in Bodies, Rewrite(f)
        PROVE  UNCHANGED vars
    BY <1>1 DEF Rewrite
  <1>2. ASSUME NEW c \in Calls, Open(c) \/ Call(c)
        PROVE  Next \/ UNCHANGED vars
    BY <1>2 DEF Open, Call, Digest, Read, Post, Try, Next, Request
  <1>3. ASSUME NEW c \in Calls, NEW n \in 1..Attempts, NEW s \in Status, Arrive(c, n, s)
        PROVE  Next
    BY <1>3 DEF Arrive, Next
  <1>4. ASSUME NEW c \in Calls, NEW n \in 1..Attempts, Lose(c, n)
        PROVE  Next
    BY <1>4 DEF Next
  <1>5. QED
    BY <1>1, <1>2, <1>3, <1>4 DEF OssNext

\* put_object and delete_object change the state of request only as request does:
\* all that is proved of traced calls holds of them.
THEOREM TracedTheorem == OssSpec => Spec
  <1>1. OssInit => Init
    BY DEF OssInit
  <1>2. QED
    BY <1>1, StepTraced, PTL DEF OssSpec, Spec

-----------------------------------------------------------------------------
(* The inductive invariant *)

LEMMA OssInitInv == OssInit => OssIInv
  <1> SUFFICES ASSUME OssInit
               PROVE  OssIInv
    OBVIOUS
  <1> USE CallAssumption, ObjectAssumption
  <1>1. IInv
    BY InitInv DEF OssInit
  <1>2. PICK b \in [Piece -> Contents] :
          digest = [c \in Calls |-> IF op[c] = "file" THEN [i \in Piece |-> Unread] ELSE b]
    BY DEF OssInit
  <1>3. \A c \in Calls : digest[c] \in Reads /\ (op[c] # "file" => Whole(digest[c]))
    BY <1>2 DEF Reads, Whole, Missing, Unread
  <1>4. OssTypeOK
    BY <1>1, <1>2, <1>3 DEF OssInit, OssTypeOK, Reads, IInv
  <1>5. ASSUME NEW c \in Calls
        PROVE  CallInv(c)
    <2>1. /\ pc[c] = "idle" /\ reply[c] = "none" /\ outcome[c] = "none" /\ ~clean[c]
          /\ \A n \in 1..Attempts : fate[c][n] = "unsent"
          /\ \A n \in 1..Attempts, i \in Piece : sent[c][n][i] = Unread
          /\ op[c] = "file" => \A i \in Piece : digest[c][i] = Unread
      BY <1>2 DEF OssInit, Init
    <2>2. QED
      BY <1>3, <2>1 DEF CallInv, InTurn, Posted, Unstarted, Undisturbed, Blamed, Kept
  <1>6. QED
    BY <1>1, <1>4, <1>5 DEF OssIInv

\* What a call's part of the invariant depends on, its own state first.
Same(d) ==
  /\ pc'[d] = pc[d] /\ fate'[d] = fate[d]
  /\ digest'[d] = digest[d] /\ sent'[d] = sent[d] /\ op'[d] = op[d]
  /\ reply'[d] = reply[d] /\ outcome'[d] = outcome[d]
  /\ touched'[d] = touched[d] /\ clean'[d] = clean[d]
  /\ UNCHANGED file

\* The body of an attempt is made of what the call read.
LEMMA BodyKept ==
  ASSUME NEW d \in Calls, op'[d] = op[d], digest'[d] = digest[d], sent'[d] = sent[d]
  PROVE  \A m \in 1..Attempts : Body(d, m)' = Body(d, m)
  BY DEF Body, Extent, Piece

LEMMA SameCall ==
  ASSUME NEW d \in Calls, CallInv(d), Same(d)
  PROVE  Posted(d)' /\ Undisturbed(d)' /\ Blamed(d)'
  BY BodyKept DEF CallInv, Same, Posted, Undisturbed, Blamed, Unstarted, Ended, Whole, Missing, Piece

\* Once ended, a call stays so; a quiet one stays quiet unless it sends.
LEMMA TurnKept ==
  ASSUME NEW d \in Calls, InTurn(d), pc[d] # "idle", clean'[d] = clean[d],
         \A b \in Calls : b < d /\ Ended(b) => Ended(b)' /\ (Quiet(b) => Quiet(b)')
  PROVE  InTurn(d)'
  BY DEF InTurn

\* A step that neither stores nor sends for the first time keeps what is stored.
LEMMA KeptKept ==
  ASSUME NEW d \in Calls, Kept(d), UNCHANGED object, clean'[d] = clean[d],
         Carried(d)' = Carried(d), Latest(d)' => Latest(d), Result(d)' = Result(d)
  PROVE  Kept(d)'
  BY DEF Kept

-----------------------------------------------------------------------------
(* One lemma per action: the types are dealt with further down *)

LEMMA RewriteInv ==
  ASSUME OssIInv, NEW f \in Bodies, Rewrite(f), NEW d \in Calls
  PROVE  CallInv(d)'
  <1>1. /\ CallInv(d) /\ OssTypeOK /\ TypeOK /\ Outcome(d)
        /\ UNCHANGED <<op, digest, sent, object, clean, pc, fate, reply, outcome>>
        /\ ~touched'[d] => ~touched[d] /\ pc[d] \in {"idle", "done"}
        /\ touched[d] => touched'[d]
    BY DEF OssIInv, IInv, Rewrite, vars, OssTypeOK
  <1>b. \A m \in 1..Attempts : Body(d, m)' = Body(d, m)
    BY <1>1, BodyKept
  <1>2. Undisturbed(d)'
    <2>1. op[d] = "file" /\ pc[d] = "idle" =>
            \A i \in Piece : /\ digest[d][i] = Unread
                             /\ \A n \in 1..Attempts : sent[d][n][i] = Unread
      BY <1>1 DEF CallInv, Posted, Whole, Missing
    <2>2. QED
      BY <1>1, <2>1, <1>b DEF CallInv, Undisturbed, Ended
  <1>3. QED
    BY <1>1, <1>2, <1>b DEF CallInv, InTurn, Posted, Whole, Missing, Blamed, Kept, Quiet,
                      Ended, Latest, Unstarted, Carried, Result

LEMMA OpenInv ==
  ASSUME OssIInv, NEW c \in Calls, Open(c), NEW d \in Calls
  PROVE  CallInv(d)'
  <1> USE CallAssumption, ObjectAssumption
  <1>1. /\ CallInv(d) /\ OssTypeOK /\ TypeOK /\ Budget(c) /\ pc[c] = "idle"
        /\ UNCHANGED <<op, file, digest, sent, object, touched, fate, reply, outcome>>
        /\ pc' = [pc EXCEPT ![c] = "send"]
        /\ \A b \in Calls : b < c => Ended(b)
        /\ clean' = [clean EXCEPT ![c] = \A b \in Calls : b < c => Quiet(b)]
    BY DEF OssIInv, IInv, Open, Begin, OssTypeOK
  <1>2. pc'[c] = "send" /\ \A b \in Calls : b # c => pc'[b] = pc[b] /\ clean'[b] = clean[b]
    BY <1>1 DEF TypeOK, OssTypeOK
  <1>3. clean'[c] = \A b \in Calls : b < c => Quiet(b)
    BY <1>1 DEF OssTypeOK
  <1>4. \A b \in Calls : Quiet(b)' = Quiet(b) /\ (Ended(b) => Ended(b)')
    BY <1>1, <1>2 DEF Quiet, Ended
  <1>b. \A m \in 1..Attempts : Body(d, m)' = Body(d, m)
    BY <1>1, BodyKept
  <1>5. Posted(d)' /\ Blamed(d)' /\ Undisturbed(d)'
    <2>1. Posted(d)'
      BY <1>1, <1>2, <1>b DEF CallInv, Posted, Unstarted, Whole, Missing
    <2>2. Blamed(d)'
      BY <1>1 DEF CallInv, Blamed
    <2>3. Undisturbed(d)'
      BY <1>1, <1>2, <1>b DEF CallInv, Undisturbed, Ended
    <2>4. QED
      BY <2>1, <2>2, <2>3
  <1>6. InTurn(d)' /\ Kept(d)'
    <2>1. CASE d = c
      <3>1. Carried(c)' = {}
        BY <1>1, <2>1 DEF CallInv, Posted, Unstarted, Carried
      <3>2. QED
        BY <1>1, <1>3, <1>4, <2>1, <3>1 DEF InTurn, Kept
    <2>2. CASE d # c
      <3>1. InTurn(d)'
        BY <1>1, <1>2, <1>4, <2>2 DEF CallInv, InTurn
      <3>2. Kept(d)'
        BY <1>1, <1>2, <2>2 DEF CallInv, Kept, Latest, Unstarted, Carried, Result
      <3>3. QED
        BY <3>1, <3>2
    <2>3. QED
      BY <2>1, <2>2
  <1>7. QED
    BY <1>5, <1>6 DEF CallInv

LEMMA DigestInv ==
  ASSUME OssIInv, NEW c \in Calls, Digest(c), NEW d \in Calls
  PROVE  CallInv(d)'
  <1>1. PICK i \in NextPiece(digest[c]) : digest' = [digest EXCEPT ![c][i] = file[i]]
    BY DEF Digest
  <1>2. /\ CallInv(d) /\ OssTypeOK /\ TypeOK /\ pc[c] = "send" /\ ~Whole(digest[c])
        /\ op[c] = "file"
        /\ UNCHANGED <<op, file, sent, object, touched, clean, pc, fate, reply, outcome>>
    BY DEF OssIInv, IInv, Digest, vars, OssTypeOK
  <1>3. \A b \in Calls : b # c => digest'[b] = digest[b]
    BY <1>1, <1>2 DEF OssTypeOK
  <1>4. CASE d = c
    <2>1. \A n \in 1..Attempts : fate[c][n] = "unsent"
      BY <1>2, <1>4 DEF CallInv, Posted
    <2>2. \A j \in Piece : digest'[c][j] = digest[c][j] \/ digest'[c][j] = file[j]
      BY <1>1, <1>2 DEF OssTypeOK, Reads, NextPiece, Missing
    <2>3. Posted(c)' /\ Undisturbed(c)'
      BY <1>2, <1>4, <2>1, <2>2 DEF CallInv, Posted, Unstarted, Undisturbed, Ended
    <2>4. Carried(c)' = {}
      BY <1>2, <2>1 DEF Carried
    <2>5. QED
      BY <1>2, <1>4, <2>3, <2>4 DEF CallInv, InTurn, Blamed, Kept, Ended, Quiet
  <1>5. CASE d # c
    <2>1. Same(d)
      BY <1>2, <1>3, <1>5 DEF Same
    <2>2. InTurn(d)' /\ Kept(d)'
      BY <1>2, <1>3, <1>5
         DEF CallInv, InTurn, Ended, Quiet, Kept, Latest, Unstarted, Carried, Result
    <2>3. QED
      BY <1>2, <2>1, <2>2, SameCall DEF CallInv
  <1>6. QED
    BY <1>4, <1>5

LEMMA ReadInv ==
  ASSUME OssIInv, NEW c \in Calls, Read(c), NEW d \in Calls
  PROVE  CallInv(d)'
  <1>1. PICK i \in NextPiece(sent[c][attempt[c]]) :
          sent' = [sent EXCEPT ![c][attempt[c]][i] = file[i]]
    BY DEF Read
  <1>2. /\ CallInv(d) /\ OssTypeOK /\ TypeOK /\ Budget(c) /\ pc[c] \in {"send", "wait"} /\ op[c] = "file"
        /\ Whole(digest[c]) /\ CallInv(c)
        /\ UNCHANGED <<op, file, digest, object, touched, clean, pc, fate, reply, outcome>>
    BY DEF OssIInv, IInv, Read, vars, OssTypeOK
  <1>3. \A b \in Calls : b # c => sent'[b] = sent[b]
    BY <1>1, <1>2 DEF OssTypeOK
  <1>4. CASE d = c
    <2>1. /\ attempt[c] \in 1..Attempts /\ i \in Piece
          /\ sent[c][attempt[c]][i] = Unread
      BY <1>2 DEF TypeOK, Budget, NextPiece, Missing
    <2>2. \A n \in 1..Attempts : n # attempt[c] => sent'[c][n] = sent[c][n]
      BY <1>1, <1>2, <2>1 DEF OssTypeOK
    <2>3. \A n \in 1..Attempts, j \in Piece :
            sent'[c][n][j] = sent[c][n][j] \/ sent'[c][n][j] = file[j]
      BY <1>1, <1>2, <2>1 DEF OssTypeOK, Reads
    <2>0. \A n \in 1..Attempts : fate[c][n] # "unsent" => Body(c, n)' = Body(c, n)
      <3> SUFFICES ASSUME NEW n \in 1..Attempts, fate[c][n] # "unsent"
                   PROVE  Body(c, n)' = Body(c, n)
        OBVIOUS
      <3>1. CASE n # attempt[c]
        BY <1>2, <2>2, <3>1 DEF Body, Extent
      <3>2. CASE n = attempt[c]
        <4>1. Body(c, n)[i] # Unread
          BY <1>2, <2>1 DEF CallInv, Posted, Whole, Missing
        <4>2. i \notin Extent(digest[c])
          BY <1>2, <2>1, <3>2, <4>1 DEF Body
        <4>3. \A j \in Piece : j # i => sent'[c][n][j] = sent[c][n][j]
          BY <1>1, <1>2, <2>1, <3>2 DEF OssTypeOK, Reads
        <4>4. QED
          BY <1>2, <4>2, <4>3 DEF Body, Extent
      <3>3. QED
        BY <3>1, <3>2
    <2>4. Posted(c)'
      BY <1>2, <1>4, <2>0 DEF CallInv, Posted, Unstarted, Whole, Missing
    <2>5. Undisturbed(c)'
      BY <1>2, <1>4, <2>0, <2>3 DEF CallInv, Undisturbed, Ended
    <2>6. QED
      BY <1>2, <1>4, <2>4, <2>5
         DEF CallInv, InTurn, Blamed, Kept, Ended, Quiet, Latest, Unstarted, Carried, Result
  <1>5. CASE d # c
    <2>1. Same(d)
      BY <1>2, <1>3, <1>5 DEF Same
    <2>2. InTurn(d)' /\ Kept(d)'
      BY <1>2 DEF CallInv, InTurn, Ended, Quiet, Kept, Latest, Unstarted, Carried, Result
    <2>3. QED
      BY <1>2, <2>1, <2>2, SameCall DEF CallInv
  <1>6. QED
    BY <1>4, <1>5

LEMMA PostInv ==
  ASSUME OssIInv, NEW c \in Calls, Post(c), NEW d \in Calls
  PROVE  CallInv(d)'
  <1>1. /\ CallInv(d) /\ OssTypeOK /\ TypeOK /\ Budget(c) /\ pc[c] = "send"
        /\ pc' = [pc EXCEPT ![c] = "wait"]
        /\ fate' = [fate EXCEPT ![c][attempt[c]] = "travelling"]
        /\ UNCHANGED <<op, file, digest, sent, object, touched, clean, reply, outcome>>
        /\ Whole(digest[c]) /\ Whole(Body(c, attempt[c]))
        /\ Extent(Body(c, attempt[c])) = Extent(digest[c])
        /\ CallInv(c)
    BY DEF OssIInv, IInv, Post, Send, ossVars, OssTypeOK
  <1>2. /\ pc'[c] = "wait" /\ attempt[c] \in 1..Attempts
        /\ fate'[c][attempt[c]] = "travelling" /\ fate[c][attempt[c]] = "unsent"
        /\ \A n \in 1..Attempts : n # attempt[c] => fate'[c][n] = fate[c][n]
        /\ \A b \in Calls : b # c => pc'[b] = pc[b] /\ fate'[b] = fate[b]
    BY <1>1 DEF TypeOK, Budget
  <1>3. \A b \in Calls : Latest(b)' => Latest(b) /\ ~(b < c)
    BY <1>2 DEF Latest, Unstarted
  <1>4. \A b \in Calls : Carried(b)' = Carried(b)
    BY <1>2 DEF Carried
  <1>5. Kept(d)'
    BY <1>1, <1>3, <1>4 DEF CallInv, Kept, Result
  <1>6. InTurn(d)'
    <2>1. pc[d] # "idle" => \A b \in Calls : b < d => b # c
      BY <1>1 DEF CallInv, InTurn, Ended
    <2>2. pc'[d] # "idle" => pc[d] # "idle"
      BY <1>1, <1>2
    <2>3. QED
      BY <1>1, <1>2, <2>1, <2>2 DEF CallInv, InTurn, Ended, Quiet
  <1>7. CASE d = c
    <2>1. \A n \in 1..Attempts : Body(c, n)' = Body(c, n)
      BY <1>1, BodyKept
    <2>2. Posted(c)'
      BY <1>1, <1>2, <1>7, <2>1 DEF CallInv, Posted, Unstarted, Whole, Missing
    <2>3. Undisturbed(c)'
      <3> SUFFICES ASSUME op[c] = "file", ~touched[c]
                   PROVE  Body(c, attempt[c]) = digest[c]
        BY <1>1, <1>2, <2>1 DEF CallInv, Undisturbed, Ended
      <3> DEFINE body == Body(c, attempt[c])
      <3>1. \A i \in Piece : digest[c][i] = file[i] /\ sent[c][attempt[c]][i] \in {Unread, file[i]}
        BY <1>1, <1>2 DEF CallInv, Undisturbed, Ended, Whole, Missing
      <3>2. \A i \in Piece : body[i] = IF digest[c][i] # Nothing
                                        THEN sent[c][attempt[c]][i] ELSE Nothing
        BY DEF Body, Extent
      <3>3. \A i \in Piece : body[i] # Unread
        BY <1>1 DEF Whole, Missing
      <3>4. \A i \in Piece : body[i] = digest[c][i]
        BY <3>1, <3>2, <3>3
      <3>5. digest[c] \in Reads /\ body = [i \in Piece |-> body[i]]
        BY <1>1 DEF OssTypeOK, Body
      <3>6. QED
        BY <3>4, <3>5 DEF Reads
    <2>4. QED
      BY <1>1, <1>5, <1>6, <1>7, <2>2, <2>3 DEF CallInv, Blamed
  <1>8. CASE d # c
    <2>1. Same(d)
      BY <1>1, <1>2, <1>8 DEF Same
    <2>2. QED
      BY <1>1, <1>5, <1>6, <2>1, SameCall DEF CallInv
  <1>9. QED
    BY <1>7, <1>8

LEMMA TryInv ==
  ASSUME OssIInv, NEW c \in Calls, Try(c), NEW d \in Calls
  PROVE  CallInv(d)'
  <1>1. /\ CallInv(d) /\ OssTypeOK /\ TypeOK /\ CallInv(c)
        /\ UNCHANGED <<op, file, digest, sent, object, touched, clean, fate>>
        /\ pc[c] \in {"send", "wait", "backoff"}
    BY DEF OssIInv, IInv, Try, Fail, Propagate, Receive, Wake, ossVars, OssTypeOK
  <1>2. \A b \in Calls : b # c =>
          pc'[b] = pc[b] /\ reply'[b] = reply[b] /\ outcome'[b] = outcome[b]
    BY <1>1 DEF Try, Fail, Propagate, Receive, Wake, GiveUp, Return, Sleep, TypeOK
  <1>3. /\ pc'[c] \in {"send", "backoff", "done"}
        /\ reply'[c] = "wrong" => reply[c] = "wrong"
        /\ outcome'[c] = "wrong" => reply[c] = "wrong" \/ outcome[c] = "wrong"
    BY <1>1 DEF Try, Fail, Propagate, Receive, Wake, GiveUp, Return, Sleep, TypeOK,
                ShouldRetryResponse
  <1>4. InTurn(d)' /\ Kept(d)'
    <2>1. \A b \in Calls : Ended(b) => Ended(b)'
      BY <1>1, <1>2 DEF Ended
    <2>2. pc'[d] # "idle" => pc[d] # "idle"
      BY <1>1, <1>2
    <2>3. QED
      BY <1>1, <2>1, <2>2
         DEF CallInv, InTurn, Quiet, Kept, Latest, Unstarted, Carried, Result
  <1>b. \A m \in 1..Attempts : Body(d, m)' = Body(d, m)
    BY <1>1, BodyKept
  <1>5. CASE d = c
    <2>1. Posted(c)'
      BY <1>1, <1>3, <1>b, <1>5 DEF CallInv, Posted, Unstarted, Whole, Missing
    <2>2. Undisturbed(c)'
      BY <1>1, <1>3, <1>b, <1>5 DEF CallInv, Undisturbed, Ended
    <2>3. Blamed(c)'
      BY <1>1, <1>3 DEF CallInv, Blamed
    <2>4. QED
      BY <1>4, <1>5, <2>1, <2>2, <2>3 DEF CallInv
  <1>6. CASE d # c
    <2>1. Same(d)
      BY <1>1, <1>2, <1>6 DEF Same
    <2>2. QED
      BY <1>1, <1>4, <2>1, SameCall DEF CallInv
  <1>7. QED
    BY <1>5, <1>6

LEMMA ArriveInv ==
  ASSUME OssIInv, NEW c \in Calls, NEW n \in 1..Attempts, NEW s \in Status,
         Arrive(c, n, s), NEW d \in Calls
  PROVE  CallInv(d)'
  <1>1. /\ CallInv(d) /\ CallInv(c) /\ OssTypeOK /\ TypeOK
        /\ UNCHANGED <<op, file, digest, sent, touched, clean, pc, outcome>>
        /\ fate[c][n] = "travelling"
    BY DEF OssIInv, IInv, Arrive, Handle, OssTypeOK
  <1>2. /\ fate'[c][n] \in {"carried", "refused"}
        /\ \A m \in 1..Attempts : m # n => fate'[c][m] = fate[c][m]
        /\ \A b \in Calls : b # c => fate'[b] = fate[b] /\ reply'[b] = reply[b]
        /\ reply'[c] = s \/ reply'[c] = reply[c]
    <2>1. \/ fate' = [fate EXCEPT ![c][n] = "carried"]
          \/ fate' = [fate EXCEPT ![c][n] = "refused"]
      BY DEF Arrive, Handle
    <2>2. reply' = reply \/ reply' = [reply EXCEPT ![c] = s]
      BY DEF Arrive, Handle
    <2>3. /\ reply \in [Calls -> Status \cup {"none"}]
          /\ fate \in [Calls -> [1..Attempts ->
                       {"unsent", "travelling", "carried", "refused", "lost"}]]
      BY <1>1 DEF TypeOK
    <2>4. /\ \A b \in Calls : b # c => reply'[b] = reply[b]
          /\ reply'[c] = s \/ reply'[c] = reply[c]
      BY <2>2, <2>3
    <2>5. /\ fate'[c][n] \in {"carried", "refused"}
          /\ \A m \in 1..Attempts : m # n => fate'[c][m] = fate[c][m]
          /\ \A b \in Calls : b # c => fate'[b] = fate[b]
      <3>1. PICK v \in {"carried", "refused"} : fate' = [fate EXCEPT ![c][n] = v]
        BY <2>1
      <3>2. fate'[c] = [fate[c] EXCEPT ![n] = v] /\ \A b \in Calls : b # c => fate'[b] = fate[b]
        BY <2>3, <3>1
      <3>3. DOMAIN fate[c] = 1..Attempts
        BY <2>3
      <3>4. QED
        BY <3>2, <3>3
    <2>6. QED
      BY <2>4, <2>5
  <1>3. /\ fate'[c][n] = "carried" => Accepted(c, n)
        /\ s = "wrong" => ~Accepted(c, n)
        /\ object' = IF fate'[c][n] # "carried" THEN object
                     ELSE IF op[c] = "delete" THEN Absent ELSE Body(c, n)
    BY DEF Arrive
  <1>4. ~touched[c] => Accepted(c, n)
    BY <1>1 DEF CallInv, Undisturbed, Accepted, Body
  <1>5. \A b \in Calls : /\ Quiet(b) => Quiet(b)'
                         /\ Unstarted(b)' <=> Unstarted(b)
    BY <1>1, <1>2 DEF Quiet, Unstarted
  <1>6. InTurn(d)'
    BY <1>1, <1>5 DEF CallInv, InTurn, Ended
  <1>7. Kept(d)'
    <2>1. CASE fate'[c][n] # "carried"
      <3>1. Carried(d)' = Carried(d) /\ object' = object
        BY <1>1, <1>2, <1>3, <2>1 DEF Carried
      <3>2. QED
        BY <1>1, <1>5, <3>1 DEF CallInv, Kept, Latest, Result
    <2>2. CASE fate'[c][n] = "carried" /\ d = c
      <3>1. object' = Result(c)'
        BY <1>1, <1>3, <2>2 DEF Accepted, Result
      <3>2. QED
        BY <2>2, <3>1 DEF Kept
    <2>3. CASE fate'[c][n] = "carried" /\ d < c
      BY <1>1, <1>5, <2>3 DEF Kept, Latest, Unstarted
    <2>4. CASE fate'[c][n] = "carried" /\ c < d
      <3>1. clean[d] /\ pc[d] # "idle" => FALSE
        BY <1>1, <2>4 DEF CallInv, InTurn, Quiet
      <3>2. pc[d] = "idle" => Carried(d)' = {}
        BY <1>1, <1>2, <2>4 DEF CallInv, Posted, Unstarted, Carried
      <3>3. QED
        BY <1>1, <3>1, <3>2 DEF Kept
    <2>5. d = c \/ d < c \/ c < d
      <3>1. c \in Int /\ d \in Int
        BY ObjectAssumption
      <3>2. QED
        BY <3>1
    <2>6. QED
      BY <2>1, <2>2, <2>3, <2>4, <2>5
  <1>b. \A m \in 1..Attempts : Body(d, m)' = Body(d, m)
    BY <1>1, BodyKept
  <1>8. CASE d = c
    <2>1. Posted(c)'
      BY <1>1, <1>2, <1>b, <1>8 DEF CallInv, Posted, Unstarted, Whole, Missing
    <2>2. Undisturbed(c)'
      BY <1>1, <1>2, <1>b, <1>8 DEF CallInv, Undisturbed, Ended
    <2>3. Blamed(c)'
      BY <1>1, <1>2, <1>3, <1>4 DEF CallInv, Blamed
    <2>4. QED
      BY <1>6, <1>7, <1>8, <2>1, <2>2, <2>3 DEF CallInv
  <1>9. CASE d # c
    <2>1. Same(d)
      BY <1>1, <1>2, <1>9 DEF Same
    <2>2. QED
      BY <1>1, <1>6, <1>7, <2>1, SameCall DEF CallInv
  <1>10. QED
    BY <1>8, <1>9

LEMMA LoseInv ==
  ASSUME OssIInv, NEW c \in Calls, NEW n \in 1..Attempts, Lose(c, n), UNCHANGED ossVars,
         NEW d \in Calls
  PROVE  CallInv(d)'
  <1>1. /\ CallInv(d) /\ CallInv(c) /\ TypeOK
        /\ UNCHANGED <<op, file, digest, sent, object, touched, clean, pc, outcome, reply>>
        /\ fate[c][n] = "travelling"
    BY DEF OssIInv, IInv, Lose, ossVars
  <1>2. /\ fate'[c][n] = "lost"
        /\ \A m \in 1..Attempts : m # n => fate'[c][m] = fate[c][m]
        /\ \A b \in Calls : b # c => fate'[b] = fate[b]
    BY <1>1 DEF Lose, TypeOK
  <1>3. \A b \in Calls : /\ Quiet(b) => Quiet(b)'
                         /\ Unstarted(b)' <=> Unstarted(b)
                         /\ Carried(b)' = Carried(b)
    BY <1>1, <1>2 DEF Quiet, Unstarted, Carried
  <1>4. InTurn(d)' /\ Kept(d)'
    BY <1>1, <1>3 DEF CallInv, InTurn, Ended, Kept, Latest, Result
  <1>b. \A m \in 1..Attempts : Body(d, m)' = Body(d, m)
    BY <1>1, BodyKept
  <1>5. Posted(d)' /\ Undisturbed(d)' /\ Blamed(d)'
    BY <1>1, <1>2, <1>b DEF CallInv, Posted, Unstarted, Whole, Missing, Undisturbed, Ended, Blamed
  <1>6. QED
    BY <1>4, <1>5 DEF CallInv

-----------------------------------------------------------------------------
(* Types, and the theorems *)

LEMMA OssTypes == OssIInv /\ [OssNext]_<<vars, ossVars>> /\ TypeOK' => OssTypeOK'
  <1> SUFFICES ASSUME OssIInv, [OssNext]_<<vars, ossVars>>, TypeOK'
               PROVE  OssTypeOK'
    OBVIOUS
  <1> USE ObjectAssumption, CallAssumption
  <1>0. OssTypeOK /\ TypeOK /\ Bodies \subseteq Reads
    BY DEF OssIInv, OssTypeOK, Bodies, Reads
  <1>1. ASSUME NEW f \in Bodies, Rewrite(f)
        PROVE  OssTypeOK'
    BY <1>0, <1>1 DEF Rewrite, OssTypeOK
  <1>2. ASSUME NEW c \in Calls, Open(c)
        PROVE  OssTypeOK'
    BY <1>0, <1>2 DEF Open, OssTypeOK
  <1>3. ASSUME NEW c \in Calls, Digest(c)
        PROVE  OssTypeOK'
    <2>1. PICK i \in Piece : digest' = [digest EXCEPT ![c][i] = file[i]]
      BY <1>3 DEF Digest, NextPiece, Missing
    <2>2. digest[c] \in Reads /\ file \in Reads
      BY <1>0 DEF OssTypeOK
    <2>3. [digest[c] EXCEPT ![i] = file[i]] \in Reads
      BY <2>2 DEF Reads
    <2>4. digest' \in [Calls -> Reads]
      BY <1>0, <2>1, <2>3 DEF OssTypeOK
    <2>5. QED
      BY <1>0, <1>3, <2>4 DEF Digest, OssTypeOK
  <1>4. ASSUME NEW c \in Calls, Read(c)
        PROVE  OssTypeOK'
    <2>1. PICK i \in Piece : sent' = [sent EXCEPT ![c][attempt[c]][i] = file[i]]
      BY <1>4 DEF Read, NextPiece, Missing
    <2>2. attempt[c] \in 1..Attempts /\ sent[c] \in [1..Attempts -> Reads] /\ file \in Reads
      BY <1>0 DEF OssTypeOK, TypeOK
    <2>3. [sent[c][attempt[c]] EXCEPT ![i] = file[i]] \in Reads
      BY <2>2 DEF Reads
    <2>4. [sent[c] EXCEPT ![attempt[c]][i] = file[i]] \in [1..Attempts -> Reads]
      BY <2>2, <2>3
    <2>5. sent' \in [Calls -> [1..Attempts -> Reads]]
      BY <1>0, <2>1, <2>4 DEF OssTypeOK
    <2>6. QED
      BY <1>0, <1>4, <2>5 DEF Read, OssTypeOK
  <1>5. ASSUME NEW c \in Calls, Post(c) \/ Try(c)
        PROVE  OssTypeOK'
    BY <1>0, <1>5 DEF Post, Try, ossVars, OssTypeOK
  <1>6. ASSUME NEW c \in Calls, NEW n \in 1..Attempts, NEW s \in Status, Arrive(c, n, s)
        PROVE  OssTypeOK'
    <2>1. Body(c, n) \in Reads
      <3>1. digest[c] \in Reads /\ sent[c][n] \in Reads
        BY <1>0 DEF OssTypeOK
      <3>2. QED
        BY <3>1 DEF Body, Reads
    <2>2. QED
      BY <1>0, <1>6, <2>1 DEF Arrive, OssTypeOK
  <1>7. ASSUME UNCHANGED ossVars
        PROVE  OssTypeOK'
    BY <1>0, <1>7 DEF ossVars, OssTypeOK
  <1>8. QED
    BY <1>1, <1>2, <1>3, <1>4, <1>5, <1>6, <1>7 DEF OssNext, Call

LEMMA OssStepInv == OssIInv /\ [OssNext]_<<vars, ossVars>> => OssIInv'
  <1> SUFFICES ASSUME OssIInv, [OssNext]_<<vars, ossVars>>
               PROVE  OssIInv'
    OBVIOUS
  <1>1. IInv' /\ TypeOK'
    BY StepTraced, StepInv DEF OssIInv, IInv
  <1>2. OssTypeOK'
    BY <1>1, OssTypes
  <1>3. ASSUME NEW d \in Calls
        PROVE  CallInv(d)'
    <2>1. CASE UNCHANGED <<vars, ossVars>>
      BY <2>1, BodyKept DEF OssIInv, vars, ossVars, CallInv, InTurn, Posted, Unstarted, Undisturbed,
                  Blamed, Kept, Latest, Carried, Result, Ended, Quiet, Whole, Missing
    <2>2. CASE OssNext
      BY <2>2, RewriteInv, OpenInv, DigestInv, ReadInv, PostInv, TryInv, ArriveInv, LoseInv
         DEF OssNext, Call
    <2>3. QED
      BY <2>1, <2>2
  <1>4. QED
    BY <1>1, <1>2, <1>3 DEF OssIInv

\* The inductive invariant holds of every behaviour of put_object and delete_object.
THEOREM OssInvariance == OssSpec => []OssIInv
  BY OssInitInv, OssStepInv, PTL DEF OssSpec

\* put_object is refused for its digest only when its file was rewritten.
THEOREM RefusalTheorem == OssSpec => []UntouchedNotRefused
  <1>1. OssIInv => UntouchedNotRefused
    BY DEF OssIInv, CallInv, Blamed, UntouchedNotRefused
  <1>2. QED
    BY <1>1, OssInvariance, PTL

\* Late repeats of the attempts of one put_object or delete_object do no harm.
THEOREM RepeatsTheorem == OssSpec => []RepeatsHarmless
  <1>1. OssIInv => RepeatsHarmless
    <2> SUFFICES ASSUME OssIInv, NEW c \in Calls, outcome[c] = "ok", clean[c], Latest(c)
                 PROVE  object = Result(c)
      BY DEF RepeatsHarmless
    <2>1. attempt[c] \in 1..Attempts /\ fate[c][attempt[c]] = "carried" /\ Kept(c)
      BY DEF OssIInv, IInv, TypeOK, Outcome, CallInv
    <2>2. QED
      BY <2>1 DEF Kept, Carried
  <1>2. QED
    BY <1>1, OssInvariance, PTL

\* put_object and delete_object are remote calls: what request promises its callers,
\* it promises those of OSSClient.
THEOREM CallsTheorem ==
  OssSpec => /\ RemoteCallSpec
             /\ []UnsafeAtMostOnce /\ []OnlyAfterBudget /\ []FallbackCovers /\ []AnswerIsTrue
  BY TracedTheorem, RefinementTheorem, AtMostOnceTheorem, BudgetTheorem, FallbackTheorem,
     AnswerTheorem, PTL
=============================================================================
