----------------------------- MODULE OssObject -----------------------------
(***************************************************************************)
(* OSSClient.put_object and delete_object of oss.py: one caller storing    *)
(* and deleting one object by traced calls, one after the other, over the  *)
(* network of TracedCall.  The body of a put is a file that is read for    *)
(* its digest and again by every attempt, and may be rewritten meanwhile.  *)
(***************************************************************************)
EXTENDS TracedCall

CONSTANTS
  Pieces,      \* a file is read in pieces 1..Pieces of _FILE_CHUNK
  Contents,    \* what a piece may contain
  Nothing,     \* in place of a piece the file is too short to have
  MaxRewrites  \* times that others write to the file

ASSUME ObjectAssumption ==
  /\ Calls \subseteq Nat
  /\ Pieces \in Nat \ {0} /\ MaxRewrites \in Nat
  /\ Nothing \notin Contents /\ "unread" \notin Contents \cup {Nothing}
  /\ \A k \in Kinds : k.method = "safe" /\ k.declared = "yes"

VARIABLES
  op,        \* per call: put of a file, put of bytes, or delete
  file,      \* the file
  rewrites,  \* number of rewrites
  digest,    \* per call: what its Content-MD5 is of
  sent,      \* per call and attempt: what it read of the file for its body
  object,    \* the stored object
  touched,   \* history, per call: the file was rewritten during it
  clean      \* history, per call: no earlier request was on its way when it began

ossVars == <<op, file, rewrites, digest, sent, object, touched, clean>>

Piece == 1..Pieces
Unread == "unread"
Absent == <<>>
Bodies == {f \in [Piece -> Contents \cup {Nothing}] :
             \A i, j \in Piece : i < j /\ f[i] = Nothing => f[j] = Nothing}
Reads == [Piece -> Contents \cup {Nothing, Unread}]

OssTypeOK ==
  /\ TypeOK
  /\ op \in [Calls -> {"file", "bytes", "delete"}]
  /\ file \in Bodies
  /\ rewrites \in 0..MaxRewrites
  /\ digest \in [Calls -> Reads]
  /\ sent \in [Calls -> [1..Attempts -> Reads]]
  /\ object \in Reads \cup {Absent}
  /\ touched \in [Calls -> BOOLEAN]
  /\ clean \in [Calls -> BOOLEAN]

-----------------------------------------------------------------------------
Missing(read) == {i \in Piece : read[i] = Unread}
Whole(read) == Missing(read) = {}
Extent(read) == {i \in Piece : read[i] # Nothing}
NextPiece(read) == {i \in Missing(read) : \A j \in Missing(read) : i <= j}

\* The body that reaches OSS, as long as its Content-Length says, and what a call that
\* is carried out leaves of the object.
Body(c, n) ==
  IF op[c] = "file"
  THEN [i \in Piece |-> IF i \in Extent(digest[c]) THEN sent[c][n][i] ELSE Nothing]
  ELSE digest[c]
Result(c) == IF op[c] = "delete" THEN Absent ELSE digest[c]

\* Someone writes to the file, in place: any part of it, cutting or extending it.
Rewrite(f) ==
  /\ rewrites < MaxRewrites /\ file # f
  /\ rewrites' = rewrites + 1
  /\ file' = f
  /\ touched' = [c \in Calls |-> touched[c] \/ pc[c] \notin {"idle", "done"}]
  /\ UNCHANGED <<op, digest, sent, object, clean>> /\ UNCHANGED vars

Quiet(c) == \A n \in 1..Attempts : fate[c][n] # "travelling"

Open(c) ==
  /\ \A b \in Calls : b < c => Ended(b)
  /\ Begin(c)
  /\ clean' = [clean EXCEPT ![c] = \A b \in Calls : b < c => Quiet(b)]
  /\ UNCHANGED <<op, file, rewrites, digest, sent, object, touched>>

\* A bug the code does not have: the digest of a file put before is kept.
DigestOnce(c) ==
  /\ pc[c] = "send" /\ op[c] = "file" /\ ~Whole(digest[c])
  /\ \E i \in NextPiece(digest[c]) :
       LET before == {b \in Calls : b < c /\ op[b] = "file" /\ Whole(digest[b])}
       IN \E v \in IF before = {} THEN {file[i]} ELSE {digest[b][i] : b \in before} :
            digest' = [digest EXCEPT ![c][i] = v]
  /\ UNCHANGED <<op, file, rewrites, sent, object, touched, clean>> /\ UNCHANGED vars

\* _file_md5_and_size, in a thread: other tasks run between two pieces.
Digest(c) ==
  /\ pc[c] = "send" /\ op[c] = "file" /\ ~Whole(digest[c])
  /\ \E i \in NextPiece(digest[c]) : digest' = [digest EXCEPT ![c][i] = file[i]]
  /\ UNCHANGED <<op, file, rewrites, sent, object, touched, clean>> /\ UNCHANGED vars

\* _FileBody: each attempt opens the file afresh, and reads on to its end when the
\* Content-Length has been sent.
Read(c) ==
  /\ pc[c] \in {"send", "wait"} /\ op[c] = "file" /\ Whole(digest[c]) /\ ~Whole(sent[c][attempt[c]])
  /\ \E i \in NextPiece(sent[c][attempt[c]]) :
       sent' = [sent EXCEPT ![c][attempt[c]][i] = file[i]]
  /\ UNCHANGED <<op, file, rewrites, digest, object, touched, clean>> /\ UNCHANGED vars

\* A body shorter than the Content-Length never arrives as a whole, and one that is
\* longer was complete when its excess is read.  Of either the HTTP library makes a
\* transport error, which is Try's Fail.
Post(c) ==
  /\ Send(c)
  /\ Whole(digest[c])
  /\ Whole(Body(c, attempt[c])) /\ Extent(Body(c, attempt[c])) = Extent(digest[c])
  /\ UNCHANGED ossVars

\* The whole file was the body, so that the client goes on to read the answer.
BodyEnded(c) ==
  op[c] = "file" => /\ Whole(sent[c][attempt[c]])
                    /\ Extent(sent[c][attempt[c]]) = Extent(digest[c])

\* The steps of request, after the digest has been taken.  Opening or reading the
\* file may raise an OSError, at any time.
Try(c) ==
  /\ \/ op[c] = "file" /\ ~Whole(digest[c]) /\ Propagate(c)
     \/ /\ op[c] = "file" => Whole(digest[c])
        /\ Fail(c) \/ Propagate(c) \/ (BodyEnded(c) /\ Receive(c)) \/ Wake(c)
  /\ UNCHANGED ossVars

\* A bug the code does not have: no Content-MD5 is sent.
AcceptedUnchecked(c, n) == TRUE

\* OSS compares a body with the Content-MD5 of its request.
Accepted(c, n) == op[c] = "delete" \/ Body(c, n) = digest[c]

\* A request that is carried out replaces or removes the object; the digest is the
\* only reason for a client error.
Arrive(c, n, s) ==
  /\ Handle(c, n, s)
  /\ fate'[c][n] = "carried" => Accepted(c, n)
  /\ s = "wrong" => ~Accepted(c, n)
  /\ object' = IF fate'[c][n] # "carried" THEN object
               ELSE IF op[c] = "delete" THEN Absent ELSE Body(c, n)
  /\ UNCHANGED <<op, file, rewrites, digest, sent, touched, clean>>

OssInit ==
  /\ Init
  /\ op \in [Calls -> {"file", "bytes", "delete"}]
  /\ file \in Bodies
  /\ rewrites = 0
  /\ \E b \in [Piece -> Contents] :
       digest = [c \in Calls |-> IF op[c] = "file" THEN [i \in Piece |-> Unread] ELSE b]
  /\ sent = [c \in Calls |-> [n \in 1..Attempts |-> [i \in Piece |-> Unread]]]
  /\ object = Absent
  /\ touched = [c \in Calls |-> FALSE]
  /\ clean = [c \in Calls |-> FALSE]

Call(c) == Digest(c) \/ Read(c) \/ Post(c) \/ Try(c)

OssNext ==
  \/ \E f \in Bodies : Rewrite(f)
  \/ \E c \in Calls : Open(c) \/ Call(c)
  \/ \E c \in Calls, n \in 1..Attempts, s \in Status : Arrive(c, n, s)
  \/ \E c \in Calls, n \in 1..Attempts : Lose(c, n) /\ UNCHANGED ossVars

OssSpec == OssInit /\ [][OssNext]_<<vars, ossVars>>

-----------------------------------------------------------------------------
(* Properties *)

\* A put is refused only if its file was rewritten during it: the digest is that of
\* this call's file, and every attempt sends the file from its beginning.
UntouchedNotRefused ==
  \A c \in Calls : outcome[c] = "wrong" => touched[c]

Unstarted(c) == \A n \in 1..Attempts : fate[c][n] = "unsent"
Latest(c) == \A d \in Calls : d > c => Unstarted(d)

\* Repeats of one call are harmless (put_object, delete_object): once it succeeded, the
\* object is as it left it, also when its other attempts arrive later, and until a
\* later call sends something, if none of the caller's requests was still on its way
\* when it began.
RepeatsHarmless ==
  \A c \in Calls : outcome[c] = "ok" /\ clean[c] /\ Latest(c) => object = Result(c)

\* put_object and delete_object say that a repeat is harmless, of any repeat: after a
\* caller's calls have all succeeded, the object is as the last of them left it.
LastCallDetermines ==
  \A c \in Calls :
    Latest(c) /\ (\A b \in Calls : b <= c => outcome[b] = "ok") => object = Result(c)

-----------------------------------------------------------------------------
(* The inductive invariant behind the properties, on top of TracedCall's *)

\* Calls are made one after the other.
InTurn(c) ==
  pc[c] # "idle" =>
    \A b \in Calls : b < c => Ended(b) /\ (clean[c] => Quiet(b))

\* Nothing is read before the call, and nothing sent before it is read.
Posted(c) ==
  /\ op[c] # "file" => Whole(digest[c])
  /\ pc[c] = "idle" => Unstarted(c)
  /\ op[c] = "file" /\ pc[c] = "idle" => \A i \in Piece : digest[c][i] = Unread
  /\ op[c] = "file" /\ ~Whole(digest[c]) =>
       \A n \in 1..Attempts, i \in Piece : sent[c][n][i] = Unread
  /\ \A n \in 1..Attempts :
       fate[c][n] # "unsent" => Whole(digest[c]) /\ Whole(Body(c, n))

\* Without a rewrite all reads of the file agree.
Undisturbed(c) ==
  op[c] = "file" /\ ~touched[c] =>
    /\ ~Ended(c) =>
         \A i \in Piece : /\ digest[c][i] \in {Unread, file[i]}
                          /\ \A n \in 1..Attempts : sent[c][n][i] \in {Unread, file[i]}
    /\ \A n \in 1..Attempts : fate[c][n] # "unsent" => Body(c, n) = digest[c]

Blamed(c) == reply[c] = "wrong" \/ outcome[c] = "wrong" => touched[c]

Kept(c) == clean[c] /\ Latest(c) /\ Carried(c) # {} => object = Result(c)

CallInv(c) == InTurn(c) /\ Posted(c) /\ Undisturbed(c) /\ Blamed(c) /\ Kept(c)

OssIInv == IInv /\ OssTypeOK /\ \A c \in Calls : CallInv(c)
=============================================================================
