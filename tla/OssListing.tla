----------------------------- MODULE OssListing -----------------------------
(***************************************************************************)
(* OSSClient.iter_objects of oss.py: the objects under a prefix, read page *)
(* by page with a marker, while others store and delete objects.  Keys are *)
(* numbers in the order of the listing; 0 is the empty marker.             *)
(***************************************************************************)
EXTENDS Integers, Sequences, FiniteSets, Functions

CONSTANTS
  LastKey,   \* keys are 1..LastKey
  PageSize   \* _MAX_LIST_KEYS

ASSUME ListingAssumption == LastKey \in Nat /\ PageSize \in Nat \ {0}

VARIABLES
  bucket,   \* keys of the objects under the prefix
  pc,       \* where the iteration is
  marker,   \* of iter_objects
  answer,   \* page on its way from OSS
  page,     \* entries of the page not yielded yet
  next,     \* next_marker of the page
  yielded,  \* keys yielded, in that order
  stayed    \* history: keys there when the iteration began and ever since

vars == <<bucket, pc, marker, answer, page, next, yielded, stayed>>

Keys == 1..LastKey
NoMarker == 0
Pages == [keys : SUBSET Keys, next : Keys \cup {NoMarker}]
NoAnswer == [keys |-> {}, next |-> -1]

TypeOK ==
  /\ bucket \subseteq Keys /\ stayed \subseteq bucket
  /\ pc \in {"idle", "asking", "yielding", "done", "raised", "left"}
  /\ marker \in Keys \cup {NoMarker}
  /\ answer \in Pages \cup {NoAnswer}
  /\ page \subseteq Keys
  /\ next \in Keys \cup {NoMarker}
  /\ yielded \in Seq(Keys)

Seen == Range(yielded)

-----------------------------------------------------------------------------
(* The bucket *)

Put(k) ==
  /\ bucket' = bucket \cup {k}
  /\ UNCHANGED <<pc, marker, answer, page, next, yielded, stayed>>

Delete(k) ==
  /\ bucket' = bucket \ {k}
  /\ stayed' = stayed \ {k}
  /\ UNCHANGED <<pc, marker, answer, page, next, yielded>>

\* OSS answers a request, and every retry of it, with the page there is then: all
\* keys after the marker, or as many as a page holds and the last of them as NextMarker.
After(m) == {k \in bucket : k > m}

Serve ==
  /\ pc = "asking"
  /\ \/ /\ Cardinality(After(marker)) <= PageSize
        /\ answer' = [keys |-> After(marker), next |-> NoMarker]
     \/ \E n \in After(marker) :
          LET upTo == {k \in After(marker) : k <= n} IN
          /\ Cardinality(upTo) = PageSize /\ upTo # After(marker)
          /\ answer' = [keys |-> upTo, next |-> n]
  /\ UNCHANGED <<bucket, pc, marker, page, next, yielded, stayed>>

-----------------------------------------------------------------------------
(* The iteration *)

Begin ==
  /\ pc = "idle"
  /\ pc' = "asking"
  /\ marker' = NoMarker
  /\ stayed' = bucket
  /\ UNCHANGED <<bucket, answer, page, next, yielded>>

\* Bugs the code does not have: IsTruncated is not looked at, and an empty page is
\* asked for again.
ReceiveAsLast ==
  /\ pc = "asking" /\ answer # NoAnswer
  /\ pc' = "yielding" /\ page' = answer.keys /\ next' = NoMarker
  /\ answer' = NoAnswer
  /\ UNCHANGED <<bucket, marker, yielded, stayed>>

ReceiveNonEmpty ==
  /\ pc = "asking" /\ answer # NoAnswer
  /\ pc' = IF answer.keys = {} THEN "asking" ELSE "yielding"
  /\ page' = answer.keys /\ next' = answer.next
  /\ answer' = NoAnswer
  /\ UNCHANGED <<bucket, marker, yielded, stayed>>

Receive ==
  /\ pc = "asking" /\ answer # NoAnswer
  /\ pc' = "yielding" /\ page' = answer.keys /\ next' = answer.next
  /\ answer' = NoAnswer
  /\ UNCHANGED <<bucket, marker, yielded, stayed>>

\* RetryBudgetExceeded, HTTPStatusError or a body that is not a listing.
Raise ==
  /\ pc = "asking"
  /\ pc' = "raised" /\ answer' = NoAnswer
  /\ UNCHANGED <<bucket, marker, page, next, yielded, stayed>>

Yield ==
  /\ pc = "yielding"
  /\ \E k \in page :
       /\ \A j \in page : k <= j
       /\ yielded' = Append(yielded, k)
       /\ page' = page \ {k}
  /\ UNCHANGED <<bucket, pc, marker, answer, next, stayed>>

\* The consumer breaks out of its loop.
Leave ==
  /\ pc = "yielding"
  /\ pc' = "left"
  /\ UNCHANGED <<bucket, marker, answer, page, next, yielded, stayed>>

\* A bug the code does not have: every page is asked for with the first marker.
FollowNothing ==
  /\ pc = "yielding" /\ page = {} /\ next # NoMarker
  /\ pc' = "asking"
  /\ UNCHANGED <<bucket, marker, answer, page, next, yielded, stayed>>

FollowMarker ==
  /\ pc = "yielding" /\ page = {} /\ next # NoMarker
  /\ pc' = "asking" /\ marker' = next
  /\ UNCHANGED <<bucket, answer, page, next, yielded, stayed>>

Finish ==
  /\ pc = "yielding" /\ page = {} /\ next = NoMarker
  /\ pc' = "done"
  /\ UNCHANGED <<bucket, marker, answer, page, next, yielded, stayed>>

Init ==
  /\ bucket \in SUBSET Keys /\ stayed = bucket
  /\ pc = "idle"
  /\ marker = NoMarker
  /\ answer = NoAnswer
  /\ page = {} /\ next = NoMarker
  /\ yielded = <<>>

Iterate == Receive \/ Raise \/ Yield \/ FollowMarker \/ Finish

Next ==
  \/ \E k \in Keys : Put(k) \/ Delete(k)
  \/ Serve \/ Begin \/ Leave \/ Iterate

Spec == Init /\ [][Next]_vars

\* Every request is answered or given up (TracedCall), and the consumer goes on.
LiveSpec == Spec /\ WF_vars(Serve) /\ WF_vars(Iterate)

-----------------------------------------------------------------------------
(* Properties *)

\* iter_objects yields each object at most once and in key order, whatever is
\* stored or deleted between its pages.
OnceInOrder ==
  \A i, j \in 1..Len(yielded) : i < j => yielded[i] < yielded[j]

\* An iteration that ends without raising has yielded every object that was in the
\* bucket all along: a partial listing is never taken for the whole one.  And one
\* that raises or is left has skipped none before the last object it yielded.
CompleteListing ==
  \A k \in stayed : pc = "done" \/ (\E y \in Seen : k < y) => k \in Seen

\* Every further page is asked for from beyond the last one, however the bucket
\* shrinks, grows or empties: no page is read twice.
MarkerAdvances == [][pc = "yielding" /\ pc' = "asking" => marker < marker']_vars

\* An iteration ends or raises, though others go on storing objects.
IterationEnds == pc = "asking" ~> pc \in {"done", "raised", "left"}

-----------------------------------------------------------------------------
(* The inductive invariant behind the safety properties *)

\* Keys to come lie behind the ones yielded.
Forward ==
  /\ \A k \in page, y \in Seen : y < k
  /\ pc \in {"idle", "asking"} =>
       /\ \A y \in Seen : y <= marker
       /\ answer # NoAnswer => \A k \in answer.keys : marker < k
  /\ pc = "yielding" /\ next # NoMarker =>
       marker < next /\ \A k \in Seen \cup page : k <= next
  /\ answer # NoAnswer /\ answer.next # NoMarker =>
       marker < answer.next /\ \A k \in answer.keys : k <= answer.next

\* Keys that stayed are yielded, at hand, or still to be asked for.
Covered ==
  /\ pc \in {"idle", "asking"} => \A k \in stayed : k <= marker => k \in Seen
  /\ pc = "asking" /\ answer # NoAnswer =>
       \A k \in stayed : k > marker /\ (answer.next = NoMarker \/ k <= answer.next)
                           => k \in answer.keys
  /\ pc = "yielding" =>
       \A k \in stayed : next = NoMarker \/ k <= next => k \in Seen \cup page

IInv ==
  /\ TypeOK /\ Forward /\ Covered
  /\ OnceInOrder /\ CompleteListing
  /\ pc = "idle" => marker = NoMarker
  /\ pc \in {"idle", "asking"} => page = {}
  /\ pc # "asking" => answer = NoAnswer
=============================================================================
