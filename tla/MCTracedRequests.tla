-------------------------- MODULE MCTracedRequests --------------------------
(* TracedRequests on a small instance. *)
EXTENDS TracedRequests, TLC

\* A public page and a member's route with the credentials that tell them apart, a
\* feature that is switched off and a probe of /health.
MCAsks ==
  [route : {"optional"}, credential : {"none", "junk", "user"},
   featureOff : {FALSE}, quiet : {FALSE}]
  \cup [route : {"capability"}, credential : {"none", "user", "entitled"},
        featureOff : {FALSE}, quiet : {FALSE}]
  \cup {[route |-> "open", credential |-> "none", featureOff |-> b, quiet |-> ~b] : b \in BOOLEAN}

Symmetry == Permutations(Requests)
=============================================================================
