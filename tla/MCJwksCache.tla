---------------------------- MODULE MCJwksCache ----------------------------
(* JwksCache on small instances. *)
EXTENDS JwksCache, TLC

\* Tasks behave alike, and so do kids when every one of them is well formed.
Symmetry == Permutations(Requests) \cup Permutations(Kids)

\* Requests only: warm is never called (a service may skip it).
NoStartup == pc[Starter] = "idle" /\ open
=============================================================================
