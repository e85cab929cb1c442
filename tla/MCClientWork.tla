----------------------------- MODULE MCClientWork -----------------------------
(* Instances of ClientWork for TLC.                                          *)
EXTENDS ClientWork, TLC

\* Requests, sessions and handlers are interchangeable.
ClientSymmetry ==
  Permutations(Requests) \cup Permutations(Sessions) \cup Permutations(Handlers)
=============================================================================
