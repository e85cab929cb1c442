----------------------------- MODULE MCOnceOnly -----------------------------
(***************************************************************************)
(* What the service does once: the import of the SQLite file and the       *)
(* contact of a client (Cutover), and the page that saves a key            *)
(* (KeySetup).  They share no state; a behaviour is one of the two.        *)
(***************************************************************************)
EXTENDS Cutover, KeySetup, TLC

VARIABLE part

OnceInit == part \in {"cutover", "key"} /\ Init /\ KeyInit

OnceNext ==
  /\ \/ part = "cutover" /\ Next /\ UNCHANGED keyVars
     \/ part = "key" /\ KeyNext /\ UNCHANGED vars
  /\ UNCHANGED part

OnceSpec == OnceInit /\ [][OnceNext]_<<vars, keyVars, part>>

\* Processes, clients and submissions are interchangeable.
OnceSymmetry == Permutations(Procs) \cup Permutations(Clients) \cup Permutations(Submissions)
=============================================================================
