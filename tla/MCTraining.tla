---------------------------- MODULE MCTraining ----------------------------
(* An instance of Capability for TLC: four entries of the catalog, in its  *)
(* order, with one skill in two languages.                                 *)
EXTENDS Capability, TLC

MCCategory == 0 :> "data_cleaning" @@ 1 :> "algorithm"
              @@ 2 :> "javascript_correctness" @@ 3 :> "algorithm"
MCLanguage == 0 :> "python" @@ 1 :> "python" @@ 2 :> "node" @@ 3 :> "node"
MCDifficulty == 0 :> 1 @@ 1 :> 2 @@ 2 :> 5 @@ 3 :> 3
=============================================================================
