-------------------------- MODULE MCDatabaseSetup --------------------------
(* Instances of DatabaseSetup and TrainSearch for TLC.                      *)
EXTENDS TrainSearch, TLC
=============================================================================
