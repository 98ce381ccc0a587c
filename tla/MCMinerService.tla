--------------------------- MODULE MCMinerService ---------------------------
(***************************************************************************)
(* Small instances of the miner service for TLC.                           *)
(***************************************************************************)
EXTENDS MinerService
=============================================================================
