----------------------------- MODULE MCMinerCore -----------------------------
(* An instance with few engines and a short compression for TLC.             *)
EXTENDS MinerCore
=============================================================================
