----------------------------- MODULE MCHardware -----------------------------
(***************************************************************************)
(* Three parts of the programmable logic for TLC: the CDC bridge, the      *)
(* division of a nonce range and the way of a result.  They share no       *)
(* state.  A behaviour runs one of them, unit, and the other two stay as   *)
(* they begin.                                                             *)
(***************************************************************************)
EXTENDS AxiCdcBridge, NonceScan, ResultPath

VARIABLE unit

Init ==
    /\ unit \in {"bridge", "scan", "path"}
    /\ BridgeInit /\ ScanInit /\ PathInit
    /\ unit # "scan" => nonce_start = 0 /\ nonce_count = 0

\* Every nonce has been hashed: nothing is left to do.
ScanEnds == Complete /\ UNCHANGED scanVars

Next ==
    /\ \/ unit = "bridge" /\ BridgeNext /\ UNCHANGED <<scanVars, pathVars>>
       \/ unit = "scan" /\ (ScanNext \/ ScanEnds) /\ UNCHANGED <<axiVars, pathVars>>
       \/ unit = "path" /\ PathNext /\ UNCHANGED <<axiVars, scanVars>>
    /\ UNCHANGED unit

\* The fairness of AxiCdcBridge, where the bridge runs.
OfBridge(A) == unit = "bridge" /\ A
UnitFairness ==
    /\ WF_axiVars(OfBridge(ReleaseS)) /\ WF_axiVars(OfBridge(ReleaseM))
    /\ WF_axiVars(OfBridge(\E offer \in Offers : SClock(offer, Ch, Ch)))
    /\ WF_axiVars(OfBridge(MClock(Ch)))

Spec == Init /\ [][Next]_<<unit, axiVars, scanVars, pathVars>> /\ UnitFairness
=============================================================================
