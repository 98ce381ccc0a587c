---------------------------- MODULE AxiCdcBridge ----------------------------
(***************************************************************************)
(* rtl/axi_lite_cdc_bridge.sv between the 125 MHz AXI domain ("s") and the *)
(* 250 MHz miner domain ("m"), with the AXI front end of                   *)
(* rtl/bitcoin_miner_axi.sv behind it.  One action per clock edge; the     *)
(* edges of the two clocks come in any order.  The bridge treats its write *)
(* channels and its read channels alike, so a variable named after a       *)
(* signal X is indexed by channel: X["w"] is write_X, X["r"] is read_X.    *)
(* awvalid and wvalid are one signal here, and so are awready and wready:  *)
(* bridge and miner raise and lower them together.                         *)
(***************************************************************************)
EXTENDS Integers

CONSTANTS Addr, Data, Zero,
    None      \* an empty pipeline stage, no request offered

ASSUME DataAssumption == Zero \in Data

Ch == {"w", "r"}
Req(c) == IF c = "w" THEN [addr : Addr, data : Data] ELSE Addr
Okay == "okay"
Ans(c) == IF c = "w" THEN {Okay} ELSE Data

ASSUME NoneAssumption == None \notin Req("w") \cup Addr \cup Data

VARIABLES
    \* s_axi_aclk domain
    s_up,         \* s_axi_aresetn
    busy, req_toggle, req, rsp_sync1, rsp_sync2, rsp_seen,
    s_valid,      \* s_axi_bvalid, s_axi_rvalid
    s_resp,       \* s_axi_bresp, s_axi_rdata
    \* m_axi_aclk domain, the bridge
    m_up,         \* m_axi_aresetn
    req_sync1, req_sync2, req_seen, active, rsp_toggle, rsp,
    m_valid,      \* m_axi_awvalid with m_axi_wvalid, m_axi_arvalid
    m_req,        \* m_axi_awaddr with m_axi_wdata, m_axi_araddr
    m_ready,      \* m_axi_bready, m_axi_rready
    \* m_axi_aclk domain, the miner's AXI front end
    addr_ready,   \* s_axi_awready with s_axi_wready, s_axi_arready
    axi_stage1,   \* wr_stage1, rd_stage1
    axi_stage2,   \* wr_stage2, rd_stage2
    valid,        \* s_axi_bvalid, s_axi_rvalid of the miner
    rdata,        \* s_axi_rdata of the miner
    regs,         \* the registers behind it
    writes        \* writes applied, modulo 4

sVars == <<s_up, busy, req_toggle, req, rsp_sync1, rsp_sync2, rsp_seen, s_valid, s_resp>>
bridgeVars == <<m_up, req_sync1, req_sync2, req_seen, active, rsp_toggle, rsp, m_valid,
                m_req, m_ready>>
minerVars == <<addr_ready, axi_stage1, axi_stage2, valid, rdata, regs, writes>>
axiVars == <<sVars, bridgeVars, minerVars>>

Bit == {0, 1}

BridgeTypeOK ==
    /\ s_up \in BOOLEAN /\ m_up \in BOOLEAN
    /\ busy \in [Ch -> BOOLEAN] /\ active \in [Ch -> BOOLEAN]
    /\ req_toggle \in [Ch -> Bit] /\ req_sync1 \in [Ch -> Bit]
    /\ req_sync2 \in [Ch -> Bit] /\ req_seen \in [Ch -> Bit]
    /\ rsp_toggle \in [Ch -> Bit] /\ rsp_sync1 \in [Ch -> Bit]
    /\ rsp_sync2 \in [Ch -> Bit] /\ rsp_seen \in [Ch -> Bit]
    /\ \A c \in Ch :
        /\ req[c] \in Req(c) \cup {None} /\ m_req[c] \in Req(c) \cup {None}
        /\ rsp[c] \in Ans(c) \cup {None} /\ s_resp[c] \in Ans(c) \cup {None}
        /\ axi_stage1[c] \in Req(c) \cup {None}
    /\ axi_stage2["w"] \in Req("w") \cup {None} /\ axi_stage2["r"] \in Data \cup {None}
    /\ s_valid \in [Ch -> BOOLEAN] /\ m_valid \in [Ch -> BOOLEAN]
    /\ m_ready \in [Ch -> BOOLEAN] /\ addr_ready \in [Ch -> BOOLEAN]
    /\ valid \in [Ch -> BOOLEAN]
    /\ rdata \in Data \cup {None}
    /\ regs \in [Addr -> Data] /\ writes \in 0 .. 3

BridgeInit ==
    /\ s_up = FALSE /\ m_up = FALSE
    /\ busy = [c \in Ch |-> FALSE] /\ active = [c \in Ch |-> FALSE]
    /\ req_toggle = [c \in Ch |-> 0] /\ req_sync1 = [c \in Ch |-> 0]
    /\ req_sync2 = [c \in Ch |-> 0] /\ req_seen = [c \in Ch |-> 0]
    /\ rsp_toggle = [c \in Ch |-> 0] /\ rsp_sync1 = [c \in Ch |-> 0]
    /\ rsp_sync2 = [c \in Ch |-> 0] /\ rsp_seen = [c \in Ch |-> 0]
    /\ req = [c \in Ch |-> None] /\ m_req = [c \in Ch |-> None]
    /\ rsp = [c \in Ch |-> None] /\ s_resp = [c \in Ch |-> None]
    /\ axi_stage1 = [c \in Ch |-> None] /\ axi_stage2 = [c \in Ch |-> None]
    /\ s_valid = [c \in Ch |-> FALSE] /\ m_valid = [c \in Ch |-> FALSE]
    /\ m_ready = [c \in Ch |-> FALSE] /\ addr_ready = [c \in Ch |-> FALSE]
    /\ valid = [c \in Ch |-> FALSE] /\ rdata = None
    /\ regs = [a \in Addr |-> Zero] /\ writes = 0

\* proc_sys_reset releases the two resets, in either order.
ReleaseS == ~s_up /\ s_up' = TRUE
    /\ UNCHANGED <<busy, req_toggle, req, rsp_sync1, rsp_sync2, rsp_seen, s_valid, s_resp>>
    /\ UNCHANGED <<bridgeVars, minerVars>>
ReleaseM == ~m_up /\ m_up' = TRUE
    /\ UNCHANGED <<req_sync1, req_sync2, req_seen, active, rsp_toggle, rsp, m_valid, m_req, m_ready>>
    /\ UNCHANGED <<sVars, minerVars>>

-----------------------------------------------------------------------------
\* Faulty variant of SReady: an access under way does not hold off the next.
SReadyWhileBusy == \A c \in Ch : ~s_valid[c]

\* s_axi_awready with s_axi_wready, s_axi_arready.
SReady == \A c \in Ch : ~busy[c] /\ ~s_valid[c]

\* The first flip-flop of a synchroniser.  When the toggle changes close to the
\* clock edge it may still take the old value, which is the one it holds.
Sampled(toggle, sync1, fresh) == [c \in Ch |-> IF c \in fresh THEN toggle[c] ELSE sync1[c]]

\* s_axi_aclk: the interconnect offers the requests of offer and is ready for
\* the responses of taken.
SClock(offer, taken, fresh) ==
    LET accept(c) == SReady /\ offer[c] # None
        answer(c) == busy[c] /\ rsp_sync2[c] # rsp_seen[c]
    IN
    /\ s_up
    /\ rsp_sync1' = Sampled(rsp_toggle, rsp_sync1, fresh)
    /\ rsp_sync2' = rsp_sync1
    /\ req' = [c \in Ch |-> IF accept(c) THEN offer[c] ELSE req[c]]
    /\ req_toggle' = [c \in Ch |-> IF accept(c) THEN 1 - req_toggle[c] ELSE req_toggle[c]]
    /\ busy' = [c \in Ch |-> IF answer(c) THEN FALSE ELSE accept(c) \/ busy[c]]
    /\ rsp_seen' = [c \in Ch |-> IF answer(c) THEN rsp_sync2[c] ELSE rsp_seen[c]]
    /\ s_resp' = [c \in Ch |-> IF answer(c) THEN rsp[c] ELSE s_resp[c]]
    /\ s_valid' = [c \in Ch |-> answer(c) \/ (s_valid[c] /\ c \notin taken)]
    /\ UNCHANGED <<s_up, bridgeVars, minerVars>>

-----------------------------------------------------------------------------
\* The address handshake.
Handshake(c) == m_valid[c] /\ addr_ready[c]

\* Faulty variant of Finish: the response is taken with the request only.
FinishWithRequest(c) == valid[c] /\ m_ready[c] /\ m_valid[c]

\* The response handshake.
Finish(c) == valid[c] /\ m_ready[c]

\* Faulty variant of Launch: the level of the toggle starts an access.
LaunchOnLevel(c) == (\A d \in Ch : ~active[d]) /\ req_sync2[c] = 1

\* A request has crossed and the miner side is free.
Launch(c) == (\A d \in Ch : ~active[d]) /\ req_sync2[c] # req_seen[c]

\* m_axi_aclk, the bridge.
Bridge(fresh) ==
    /\ req_sync1' = Sampled(req_toggle, req_sync1, fresh)
    /\ req_sync2' = req_sync1
    /\ req_seen' = [c \in Ch |-> IF Launch(c) THEN req_sync2[c] ELSE req_seen[c]]
    /\ m_req' = [c \in Ch |-> IF Launch(c) THEN req[c] ELSE m_req[c]]
    /\ m_valid' = [c \in Ch |-> ~Handshake(c) /\ (Launch(c) \/ m_valid[c])]
    /\ active' = [c \in Ch |-> ~Finish(c) /\ (Launch(c) \/ active[c])]
    /\ m_ready' = [c \in Ch |-> /\ ~Finish(c)
                                /\ IF c = "w" THEN active[c] /\ ~m_valid[c]
                                              ELSE Handshake(c) \/ m_ready[c]]
    /\ rsp_toggle' = [c \in Ch |-> IF Finish(c) THEN 1 - rsp_toggle[c] ELSE rsp_toggle[c]]
    /\ rsp' = [c \in Ch |-> IF Finish(c) THEN (IF c = "w" THEN Okay ELSE rdata) ELSE rsp[c]]

\* write_fire, read_fire
Fire(c) == m_valid[c] /\ axi_stage1[c] = None /\ axi_stage2[c] = None /\ ~valid[c]

read_reg(a) == regs[a]

\* The same clock in the miner: accept, decode or read, apply and respond.
FrontEnd ==
    LET advance(c) == axi_stage1[c] # None /\ (c = "w" => axi_stage2[c] = None /\ ~valid[c])
        retire(c) == axi_stage2[c] # None /\ ~valid[c]
    IN
    /\ addr_ready' = [c \in Ch |-> Fire(c)]
    /\ axi_stage1' = [c \in Ch |-> IF advance(c) THEN None
                                   ELSE IF Fire(c) THEN m_req[c] ELSE axi_stage1[c]]
    /\ axi_stage2' = [c \in Ch |-> IF retire(c) THEN None
                                   ELSE IF ~advance(c) THEN axi_stage2[c]
                                   ELSE IF c = "w" THEN axi_stage1[c] ELSE read_reg(axi_stage1[c])]
    /\ valid' = [c \in Ch |-> retire(c) \/ (valid[c] /\ ~m_ready[c])]
    /\ rdata' = IF retire("r") THEN axi_stage2["r"] ELSE rdata
    /\ IF retire("w")
       THEN /\ regs' = [regs EXCEPT ![axi_stage2["w"].addr] = axi_stage2["w"].data]
            /\ writes' = (writes + 1) % 4
       ELSE UNCHANGED <<regs, writes>>

MClock(fresh) == m_up /\ Bridge(fresh) /\ FrontEnd /\ UNCHANGED <<m_up, sVars>>

Offers == {o \in [Ch -> Req("w") \cup Addr \cup {None}] :
             \A c \in Ch : o[c] \in Req(c) \cup {None}}
NoOffer == [c \in Ch |-> None]

\* Offers, readiness and sampling are chosen only where they make a difference.
BridgeNext ==
    \/ ReleaseS
    \/ ReleaseM
    \/ \E offer \in IF SReady THEN Offers ELSE {NoOffer},
          taken \in SUBSET {c \in Ch : s_valid[c]},
          fresh \in SUBSET {c \in Ch : rsp_toggle[c] # rsp_sync1[c]} :
            SClock(offer, taken, fresh)
    \/ \E fresh \in SUBSET {c \in Ch : req_toggle[c] # req_sync1[c]} : MClock(fresh)

BridgeSpec == BridgeInit /\ [][BridgeNext]_axiVars

\* The resets are released, both clocks run, a synchroniser settles, and the
\* interconnect accepts responses.
Fairness ==
    /\ WF_axiVars(ReleaseS) /\ WF_axiVars(ReleaseM)
    /\ WF_axiVars(\E offer \in Offers : SClock(offer, Ch, Ch))
    /\ WF_axiVars(MClock(Ch))

BridgeFairSpec == BridgeSpec /\ Fairness

-----------------------------------------------------------------------------
(***************************************************************************)
(* Properties.                                                             *)
(***************************************************************************)
\* Where an access on channel c is, as RegisterPort sees it.
PortOf(c) ==
    LET served == IF rsp_toggle[c] # rsp_seen[c] THEN rsp[c]
                  ELSE IF c = "w" THEN Okay
                  ELSE IF valid[c] THEN rdata ELSE axi_stage2[c]
    IN
    IF s_valid[c] THEN [st |-> "answered", val |-> s_resp[c]]
    ELSE IF ~busy[c] THEN [st |-> "idle", val |-> Okay]
    ELSE IF \/ rsp_toggle[c] # rsp_seen[c] \/ valid[c]
            \/ c = "r" /\ axi_stage2[c] # None
    THEN [st |-> "served", val |-> served]
    ELSE [st |-> "pending", val |-> req[c]]

Port == INSTANCE RegisterPort WITH port <- [c \in Ch |-> PortOf(c)]

\* The bridge with the miner's AXI front end behind it implements RegisterPort:
\* an access accepted on the R5's side takes effect in the miner exactly once and
\* is answered with what it found then.
ImplementsPort == Port!Spec

\* "Request and response payloads are held stable while a toggle handshake
\* crosses the clock boundary" (axi_lite_cdc_bridge.sv:4): a request changes
\* only when the miner side has seen the one before it, a response only when the
\* AXI side has.
PayloadsStable ==
    [][\A c \in Ch : /\ req_toggle[c] # req_seen[c] => req'[c] = req[c]
                     /\ rsp_toggle[c] # rsp_seen[c] => rsp'[c] = rsp[c]]_axiVars

\* Every accepted access is answered.
Answered == \A c \in Ch : busy[c] ~> s_valid[c]
=============================================================================
