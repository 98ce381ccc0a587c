------------------------- MODULE AxiCdcBridgeProofs -------------------------
(***************************************************************************)
(* Proofs about AxiCdcBridge, for any addresses and data.  The inductive   *)
(* invariant says where the one access of a channel is: waiting to cross,  *)
(* active in the miner (in one of four clocks), on its way back, or        *)
(* answered.                                                               *)
(***************************************************************************)
EXTENDS AxiCdcBridge, TLAPS

\* A toggle and the flip-flops that follow it hold at most one edge.
Chain(toggle, sync1, sync2, seen) ==
    /\ sync1 # sync2 => sync1 = toggle /\ sync2 = seen
    /\ sync2 # seen => sync1 = sync2 /\ toggle = sync1

Crossing(c) == req_toggle[c] # req_seen[c]
Returning(c) == rsp_toggle[c] # rsp_seen[c]

Quiet(c) == /\ ~m_valid[c] /\ ~addr_ready[c] /\ ~valid[c] /\ ~m_ready[c]
            /\ axi_stage1[c] = None /\ axi_stage2[c] = None

\* The four clocks of an active access.
Launched(c) == /\ m_valid[c] /\ ~addr_ready[c] /\ ~valid[c] /\ ~m_ready[c]
               /\ axi_stage1[c] = None /\ axi_stage2[c] = None
Fetched(c) == /\ m_valid[c] /\ addr_ready[c] /\ ~valid[c] /\ ~m_ready[c]
              /\ axi_stage1[c] = m_req[c] /\ axi_stage2[c] = None
Staged(c) == /\ ~m_valid[c] /\ ~addr_ready[c] /\ ~valid[c]
             /\ axi_stage1[c] = None
             /\ IF c = "w" THEN axi_stage2[c] = m_req[c] /\ ~m_ready[c]
                           ELSE axi_stage2[c] \in Data /\ m_ready[c]
Responding(c) == /\ ~m_valid[c] /\ ~addr_ready[c] /\ valid[c] /\ m_ready[c]
                 /\ axi_stage1[c] = None /\ axi_stage2[c] = None
                 /\ c = "r" => rdata \in Data

ChanInv(c) ==
    /\ Chain(req_toggle[c], req_sync1[c], req_sync2[c], req_seen[c])
    /\ Chain(rsp_toggle[c], rsp_sync1[c], rsp_sync2[c], rsp_seen[c])
    /\ busy[c] <=> Crossing(c) \/ active[c] \/ Returning(c)
    /\ Crossing(c) => ~active[c] /\ ~Returning(c)
    /\ active[c] => ~Returning(c)
    /\ s_valid[c] => ~busy[c] /\ s_resp[c] \in Ans(c)
    /\ busy[c] => req[c] \in Req(c)
    /\ Returning(c) => rsp[c] \in Ans(c)
    /\ IF active[c]
       THEN m_req[c] = req[c] /\ (Launched(c) \/ Fetched(c) \/ Staged(c) \/ Responding(c))
       ELSE Quiet(c)

BridgeInv == BridgeTypeOK /\ \A c \in Ch : ChanInv(c)

LEMMA BridgeInitInv == BridgeInit => BridgeInv
<1> SUFFICES ASSUME BridgeInit PROVE BridgeInv
  OBVIOUS
<1>0. "w" \in Ch /\ "r" \in Ch
  BY DEF Ch
<1>1. BridgeTypeOK
  <2>1. /\ axi_stage2["w"] = None /\ axi_stage2["r"] = None /\ rdata = None
        /\ regs \in [Addr -> Data] /\ writes \in 0 .. 3
    BY <1>0, DataAssumption DEF BridgeInit
  <2>2. /\ s_up \in BOOLEAN /\ m_up \in BOOLEAN
        /\ busy \in [Ch -> BOOLEAN] /\ active \in [Ch -> BOOLEAN]
        /\ s_valid \in [Ch -> BOOLEAN] /\ m_valid \in [Ch -> BOOLEAN]
        /\ m_ready \in [Ch -> BOOLEAN] /\ addr_ready \in [Ch -> BOOLEAN]
        /\ valid \in [Ch -> BOOLEAN]
    BY Zenon DEF BridgeInit
  <2> QED  BY <2>1, <2>2 DEF BridgeInit, BridgeTypeOK, Bit
<1>2. ASSUME NEW c \in Ch PROVE ChanInv(c)
  BY DEF BridgeInit, ChanInv, Chain, Crossing, Returning, Quiet
<1> QED  BY <1>1, <1>2 DEF BridgeInv

LEMMA STypes ==
  ASSUME BridgeInv, NEW offer \in Offers, NEW taken \in SUBSET Ch, NEW fresh \in SUBSET Ch,
         SClock(offer, taken, fresh)
  PROVE  BridgeTypeOK'
<1>1. /\ busy' \in [Ch -> BOOLEAN] /\ s_valid' \in [Ch -> BOOLEAN]
  BY Zenon DEF BridgeInv, BridgeTypeOK, SClock
<1>2. /\ rsp_sync1' \in [Ch -> Bit] /\ rsp_sync2' \in [Ch -> Bit]
      /\ rsp_seen' \in [Ch -> Bit]
  BY DEF BridgeInv, BridgeTypeOK, SClock, Sampled
<1>3. req_toggle' \in [Ch -> Bit]
  BY DEF BridgeInv, BridgeTypeOK, SClock, Bit
<1>4. \A c \in Ch : req'[c] \in Req(c) \cup {None} /\ s_resp'[c] \in Ans(c) \cup {None}
  BY DEF BridgeInv, BridgeTypeOK, SClock, Offers
<1> QED  BY ZenonT(60), <1>1, <1>2, <1>3, <1>4 DEF BridgeInv, BridgeTypeOK, SClock, bridgeVars, minerVars

LEMMA SChan ==
  ASSUME BridgeInv, NEW offer \in Offers, NEW taken \in SUBSET Ch, NEW fresh \in SUBSET Ch,
         SClock(offer, taken, fresh), NEW c \in Ch
  PROVE  ChanInv(c)'
<1> USE DEF SClock, bridgeVars, minerVars
<1>0. ChanInv(c) /\ BridgeTypeOK
  BY DEF BridgeInv
<1>1. /\ req_toggle[c] \in Bit /\ req_sync1[c] \in Bit /\ req_sync2[c] \in Bit
      /\ req_seen[c] \in Bit /\ rsp_toggle[c] \in Bit /\ rsp_sync1[c] \in Bit
      /\ rsp_sync2[c] \in Bit /\ rsp_seen[c] \in Bit
  BY ZenonT(60), <1>0 DEF BridgeTypeOK
<1>2. Chain(req_toggle[c], req_sync1[c], req_sync2[c], req_seen[c])'
  BY ZenonT(60), <1>0, <1>1 DEF ChanInv, Chain, Crossing, SReady, Bit
<1>3. Chain(rsp_toggle[c], rsp_sync1[c], rsp_sync2[c], rsp_seen[c])'
  <2>1. /\ rsp_toggle'[c] = rsp_toggle[c] /\ rsp_sync2'[c] = rsp_sync1[c]
        /\ rsp_sync1'[c] = rsp_toggle[c] \/ rsp_sync1'[c] = rsp_sync1[c]
        /\ rsp_seen'[c] = IF busy[c] /\ rsp_sync2[c] # rsp_seen[c] THEN rsp_sync2[c]
                                                                 ELSE rsp_seen[c]
    BY ZenonT(60) DEF Sampled
  <2>2. rsp_sync2[c] # rsp_seen[c] => busy[c]
    BY ZenonT(60), <1>0 DEF ChanInv, Chain, Returning
  <2> QED  BY ZenonT(60), <1>0, <1>1, <2>1, <2>2 DEF ChanInv, Chain, Bit
<1>4. CASE busy[c] /\ rsp_sync2[c] # rsp_seen[c]
  BY ZenonT(60), <1>0, <1>1, <1>2, <1>3, <1>4 DEF ChanInv, Chain, Crossing, Returning, SReady, Bit, Quiet,
     Launched, Fetched, Staged, Responding
<1>5. CASE SReady /\ offer[c] # None
  <2>1. /\ ~busy[c] /\ ~s_valid[c] /\ offer[c] \in Req(c)
    BY ZenonT(60), <1>5 DEF SReady, Offers
  <2>2. /\ ~Crossing(c) /\ ~active[c] /\ ~Returning(c) /\ Quiet(c)
    BY ZenonT(60), <1>0, <2>1 DEF ChanInv
  <2>3. /\ req'[c] = offer[c] /\ busy'[c] /\ ~s_valid'[c] /\ ~active'[c] /\ Quiet(c)'
        /\ req_toggle'[c] = 1 - req_toggle[c] /\ req_seen'[c] = req_seen[c]
        /\ rsp_toggle'[c] = rsp_toggle[c] /\ rsp_seen'[c] = rsp_seen[c]
    BY ZenonT(60), <1>5, <2>1, <2>2 DEF Quiet
  <2>4. Crossing(c)' /\ ~Returning(c)'
    BY SMTT(60), <1>1, <2>2, <2>3 DEF Crossing, Returning, Bit
  <2> QED  BY ZenonT(60), <1>2, <1>3, <2>1, <2>3, <2>4 DEF ChanInv
<1>6. CASE ~(busy[c] /\ rsp_sync2[c] # rsp_seen[c]) /\ ~(SReady /\ offer[c] # None)
  BY Zenon, <1>0, <1>1, <1>2, <1>3, <1>6 DEF ChanInv, Chain, Crossing, Returning, SReady, Bit, Quiet,
     Launched, Fetched, Staged, Responding
<1> QED  BY <1>4, <1>5, <1>6

-----------------------------------------------------------------------------
LEMMA MTypes ==
  ASSUME BridgeInv, NEW fresh \in SUBSET Ch, MClock(fresh)
  PROVE  BridgeTypeOK'
<1> USE DEF MClock, sVars
<1>0. BridgeTypeOK /\ "w" \in Ch /\ "r" \in Ch
  BY DEF BridgeInv, Ch
<1>1. /\ active' \in [Ch -> BOOLEAN] /\ m_valid' \in [Ch -> BOOLEAN]
      /\ m_ready' \in [Ch -> BOOLEAN] /\ addr_ready' \in [Ch -> BOOLEAN]
      /\ valid' \in [Ch -> BOOLEAN]
  BY ZenonT(60), <1>0 DEF BridgeTypeOK, Bridge, Launch, FrontEnd, Fire, Handshake
<1>2. /\ req_sync1' \in [Ch -> Bit] /\ req_sync2' \in [Ch -> Bit]
      /\ req_seen' \in [Ch -> Bit]
  BY ZenonT(60), <1>0 DEF BridgeTypeOK, Bridge, Launch, Sampled
<1>3. rsp_toggle' \in [Ch -> Bit]
  BY <1>0 DEF BridgeTypeOK, Bridge, Launch, Bit
<1>4. ASSUME NEW c \in Ch
      PROVE  /\ m_req'[c] \in Req(c) \cup {None} /\ rsp'[c] \in Ans(c) \cup {None}
             /\ axi_stage1'[c] \in Req(c) \cup {None}
  <2>1. m_req'[c] \in Req(c) \cup {None}
    BY ZenonT(60), <1>0 DEF BridgeTypeOK, Bridge, Launch
  <2>2. rsp'[c] \in Ans(c) \cup {None}
    BY ZenonT(60), <1>0 DEF BridgeTypeOK, Bridge, Launch, Ans, Ch
  <2>3. axi_stage1'[c] \in Req(c) \cup {None}
    BY ZenonT(60), <1>0 DEF BridgeTypeOK, FrontEnd
  <2> QED  BY ZenonT(60), <2>1, <2>2, <2>3
<1>5. axi_stage2'["w"] \in Req("w") \cup {None}
  BY ZenonT(60), <1>0 DEF BridgeTypeOK, FrontEnd
<1>6. axi_stage2'["r"] \in Data \cup {None}
  <2>1. axi_stage1["r"] # None => axi_stage1["r"] \in Addr
    BY ZenonT(60), <1>0 DEF BridgeTypeOK, Req
  <2> QED  BY <1>0, <2>1 DEF BridgeTypeOK, FrontEnd, read_reg
<1>7. rdata' \in Data \cup {None}
  BY <1>0 DEF BridgeTypeOK, FrontEnd
<1>8. regs' \in [Addr -> Data] /\ writes' \in 0 .. 3
  <2>1. axi_stage2["w"] # None => axi_stage2["w"].addr \in Addr /\ axi_stage2["w"].data \in Data
    BY ZenonT(60), <1>0 DEF BridgeTypeOK, Req
  <2>2. regs' \in [Addr -> Data]
    BY <1>0, <2>1 DEF BridgeTypeOK, FrontEnd
  <2>3. writes' = (writes + 1) % 4 \/ writes' = writes
    BY DEF FrontEnd
  <2>4. writes' \in 0 .. 3
    BY SMTT(60), <1>0, <2>3 DEF BridgeTypeOK
  <2> QED  BY <2>2, <2>4
<1> QED  BY <1>0, <1>1, <1>2, <1>3, <1>4, <1>5, <1>6, <1>7, <1>8 DEF BridgeTypeOK, sVars

LEMMA Phases ==
  ASSUME BridgeInv, NEW fresh \in SUBSET Ch, MClock(fresh), NEW c \in Ch, active[c]
  PROVE  /\ Launched(c) => Fetched(c)'
         /\ Fetched(c) => Staged(c)' /\ (c = "r" => axi_stage2'[c] = regs[m_req[c]])
         /\ Staged(c) => Responding(c)' /\ (c = "r" => rdata' = axi_stage2[c])
<1> USE DEF MClock, sVars
<1>0. /\ BridgeTypeOK /\ req[c] \in Req(c) /\ m_req[c] = req[c] /\ m_req'[c] = m_req[c]
  BY Zenon DEF BridgeInv, ChanInv, Bridge, Launch
<1>1. m_req[c] # None
  BY <1>0, NoneAssumption, Zenon DEF Req, Ch
<1>2. Launched(c) => Fetched(c)'
  BY Zenon, <1>0 DEF Bridge, Launch, FrontEnd, Launched, Fetched, Handshake, Finish, Fire
<1>3. ASSUME Fetched(c) PROVE Staged(c)' /\ (c = "r" => axi_stage2'[c] = regs[m_req[c]])
  <2>1. ~m_valid'[c] /\ ~addr_ready'[c] /\ ~valid'[c] /\ axi_stage1'[c] = None
    BY ZenonT(60), <1>1, <1>3 DEF Bridge, Launch, FrontEnd, Fetched, Handshake, Finish, Fire
  <2>2. CASE c = "w"
    BY ZenonT(60), <1>0, <1>1, <1>3, <2>1, <2>2 DEF Bridge, Launch, FrontEnd, Fetched, Staged, Handshake, Finish
  <2>3. CASE c = "r"
    <3>1. m_req[c] \in Addr
      BY ZenonT(60), <1>0, <2>3 DEF Req
    <3>2. axi_stage2'[c] = regs[m_req[c]] /\ m_ready'[c]
      BY <1>1, <1>3, <2>3 DEF Bridge, Launch, FrontEnd, read_reg, Fetched, Handshake, Finish
    <3> QED  BY <1>0, <2>1, <2>3, <3>1, <3>2 DEF Staged, BridgeTypeOK
  <2> QED  BY ZenonT(60), <2>2, <2>3 DEF Ch
<1>4. ASSUME Staged(c) PROVE Responding(c)' /\ (c = "r" => rdata' = axi_stage2[c])
  <2>1. axi_stage2[c] # None
    BY ZenonT(60), <1>1, <1>4, NoneAssumption DEF Staged
  <2>2. CASE c = "w"
    BY Zenon, <1>4, <2>1, <2>2 DEF Bridge, Launch, FrontEnd, Staged, Responding, Handshake, Finish, Fire
  <2>3. CASE c = "r"
    BY ZenonT(60), <1>4, <2>1, <2>3 DEF Bridge, Launch, FrontEnd, Staged, Responding, Handshake, Finish, Fire
  <2> QED  BY <2>2, <2>3 DEF Ch
<1> QED  BY <1>2, <1>3, <1>4

LEMMA MChan ==
  ASSUME BridgeInv, NEW fresh \in SUBSET Ch, MClock(fresh), NEW c \in Ch
  PROVE  ChanInv(c)'
<1> USE DEF MClock, sVars
<1>0. ChanInv(c) /\ BridgeTypeOK
  BY ZenonT(60) DEF BridgeInv
<1>1. /\ req_toggle[c] \in Bit /\ req_sync1[c] \in Bit /\ req_sync2[c] \in Bit
      /\ req_seen[c] \in Bit /\ rsp_toggle[c] \in Bit /\ rsp_sync1[c] \in Bit
      /\ rsp_sync2[c] \in Bit /\ rsp_seen[c] \in Bit
  BY ZenonT(60), <1>0 DEF BridgeTypeOK
<1>2. /\ req_toggle'[c] = req_toggle[c] /\ busy'[c] = busy[c] /\ req'[c] = req[c]
      /\ rsp_sync1'[c] = rsp_sync1[c] /\ rsp_sync2'[c] = rsp_sync2[c]
      /\ rsp_seen'[c] = rsp_seen[c] /\ s_valid'[c] = s_valid[c] /\ s_resp'[c] = s_resp[c]
  OBVIOUS
<1>3. /\ req_sync2'[c] = req_sync1[c]
      /\ req_sync1'[c] = req_toggle[c] \/ req_sync1'[c] = req_sync1[c]
  BY DEF Bridge, Launch, Sampled
<1>4. CASE ~active[c] /\ (\A d \in Ch : ~active[d]) /\ req_sync2[c] # req_seen[c]
  <2>1. Quiet(c) /\ Crossing(c) /\ ~Returning(c)
    BY ZenonT(60), <1>0, <1>4 DEF ChanInv, Chain, Crossing
  <2>2. /\ req_seen'[c] = req_sync2[c] /\ m_req'[c] = req[c] /\ active'[c]
        /\ rsp_toggle'[c] = rsp_toggle[c]
    BY ZenonT(60), <1>4, <2>1 DEF Bridge, Launch, Quiet, Finish
  <2>3. Launched(c)'
    BY Zenon, <1>4, <2>1 DEF Bridge, Launch, FrontEnd, Quiet, Finish, Handshake, Launched, Fire
  <2>4. Chain(req_toggle[c], req_sync1[c], req_sync2[c], req_seen[c])'
    BY Zenon, <1>0, <1>1, <1>2, <1>3, <1>4, <2>2 DEF ChanInv, Chain
  <2>5. ~Crossing(c)' /\ ~Returning(c)' /\ busy'[c]
    BY Zenon, <1>0, <1>2, <1>4, <2>1, <2>2 DEF ChanInv, Chain, Crossing, Returning
  <2> QED  BY ZenonT(60), <1>0, <1>2, <2>1, <2>2, <2>3, <2>4, <2>5 DEF ChanInv, Chain
<1>5. CASE ~active[c] /\ ~((\A d \in Ch : ~active[d]) /\ req_sync2[c] # req_seen[c])
  <2>1. Quiet(c)
    BY Zenon, <1>0, <1>5 DEF ChanInv
  <2>2. /\ req_seen'[c] = req_seen[c] /\ ~active'[c] /\ rsp_toggle'[c] = rsp_toggle[c]
        /\ rsp'[c] = rsp[c]
    BY Zenon, <1>5, <2>1 DEF Bridge, Launch, Quiet, Finish
  <2>3. Quiet(c)'
    BY Zenon, <1>5, <2>1 DEF Bridge, Launch, FrontEnd, Quiet, Finish, Handshake, Fire
  <2>4. Chain(req_toggle[c], req_sync1[c], req_sync2[c], req_seen[c])'
    BY Zenon, <1>0, <1>1, <1>2, <1>3, <2>2 DEF ChanInv, Chain, Bit
  <2> QED  BY Zenon, <1>0, <1>2, <1>5, <2>2, <2>3, <2>4 DEF ChanInv, Chain, Crossing, Returning
<1>6. CASE active[c]
  <2>1. /\ ~Crossing(c) /\ ~Returning(c) /\ busy[c] /\ req[c] \in Req(c) /\ m_req[c] = req[c]
        /\ ~s_valid[c]
    BY ZenonT(60), <1>0, <1>6 DEF ChanInv
  <2>2. /\ req_seen'[c] = req_seen[c] /\ m_req'[c] = m_req[c]
    BY ZenonT(60), <1>6 DEF Bridge, Launch
  <2>3. /\ Chain(req_toggle[c], req_sync1[c], req_sync2[c], req_seen[c])'
        /\ ~Crossing(c)'
    BY ZenonT(60), <1>0, <1>1, <1>2, <1>3, <2>1, <2>2 DEF ChanInv, Chain, Crossing, Bit
  <2>4. CASE ~Finish(c)
    <3>1. active'[c] /\ rsp_toggle'[c] = rsp_toggle[c] /\ rsp'[c] = rsp[c]
      BY Zenon, <1>6, <2>4 DEF Bridge, Launch
    <3>2. /\ Launched(c) => Fetched(c)'
          /\ Fetched(c) => Staged(c)'
          /\ Staged(c) => Responding(c)'
      BY Zenon, <1>6, Phases
    <3>5. ~Responding(c)
      BY <2>4 DEF Responding, Finish
    <3>6. (Launched(c) \/ Fetched(c) \/ Staged(c) \/ Responding(c))'
      BY Zenon, <1>0, <1>6, <3>2, <3>5 DEF ChanInv
    <3> QED  BY Zenon, <1>0, <1>2, <2>1, <2>2, <2>3, <3>1, <3>6 DEF ChanInv, Chain, Returning
  <2>5. CASE Finish(c)
    <3>1. Responding(c)
      BY ZenonT(60), <1>0, <1>6, <2>5 DEF ChanInv, Finish, Launched, Fetched, Staged
    <3>2. /\ ~active'[c] /\ rsp_toggle'[c] = 1 - rsp_toggle[c]
          /\ rsp'[c] = IF c = "w" THEN Okay ELSE rdata
      BY ZenonT(60), <2>5 DEF Bridge, Launch
    <3>3. rsp'[c] \in Ans(c)
      BY ZenonT(60), <3>1, <3>2 DEF Responding, Ans, Ch
    <3>4. Quiet(c)'
      BY Zenon, <1>6, <2>5, <3>1 DEF Bridge, Launch, FrontEnd, Responding, Quiet, Handshake, Fire, Finish
    <3>5. Returning(c)' /\ Chain(rsp_toggle[c], rsp_sync1[c], rsp_sync2[c], rsp_seen[c])'
      <4>1. /\ rsp_seen[c] = rsp_toggle[c] /\ rsp_sync2[c] = rsp_toggle[c]
            /\ rsp_sync1[c] = rsp_toggle[c]
        BY Zenon, <1>0, <2>1 DEF Returning, ChanInv, Chain
      <4> QED  BY <1>1, <1>2, <3>2, <4>1 DEF Returning, Chain, Bit
    <3> QED  BY Zenon, <1>2, <2>1, <2>3, <3>2, <3>3, <3>4, <3>5 DEF ChanInv
  <2> QED  BY <2>4, <2>5
<1> QED  BY <1>4, <1>5, <1>6

-----------------------------------------------------------------------------
LEMMA ReleaseInv == ASSUME BridgeInv, ReleaseS \/ ReleaseM PROVE BridgeInv'
<1>1. BridgeTypeOK'
  BY Zenon DEF BridgeInv, BridgeTypeOK, ReleaseS, ReleaseM, sVars, bridgeVars, minerVars
<1>2. ASSUME NEW c \in Ch PROVE ChanInv(c)'
  <2>1. ChanInv(c)
    BY DEF BridgeInv
  <2> QED  BY Zenon, <2>1 DEF ChanInv, Chain, Crossing, Returning, Quiet, Launched, Fetched, Staged,
              Responding, ReleaseS, ReleaseM, sVars, bridgeVars, minerVars
<1> QED  BY <1>1, <1>2 DEF BridgeInv

LEMMA StutterInv == ASSUME BridgeInv, UNCHANGED axiVars PROVE BridgeInv'
<1>1. BridgeTypeOK'
  BY ZenonT(60) DEF BridgeInv, BridgeTypeOK, axiVars, sVars, bridgeVars, minerVars
<1>2. ASSUME NEW c \in Ch PROVE ChanInv(c)'
  <2>1. ChanInv(c)
    BY DEF BridgeInv
  <2> QED  BY ZenonT(60), <2>1 DEF ChanInv, Chain, Crossing, Returning, Quiet, Launched, Fetched, Staged,
              Responding, axiVars, sVars, bridgeVars, minerVars
<1> QED  BY <1>1, <1>2 DEF BridgeInv

\* The steps of BridgeNext, with the ranges of their parameters.
LEMMA Steps ==
  ASSUME BridgeNext
  PROVE  \/ ReleaseS \/ ReleaseM
         \/ \E offer \in Offers, taken \in SUBSET Ch, fresh \in SUBSET Ch :
               SClock(offer, taken, fresh)
         \/ \E fresh \in SUBSET Ch : MClock(fresh)
<1>1. NoOffer \in Offers
  BY DEF NoOffer, Offers
<1>2. CASE \E offer \in IF SReady THEN Offers ELSE {NoOffer},
             taken \in SUBSET {c \in Ch : s_valid[c]},
             fresh \in SUBSET {c \in Ch : rsp_toggle[c] # rsp_sync1[c]} :
               SClock(offer, taken, fresh)
  <2>1. PICK offer \in IF SReady THEN Offers ELSE {NoOffer},
             taken \in SUBSET {c \in Ch : s_valid[c]},
             fresh \in SUBSET {c \in Ch : rsp_toggle[c] # rsp_sync1[c]} :
               SClock(offer, taken, fresh)
    BY <1>2
  <2>2. offer \in Offers /\ taken \in SUBSET Ch /\ fresh \in SUBSET Ch
    BY ZenonT(60), <1>1
  <2> QED  BY <2>1, <2>2
<1>3. CASE \E fresh \in SUBSET {c \in Ch : req_toggle[c] # req_sync1[c]} : MClock(fresh)
  BY <1>3
<1> QED  BY Zenon, <1>2, <1>3 DEF BridgeNext

LEMMA NextInv == BridgeInv /\ [BridgeNext]_axiVars => BridgeInv'
<1> SUFFICES ASSUME BridgeInv, [BridgeNext]_axiVars PROVE BridgeInv'
  OBVIOUS
<1>1. CASE UNCHANGED axiVars
  BY <1>1, StutterInv
<1>2. CASE ReleaseS \/ ReleaseM
  BY <1>2, ReleaseInv
<1>3. ASSUME NEW offer \in Offers, NEW taken \in SUBSET Ch, NEW fresh \in SUBSET Ch,
             SClock(offer, taken, fresh)
      PROVE  BridgeInv'
  BY <1>3, STypes, SChan DEF BridgeInv
<1>4. ASSUME NEW fresh \in SUBSET Ch, MClock(fresh)
      PROVE  BridgeInv'
  BY <1>4, MTypes, MChan DEF BridgeInv
<1> QED  BY <1>1, <1>2, <1>3, <1>4, Steps

LEMMA Invariance == BridgeSpec => []BridgeInv
<1> QED  BY BridgeInitInv, NextInv, PTL DEF BridgeSpec

\* The registers of the bridge and of the front end keep their types, for any
\* address and data sets.
THEOREM BridgeTypeCorrect == BridgeSpec => []BridgeTypeOK
<1>1. BridgeInv => BridgeTypeOK
  BY DEF BridgeInv
<1> QED  BY <1>1, Invariance, PTL

\* Request and response payloads do not change while their toggle crosses the
\* clock boundary (axi_lite_cdc_bridge.sv:4).
THEOREM PayloadsAreStable == BridgeSpec => PayloadsStable
<1>1. ASSUME BridgeInv, [BridgeNext]_axiVars
      PROVE  [\A c \in Ch : /\ req_toggle[c] # req_seen[c] => req'[c] = req[c]
                            /\ rsp_toggle[c] # rsp_seen[c] => rsp'[c] = rsp[c]]_axiVars
  <2> SUFFICES ASSUME BridgeNext, NEW c \in Ch
               PROVE  /\ req_toggle[c] # req_seen[c] => req'[c] = req[c]
                      /\ rsp_toggle[c] # rsp_seen[c] => rsp'[c] = rsp[c]
    BY <1>1
  <2>0. ChanInv(c)
    BY <1>1 DEF BridgeInv
  <2>1. CASE ReleaseS \/ ReleaseM
    BY <2>1 DEF ReleaseS, ReleaseM, sVars, bridgeVars
  <2>2. ASSUME NEW offer \in Offers, NEW taken \in SUBSET Ch, NEW fresh \in SUBSET Ch,
               SClock(offer, taken, fresh)
        PROVE  /\ req_toggle[c] # req_seen[c] => req'[c] = req[c]
               /\ rsp_toggle[c] # rsp_seen[c] => rsp'[c] = rsp[c]
    BY Zenon, <2>0, <2>2 DEF SClock, SReady, ChanInv, Crossing, bridgeVars
  <2>3. ASSUME NEW fresh \in SUBSET Ch, MClock(fresh)
        PROVE  /\ req_toggle[c] # req_seen[c] => req'[c] = req[c]
               /\ rsp_toggle[c] # rsp_seen[c] => rsp'[c] = rsp[c]
    <3>1. rsp_toggle[c] # rsp_seen[c] => ~Finish(c)
      BY Zenon, <2>0 DEF ChanInv, Returning, Quiet, Finish
    <3> QED  BY Zenon, <2>3, <3>1 DEF MClock, Bridge, Launch, sVars
  <2> QED  BY ZenonT(60), <2>1, <2>2, <2>3, Steps
<1> QED  BY <1>1, Invariance, PTL DEF BridgeSpec, PayloadsStable

-----------------------------------------------------------------------------
(***************************************************************************)
(* Refinement.  A channel's access is pending while it crosses and until   *)
(* the miner applies a write (the clock after Staged) or reads a register  *)
(* (the clock after Fetched), served until its response is back.           *)
(***************************************************************************)
PortStep(c) == \/ Port!Accept(c) \/ Port!Serve(c) \/ Port!Reply(c) \/ Port!Take(c) \/ Port!Stay(c)

LEMMA PortValue ==
  ASSUME NEW c \in Ch
  PROVE  /\ [d \in Ch |-> PortOf(d)][c] = PortOf(c)
         /\ [d \in Ch |-> PortOf(d)]'[c] = PortOf(c)'
  OBVIOUS

LEMMA PortStay ==
  ASSUME NEW c \in Ch, PortOf(c)' = PortOf(c)
  PROVE  PortStep(c) /\ ~Port!Serve(c)
<1>1. ~(PortOf(c).st = "pending" /\ PortOf(c) = [st |-> "served", val |-> Port!Answer(c, PortOf(c).val)])
  OBVIOUS
<1> QED  BY <1>1, PortValue DEF PortStep, Port!Stay, Port!Serve, Port!Served

LEMMA PortTake ==
  ASSUME NEW c \in Ch, NEW v, PortOf(c) = Port!Answered(v), PortOf(c)' = Port!Idle
  PROVE  PortStep(c) /\ ~Port!Serve(c)
<1>1. PortOf(c).st = "answered"
  BY DEF Port!Answered
<1>2. Port!Take(c)
  BY <1>1, PortValue DEF Port!Take
<1>3. ~Port!Serve(c)
  BY <1>1, PortValue DEF Port!Serve
<1> QED  BY <1>2, <1>3 DEF PortStep

LEMMA PortAccept ==
  ASSUME NEW c \in Ch, NEW v \in Port!Req(c), PortOf(c) = Port!Idle, PortOf(c)' = Port!Pending(v)
  PROVE  PortStep(c) /\ ~Port!Serve(c)
<1>1. Port!Accept(c)
  BY PortValue DEF Port!Accept
<1>2. ~Port!Serve(c)
  BY PortValue DEF Port!Serve, Port!Idle
<1> QED  BY <1>1, <1>2 DEF PortStep

LEMMA PortReply ==
  ASSUME NEW c \in Ch, NEW v, PortOf(c) = Port!Served(v), PortOf(c)' = Port!Answered(v)
  PROVE  PortStep(c) /\ ~Port!Serve(c)
<1>1. PortOf(c).st = "served" /\ PortOf(c).val = v
  BY DEF Port!Served
<1>2. Port!Reply(c)
  BY <1>1, PortValue DEF Port!Reply
<1>3. ~Port!Serve(c)
  BY <1>1, PortValue DEF Port!Serve
<1> QED  BY <1>2, <1>3 DEF PortStep

LEMMA SPort ==
  ASSUME BridgeInv, NEW offer \in Offers, NEW taken \in SUBSET Ch, NEW fresh \in SUBSET Ch,
         SClock(offer, taken, fresh), NEW c \in Ch
  PROVE  PortStep(c) /\ ~Port!Serve(c)
<1> USE DEF SClock, bridgeVars, minerVars
<1>0. ChanInv(c)
  BY Zenon DEF BridgeInv
<1>1. CASE s_valid[c] /\ c \in taken
  <2>1. PortOf(c) = Port!Answered(s_resp[c])
    BY Zenon, <1>1 DEF PortOf, Port!Answered
  <2>2. PortOf(c)' = Port!Idle
    BY Zenon, <1>0, <1>1 DEF PortOf, Port!Idle, ChanInv, SReady, Port!Okay, Okay
  <2> HIDE DEF SClock
  <2> QED  BY <2>1, <2>2, PortTake
<1>2. CASE s_valid[c] /\ c \notin taken
  <2>1. PortOf(c)' = PortOf(c)
    BY Zenon, <1>0, <1>2 DEF PortOf, ChanInv
  <2> QED  BY Zenon, <2>1, PortStay
<1>3. CASE SReady /\ offer[c] # None
  <2>1. PortOf(c) = Port!Idle
    BY Zenon, <1>3 DEF PortOf, SReady, Port!Idle, Port!Okay, Okay
  <2>2. /\ ~Returning(c) /\ ~valid[c] /\ axi_stage2[c] = None /\ offer[c] \in Req(c)
    BY Zenon, <1>0, <1>3 DEF ChanInv, SReady, Quiet, Offers
  <2>3. PortOf(c)' = Port!Pending(offer[c])
    BY Zenon, <1>3, <2>2 DEF PortOf, SReady, Returning, Port!Pending
  <2>4. offer[c] \in Port!Req(c)
    BY ZenonT(60), <2>2 DEF Port!Req, Req
  <2> HIDE DEF SClock
  <2> QED  BY <2>1, <2>3, <2>4, PortAccept
<1>4. CASE busy[c] /\ rsp_sync2[c] # rsp_seen[c]
  <2>1. ~s_valid[c] /\ Returning(c)
    BY Zenon, <1>0, <1>4 DEF ChanInv, Chain, Returning
  <2>2. PortOf(c) = Port!Served(rsp[c])
    BY Zenon, <1>4, <2>1 DEF PortOf, Returning, Port!Served
  <2>3. PortOf(c)' = Port!Answered(rsp[c])
    BY Zenon, <1>4 DEF PortOf, Port!Answered
  <2> HIDE DEF SClock
  <2> QED  BY <2>2, <2>3, PortReply
<1>5. CASE /\ ~s_valid[c] /\ ~(SReady /\ offer[c] # None)
           /\ ~(busy[c] /\ rsp_sync2[c] # rsp_seen[c])
  <2>1. PortOf(c)' = PortOf(c)
    BY Zenon, <1>0, <1>5 DEF PortOf, ChanInv
  <2> QED  BY Zenon, <2>1, PortStay
<1> QED  BY Zenon, <1>1, <1>2, <1>3, <1>4, <1>5

LEMMA MPort ==
  ASSUME BridgeInv, NEW fresh \in SUBSET Ch, MClock(fresh), NEW c \in Ch
  PROVE  /\ PortStep(c)
         /\ Port!Serve(c) <=> active[c] /\ IF c = "w" THEN Staged(c) ELSE Fetched(c)
<1>0. ChanInv(c) /\ ChanInv(c)' /\ BridgeTypeOK
  BY ZenonT(60), MChan DEF BridgeInv
<1>1. /\ busy'[c] = busy[c] /\ req'[c] = req[c] /\ rsp_seen'[c] = rsp_seen[c]
      /\ s_valid'[c] = s_valid[c] /\ s_resp'[c] = s_resp[c]
  BY DEF MClock, sVars
<1>2. CASE ~active[c]
  <2>1. Quiet(c) /\ ~Finish(c)
    BY Zenon, <1>0, <1>2 DEF ChanInv, Quiet, Finish
  <2>2. rsp_toggle'[c] = rsp_toggle[c] /\ rsp'[c] = rsp[c] /\ ~valid'[c] /\ axi_stage2'[c] = None
    BY ZenonT(60), <2>1 DEF MClock, Bridge, Launch, FrontEnd, Quiet
  <2>3. PortOf(c)' = PortOf(c)
    BY ZenonT(60), <1>1, <2>1, <2>2 DEF PortOf, Quiet
  <2> QED  BY <1>2, <2>3, PortStay
<1>3. CASE active[c]
  <2>1. /\ ~Returning(c) /\ busy[c] /\ m_req[c] = req[c] /\ ~s_valid[c]
    BY Zenon, <1>0, <1>3 DEF ChanInv
  <2>2. CASE Finish(c)
    <3>1. Responding(c)
      BY Zenon, <1>0, <1>3, <2>2 DEF ChanInv, Finish, Launched, Fetched, Staged
    <3>2. rsp_toggle'[c] = 1 - rsp_toggle[c] /\ rsp'[c] = IF c = "w" THEN Okay ELSE rdata
      BY Zenon, <2>2 DEF MClock, Bridge, Launch
    <3>a. rsp_toggle[c] \in {0, 1}
      BY <1>0 DEF BridgeTypeOK, Bit
    <3>b. rsp_toggle[c] = rsp_seen'[c]
      BY ZenonT(60), <1>1, <2>1 DEF Returning
    <3>3. rsp_toggle'[c] # rsp_seen'[c]
      BY <3>a, <3>b, <3>2
    <3>4. PortOf(c)' = PortOf(c)
      BY ZenonT(60), <1>1, <2>1, <3>1, <3>2, <3>3 DEF PortOf, Responding, Returning
    <3> QED  BY Zenon, <3>1, <3>4, PortStay DEF Responding, Fetched, Staged
  <2>3. CASE ~Finish(c)
    <3>0. /\ active'[c] /\ ~Returning(c)'
      BY ZenonT(60), <1>0, <1>1, <1>3, <2>1, <2>3 DEF MClock, Bridge, Launch, Returning
    <3>1. CASE Launched(c)
      <4>1. Fetched(c)'
        BY ZenonT(60), <1>3, <3>1, Phases
      <4>2. PortOf(c)' = PortOf(c)
        BY ZenonT(60), <1>1, <2>1, <3>0, <3>1, <4>1 DEF PortOf, Launched, Fetched, Returning
      <4> QED  BY ZenonT(60), <3>1, <4>2, PortStay DEF Launched, Fetched, Staged
    <3>2. CASE Fetched(c)
      <4>1. Staged(c)' /\ (c = "r" => axi_stage2'[c] = regs[m_req[c]])
        BY ZenonT(60), <1>3, <3>2, Phases
      <4>2. PortOf(c) = Port!Pending(req[c])
        BY ZenonT(60), <2>1, <3>2 DEF PortOf, Fetched, Returning, Port!Pending
      <4>3. CASE c = "w"
        <5>1. PortOf(c)' = PortOf(c)
          BY ZenonT(60), <1>1, <2>1, <3>0, <4>1, <4>2, <4>3 DEF PortOf, Staged, Returning, Port!Pending
        <5> QED  BY ZenonT(60), <3>2, <4>3, <5>1, PortStay DEF Fetched, Staged
      <4>4. CASE c = "r"
        <5>1. axi_stage2'[c] # None
          BY <4>1, <4>4, NoneAssumption DEF Staged
        <5>2. PortOf(c)' = Port!Served(regs[req[c]])
          BY ZenonT(60), <1>1, <2>1, <3>0, <4>1, <4>4, <5>1 DEF PortOf, Staged, Returning, Port!Served
        <5>3. Port!Serve(c)
          BY <4>2, <4>4, <5>2, PortValue DEF Port!Serve, Port!Pending, Port!Answer
        <5> QED  BY ZenonT(60), <1>3, <3>2, <4>4, <5>3 DEF PortStep
      <4> QED  BY ZenonT(60), <4>3, <4>4 DEF Ch
    <3>3. CASE Staged(c)
      <4>1. Responding(c)' /\ (c = "r" => rdata' = axi_stage2[c])
        BY Zenon, <1>3, <3>3, Phases
      <4>2. CASE c = "w"
        <5>1. PortOf(c) = Port!Pending(req[c])
          BY ZenonT(60), <2>1, <3>3, <4>2 DEF PortOf, Staged, Returning, Port!Pending
        <5>2. PortOf(c)' = Port!Served(Okay)
          BY ZenonT(60), <1>1, <2>1, <3>0, <4>1, <4>2 DEF PortOf, Responding, Returning, Port!Served
        <5>3. Port!Serve(c)
          BY SMTT(60), <4>2, <5>1, <5>2, PortValue DEF Port!Serve, Port!Pending, Port!Answer, Port!Okay, Okay
        <5> QED  BY ZenonT(60), <1>3, <3>3, <4>2, <5>3 DEF PortStep
      <4>3. CASE c = "r"
        <5>1. axi_stage2[c] # None
          BY <3>3, <4>3, NoneAssumption DEF Staged
        <5>2. PortOf(c)' = PortOf(c)
          BY Zenon, <1>1, <2>1, <3>0, <3>3, <4>1, <4>3, <5>1 DEF PortOf, Staged, Responding, Returning
        <5> QED  BY <3>3, <4>3, <5>2, PortStay DEF Fetched, Staged
      <4> QED  BY <4>2, <4>3 DEF Ch
    <3> QED  BY Zenon, <1>0, <1>3, <2>3, <3>1, <3>2, <3>3 DEF ChanInv, Responding, Finish
  <2> QED  BY <2>2, <2>3
<1> QED  BY <1>2, <1>3

\* The registers change in the step in which the write channel is served, and
\* only then.
LEMMA RegsStep ==
  ASSUME BridgeInv, NEW fresh \in SUBSET Ch, MClock(fresh)
  PROVE  \/ Port!Serve("w") /\ Port!Write
         \/ ~Port!Serve("w") /\ UNCHANGED <<regs, writes>>
<1>0. "w" \in Ch
  BY DEF Ch
<1>1. Port!Serve("w") <=> active["w"] /\ Staged("w")
  BY <1>0, MPort
<1>2. ChanInv("w")
  BY ZenonT(60), <1>0 DEF BridgeInv
<1>3. CASE active["w"] /\ Staged("w")
  <2>1. /\ m_req["w"] = req["w"] /\ req["w"] \in Req("w") /\ busy["w"] /\ ~s_valid["w"]
        /\ ~Returning("w")
    BY ZenonT(60), <1>2, <1>3 DEF ChanInv
  <2>2. axi_stage2["w"] = req["w"] /\ axi_stage2["w"] # None /\ ~valid["w"]
    BY <1>3, <2>1, NoneAssumption DEF Staged
  <2>3. /\ regs' = [regs EXCEPT ![req["w"].addr] = req["w"].data]
        /\ writes' = (writes + 1) % 4
    BY ZenonT(60), <2>2 DEF MClock, FrontEnd
  <2>4. PortOf("w").val = req["w"]
    BY <2>1, <2>2 DEF PortOf, Returning
  <2> QED  BY ZenonT(60), <1>0, <1>1, <1>3, <2>3, <2>4, PortValue DEF Port!Write
<1>4. CASE ~(active["w"] /\ Staged("w"))
  <2>1. axi_stage2["w"] = None \/ valid["w"]
    BY <1>2, <1>4 DEF ChanInv, Quiet, Launched, Fetched, Responding
  <2>2. UNCHANGED <<regs, writes>>
    BY Zenon, <2>1 DEF MClock, FrontEnd
  <2> QED  BY ZenonT(60), <1>1, <1>4, <2>2
<1> QED  BY <1>3, <1>4

LEMMA PortChannels == Port!Ch = Ch
  BY DEF Port!Ch, Ch

\* Every accepted access takes effect exactly once in the miner's registers and
\* is answered with what it found then: the bridge and the front end behind it
\* implement RegisterPort, whatever the order of the two clocks' edges and
\* however the synchronisers settle.
THEOREM BridgeImplementsPort == BridgeSpec => ImplementsPort
<1>1. BridgeInit => Port!Init
  <2> SUFFICES ASSUME BridgeInit PROVE Port!Init
    OBVIOUS
  <2>1. ASSUME NEW c \in Ch PROVE PortOf(c) = Port!Idle
    BY DEF BridgeInit, PortOf, Port!Idle, Port!Okay, Okay
  <2> QED  BY ZenonT(60), <2>1, PortChannels DEF BridgeInit, Port!Init
<1>2. ASSUME BridgeInv, [BridgeNext]_axiVars
      PROVE  [Port!Next]_(Port!portVars)
  <2>1. CASE UNCHANGED axiVars
    <3>1. ASSUME NEW c \in Ch PROVE PortOf(c)' = PortOf(c)
      BY <2>1 DEF PortOf, axiVars, sVars, bridgeVars, minerVars
    <3>2. UNCHANGED <<regs, writes>>
      BY ZenonT(60), <2>1 DEF axiVars, minerVars
    <3> QED  BY ZenonT(60), <3>1, <3>2 DEF Port!portVars
  <2>2. CASE ReleaseS \/ ReleaseM
    <3>1. ASSUME NEW c \in Ch PROVE PortOf(c)' = PortOf(c)
      BY ZenonT(60), <2>2 DEF PortOf, ReleaseS, ReleaseM, sVars, bridgeVars, minerVars
    <3>2. UNCHANGED <<regs, writes>>
      BY ZenonT(60), <2>2 DEF ReleaseS, ReleaseM, minerVars
    <3> QED  BY <3>1, <3>2 DEF Port!portVars
  <2>3. ASSUME NEW offer \in Offers, NEW taken \in SUBSET Ch, NEW fresh \in SUBSET Ch,
               SClock(offer, taken, fresh)
        PROVE  Port!Next
    <3>1. \A c \in Ch : PortStep(c) /\ ~Port!Serve(c)
      BY <1>2, <2>3, SPort
    <3>2. UNCHANGED <<regs, writes>>
      BY Zenon, <2>3 DEF SClock, minerVars
    <3>3. "w" \in Ch
      BY DEF Ch
    <3> QED  BY <3>1, <3>2, <3>3, PortChannels, PortValue DEF Port!Next, PortStep
  <2>4. ASSUME NEW fresh \in SUBSET Ch, MClock(fresh)
        PROVE  Port!Next
    <3>1. \A c \in Ch : PortStep(c)
      BY <1>2, <2>4, MPort
    <3>2. \/ Port!Serve("w") /\ Port!Write
          \/ ~Port!Serve("w") /\ UNCHANGED <<regs, writes>>
      BY <1>2, <2>4, RegsStep
    <3> QED  BY <3>1, <3>2, PortChannels, PortValue DEF Port!Next, PortStep
  <2> QED  BY <1>2, <2>1, <2>2, <2>3, <2>4, Steps
<1> QED  BY <1>1, <1>2, Invariance, PTL DEF BridgeSpec, ImplementsPort, Port!Spec
=============================================================================
