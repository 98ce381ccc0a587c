----------------------------- MODULE EmacDriver -----------------------------
(***************************************************************************)
(* The Ethernet driver (netif_versal): the start-up state machine, the TX  *)
(* and RX descriptor rings shared with the GEM's DMA, the interrupt        *)
(* callbacks, and prvEMACHandlerTask.  The handler task and the IP-task,   *)
(* which sends, have the same priority (6), so that a tick may switch from *)
(* one to the other anywhere; interrupts come in at any point.             *)
(***************************************************************************)
EXTENDS Integers, FiniteSets, Sequences

CONSTANTS
    NumTx,        \* ipconfigNIC_N_TX_DESC
    NumRx,        \* ipconfigNIC_N_RX_DESC
    Buffers,      \* network buffers
    NoBuf,        \* NULL
    ErrDepth,     \* length of xErrorList
    MaxFrames,    \* bound: frames received
    MaxErrors,    \* bound: errors of the GEM
    TxErrors      \* the transmit errors the GEM reports

ASSUME EmacAssumption ==
    /\ NumTx \in Nat \ {0, 1} /\ NumRx \in Nat \ {0} /\ ErrDepth \in Nat \ {0}
    /\ MaxFrames \in Nat /\ MaxErrors \in Nat
    /\ IsFiniteSet(Buffers) /\ NoBuf \notin Buffers
    /\ TxErrors \subseteq {"tx_dma", "tx_run", "tx_coll"}

Tx == 0 .. NumTx - 1
Rx == 0 .. NumRx - 1
Errors == {"rx_dma", "rx_na"} \cup TxErrors
Events == {"rx", "tx", "err"}

VARIABLES
    eEMACState, handle,        \* start-up state, xEMACTaskHandles is set
    link,                      \* ulPHYLinkStates has niBMSR_LINK_STATUS
    \* TX ring
    txUsed, txAddr,            \* txSegments: TXBUF_USED, address
    txBuf,                     \* pxDMA_tx_buffers
    txHead, txTail, txSem,     \* indices, xTXDescriptorSemaphore
    txGo, txDma,               \* transmitter started, its descriptor
    \* RX ring
    rxNew, rxAddr,             \* rxSegments: the frame if RXBUF_NEW is set (else 0), address
    rxBuf,                     \* pxDMA_rx_buffers
    rxHead, rxDma, frames,
    \* buffers that are in no ring
    free, stack,               \* the free list, those of the TCP/IP stack
    \* GEM: RXEN of NWCTRL, status and interrupts
    rxen, status, irq, irqErr, errors,
    isr_events, xErrorList,
    \* emacps_send_message in the IP-task; ulValue: RXEN as read for STARTTX
    opc, held, ulValue,
    \* prvEMACHandlerTask
    hpc, ret, seen, loaded,    \* loaded: isr_events as read by a read-modify-write
    head, uxCount,             \* locals of emacps_check_tx
    passing, got,              \* buffer on its way to the IP-task, xResult > 0
    \* history
    passed,                    \* the last frame that was passed on
    lapped, cleaned            \* see CountInUse and HandleTxErrors

initVars == <<eEMACState, handle>>
txRing == <<txUsed, txAddr, txBuf, txHead, txTail, txSem>>
txVars == <<txRing, txGo, txDma>>
rxVars == <<rxNew, rxAddr, rxBuf, rxHead, rxDma, frames>>
poolVars == <<free, stack>>
gemVars == <<rxen, status, irq, irqErr, errors>>
isrVars == <<isr_events, xErrorList>>
outVars == <<opc, held, ulValue>>
hVars == <<hpc, ret, seen, loaded, head, uxCount, passing, got>>
history == <<passed, lapped, cleaned>>
vars == <<initVars, link, txVars, rxVars, poolVars, gemVars, isrVars, outVars, hVars, history>>

Returns == {"txsr", "rx_ev", "tx_ev", "err_ev", "link"}
TypeOK ==
    /\ eEMACState \in {"Init", "SetupPHY", "WaitPHY", "Ready", "Fatal"} /\ handle \in BOOLEAN
    /\ link \in BOOLEAN
    /\ txUsed \in [Tx -> BOOLEAN] /\ txAddr \in [Tx -> Buffers \cup {NoBuf}]
    /\ txBuf \in [Tx -> Buffers \cup {NoBuf}]
    /\ txHead \in Tx /\ txTail \in Tx /\ txSem \in 0 .. NumTx /\ txGo \in BOOLEAN /\ txDma \in Tx
    /\ rxNew \in [Rx -> 0 .. MaxFrames] /\ rxAddr \in [Rx -> Buffers \cup {NoBuf}]
    /\ rxBuf \in [Rx -> Buffers \cup {NoBuf}]
    /\ rxHead \in Rx /\ rxDma \in Rx /\ frames \in 0 .. MaxFrames
    /\ free \subseteq Buffers /\ stack \subseteq Buffers
    /\ rxen \in BOOLEAN /\ status \subseteq {"rx", "tx"} /\ irq \subseteq {"rx", "tx"} /\ irqErr \subseteq Errors
    /\ errors \in 0 .. MaxErrors
    /\ isr_events \subseteq Events
    /\ xErrorList \in Seq(Errors) /\ Len(xErrorList) < ErrDepth
    /\ opc \in {"idle", "take", "buffer", "flags", "head", "start", "write"}
    /\ held \in Buffers \cup {NoBuf} /\ ulValue \in BOOLEAN
    /\ hpc \in Returns \cup {"read_tx", "read_rx", "rxsr", "rx_clear", "tx_clear",
                             "err_clear", "errors", "rx_set", "reset_rx", "rx_on", "check_rx",
                             "pass", "check_tx", "count", "release"}
    /\ ret \in Returns /\ seen \subseteq {"rx", "tx"} /\ loaded \subseteq Events
    /\ head \in Tx /\ uxCount \in 0 .. NumTx
    /\ passing \in Buffers \cup {NoBuf} /\ got \in BOOLEAN
    /\ passed \in 0 .. MaxFrames /\ lapped \in BOOLEAN /\ cleaned \in BOOLEAN

Init ==
    /\ eEMACState = "Init" /\ handle = FALSE
    /\ link = FALSE
    /\ txUsed = [i \in Tx |-> TRUE] /\ txAddr = [i \in Tx |-> NoBuf] /\ txBuf = [i \in Tx |-> NoBuf]
    /\ txHead = 0 /\ txTail = 0 /\ txSem = NumTx /\ txGo = FALSE /\ txDma = 0
    /\ rxNew = [i \in Rx |-> 0] /\ rxAddr = [i \in Rx |-> NoBuf] /\ rxBuf = [i \in Rx |-> NoBuf]
    /\ rxHead = 0 /\ rxDma = 0 /\ frames = 0
    /\ free = Buffers /\ stack = {}
    /\ rxen = FALSE /\ status = {} /\ irq = {} /\ irqErr = {} /\ errors = 0
    /\ isr_events = {} /\ xErrorList = <<>>
    /\ opc = "idle" /\ held = NoBuf /\ ulValue = FALSE
    /\ hpc = "read_tx" /\ ret = "link" /\ seen = {} /\ loaded = {} /\ head = 0 /\ uxCount = 0
    /\ passing = NoBuf /\ got = FALSE
    /\ passed = 0 /\ lapped = FALSE /\ cleaned = FALSE

-----------------------------------------------------------------------------
(* The IP-task: start-up, called until the state is Ready.                  *)

\* XEmacPs_CfgInitialize and ulDetectPHY; either may fail.
InitGem ==
    /\ eEMACState = "Init"
    /\ eEMACState' \in {"SetupPHY", "Fatal"}
    /\ link' = FALSE
    /\ UNCHANGED <<handle, txVars, rxVars, poolVars, gemVars, isrVars, outVars,
                   hVars, history>>

\* Give the first n RX descriptors a buffer of the free list, and take more
\* buffers, in more, that end up in no ring.
FillRxRing(n, more) ==
    \E new \in [0 .. n - 1 -> free \ more] :
        /\ \A i, j \in 0 .. n - 1 : new[i] = new[j] => i = j
        /\ rxBuf' = [i \in Rx |-> IF i < n THEN new[i] ELSE NoBuf]
        /\ rxAddr' = [i \in Rx |-> IF i < n THEN new[i] ELSE NoBuf]
        /\ free' = free \ (more \cup {new[i] : i \in 0 .. n - 1})

\* Phy_Setup_US succeeded; init_dma fills the RX ring and start_emacps turns the
\* receiver on.  Or init_dma fails part of the way: there is no buffer, or the
\* BD ring refuses the descriptor and the buffer just taken for it is lost.
SetupPHY ==
    /\ eEMACState = "SetupPHY"
    /\ \/ FillRxRing(NumRx, {}) /\ eEMACState' = "WaitPHY" /\ rxen' = TRUE
       \/ /\ \E n \in 0 .. NumRx - 1, more \in {{}} \cup {{b} : b \in free} : FillRxRing(n, more)
          /\ eEMACState' = "Fatal" /\ UNCHANGED rxen
    /\ UNCHANGED <<handle, link, txVars, rxNew, rxHead, rxDma, frames, stack, status, irq, irqErr,
                   errors, isrVars, outVars, hVars, history>>

\* prvGMACWaitLS polls the PHY, which may say anything; with a link the handler task is created, which may fail.
WaitPHY ==
    /\ eEMACState = "WaitPHY"
    /\ link' \in BOOLEAN
    /\ \/ ~link' /\ UNCHANGED <<eEMACState, handle>>
       \/ link' /\ eEMACState' = "Ready" /\ handle' = TRUE
       \/ link' /\ eEMACState' = "Fatal" /\ handle' = FALSE
    /\ UNCHANGED <<txVars, rxVars, poolVars, gemVars, isrVars, outVars, hVars,
                   history>>

\* Called again in the state Fatal: nothing happens any more.
Fatal == eEMACState = "Fatal" /\ UNCHANGED vars

-----------------------------------------------------------------------------
(* The IP-task: buffers and output.                                         *)

StackReleases ==
    /\ opc = "idle"
    /\ \E b \in stack : stack' = stack \ {b} /\ free' = free \cup {b}
    /\ UNCHANGED <<initVars, link, txVars, rxVars, gemVars, isrVars, outVars, hVars, history>>

\* The stack sends a received buffer (an answer in place) or a new one.  Without
\* a link, or with an invalid length, it is released at once.
Output(b) ==
    /\ eEMACState = "Ready" /\ opc = "idle" /\ b \in stack \cup free
    /\ stack' = stack \ {b}
    /\ \/ /\ link
          /\ opc' = "take" /\ held' = b /\ free' = free \ {b}
          /\ UNCHANGED ulValue
       \/ /\ free' = free \cup {b}
          /\ UNCHANGED outVars
    /\ UNCHANGED <<initVars, link, txVars, rxVars, gemVars, isrVars, hVars, history>>

\* xSemaphoreTake succeeds, or gives up after 5 s and the buffer is released.
TakeDescriptor ==
    /\ opc = "take"
    /\ \/ txSem > 0 /\ txSem' = txSem - 1 /\ opc' = "buffer" /\ UNCHANGED <<free, held>>
       \/ txSem = 0 /\ opc' = "idle" /\ held' = NoBuf
          /\ free' = free \cup {held} /\ UNCHANGED txSem
    /\ UNCHANGED <<initVars, link, txUsed, txAddr, txBuf, txHead, txTail, txGo, txDma, rxVars,
                   stack, gemVars, ulValue, isrVars, hVars, history>>

\* The rest of emacps_send_message, one access to shared memory at a time.
RecordBuffer ==
    /\ opc = "buffer" /\ opc' = "flags"
    /\ txBuf' = [txBuf EXCEPT ![txHead] = held]
    /\ UNCHANGED <<txUsed, txAddr, txHead, txGo, held, rxen, ulValue>>

\* The build may read pxDMA_tx_buffers again for the address, or use what it wrote.
FillDescriptor ==
    /\ opc = "flags" /\ opc' = "head"
    /\ \E addr \in {held, txBuf[txHead]} : txAddr' = [txAddr EXCEPT ![txHead] = addr]
    /\ txUsed' = [txUsed EXCEPT ![txHead] = FALSE]
    /\ held' = NoBuf
    /\ UNCHANGED <<txBuf, txHead, txGo, rxen, ulValue>>

\* Faulty variant of AdvanceHead: the index does not wrap.
AdvanceWithoutWrap ==
    /\ opc = "head" /\ opc' = "start"
    /\ txHead' = txHead + 1
    /\ UNCHANGED <<txUsed, txAddr, txBuf, txGo, held, rxen, ulValue>>

AdvanceHead ==
    /\ opc = "head" /\ opc' = "start"
    /\ txHead' = (txHead + 1) % NumTx
    /\ UNCHANGED <<txUsed, txAddr, txBuf, txGo, held, rxen, ulValue>>

\* NWCTRL is read and written back with STARTTX, and with RXEN as it was read;
\* the handler task may turn the receiver off and on in between.
ReadControl ==
    /\ opc = "start" /\ opc' = "write"
    /\ ulValue' = rxen
    /\ UNCHANGED <<txUsed, txAddr, txBuf, txHead, txGo, held, rxen>>

StartTransmitter ==
    /\ opc = "write" /\ opc' = "idle"
    /\ txGo' = TRUE
    /\ rxen' = ulValue /\ ulValue' = FALSE
    /\ UNCHANGED <<txUsed, txAddr, txBuf, txHead, held>>

Fill ==
    /\ RecordBuffer \/ FillDescriptor \/ AdvanceHead \/ ReadControl \/ StartTransmitter
    /\ UNCHANGED <<initVars, link, txTail, txSem, txDma, rxVars, poolVars, status, irq, irqErr,
                   errors, isrVars, hVars, history>>

-----------------------------------------------------------------------------
(* The GEM (external).  The DMA walks each ring in order and stops at a     *)
(* descriptor that is not its own.                                          *)

Started == eEMACState \in {"WaitPHY", "Ready"}

\* The address in a used descriptor is not read again: the model forgets it.
DmaSends ==
    /\ txGo /\ ~txUsed[txDma]
    /\ txUsed' = [txUsed EXCEPT ![txDma] = TRUE]
    /\ txAddr' = [txAddr EXCEPT ![txDma] = NoBuf]
    /\ txDma' = (txDma + 1) % NumTx
    /\ status' = status \cup {"tx"} /\ irq' = irq \cup {"tx"}
    /\ UNCHANGED <<txBuf, txHead, txTail, txSem, txGo, rxVars, irqErr, errors>>

\* A used descriptor stops the transmitter and sets TXSR_USEDREAD, without an interrupt.
DmaIdles ==
    /\ txGo /\ txUsed[txDma]
    /\ txGo' = FALSE
    /\ status' = status \cup {"tx"}
    /\ UNCHANGED <<txRing, txDma, rxVars, irq, irqErr, errors>>

DmaReceives ==
    /\ Started /\ rxen /\ frames < MaxFrames
    /\ rxNew[rxDma] = 0
    /\ frames' = frames + 1
    /\ rxNew' = [rxNew EXCEPT ![rxDma] = frames + 1]
    /\ rxDma' = (rxDma + 1) % NumRx
    /\ status' = status \cup {"rx"} /\ irq' = irq \cup {"rx"}
    /\ UNCHANGED <<txVars, rxAddr, rxBuf, rxHead, irqErr, errors>>

\* A transmit error stops the transmitter; "rx_na": no descriptor for a frame.
GemFails(e) ==
    /\ Started /\ errors < MaxErrors
    /\ errors' = errors + 1
    /\ irqErr' = irqErr \cup {e}
    /\ IF e \in TxErrors
       THEN txGo /\ txGo' = FALSE /\ status' = status \cup {"tx"}
       ELSE rxen /\ (e = "rx_na" => rxNew[rxDma] # 0) /\ status' = status \cup {"rx"} /\ UNCHANGED txGo
    /\ UNCHANGED <<txRing, txDma, rxVars, irq>>

Gem ==
    /\ \/ DmaSends
       \/ DmaIdles
       \/ DmaReceives
       \/ \E e \in Errors : GemFails(e)
    /\ UNCHANGED <<initVars, link, poolVars, rxen, isrVars, outVars, hVars, history>>
-----------------------------------------------------------------------------
(* Interrupts: XEmacPs_IntrHandler (external) clears the status register    *)
(* and calls the driver's callback.                                         *)

emacps_send_handler ==
    /\ "tx" \in irq
    /\ irq' = irq \ {"tx"} /\ status' = status \ {"tx"}
    /\ isr_events' = isr_events \cup {"tx"}
    /\ UNCHANGED <<irqErr, errors, xErrorList>>

emacps_recv_handler ==
    /\ "rx" \in irq
    /\ irq' = irq \ {"rx"} /\ status' = status \ {"rx"}
    /\ isr_events' = isr_events \cup {"rx"}
    /\ UNCHANGED <<irqErr, errors, xErrorList>>

\* A full list loses the error.  xErrorTail never moves, so the list only grows.
emacps_error_handler(e) ==
    /\ e \in irqErr
    /\ irqErr' = irqErr \ {e}
    /\ status' = status \ (IF e \in TxErrors THEN {"tx"} ELSE {"rx"})
    /\ IF Len(xErrorList) + 1 < ErrDepth
       THEN xErrorList' = Append(xErrorList, e) /\ isr_events' = isr_events \cup {"err"}
       ELSE UNCHANGED <<xErrorList, isr_events>>
    /\ UNCHANGED <<irq, errors>>

Isr ==
    /\ \/ emacps_send_handler
       \/ emacps_recv_handler
       \/ \E e \in Errors : emacps_error_handler(e)
    /\ UNCHANGED <<initVars, link, txVars, rxVars, poolVars, rxen, outVars, hVars, history>>

-----------------------------------------------------------------------------
(* prvEMACHandlerTask.  Every read or write of something shared with an     *)
(* interrupt, the DMA or the IP-task is a step.  A local that is not read   *)
(* again before it is assigned is reset.                                    *)

Goto(l) == hpc' = l
Call(l, r) == hpc' = l /\ ret' = r
Return == hpc' = ret /\ ret' = "link"

\* The top of the loop: TXSR, then RXSR.  When these and isr_events are all
\* clear, ulTaskNotifyTake waits for a notification or 100 ms and the loop goes
\* on without looking at which it was: a pause, that any step may make.
ReadStatus ==
    /\ \/ hpc = "read_tx" /\ seen' = status \cap {"tx"} /\ Goto("read_rx")
       \/ hpc = "read_rx" /\ seen' = seen \cup (status \cap {"rx"}) /\ Goto("rxsr")
    /\ UNCHANGED <<link, txVars, rxVars, poolVars, gemVars, isrVars, ret, loaded, head, uxCount,
                   passing, got, history>>

\* Poll: write the bits that were seen back to the status register and serve the ring.
Poll ==
    /\ \/ /\ hpc = "rxsr"
          /\ status' = status \ (seen \cap {"rx"}) /\ seen' = seen \ {"rx"}
          /\ IF "rx" \in seen THEN Call("reset_rx", "txsr") /\ got' = FALSE
                              ELSE Goto("txsr") /\ UNCHANGED <<ret, got>>
       \/ /\ hpc = "txsr"
          /\ status' = status \ seen /\ seen' = {}
          /\ IF "tx" \in seen THEN Call("check_tx", "rx_ev") ELSE Goto("rx_ev") /\ UNCHANGED ret
          /\ UNCHANGED got
    /\ UNCHANGED <<link, txVars, rxVars, poolVars, rxen, irq, irqErr, errors, isrVars, loaded,
                   head, uxCount, passing, history>>

\* if( isr_events & X ) isr_events &= ~X: the read ...
LoadEvents ==
    /\ \/ hpc = "rx_ev" /\ Goto(IF "rx" \in isr_events THEN "rx_clear" ELSE "tx_ev")
       \/ hpc = "tx_ev" /\ Goto(IF "tx" \in isr_events THEN "tx_clear" ELSE "err_ev")
       \/ hpc = "err_ev" /\ Goto(IF "err" \in isr_events THEN "err_clear" ELSE "link")
    /\ loaded' = IF hpc' \in {"rx_clear", "tx_clear", "err_clear"} THEN isr_events ELSE {}
    /\ UNCHANGED <<link, txVars, rxVars, poolVars, gemVars, isrVars, ret, seen, head, uxCount,
                   passing, got, history>>

\* ... and the write, which undoes what an interrupt has set in between.
StoreEvents ==
    /\ \/ /\ hpc = "rx_clear"
          /\ isr_events' = loaded \ {"rx"} /\ Call("reset_rx", "tx_ev") /\ got' = FALSE
       \/ /\ hpc = "tx_clear"
          /\ isr_events' = loaded \ {"tx"} /\ Call("check_tx", "err_ev") /\ UNCHANGED got
       \/ /\ hpc = "err_clear"
          /\ isr_events' = loaded \ {"err"} /\ Goto("errors") /\ UNCHANGED <<ret, got>>
    /\ loaded' = {}
    /\ UNCHANGED <<link, txVars, rxVars, poolVars, gemVars, xErrorList, seen, head, uxCount, passing,
                   history>>

\* resetrx_on_no_rxdata, at the beginning of emacps_check_rx: when RXCNT was 0
\* twice, the receiver is turned off and on again.  Its queue pointer stays.
ResetRx ==
    /\ \/ hpc = "reset_rx" /\ Goto("check_rx") /\ UNCHANGED rxen
       \/ hpc = "reset_rx" /\ Goto("rx_on") /\ rxen' = FALSE
       \/ hpc = "rx_on" /\ Goto("check_rx") /\ rxen' = TRUE
    /\ UNCHANGED <<link, txVars, rxVars, poolVars, status, irq, irqErr, errors, isrVars, ret, seen,
                   loaded, head, uxCount, passing, got, history>>

\* Faulty variant of GiveToDma: the descriptor keeps the address of the passed buffer.
GiveOldAddress ==
    /\ rxNew' = [rxNew EXCEPT ![rxHead] = 0]
    /\ rxHead' = (rxHead + 1) % NumRx
    /\ UNCHANGED rxAddr

\* Faulty variant of GiveToDma: RXBUF_NEW stays set.
GiveWithoutClearingNew ==
    /\ rxAddr' = [rxAddr EXCEPT ![rxHead] = rxBuf[rxHead]]
    /\ rxHead' = (rxHead + 1) % NumRx
    /\ UNCHANGED rxNew

\* The end of a turn of emacps_check_rx's loop: the descriptor goes back to the DMA.
GiveToDma ==
    /\ rxAddr' = [rxAddr EXCEPT ![rxHead] = rxBuf[rxHead]]
    /\ rxNew' = [rxNew EXCEPT ![rxHead] = 0]
    /\ rxHead' = (rxHead + 1) % NumRx

\* Faulty variant of CheckRx: the passed buffer also stays in the ring.
CheckRxWithoutReplacement ==
    /\ hpc = "check_rx"
    /\ \/ /\ rxNew[rxHead] = 0 \/ rxBuf[rxHead] = NoBuf
          /\ Return
          /\ UNCHANGED passing
       \/ /\ rxNew[rxHead] # 0 /\ rxBuf[rxHead] # NoBuf
          /\ passing' = rxBuf[rxHead]
          /\ Goto("pass")
          /\ UNCHANGED ret
    /\ UNCHANGED <<link, txVars, rxVars, poolVars, gemVars, isrVars, seen, loaded, head,
                   uxCount, got, history>>

\* emacps_check_rx up to prvPassEthMessages: the ring is empty; the frame is
\* dropped and its buffer stays (refused, or no other buffer is free); or a
\* fresh buffer takes its place.
CheckRx ==
    /\ hpc = "check_rx"
    /\ \/ /\ rxNew[rxHead] = 0 \/ rxBuf[rxHead] = NoBuf
          /\ Return
          /\ UNCHANGED <<rxNew, rxAddr, rxBuf, rxHead, free, passing>>
       \/ /\ rxNew[rxHead] # 0 /\ rxBuf[rxHead] # NoBuf
          /\ GiveToDma
          /\ UNCHANGED <<rxBuf, free, passing, hpc, ret>>
       \/ /\ rxNew[rxHead] # 0 /\ rxBuf[rxHead] # NoBuf
          /\ \E new \in free :
                 rxBuf' = [rxBuf EXCEPT ![rxHead] = new] /\ free' = free \ {new}
          /\ passing' = rxBuf[rxHead]
          /\ Goto("pass")
          /\ UNCHANGED <<rxNew, rxAddr, rxHead, ret>>
    /\ UNCHANGED <<link, txVars, rxDma, frames, stack, gemVars, isrVars, seen, loaded, head,
                   uxCount, got, history>>

\* prvPassEthMessages: the IP-task's queue takes the buffer, or it is released after 1 s.
PassToIpTask ==
    /\ hpc = "pass"
    /\ \/ stack' = stack \cup {passing} /\ passed' = rxNew[rxHead] /\ UNCHANGED free
       \/ free' = free \cup {passing} /\ UNCHANGED <<stack, passed>>
    /\ passing' = NoBuf /\ got' = TRUE
    /\ GiveToDma
    /\ Goto("check_rx")
    /\ UNCHANGED <<link, txVars, rxBuf, rxDma, frames, gemVars, isrVars, ret, seen, loaded, head,
                   uxCount, lapped, cleaned>>

\* emacps_check_tx reads txHead, then the semaphore's count.
ReadHead ==
    /\ hpc = "check_tx"
    /\ head' = txHead
    /\ Goto("count")
    /\ UNCHANGED <<link, txVars, rxVars, poolVars, gemVars, isrVars, ret, seen, loaded, uxCount,
                   passing, got, history>>

\* lapped: the ring was empty when txHead was read, all descriptors are taken
\* now, and the last of them is still being filled.
CountInUse ==
    /\ hpc = "count"
    /\ uxCount' = NumTx - txSem
    /\ lapped' = (lapped \/ (txTail = head /\ txSem = 0 /\ opc \in {"buffer", "flags", "head"}))
    /\ Goto("release")
    /\ UNCHANGED <<link, txVars, rxVars, poolVars, gemVars, isrVars, ret, seen, loaded, head,
                   passing, got, passed, cleaned>>

\* Faulty variant of Finished: the loop does not stop at txHead.
FinishedWithoutBreak == uxCount > 0 /\ txUsed[txTail]

\* The loop's condition and break.
Finished == uxCount > 0 /\ txUsed[txTail] /\ (txTail = head => uxCount = NumTx)

\* One turn of the loop.  Only this task uses txTail, and the semaphore is given
\* after the slot has been emptied, so that the IP-task meets the slot before or
\* after the turn, never within it.
ReleaseSent ==
    /\ hpc = "release"
    /\ IF Finished
       THEN /\ free' = free \cup ({txBuf[txTail]} \ {NoBuf})
            /\ txBuf' = [txBuf EXCEPT ![txTail] = NoBuf]
            /\ txUsed' = [txUsed EXCEPT ![txTail] = TRUE]
            /\ txSem' = IF txSem < NumTx THEN txSem + 1 ELSE txSem
            /\ txTail' = (txTail + 1) % NumTx
            /\ uxCount' = uxCount - 1
            /\ UNCHANGED <<hpc, ret, head>>
       ELSE Return /\ head' = 0 /\ uxCount' = 0 /\ UNCHANGED <<free, txRing>>
    /\ UNCHANGED <<link, txAddr, txHead, txGo, txDma, rxVars, stack, gemVars, isrVars, seen,
                   loaded, passing, got, history>>

\* clean_dma_txdescs between clearing and setting TXEN, which moves the DMA
\* back to descriptor 0.  cleaned: it has run.  Nothing is claimed of the TX ring
\* from then on, so that it is one step although nothing keeps the IP-task out.
HandleTxErrors ==
    /\ txUsed' = [i \in Tx |-> TRUE]
    /\ txAddr' = [i \in Tx |-> NoBuf]
    /\ txBuf' = [i \in Tx |-> NoBuf]
    /\ txGo' = FALSE /\ txDma' = 0
    /\ cleaned' = TRUE

\* emacps_check_errors: always the first entry of the list.  A DMA error calls
\* vInitialiseOnIndex, which does nothing in the state Ready; a missing RX
\* buffer calls emacps_recv_handler, another read-modify-write of isr_events.
CheckErrors ==
    /\ hpc = "errors"
    /\ \/ /\ xErrorList = <<>> \/ xErrorList[1] \in {"rx_dma", "tx_dma"}
          /\ Goto("link")
          /\ UNCHANGED <<loaded, ret, txVars, cleaned>>
       \/ /\ xErrorList # <<>> /\ xErrorList[1] = "rx_na"
          /\ loaded' = isr_events
          /\ Goto("rx_set")
          /\ UNCHANGED <<ret, txVars, cleaned>>
       \/ /\ xErrorList # <<>> /\ xErrorList[1] = "tx_coll"
          /\ Call("check_tx", "link")
          /\ UNCHANGED <<loaded, txVars, cleaned>>
       \/ /\ xErrorList # <<>> /\ xErrorList[1] = "tx_run"
          /\ HandleTxErrors
          /\ Goto("link")
          /\ UNCHANGED <<loaded, ret, txHead, txTail, txSem>>
    /\ UNCHANGED <<link, rxVars, poolVars, gemVars, isrVars, seen, head, uxCount, passing, got,
                   passed, lapped>>

SetRxEvent ==
    /\ hpc = "rx_set"
    /\ isr_events' = loaded \cup {"rx"} /\ loaded' = {}
    /\ Goto("link")
    /\ UNCHANGED <<link, txVars, rxVars, poolVars, gemVars, xErrorList, ret, seen, head, uxCount,
                   passing, got, history>>

\* A frame proves the link; without one the PHY is asked when xPhyTime has expired.
CheckLink ==
    /\ hpc = "link"
    /\ link' \in (IF got THEN {TRUE} ELSE BOOLEAN)
    /\ got' = FALSE
    /\ Goto("read_tx")
    /\ UNCHANGED <<txVars, rxVars, poolVars, gemVars, isrVars, ret, seen, loaded, head, uxCount,
                   passing, history>>

prvEMACHandlerTask ==
    /\ handle
    /\ \/ ReadStatus \/ Poll \/ LoadEvents \/ StoreEvents
       \/ ResetRx \/ CheckRx \/ PassToIpTask
       \/ ReadHead \/ CountInUse \/ ReleaseSent
       \/ CheckErrors \/ SetRxEvent \/ CheckLink
    /\ UNCHANGED <<initVars, outVars>>

IpTask ==
    \/ InitGem \/ SetupPHY \/ WaitPHY \/ Fatal
    \/ StackReleases
    \/ \E b \in Buffers : Output(b)
    \/ TakeDescriptor \/ Fill

Next == IpTask \/ Gem \/ Isr \/ prvEMACHandlerTask
Spec == Init /\ [][Next]_vars

\* The handler task and a send in progress are scheduled and interrupts are
\* taken, each of them.  Nothing is assumed of the stack, the peer and the DMA.
FairSpec ==
    /\ Spec
    /\ WF_vars(prvEMACHandlerTask)
    /\ WF_vars(TakeDescriptor \/ Fill)
    /\ \A i \in {"rx", "tx"} : WF_vars(Isr /\ irq' = irq \ {i})

-----------------------------------------------------------------------------
(* Properties                                                               *)

Places(b) ==
    LET sending == IF opc \in {"take", "buffer"} THEN {held} ELSE {}
        outside == [free |-> free, stack |-> stack, sending |-> sending, passing |-> {passing}]
    IN  {<<p, 0>> : p \in {q \in DOMAIN outside : b \in outside[q]}}
        \cup {<<"tx", i>> : i \in {j \in Tx : txBuf[j] = b}}
        \cup {<<"rx", i>> : i \in {j \in Rx : rxBuf[j] = b}}

\* A network buffer is in one place: on the free list, with the stack, in
\* emacps_send_message, in a slot of a ring, or on its way to the IP-task.  No
\* handler frees it twice, shares it or, once the driver has started, loses it -
\* until one of the two places where the code does is passed: HandleTxErrors
\* forgets the TX buffers, and a lapped emacps_check_tx frees a slot that is being
\* filled.  An init_dma that fails may lose a buffer on the way to Fatal.
BufferInOnePlace ==
    ~cleaned /\ ~lapped =>
        \A b \in Buffers : \/ Cardinality(Places(b)) = 1
                           \/ Cardinality(Places(b)) = 0 /\ eEMACState = "Fatal"

\* The address in a descriptor that the DMA may use is that of the buffer which
\* the driver has recorded for the slot: the DMA neither reads nor writes a
\* buffer that somebody else owns.
DmaOwnsItsBuffer ==
    ~cleaned /\ ~lapped =>
        /\ \A i \in Tx : ~txUsed[i] => txAddr[i] # NoBuf /\ txAddr[i] = txBuf[i]
        /\ Started => \A i \in Rx : rxNew[i] = 0 => rxAddr[i] # NoBuf /\ rxAddr[i] = rxBuf[i]

\* xTXDescriptorSemaphore, txTail and txHead agree wherever emacps_check_tx and
\* emacps_send_message are: the descriptors that are taken, but for one being
\* filled, lie between txTail and txHead, and they are the ones with a buffer.
TxAccounting ==
    LET filling == IF opc \in {"buffer", "flags", "head"} THEN 1 ELSE 0
        sent == NumTx - txSem - filling
    IN  ~cleaned /\ ~lapped =>
            /\ sent >= 0
            /\ txHead = (txTail + sent) % NumTx
            /\ {i \in Tx : txBuf[i] # NoBuf} =
                 {(txTail + j) % NumTx : j \in 0 .. sent - 1}
                 \cup (IF opc \in {"flags", "head"} THEN {txHead} ELSE {})

\* emacps_check_rx passes the frames on in the order in which they came, each
\* at most once.
FramesInOrderOnce == [][stack' # stack /\ hpc = "pass" => rxNew[rxHead] > passed]_vars

\* "The task in NetworkInterface will wake-up and do the necessary work"
\* (x_emacpsif_dma.c:216): a frame in the RX ring is eventually taken out.
FramesServed ==
    \A f \in 1 .. MaxFrames : (\E i \in Rx : rxNew[i] = f) /\ handle ~> ~\E i \in Rx : rxNew[i] = f
=============================================================================
