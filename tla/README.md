# A TLA+ model of the VEK280 Bitcoin miner

## The system

Four miner instances in the programmable logic (PL), each with 32 hash engines
and one result FIFO, are reached over AXI-Lite through a clock-crossing bridge.
One R5 core runs FreeRTOS: `miner_task` (jobs, results, interrupt), the Stratum
client, a telnet console, and the Ethernet driver's handler task beside the
IP-task of FreeRTOS+TCP.

| part | state | operations | what is hard |
|---|---|---|---|
| miner service (`miner_service.c`, `miner_regs.c`) | job and result queues, `g_irq_masked`, semaphore, range counters | handler, worker loop, submit, stop, clear | the handler between any two register writes; console and worker writing the same registers; reload of the R5 |
| miner registers (`bitcoin_miner_axi.sv`) | result register, overflow, done, mask | register writes, capture, end of a range | several effects in one clock; sticky state cleared by software |
| result FIFO (`bitcoin_result_cluster_fifo.sv`) | two stages, ring, overflow | push, pop, clear | simultaneous push and pop, late clear, several hits in a clock |
| nonce split (`miner_start_range`, load state machine, engines) | start, count, stride | start, load, hash | counts below the number of engines, words that wrap |
| load and hash (`bitcoin_miner_axi.sv`, `bitcoin_hash_engine.sv`, SHA core) | load state, running, done, engine state, busy core | start, stop, clear, next job, every clock | a write in the clock of a completion, a stop that leaves the core running, engines that end before others begin |
| CDC bridge (`axi_lite_cdc_bridge.sv`) | toggles and payloads on both sides | request, response | metastable sampling, independent clocks and resets |
| Stratum client (`stratum_client.c`) | session, notifies, extranonce2, LEDs | connect, lines, refill, shares | order of lines, requests racing with a connect |
| TCP (`FreeRTOS_TCP_*.c`, `FreeRTOS_Stream_Buffer.c`) | windows, segments, stream buffers, timers, flags | packet, timer, send, recv | loss, reordering, a word written by two tasks, closed windows, FIN and RST |
| Ethernet driver (`netif_versal`) | two descriptor rings, `isr_events`, error list | send, receive, callbacks, handler task | DMA, interrupts and two tasks of equal priority |

`PROJECT.json` lists every part, those without a model included, and the hazards
by source line.

## Modules

| module | models |
|---|---|
| MinerInstances | the PL instances at the level of register writes |
| MinerService | worker, interrupt handler, Stratum and console calls, on MinerInstances |
| RegisterPort | abstract: a register access is served once and answered with what it found |
| AxiCdcBridge | the bridge and the AXI front end behind it; implements RegisterPort |
| NonceScan | the split of a range over instances and engines |
| ResultQueue | abstract: a bounded queue |
| ResultPath | FIFO, capture and clearing writes, clock by clock; its ring implements ResultQueue |
| MinerCore | registers, load state machine, engines and SHA cores of one instance, clock by clock |
| StratumClient | `stratum_task` with console and miner around it |
| StreamBuffer | the circular buffers of a socket, as operators |
| TcpSocket | a connected socket, as the functions that the IP-task calls on it |
| TcpStream | the pool connection: `stratum_task`, IP-task, network and pool, on TcpSocket |
| EmacDriver | the Ethernet driver with the GEM (external) |
| \*Proofs | theorems; MC\* are the instances for TLC |

An action is one handler, one turn of a loop, or, where two actors share memory,
one access. C names are kept. Operators described as a faulty variant are used by
no specification; they show that a property can fail.

## Runs

| run | shows |
|---|---|
| service_live | no lost wakeup; jobs picked up and results served while the handler does not storm |
| service_console | console commands and a reload of the R5: ranges, no result twice, none of an earlier boot |
| hardware | bridge: refinement of RegisterPort, stable payloads, every access answered; nonce split: each nonce of the range exactly once; result path: the ring is a bounded queue, losses are reported, captures in order and once, a cleared result is gone |
| core | STATUS.running is true, a compared digest is the engine's own, completion comes after the last nonce, every range ends with all engines idle |
| stratum_session | no waiting notify, work moves forward, extranonce2 not reused; an idle miner gets work, candidates are submitted, an unwanted session ends |
| tcp_stream | bytes in order and once in both directions, the window kept, segments accounted for, whole lines; what was sent arrives or the task is told |
| emac_ring | buffer ownership, TX accounting, DMA addresses, frames in order |

Five runs end in a violation; each is a place where the code does not do what a
comment or document says:

| run | what happens |
|---|---|
| service_storm | the handler between two unmask writes leaves a source unmasked while `g_irq_masked` is set |
| service_tag | a job that arrives while engines are busy is not hashed by them but tags their results |
| service_window | a result captured between the last read and `miner_clear` is erased, although the comment above the call says that it stays asserted and is delivered |
| tcp_fin | a FIN is accepted, and acknowledged, with the byte before it missing, which is never read; the comment wants the highest sequence number acknowledged first |
| emac_event | an interrupt inside `isr_events &= ~X` loses its event |

Other places where the code does less than one might expect are exceptions in a
property that holds, so that the run shows there are no more of them:

- UnwantedEnds: a disconnect requested while `connect_socket` waits is reset
  with the new session, which goes on; DS3 stays on.
- RunningTruthful, CompletesAfterAll: a start before the range has ended is
  overwritten when the range completes in the same clock; a stop during the load
  is ignored by the load state machine (`misused`). RangeEnds has no exception: the
  engines come to an end in these cases too.
- OwnDigest: a stop leaves the SHA core running. An engine that is started again
  before the core is free takes the old digest for its first nonce (`rushed`).
- LinesWhole: the end of a line longer than the buffer is handled as a line.

## Bounds

- Service: one or two instances of one engine, one or two jobs and results. Two
  instances are what a loop over instances needs to be interrupted part of the way;
  engines of one instance differ only in who finds a result, which ResultPath has.
- Bridge: two addresses, two values, both channels; nothing else is bounded.
- NonceScan: 3 instances of 2 engines, words of 12 values, every start and count.
- ResultPath: 2 engines, depth 2 as built, 6 results, enough to fill ring, stages
  and register and overflow; writes 4 clocks apart, the least the front end allows.
- Bridge, NonceScan and ResultPath share the run hardware and no state: MCHardware
  picks one of them in the initial state and leaves the others as they begin, so
  that each has the behaviours it would have in a run of its own.
- MinerCore: 2 engines, a compression of 4 clocks, so that 3 clocks for each engine
  are fewer than two compressions, as with 32 engines and 256 clocks (named in
  CoreAssumption, with at least two engines: a single one would be reported as done
  in the clock of its start); counts 0 and 3, one engine with two nonces and one with one; 5
  register writes, 2 clocks apart.
- TCP: segments of 2 bytes, 4 of them in a buffer as configured, 3 in the pool; the
  buffers are used from their seventh place on, so that they wrap; sequence
  numbers modulo 64. Eight streams of at most 9 bytes: out of order with rxStream
  getting full, the same until a FIN, overlapping, against a window that closes,
  across the wrap of the raw numbers, more than txStream holds, and both directions
  until a FIN and until the peer fails. 1 keep-alive and 2 duplicate
  acknowledgements instead of 3 and 3.
- Stratum: two notifies, bytes of one bit, extranonce2 sizes 1 and 3, so that the
  counter wraps and does not.
- EmacDriver: 2+2 descriptors, 4 interchangeable buffers (symmetry), 3 frames, so that a
  descriptor that was given back is filled again, 1 error. `Explored` cuts
  behaviours: once something has been sent, those with more than one frame or error
  or with the link down are not followed, nor, with an error, those with the receiver
  off or after HandleTxErrors; nothing is followed after `lapped`.

NWCTRL is read and written by two tasks: `rxen` is its RXEN bit, `ulValue` what
emacps_send_message has read, and the reset of the receiver in the handler task may
come between that read and the write, which can leave the receiver off. When
init_dma fails after it has taken a buffer, the buffer is in no ring and is not
released; the driver is then in xEMAC_Fatal for good, and BufferInOnePlace allows
a buffer without a place in that state only.

BufferInOnePlace, TxAccounting and DmaOwnsItsBuffer are claimed only until one of
two events, both reachable in the code. `cleaned`: HandleTxErrors has dropped the
TX ring's buffers. `lapped`: emacps_check_tx read txHead with the ring empty and
the semaphore with every descriptor taken, one still being filled. The run says
nothing about the TX ring after either.

## What the TCP model abstracts

- A packet of ours is heard when it is sent, or lost. The peer is any TCP: text it
  was once allowed to send may arrive at any time, as often as it likes and cut in
  several ways (`cuts`), with the newest acknowledgement; older ones come as bare
  acknowledgements. Late packets come only while the peer is up.
- Timers are a choice: any number of segments at the head of the wait queue are due
  when a late packet or a check comes. A lack of network buffers is a lost packet.
- `bits` is one word. `prvRecvData` changes it with two loads and two stores, with
  the IP-task between any two of them (it has the higher priority, so its own
  changes are whole).
- The sequence number of a packet without data is left out; RSTs in states that are
  not active and challenge acknowledgements are not sent. Nothing in the program
  shuts a socket down, so the states of an active close are not reached.

The model shows some things that no property calls wrong, as no document says
otherwise: segments that overlap leave a stored one that is never used again; a
refused FIN is acknowledged, and the socket then stays ESTABLISHED until a
keep-alive is answered with RST or not at all; a closed window has no persist timer
and is reopened by a keep-alive; `send_line` may stop within a line, and the next
line follows the fragment.

## Fairness

Weak fairness of tasks (the scheduler runs a ready task; time slicing between
equal priorities), of both clocks, and of each pending interrupt. Nothing is
assumed of the pool, the console or the DMA. In TcpStream the link is lossy but
not dead: strong fairness of an answer of the peer that gets through, of what it
repeats, and of a check of the timers whose packets all get through once the
socket has been quiet for the keep-alive time; weak fairness of that time passing,
of `stratum_task`, and of a peer that opens its window or forgets a closed
connection. Strong, because a loss may come between any two of them. JobPickedUp and
ResultServed assume that no interrupt storm occurs, which service_storm refutes
in general.

## Proofs

Each theorem holds for every value of the constants that the named assumptions
admit.

- MinerServiceProofs: TypeOK; NoLostWakeup from `IrqProtocol`, which says who
  still has to unmask a masked source, since the invariant alone does not know
  where the unmask loop is; RangesAccounted.
- MinerResultProofs: NoDuplicateResult from `DupInv` (the ids in FIFOs, result
  registers and the result queue are distinct, at most `found`, and not taken): every
  step but EngineResult only moves or drops results. NoResultFromEarlierBoot from
  `BootInv`: an instance that `miner_stop` has reached holds work of this boot only,
  and so does its result register once `miner_clear` has reached it, which says how
  far `miner_init` has come and is why the order of the two matters.
- AxiCdcBridgeProofs: BridgeTypeOK, PayloadsStable and the refinement of RegisterPort
  from a per-channel invariant on where the toggles can be.
- NonceScanProofs: ScanTypeOK, NoOverlap, InsideRange and Covered from arithmetic lemmas
  (the offsets of instance, engine and turn are a bijection onto the range) and an
  invariant on the scanned set.
- ResultPathProofs: PathTypeOK and the refinement of ResultQueue from `RingInv` (wr_ptr is
  count places after rd_ptr, and the places between hold results). CapturedOnceInOrder
  and ClearedIsGone from `OrderInv`: from the result register over ring and stages to
  the engines results get newer, and the front of the ring is the captured result as
  long as its pop is on the way; without that last part nothing excludes a second
  capture. LossIsReported from both: without an overflow each result moves on one place.
- MinerCoreProofs: TypeOK; OwnDigest from `DigestInv`, which follows the two blocks of
  an engine's double hash through its SHA core and is claimed for engines that are
  not `rushed`.
- StratumClientProofs: TypeOK; NoNotifyWaits, WorkMovesForward and LedsTruthful (DS3,
  DS5 and DS6 show the state of the session) from one inductive invariant;
  ExtranonceRolls from `RollInv`, which ties the values used in a session to the
  counter. What the provers cannot do with powers is in ClientAssumption.

The type invariants of these modules and LedsTruthful are proved and so are in no
run; the other properties named here are both run and proved.

Only model-checked: all liveness; MinerCore's RunningTruthful and CompletesAfterAll;
everything in TcpStream and EmacDriver. TcpSocket has recursive operators (a chain of
stored segments, packets sent in a row), which the provers do not accept.

## Not modelled

PHY negotiation, SHA-256 arithmetic, the DSP58 prototypes (not in the built
instance), JSON scanning, console text, start-up code, build scripts, and of the
vendored FreeRTOS sources the kernel and all of FreeRTOS+TCP but a connected TCP
socket: they appear as the application uses them. The program's own C sources are
a small part of the C code in the tree; 98,000 lines include FreeRTOS with IPv6,
other ports and options that this build leaves out, so that the mapped lines are
a small share of the whole.

## Plan

1. FreeRTOS queues and the event groups behind send and recv, with the scheduler.
2. Connecting: DHCP, ARP, DNS and the SYN, as `connect_socket` waits for them.
3. Proofs: StreamBuffer's arithmetic, EmacDriver's TxAccounting and
   BufferInOnePlace, MinerCore's RunningTruthful.
4. A statement of the EMAC TX ring that holds after `lapped` and `cleaned`, or a
   run that shows what fails.
