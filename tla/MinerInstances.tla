--------------------------- MODULE MinerInstances ---------------------------
(***************************************************************************)
(* The miner instances (rtl/bitcoin_miner_axi.sv with its hash engines and *)
(* result cluster FIFO) as the R5 sees them through their registers: one   *)
(* operator per register write, one action per step of the programmable    *)
(* logic.  A register access takes many PL clocks, so every operator gives *)
(* the state the instance settles in before the next access.  A job stands *)
(* for the contents of the MIDSTATE, HEADER_TAIL and TARGET registers.     *)
(***************************************************************************)
EXTENDS Integers, Sequences, FiniteSets

CONSTANTS
    NumInst,     \* MINER_AXI_INSTANCES
    Engines,     \* engine indices of one instance
    FifoDepth,   \* CLUSTER_FIFO_DEPTH
    MaxJobs,     \* bound: jobs issued to the service
    MaxFound,    \* bound: results found by the engines
    MaxBoots,    \* bound: restarts of the R5
    NoJob,       \* an engine in ST_IDLE
    NoResult     \* an empty result register

ASSUME InstAssumption ==
    /\ NumInst \in Nat \ {0}
    /\ FifoDepth \in Nat \ {0}
    /\ MaxJobs \in Nat /\ MaxFound \in Nat /\ MaxBoots \in Nat
    /\ Engines \subseteq Nat /\ IsFiniteSet(Engines)

Inst == 0 .. NumInst - 1
Jobs == 0 .. MaxJobs          \* 0 is the all-zero job of reset registers
Work == [job : Jobs, boot : 0 .. MaxBoots]
Results == [id : 1 .. MaxFound, job : Jobs, boot : 0 .. MaxBoots]

ASSUME SentinelAssumption == NoJob \notin Work /\ NoResult \notin Results

VARIABLES
    job_regs,          \* job in MIDSTATE, HEADER_TAIL and TARGET
    engine,            \* what each engine hashes: the job it latched at its start
    running,           \* running_q
    nonce_done,        \* nonce_done_q
    overflow,          \* overflow_q
    cluster_overflow,  \* the cluster's own sticky overflow_o
    fifo,              \* results in the cluster FIFO
    result,            \* result_valid_q with result_nonce_q and result_engine_q
    irq_mask,          \* irq_mask_q
    found              \* results found so far: names the results

plVars == <<job_regs, engine, running, nonce_done, overflow, cluster_overflow,
            fifo, result, irq_mask, found>>

PlTypeOK ==
    /\ job_regs \in [Inst -> Jobs]
    /\ engine \in [Inst -> [Engines -> Work \cup {NoJob}]]
    /\ running \in [Inst -> BOOLEAN]
    /\ nonce_done \in [Inst -> BOOLEAN]
    /\ overflow \in [Inst -> BOOLEAN]
    /\ cluster_overflow \in [Inst -> BOOLEAN]
    /\ fifo \in [Inst -> Seq(Results)]
    /\ result \in [Inst -> Results \cup {NoResult}]
    /\ irq_mask \in [Inst -> BOOLEAN]
    /\ found \in 0 .. MaxFound

\* The PL after its reset.
PlInit ==
    /\ job_regs = [i \in Inst |-> 0]
    /\ engine = [i \in Inst |-> [e \in Engines |-> NoJob]]
    /\ running = [i \in Inst |-> FALSE]
    /\ nonce_done = [i \in Inst |-> FALSE]
    /\ overflow = [i \in Inst |-> FALSE]
    /\ cluster_overflow = [i \in Inst |-> FALSE]
    /\ fifo = [i \in Inst |-> <<>>]
    /\ result = [i \in Inst |-> NoResult]
    /\ irq_mask = [i \in Inst |-> FALSE]
    /\ found = 0

Idle(i) == \A e \in Engines : engine[i][e] = NoJob

\* irq_o of one instance, and the OR of the instances that reaches the GIC.
irq_o(i) == ~irq_mask[i] /\ (result[i] # NoResult \/ overflow[i] \/ nonce_done[i])
IrqLine == \E i \in Inst : irq_o(i)

-----------------------------------------------------------------------------
(***************************************************************************)
(* Register writes.  start_pulse_q, stop_pulse_q and clear_results_q empty *)
(* the FIFO two clocks after the write (clear_i is registered), and until  *)
(* then the capture logic still moves the FIFO's head into a result        *)
(* register that is, or has just become, empty.                            *)
(***************************************************************************)
Captured(i) == IF fifo[i] # <<>> THEN Head(fifo[i]) ELSE NoResult

FlushFifo(i) ==
    /\ fifo' = [fifo EXCEPT ![i] = <<>>]
    /\ cluster_overflow' = [cluster_overflow EXCEPT ![i] = FALSE]

\* CONTROL.start: the engines of S (those with a share of the range) that are
\* idle latch the job registers; a busy engine ignores engine_start_q.  The
\* completion block is later in the always block, so a start in the very clock
\* in which the last engine stopped being busy leaves running_q low and
\* nonce_done_q high.
WriteStart(i, S, boot) ==
    LET completing == running[i] /\ Idle(i) IN
    /\ engine' = [engine EXCEPT ![i] = [e \in Engines |->
                    IF e \in S /\ engine[i][e] = NoJob
                    THEN [job |-> job_regs[i], boot |-> boot]
                    ELSE engine[i][e]]]
    /\ running' = [running EXCEPT ![i] = ~completing]
    /\ nonce_done' = [nonce_done EXCEPT ![i] = completing]
    /\ overflow' = [overflow EXCEPT ![i] = cluster_overflow[i]]
    /\ result' = [result EXCEPT ![i] = Captured(i)]
    /\ FlushFifo(i)
    /\ UNCHANGED <<job_regs, irq_mask, found>>

\* CONTROL.stop: engines go idle, the result register keeps its result.
WriteStop(i) ==
    /\ engine' = [engine EXCEPT ![i] = [e \in Engines |-> NoJob]]
    /\ running' = [running EXCEPT ![i] = FALSE]
    /\ nonce_done' = [nonce_done EXCEPT ![i] = TRUE]
    /\ result' = [result EXCEPT ![i] = IF @ = NoResult THEN Captured(i) ELSE @]
    /\ FlushFifo(i)
    /\ UNCHANGED <<job_regs, overflow, irq_mask, found>>

\* CONTROL.clear.  The clear of overflow_q loses against the cluster's sticky
\* overflow_o, which is still set in the clocks before the FIFO is emptied.
WriteClear(i) ==
    /\ nonce_done' = [nonce_done EXCEPT ![i] = running[i] /\ Idle(i)]
    /\ running' = [running EXCEPT ![i] = @ /\ ~Idle(i)]
    /\ overflow' = [overflow EXCEPT ![i] = cluster_overflow[i]]
    /\ result' = [result EXCEPT ![i] = Captured(i)]
    /\ FlushFifo(i)
    /\ UNCHANGED <<job_regs, engine, irq_mask, found>>

\* RESULT_STATUS: bit 0 empties the result register, bit 1 clears overflow_q.
WriteResultStatus(i, clearOverflow) ==
    /\ result' = [result EXCEPT ![i] = IF @ = NoResult THEN Captured(i) ELSE NoResult]
    /\ fifo' = [fifo EXCEPT ![i] = IF result[i] = NoResult /\ @ # <<>> THEN Tail(@) ELSE @]
    /\ overflow' = [overflow EXCEPT ![i] =
                      IF clearOverflow THEN cluster_overflow[i] ELSE @]
    /\ UNCHANGED <<job_regs, engine, running, nonce_done, cluster_overflow, irq_mask, found>>

\* IRQ_CONTROL, bit 0, of every instance of S.
WriteIrqMask(S, masked) ==
    /\ irq_mask' = [i \in Inst |-> IF i \in S THEN masked ELSE irq_mask[i]]
    /\ UNCHANGED <<job_regs, engine, running, nonce_done, overflow, cluster_overflow,
                   fifo, result, found>>

\* MIDSTATE, HEADER_TAIL and TARGET of every instance.
WriteJob(j) ==
    /\ job_regs' = [i \in Inst |-> j]
    /\ UNCHANGED <<engine, running, nonce_done, overflow, cluster_overflow, fifo,
                   result, irq_mask, found>>

-----------------------------------------------------------------------------
(***************************************************************************)
(* Steps of the logic itself.                                              *)
(***************************************************************************)
\* The engines of S meet the target in the same clock.  The cluster keeps the
\* first of them, the one with the lowest index, if the FIFO has room, and flags
\* every other loss.
EngineResult(i, S, first) ==
    LET room == Len(fifo[i]) < FifoDepth
        r == [id |-> found + 1, job |-> engine[i][first].job, boot |-> engine[i][first].boot]
        lost == ~room \/ S # {first}
    IN
    /\ \A e \in S : engine[i][e] # NoJob /\ first <= e
    /\ found < MaxFound
    /\ found' = found + 1
    /\ fifo' = [fifo EXCEPT ![i] = IF room THEN Append(@, r) ELSE @]
    /\ cluster_overflow' = [cluster_overflow EXCEPT ![i] = @ \/ lost]
    /\ overflow' = [overflow EXCEPT ![i] = @ \/ lost]
    /\ UNCHANGED <<job_regs, engine, running, nonce_done, result, irq_mask>>

\* An engine has hashed its last nonce.
EngineDone(i, e) ==
    /\ engine[i][e] # NoJob
    /\ engine' = [engine EXCEPT ![i][e] = NoJob]
    /\ UNCHANGED <<job_regs, running, nonce_done, overflow, cluster_overflow, fifo,
                   result, irq_mask, found>>

\* Faulty variant of CaptureResult: the capture does not pop the FIFO.
CaptureWithoutPop(i) ==
    /\ result[i] = NoResult /\ fifo[i] # <<>>
    /\ result' = [result EXCEPT ![i] = Head(fifo[i])]
    /\ UNCHANGED <<job_regs, engine, running, nonce_done, overflow, cluster_overflow,
                   fifo, irq_mask, found>>

\* The head of the FIFO moves into the empty result register and is popped.
CaptureResult(i) ==
    /\ result[i] = NoResult /\ fifo[i] # <<>>
    /\ result' = [result EXCEPT ![i] = Head(fifo[i])]
    /\ fifo' = [fifo EXCEPT ![i] = Tail(@)]
    /\ UNCHANGED <<job_regs, engine, running, nonce_done, overflow, cluster_overflow,
                   irq_mask, found>>

\* No engine is busy any more: the range is complete.
RangeComplete(i) ==
    /\ running[i] /\ Idle(i)
    /\ running' = [running EXCEPT ![i] = FALSE]
    /\ nonce_done' = [nonce_done EXCEPT ![i] = TRUE]
    /\ UNCHANGED <<job_regs, engine, overflow, cluster_overflow, fifo, result, irq_mask, found>>

PlStep ==
    \E i \in Inst :
        \/ \E S \in SUBSET Engines : \E first \in S : EngineResult(i, S, first)
        \/ \E e \in Engines : EngineDone(i, e)
        \/ CaptureResult(i)
        \/ RangeComplete(i)
=============================================================================
