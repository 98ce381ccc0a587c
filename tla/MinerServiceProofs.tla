------------------------- MODULE MinerServiceProofs -------------------------
(***************************************************************************)
(* Type correctness of the miner service and its interrupt protocol, for   *)
(* any number of instances, engines, jobs and results.                     *)
(***************************************************************************)
EXTENDS MinerService, TLAPS

-----------------------------------------------------------------------------
(***************************************************************************)
(* The register writes and the steps of the PL keep the PL's types.        *)
(***************************************************************************)
LEMMA WriteTypes ==
    ASSUME PlTypeOK, NEW i \in Inst
    PROVE  /\ \A S \in SUBSET Engines : \A b \in 0 .. MaxBoots :
                 WriteStart(i, S, b) => PlTypeOK'
           /\ WriteStop(i) => PlTypeOK'
           /\ WriteClear(i) => PlTypeOK'
           /\ \A c \in BOOLEAN : WriteResultStatus(i, c) => PlTypeOK'
<1>1. Captured(i) \in Results \cup {NoResult}
  BY DEF PlTypeOK, Captured
<1>2. ASSUME FlushFifo(i)
      PROVE  fifo' \in [Inst -> Seq(Results)] /\ cluster_overflow' \in [Inst -> BOOLEAN]
  BY <1>2 DEF FlushFifo, PlTypeOK
<1>3. ASSUME NEW S \in SUBSET Engines, NEW b \in 0 .. MaxBoots, WriteStart(i, S, b)
      PROVE  PlTypeOK'
  <2>1. engine' \in [Inst -> [Engines -> Work \cup {NoJob}]]
    BY <1>3 DEF PlTypeOK, WriteStart, Work
  <2>2. running' \in [Inst -> BOOLEAN] /\ nonce_done' \in [Inst -> BOOLEAN]
    BY <1>3, Zenon DEF PlTypeOK, WriteStart, Idle
  <2>3. overflow' \in [Inst -> BOOLEAN] /\ result' \in [Inst -> Results \cup {NoResult}]
    BY <1>1, <1>3 DEF PlTypeOK, WriteStart
  <2> QED
    BY <1>2, <1>3, <2>1, <2>2, <2>3 DEF PlTypeOK, WriteStart
<1>4. ASSUME WriteStop(i)
      PROVE  PlTypeOK'
  <2>1. engine' \in [Inst -> [Engines -> Work \cup {NoJob}]]
    BY <1>4 DEF PlTypeOK, WriteStop
  <2>2. result' \in [Inst -> Results \cup {NoResult}]
    BY <1>1, <1>4 DEF PlTypeOK, WriteStop
  <2> QED
    BY <1>2, <1>4, <2>1, <2>2 DEF PlTypeOK, WriteStop
<1>5. ASSUME WriteClear(i)
      PROVE  PlTypeOK'
  <2>1. running' \in [Inst -> BOOLEAN] /\ nonce_done' \in [Inst -> BOOLEAN]
    BY <1>5, Zenon DEF PlTypeOK, WriteClear, Idle
  <2>2. overflow' \in [Inst -> BOOLEAN] /\ result' \in [Inst -> Results \cup {NoResult}]
    BY <1>1, <1>5 DEF PlTypeOK, WriteClear
  <2> QED
    BY <1>2, <1>5, <2>1, <2>2 DEF PlTypeOK, WriteClear
<1>6. ASSUME NEW c \in BOOLEAN, WriteResultStatus(i, c)
      PROVE  PlTypeOK'
  <2>1. result' \in [Inst -> Results \cup {NoResult}]
    BY <1>1, <1>6 DEF PlTypeOK, WriteResultStatus
  <2>2. fifo' \in [Inst -> Seq(Results)]
    BY <1>6 DEF PlTypeOK, WriteResultStatus
  <2>3. overflow' \in [Inst -> BOOLEAN]
    BY <1>6 DEF PlTypeOK, WriteResultStatus
  <2> QED
    BY <1>6, <2>1, <2>2, <2>3 DEF PlTypeOK, WriteResultStatus
<1> QED
  BY <1>3, <1>4, <1>5, <1>6

LEMMA PlStepTypes == PlTypeOK /\ PlStep => PlTypeOK'
<1> SUFFICES ASSUME PlTypeOK, NEW i \in Inst,
                    \/ \E S \in SUBSET Engines : \E first \in S : EngineResult(i, S, first)
                    \/ \E e \in Engines : EngineDone(i, e)
                    \/ CaptureResult(i)
                    \/ RangeComplete(i)
             PROVE  PlTypeOK'
  BY DEF PlStep
<1>1. ASSUME NEW S \in SUBSET Engines, NEW first \in S, EngineResult(i, S, first)
      PROVE  PlTypeOK'
  <2> DEFINE r == [id |-> found + 1, job |-> engine[i][first].job,
                   boot |-> engine[i][first].boot]
  <2>1. found + 1 \in 1 .. MaxFound /\ found' \in 0 .. MaxFound
    <3>1. found < MaxFound /\ found' = found + 1
      BY <1>1, Zenon DEF EngineResult
    <3>2. found \in 0 .. MaxFound
      BY Zenon DEF PlTypeOK
    <3> QED
      BY <3>1, <3>2, InstAssumption
  <2>2. engine[i][first] \in Work
    <3>1. engine[i][first] # NoJob
      BY <1>1, Zenon DEF EngineResult
    <3>2. engine \in [Inst -> [Engines -> Work \cup {NoJob}]]
      BY Zenon DEF PlTypeOK
    <3> QED
      BY <3>1, <3>2, Zenon
  <2>3. r \in Results
    BY <2>1, <2>2 DEF Work, Results
  <2>4. fifo' \in [Inst -> Seq(Results)]
    <3>1. PICK b \in BOOLEAN : fifo' = [fifo EXCEPT ![i] = IF b THEN Append(fifo[i], r) ELSE fifo[i]]
      BY <1>1, Zenon DEF EngineResult
    <3>2. fifo \in [Inst -> Seq(Results)]
      BY Zenon DEF PlTypeOK
    <3> HIDE DEF r
    <3> QED
      BY <2>3, <3>1, <3>2
  <2>5. cluster_overflow' \in [Inst -> BOOLEAN] /\ overflow' \in [Inst -> BOOLEAN]
    BY <1>1, Zenon DEF PlTypeOK, EngineResult
  <2> QED
    BY ZenonT(60), <1>1, <2>1, <2>4, <2>5 DEF PlTypeOK, EngineResult
<1>2. ASSUME NEW e \in Engines, EngineDone(i, e)
      PROVE  PlTypeOK'
  BY <1>2 DEF PlTypeOK, EngineDone
<1>3. CASE CaptureResult(i)
  <2>1. Head(fifo[i]) \in Results /\ Tail(fifo[i]) \in Seq(Results)
    BY <1>3 DEF PlTypeOK, CaptureResult
  <2> QED
    BY <1>3, <2>1 DEF PlTypeOK, CaptureResult
<1>4. CASE RangeComplete(i)
  BY <1>4 DEF PlTypeOK, RangeComplete
<1> QED
  BY <1>1, <1>2, <1>3, <1>4

-----------------------------------------------------------------------------
(***************************************************************************)
(* Type correctness.  A submission in progress has been checked against    *)
(* the bound on jobs, which is what makes TypeOK inductive.                *)
(***************************************************************************)
TypeInv == TypeOK /\ (s # "wait" => issued < MaxJobs)

\* The variables a task's step through its loop over the instances leaves typed.
LEMMA LoopTypes ==
    ASSUME NEW p \in WorkerPoints, NEW q \in WorkerPoints, wi \in Inst, WLoop(p, q)
    PROVE  w' \in WorkerPoints /\ wi' \in Inst
  BY InstAssumption DEF WLoop, Inst

LEMMA StratumLoopTypes ==
    ASSUME NEW p, NEW q, si \in Inst, SLoop(p, q)
    PROVE  s' \in {p, q} /\ si' \in Inst
  BY InstAssumption DEF SLoop, Inst

LEMMA TelnetLoopTypes ==
    ASSUME NEW p, NEW q, ti \in Inst, TLoop(p, q)
    PROVE  t' \in {p, q} /\ ti' \in Inst
  BY InstAssumption DEF TLoop, Inst

LEMMA TypeInit == Init => TypeInv
<1> SUFFICES ASSUME Init PROVE TypeInv
  OBVIOUS
<1>1. PlTypeOK
  BY InstAssumption DEF Init, PlInit, PlTypeOK, Jobs
<1>2. w \in WorkerPoints /\ 0 \in Inst /\ 0 \in Jobs /\ 0 \in 0 .. MaxBoots
  BY InstAssumption DEF Init, SwInit, WorkerPoints, InitPoints, Inst, Jobs
<1>3. g_stats \in [started : Nat, completed : Nat, preempted : Nat, stopped : Nat]
  BY DEF Init, SwInit, NoRanges
<1>4. g_result_queue \in Seq(Events) /\ g_job_queue \in {<<>>} \cup {<<r>> : r \in Requests}
  BY DEF Init, SwInit
<1>5. SwTypeOK
  BY <1>2, <1>3, <1>4, Zenon DEF Init, SwInit, SwTypeOK
<1> QED
  BY <1>1, <1>5 DEF Init, SwInit, TypeInv, TypeOK

LEMMA WorkerTypes == TypeInv /\ miner_task => TypeInv'
<1> SUFFICES ASSUME TypeInv, miner_task PROVE TypeInv'
  OBVIOUS
<1> USE DEF TypeInv, TypeOK, SwTypeOK, WOnly, irqVars, jobVars, outVars
<1>0. WorkerPoints = {"recv", "start", "take", "unmask", "init_stop", "init_clear",
        "init_status", "init_unmask", "drain", "clear", "clear_status"} /\ 0 \in Inst
  BY InstAssumption DEF WorkerPoints, InitPoints, DrainPoints, Inst
<1>1. CASE InitStop
  BY <1>0, <1>1, LoopTypes, WriteTypes DEF InitStop
<1>2. CASE InitClear
  <2>1. PlTypeOK'
    BY ZenonT(60), <1>2, WriteTypes DEF InitClear
  <2>2. w' \in WorkerPoints /\ wi' \in Inst
    BY ZenonT(60), <1>0, <1>2, LoopTypes DEF InitClear
  <2> QED
    BY <1>2, <2>1, <2>2 DEF InitClear
<1>3. CASE InitUnmask
  <2>1. PlTypeOK'
    BY <1>3, Zenon DEF InitUnmask, WriteIrqMask, PlTypeOK
  <2>2. w' \in WorkerPoints /\ wi' \in Inst
    BY ZenonT(60), <1>0, <1>3, LoopTypes DEF InitUnmask
  <2> QED
    BY ZenonT(60), <1>3, <2>1, <2>2 DEF InitUnmask
<1>4. CASE ReceiveJob
  <2>1. Head(g_job_queue) \in Requests
    BY <1>4 DEF ReceiveJob
  <2>2. PlTypeOK' /\ g_active_job' \in Jobs
    BY <1>4, <2>1 DEF ReceiveJob, WriteJob, PlTypeOK, Requests
  <2>3. g_stats' \in [started : Nat, completed : Nat, preempted : Nat, stopped : Nat]
    BY SMTT(60), <1>4 DEF ReceiveJob, FinishedStats
  <2> QED
    BY ZenonT(60), <1>0, <1>4, <2>2, <2>3 DEF ReceiveJob, WGoto
<1>5. CASE StartRange
  <2>1. PlTypeOK'
    BY <1>5, WriteTypes DEF StartRange
  <2>2. w' \in WorkerPoints /\ wi' \in Inst
    BY <1>0, <1>5, LoopTypes DEF StartRange
  <2>3. g_stats' \in [started : Nat, completed : Nat, preempted : Nat, stopped : Nat]
    BY <1>5 DEF StartRange
  <2>4. g_range_active' \in BOOLEAN /\ g_stop_requested' \in BOOLEAN
    BY <1>5, Zenon DEF StartRange
  <2> QED
    BY <1>5, <2>1, <2>2, <2>3, <2>4 DEF StartRange
<1>6. CASE ReceiveTimeout
  <2>1. g_stats' \in [started : Nat, completed : Nat, preempted : Nat, stopped : Nat]
    BY SMTT(60), <1>6 DEF ReceiveTimeout, FinishedStats
  <2>2. PlTypeOK'
    BY <1>6 DEF ReceiveTimeout, plVars, PlTypeOK
  <2> QED
    BY ZenonT(60), <1>0, <1>6, <2>1, <2>2 DEF ReceiveTimeout, WGoto
<1>7. CASE TakeSemaphore
  BY ZenonT(60), <1>0, <1>7 DEF TakeSemaphore, WGoto, plVars, PlTypeOK
<1>8. CASE TakeTimeout
  BY ZenonT(60), <1>0, <1>8 DEF TakeTimeout, WGoto, plVars, PlTypeOK
<1>9. CASE ReadResult
  <2>1. result[wi] \in Results
    BY ZenonT(60), <1>9 DEF ReadResult, PlTypeOK
  <2>2. [result |-> result[wi], job |-> g_active_job] \in Events
    BY ZenonT(60), <2>1 DEF Events
  <2>3. g_result_queue' \in Seq(Events)
    BY SMTT(60), <1>9, <2>2 DEF ReadResult
  <2>4. PlTypeOK'
    BY ZenonT(60), <1>9, WriteTypes DEF ReadResult
  <2> QED
    BY ZenonT(60), <1>0, <1>9, <2>3, <2>4 DEF ReadResult, WGoto
<1>10. CASE ReadNoResult
  BY ZenonT(60), <1>0, <1>10, LoopTypes DEF ReadNoResult, plVars, PlTypeOK
<1>11. CASE Clear
  <2>1. PlTypeOK'
    BY <1>11, WriteTypes, Zenon DEF Clear
  <2>2. w' \in WorkerPoints /\ wi' \in Inst
    BY ZenonT(60), <1>0, <1>11, LoopTypes DEF Clear
  <2>3. g_irq_masked' \in BOOLEAN
    BY ZenonT(60), <1>11 DEF Clear
  <2> QED
    BY ZenonT(60), <1>11, <2>1, <2>2, <2>3 DEF Clear
<1>12. CASE Unmask
  <2>1. PlTypeOK'
    BY ZenonT(60), <1>12 DEF Unmask, WriteIrqMask, PlTypeOK
  <2>2. w' \in WorkerPoints /\ wi' \in Inst
    BY <1>0, <1>12, LoopTypes DEF Unmask
  <2> QED
    BY ZenonT(60), <1>12, <2>1, <2>2 DEF Unmask
<1> QED
  BY ZenonT(60), <1>1, <1>2, <1>3, <1>4, <1>5, <1>6, <1>7, <1>8, <1>9, <1>10, <1>11, <1>12
     DEF miner_task

LEMMA StratumTypes == TypeInv /\ stratum_task => TypeInv'
<1> SUFFICES ASSUME TypeInv, stratum_task PROVE TypeInv'
  OBVIOUS
<1> USE DEF TypeInv, TypeOK, SwTypeOK, SOnly, irqVars, jobVars, outVars, taskVars
<1>0. 0 \in Inst
  BY InstAssumption DEF Inst
<1>1. CASE Notify
  BY ZenonT(60), <1>0, <1>1 DEF Notify, plVars, PlTypeOK
<1>2. CASE RefillCheck
  BY <1>0, <1>2 DEF RefillCheck, plVars, PlTypeOK
<1>3. CASE ServiceClear
  <2>1. PlTypeOK'
    BY ZenonT(60), <1>3, WriteTypes DEF ServiceClear
  <2>2. /\ s \in {"clear", "clear_status"}
        /\ s' \in {"clear", "clear_status", "submit_clean"}
        /\ si' \in Inst
    BY ZenonT(60), <1>3, StratumLoopTypes DEF ServiceClear
  <2> QED
    BY ZenonT(60), <1>3, <2>1, <2>2 DEF ServiceClear
<1>4. CASE SubmitJob
  <2>1. PlTypeOK'
    BY ZenonT(60), <1>4 DEF SubmitJob, plVars, PlTypeOK
  <2>2. issued + 1 \in Jobs
    BY SMTT(60), <1>4, InstAssumption DEF SubmitJob, Jobs
  <2>3. [job |-> issued + 1, clean |-> s = "submit_clean"] \in Requests
    BY ZenonT(60), <2>2 DEF Requests
  <2>4. issued' \in Jobs /\ g_job_queue' \in {<<>>} \cup {<<r>> : r \in Requests}
    BY ZenonT(60), <1>4, <2>2, <2>3 DEF SubmitJob
  <2> QED
    BY <1>0, <1>4, <2>1, <2>4 DEF SubmitJob
<1>5. CASE TakeResult
  <2>1. PlTypeOK'
    BY <1>5 DEF TakeResult, plVars, PlTypeOK
  <2>2. Head(g_result_queue) \in Events /\ Tail(g_result_queue) \in Seq(Events)
    BY SMTT(60), <1>5 DEF TakeResult
  <2>3. Head(g_result_queue).result.id \in 1 .. MaxFound
    BY <2>2 DEF Events, Results
  <2> QED
    BY ZenonT(60), <1>5, <2>1, <2>2, <2>3 DEF TakeResult
<1> QED
  BY <1>1, <1>2, <1>3, <1>4, <1>5 DEF stratum_task

LEMMA TelnetTypes == TypeInv /\ telnet_task => TypeInv'
<1> SUFFICES ASSUME TypeInv, telnet_task PROVE TypeInv'
  OBVIOUS
<1> USE DEF TypeInv, TypeOK, SwTypeOK, TOnly, irqVars, jobVars, outVars
<1>0. 0 \in Inst
  BY InstAssumption DEF Inst
<1>1. CASE Command
  <2>1. PlTypeOK'
    BY ZenonT(60), <1>1 DEF Command, plVars, PlTypeOK
  <2>2. t' \in {"wait", "start", "stop", "clear", "clear_status"} /\ ti' \in Inst
    BY <1>0, <1>1, ServiceAssumption DEF Command
  <2>3. g_stop_requested' \in BOOLEAN
    BY <1>1 DEF Command
  <2> QED
    BY <1>1, <2>1, <2>2, <2>3 DEF Command
<1>2. CASE CommandStep
  <2>1. PlTypeOK'
    BY ZenonT(60), <1>2, WriteTypes DEF CommandStep
  <2>2. t' \in {"wait", "start", "stop", "clear", "clear_status"} /\ ti' \in Inst
    BY ZenonT(60), <1>2, TelnetLoopTypes DEF CommandStep
  <2> QED
    BY <1>2, <2>1, <2>2 DEF CommandStep
<1> QED
  BY ZenonT(60), <1>1, <1>2 DEF telnet_task

LEMMA OtherTypes ==
    TypeInv /\ (miner_irq_handler \/ Reload \/ Pl \/ UNCHANGED vars) => TypeInv'
<1> SUFFICES ASSUME TypeInv, miner_irq_handler \/ Reload \/ Pl \/ UNCHANGED vars
             PROVE  TypeInv'
  OBVIOUS
<1> USE DEF TypeInv, TypeOK, SwTypeOK, irqVars, jobVars, outVars, taskVars
<1>1. CASE miner_irq_handler
  <2>1. PlTypeOK'
    BY ZenonT(60), <1>1 DEF miner_irq_handler, WriteIrqMask, plVars, PlTypeOK
  <2> QED
    BY <1>1, <2>1 DEF miner_irq_handler
<1>2. CASE Reload
  <2>1. PlTypeOK'
    BY <1>2 DEF Reload, plVars, PlTypeOK
  <2>2. w' \in WorkerPoints /\ 0 \in Inst /\ 0 \in Jobs /\ boot' \in 0 .. MaxBoots
    BY <1>2, InstAssumption DEF Reload, WorkerPoints, InitPoints, Inst, Jobs
  <2>3. g_stats' \in [started : Nat, completed : Nat, preempted : Nat, stopped : Nat]
    BY <1>2 DEF Reload, NoRanges
  <2>4. /\ g_result_queue' \in Seq(Events)
        /\ g_job_queue' \in {<<>>} \cup {<<r>> : r \in Requests}
    BY <1>2 DEF Reload
  <2> QED
    BY ZenonT(60), <1>2, <2>1, <2>2, <2>3, <2>4 DEF Reload
<1>3. CASE Pl
  BY <1>3, PlStepTypes DEF Pl
<1>4. CASE UNCHANGED vars
  BY ZenonT(60), <1>4 DEF vars, plVars, PlTypeOK
<1> QED
  BY <1>1, <1>2, <1>3, <1>4

\* Every variable of the service and of the instances keeps its type in every
\* behaviour: the job queue never holds more than one request, the register loops
\* of the three tasks stay within the instances, and a queued event always
\* carries a real result.
THEOREM TypeCorrect == Spec => []TypeOK
<1>1. Init => TypeInv
  BY TypeInit
<1>2. TypeInv /\ [Next]_vars => TypeInv'
  BY WorkerTypes, StratumTypes, TelnetTypes, OtherTypes DEF Next
<1>3. TypeInv => TypeOK
  BY DEF TypeInv
<1> QED
  BY <1>1, <1>2, <1>3, PTL DEF Spec

-----------------------------------------------------------------------------
(***************************************************************************)
(* The interrupt protocol.  Only the handler, the worker and a restart     *)
(* touch the mask, the flag and the semaphore.                             *)
(***************************************************************************)
LEMMA IrqInit == Init => IrqProtocol
  BY DEF Init, PlInit, SwInit, IrqProtocol, InitPoints

LEMMA IrqWorker == TypeInv /\ IrqProtocol /\ miner_task => IrqProtocol'
<1> SUFFICES ASSUME TypeInv, IrqProtocol, miner_task PROVE IrqProtocol'
  OBVIOUS
<1> USE DEF IrqProtocol, irqVars, InitPoints, DrainPoints
<1>0. wi \in Inst /\ irq_mask \in [Inst -> BOOLEAN]
  BY DEF TypeInv, TypeOK, SwTypeOK, PlTypeOK
<1>1. CASE InitStop
  BY <1>1 DEF InitStop, WriteStop, WLoop
<1>2. CASE InitClear
  BY <1>2, InstAssumption DEF InitClear, WriteClear, WriteResultStatus, WLoop, Inst
<1>3. CASE InitUnmask
  <2>1. ~g_irq_masked' /\ \A i \in Inst : irq_mask'[i] => wi <= i /\ i # wi
    BY <1>0, <1>3 DEF InitUnmask, WriteIrqMask
  <2>2. CASE wi + 1 < NumInst
    <3>1. w' = "init_unmask" /\ wi' = wi + 1 /\ ~irq_installed'
      BY <1>0, <1>3, <2>2, InstAssumption DEF InitUnmask, WLoop, Inst
    <3> QED
      BY <1>0, <2>1, <3>1 DEF Inst
  <2>3. CASE ~(wi + 1 < NumInst)
    <3>1. w' = "recv" /\ irq_installed' /\ NumInst = wi + 1
      BY <1>0, <1>3, <2>3, InstAssumption DEF InitUnmask, WLoop, Inst
    <3>2. \A i \in Inst : ~irq_mask'[i]
      BY <1>0, <2>1, <3>1, InstAssumption DEF Inst
    <3> QED
      BY <2>1, <3>1, <3>2
  <2> QED
    BY <2>2, <2>3
<1>4. CASE ReceiveJob
  BY <1>4 DEF ReceiveJob, WriteJob, WGoto
<1>5. CASE StartRange
  BY <1>5 DEF StartRange, WriteStart, WLoop
<1>6. CASE ReceiveTimeout
  BY <1>6 DEF ReceiveTimeout, WGoto, plVars
<1>7. CASE TakeSemaphore
  BY <1>7 DEF TakeSemaphore, WGoto, plVars
<1>8. CASE TakeTimeout
  BY <1>8 DEF TakeTimeout, WGoto, plVars
<1>9. CASE ReadResult
  BY <1>9 DEF ReadResult, WriteResultStatus, WGoto
<1>10. CASE ReadNoResult
  BY <1>10 DEF ReadNoResult, WLoop, plVars
<1>11. CASE Clear
  <2>1. irq_mask' = irq_mask /\ irq_installed' = irq_installed /\ g_irq_sem' = g_irq_sem
    BY <1>11 DEF Clear, WriteClear, WriteResultStatus
  <2>2. w \in DrainPoints /\ irq_installed
    BY <1>11, Zenon DEF Clear
  <2>3. \/ g_irq_masked' = g_irq_masked /\ w' \in {"clear", "clear_status"}
        \/ ~g_irq_masked' /\ w' = "unmask" /\ wi' = 0
    BY <1>11, Zenon DEF Clear, WLoop
  <2> QED
    BY <2>1, <2>2, <2>3 DEF Inst
<1>12. CASE Unmask
  BY <1>0, <1>12, InstAssumption DEF Unmask, WriteIrqMask, WLoop, Inst
<1> QED
  BY ZenonT(60), <1>1, <1>2, <1>3, <1>4, <1>5, <1>6, <1>7, <1>8, <1>9, <1>10, <1>11, <1>12
     DEF miner_task

LEMMA IrqUntouched ==
    IrqProtocol /\ (stratum_task \/ telnet_task \/ Pl \/ UNCHANGED vars) => IrqProtocol'
<1> SUFFICES ASSUME IrqProtocol, stratum_task \/ telnet_task \/ Pl \/ UNCHANGED vars
             PROVE  UNCHANGED <<w, wi, irqVars, irq_mask>>
  BY DEF IrqProtocol, irqVars
<1> USE DEF irqVars, taskVars, plVars
<1>1. CASE stratum_task
  BY ZenonT(60), <1>1 DEF stratum_task, Notify, RefillCheck, ServiceClear, SubmitJob, TakeResult, SOnly,
              WriteClear, WriteResultStatus
<1>2. CASE telnet_task
  BY ZenonT(60), <1>2 DEF telnet_task, Command, CommandStep, TOnly, WriteStart, WriteStop, WriteClear,
              WriteResultStatus
<1>3. CASE Pl
  BY ZenonT(60), <1>3 DEF Pl, PlStep, EngineResult, EngineDone, CaptureResult, RangeComplete
<1>4. CASE UNCHANGED vars
  BY <1>4 DEF vars
<1> QED
  BY <1>1, <1>2, <1>3, <1>4

\* No lost wakeup, for any number of instances and any interleaving of the handler
\* with the worker's unmask loop: a worker that waits for a semaphore not given
\* has every source unmasked.
THEOREM NoWakeupIsLost == Spec => []NoLostWakeup
<1>1. Init => TypeInv /\ IrqProtocol
  BY TypeInit, IrqInit
<1>2. TypeInv /\ IrqProtocol /\ [Next]_vars => (TypeInv /\ IrqProtocol)'
  <2> SUFFICES ASSUME TypeInv, IrqProtocol, [Next]_vars PROVE TypeInv' /\ IrqProtocol'
    OBVIOUS
  <2>1. TypeInv'
    BY WorkerTypes, StratumTypes, TelnetTypes, OtherTypes DEF Next
  <2>2. CASE miner_irq_handler
    <3>1. irq_installed /\ w' = w /\ irq_installed' = irq_installed /\ g_irq_masked' /\ g_irq_sem'
      BY <2>2 DEF miner_irq_handler, taskVars
    <3> QED
      BY <2>1, <3>1 DEF IrqProtocol
  <2>3. CASE Reload
    <3>1. w' = "init_stop" /\ ~irq_installed' /\ ~g_irq_masked'
      BY <2>3 DEF Reload
    <3> QED
      BY <2>1, <3>1 DEF IrqProtocol, InitPoints
  <2> QED
    BY <2>1, <2>2, <2>3, IrqWorker, IrqUntouched DEF Next
<1>3. IrqProtocol => NoLostWakeup
  BY DEF IrqProtocol, NoLostWakeup, InitPoints, DrainPoints
<1> QED
  BY <1>1, <1>2, <1>3, PTL DEF Spec

-----------------------------------------------------------------------------
(***************************************************************************)
(* The range counters.  Only miner_task writes them and g_range_active;    *)
(* between the end of one range and the start of the next the flag is low, *)
(* also while the start loop runs.                                         *)
(***************************************************************************)
RangeInv == RangesAccounted /\ (w = "start" => ~g_range_active)

LEMMA RangeUntouched ==
    ASSUME RangeInv, UNCHANGED <<g_stats, g_range_active>>, w' = w \/ w' # "start"
    PROVE  RangeInv'
  BY DEF RangeInv, RangesAccounted

LEMMA RangeWorker == TypeInv /\ RangeInv /\ miner_task => RangeInv'
<1> SUFFICES ASSUME TypeInv, RangeInv, miner_task PROVE RangeInv'
  OBVIOUS
<1> USE DEF RangeInv, RangesAccounted, jobVars
<1>0. /\ g_stats \in [started : Nat, completed : Nat, preempted : Nat, stopped : Nat]
      /\ g_range_active \in BOOLEAN
  BY DEF TypeInv, TypeOK, SwTypeOK
<1>1. CASE ReceiveJob
  BY <1>0, <1>1 DEF ReceiveJob, FinishedStats
<1>2. CASE StartRange
  <2>1. CASE wi + 1 < NumInst
    BY <1>2, <2>1 DEF StartRange, WLoop
  <2>2. CASE ~(wi + 1 < NumInst)
    <3>1. g_range_active' /\ ~g_range_active /\ w' = "take"
      BY <1>2, <2>2 DEF StartRange, WLoop
    <3>2. g_stats' = [g_stats EXCEPT !.started = @ + 1]
      BY <1>2, <2>2 DEF StartRange
    <3> QED
      BY <1>0, <3>1, <3>2
  <2> QED
    BY <2>1, <2>2
<1>3. CASE ReceiveTimeout
  BY <1>0, <1>3 DEF ReceiveTimeout, FinishedStats, WGoto
<1>4. CASE InitStop \/ InitClear \/ InitUnmask
  <2>1. UNCHANGED <<g_stats, g_range_active>> /\ w' # "start"
    BY ZenonT(60), <1>4 DEF InitStop, InitClear, InitUnmask, WLoop
  <2> QED
    BY <2>1, RangeUntouched
<1>5. CASE TakeSemaphore \/ TakeTimeout \/ ReadResult \/ ReadNoResult \/ Clear \/ Unmask
  <2>1. UNCHANGED <<g_stats, g_range_active>> /\ w' # "start"
    BY ZenonT(60), <1>5 DEF TakeSemaphore, TakeTimeout, ReadResult, ReadNoResult, Clear, Unmask, WLoop, WGoto
  <2> QED
    BY <2>1, RangeUntouched
<1> QED
  BY <1>1, <1>2, <1>3, <1>4, <1>5 DEF miner_task

\* Every range that miner_task ever starts is active or counted exactly once, for
\* any number of jobs, restarts and console commands.
THEOREM RangesAreAccounted == Spec => []RangesAccounted
<1>1. Init => TypeInv /\ RangeInv
  <2>1. Init => RangeInv
    BY DEF Init, SwInit, RangeInv, RangesAccounted, NoRanges
  <2> QED
    BY <2>1, TypeInit
<1>2. TypeInv /\ RangeInv /\ [Next]_vars => (TypeInv /\ RangeInv)'
  <2> SUFFICES ASSUME TypeInv, RangeInv, [Next]_vars PROVE TypeInv' /\ RangeInv'
    OBVIOUS
  <2>1. TypeInv'
    BY WorkerTypes, StratumTypes, TelnetTypes, OtherTypes DEF Next
  <2>2. CASE stratum_task \/ telnet_task \/ miner_irq_handler \/ Pl \/ UNCHANGED vars
    <3>1. UNCHANGED <<g_stats, g_range_active, w>>
      BY ZenonT(60), <2>2 DEF stratum_task, Notify, RefillCheck, ServiceClear, SubmitJob, TakeResult, SOnly,
                  telnet_task, Command, CommandStep, TOnly, miner_irq_handler, Pl,
                  vars, jobVars, taskVars
    <3> QED
      BY <2>1, <3>1, RangeUntouched
  <2>3. CASE Reload
    <3>1. g_stats' = NoRanges /\ ~g_range_active' /\ w' = "init_stop"
      BY <2>3 DEF Reload
    <3> QED
      BY <2>1, <3>1 DEF RangeInv, RangesAccounted, NoRanges
  <2>4. CASE miner_task
    BY <2>1, <2>4, RangeWorker
  <2> QED
    BY <2>2, <2>3, <2>4 DEF Next
<1>3. RangeInv => RangesAccounted
  BY DEF RangeInv
<1> QED
  BY <1>1, <1>2, <1>3, PTL DEF Spec
=============================================================================
