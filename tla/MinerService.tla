---------------------------- MODULE MinerService ----------------------------
(***************************************************************************)
(* The miner service of the R5 (miner_service.c over miner_regs.c): the    *)
(* interrupt handler, miner_task, and the two tasks that call the service, *)
(* stratum_task and the console of telnet_task, over the miner instances.  *)
(* A step is one register access or one call of the kernel, because the PL *)
(* moves between any two register accesses and the interrupt can be taken  *)
(* between any two.  The handler itself is one step: nothing else runs on  *)
(* the core while it does, and the PL never reads the mask.                *)
(***************************************************************************)
EXTENDS MinerInstances

CONSTANTS
    ResultQueueDepth,    \* xQueueCreate(8, ...)
    Commands             \* console commands that are typed, of start, stop and clear

ASSUME ServiceAssumption ==
    /\ ResultQueueDepth \in Nat \ {0}
    /\ Commands \subseteq {"start", "stop", "clear"}

VARIABLES
    w, wi,                \* miner_task: control point, instance of its register loop
    s, si,                \* stratum_task, in its calls of the service
    t, ti,                \* telnet_task, in its calls of the service
    irq_installed,        \* miner_install_irq has enabled the interrupt
    g_irq_masked, g_irq_sem,
    g_job_queue,          \* at most one request
    g_result_queue,
    g_active_job, g_range_active, g_stop_requested,
    g_stats,              \* the range counters of miner_service_stats_t
    issued,               \* jobs handed to miner_service_submit_job: names the jobs
    taken,                \* ids of the results stratum_task has taken
    boot                  \* restarts of the R5 so far

taskVars == <<w, wi, s, si, t, ti>>
irqVars == <<irq_installed, g_irq_masked, g_irq_sem>>
jobVars == <<g_job_queue, g_active_job, g_range_active, g_stop_requested, g_stats, issued>>
outVars == <<g_result_queue, taken>>
vars == <<plVars, taskVars, irqVars, jobVars, outVars, boot>>

Requests == [job : Jobs, clean : BOOLEAN]
Events == [result : Results, job : Jobs]

InitPoints == {"init_stop", "init_clear", "init_status", "init_unmask"}
DrainPoints == {"drain", "clear", "clear_status"}
WorkerPoints == {"recv", "start", "take", "unmask"} \cup InitPoints \cup DrainPoints

SwTypeOK ==
    /\ w \in WorkerPoints /\ wi \in Inst
    /\ s \in {"wait", "clear", "clear_status", "submit", "submit_clean"} /\ si \in Inst
    /\ t \in {"wait", "start", "stop", "clear", "clear_status"} /\ ti \in Inst
    /\ irq_installed \in BOOLEAN /\ g_irq_masked \in BOOLEAN /\ g_irq_sem \in BOOLEAN
    /\ g_job_queue \in {<<>>} \cup {<<r>> : r \in Requests}
    /\ g_active_job \in Jobs
    /\ g_range_active \in BOOLEAN /\ g_stop_requested \in BOOLEAN
    /\ g_stats \in [started : Nat, completed : Nat, preempted : Nat, stopped : Nat]
    /\ g_result_queue \in Seq(Events)
    /\ issued \in Jobs
    /\ taken \subseteq 1 .. MaxFound
    /\ boot \in 0 .. MaxBoots

\* Every variable has the values its declaration in the code allows.
TypeOK == PlTypeOK /\ SwTypeOK

NoRanges == [started |-> 0, completed |-> 0, preempted |-> 0, stopped |-> 0]

\* The state of the software when miner_service_start has created the task.
SwInit ==
    /\ w = "init_stop" /\ wi = 0
    /\ s = "wait" /\ si = 0
    /\ t = "wait" /\ ti = 0
    /\ irq_installed = FALSE /\ g_irq_masked = FALSE /\ g_irq_sem = FALSE
    /\ g_job_queue = <<>>
    /\ g_active_job = 0 /\ g_range_active = FALSE /\ g_stop_requested = FALSE
    /\ g_stats = NoRanges
    /\ g_result_queue = <<>>

Init == PlInit /\ SwInit /\ issued = 0 /\ taken = {} /\ boot = 0

\* miner_status() without MINER_STATUS_RUNNING.
NotRunning == \A i \in Inst : ~running[i]

-----------------------------------------------------------------------------
(***************************************************************************)
(* Scheduling.  Fixed priorities, one core: miner_task (4) runs whenever   *)
(* it is not blocked, then stratum_task (3), then telnet_task (2).         *)
(***************************************************************************)
WorkerBlocked ==
    \/ w = "recv" /\ g_job_queue = <<>>
    \/ w = "take" /\ ~g_irq_sem

StratumRuns == WorkerBlocked
TelnetRuns == WorkerBlocked /\ s = "wait"

\* A loop over the instances: the next instance at point p, or the point q
\* after the loop.
WLoop(p, q) ==
    IF wi + 1 < NumInst THEN w' = p /\ wi' = wi + 1 ELSE w' = q /\ wi' = 0
SLoop(p, q) ==
    IF si + 1 < NumInst THEN s' = p /\ si' = si + 1 ELSE s' = q /\ si' = 0
TLoop(p, q) ==
    IF ti + 1 < NumInst THEN t' = p /\ ti' = ti + 1 ELSE t' = q /\ ti' = 0

WGoto(p) == w' = p /\ wi' = 0
WOnly == UNCHANGED <<s, si, t, ti>>
SOnly == UNCHANGED <<w, wi, t, ti>>
TOnly == UNCHANGED <<w, wi, s, si>>

-----------------------------------------------------------------------------
(***************************************************************************)
(* The interrupt handler.                                                  *)
(***************************************************************************)
\* Faulty variant: the handler masks the sources and does not give the semaphore.
HandlerWithoutGive ==
    /\ irq_installed /\ IrqLine
    /\ IF g_irq_masked THEN UNCHANGED plVars ELSE WriteIrqMask(Inst, TRUE)
    /\ g_irq_masked' = TRUE
    /\ UNCHANGED <<taskVars, irq_installed, g_irq_sem, jobVars, outVars, boot>>

miner_irq_handler ==
    /\ irq_installed /\ IrqLine
    /\ IF g_irq_masked THEN UNCHANGED plVars ELSE WriteIrqMask(Inst, TRUE)
    /\ g_irq_masked' = TRUE
    /\ g_irq_sem' = TRUE
    /\ UNCHANGED <<taskVars, irq_installed, jobVars, outVars, boot>>

-----------------------------------------------------------------------------
(***************************************************************************)
(* miner_task: miner_init and the installation of the interrupt.           *)
(***************************************************************************)
\* Faulty variant of InitStop: miner_init without miner_stop.
InitWithoutStop ==
    /\ w = "init_stop"
    /\ WGoto("init_clear")
    /\ WOnly /\ UNCHANGED <<plVars, irqVars, jobVars, outVars, boot>>

InitStop ==
    /\ w = "init_stop"
    /\ WriteStop(wi)
    /\ WLoop("init_stop", "init_clear")
    /\ WOnly /\ UNCHANGED <<irqVars, jobVars, outVars, boot>>

InitClear ==
    /\ \/ /\ w = "init_clear"
          /\ WriteClear(wi)
          /\ w' = "init_status" /\ wi' = wi
       \/ /\ w = "init_status"
          /\ WriteResultStatus(wi, TRUE)
          /\ WLoop("init_clear", "init_unmask")
    /\ WOnly /\ UNCHANGED <<irqVars, jobVars, outVars, boot>>

InitUnmask ==
    /\ w = "init_unmask"
    /\ WriteIrqMask({wi}, FALSE)
    /\ WLoop("init_unmask", "recv")
    /\ IF wi + 1 < NumInst THEN UNCHANGED irq_installed ELSE irq_installed' = TRUE
    /\ WOnly /\ UNCHANGED <<g_irq_masked, g_irq_sem, jobVars, outVars, boot>>

-----------------------------------------------------------------------------
(***************************************************************************)
(* miner_task: a job request, or the end of a range.                       *)
(***************************************************************************)
\* miner_finish_range(reason): the counters and the two flags it resets.
FinishedStats(reason) == [g_stats EXCEPT ![reason] = @ + 1]

\* A request arrives: close the active range, program the job, start to start.
ReceiveJob ==
    /\ w = "recv" /\ g_job_queue # <<>>
    /\ LET request == Head(g_job_queue) IN
        /\ g_stats' = IF ~g_range_active THEN g_stats
                      ELSE IF request.clean \/ ~NotRunning THEN FinishedStats("preempted")
                      ELSE FinishedStats("completed")
        /\ g_active_job' = request.job
        /\ WriteJob(request.job)
    /\ g_range_active' = FALSE
    /\ g_stop_requested' = IF g_range_active THEN FALSE ELSE g_stop_requested
    /\ g_job_queue' = <<>>
    /\ WGoto("start")
    /\ WOnly /\ UNCHANGED <<irqVars, issued, outVars, boot>>

\* miner_start_range, one instance at a time, then the bookkeeping.
StartRange ==
    /\ w = "start"
    /\ WriteStart(wi, Engines, boot)
    /\ WLoop("start", "take")
    /\ IF wi + 1 < NumInst
       THEN UNCHANGED <<g_stats, g_range_active, g_stop_requested>>
       ELSE /\ g_stats' = [g_stats EXCEPT !.started = @ + 1]
            /\ g_range_active' = TRUE
            /\ g_stop_requested' = FALSE
    /\ WOnly /\ UNCHANGED <<irqVars, g_job_queue, g_active_job, issued, outVars, boot>>

\* Faulty variant of ReceiveTimeout: miner_finish_range leaves g_range_active set.
ReceiveTimeoutKeepsRange ==
    /\ w = "recv" /\ g_job_queue = <<>>
    /\ g_stats' = IF g_range_active /\ NotRunning THEN FinishedStats("completed") ELSE g_stats
    /\ WGoto("take")
    /\ WOnly /\ UNCHANGED <<plVars, irqVars, g_job_queue, g_active_job, g_range_active,
                            g_stop_requested, issued, outVars, boot>>

\* No request within 25 ms.
ReceiveTimeout ==
    /\ w = "recv" /\ g_job_queue = <<>>
    /\ IF g_range_active /\ NotRunning
       THEN /\ g_stats' = FinishedStats(IF g_stop_requested THEN "stopped" ELSE "completed")
            /\ g_range_active' = FALSE
            /\ g_stop_requested' = FALSE
       ELSE UNCHANGED <<g_stats, g_range_active, g_stop_requested>>
    /\ WGoto("take")
    /\ WOnly /\ UNCHANGED <<plVars, irqVars, g_job_queue, g_active_job, issued, outVars, boot>>

-----------------------------------------------------------------------------
(***************************************************************************)
(* miner_task: the result worker.                                          *)
(***************************************************************************)
TakeSemaphore ==
    /\ w = "take" /\ g_irq_sem
    /\ g_irq_sem' = FALSE
    /\ WGoto("drain")
    /\ WOnly /\ UNCHANGED <<plVars, irq_installed, g_irq_masked, jobVars, outVars, boot>>

\* Faulty variant of TakeTimeout: the worker waits for the semaphore for ever.
TakeForever == w = "take" /\ ~g_irq_sem /\ FALSE /\ UNCHANGED vars

TakeTimeout ==
    /\ w = "take" /\ ~g_irq_sem
    /\ WGoto("recv")
    /\ WOnly /\ UNCHANGED <<plVars, irqVars, jobVars, outVars, boot>>

\* miner_read_result finds a result in instance wi, pops it, and the task puts
\* it in the result queue under the job that is active now, or drops it.
ReadResult ==
    /\ w = "drain" /\ result[wi] # NoResult
    /\ WriteResultStatus(wi, FALSE)
    /\ g_result_queue' =
          IF Len(g_result_queue) < ResultQueueDepth
          THEN Append(g_result_queue, [result |-> result[wi], job |-> g_active_job])
          ELSE g_result_queue
    /\ WGoto("drain")
    /\ WOnly /\ UNCHANGED <<irqVars, jobVars, taken, boot>>

\* Instance wi has no result.  After the last one the worker looks at
\* g_irq_masked and goes on to miner_clear or to the top of its loop.
ReadNoResult ==
    /\ w = "drain" /\ result[wi] = NoResult
    /\ WLoop("drain", IF g_irq_masked THEN "clear" ELSE "recv")
    /\ WOnly /\ UNCHANGED <<plVars, irqVars, jobVars, outVars, boot>>

\* miner_clear, then g_irq_masked = false.
Clear ==
    /\ \/ /\ w = "clear"
          /\ WriteClear(wi)
          /\ w' = "clear_status" /\ wi' = wi
          /\ UNCHANGED g_irq_masked
       \/ /\ w = "clear_status"
          /\ WriteResultStatus(wi, TRUE)
          /\ WLoop("clear", "unmask")
          /\ IF wi + 1 < NumInst THEN UNCHANGED g_irq_masked ELSE g_irq_masked' = FALSE
    /\ WOnly /\ UNCHANGED <<irq_installed, g_irq_sem, jobVars, outVars, boot>>

\* Faulty variant of Unmask: only the first instance is unmasked.
UnmaskFirstOnly ==
    /\ w = "unmask"
    /\ WriteIrqMask({wi}, FALSE)
    /\ WGoto("recv")
    /\ WOnly /\ UNCHANGED <<irqVars, jobVars, outVars, boot>>

\* miner_irq_unmask_all.  The write does not depend on the mask bit read, and
\* the force bit is never set, so the read is not a step of its own.
Unmask ==
    /\ w = "unmask"
    /\ WriteIrqMask({wi}, FALSE)
    /\ WLoop("unmask", "recv")
    /\ WOnly /\ UNCHANGED <<irqVars, jobVars, outVars, boot>>

miner_task ==
    \/ InitStop \/ InitClear \/ InitUnmask
    \/ ReceiveJob \/ StartRange \/ ReceiveTimeout
    \/ TakeSemaphore \/ TakeTimeout
    \/ ReadResult \/ ReadNoResult \/ Clear \/ Unmask

-----------------------------------------------------------------------------
(***************************************************************************)
(* stratum_task as a caller of the service.                                *)
(***************************************************************************)
\* A notify with work to dispatch; a clean one calls miner_service_clear first.
Notify ==
    /\ StratumRuns /\ s = "wait" /\ issued < MaxJobs
    /\ s' \in {"clear", "submit"} /\ si' = 0
    /\ SOnly /\ UNCHANGED <<plVars, irqVars, jobVars, outVars, boot>>

\* stratum_refill_if_idle reads the status; the submission is a later step.
RefillCheck ==
    /\ StratumRuns /\ s = "wait" /\ 0 < issued /\ issued < MaxJobs
    /\ NotRunning
    /\ s' = "submit" /\ si' = 0
    /\ SOnly /\ UNCHANGED <<plVars, irqVars, jobVars, outVars, boot>>

\* miner_service_clear.
ServiceClear ==
    /\ StratumRuns
    /\ \/ s = "clear" /\ WriteClear(si) /\ s' = "clear_status" /\ si' = si
       \/ s = "clear_status" /\ WriteResultStatus(si, TRUE) /\ SLoop("clear", "submit_clean")
    /\ SOnly /\ UNCHANGED <<irqVars, jobVars, outVars, boot>>

\* build_job succeeds and miner_service_submit_job overwrites the queue, or
\* build_job fails and nothing is submitted.
SubmitJob ==
    /\ StratumRuns /\ s \in {"submit", "submit_clean"}
    /\ \/ /\ issued' = issued + 1
          /\ g_job_queue' = <<[job |-> issued + 1, clean |-> s = "submit_clean"]>>
       \/ UNCHANGED <<issued, g_job_queue>>
    /\ s' = "wait" /\ si' = 0
    /\ SOnly /\ UNCHANGED <<plVars, irqVars, g_active_job, g_range_active, g_stop_requested,
                            g_stats, outVars, boot>>

\* miner_service_take_result.
TakeResult ==
    /\ StratumRuns /\ s = "wait" /\ g_result_queue # <<>>
    /\ taken' = taken \cup {Head(g_result_queue).result.id}
    /\ g_result_queue' = Tail(g_result_queue)
    /\ UNCHANGED <<plVars, taskVars, irqVars, jobVars, boot>>

stratum_task == Notify \/ RefillCheck \/ ServiceClear \/ SubmitJob \/ TakeResult

-----------------------------------------------------------------------------
(***************************************************************************)
(* telnet_task: the commands start, stop and clear.                        *)
(***************************************************************************)
Command ==
    /\ TelnetRuns /\ t = "wait"
    /\ t' \in Commands /\ ti' = 0
    /\ g_stop_requested' = (g_stop_requested \/ t' = "stop")
    /\ TOnly /\ UNCHANGED <<plVars, irqVars, g_job_queue, g_active_job, g_range_active,
                            g_stats, issued, outVars, boot>>

CommandStep ==
    /\ TelnetRuns
    /\ \/ t = "start" /\ (\E S \in SUBSET Engines : WriteStart(ti, S, boot))
                      /\ TLoop("start", "wait")
       \/ t = "stop" /\ WriteStop(ti) /\ TLoop("stop", "wait")
       \/ t = "clear" /\ WriteClear(ti) /\ t' = "clear_status" /\ ti' = ti
       \/ t = "clear_status" /\ WriteResultStatus(ti, TRUE) /\ TLoop("clear", "wait")
    /\ TOnly /\ UNCHANGED <<irqVars, jobVars, outVars, boot>>

telnet_task == Command \/ CommandStep

-----------------------------------------------------------------------------
\* The R5 application is reset and loaded again; the PL keeps its state.
Reload ==
    /\ boot < MaxBoots /\ boot' = boot + 1
    /\ w' = "init_stop" /\ wi' = 0
    /\ s' = "wait" /\ si' = 0
    /\ t' = "wait" /\ ti' = 0
    /\ irq_installed' = FALSE /\ g_irq_masked' = FALSE /\ g_irq_sem' = FALSE
    /\ g_job_queue' = <<>>
    /\ g_active_job' = 0 /\ g_range_active' = FALSE /\ g_stop_requested' = FALSE
    /\ g_stats' = NoRanges
    /\ g_result_queue' = <<>>
    /\ UNCHANGED <<plVars, issued, taken>>

Pl == PlStep /\ UNCHANGED <<taskVars, irqVars, jobVars, outVars, boot>>

Next == Pl \/ miner_irq_handler \/ miner_task \/ stratum_task \/ telnet_task \/ Reload

Spec == Init /\ [][Next]_vars

\* The interrupt is taken while it is asserted; miner_task runs only while it is
\* not, because a level-sensitive source is taken again as soon as the handler
\* returns.  A task that is inside a call gets on with it, and so does the PL
\* (a range is finite).
Fairness ==
    /\ WF_vars(miner_irq_handler)
    /\ WF_vars(miner_task /\ ~(irq_installed /\ IrqLine))
    /\ WF_vars(ServiceClear \/ SubmitJob)
    /\ WF_vars(CommandStep)
    /\ WF_vars(Pl)

FairSpec == Spec /\ Fairness

-----------------------------------------------------------------------------
(***************************************************************************)
(* Properties.                                                             *)
(***************************************************************************)
\* No lost wakeup: when the worker is about to wait for the semaphore and it has
\* not been given, no source is masked, so that the next result, overflow or end
\* of a range still raises the interrupt.  (miner_irq_handler masks and gives;
\* miner_task takes, clears g_irq_masked and unmasks one instance at a time, and
\* the handler can run between any two of these.)
NoLostWakeup ==
    w \in {"recv", "start", "take"} /\ ~g_irq_sem => \A i \in Inst : ~irq_mask[i]

\* The inductive form of NoLostWakeup.  Once the interrupt is installed, either
\* g_irq_masked is set, and then the semaphore has been given or the worker is on
\* its way to the clear and unmask, or it is not, and then a source is still masked
\* only because the unmask loop has not reached it.
IrqProtocol ==
    /\ w \in InitPoints <=> ~irq_installed
    /\ w \in InitPoints => ~g_irq_masked
    /\ g_irq_masked => g_irq_sem \/ w \in DrainPoints
    /\ ~g_irq_masked => \A i \in Inst :
          irq_mask[i] => w \in {"init_stop", "init_clear", "init_status"}
                           \/ (w \in {"unmask", "init_unmask"} /\ wi <= i)

\* "A new result in this window stays asserted and is delivered as soon as the
\* source is unmasked" (miner_service.c:190): the window is that between the last
\* read and the unmask, so that miner_clear in miner_task discards no result.
NewResultStays == [][Clear => \A i \in Inst : result[i] # NoResult => result'[i] = result[i]]_vars

\* Every range miner_task starts is accounted for once: it is the active one or it
\* is in exactly one of the counters ranges_completed, ranges_preempted and
\* ranges_stopped, whatever stop commands and job requests race with its end.
RangesAccounted ==
    g_stats.started = g_stats.completed + g_stats.preempted + g_stats.stopped
                        + (IF g_range_active THEN 1 ELSE 0)

\* The places a result can be in.
Places ==
    {<<"fifo", i, k>> : i \in Inst, k \in 1 .. FifoDepth}
        \cup {<<"register", i, 1>> : i \in Inst}
        \cup {<<"queue", 0, k>> : k \in 1 .. ResultQueueDepth}
IdAt(p) ==
    CASE p[1] = "fifo" -> IF p[3] <= Len(fifo[p[2]]) THEN fifo[p[2]][p[3]].id ELSE 0
      [] p[1] = "register" -> IF result[p[2]] # NoResult THEN result[p[2]].id ELSE 0
      [] p[1] = "queue" -> IF p[3] <= Len(g_result_queue)
                           THEN g_result_queue[p[3]].result.id ELSE 0

\* A result is delivered at most once: no result is in two places, and none that
\* stratum_task has taken is still on its way (capture and pop of the FIFO, the
\* pop by miner_read_result, and the clears that race with both).
NoDuplicateResult ==
    \A p \in Places : IdAt(p) # 0 =>
        /\ IdAt(p) \notin taken
        /\ \A q \in Places : IdAt(q) = IdAt(p) => q = p

\* A result found for work that was started before the R5 was loaded again is
\* never queued for submission: miner_init stops and clears every instance before
\* the interrupt is enabled.
NoResultFromEarlierBoot ==
    \A k \in DOMAIN g_result_queue : g_result_queue[k].result.boot = boot

\* While g_irq_masked says that the sources are masked, none of them interrupts:
\* otherwise miner_irq_handler returns with its level-sensitive source still high
\* and no task runs again.
NoInterruptStorm == irq_installed /\ g_irq_masked => ~IrqLine

\* The job queued last is picked up, as long as the handler does not storm.
JobPickedUp == []NoInterruptStorm => (g_job_queue # <<>> ~> g_job_queue = <<>>)

\* A result in a result register is read (or cleared) in the end, as long as the
\* handler does not storm.
ResultServed ==
    []NoInterruptStorm => \A i \in Inst : result[i] # NoResult ~> result[i] = NoResult

\* A queued result is tagged with the job whose header was hashed.
TaggedWithHashedJob ==
    \A k \in DOMAIN g_result_queue : g_result_queue[k].job = g_result_queue[k].result.job
=============================================================================
