-------------------------- MODULE MinerResultProofs --------------------------
(***************************************************************************)
(* The results of the miner service, for any number of instances, engines, *)
(* jobs, results and restarts: none is delivered twice, and none of before *)
(* a restart of the R5 is queued.                                          *)
(***************************************************************************)
EXTENDS MinerServiceProofs, SequenceTheorems

-----------------------------------------------------------------------------
(***************************************************************************)
(* How results move.  Unless an engine finds one, a FIFO keeps what it     *)
(* holds, loses its head or is emptied, and the result register keeps its  *)
(* result, loses it or takes the head that the FIFO loses.                 *)
(***************************************************************************)
Shift(i) == IF fifo'[i] = fifo[i] THEN 0 ELSE 1

Flow(i) ==
    /\ \A k \in 1 .. Len(fifo'[i]) :
          k + Shift(i) \in 1 .. Len(fifo[i]) /\ fifo'[i][k] = fifo[i][k + Shift(i)]
    /\ \/ result'[i] \in {NoResult, result[i]}
       \/ fifo[i] # <<>> /\ Shift(i) = 1 /\ result'[i] = fifo[i][1]

\* The three ways in which a step changes the FIFO and the register of an instance.
LEMMA FlowsFrom ==
  ASSUME PlTypeOK, NEW i \in Inst,
         \/ fifo'[i] = fifo[i] /\ result'[i] \in {NoResult, result[i]}
         \/ fifo'[i] = <<>> /\ (result'[i] \in {NoResult, result[i]} \/ (fifo[i] # <<>> /\ result'[i] = Head(fifo[i])))
         \/ fifo[i] # <<>> /\ fifo'[i] = Tail(fifo[i]) /\ result'[i] = Head(fifo[i])
  PROVE  Flow(i)
<1>1. fifo[i] \in Seq(Results) /\ Len(fifo[i]) \in Nat
  BY DEF PlTypeOK
<1>2. CASE fifo'[i] = fifo[i] /\ result'[i] \in {NoResult, result[i]}
  <2>1. Shift(i) = 0
    BY <1>2 DEF Shift
  <2>2. \A k \in 1 .. Len(fifo[i]) : k + 0 \in 1 .. Len(fifo[i]) /\ k + 0 = k
    BY <1>1
  <2> QED  BY <1>2, <2>1, <2>2 DEF Flow
<1>3. CASE fifo'[i] = <<>> /\ (result'[i] \in {NoResult, result[i]} \/ (fifo[i] # <<>> /\ result'[i] = Head(fifo[i])))
  <2>1. 1 .. Len(fifo'[i]) = {}
    BY <1>3
  <2>2. fifo[i] # <<>> => Shift(i) = 1 /\ Head(fifo[i]) = fifo[i][1]
    BY <1>1, <1>3 DEF Shift
  <2> QED  BY <1>3, <2>1, <2>2 DEF Flow
<1>4. CASE fifo[i] # <<>> /\ fifo'[i] = Tail(fifo[i]) /\ result'[i] = Head(fifo[i])
  <2>1. /\ Len(fifo[i]) > 0 /\ Head(fifo[i]) = fifo[i][1] /\ Len(Tail(fifo[i])) = Len(fifo[i]) - 1
        /\ \A k \in 1 .. Len(Tail(fifo[i])) : Tail(fifo[i])[k] = fifo[i][k + 1]
    <3>1. fifo[i] # <<>>
      BY <1>4
    <3>2. /\ Len(Tail(fifo[i])) = Len(fifo[i]) - 1
          /\ \A k \in 1 .. Len(Tail(fifo[i])) : Tail(fifo[i])[k] = fifo[i][k + 1]
      BY <1>1, <3>1, HeadTailProperties
    <3> QED  BY <1>1, <3>1, <3>2
  <2>2. fifo'[i] # fifo[i]
    <3>1. Len(fifo'[i]) = Len(fifo[i]) - 1
      BY <1>4, <2>1, Zenon
    <3>2. Len(fifo[i]) # Len(fifo[i]) - 1
      BY <1>1
    <3> QED  BY <3>1, <3>2, Zenon
  <2>3. Shift(i) = 1
    BY <2>2 DEF Shift
  <2>4. \A k \in 1 .. Len(fifo'[i]) : k + 1 \in 1 .. Len(fifo[i])
    BY <1>1, <1>4, <2>1
  <2> QED  BY <1>4, <2>1, <2>3, <2>4 DEF Flow
<1> QED  BY <1>2, <1>3, <1>4

LEMMA StillFlows == ASSUME PlTypeOK, NEW i \in Inst, fifo' = fifo, result' = result PROVE Flow(i)
BY FlowsFrom

\* Register writes, and the steps of the logic other than a new result.
LEMMA WritesFlow ==
  ASSUME PlTypeOK, NEW i \in Inst, NEW j \in Inst
  PROVE  /\ \A S \in SUBSET Engines, b \in 0 .. MaxBoots : WriteStart(j, S, b) => Flow(i)
         /\ WriteStop(j) => Flow(i)
         /\ WriteClear(j) => Flow(i)
         /\ \A c \in BOOLEAN : WriteResultStatus(j, c) => Flow(i)
         /\ CaptureResult(j) => Flow(i)
<1>0. fifo \in [Inst -> Seq(Results)] /\ result \in [Inst -> Results \cup {NoResult}]
  BY DEF PlTypeOK
<1>1. ASSUME NEW x, NEW y, fifo' = [fifo EXCEPT ![j] = x], result' = [result EXCEPT ![j] = y]
      PROVE  /\ i # j => fifo'[i] = fifo[i] /\ result'[i] = result[i]
             /\ i = j => fifo'[i] = x /\ result'[i] = y
  BY <1>0, <1>1
<1>2. Captured(j) = NoResult \/ (fifo[j] # <<>> /\ Captured(j) = Head(fifo[j]))
  BY DEF Captured
\* A write that flushes the FIFO.
<1>3. ASSUME NEW y, FlushFifo(j), result' = [result EXCEPT ![j] = y], y \in {NoResult, result[j], Captured(j)}
      PROVE  Flow(i)
  <2>1. /\ i # j => fifo'[i] = fifo[i] /\ result'[i] = result[i]
        /\ i = j => fifo'[i] = <<>> /\ result'[i] = y
    BY <1>1, <1>3, Zenon DEF FlushFifo
  <2> QED  BY <1>2, <1>3, <2>1, FlowsFrom, Zenon
<1>4. ASSUME NEW S \in SUBSET Engines, NEW b \in 0 .. MaxBoots, WriteStart(j, S, b) PROVE Flow(i)
  BY <1>3, <1>4, Zenon DEF WriteStart
<1>5. ASSUME WriteStop(j) PROVE Flow(i)
  <2>1. PICK y \in {NoResult, result[j], Captured(j)} : result' = [result EXCEPT ![j] = y]
    BY <1>5, Zenon DEF WriteStop
  <2> QED  BY <1>3, <1>5, <2>1, Zenon DEF WriteStop
<1>6. ASSUME WriteClear(j) PROVE Flow(i)
  BY <1>3, <1>6, Zenon DEF WriteClear
<1>7. ASSUME NEW c \in BOOLEAN, WriteResultStatus(j, c) PROVE Flow(i)
  <2>1. CASE result[j] = NoResult /\ fifo[j] # <<>>
    <3>1. fifo' = [fifo EXCEPT ![j] = Tail(fifo[j])] /\ result' = [result EXCEPT ![j] = Head(fifo[j])]
      BY <1>7, <2>1 DEF WriteResultStatus, Captured
    <3>2. /\ i # j => fifo'[i] = fifo[i] /\ result'[i] = result[i]
          /\ i = j => fifo'[i] = Tail(fifo[i]) /\ result'[i] = Head(fifo[i])
      BY <1>1, <3>1, Zenon
    <3> QED  BY <2>1, <3>2, FlowsFrom, Zenon
  <2>2. CASE ~(result[j] = NoResult /\ fifo[j] # <<>>)
    <3>1. fifo' = [fifo EXCEPT ![j] = fifo[j]] /\ result' = [result EXCEPT ![j] = NoResult]
      BY <1>7, <2>2, Zenon DEF WriteResultStatus, Captured
    <3>2. /\ i # j => fifo'[i] = fifo[i] /\ result'[i] = result[i]
          /\ i = j => fifo'[i] = fifo[i] /\ result'[i] = NoResult
      BY <1>1, <3>1, Zenon
    <3> QED  BY <3>2, FlowsFrom, Zenon
  <2> QED  BY <2>1, <2>2
<1>8. ASSUME CaptureResult(j) PROVE Flow(i)
  <2>1. fifo' = [fifo EXCEPT ![j] = Tail(fifo[j])] /\ result' = [result EXCEPT ![j] = Head(fifo[j])] /\ fifo[j] # <<>>
    BY <1>8 DEF CaptureResult
  <2>2. /\ i # j => fifo'[i] = fifo[i] /\ result'[i] = result[i]
        /\ i = j => fifo'[i] = Tail(fifo[i]) /\ result'[i] = Head(fifo[i])
    BY <1>1, <2>1, Zenon
  <2> QED  BY <2>1, <2>2, FlowsFrom, Zenon
<1> QED  BY <1>4, <1>5, <1>6, <1>7, <1>8, Zenon

-----------------------------------------------------------------------------
(* The result queue and what stratum_task has taken.                        *)

QueueSame == g_result_queue' = g_result_queue /\ taken' = taken
QueueEmptied == g_result_queue' = <<>> /\ taken' = taken
QueueReads(i) ==
    /\ w = "drain" /\ result[i] # NoResult /\ result'[i] = NoResult /\ taken' = taken
    /\ g_result_queue' \in {g_result_queue, Append(g_result_queue, [result |-> result[i], job |-> g_active_job])}
QueueTakes ==
    /\ g_result_queue # <<>> /\ g_result_queue' = Tail(g_result_queue)
    /\ taken' = taken \cup {Head(g_result_queue).result.id}

AllFlow == (\A i \in Inst : Flow(i)) /\ found' = found
Finds == \E i \in Inst, S \in SUBSET Engines : \E first \in S : EngineResult(i, S, first)

LEMMA WriteMoves ==
  ASSUME PlTypeOK, NEW j \in Inst
  PROVE  /\ \A S \in SUBSET Engines, b \in 0 .. MaxBoots : WriteStart(j, S, b) => AllFlow
         /\ WriteStop(j) => AllFlow
         /\ WriteClear(j) => AllFlow
         /\ \A c \in BOOLEAN : WriteResultStatus(j, c) => AllFlow
         /\ \A S, c : WriteIrqMask(S, c) => AllFlow
         /\ \A job : WriteJob(job) => AllFlow
         /\ UNCHANGED plVars => AllFlow
<1>1. ASSUME NEW S \in SUBSET Engines, NEW b \in 0 .. MaxBoots, WriteStart(j, S, b) PROVE AllFlow
  BY <1>1, WritesFlow, Zenon DEF AllFlow, WriteStart
<1>2. ASSUME WriteStop(j) PROVE AllFlow
  BY <1>2, WritesFlow, Zenon DEF AllFlow, WriteStop
<1>3. ASSUME WriteClear(j) PROVE AllFlow
  BY <1>3, WritesFlow, Zenon DEF AllFlow, WriteClear
<1>4. ASSUME NEW c \in BOOLEAN, WriteResultStatus(j, c) PROVE AllFlow
  BY <1>4, WritesFlow, Zenon DEF AllFlow, WriteResultStatus
<1>5. ASSUME NEW S, NEW c, WriteIrqMask(S, c) PROVE AllFlow
  BY <1>5, StillFlows, Zenon DEF AllFlow, WriteIrqMask
<1>6. ASSUME NEW job, WriteJob(job) PROVE AllFlow
  BY <1>6, StillFlows, Zenon DEF AllFlow, WriteJob
<1>7. ASSUME UNCHANGED plVars PROVE AllFlow
  BY <1>7, StillFlows, Zenon DEF AllFlow, plVars
<1> QED  BY <1>1, <1>2, <1>3, <1>4, <1>5, <1>6, <1>7, Zenon

LEMMA PlMoves == ASSUME PlTypeOK, PlStep PROVE Finds \/ AllFlow
<1>1. ASSUME NEW j \in Inst, NEW e \in Engines, EngineDone(j, e) PROVE AllFlow
  BY <1>1, StillFlows, Zenon DEF AllFlow, EngineDone
<1>2. ASSUME NEW j \in Inst, CaptureResult(j) PROVE AllFlow
  BY <1>2, WritesFlow, Zenon DEF AllFlow, CaptureResult
<1>3. ASSUME NEW j \in Inst, RangeComplete(j) PROVE AllFlow
  BY <1>3, StillFlows, Zenon DEF AllFlow, RangeComplete
<1> QED  BY <1>1, <1>2, <1>3, Zenon DEF PlStep, Finds

LEMMA NextMoves ==
  ASSUME TypeInv, [Next]_vars
  PROVE  \/ Finds /\ QueueSame
         \/ AllFlow /\ (QueueSame \/ QueueEmptied \/ QueueTakes \/ \E i \in Inst : QueueReads(i))
<1>0. PlTypeOK /\ wi \in Inst /\ si \in Inst /\ ti \in Inst /\ boot \in 0 .. MaxBoots
  BY DEF TypeInv, TypeOK, SwTypeOK
<1>1. CASE Pl
  BY <1>0, <1>1, PlMoves, Zenon DEF Pl, QueueSame, outVars
<1>2. CASE miner_irq_handler
  BY <1>0, <1>2, WriteMoves, Zenon DEF miner_irq_handler, QueueSame, outVars
<1>3. CASE Reload
  BY <1>0, <1>3, WriteMoves, Zenon DEF Reload, QueueEmptied
<1>4. CASE telnet_task
  BY <1>0, <1>4, WriteMoves, ZenonT(60) DEF telnet_task, Command, CommandStep, QueueSame, outVars
<1>5. CASE stratum_task
  BY <1>0, <1>5, WriteMoves, ZenonT(60) DEF stratum_task, Notify, RefillCheck, ServiceClear, SubmitJob,
       TakeResult, QueueSame, QueueTakes, outVars
<1>6. CASE miner_task
  <2>1. CASE ReadResult
    <3>1. QueueReads(wi)
      <4>1. result'[wi] = NoResult
        BY <1>0, <2>1 DEF ReadResult, WriteResultStatus, PlTypeOK
      <4> QED  BY <2>1, <4>1, Zenon DEF ReadResult, QueueReads
    <3> QED  BY <1>0, <2>1, <3>1, WriteMoves, Zenon DEF ReadResult
  <2>2. CASE InitStop \/ InitClear \/ InitUnmask \/ Clear \/ Unmask
    BY <1>0, <2>2, WriteMoves, ZenonT(60) DEF InitStop, InitClear, InitUnmask, Clear, Unmask, QueueSame, outVars
  <2>3. CASE ReceiveJob \/ StartRange \/ ReceiveTimeout \/ TakeSemaphore \/ TakeTimeout \/ ReadNoResult
    BY <1>0, <2>3, WriteMoves, ZenonT(60) DEF ReceiveJob, StartRange, ReceiveTimeout, TakeSemaphore, TakeTimeout,
         ReadNoResult, QueueSame, outVars
  <2> QED  BY <1>6, <2>1, <2>2, <2>3 DEF miner_task
<1>7. CASE UNCHANGED vars
  BY <1>0, <1>7, WriteMoves, Zenon DEF vars, QueueSame, outVars
<1> QED  BY <1>1, <1>2, <1>3, <1>4, <1>5, <1>6, <1>7 DEF Next

-----------------------------------------------------------------------------
(***************************************************************************)
(* No result is in two places.  FId, RId and QId are the ids in the FIFOs, *)
(* the result registers and the result queue.                              *)
(***************************************************************************)
FId(i, k) == fifo[i][k].id
RId(i) == result[i].id
QId(k) == g_result_queue[k].result.id
InFifo(i) == 1 .. Len(fifo[i])
Held == {i \in Inst : result[i] # NoResult}
Queued == 1 .. Len(g_result_queue)

\* Ids are given out in order, and what stratum_task has taken is gone.
KnownIds ==
    /\ \A i \in Inst : \A k \in InFifo(i) : FId(i, k) \in 1 .. found /\ FId(i, k) \notin taken
    /\ \A i \in Held : RId(i) \in 1 .. found /\ RId(i) \notin taken
    /\ \A k \in Queued : QId(k) \in 1 .. found /\ QId(k) \notin taken
    /\ taken \subseteq 1 .. found

DistinctIds ==
    /\ \A i, j \in Inst : \A k \in InFifo(i), l \in InFifo(j) : FId(i, k) = FId(j, l) => i = j /\ k = l
    /\ \A i \in Inst, j \in Held : \A k \in InFifo(i) : FId(i, k) # RId(j)
    /\ \A i, j \in Held : RId(i) = RId(j) => i = j
    /\ \A i \in Inst, l \in Queued : \A k \in InFifo(i) : FId(i, k) # QId(l)
    /\ \A i \in Held, l \in Queued : RId(i) # QId(l)
    /\ \A k, l \in Queued : QId(k) = QId(l) => k = l

DupInv == KnownIds /\ DistinctIds

\* The invariant says that no id is at two places.
LEMMA DupInvSuffices == DupInv => NoDuplicateResult
<1> SUFFICES ASSUME DupInv, NEW p \in Places, IdAt(p) # 0
             PROVE  /\ IdAt(p) \notin taken
                    /\ \A q \in Places : IdAt(q) = IdAt(p) => q = p
  BY DEF NoDuplicateResult
<1>1. ASSUME NEW q \in Places, IdAt(q) # 0
      PROVE  \/ \E i \in Inst : \E k \in InFifo(i) : q = <<"fifo", i, k>> /\ IdAt(q) = FId(i, k)
             \/ \E i \in Held : q = <<"register", i, 1>> /\ IdAt(q) = RId(i)
             \/ \E k \in Queued : q = <<"queue", 0, k>> /\ IdAt(q) = QId(k)
  <2>1. CASE \E i \in Inst, k \in 1 .. FifoDepth : q = <<"fifo", i, k>>
    <3>1. PICK i \in Inst, k \in 1 .. FifoDepth : q = <<"fifo", i, k>>
      BY <2>1
    <3>2. k <= Len(fifo[i]) /\ IdAt(q) = FId(i, k)
      BY <1>1, <3>1 DEF IdAt, FId
    <3> QED  BY <3>1, <3>2 DEF InFifo
  <2>2. CASE \E i \in Inst : q = <<"register", i, 1>>
    <3>1. PICK i \in Inst : q = <<"register", i, 1>>
      BY <2>2
    <3>2. result[i] # NoResult /\ IdAt(q) = RId(i)
      BY <1>1, <3>1 DEF IdAt, RId
    <3> QED  BY <3>1, <3>2 DEF Held
  <2>3. CASE \E k \in 1 .. ResultQueueDepth : q = <<"queue", 0, k>>
    <3>1. PICK k \in 1 .. ResultQueueDepth : q = <<"queue", 0, k>>
      BY <2>3
    <3>2. k <= Len(g_result_queue) /\ IdAt(q) = QId(k)
      BY <1>1, <3>1 DEF IdAt, QId
    <3> QED  BY <3>1, <3>2 DEF Queued
  <2> QED  BY <1>1, <2>1, <2>2, <2>3 DEF Places
<1> DEFINE In(q) == \E i \in Inst : \E k \in InFifo(i) : q = <<"fifo", i, k>> /\ IdAt(q) = FId(i, k)
           At(q) == \E i \in Held : q = <<"register", i, 1>> /\ IdAt(q) = RId(i)
           On(q) == \E k \in Queued : q = <<"queue", 0, k>> /\ IdAt(q) = QId(k)
<1>2. In(p) \/ At(p) \/ On(p)
  BY <1>1
<1>3. IdAt(p) \notin taken
  BY <1>2 DEF DupInv, KnownIds
<1>4. ASSUME NEW q \in Places, IdAt(q) = IdAt(p) PROVE q = p
  <2>0. (In(q) \/ At(q) \/ On(q)) /\ DistinctIds
    BY <1>1, <1>4 DEF DupInv
  <2>1. CASE In(p)
    <3>1. PICK i \in Inst : \E k \in InFifo(i) : p = <<"fifo", i, k>> /\ IdAt(p) = FId(i, k)
      BY <2>1
    <3>2. PICK k \in InFifo(i) : p = <<"fifo", i, k>> /\ IdAt(p) = FId(i, k)
      BY <3>1
    <3> QED  BY <1>4, <2>0, <3>2 DEF DistinctIds, Held
  <2>2. CASE At(p)
    <3>1. PICK i \in Held : p = <<"register", i, 1>> /\ IdAt(p) = RId(i)
      BY <2>2
    <3> QED  BY <1>4, <2>0, <3>1 DEF DistinctIds
  <2>3. CASE On(p)
    <3>1. PICK k \in Queued : p = <<"queue", 0, k>> /\ IdAt(p) = QId(k)
      BY <2>3
    <3> QED  BY <1>4, <2>0, <3>1 DEF DistinctIds
  <2> QED  BY <1>2, <2>1, <2>2, <2>3
<1> QED  BY <1>3, <1>4

\* Where the ids in an instance come from when no result is found.
PlOrigins ==
    /\ \A i \in Inst : Shift(i) \in {0, 1}
    /\ \A i \in Inst : \A k \in InFifo(i)' : k \in Nat \ {0} /\ k + Shift(i) \in InFifo(i) /\ FId(i, k)' = FId(i, k + Shift(i))
    /\ \A i \in Held' : i \in Inst /\ (\/ i \in Held /\ RId(i)' = RId(i)
                                       \/ 1 \in InFifo(i) /\ Shift(i) = 1 /\ RId(i)' = FId(i, 1))

LEMMA FlowOrigins == ASSUME PlTypeOK, AllFlow PROVE PlOrigins
<1>1. ASSUME NEW i \in Inst PROVE Shift(i) \in {0, 1}
  BY DEF Shift
<1>2. ASSUME NEW i \in Inst, NEW k \in InFifo(i)'
      PROVE  k \in Nat \ {0} /\ k + Shift(i) \in InFifo(i) /\ FId(i, k)' = FId(i, k + Shift(i))
  <2>1. k \in 1 .. Len(fifo'[i])
    BY <1>2 DEF InFifo
  <2>2. k + Shift(i) \in 1 .. Len(fifo[i]) /\ fifo'[i][k] = fifo[i][k + Shift(i)]
    BY <2>1 DEF AllFlow, Flow
  <2> QED  BY <2>1, <2>2 DEF InFifo, FId
<1>3. ASSUME NEW i \in Held'
      PROVE  i \in Inst /\ (\/ i \in Held /\ RId(i)' = RId(i)
                            \/ 1 \in InFifo(i) /\ Shift(i) = 1 /\ RId(i)' = FId(i, 1))
  <2>1. i \in Inst /\ result'[i] # NoResult
    BY <1>3 DEF Held
  <2>2. CASE result'[i] \in {NoResult, result[i]}
    BY <2>1, <2>2 DEF Held, RId
  <2>3. CASE fifo[i] # <<>> /\ Shift(i) = 1 /\ result'[i] = fifo[i][1]
    <3>1. fifo[i] \in Seq(Results)
      BY <2>1 DEF PlTypeOK
    <3>2. 1 \in 1 .. Len(fifo[i])
      BY <2>3, <3>1
    <3> QED  BY <2>1, <2>3, <3>2 DEF InFifo, FId, RId
  <2> QED  BY <2>1, <2>2, <2>3 DEF AllFlow, Flow
<1> QED  BY <1>1, <1>2, <1>3 DEF PlOrigins

\* Within the instances ids stay known and distinct.
LEMMA PlStaysDistinct ==
  ASSUME DupInv, PlOrigins, found' = found
  PROVE  /\ \A i, j \in Inst : \A k \in InFifo(i)', l \in InFifo(j)' : FId(i, k)' = FId(j, l)' => i = j /\ k = l
         /\ \A i \in Inst, j \in Held' : \A k \in InFifo(i)' : FId(i, k)' # RId(j)'
         /\ \A i, j \in Held' : RId(i)' = RId(j)' => i = j
         /\ \A i \in Inst : \A k \in InFifo(i)' : FId(i, k)' \in 1 .. found' /\ FId(i, k)' \notin taken
         /\ \A i \in Held' : RId(i)' \in 1 .. found' /\ RId(i)' \notin taken
         /\ \A i \in Inst, l \in Queued : \A k \in InFifo(i)' : FId(i, k)' # QId(l)
         /\ \A i \in Held', l \in Queued : RId(i)' # QId(l)
<1>1. ASSUME NEW i \in Inst, NEW j \in Inst, NEW k \in InFifo(i)', NEW l \in InFifo(j)', FId(i, k)' = FId(j, l)'
      PROVE  i = j /\ k = l
  <2>1. /\ k + Shift(i) \in InFifo(i) /\ FId(i, k)' = FId(i, k + Shift(i))
        /\ l + Shift(j) \in InFifo(j) /\ FId(j, l)' = FId(j, l + Shift(j))
    BY DEF PlOrigins
  <2>0. \A m \in InFifo(i), n \in InFifo(j) : FId(i, m) = FId(j, n) => i = j /\ m = n
    BY DEF DupInv, DistinctIds
  <2>2. i = j /\ k + Shift(i) = l + Shift(j)
    BY <1>1, <2>0, <2>1, Zenon
  <2>3. k \in Nat /\ l \in Nat /\ Shift(i) \in {0, 1}
    BY DEF PlOrigins
  <2> QED  BY <2>2, <2>3
<1>2. ASSUME NEW i \in Inst, NEW j \in Held', NEW k \in InFifo(i)' PROVE FId(i, k)' # RId(j)'
  <2>1. k \in Nat \ {0} /\ k + Shift(i) \in InFifo(i) /\ FId(i, k)' = FId(i, k + Shift(i))
    BY DEF PlOrigins
  <2>2. CASE j \in Held /\ RId(j)' = RId(j)
    BY <2>1, <2>2 DEF DupInv, DistinctIds
  <2>3. CASE j \in Inst /\ 1 \in InFifo(j) /\ Shift(j) = 1 /\ RId(j)' = FId(j, 1)
    <3>1. i = j => k + Shift(i) # 1
      BY <2>1, <2>3
    <3> QED  BY <2>1, <2>3, <3>1 DEF DupInv, DistinctIds
  <2> QED  BY <2>2, <2>3 DEF PlOrigins
<1>3. ASSUME NEW i \in Held', NEW j \in Held', RId(i)' = RId(j)' PROVE i = j
  <2>1. /\ i \in Inst /\ ((i \in Held /\ RId(i)' = RId(i)) \/ (1 \in InFifo(i) /\ RId(i)' = FId(i, 1)))
        /\ j \in Inst /\ ((j \in Held /\ RId(j)' = RId(j)) \/ (1 \in InFifo(j) /\ RId(j)' = FId(j, 1)))
    BY DEF PlOrigins
  <2> QED  BY <1>3, <2>1 DEF DupInv, DistinctIds
<1>4. \A i \in Inst : \A k \in InFifo(i)' :
         /\ FId(i, k)' \in 1 .. found' /\ FId(i, k)' \notin taken
         /\ \A l \in Queued : FId(i, k)' # QId(l)
  BY DEF PlOrigins, DupInv, KnownIds, DistinctIds
<1>5. \A i \in Held' : /\ RId(i)' \in 1 .. found' /\ RId(i)' \notin taken
                       /\ \A l \in Queued : RId(i)' # QId(l)
  BY DEF PlOrigins, DupInv, KnownIds, DistinctIds
<1> QED  BY <1>1, <1>2, <1>3, <1>4, <1>5, Zenon

\* What has to hold of the result queue after a step.
QueueKept ==
    /\ \A k \in Queued' : QId(k)' \in 1 .. found /\ QId(k)' \notin taken'
    /\ taken' \subseteq 1 .. found
    /\ \A k, l \in Queued' : QId(k)' = QId(l)' => k = l
    /\ \A i \in Inst : \A k \in InFifo(i)' : FId(i, k)' \notin taken' /\ \A l \in Queued' : FId(i, k)' # QId(l)'
    /\ \A i \in Held' : RId(i)' \notin taken' /\ \A l \in Queued' : RId(i)' # QId(l)'

LEMMA QueueStaysDistinct ==
  ASSUME DupInv, PlOrigins, found' = found, NEW R, g_result_queue \in Seq(R),
         QueueSame \/ QueueEmptied \/ QueueTakes \/ \E i \in Inst : QueueReads(i)
  PROVE  QueueKept
<1>1. /\ \A i \in Inst : \A k \in InFifo(i)' : FId(i, k)' \notin taken /\ \A l \in Queued : FId(i, k)' # QId(l)
      /\ \A i \in Held' : RId(i)' \notin taken /\ \A l \in Queued : RId(i)' # QId(l)
  BY PlStaysDistinct, Zenon
<1>2. /\ \A k \in Queued : QId(k) \in 1 .. found /\ QId(k) \notin taken
      /\ taken \subseteq 1 .. found
      /\ \A k, l \in Queued : QId(k) = QId(l) => k = l
  BY DEF DupInv, KnownIds, DistinctIds
<1>3. CASE QueueSame
  <2>1. Queued' = Queued /\ taken' = taken /\ \A k \in Queued : QId(k)' = QId(k)
    BY <1>3 DEF QueueSame, Queued, QId
  <2> QED  BY <1>1, <1>2, <2>1 DEF QueueKept
<1>4. CASE QueueEmptied
  <2>1. Queued' = {} /\ taken' = taken
    BY <1>4 DEF QueueEmptied, Queued
  <2> QED  BY <1>1, <1>2, <2>1 DEF QueueKept
<1>5. CASE QueueTakes
  <2>1. /\ Tail(g_result_queue) \in Seq(R) /\ Len(Tail(g_result_queue)) = Len(g_result_queue) - 1
        /\ \A k \in 1 .. Len(Tail(g_result_queue)) : Tail(g_result_queue)[k] = g_result_queue[k + 1]
        /\ Len(g_result_queue) \in Nat \ {0}
    BY <1>5, HeadTailProperties DEF QueueTakes
  <2>2. \A k \in Queued' : k \in Int /\ k + 1 \in Queued /\ k + 1 # 1 /\ QId(k)' = QId(k + 1)
    BY <1>5, <2>1 DEF QueueTakes, Queued, QId
  <2>3. 1 \in Queued /\ taken' = taken \cup {QId(1)}
    BY <1>5, <2>1 DEF QueueTakes, Queued, QId
  <2>4. \A k \in Queued' : QId(k)' \in 1 .. found /\ QId(k)' \notin taken'
    BY <1>2, <2>2, <2>3
  <2>5. taken' \subseteq 1 .. found
    BY <1>2, <2>3, Zenon
  <2>6. ASSUME NEW k \in Queued', NEW l \in Queued', QId(k)' = QId(l)' PROVE k = l
    <3>1. k + 1 = l + 1
      BY <1>2, <2>2, <2>6, Zenon
    <3> QED  BY <2>2, <3>1
  <2>7. \A i \in Inst : \A k \in InFifo(i)' : FId(i, k)' \notin taken' /\ \A l \in Queued' : FId(i, k)' # QId(l)'
    BY <1>1, <2>2, <2>3
  <2>8. \A i \in Held' : RId(i)' \notin taken' /\ \A l \in Queued' : RId(i)' # QId(l)'
    BY <1>1, <2>2, <2>3
  <2> QED  BY <2>4, <2>5, <2>6, <2>7, <2>8 DEF QueueKept
<1>6. ASSUME NEW i \in Inst, QueueReads(i) PROVE QueueKept
  <2>1. CASE g_result_queue' = g_result_queue
    <3>1. QueueSame
      BY <1>6, <2>1 DEF QueueReads, QueueSame
    <3> QED  BY <1>3, <3>1
  <2>2. CASE g_result_queue' = Append(g_result_queue, [result |-> result[i], job |-> g_active_job])
    <3> DEFINE n == Len(g_result_queue)
    <3>1. /\ i \in Held /\ i \notin Held' /\ taken' = taken
      BY <1>6 DEF QueueReads, Held
    <3>2. ASSUME NEW k \in Queued' PROVE (k \in Queued /\ QId(k)' = QId(k)) \/ (k = n + 1 /\ QId(k)' = RId(i))
      BY <2>2 DEF Queued, QId, RId
    <3>3. RId(i) \in 1 .. found /\ RId(i) \notin taken /\ \A l \in Queued : RId(i) # QId(l)
      BY <3>1 DEF DupInv, KnownIds, DistinctIds
    <3>4. \A j \in Inst : \A k \in InFifo(j)' : FId(j, k)' # RId(i)
      BY <3>1 DEF PlOrigins, DupInv, DistinctIds
    <3>5. \A j \in Held' : RId(j)' # RId(i)
      BY <3>1 DEF PlOrigins, DupInv, DistinctIds
    <3> HIDE DEF n
    <3>6. \A k \in Queued' : QId(k)' \in 1 .. found /\ QId(k)' \notin taken'
      BY <1>2, <3>1, <3>2, <3>3
    <3>7. \A k, l \in Queued' : QId(k)' = QId(l)' => k = l
      BY <1>2, <3>2, <3>3
    <3>8. \A j \in Inst : \A k \in InFifo(j)' : FId(j, k)' \notin taken' /\ \A l \in Queued' : FId(j, k)' # QId(l)'
      BY <1>1, <3>1, <3>2, <3>4
    <3>9. \A j \in Held' : RId(j)' \notin taken' /\ \A l \in Queued' : RId(j)' # QId(l)'
      BY <1>1, <3>1, <3>2, <3>5
    <3> QED  BY <1>2, <3>1, <3>6, <3>7, <3>8, <3>9 DEF QueueKept
  <2> QED  BY <1>6, <2>1, <2>2 DEF QueueReads
<1> QED  BY <1>3, <1>4, <1>5, <1>6

LEMMA FlowKeepsDupInv ==
  ASSUME DupInv, PlOrigins, found' = found, NEW R, g_result_queue \in Seq(R),
         QueueSame \/ QueueEmptied \/ QueueTakes \/ \E i \in Inst : QueueReads(i)
  PROVE  DupInv'
<1>1. QueueKept
  BY QueueStaysDistinct, Zenon
<1>2. KnownIds'
  BY <1>1, PlStaysDistinct DEF QueueKept, KnownIds
<1>3. DistinctIds'
  BY <1>1, PlStaysDistinct DEF QueueKept, DistinctIds
<1> QED  BY <1>2, <1>3 DEF DupInv

\* A result that is found gets a new id.
LEMMA FindsKeepsDupInv ==
  ASSUME PlTypeOK, DupInv, Finds, QueueSame
  PROVE  DupInv'
<1>1. PICK i \in Inst, S \in SUBSET Engines : \E first \in S : EngineResult(i, S, first)
  BY DEF Finds
<1>2. PICK first \in S : EngineResult(i, S, first)
  BY <1>1
<1>3. /\ found \in Nat /\ found' = found + 1 /\ 1 .. found \subseteq 1 .. found' /\ found' \in 1 .. found'
      /\ found' \notin 1 .. found
  BY <1>2 DEF EngineResult, PlTypeOK
<1>4. Held' = Held /\ \A j \in Held : RId(j)' = RId(j)
  BY <1>2 DEF EngineResult, Held, RId
<1>5. Queued' = Queued /\ taken' = taken /\ \A k \in Queued : QId(k)' = QId(k)
  BY DEF QueueSame, Queued, QId
<1> DEFINE n == Len(fifo[i])
<1>6. ASSUME NEW j \in Inst, NEW k \in InFifo(j)'
      PROVE  (k \in InFifo(j) /\ FId(j, k)' = FId(j, k)) \/ (j = i /\ k = n + 1 /\ FId(j, k)' = found')
  <2>1. fifo \in [Inst -> Seq(Results)] /\ fifo[i] \in Seq(Results)
    BY DEF PlTypeOK
  <2>2. CASE fifo'[j] = fifo[j]
    BY <1>6, <2>2, SMTT(60) DEF InFifo, FId
  <2>3. CASE fifo'[j] # fifo[j]
    <3>1. PICK r : r.id = found' /\ j = i /\ fifo'[i] = Append(fifo[i], r)
      BY <1>2, <2>1, <2>3 DEF EngineResult
    <3>2. /\ Len(Append(fifo[i], r)) = n + 1 /\ Append(fifo[i], r)[n + 1] = r
          /\ \A m \in 1 .. n : Append(fifo[i], r)[m] = fifo[i][m]
      BY <2>1
    <3>3. k \in 1 .. n \/ k = n + 1
      BY <1>6, <2>1, <3>1, <3>2 DEF InFifo
    <3> QED  BY <3>1, <3>2, <3>3, SMTT(60) DEF InFifo, FId
  <2> QED  BY <2>2, <2>3
<1> HIDE DEF n
<1>7. KnownIds'
  <2>1. \A j \in Inst : \A k \in InFifo(j)' : FId(j, k)' \in 1 .. found' /\ FId(j, k)' \notin taken'
    BY <1>3, <1>5, <1>6, Zenon DEF DupInv, KnownIds
  <2>2. \A j \in Held' : RId(j)' \in 1 .. found' /\ RId(j)' \notin taken'
    BY <1>3, <1>4, <1>5, Zenon DEF DupInv, KnownIds
  <2>3. \A k \in Queued' : QId(k)' \in 1 .. found' /\ QId(k)' \notin taken'
    BY <1>3, <1>5, Zenon DEF DupInv, KnownIds
  <2>4. taken' \subseteq 1 .. found'
    BY <1>3, <1>5, Zenon DEF DupInv, KnownIds
  <2> QED  BY <2>1, <2>2, <2>3, <2>4 DEF KnownIds
<1>8. DistinctIds'
  <2>0. /\ \A j \in Inst : \A k \in InFifo(j) : FId(j, k) # found'
        /\ \A j \in Held : RId(j) # found'
        /\ \A k \in Queued : QId(k) # found'
    BY <1>3, Zenon DEF DupInv, KnownIds
  <2>1. ASSUME NEW j \in Inst, NEW h \in Inst, NEW k \in InFifo(j)', NEW l \in InFifo(h)', FId(j, k)' = FId(h, l)'
        PROVE  j = h /\ k = l
    BY <1>6, <2>0, <2>1 DEF DupInv, DistinctIds
  <2>2. \A j \in Inst, h \in Held' : \A k \in InFifo(j)' : FId(j, k)' # RId(h)'
    BY <1>4, <1>6, <2>0 DEF DupInv, DistinctIds
  <2>3. \A j, h \in Held' : RId(j)' = RId(h)' => j = h
    BY <1>4 DEF DupInv, DistinctIds
  <2>4. \A j \in Inst, l \in Queued' : \A k \in InFifo(j)' : FId(j, k)' # QId(l)'
    BY <1>5, <1>6, <2>0 DEF DupInv, DistinctIds
  <2>5. \A j \in Held', l \in Queued' : RId(j)' # QId(l)'
    BY <1>4, <1>5 DEF DupInv, DistinctIds
  <2>6. \A k, l \in Queued' : QId(k)' = QId(l)' => k = l
    BY <1>5 DEF DupInv, DistinctIds
  <2> QED  BY <2>1, <2>2, <2>3, <2>4, <2>5, <2>6 DEF DistinctIds
<1> QED  BY <1>7, <1>8 DEF DupInv

LEMMA DupStep == TypeInv /\ DupInv /\ [Next]_vars => DupInv'
<1> SUFFICES ASSUME TypeInv, DupInv, [Next]_vars PROVE DupInv'
  OBVIOUS
<1>1. PlTypeOK /\ g_result_queue \in Seq(Events)
  BY DEF TypeInv, TypeOK, SwTypeOK
<1>2. CASE Finds /\ QueueSame
  BY <1>1, <1>2, FindsKeepsDupInv
<1>3. CASE AllFlow /\ (QueueSame \/ QueueEmptied \/ QueueTakes \/ \E i \in Inst : QueueReads(i))
  <2>1. PlOrigins /\ found' = found
    BY <1>1, <1>3, FlowOrigins DEF AllFlow
  <2> QED  BY <1>1, <1>3, <2>1, FlowKeepsDupInv, Zenon
<1> QED  BY <1>2, <1>3, NextMoves, Zenon

\* A candidate nonce that the hardware reports once reaches stratum_task at most
\* once: pushing it, popping the FIFO into RESULT_NONCE, reading it in
\* miner_read_result and queueing it never leave it at two places.
THEOREM ResultsDeliveredOnce == Spec => []NoDuplicateResult
<1>1. Init => DupInv
  BY DEF Init, PlInit, SwInit, DupInv, KnownIds, DistinctIds, InFifo, Held, Queued
<1>2. TypeInv /\ [Next]_vars => TypeInv'
  BY WorkerTypes, StratumTypes, TelnetTypes, OtherTypes DEF Next
<1> QED  BY <1>1, <1>2, TypeInit, DupStep, DupInvSuffices, PTL DEF Spec

-----------------------------------------------------------------------------
(***************************************************************************)
(* No result of an earlier boot is queued.  After a restart of the R5 the  *)
(* instances hold old work until miner_stop has reached them, and their    *)
(* result registers old results until miner_clear has.                     *)
(***************************************************************************)
EngFresh(i) == \A e \in Engines : engine[i][e] # NoJob => engine[i][e].boot = boot
FifoFresh(i) == \A k \in InFifo(i) : fifo[i][k].boot = boot
RegFresh(i) == result[i] # NoResult => result[i].boot = boot

Stopped(i) == w = "init_stop" => i < wi
Emptied(i) == w # "init_stop" /\ (w = "init_clear" => i < wi) /\ (w = "init_status" => i <= wi)

BootInv ==
    /\ \A i \in Inst : Stopped(i) => EngFresh(i) /\ FifoFresh(i)
    /\ \A i \in Inst : Emptied(i) => RegFresh(i)
    /\ NoResultFromEarlierBoot

\* An engine goes on, goes idle or starts with the boot of now.
EngFlow(i) == \A e \in Engines : engine'[i][e] \in {NoJob, engine[i][e]} \/ engine'[i][e].boot = boot
EngsFlow == \A i \in Inst : EngFlow(i)

LEMMA EnginesFlow == ASSUME TypeInv, [Next]_vars PROVE EngsFlow
<1>0. PlTypeOK /\ wi \in Inst /\ si \in Inst /\ ti \in Inst /\ engine \in [Inst -> [Engines -> Work \cup {NoJob}]]
  BY Zenon DEF TypeInv, TypeOK, SwTypeOK, PlTypeOK
<1>1. ASSUME UNCHANGED engine PROVE EngsFlow
  BY <1>1, SMTT(60) DEF EngsFlow, EngFlow
<1>2. ASSUME NEW j \in Inst, NEW S, WriteStart(j, S, boot) PROVE EngsFlow
  BY <1>0, <1>2 DEF WriteStart, EngsFlow, EngFlow
<1>3. ASSUME NEW j \in Inst, WriteStop(j) PROVE EngsFlow
  BY <1>0, <1>3 DEF WriteStop, EngsFlow, EngFlow
<1>4. ASSUME NEW j \in Inst, NEW e \in Engines, EngineDone(j, e) PROVE EngsFlow
  BY <1>0, <1>4 DEF EngineDone, EngsFlow, EngFlow
<1>5. ASSUME NEW j, NEW c, WriteClear(j) \/ WriteResultStatus(j, c) \/ WriteIrqMask(j, c) \/ WriteJob(j) \/ UNCHANGED plVars
      PROVE EngsFlow
  BY <1>1, <1>5, Zenon DEF WriteClear, WriteResultStatus, WriteIrqMask, WriteJob, plVars
<1>6. CASE Pl
  BY <1>1, <1>4, <1>6, Zenon DEF Pl, PlStep, EngineResult, CaptureResult, RangeComplete
<1>7. CASE miner_irq_handler \/ Reload
  BY <1>5, <1>7, Zenon DEF miner_irq_handler, Reload
<1>8. CASE telnet_task
  BY <1>0, <1>2, <1>3, <1>5, <1>8, ZenonT(60) DEF telnet_task, Command, CommandStep
<1>9. CASE stratum_task
  BY <1>5, <1>9, ZenonT(60) DEF stratum_task, Notify, RefillCheck, ServiceClear, SubmitJob, TakeResult
<1>10. CASE miner_task
  <2>1. CASE InitStop \/ InitClear \/ InitUnmask \/ StartRange \/ ReceiveJob
    BY <1>0, <1>2, <1>3, <1>5, <2>1, ZenonT(60) DEF InitStop, InitClear, InitUnmask, StartRange, ReceiveJob
  <2>2. CASE ReceiveTimeout \/ TakeSemaphore \/ TakeTimeout \/ ReadResult \/ ReadNoResult \/ Clear \/ Unmask
    BY <1>5, <2>2, ZenonT(60) DEF ReceiveTimeout, TakeSemaphore, TakeTimeout, ReadResult, ReadNoResult, Clear, Unmask
  <2> QED  BY <1>10, <2>1, <2>2 DEF miner_task
<1>11. CASE UNCHANGED vars
  BY <1>5, <1>11, Zenon DEF vars
<1> QED  BY <1>6, <1>7, <1>8, <1>9, <1>10, <1>11, Zenon DEF Next

\* The engines, the FIFO and the register of an instance stay fresh.
LEMMA PlStaysFresh ==
  ASSUME PlTypeOK, Finds \/ AllFlow, EngsFlow, boot' = boot, NEW i \in Inst, EngFresh(i), FifoFresh(i)
  PROVE  EngFresh(i)' /\ FifoFresh(i)' /\ (RegFresh(i) => RegFresh(i)')
<1>1. EngFresh(i)'
  BY DEF EngFresh, EngsFlow, EngFlow
<1>2. CASE AllFlow
  <2>1. Flow(i)
    BY <1>2 DEF AllFlow
  <2>2. FifoFresh(i)'
    <3>1. ASSUME NEW k \in 1 .. Len(fifo'[i]) PROVE fifo'[i][k].boot = boot
      <4>1. k + Shift(i) \in 1 .. Len(fifo[i]) /\ fifo'[i][k] = fifo[i][k + Shift(i)]
        BY <2>1 DEF Flow
      <4> QED  BY <4>1, ZenonT(60) DEF FifoFresh, InFifo
    <3> QED  BY <3>1, Zenon DEF FifoFresh, InFifo
  <2>3. fifo[i] # <<>> => fifo[i][1].boot = boot
    <3>1. fifo[i] \in Seq(Results)
      BY DEF PlTypeOK
    <3>2. fifo[i] # <<>> => 1 \in 1 .. Len(fifo[i])
      BY <3>1, SMTT(30)
    <3> QED  BY <3>2 DEF FifoFresh, InFifo
  <2>4. RegFresh(i) => RegFresh(i)'
    <3>1. result'[i] \in {NoResult, result[i]} \/ (fifo[i] # <<>> /\ result'[i] = fifo[i][1])
      BY <2>1, Zenon DEF Flow
    <3> QED  BY <2>3, <3>1 DEF RegFresh
  <2> QED  BY <1>1, <2>2, <2>4
<1>3. CASE Finds
  <2>1. PICK j \in Inst, S \in SUBSET Engines : \E first \in S : EngineResult(j, S, first)
    BY <1>3 DEF Finds
  <2>2. PICK first \in S : EngineResult(j, S, first)
    BY <2>1, ZenonT(60)
  <2>3. RegFresh(i) => RegFresh(i)'
    BY <2>2 DEF EngineResult, RegFresh
  <2>4. fifo \in [Inst -> Seq(Results)] /\ fifo[i] \in Seq(Results)
    BY DEF PlTypeOK
  <2>5. CASE fifo'[i] = fifo[i]
    BY <1>1, <2>3, <2>5, Zenon DEF FifoFresh, InFifo
  <2>6. CASE fifo'[i] # fifo[i]
    <3>1. j = i
      BY <2>2, <2>4, <2>6, SMTT(30) DEF EngineResult
    <3>2. PICK r : r.boot = engine[i][first].boot /\ fifo'[i] = Append(fifo[i], r)
      BY <2>2, <2>4, <2>6, <3>1, SMTT(30) DEF EngineResult
    <3>3. r.boot = boot
      BY <2>2, <3>1, <3>2, SMTT(60) DEF EngineResult, EngFresh
    <3>4. /\ Len(Append(fifo[i], r)) = Len(fifo[i]) + 1 /\ Append(fifo[i], r)[Len(fifo[i]) + 1] = r
          /\ \A m \in 1 .. Len(fifo[i]) : Append(fifo[i], r)[m] = fifo[i][m]
      BY <2>4
    <3>5. ASSUME NEW k \in 1 .. Len(fifo'[i]) PROVE fifo'[i][k].boot = boot
      <4>1. k \in 1 .. Len(fifo[i]) \/ k = Len(fifo[i]) + 1
        BY <2>4, <3>2, <3>4
      <4> QED  BY <3>2, <3>3, <3>4, <4>1 DEF FifoFresh, InFifo
    <3> QED  BY <1>1, <2>3, <3>5, ZenonT(60) DEF FifoFresh, InFifo
  <2> QED  BY <1>1, <2>3, <2>5, <2>6
<1> QED  BY <1>2, <1>3

\* Which instances miner_init has stopped and cleared.
LEMMA InitProgress ==
  ASSUME TypeInv, [Next]_vars, boot' = boot, NEW i \in Inst
  PROVE  /\ Stopped(i)' => Stopped(i) \/ WriteStop(i)
         /\ Emptied(i)' => Emptied(i) \/ (Stopped(i) /\ WriteClear(i))
<1>0. wi \in 0 .. NumInst - 1 /\ i \in 0 .. NumInst - 1 /\ NumInst \in Nat /\ boot \in Int
  BY InstAssumption DEF TypeInv, TypeOK, SwTypeOK, Inst
<1>1. CASE UNCHANGED <<w, wi>>
  BY <1>1 DEF Stopped, Emptied
<1>2. CASE w \notin InitPoints
  BY <1>2 DEF Stopped, Emptied, InitPoints
<1>3. CASE InitStop
  BY <1>0, <1>3 DEF InitStop, WLoop, Stopped, Emptied
<1>4. CASE InitClear
  <2>1. CASE w = "init_clear" /\ WriteClear(wi) /\ w' = "init_status" /\ wi' = wi
    BY <1>0, <2>1 DEF Stopped, Emptied
  <2>2. CASE w = "init_status" /\ WLoop("init_clear", "init_unmask")
    BY <1>0, <2>2 DEF WLoop, Stopped, Emptied
  <2> QED  BY <1>4, <2>1, <2>2, Zenon DEF InitClear
<1>5. CASE InitUnmask
  BY <1>5 DEF InitUnmask, Stopped, Emptied
<1>6. CASE miner_task
  <2>1. CASE ReceiveJob \/ StartRange \/ ReceiveTimeout \/ TakeSemaphore \/ TakeTimeout
    BY <1>2, <2>1, Zenon DEF ReceiveJob, StartRange, ReceiveTimeout, TakeSemaphore, TakeTimeout, InitPoints
  <2>2. CASE ReadResult \/ ReadNoResult \/ Clear \/ Unmask
    BY <1>2, <2>2, Zenon DEF ReadResult, ReadNoResult, Clear, Unmask, InitPoints
  <2> QED  BY <1>3, <1>4, <1>5, <1>6, <2>1, <2>2 DEF miner_task
<1>7. CASE Pl \/ miner_irq_handler \/ stratum_task \/ telnet_task \/ UNCHANGED vars
  <2>1. UNCHANGED <<w, wi>>
    BY <1>7, ZenonT(60) DEF Pl, miner_irq_handler, stratum_task, Notify, RefillCheck, ServiceClear, SubmitJob, TakeResult,
         telnet_task, Command, CommandStep, SOnly, TOnly, taskVars, vars
  <2> QED  BY <1>1, <2>1
<1>8. CASE Reload
  BY <1>0, <1>8 DEF Reload
<1> QED  BY <1>6, <1>7, <1>8 DEF Next

LEMMA BootStep == TypeInv /\ BootInv /\ [Next]_vars => BootInv'
<1> SUFFICES ASSUME TypeInv, BootInv, [Next]_vars PROVE BootInv'
  OBVIOUS
<1>0. PlTypeOK /\ g_result_queue \in Seq(Events)
  BY DEF TypeInv, TypeOK, SwTypeOK
<1>1. CASE boot' = boot
  <2>1. EngsFlow /\ (Finds \/ AllFlow)
    BY EnginesFlow, NextMoves, Zenon
  <2>2. ASSUME NEW i \in Inst, Stopped(i)' PROVE EngFresh(i)' /\ FifoFresh(i)'
    <3>1. CASE Stopped(i)
      BY <1>0, <1>1, <2>1, <3>1, PlStaysFresh, Zenon DEF BootInv
    <3>2. CASE WriteStop(i)
      <4>1. engine'[i] = [e \in Engines |-> NoJob] /\ fifo'[i] = <<>>
        BY <1>0, <3>2 DEF WriteStop, FlushFifo, PlTypeOK
      <4>2. EngFresh(i)'
        BY <4>1 DEF EngFresh
      <4>3. FifoFresh(i)'
        BY <4>1 DEF FifoFresh, InFifo
      <4> QED  BY <4>2, <4>3
    <3> QED  BY <1>1, <2>2, <3>1, <3>2, InitProgress, Zenon
  <2>3. ASSUME NEW i \in Inst, Emptied(i)' PROVE RegFresh(i)'
    <3>1. CASE Emptied(i)
      <4>1. Stopped(i)
        BY <3>1 DEF Emptied, Stopped
      <4> QED  BY <1>0, <1>1, <2>1, <3>1, <4>1, PlStaysFresh, Zenon DEF BootInv
    <3>2. CASE Stopped(i) /\ WriteClear(i)
      <4>1. result'[i] = Captured(i)
        BY <1>0, <3>2 DEF WriteClear, PlTypeOK
      <4>2. fifo[i] \in Seq(Results) /\ \A k \in 1 .. Len(fifo[i]) : fifo[i][k].boot = boot
        BY <1>0, <3>2 DEF BootInv, FifoFresh, InFifo, PlTypeOK
      <4>3. fifo[i] # <<>> => Head(fifo[i]).boot = boot
        BY <4>2
      <4> QED  BY <1>1, <4>1, <4>3 DEF RegFresh, Captured
    <3> QED  BY <1>1, <2>3, <3>1, <3>2, InitProgress, Zenon
  <2>4. NoResultFromEarlierBoot'
    <3>1. DOMAIN g_result_queue = 1 .. Len(g_result_queue) /\ \A k \in 1 .. Len(g_result_queue) : g_result_queue[k].result.boot = boot
      BY <1>0 DEF BootInv, NoResultFromEarlierBoot
    <3>2. CASE g_result_queue' \in {g_result_queue, <<>>}
      BY <1>1, <3>1, <3>2 DEF NoResultFromEarlierBoot
    <3>3. CASE QueueTakes
      <4>1. /\ DOMAIN Tail(g_result_queue) = 1 .. Len(Tail(g_result_queue))
            /\ Len(Tail(g_result_queue)) = Len(g_result_queue) - 1 /\ Len(g_result_queue) \in Nat
            /\ \A k \in 1 .. Len(Tail(g_result_queue)) : Tail(g_result_queue)[k] = g_result_queue[k + 1]
        BY <1>0, <3>3, HeadTailProperties DEF QueueTakes
      <4>2. \A k \in DOMAIN Tail(g_result_queue) : Tail(g_result_queue)[k].result.boot = boot
        BY <3>1, <4>1
      <4> QED  BY <1>1, <3>3, <4>2, Zenon DEF QueueTakes, NoResultFromEarlierBoot
    <3>4. ASSUME NEW i \in Inst, QueueReads(i) PROVE NoResultFromEarlierBoot'
      <4> DEFINE ev == [result |-> result[i], job |-> g_active_job]
      <4>1. result[i].boot = boot /\ result[i] \in Results
        BY <1>0, <3>4, SMTT(60) DEF QueueReads, BootInv, Emptied, RegFresh, PlTypeOK
      <4>2. \A k \in DOMAIN Append(g_result_queue, ev) : Append(g_result_queue, ev)[k].result.boot = boot
        BY <1>0, <3>1, <4>1
      <4> HIDE DEF ev
      <4>3. CASE g_result_queue' = Append(g_result_queue, ev)
        BY <1>1, <4>2, <4>3, Zenon DEF NoResultFromEarlierBoot
      <4> QED  BY <3>2, <3>4, <4>3, ZenonT(60) DEF QueueReads, ev
    <3> QED  BY <3>2, <3>3, <3>4, NextMoves, Zenon DEF QueueSame, QueueEmptied
  <2> QED  BY <2>2, <2>3, <2>4, Zenon DEF BootInv
<1>2. CASE Reload
  <2>1. w' = "init_stop" /\ wi' = 0 /\ g_result_queue' = <<>>
    BY <1>2 DEF Reload
  <2>2. \A i \in Inst : ~Stopped(i)' /\ ~Emptied(i)'
    BY <2>1, InstAssumption DEF Inst, Stopped, Emptied
  <2>3. NoResultFromEarlierBoot'
    BY <2>1 DEF NoResultFromEarlierBoot
  <2> QED  BY <2>2, <2>3, Zenon DEF BootInv
<1>3. boot' = boot \/ Reload
  BY ZenonT(60) DEF Next, vars, Pl, miner_irq_handler, stratum_task, Notify, RefillCheck, ServiceClear, SubmitJob, TakeResult,
       telnet_task, Command, CommandStep, miner_task, InitStop, InitClear, InitUnmask, ReceiveJob, StartRange,
       ReceiveTimeout, TakeSemaphore, TakeTimeout, ReadResult, ReadNoResult, Clear, Unmask
<1> QED  BY <1>1, <1>2, <1>3

\* No result found for work of before a restart of the R5 is queued for
\* submission, for any number of instances and engines: miner_init stops and
\* clears every instance before the interrupt is enabled.
THEOREM RestartForgetsOldResults == Spec => []NoResultFromEarlierBoot
<1>1. Init => BootInv
  <2> SUFFICES ASSUME Init PROVE BootInv
    OBVIOUS
  <2>1. w = "init_stop" /\ wi = 0 /\ g_result_queue = <<>>
    BY DEF Init, SwInit
  <2>2. \A i \in Inst : ~Stopped(i) /\ ~Emptied(i)
    BY <2>1, InstAssumption DEF Inst, Stopped, Emptied
  <2> QED  BY <2>1, <2>2 DEF BootInv, NoResultFromEarlierBoot
<1>2. TypeInv /\ [Next]_vars => TypeInv'
  BY WorkerTypes, StratumTypes, TelnetTypes, OtherTypes DEF Next
<1>3. BootInv => NoResultFromEarlierBoot
  BY DEF BootInv
<1> QED  BY <1>1, <1>2, <1>3, TypeInit, BootStep, PTL DEF Spec
=============================================================================
