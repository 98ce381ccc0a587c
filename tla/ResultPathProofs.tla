--------------------------- MODULE ResultPathProofs ---------------------------
(***************************************************************************)
(* Proofs about ResultPath, for any number of engines and any FIFO depth:  *)
(* the ring of the cluster FIFO is a bounded queue, results are captured   *)
(* once and in order and none after a clear, and every loss is reported.   *)
(***************************************************************************)
EXTENDS ResultPath, Sequences, FiniteSetTheorems, WellFoundedInduction, TLAPS

-----------------------------------------------------------------------------
(* The ring: Item(k) is the k-th result from the front.                     *)

Item(k) == mem[(rd_ptr + k) % FIFO_DEPTH]

RingInv ==
    /\ wr_ptr = (rd_ptr + count) % FIFO_DEPTH
    /\ \A k \in 0 .. count - 1 : Item(k) \in Result

LEMMA Wrap ==
  ASSUME NEW r \in Slot, NEW k \in 0 .. FIFO_DEPTH
  PROVE  /\ (r + k) % FIFO_DEPTH = IF r + k < FIFO_DEPTH THEN r + k ELSE (r + k) - FIFO_DEPTH
         /\ (r + k) % FIFO_DEPTH \in Slot
<1>1. FIFO_DEPTH \in Nat \ {0} /\ r \in 0 .. FIFO_DEPTH - 1
  BY PathAssumption DEF Slot
<1> DEFINE a == r + k
           b == FIFO_DEPTH
<1>2. a \in Int /\ b \in Int /\ b > 0 /\ a >= 0 /\ a < 2 * b
  BY <1>1
<1> HIDE DEF a, b
<1>3. a \div b \in Nat /\ a % b \in 0 .. b - 1
  BY <1>2
<1>4. a = b * (a \div b) + (a % b)
  BY <1>2, Z3
<1>5. a \div b >= 2 => b * (a \div b) >= b * 2
  BY <1>2, <1>3
<1>6. a \div b = 0 \/ a \div b = 1
  BY <1>2, <1>3, <1>4, <1>5
<1>7. a % b = IF a < b THEN a ELSE a - b
  BY <1>2, <1>3, <1>4, <1>6
<1>8. a % b \in Slot
  BY <1>3 DEF b, Slot
<1> QED  BY <1>7, <1>8, Zenon DEF a, b

LEMMA Advances == ASSUME NEW p \in Slot PROVE Advance(p) = (p + 1) % FIFO_DEPTH /\ Advance(p) \in Slot
<1>1. FIFO_DEPTH \in Nat \ {0} /\ p \in 0 .. FIFO_DEPTH - 1 /\ 1 \in 0 .. FIFO_DEPTH
  BY PathAssumption DEF Slot
<1>2. (p + 1) % FIFO_DEPTH = IF p + 1 < FIFO_DEPTH THEN p + 1 ELSE (p + 1) - FIFO_DEPTH
  BY <1>1, Wrap
<1> QED  BY <1>1, <1>2 DEF Advance, Slot

Pops == IF do_pop THEN 1 ELSE 0
Pushes == IF do_push THEN 1 ELSE 0

\* A clock of the ring: the front is dropped, stage 2 comes to the back.
LEMMA RingStep ==
  ASSUME PathTypeOK, RingInv, Ring
  PROVE  /\ wr_ptr' \in Slot /\ rd_ptr' \in Slot /\ count' \in 0 .. FIFO_DEPTH
         /\ mem' \in [Slot -> Result \cup {NoResult}]
         /\ Pops \in {0, 1} /\ Pushes \in {0, 1} /\ count' = count + Pushes - Pops
         /\ Pops <= count
         /\ Pushes = 1 => stage2 \in Result
         /\ \A k \in 0 .. count' - 1 : Item(k)' = IF k + Pops < count THEN Item(k + Pops) ELSE stage2
         /\ RingInv'
<1> DEFINE D == FIFO_DEPTH
<1>1. /\ D \in Nat \ {0} /\ rd_ptr \in Slot /\ wr_ptr \in Slot /\ count \in 0 .. D
      /\ mem \in [Slot -> Result \cup {NoResult}] /\ stage2 \in Result \cup {NoResult}
  BY PathAssumption DEF PathTypeOK
<1>2. /\ Pops \in {0, 1} /\ Pushes \in {0, 1} /\ Pops <= count
      /\ Pushes = 1 => stage2 \in Result /\ (count < D \/ Pops = 1)
  BY <1>1, PathAssumption DEF Pops, Pushes, do_pop, do_push, Result
<1>3. /\ mem' = IF Pushes = 1 THEN [mem EXCEPT ![wr_ptr] = stage2] ELSE mem
      /\ wr_ptr' = IF Pushes = 1 THEN Advance(wr_ptr) ELSE wr_ptr
      /\ rd_ptr' = IF Pops = 1 THEN Advance(rd_ptr) ELSE rd_ptr
      /\ count' = count + Pushes - Pops
  BY DEF Ring, Pops, Pushes
<1>4. count' \in 0 .. D
  BY <1>1, <1>2, <1>3
<1>5. wr_ptr' \in Slot /\ rd_ptr' \in Slot
  BY <1>1, <1>3, Advances
<1>6. mem' \in [Slot -> Result \cup {NoResult}]
  BY <1>1, <1>3
<1>7. /\ rd_ptr' = IF rd_ptr + Pops < D THEN rd_ptr + Pops ELSE (rd_ptr + Pops) - D
      /\ wr_ptr' = IF wr_ptr + Pushes < D THEN wr_ptr + Pushes ELSE (wr_ptr + Pushes) - D
  BY <1>1, <1>2, <1>3, Advances, PathAssumption DEF Advance, Slot
<1>8. wr_ptr = IF rd_ptr + count < D THEN rd_ptr + count ELSE (rd_ptr + count) - D
  BY <1>1, Wrap, Zenon DEF RingInv
<1>9. wr_ptr' = (rd_ptr' + count') % D
  <2>1. (rd_ptr' + count') % D = IF rd_ptr' + count' < D THEN rd_ptr' + count' ELSE (rd_ptr' + count') - D
    BY <1>4, <1>5, Wrap
  <2>2. rd_ptr \in 0 .. D - 1
    BY <1>1 DEF Slot
  <2> QED  BY <1>1, <1>2, <1>3, <1>7, <1>8, <2>1, <2>2
<1>10. ASSUME NEW k \in 0 .. count' - 1
       PROVE  Item(k)' = IF k + Pops < count THEN Item(k + Pops) ELSE stage2
  <2> DEFINE i == (rd_ptr' + k) % D
             j == (rd_ptr + (k + Pops)) % D
  <2>0. rd_ptr \in 0 .. D - 1 /\ k \in Nat /\ k < D /\ k + Pops \in 0 .. D /\ k \in 0 .. D
    BY <1>1, <1>2, <1>3, <1>4 DEF Slot
  <2>1. i = IF rd_ptr' + k < D THEN rd_ptr' + k ELSE (rd_ptr' + k) - D
    BY <1>5, <2>0, Wrap
  <2>2. j = IF rd_ptr + (k + Pops) < D THEN rd_ptr + (k + Pops) ELSE (rd_ptr + (k + Pops)) - D
    BY <1>1, <2>0, Wrap, Zenon
  <2>3. i \in Slot
    BY <1>5, <2>0, Wrap
  <2> HIDE DEF i, j
  <2>4. i = j
    BY <1>1, <1>2, <1>7, <2>0, <2>1, <2>2
  <2>5. Item(k)' = mem'[i] /\ Item(k + Pops) = mem[j]
    BY DEF Item, i, j
  <2>6. CASE k + Pops < count
    <3>1. Pushes = 1 => j # wr_ptr
      BY <1>1, <1>2, <1>8, <2>0, <2>2, <2>6
    <3>2. mem'[i] = mem[i]
      BY <1>1, <1>3, <2>3, <2>4, <3>1
    <3> QED  BY <2>4, <2>5, <2>6, <3>2
  <2>7. CASE ~(k + Pops < count)
    <3>1. Pushes = 1 /\ k + Pops = count
      BY <1>1, <1>2, <1>3, <2>0, <2>7
    <3>2. j = wr_ptr
      BY <1>8, <2>2, <3>1
    <3>3. mem'[i] = stage2
      BY <1>1, <1>3, <2>4, <3>1, <3>2
    <3> QED  BY <2>5, <2>7, <3>3
  <2> QED  BY <2>6, <2>7
<1>11. \A k \in 0 .. count' - 1 : Item(k)' \in Result
  <2> SUFFICES ASSUME NEW k \in 0 .. count' - 1 PROVE Item(k)' \in Result
    OBVIOUS
  <2>1. CASE k + Pops < count
    <3>1. k + Pops \in 0 .. count - 1
      BY <1>1, <1>2, <1>4, <2>1
    <3> QED  BY <1>10, <2>1, <3>1 DEF RingInv
  <2>2. CASE ~(k + Pops < count)
    <3>1. Pushes = 1
      BY <1>1, <1>2, <1>3, <1>4, <2>2
    <3> QED  BY <1>2, <1>10, <2>2, <3>1
  <2> QED  BY <2>1, <2>2
<1> QED  BY <1>2, <1>3, <1>4, <1>5, <1>6, <1>9, <1>10, <1>11 DEF RingInv

\* The clear empties the ring.
LEMMA ClearStep ==
  ASSUME PathTypeOK, FifoClear
  PROVE  count' = 0 /\ wr_ptr' \in Slot /\ rd_ptr' \in Slot /\ RingInv'
<1>1. wr_ptr' = 0 /\ rd_ptr' = 0 /\ count' = 0 /\ FIFO_DEPTH \in Nat \ {0}
  BY PathAssumption DEF FifoClear
<1>2. 0 \in Slot /\ (0 + 0) % FIFO_DEPTH = 0
  BY <1>1 DEF Slot
<1> QED  BY <1>1, <1>2 DEF RingInv

-----------------------------------------------------------------------------
(* The stages. *)

LEMMA FirstHitIsHit == ASSUME PathTypeOK, Hits(stage1) # {} PROVE FirstHit \in Hits(stage1)
<1>1. Hits(stage1) \subseteq Nat
  BY PathAssumption DEF Hits, Engine
<1>2. PICK e \in Hits(stage1) : \A f \in Hits(stage1) : ~(<<f, e>> \in OpToRel(<, Nat))
  BY <1>1, WFMin, NatLessThanWellFounded, Zenon
<1>3. \A f \in Hits(stage1) : e <= f
  <2> SUFFICES ASSUME NEW f \in Hits(stage1) PROVE e <= f
    OBVIOUS
  <2>1. e \in Nat /\ f \in Nat
    BY <1>1
  <2>2. ~(f < e)
    BY <1>2, <2>1, Zenon DEF OpToRel
  <2> QED  BY <2>1, <2>2
<1> QED  BY <1>2, <1>3, Zenon DEF FirstHit

LEMMA StageTypes ==
  ASSUME PathTypeOK, Stages
  PROVE  /\ stage1' \in PerEngine /\ stage2' \in Result \cup {NoResult}
         /\ stage1_overflow' \in BOOLEAN /\ stage2_overflow' \in BOOLEAN
<1>1. Hits(stage1) # {} => stage1[FirstHit] \in Result
  BY FirstHitIsHit DEF Hits, PathTypeOK, PerEngine
<1> QED  BY <1>1 DEF Stages, PathTypeOK

\* The engines number their results from found + 1.
LEMMA EngineResults ==
  ASSUME PathTypeOK, NEW S \in SUBSET Engine, Pulses(S)
  PROVE  /\ engine_valid' \in PerEngine /\ found' \in 0 .. MaxFound /\ found <= found'
         /\ \A e \in Hits(engine_valid)' : engine_valid'[e] \in Result /\ found < engine_valid'[e] /\ engine_valid'[e] <= found'
<1>1. IsFiniteSet(Engine)
  BY FS_Interval, PathAssumption DEF Engine
<1>2. IsFiniteSet(S) /\ Cardinality(S) \in Nat
  BY <1>1, FS_Subset, FS_CardinalityType
<1>3. found \in Nat /\ found' \in 0 .. MaxFound /\ found <= found' /\ found' = found + Cardinality(S)
  BY <1>2, PathAssumption DEF Pulses, PathTypeOK
<1>4. ASSUME NEW e \in S PROVE Cardinality({f \in S : f <= e}) \in 1 .. Cardinality(S)
  <2> DEFINE T == {f \in S : f <= e}
  <2>1. T \in SUBSET S /\ e \in T
    BY PathAssumption DEF Engine
  <2>2. IsFiniteSet(T) /\ Cardinality(T) <= Cardinality(S) /\ Cardinality(T) \in Nat
    BY <1>2, <2>1, FS_Subset, FS_CardinalityType
  <2>3. Cardinality(T) # 0
    BY <2>1, <2>2, FS_EmptySet
  <2> QED  BY <1>2, <2>2, <2>3
<1>5. engine_valid' = [e \in Engine |-> IF e \in S THEN found + Cardinality({f \in S : f <= e}) ELSE NoResult]
  BY DEF Pulses
<1>6. \A e \in S : engine_valid'[e] \in Result /\ found < engine_valid'[e] /\ engine_valid'[e] <= found'
  BY <1>2, <1>3, <1>4, <1>5, PathAssumption DEF Result
<1>7. \A e \in Engine \ S : engine_valid'[e] = NoResult
  BY <1>5
<1>8. engine_valid' \in PerEngine
  BY <1>5, <1>6, <1>7, Zenon DEF PerEngine
<1> QED  BY <1>3, <1>6, <1>7, <1>8 DEF Hits

-----------------------------------------------------------------------------
(* Types *)

TypeInv == PathTypeOK /\ RingInv

LEMMA CaptureType == ASSUME TypeInv, Capture PROVE mem[rd_ptr] = Item(0) /\ Item(0) \in Result
<1>1. rd_ptr + 0 < FIFO_DEPTH /\ 0 \in 0 .. FIFO_DEPTH /\ rd_ptr + 0 = rd_ptr /\ rd_ptr \in Slot
      /\ 0 \in 0 .. count - 1
  BY PathAssumption DEF TypeInv, PathTypeOK, Slot, Capture
<1>2. mem[rd_ptr] = Item(0)
  BY <1>1, Wrap DEF Item
<1> QED  BY <1>1, <1>2 DEF TypeInv, RingInv

LEMMA TypeStep == ASSUME TypeInv, [PathNext]_pathVars PROVE TypeInv'
<1>0. PathTypeOK /\ RingInv
  BY DEF TypeInv
<1>1. ASSUME NEW S \in SUBSET Engine, NEW w \in Writes, Clock(S, w) PROVE TypeInv'
  <2>1. Fifo /\ Register(w) /\ Pulses(S)
    BY <1>1 DEF Clock
  <2>2. /\ stage1' \in PerEngine /\ stage2' \in Result \cup {NoResult}
        /\ stage1_overflow' \in BOOLEAN /\ stage2_overflow' \in BOOLEAN /\ overflow_o' \in BOOLEAN
        /\ mem' \in [Slot -> Result \cup {NoResult}]
        /\ wr_ptr' \in Slot /\ rd_ptr' \in Slot /\ count' \in 0 .. FIFO_DEPTH /\ RingInv'
    <3>1. CASE clear_q
      <4>1. FifoClear
        BY <2>1, <3>1 DEF Fifo
      <4>2. 0 \in 0 .. FIFO_DEPTH
        BY PathAssumption
      <4>3. count' = 0 /\ wr_ptr' \in Slot /\ rd_ptr' \in Slot /\ RingInv'
        BY <1>0, <4>1, ClearStep
      <4> QED  BY <1>0, <4>1, <4>2, <4>3, Zenon DEF FifoClear, PathTypeOK, PerEngine
    <3>2. CASE ~clear_q
      <4>1. Stages /\ Ring
        BY <2>1, <3>2 DEF Fifo
      <4>2. overflow_o' \in BOOLEAN
        BY <4>1, Zenon DEF Ring
      <4> QED  BY <1>0, <4>1, <4>2, StageTypes, RingStep
    <3> QED  BY <3>1, <3>2
  <2>3. clear_q' \in BOOLEAN /\ pulse' \in BOOLEAN /\ cluster_pop' \in BOOLEAN /\ overflow' \in BOOLEAN
    <3>1. clear_q' = pulse /\ pulse \in BOOLEAN
      BY <1>0, <2>1 DEF Fifo, PathTypeOK
    <3>2. pulse' = (w \in {"start", "stop", "clear"}) /\ cluster_pop' = (result = NoResult /\ count # 0)
      BY <2>1 DEF Register, Capturing, Capture
    <3>3. overflow' = (overflow_o \/ (overflow /\ ~DropsOverflow(w)))
      BY <2>1 DEF Register
    <3>4. pulse' \in BOOLEAN
      BY <3>2
    <3> QED  BY <3>1, <3>2, <3>3, <3>4, Zenon
  <2>4. result' \in Result \cup {NoResult} /\ last' \in 0 .. MaxFound
    <3>1. Capture => mem[rd_ptr] \in Result /\ mem[rd_ptr] \in 0 .. MaxFound
      BY CaptureType, PathAssumption DEF Result
    <3> QED  BY <1>0, <2>1, <3>1, Zenon DEF Register, Capturing, PathTypeOK
  <2>5. gap' \in 0 .. WriteGap
    BY <1>0, <2>1, PathAssumption DEF Register, PathTypeOK
  <2>6. lost' \in BOOLEAN /\ cleared' \in 0 .. MaxFound
    BY <1>0, <1>1, Zenon DEF Clock, PathTypeOK
  <2>7. engine_valid' \in PerEngine /\ found' \in 0 .. MaxFound
    BY <1>0, <2>1, EngineResults
  <2> QED  BY <2>2, <2>3, <2>4, <2>5, <2>6, <2>7, Zenon DEF TypeInv, PathTypeOK
<1>2. CASE UNCHANGED pathVars
  <2>1. RingInv'
    BY <1>0, <1>2 DEF RingInv, Item, pathVars
  <2> QED  BY <1>0, <1>2, <2>1, ZenonT(60) DEF TypeInv, PathTypeOK, pathVars
<1> QED  BY <1>1, <1>2 DEF PathNext

LEMMA TypeInit == PathInit => TypeInv
<1> SUFFICES ASSUME PathInit PROVE TypeInv
  OBVIOUS
<1>1. 0 \in Slot /\ 0 \in 0 .. FIFO_DEPTH /\ 0 \in 0 .. WriteGap /\ 0 \in 0 .. MaxFound
      /\ (0 + 0) % FIFO_DEPTH = 0
  BY PathAssumption DEF Slot
<1>2. RingInv
  BY <1>1 DEF PathInit, RingInv
<1>3. PathTypeOK
  BY <1>1, Zenon DEF PathInit, PathTypeOK, PerEngine
<1> QED  BY <1>2, <1>3 DEF TypeInv

\* Every register of the result path keeps its type: the pointers stay in the ring and
\* the count does not pass the depth.
THEOREM PathTypeCorrect == PathSpec => []PathTypeOK
<1>1. PathSpec => []TypeInv
  BY TypeInit, TypeStep, PTL DEF PathSpec
<1>2. TypeInv => PathTypeOK
  BY DEF TypeInv
<1> QED  BY <1>1, <1>2, PTL

-----------------------------------------------------------------------------
(* The refinement: the ring is the queue of ResultQueue.                    *)

ring == [k \in 1 .. count |-> mem[(rd_ptr + k - 1) % FIFO_DEPTH]]

RingSeq ==
    /\ ring \in Seq(Result) /\ Len(ring) = count /\ count \in Nat /\ DOMAIN ring = 1 .. count
    /\ \A k \in 1 .. count : ring[k] = Item(k - 1)

LEMMA RingIsSequence == TypeInv => RingSeq
<1> SUFFICES ASSUME TypeInv PROVE RingSeq
  OBVIOUS
<1>1. count \in Nat
  BY DEF TypeInv, PathTypeOK
<1>2. \A k \in 1 .. count : ring[k] = Item(k - 1)
  BY DEF ring, Item
<1>3. \A k \in 1 .. count : ring[k] \in Result
  BY <1>1, <1>2 DEF TypeInv, RingInv
<1>4. DOMAIN ring = 1 .. count /\ ring = [k \in 1 .. count |-> ring[k]]
  BY DEF ring
<1>5. ring \in [1 .. count -> Result]
  BY <1>3, <1>4
<1> QED  BY <1>1, <1>2, <1>4, <1>5 DEF RingSeq

LEMMA QueueStep == ASSUME TypeInv, RingSeq, RingSeq', [PathNext]_pathVars PROVE [Queue!Next]_ring
<1>1. CASE UNCHANGED pathVars
  BY <1>1 DEF pathVars, ring
<1>2. ASSUME NEW S \in SUBSET Engine, NEW w \in Writes, Clock(S, w), clear_q PROVE Queue!Next
  <2>1. count' = 0
    BY <1>2 DEF Clock, Fifo, FifoClear
  <2>2. ring' = <<>>
    BY <2>1 DEF ring
  <2> QED  BY <2>2 DEF Queue!Next, Queue!Empty, ring
<1>3. ASSUME NEW S \in SUBSET Engine, NEW w \in Writes, Clock(S, w), ~clear_q PROVE [Queue!Next]_ring
  <2>1. Ring /\ PathTypeOK /\ RingInv
    BY <1>3 DEF Clock, Fifo, TypeInv
  <2>2. /\ ring \in Seq(Result) /\ Len(ring) = count /\ count \in Nat
        /\ \A k \in 1 .. count : ring[k] = Item(k - 1)
    BY DEF RingSeq
  <2>3. /\ ring' \in Seq(Result) /\ Len(ring') = count' /\ count' \in Nat
        /\ \A k \in 1 .. count' : ring'[k] = Item(k - 1)'
    BY DEF RingSeq
  <2>4. /\ Pops \in {0, 1} /\ Pushes \in {0, 1} /\ count' = count + Pushes - Pops /\ Pops <= count
        /\ Pushes = 1 => stage2 \in Result
        /\ \A k \in 0 .. count' - 1 : Item(k)' = IF k + Pops < count THEN Item(k + Pops) ELSE stage2
        /\ count' <= FIFO_DEPTH
    BY <2>1, RingStep
  <2>5. ASSUME NEW k \in 1 .. count'
        PROVE  ring'[k] = IF k + Pops <= count THEN ring[k + Pops] ELSE stage2
    <3>1. k - 1 \in 0 .. count' - 1 /\ (k - 1) + Pops = (k + Pops) - 1
      BY <2>3, <2>4
    <3>2. ring'[k] = IF (k - 1) + Pops < count THEN Item((k - 1) + Pops) ELSE stage2
      BY <2>3, <2>4, <3>1
    <3>3. CASE k + Pops <= count
      <4>1. k + Pops \in 1 .. count /\ (k - 1) + Pops < count
        BY <2>2, <2>3, <2>4, <3>3
      <4> QED  BY <2>2, <3>1, <3>2, <3>3, <4>1
    <3>4. CASE ~(k + Pops <= count)
      <4>1. ~((k - 1) + Pops < count)
        BY <2>2, <2>3, <2>4, <3>4
      <4> QED  BY <3>2, <3>4, <4>1
    <3> QED  BY <3>3, <3>4
  <2> HIDE DEF ring, Pops, Pushes
  <2>6. CASE Pops = 0 /\ Pushes = 0
    <3>1. ring' = ring
      BY <2>2, <2>3, <2>4, <2>5, <2>6
    <3> QED  BY <3>1
  <2>7. CASE Pops = 0 /\ Pushes = 1
    <3>1. ring' = Append(ring, stage2)
      BY <2>2, <2>3, <2>4, <2>5, <2>7
    <3>2. Len(ring) < FIFO_DEPTH
      BY <2>2, <2>4, <2>7, PathAssumption
    <3> QED  BY <2>4, <2>7, <3>1, <3>2, Zenon DEF Queue!Next, Queue!Push, ring
  <2>8. CASE Pops = 1 /\ Pushes = 0
    <3>1. ring # <<>>
      BY <2>2, <2>4, <2>8
    <3>2. ring' = Tail(ring)
      BY <2>2, <2>3, <2>4, <2>5, <2>8, <3>1
    <3> QED  BY <3>1, <3>2, Zenon DEF Queue!Next, Queue!Pop, ring
  <2>9. CASE Pops = 1 /\ Pushes = 1
    <3>1. ring # <<>>
      BY <2>2, <2>4, <2>9
    <3>2. ring' = Append(Tail(ring), stage2)
      BY <2>2, <2>3, <2>4, <2>5, <2>9, <3>1
    <3> QED  BY <2>4, <2>9, <3>1, <3>2, Zenon DEF Queue!Next, Queue!PushPop, ring
  <2> QED  BY <2>4, <2>6, <2>7, <2>8, <2>9
<1> QED  BY <1>1, <1>2, <1>3 DEF PathNext

\* The ring of the cluster FIFO is a bounded queue, with a push and a pop in the same
\* clock, with pointers that wrap and for any depth.
THEOREM FifoIsQueue == PathSpec => ImplementsQueue
<1>1. PathInit => Queue!Init
  <2> SUFFICES ASSUME PathInit PROVE ring = <<>>
    BY DEF Queue!Init, ring
  <2> QED  BY DEF PathInit, ring
<1>2. TypeInv /\ RingSeq /\ RingSeq' /\ [PathNext]_pathVars => [Queue!Next]_ring
  BY QueueStep
<1>3. PathSpec => [](TypeInv /\ RingSeq)
  BY TypeInit, TypeStep, RingIsSequence, PTL DEF PathSpec
<1> QED  BY <1>1, <1>2, <1>3, PTL DEF PathSpec, ImplementsQueue, Queue!Spec, ring

-----------------------------------------------------------------------------
(***************************************************************************)
(* The order of the results.  From the result register over the ring and   *)
(* the stages to the engines, every result is newer than those before it   *)
(* and than the last clear.  The front of the ring is the result captured  *)
(* last as long as its pop is on the way (cluster_pop).                    *)
(***************************************************************************)
First == IF cluster_pop THEN 1 ELSE 0
InRingOrder(x) == last < x /\ cleared < x /\ \A k \in 0 .. count - 1 : Item(k) < x

OrderInv ==
    /\ cluster_pop => result # NoResult
    /\ cluster_pop /\ count = 0 => stage2 = NoResult
    /\ cluster_pop /\ count # 0 => Item(0) = last
    /\ last <= found /\ cleared <= found
    /\ \A k \in 0 .. count - 1 : Item(k) <= found
    /\ \A k \in First .. count - 1 : last < Item(k) /\ cleared < Item(k)
    /\ \A j, k \in 0 .. count - 1 : j < k => Item(j) < Item(k)
    /\ stage2 # NoResult => stage2 <= found /\ InRingOrder(stage2)
    /\ \A e \in Hits(stage1) : /\ stage1[e] <= found /\ InRingOrder(stage1[e])
                               /\ stage2 # NoResult => stage2 < stage1[e]
    /\ \A e \in Hits(engine_valid) : /\ engine_valid[e] <= found /\ InRingOrder(engine_valid[e])
                                     /\ stage2 # NoResult => stage2 < engine_valid[e]
                                     /\ \A f \in Hits(stage1) : stage1[f] < engine_valid[e]

\* The capture takes the front of a ring that has no pop on the way.
LEMMA CaptureStep ==
  ASSUME TypeInv, OrderInv, NEW w \in Writes, Register(w)
  PROVE  /\ Capture => /\ ~cluster_pop /\ count # 0 /\ Item(0) \in Result /\ last < Item(0) /\ cleared < Item(0)
                       /\ result' = Item(0) /\ last' = Item(0)
         /\ ~Capture => last' = last /\ result' \in {result, NoResult}
         /\ cluster_pop' <=> Capture
<1>1. Capture => mem[rd_ptr] = Item(0) /\ Item(0) \in Result
  BY CaptureType
<1>2. Capture => ~cluster_pop /\ count # 0
  BY DEF Capture, OrderInv
<1>3. Capture => 0 \in First .. count - 1
  BY <1>2 DEF First, TypeInv, PathTypeOK
<1>4. /\ result' = IF Capture THEN mem[rd_ptr] ELSE IF DropsResult(w) THEN NoResult ELSE result
      /\ cluster_pop' = Capture
      /\ last' = IF Capture THEN mem[rd_ptr] ELSE last
  BY DEF Register, Capturing
<1>5. Capture => last < Item(0) /\ cleared < Item(0)
  BY <1>3 DEF OrderInv
<1> QED  BY <1>1, <1>2, <1>4, <1>5, Zenon

LEMMA OrderClear ==
  ASSUME TypeInv, OrderInv, NEW S \in SUBSET Engine, NEW w \in Writes, Clock(S, w), clear_q
  PROVE  OrderInv'
<1>1. PathTypeOK /\ RingInv /\ Register(w) /\ Pulses(S) /\ FifoClear /\ cleared' = found
  BY DEF TypeInv, Clock, Fifo
<1>2. count' = 0 /\ stage2' = NoResult /\ Hits(stage1)' = {}
  BY <1>1 DEF FifoClear, Hits
<1>3. /\ found \in Nat /\ found' \in Nat /\ found <= found'
      /\ \A e \in Hits(engine_valid)' : engine_valid'[e] \in Nat /\ found < engine_valid'[e] /\ engine_valid'[e] <= found'
  BY <1>1, EngineResults DEF PathTypeOK, Result
<1>4. last' \in Nat /\ last' <= found
  <2>1. CASE Capture
    <3>1. 0 \in 0 .. count - 1 /\ last' = Item(0) /\ Item(0) \in Nat
      BY <1>1, <2>1, CaptureStep DEF PathTypeOK, Result
    <3> QED  BY <3>1 DEF OrderInv
  <2>2. CASE ~Capture
    BY <1>1, <2>2, CaptureStep DEF OrderInv, PathTypeOK
  <2> QED  BY <2>1, <2>2
<1>5. cluster_pop' => result' # NoResult
  <2>1. NoResult \notin Result
    BY PathAssumption DEF Result
  <2> QED  BY <1>1, <2>1, CaptureStep
<1>6. 0 .. count' - 1 = {} /\ First' .. count' - 1 = {}
  BY <1>2 DEF First
<1>7. \A e \in Hits(engine_valid)' : engine_valid'[e] <= found' /\ last' < engine_valid'[e] /\ cleared' < engine_valid'[e]
  BY <1>1, <1>3, <1>4
<1>8. last' <= found' /\ cleared' <= found'
  BY <1>1, <1>3, <1>4
<1>9. stage2' # NoResult => FALSE
  BY <1>2
<1>10. \A e \in Hits(engine_valid)' : InRingOrder(engine_valid[e])'
  BY <1>6, <1>7 DEF InRingOrder
<1>11. (cluster_pop /\ count = 0 => stage2 = NoResult)' /\ (cluster_pop /\ count # 0 => Item(0) = last)'
  BY <1>2
<1> QED  BY <1>2, <1>5, <1>6, <1>7, <1>8, <1>9, <1>10, <1>11, ZenonT(30) DEF OrderInv

\* Where the results of the ring come from in a clock without a clear.
LEMMA RingSources ==
  ASSUME TypeInv, NEW S \in SUBSET Engine, NEW w \in Writes, Clock(S, w), ~clear_q
  PROVE  /\ Pops \in {0, 1} /\ Pops = (IF cluster_pop /\ count # 0 THEN 1 ELSE 0) /\ count \in Nat /\ count' \in Nat
         /\ \A k \in 0 .. count' - 1 :
               \/ k + Pops \in 0 .. count - 1 /\ Item(k)' = Item(k + Pops) /\ Item(k + Pops) \in Nat
               \/ k + Pops = count /\ Item(k)' = stage2 /\ stage2 # NoResult /\ stage2 \in Nat
         /\ count # 0 /\ Pops = 0 => count' # 0 /\ Item(0)' = Item(0)
<1>1. PathTypeOK /\ RingInv /\ Ring
  BY DEF TypeInv, Clock, Fifo
<1>2. /\ Pops \in {0, 1} /\ Pushes \in {0, 1} /\ count' = count + Pushes - Pops /\ Pops <= count
      /\ Pushes = 1 => stage2 \in Result
      /\ \A k \in 0 .. count' - 1 : Item(k)' = IF k + Pops < count THEN Item(k + Pops) ELSE stage2
  BY <1>1, RingStep
<1>3. count \in Nat /\ count' \in Nat
  BY <1>1, RingStep DEF PathTypeOK
<1>4. Result \subseteq Nat /\ NoResult \notin Result
  BY PathAssumption DEF Result
<1>5. ASSUME NEW k \in 0 .. count' - 1
      PROVE  \/ k + Pops \in 0 .. count - 1 /\ Item(k)' = Item(k + Pops) /\ Item(k + Pops) \in Nat
             \/ k + Pops = count /\ Item(k)' = stage2 /\ stage2 # NoResult /\ stage2 \in Nat
  <2>1. CASE k + Pops < count
    <3>1. k + Pops \in 0 .. count - 1
      BY <1>2, <1>3, <2>1
    <3>2. Item(k + Pops) \in Result
      BY <1>1, <3>1 DEF RingInv
    <3> QED  BY <1>2, <1>4, <2>1, <3>1, <3>2, Zenon
  <2>2. CASE ~(k + Pops < count)
    <3>1. k + Pops = count /\ Pushes = 1
      BY <1>2, <1>3, <2>2
    <3> QED  BY <1>2, <1>4, <2>2, <3>1, Zenon
  <2> QED  BY <2>1, <2>2
<1>6. Pops = IF cluster_pop /\ count # 0 THEN 1 ELSE 0
  BY DEF Pops, do_pop
<1>7. count # 0 /\ Pops = 0 => count' # 0 /\ Item(0)' = Item(0)
  <2> SUFFICES ASSUME count # 0, Pops = 0 PROVE count' # 0 /\ Item(0)' = Item(0)
    OBVIOUS
  <2>1. count' # 0 /\ 0 \in 0 .. count' - 1 /\ 0 + Pops = 0 /\ 0 < count
    BY <1>2, <1>3
  <2> QED  BY <1>2, <2>1
<1> QED  BY <1>2, <1>3, <1>5, <1>6, <1>7

LEMMA OrderStages ==
  ASSUME TypeInv, OrderInv, NEW S \in SUBSET Engine, NEW w \in Writes, Clock(S, w), ~clear_q
  PROVE  OrderInv'
<1>1. PathTypeOK /\ RingInv /\ Register(w) /\ Pulses(S) /\ Stages /\ cleared' = cleared
  BY DEF TypeInv, Clock, Fifo
<1>2. /\ Pops \in {0, 1} /\ Pops = (IF cluster_pop /\ count # 0 THEN 1 ELSE 0) /\ count \in Nat /\ count' \in Nat
      /\ \A k \in 0 .. count' - 1 :
            \/ k + Pops \in 0 .. count - 1 /\ Item(k)' = Item(k + Pops) /\ Item(k + Pops) \in Nat
            \/ k + Pops = count /\ Item(k)' = stage2 /\ stage2 # NoResult /\ stage2 \in Nat
      /\ count # 0 /\ Pops = 0 => count' # 0 /\ Item(0)' = Item(0)
  BY RingSources
<1>3. /\ Capture => /\ ~cluster_pop /\ count # 0 /\ Item(0) \in Result /\ last < Item(0) /\ cleared < Item(0)
                    /\ result' = Item(0) /\ last' = Item(0)
      /\ ~Capture => last' = last
      /\ cluster_pop' <=> Capture
  BY <1>1, CaptureStep
<1>4. Result \subseteq Nat /\ NoResult \notin Result
  BY PathAssumption DEF Result
<1>5. /\ found \in Nat /\ found' \in Nat /\ found <= found' /\ last \in Nat /\ last' \in Nat /\ cleared \in Nat
      /\ \A e \in Hits(engine_valid)' : engine_valid'[e] \in Nat /\ found < engine_valid'[e] /\ engine_valid'[e] <= found'
  <2>1. /\ found <= found' /\ found' \in 0 .. MaxFound
        /\ \A e \in Hits(engine_valid)' : engine_valid'[e] \in Result /\ found < engine_valid'[e] /\ engine_valid'[e] <= found'
    BY <1>1, EngineResults
  <2>2. last \in Nat /\ cleared \in Nat /\ found \in Nat /\ found' \in Nat
    BY <1>1, <2>1 DEF PathTypeOK
  <2> QED  BY <1>3, <1>4, <2>1, <2>2, Zenon
<1>6. /\ stage1' = engine_valid /\ Hits(stage1)' = Hits(engine_valid)
      /\ stage2' # NoResult => FirstHit \in Hits(stage1) /\ stage2' = stage1[FirstHit]
  BY <1>1, FirstHitIsHit DEF Stages, Hits
<1>7. /\ \A e \in Hits(stage1) : stage1[e] \in Nat
      /\ \A e \in Hits(engine_valid) : engine_valid[e] \in Nat
      /\ stage2 # NoResult => stage2 \in Nat
  BY <1>1, <1>4, Zenon DEF PathTypeOK, PerEngine, Hits
\* What is behind the ring and stage 2 stays behind the ring.
<1>8. ASSUME NEW x \in Nat, InRingOrder(x), stage2 # NoResult => stage2 < x PROVE InRingOrder(x)'
  <2>1. last' < x
    <3>1. CASE Capture
      <4>1. 0 \in 0 .. count - 1
        BY <1>2, <1>3, <3>1
      <4> QED  BY <1>3, <1>8, <3>1, <4>1 DEF InRingOrder
    <3> QED  BY <1>3, <1>8, <3>1 DEF InRingOrder
  <2>2. ASSUME NEW k \in 0 .. count' - 1 PROVE Item(k)' < x
    BY <1>2, <1>8, <2>2, Zenon DEF InRingOrder
  <2> QED  BY <1>1, <1>8, <2>1, <2>2 DEF InRingOrder
<1>9. last' <= found
  <2>1. CASE Capture
    <3>1. 0 \in 0 .. count - 1
      BY <1>2, <1>3, <2>1
    <3> QED  BY <1>3, <2>1, <3>1 DEF OrderInv
  <2> QED  BY <1>3, <2>1 DEF OrderInv
<1>10. \A k \in 0 .. count' - 1 : Item(k)' \in Nat /\ Item(k)' <= found
  BY <1>2, Zenon DEF OrderInv
<1>11. \A k \in First' .. count' - 1 : last' < Item(k)' /\ cleared' < Item(k)'
  <2> SUFFICES ASSUME NEW k \in First' .. count' - 1 PROVE last' < Item(k)' /\ cleared < Item(k)'
    BY <1>1
  <2>0. First' = IF Capture THEN 1 ELSE 0
    BY <1>3, Zenon DEF First
  <2>1. k \in 0 .. count' - 1 /\ (Capture => k >= 1)
    <3>1. count' \in Nat /\ First' \in {0, 1} /\ (Capture => First' = 1)
      BY <1>2, <2>0, Zenon
    <3>2. ASSUME NEW f \in {0, 1}, NEW c \in Nat, NEW i \in f .. c - 1 PROVE i \in 0 .. c - 1 /\ (f = 1 => i >= 1)
      BY <3>2
    <3>3. k \in 0 .. count' - 1 /\ (First' = 1 => k >= 1)
      BY <3>1, <3>2, Zenon
    <3> QED  BY <3>1, <3>3, Zenon
  <2>2. CASE Capture
    <3>1. Pops = 0 /\ 0 \in 0 .. count - 1 /\ First = 0 /\ k + Pops = k
      BY <1>2, <1>3, <2>1, <2>2 DEF First
    <3>2. CASE k \in 0 .. count - 1 /\ Item(k)' = Item(k)
      <4>1. Item(0) < Item(k) /\ k \in First .. count - 1
        BY <2>1, <2>2, <3>1, <3>2 DEF OrderInv
      <4> QED  BY <1>3, <2>2, <3>2, <4>1 DEF OrderInv
    <3>3. CASE Item(k)' = stage2 /\ stage2 # NoResult
      BY <1>3, <2>2, <3>1, <3>3 DEF OrderInv, InRingOrder
    <3> QED  BY <1>2, <2>1, <3>1, <3>2, <3>3, Zenon
  <2>3. CASE ~Capture
    <3>1. CASE k + Pops \in 0 .. count - 1 /\ Item(k)' = Item(k + Pops)
      <4>1. k + Pops \in First .. count - 1
        BY <1>2, <2>1, <3>1 DEF First
      <4> QED  BY <1>3, <2>3, <3>1, <4>1 DEF OrderInv
    <3>2. CASE Item(k)' = stage2 /\ stage2 # NoResult
      BY <1>3, <2>3, <3>2 DEF OrderInv, InRingOrder
    <3> QED  BY <1>2, <2>1, <3>1, <3>2, Zenon
  <2> QED  BY <2>2, <2>3
<1>12. \A j, k \in 0 .. count' - 1 : j < k => Item(j)' < Item(k)'
  <2> SUFFICES ASSUME NEW j \in 0 .. count' - 1, NEW k \in 0 .. count' - 1, j < k PROVE Item(j)' < Item(k)'
    OBVIOUS
  <2>0. Pops \in {0, 1} /\ count \in Nat /\ count' \in Nat
    BY <1>2
  <2>1. j + Pops \in 0 .. count - 1 /\ Item(j)' = Item(j + Pops)
    <3>1. k + Pops \in 0 .. count - 1 \/ k + Pops = count
      BY <1>2, Zenon
    <3>2. j + Pops # count
      BY <2>0, <3>1
    <3> QED  BY <1>2, <3>2, Zenon
  <2>2. CASE k + Pops \in 0 .. count - 1 /\ Item(k)' = Item(k + Pops)
    <3>1. j + Pops < k + Pops
      BY <1>2
    <3> QED  BY <2>1, <2>2, <3>1 DEF OrderInv
  <2>3. CASE Item(k)' = stage2 /\ stage2 # NoResult
    BY <2>1, <2>3 DEF OrderInv, InRingOrder
  <2> QED  BY <1>2, <2>2, <2>3, Zenon
<1>13. stage2' # NoResult => stage2' <= found' /\ InRingOrder(stage2)'
  <2> SUFFICES ASSUME stage2' # NoResult PROVE stage2' <= found' /\ InRingOrder(stage2)'
    OBVIOUS
  <2>1. PICK e \in Hits(stage1) : stage2' = stage1[e]
    BY <1>6
  <2>2. /\ stage1[e] \in Nat /\ stage1[e] <= found /\ InRingOrder(stage1[e])
        /\ stage2 # NoResult => stage2 < stage1[e]
    BY <1>7 DEF OrderInv
  <2>3. last' < stage1[e] /\ cleared' < stage1[e] /\ \A k \in 0 .. count' - 1 : Item(k)' < stage1[e]
    BY <1>8, <2>2 DEF InRingOrder
  <2> QED  BY <1>5, <2>1, <2>2, <2>3 DEF InRingOrder
<1>14. ASSUME NEW e \in Hits(stage1)'
       PROVE  /\ stage1'[e] <= found' /\ InRingOrder(stage1[e])'
              /\ stage2' # NoResult => stage2' < stage1'[e]
  <2>1. e \in Hits(engine_valid) /\ stage1'[e] = engine_valid[e] /\ engine_valid[e] \in Nat
    BY <1>6, <1>7, <1>14
  <2>2. /\ engine_valid[e] <= found /\ InRingOrder(engine_valid[e]) /\ (stage2 # NoResult => stage2 < engine_valid[e])
        /\ \A f \in Hits(stage1) : stage1[f] < engine_valid[e]
    BY <2>1 DEF OrderInv
  <2>3. last' < engine_valid[e] /\ cleared' < engine_valid[e] /\ \A k \in 0 .. count' - 1 : Item(k)' < engine_valid[e]
    BY <1>8, <2>1, <2>2 DEF InRingOrder
  <2>4. InRingOrder(stage1[e])'
    BY <2>1, <2>3 DEF InRingOrder
  <2> QED  BY <1>5, <1>6, <2>1, <2>2, <2>4
<1>15. ASSUME NEW e \in Hits(engine_valid)'
       PROVE  /\ engine_valid'[e] <= found' /\ InRingOrder(engine_valid[e])'
              /\ stage2' # NoResult => stage2' < engine_valid'[e]
              /\ \A f \in Hits(stage1)' : stage1'[f] < engine_valid'[e]
  <2>1. engine_valid'[e] \in Nat /\ found < engine_valid'[e] /\ engine_valid'[e] <= found'
    BY <1>5, <1>15
  <2>2. last' < engine_valid'[e] /\ cleared' < engine_valid'[e] /\ \A k \in 0 .. count' - 1 : Item(k)' < engine_valid'[e]
    BY <1>1, <1>5, <1>9, <1>10, <2>1 DEF OrderInv
  <2>3. stage2' # NoResult => stage2' < engine_valid'[e]
    BY <1>5, <1>6, <1>7, <2>1 DEF OrderInv
  <2>4. \A f \in Hits(stage1)' : stage1'[f] < engine_valid'[e]
    BY <1>5, <1>6, <1>7, <2>1 DEF OrderInv
  <2> QED  BY <2>1, <2>2, <2>3, <2>4 DEF InRingOrder
<1>16. /\ cluster_pop' => result' # NoResult
       /\ cluster_pop' => count' # 0 /\ Item(0)' = last'
  BY <1>2, <1>3, <1>4
<1>17. last' <= found' /\ cleared' <= found' /\ \A k \in 0 .. count' - 1 : Item(k)' <= found'
  BY <1>1, <1>5, <1>9, <1>10 DEF OrderInv
<1> QED  BY <1>11, <1>12, <1>13, <1>14, <1>15, <1>16, <1>17, ZenonT(30) DEF OrderInv

LEMMA OrderInit == PathInit => OrderInv
<1> SUFFICES ASSUME PathInit PROVE OrderInv
  OBVIOUS
<1>1. 0 .. count - 1 = {} /\ First .. count - 1 = {} /\ Hits(stage1) = {} /\ Hits(engine_valid) = {}
  BY DEF PathInit, First, Hits
<1> QED  BY <1>1 DEF PathInit, OrderInv

LEMMA OrderStep == TypeInv /\ OrderInv /\ [PathNext]_pathVars => OrderInv'
<1> SUFFICES ASSUME TypeInv, OrderInv, [PathNext]_pathVars PROVE OrderInv'
  BY SMTT(60)
<1>1. CASE UNCHANGED pathVars
  BY <1>1 DEF pathVars, OrderInv, InRingOrder, Item, First, Hits
<1>2. CASE PathNext
  BY <1>2, OrderClear, OrderStages DEF PathNext
<1> QED  BY <1>1, <1>2

\* A capture takes a result that is newer than the one before it and than the clear.
LEMMA CaptureIsNew ==
  TypeInv /\ OrderInv /\ [PathNext]_pathVars => (result' \notin {result, NoResult} => result' > last /\ result' > cleared)
<1> SUFFICES ASSUME TypeInv, OrderInv, [PathNext]_pathVars, result' \notin {result, NoResult}
             PROVE  result' > last /\ result' > cleared
  OBVIOUS
<1>1. PICK S \in SUBSET Engine, w \in Writes : Clock(S, w)
  BY DEF PathNext, pathVars
<1>2. Register(w)
  BY <1>1 DEF Clock
<1>3. Capture /\ result' = Item(0) /\ Item(0) \in Result /\ last < Item(0) /\ cleared < Item(0)
  BY <1>2, CaptureStep
<1> QED  BY <1>3 DEF TypeInv, PathTypeOK, Result

LEMMA InOrder == PathSpec => [](TypeInv /\ OrderInv)
BY TypeInit, TypeStep, OrderInit, OrderStep, PTL DEF PathSpec

\* The result register receives the results in the order in which they were found and
\* none twice, for any number of engines, any depth and any writes.
THEOREM ResultsInOrder == PathSpec => CapturedOnceInOrder
<1>1. TypeInv /\ OrderInv /\ [PathNext]_pathVars => [result' \notin {result, NoResult} => result' > last]_pathVars
  BY CaptureIsNew
<1> QED  BY <1>1, InOrder, PTL DEF PathSpec, CapturedOnceInOrder

\* No result that was found before a clear of the FIFO is captured after it.
THEOREM ClearIsComplete == PathSpec => ClearedIsGone
<1>1. TypeInv /\ OrderInv /\ [PathNext]_pathVars => [result' \notin {result, NoResult} => result' > cleared]_pathVars
  BY CaptureIsNew
<1> QED  BY <1>1, InOrder, PTL DEF PathSpec, ClearedIsGone

-----------------------------------------------------------------------------
(* Losses.  Without a clear and without an overflow every result on the way *)
(* moves on: from an engine to stage 1, to stage 2, to the back of the ring *)
(* and from its front to the result register.                               *)

Arrives(x) == \E k \in First' .. count' - 1 : Item(k)' = x

LEMMA OnTheWayOf == OnTheWay = {x \in {engine_valid[e] : e \in Engine} \cup {stage1[e] : e \in Engine} \cup {stage2}
                                        \cup {Item(k) : k \in First .. count - 1} : x # NoResult}
BY DEF OnTheWay, InRing, Item, First

LEMMA AloneInStage1 ==
  ASSUME PathTypeOK, NEW e \in Hits(stage1), ~(Cardinality(Hits(stage1)) > 1)
  PROVE  e = FirstHit
<1>1. FirstHit \in Hits(stage1)
  BY FirstHitIsHit
<1>2. IsFiniteSet(Hits(stage1)) /\ Cardinality(Hits(stage1)) \in Nat
  <2>1. IsFiniteSet(Engine)
    BY FS_Interval, PathAssumption DEF Engine
  <2>2. Hits(stage1) \in SUBSET Engine
    BY DEF Hits
  <2> QED  BY <2>1, <2>2, FS_Subset, FS_CardinalityType
<1>3. ASSUME e # FirstHit PROVE FALSE
  <2> DEFINE T == {e, FirstHit}
  <2>1. IsFiniteSet({e}) /\ Cardinality({e}) = 1
    BY FS_Singleton, Zenon
  <2>2. T = {e} \cup {FirstHit} /\ FirstHit \notin {e}
    BY <1>3
  <2>3. Cardinality(T) = 2
    <3>1. Cardinality({e} \cup {FirstHit}) = Cardinality({e}) + 1
      BY <2>1, <2>2, FS_AddElement
    <3> QED  BY <2>1, <2>2, <3>1
  <2>4. T \in SUBSET Hits(stage1)
    BY <1>1
  <2>5. Cardinality(T) <= Cardinality(Hits(stage1))
    BY <1>2, <2>4, FS_Subset
  <2> QED  BY <1>2, <2>3, <2>5
<1> QED  BY <1>3

LEMMA RingMoves ==
  ASSUME TypeInv, OrderInv, NEW S \in SUBSET Engine, NEW w \in Writes, Clock(S, w), ~clear_q
  PROVE  /\ \A k \in First .. count - 1 : Arrives(Item(k)) \/ Item(k) = last'
         /\ do_push => Arrives(stage2)
<1>1. PathTypeOK /\ RingInv /\ Ring /\ Register(w)
  BY DEF TypeInv, Clock, Fifo
<1>2. /\ Pops \in {0, 1} /\ Pushes \in {0, 1} /\ count' = count + Pushes - Pops /\ Pops <= count
      /\ count \in Nat /\ count' \in Nat
  BY <1>1, RingStep DEF PathTypeOK
<1>3. \A k \in 0 .. count' - 1 : Item(k)' = IF k + Pops < count THEN Item(k + Pops) ELSE stage2
  BY <1>1, RingStep
<1>4. /\ First' = (IF Capture THEN 1 ELSE 0) /\ (Capture => last' = Item(0))
      /\ Capture => ~cluster_pop /\ count # 0
  <2>1. (Capture => ~cluster_pop /\ count # 0 /\ last' = Item(0)) /\ (cluster_pop' <=> Capture)
    BY <1>1, CaptureStep
  <2> QED  BY <2>1, Zenon DEF First
<1>5. Pops = (IF cluster_pop /\ count # 0 THEN 1 ELSE 0) /\ First = (IF cluster_pop THEN 1 ELSE 0)
  BY DEF Pops, do_pop, First
<1>6. ASSUME NEW k \in First .. count - 1 PROVE Arrives(Item(k)) \/ Item(k) = last'
  <2>1. k \in 0 .. count - 1 /\ k >= Pops
    BY <1>2, <1>5
  <2>2. CASE Capture /\ k = 0
    BY <1>4, <2>2
  <2>3. CASE ~(Capture /\ k = 0)
    <3>0. PICK j \in Int : j = k - Pops
      BY <1>2, <2>1
    <3>1. j \in 0 .. count' - 1 /\ j + Pops = k /\ j + Pops < count
      BY <1>2, <2>1, <3>0
    <3>2. Item(j)' = Item(k)
      BY <1>3, <3>1
    <3>3. (First' = 0 \/ (First' = 1 /\ Pops = 0 /\ k # 0))
      BY <1>4, <1>5, <2>3, Zenon
    <3>4. ASSUME NEW f, f = 0 \/ (f = 1 /\ Pops = 0 /\ k # 0) PROVE j \in f .. count' - 1
      BY <1>2, <2>1, <3>0, <3>1, <3>4
    <3>5. j \in First' .. count' - 1
      BY <3>3, <3>4, Zenon
    <3> QED  BY <3>2, <3>5 DEF Arrives
  <2> QED  BY <2>2, <2>3
<1>7. ASSUME do_push PROVE Arrives(stage2)
  <2>0. PICK j \in Int : j = count' - 1
    BY <1>2
  <2>1. Pushes = 1
    BY <1>7 DEF Pushes
  <2>2. j \in 0 .. count' - 1 /\ j + Pops = count
    BY <1>2, <2>0, <2>1
  <2>3. Item(j)' = stage2
    BY <1>2, <1>3, <2>2
  <2>4. First' = 0 \/ (First' = 1 /\ Pops = 0 /\ count # 0)
    BY <1>4, <1>5, Zenon
  <2>5. ASSUME NEW f, f = 0 \/ (f = 1 /\ Pops = 0 /\ count # 0) PROVE j \in f .. count' - 1
    BY <1>2, <2>0, <2>2, <2>5
  <2>6. j \in First' .. count' - 1
    BY <2>4, <2>5, Zenon
  <2> QED  BY <2>3, <2>6 DEF Arrives
<1> QED  BY <1>6, <1>7

LEMMA NoSilentLoss ==
  ASSUME TypeInv, OrderInv, NEW S \in SUBSET Engine, NEW w \in Writes, Clock(S, w), ~clear_q,
         ~overflow_o', ~stage2_overflow'
  PROVE  OnTheWay \subseteq OnTheWay' \cup {last'}
<1>1. PathTypeOK /\ Stages /\ Ring
  BY DEF TypeInv, Clock, Fifo
<1>2. /\ \A k \in First .. count - 1 : Arrives(Item(k)) \/ Item(k) = last'
      /\ do_push => Arrives(stage2)
  BY RingMoves
<1>3. ASSUME NEW x, x # NoResult, Arrives(x) PROVE x \in OnTheWay'
  <2>1. x \in InRing'
    BY <1>3 DEF Arrives, InRing, Item, First
  <2> QED  BY <1>3, <2>1 DEF OnTheWay
<1>4. ASSUME NEW e \in Engine, engine_valid[e] # NoResult PROVE engine_valid[e] \in OnTheWay'
  <2>1. stage1'[e] = engine_valid[e]
    BY <1>1 DEF Stages
  <2> QED  BY <1>4, <2>1 DEF OnTheWay
<1>5. ASSUME NEW e \in Engine, stage1[e] # NoResult PROVE stage1[e] \in OnTheWay'
  <2>1. e \in Hits(stage1) /\ ~(Cardinality(Hits(stage1)) > 1)
    BY <1>1, <1>5, Zenon DEF Stages, Hits
  <2>2. stage2' = stage1[e]
    BY <1>1, <2>1, AloneInStage1 DEF Stages
  <2> QED  BY <1>5, <2>2 DEF OnTheWay
<1>6. ASSUME stage2 # NoResult PROVE stage2 \in OnTheWay'
  <2>1. do_push
    BY <1>1, <1>6, Zenon DEF Ring
  <2> QED  BY <1>2, <1>3, <1>6, <2>1
<1>7. ASSUME NEW k \in First .. count - 1, Item(k) # NoResult PROVE Item(k) \in OnTheWay' \cup {last'}
  BY <1>2, <1>3, <1>7
<1> SUFFICES ASSUME NEW x \in OnTheWay PROVE x \in OnTheWay' \cup {last'}
  OBVIOUS
<1> QED  BY <1>4, <1>5, <1>6, <1>7, OnTheWayOf

\* bitcoin_result_cluster_fifo reports every loss, for any number of engines and any depth.
THEOREM EveryLossIsReported == PathSpec => []LossIsReported
<1>1. PathInit => LossIsReported
  BY DEF PathInit, LossIsReported
<1>2. TypeInv /\ OrderInv /\ LossIsReported /\ [PathNext]_pathVars => LossIsReported'
  <2> SUFFICES ASSUME TypeInv, OrderInv, LossIsReported, [PathNext]_pathVars, lost'
               PROVE  overflow_o' \/ stage2_overflow' \/ stage1_overflow'
    BY DEF LossIsReported
  <2>1. CASE UNCHANGED pathVars
    BY <2>1 DEF pathVars, LossIsReported
  <2>2. CASE PathNext
    <3>1. PICK S \in SUBSET Engine, w \in Writes : Clock(S, w)
      BY <2>2 DEF PathNext
    <3>2. ~clear_q /\ (lost \/ ~(OnTheWay \subseteq OnTheWay' \cup {last'}))
      BY <3>1, Zenon DEF Clock
    <3>3. CASE lost
      <4>1. Stages /\ Ring
        BY <3>1, <3>2 DEF Clock, Fifo
      <4>2. overflow_o \/ stage2_overflow => overflow_o'
        BY <4>1, Zenon DEF Ring
      <4>3. stage1_overflow => stage2_overflow'
        BY <4>1, Zenon DEF Stages
      <4> QED  BY <3>3, <4>2, <4>3, Zenon DEF LossIsReported
    <3>4. CASE ~(OnTheWay \subseteq OnTheWay' \cup {last'})
      BY <3>1, <3>2, <3>4, NoSilentLoss, Zenon
    <3> QED  BY <3>2, <3>3, <3>4
  <2> QED  BY <2>1, <2>2
<1> QED  BY <1>1, <1>2, InOrder, PTL DEF PathSpec
=============================================================================
