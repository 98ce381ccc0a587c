----------------------------- MODULE ResultPath -----------------------------
(***************************************************************************)
(* The way of a result in one miner instance, clock by clock: the hash     *)
(* engines' result_valid_o, the two stages and the ring of                 *)
(* bitcoin_result_cluster_fifo, and the result register of                 *)
(* bitcoin_miner_axi with the writes that empty it.  An engine is only its *)
(* one-clock output pulse: any engines may meet the target in any clock    *)
(* (a real one needs hundreds of clocks between two of its results).       *)
(***************************************************************************)
EXTENDS Integers, FiniteSets

CONSTANTS
    CLUSTER_SIZE, \* engines of the cluster
    FIFO_DEPTH,
    WriteGap,     \* clocks between two applied register writes, at least
    MaxFound,     \* bound: results of the engines
    NoResult      \* an invalid stage or register

ASSUME PathAssumption ==
    /\ CLUSTER_SIZE \in Nat \ {0} /\ FIFO_DEPTH \in Nat \ {0}
    /\ WriteGap \in Nat /\ MaxFound \in Nat
    /\ NoResult \notin 1 .. MaxFound

Engine == 0 .. CLUSTER_SIZE - 1
Result == 1 .. MaxFound            \* the results, in the order in which they are found
Slot == 0 .. FIFO_DEPTH - 1

\* What a register write does to the result path: CONTROL with one of its three
\* bits, RESULT_STATUS with the result bit (miner_read_result) or both bits
\* (miner_clear).  Any other write, and a start during a load, is "none".
Writes == {"none", "start", "stop", "clear", "result", "status"}
DropsResult(w) == w \in {"start", "clear", "result", "status"}
DropsOverflow(w) == w \in {"start", "clear", "status"}

VARIABLES
    engine_valid,                                \* engine_result_valid with the nonces
    stage1, stage1_overflow, stage2, stage2_overflow,
    mem, wr_ptr, rd_ptr, count, clear_q, overflow_o,
    pulse,                                       \* start_pulse_q, stop_pulse_q or clear_results_q
    cluster_pop, result, overflow,               \* cluster_pop_q, result_valid_q, overflow_q
    gap, found,
    last, lost, cleared                          \* history, see Clock

pathVars == <<engine_valid, stage1, stage1_overflow, stage2, stage2_overflow, mem, wr_ptr, rd_ptr,
              count, clear_q, overflow_o, pulse, cluster_pop, result, overflow, gap, found,
              last, lost, cleared>>

PerEngine == [Engine -> Result \cup {NoResult}]
PathTypeOK ==
    /\ engine_valid \in PerEngine /\ stage1 \in PerEngine /\ stage2 \in Result \cup {NoResult}
    /\ stage1_overflow \in BOOLEAN /\ stage2_overflow \in BOOLEAN /\ overflow_o \in BOOLEAN
    /\ mem \in [Slot -> Result \cup {NoResult}]
    /\ wr_ptr \in Slot /\ rd_ptr \in Slot /\ count \in 0 .. FIFO_DEPTH
    /\ clear_q \in BOOLEAN /\ pulse \in BOOLEAN /\ cluster_pop \in BOOLEAN
    /\ result \in Result \cup {NoResult} /\ overflow \in BOOLEAN
    /\ gap \in 0 .. WriteGap /\ found \in 0 .. MaxFound
    /\ last \in 0 .. MaxFound /\ lost \in BOOLEAN /\ cleared \in 0 .. MaxFound

PathInit ==
    /\ engine_valid = [e \in Engine |-> NoResult] /\ stage1 = [e \in Engine |-> NoResult]
    /\ stage2 = NoResult
    /\ stage1_overflow = FALSE /\ stage2_overflow = FALSE /\ overflow_o = FALSE
    /\ mem = [s \in Slot |-> NoResult] /\ wr_ptr = 0 /\ rd_ptr = 0 /\ count = 0
    /\ clear_q = FALSE /\ pulse = FALSE /\ cluster_pop = FALSE
    /\ result = NoResult /\ overflow = FALSE /\ gap = 0 /\ found = 0
    /\ last = 0 /\ lost = FALSE /\ cleared = 0

-----------------------------------------------------------------------------
(* bitcoin_result_cluster_fifo                                              *)

Hits(stage) == {e \in Engine : stage[e] # NoResult}
FirstHit == CHOOSE e \in Hits(stage1) : \A f \in Hits(stage1) : e <= f

do_pop == cluster_pop /\ count # 0
do_push == stage2 # NoResult /\ (count < FIFO_DEPTH \/ do_pop)

Advance(p) == IF p = FIFO_DEPTH - 1 THEN 0 ELSE p + 1

\* Faulty variant of FifoClear: the second stage keeps its result.
FifoClearRing ==
    /\ wr_ptr' = 0 /\ rd_ptr' = 0 /\ count' = 0 /\ overflow_o' = FALSE
    /\ stage1' = [e \in Engine |-> NoResult] /\ stage1_overflow' = FALSE
    /\ UNCHANGED <<mem, stage2, stage2_overflow>>

\* clear_q: the ring and the stages are emptied.
FifoClear ==
    /\ wr_ptr' = 0 /\ rd_ptr' = 0 /\ count' = 0 /\ overflow_o' = FALSE
    /\ stage1' = [e \in Engine |-> NoResult] /\ stage1_overflow' = FALSE
    /\ stage2' = NoResult /\ stage2_overflow' = FALSE
    /\ UNCHANGED mem

\* Faulty variant of Stages: several results in one clock raise no overflow.
StagesWithoutOverflow ==
    /\ stage1' = engine_valid
    /\ stage1_overflow' = FALSE
    /\ stage2' = IF Hits(stage1) = {} THEN NoResult ELSE stage1[FirstHit]
    /\ stage2_overflow' = stage1_overflow

\* Stage 1 registers the engines' results, stage 2 keeps the first of them.
Stages ==
    /\ stage1' = engine_valid
    /\ stage1_overflow' = (Cardinality(Hits(engine_valid)) > 1)
    /\ stage2' = IF Hits(stage1) = {} THEN NoResult ELSE stage1[FirstHit]
    /\ stage2_overflow' = (stage1_overflow \/ Cardinality(Hits(stage1)) > 1)

\* Faulty variant of Ring: a push in the clock of a pop counts as a push alone.
RingPushWins ==
    /\ mem' = IF do_push THEN [mem EXCEPT ![wr_ptr] = stage2] ELSE mem
    /\ wr_ptr' = IF do_push THEN Advance(wr_ptr) ELSE wr_ptr
    /\ rd_ptr' = IF do_pop THEN Advance(rd_ptr) ELSE rd_ptr
    /\ count' = IF do_push THEN count + 1 ELSE IF do_pop THEN count - 1 ELSE count
    /\ overflow_o' = (overflow_o \/ (stage2 # NoResult /\ ~do_push) \/ stage2_overflow)

Ring ==
    /\ mem' = IF do_push THEN [mem EXCEPT ![wr_ptr] = stage2] ELSE mem
    /\ wr_ptr' = IF do_push THEN Advance(wr_ptr) ELSE wr_ptr
    /\ rd_ptr' = IF do_pop THEN Advance(rd_ptr) ELSE rd_ptr
    /\ count' = count + (IF do_push THEN 1 ELSE 0) - (IF do_pop THEN 1 ELSE 0)
    /\ overflow_o' = (overflow_o \/ (stage2 # NoResult /\ ~do_push) \/ stage2_overflow)

Fifo ==
    /\ clear_q' = pulse
    /\ IF clear_q THEN FifoClear ELSE Stages /\ Ring

-----------------------------------------------------------------------------
(* bitcoin_miner_axi: CONTROL and RESULT_STATUS, then the capture, which    *)
(* comes later in the always block and so wins.                             *)

Capture == result = NoResult /\ count # 0

\* Faulty variant of Capturing: a write in the clock of the capture loses the pop.
CapturingLosesPop(w) ==
    /\ result' = IF Capture THEN mem[rd_ptr] ELSE IF DropsResult(w) THEN NoResult ELSE result
    /\ cluster_pop' = (Capture /\ w = "none")
    /\ last' = IF Capture THEN mem[rd_ptr] ELSE last

Capturing(w) ==
    /\ result' = IF Capture THEN mem[rd_ptr] ELSE IF DropsResult(w) THEN NoResult ELSE result
    /\ cluster_pop' = Capture
    /\ last' = IF Capture THEN mem[rd_ptr] ELSE last

Register(w) ==
    /\ pulse' = (w \in {"start", "stop", "clear"})
    /\ overflow' = (overflow_o \/ (overflow /\ ~DropsOverflow(w)))
    /\ Capturing(w)
    /\ gap' = IF w # "none" THEN WriteGap ELSE IF gap > 0 THEN gap - 1 ELSE 0

\* The engines of S meet the target; the k-th of them gives result found + k.
Pulses(S) ==
    /\ found + Cardinality(S) <= MaxFound
    /\ found' = found + Cardinality(S)
    /\ engine_valid' = [e \in Engine |->
          IF e \in S THEN found + Cardinality({f \in S : f <= e}) ELSE NoResult]

\* The results that are on their way to the result register.
InRing == {mem[(rd_ptr + k) % FIFO_DEPTH] : k \in (IF cluster_pop THEN 1 ELSE 0) .. count - 1}
OnTheWay ==
    ({engine_valid[e] : e \in Engine} \cup {stage1[e] : e \in Engine} \cup {stage2} \cup InRing)
        \ {NoResult}

\* One clock.  last: the result captured last; lost: since the FIFO was last
\* cleared a result disappeared without reaching the result register; cleared:
\* the results found by then.
Clock(S, w) ==
    /\ w # "none" => gap = 0
    /\ Fifo
    /\ Register(w)
    /\ Pulses(S)
    /\ lost' = (~clear_q /\ (lost \/ ~(OnTheWay \subseteq OnTheWay' \cup {last'})))
    /\ cleared' = IF clear_q THEN found ELSE cleared

PathNext == \E S \in SUBSET Engine, w \in Writes : Clock(S, w)
PathSpec == PathInit /\ [][PathNext]_pathVars

-----------------------------------------------------------------------------
(* Properties                                                               *)

\* The result register receives the results in the order in which the engines
\* found them and none of them twice, although the FIFO drops its head a clock
\* after the capture and writes empty the register at any time.
CapturedOnceInOrder == [][result' \notin {result, NoResult} => result' > last]_pathVars

\* A clear of the FIFO is complete: no result found before it is captured after
\* it.  The clear takes effect two clocks after the write to CONTROL; until then,
\* in the clock of the clear included, a result of the old range may still reach
\* the result register.
ClearedIsGone == [][result' \notin {result, NoResult} => result' > cleared]_pathVars

\* bitcoin_result_cluster_fifo reports every loss: when a result has been
\* dropped (two in one clock, or a full ring) overflow_o is set or about to be.
LossIsReported == lost => overflow_o \/ stage2_overflow \/ stage1_overflow

\* The ring of bitcoin_result_cluster_fifo is a bounded queue.
Queue == INSTANCE ResultQueue WITH
           Depth <- FIFO_DEPTH, Item <- Result,
           q <- [k \in 1 .. count |-> mem[(rd_ptr + k - 1) % FIFO_DEPTH]]
ImplementsQueue == Queue!Spec
=============================================================================
