------------------------------ MODULE NonceScan ------------------------------
(***************************************************************************)
(* How a nonce range is divided: miner_start_range (miner_regs.c) gives    *)
(* every instance a contiguous part, the load state machine of             *)
(* bitcoin_miner_axi.sv gives engine e of an instance every NumEngines-th  *)
(* nonce of that part, and bitcoin_hash_engine.sv steps through them.      *)
(* Nonces and counts are unsigned words of WordMod values.                 *)
(***************************************************************************)
EXTENDS Integers

CONSTANTS
    NumInst,      \* MINER_AXI_INSTANCES
    NumEngines,   \* NUM_ENGINES, which is also NONCE_STRIDE
    WordMod       \* 2^32

ASSUME ScanAssumption ==
    /\ NumInst \in Nat \ {0} /\ NumEngines \in Nat \ {0}
    /\ WordMod \in Nat \ {0} /\ NumEngines < WordMod

Inst == 0 .. NumInst - 1
Engines == 0 .. NumEngines - 1
Word == 0 .. WordMod - 1

\* Addition of two words.
Plus(a, b) == IF a + b < WordMod THEN a + b ELSE a + b - WordMod

VARIABLES
    nonce_start, nonce_count,       \* arguments of miner_start_range
    inst, range_start,              \* its loop
    nonce_start_q, nonce_count_q,   \* NONCE_START and NONCE_COUNT of an instance
    load_engine_idx,                \* next engine to be loaded; NumEngines: LOAD_IDLE
    nonce_q, remaining_q,           \* an engine; remaining_q = 0: ST_IDLE
    scanned                         \* history: the nonces hashed so far

scanVars == <<nonce_start, nonce_count, inst, range_start, nonce_start_q, nonce_count_q,
              load_engine_idx, nonce_q, remaining_q, scanned>>

ScanTypeOK ==
    /\ nonce_start \in Word /\ nonce_count \in Word
    /\ inst \in 0 .. NumInst /\ range_start \in Word
    /\ nonce_start_q \in [Inst -> Word] /\ nonce_count_q \in [Inst -> Word]
    /\ load_engine_idx \in [Inst -> 0 .. NumEngines]
    /\ nonce_q \in [Inst \X Engines -> Word] /\ remaining_q \in [Inst \X Engines -> Word]
    /\ scanned \subseteq Word

ScanInit ==
    /\ nonce_start \in Word /\ nonce_count \in Word
    /\ inst = 0 /\ range_start = nonce_start
    /\ nonce_start_q = [i \in Inst |-> 0] /\ nonce_count_q = [i \in Inst |-> 0]
    /\ load_engine_idx = [i \in Inst |-> NumEngines]
    /\ nonce_q = [p \in Inst \X Engines |-> 0] /\ remaining_q = [p \in Inst \X Engines |-> 0]
    /\ scanned = {}

\* Faulty variants of range_count: the remainder is left out, or rounded up.
range_count_floor(i) == nonce_count \div NumInst
range_count_ceil(i) == (nonce_count \div NumInst) + 1

\* The part of the range that instance i gets.
range_count(i) ==
    (nonce_count \div NumInst) + IF i < nonce_count % NumInst THEN 1 ELSE 0

\* One iteration of miner_start_range.
StartInstance ==
    /\ inst < NumInst
    /\ nonce_start_q' = [nonce_start_q EXCEPT ![inst] = range_start]
    /\ nonce_count_q' = [nonce_count_q EXCEPT ![inst] = range_count(inst)]
    /\ load_engine_idx' = [load_engine_idx EXCEPT ![inst] = 0]
    /\ range_start' = Plus(range_start, range_count(inst))
    /\ inst' = inst + 1
    /\ UNCHANGED <<nonce_start, nonce_count, nonce_q, remaining_q, scanned>>

\* How many of the total nonces of an instance engine e hashes.
engine_work_count(total, e) ==
    IF total > e THEN ((total - 1 - e) \div NumEngines) + 1 ELSE 0

\* LOAD_PREP, LOAD_DECODE and LOAD_START for one engine: an engine without work
\* is not started.
LoadEngine(i) ==
    LET e == load_engine_idx[i]
        work == engine_work_count(nonce_count_q[i], e)
    IN
    /\ e < NumEngines
    /\ IF work = 0
       THEN UNCHANGED <<nonce_q, remaining_q>>
       ELSE /\ nonce_q' = [nonce_q EXCEPT ![<<i, e>>] = Plus(nonce_start_q[i], e)]
            /\ remaining_q' = [remaining_q EXCEPT ![<<i, e>>] = work]
    /\ load_engine_idx' = [load_engine_idx EXCEPT ![i] = e + 1]
    /\ UNCHANGED <<nonce_start, nonce_count, inst, range_start, nonce_start_q, nonce_count_q,
                   scanned>>

\* Faulty variant of NextNonce: consecutive nonces.
NextNonceByOne(n) == Plus(n, 1)

NextNonce(n) == Plus(n, NumEngines)

\* ST_LAUNCH to ST_CHECK: the engine hashes its nonce and moves on, or stops.
HashNonce(p) ==
    /\ remaining_q[p] > 0
    /\ scanned' = scanned \cup {nonce_q[p]}
    /\ remaining_q' = [remaining_q EXCEPT ![p] = @ - 1]
    /\ nonce_q' = IF remaining_q[p] = 1 THEN nonce_q
                  ELSE [nonce_q EXCEPT ![p] = NextNonce(@)]
    /\ UNCHANGED <<nonce_start, nonce_count, inst, range_start, nonce_start_q, nonce_count_q,
                   load_engine_idx>>

ScanNext ==
    \/ StartInstance
    \/ \E i \in Inst : LoadEngine(i)
    \/ \E p \in Inst \X Engines : HashNonce(p)

ScanSpec == ScanInit /\ [][ScanNext]_scanVars

-----------------------------------------------------------------------------
(***************************************************************************)
(* Properties.                                                             *)
(***************************************************************************)
\* "... all 128 engines together cover the programmed range without intentional
\* overlap" (theory_of_operation.md:108).  No overlap: the nonce an engine is
\* about to hash has not been hashed.
NoOverlap == \A p \in Inst \X Engines : remaining_q[p] > 0 => nonce_q[p] \notin scanned

\* No engine leaves the range, whatever the other ones still have to do.
NonceRange == {Plus(nonce_start, o) : o \in 0 .. nonce_count - 1}
InsideRange == scanned \subseteq NonceRange

\* Coverage: when every instance has been started and loaded and every engine is
\* idle, the whole range has been hashed.
Complete ==
    /\ inst = NumInst
    /\ \A i \in Inst : load_engine_idx[i] = NumEngines
    /\ \A p \in Inst \X Engines : remaining_q[p] = 0
Covered == Complete => scanned = NonceRange
=============================================================================
