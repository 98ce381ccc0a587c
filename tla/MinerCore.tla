------------------------------ MODULE MinerCore ------------------------------
(***************************************************************************)
(* One miner instance clock by clock, from the CONTROL register to the     *)
(* digest that is compared: the load state machine and the running and     *)
(* done flags of bitcoin_miner_axi, the state machine of                   *)
(* bitcoin_hash_engine and the start, busy and done of its SHA core.       *)
(*                                                                         *)
(* A digest is what was hashed and how often; the results on their way to  *)
(* the result register are in ResultPath.  Time is scaled: a compression   *)
(* takes ShaClocks clocks (256 in the hardware), the eight clocks of       *)
(* ST_COMPARE are one, and register writes are WriteGap clocks apart.      *)
(***************************************************************************)
EXTENDS Integers

CONSTANTS
    NumEngines,   \* NUM_ENGINES and NONCE_STRIDE
    ShaClocks,    \* clocks of one compression
    WriteGap,     \* clocks between two applied register writes, at least
    Counts,       \* the values of NONCE_COUNT
    MaxWrites     \* bound: register writes

\* The engines that were loaded first are still hashing when the last one is
\* loaded, three clocks for each (32 engines and 512 clocks in the hardware).  A
\* single engine would be reported as done in the clock of its start.
ASSUME CoreAssumption ==
    /\ NumEngines \in Nat \ {0, 1} /\ ShaClocks \in Nat \ {0}
    /\ 3 * NumEngines < 2 * ShaClocks
    /\ WriteGap \in Nat /\ MaxWrites \in Nat /\ Counts \subseteq Nat

Engine == 0 .. NumEngines - 1
Job == {0, 1}   \* MIDSTATE, HEADER_TAIL and TARGET: one job and the next one

\* A CONTROL write with one of its bits, or no write in this clock; the registers
\* of the next job are written in one clock ("job").
Controls == {"none", "start", "stop", "clear"}

\* A digest: compressed hashes times, 3 standing for more than twice.
Digest == [job : Job, nonce : Nat, hashes : 0 .. 3]

VARIABLES
    job, count,              \* the job registers and nonce_count_q
    running, nonce_done, start_pulse,
    load, load_idx,          \* load_state_q, load_engine_idx_q
    slice,                   \* engine_nonce_start_q and engine_nonce_count_q
    engine_start, engine_stop,
    state, launch,           \* of an engine: state_q, launch_state_q
    ejob, nonce, remaining, digest, core_start, done,
    sha, sha_left, sha_done, \* of its core: what it compresses, clocks left, done_o
    gap, written,            \* the environment: clocks to wait, writes so far
    todo, misused, rushed    \* history, see History

regVars == <<job, count, running, nonce_done, start_pulse>>
loadVars == <<load, load_idx, slice, engine_start, engine_stop>>
engineVars == <<state, launch, ejob, nonce, remaining, digest, core_start, done>>
coreVars == <<sha, sha_left, sha_done>>
vars == <<regVars, loadVars, engineVars, coreVars, gap, written, todo, misused, rushed>>

\* Every register keeps its type; nonces are relative to NONCE_START.
TypeOK ==
    /\ job \in Job /\ count \in Counts
    /\ running \in BOOLEAN /\ nonce_done \in BOOLEAN /\ start_pulse \in BOOLEAN
    /\ load \in {"IDLE", "PREP", "DECODE", "START"} /\ load_idx \in Engine
    /\ slice \in [Engine -> [start : Nat, count : Nat]]
    /\ engine_start \in [Engine -> BOOLEAN] /\ engine_stop \in BOOLEAN
    /\ state \in [Engine -> {"IDLE", "LAUNCH", "PASS1", "PASS2", "COMPARE", "CHECK"}]
    /\ launch \in [Engine -> {"PASS1", "PASS2"}]
    /\ ejob \in [Engine -> Job] /\ nonce \in [Engine -> Nat] /\ remaining \in [Engine -> Nat]
    /\ digest \in [Engine -> Digest] /\ sha \in [Engine -> Digest]
    /\ core_start \in [Engine -> BOOLEAN] /\ done \in [Engine -> BOOLEAN]
    /\ sha_left \in [Engine -> 0 .. ShaClocks] /\ sha_done \in [Engine -> BOOLEAN]
    /\ gap \in 0 .. WriteGap /\ written \in 0 .. MaxWrites
    /\ todo \subseteq Nat /\ misused \in BOOLEAN /\ rushed \subseteq Engine

NoDigest == [job |-> 0, nonce |-> 0, hashes |-> 0]
None == [e \in Engine |-> FALSE]

\* Out of reset; the software has written a first job.
Init ==
    /\ job = 0 /\ count \in Counts
    /\ running = FALSE /\ nonce_done = FALSE /\ start_pulse = FALSE
    /\ load = "IDLE" /\ load_idx = 0
    /\ slice = [e \in Engine |-> [start |-> 0, count |-> 0]]
    /\ engine_start = None /\ engine_stop = FALSE
    /\ state = [e \in Engine |-> "IDLE"] /\ launch = [e \in Engine |-> "PASS1"]
    /\ ejob = [e \in Engine |-> 0] /\ nonce = [e \in Engine |-> 0]
    /\ remaining = [e \in Engine |-> 0] /\ digest = [e \in Engine |-> NoDigest]
    /\ core_start = None /\ done = None
    /\ sha = [e \in Engine |-> NoDigest] /\ sha_left = [e \in Engine |-> 0] /\ sha_done = None
    /\ gap = 0 /\ written = 0 /\ todo = {} /\ misused = FALSE /\ rushed = {}

-----------------------------------------------------------------------------
(* The SHA core: a start is ignored while it is busy, and nothing stops it. *)

core_busy(e) == sha_left[e] > 0

\* The block that the engine presents: the header with its nonce, or its digest.
Block(e) ==
    IF launch[e] = "PASS1" THEN [job |-> ejob[e], nonce |-> nonce[e], hashes |-> 0] ELSE digest[e]
Compressed(d) == [d EXCEPT !.hashes = IF @ < 3 THEN @ + 1 ELSE 3]

Accepts(e) == core_start[e] /\ ~core_busy(e)

Core ==
    /\ sha' = [e \in Engine |-> IF Accepts(e) THEN Block(e) ELSE sha[e]]
    /\ sha_left' = [e \in Engine |-> IF Accepts(e) THEN ShaClocks
                                     ELSE IF core_busy(e) THEN sha_left[e] - 1 ELSE 0]
    /\ sha_done' = [e \in Engine |-> sha_left[e] = 1]

-----------------------------------------------------------------------------
(* The hash engine.  Each operator gives the next values of an engine's     *)
(* registers, those of e unless they say otherwise.                         *)

Regs(e) == [state |-> state[e], launch |-> launch[e], ejob |-> ejob[e], nonce |-> nonce[e],
            remaining |-> remaining[e], digest |-> digest[e], start |-> FALSE, done |-> FALSE]

Takes(e) == engine_start[e] /\ slice[e].count # 0

Idle(e) ==
    IF Takes(e)
    THEN [Regs(e) EXCEPT !.state = "LAUNCH", !.launch = "PASS1", !.ejob = job,
                         !.nonce = slice[e].start, !.remaining = slice[e].count,
                         !.digest = NoDigest]
    ELSE Regs(e)

Launch(e) == [Regs(e) EXCEPT !.start = TRUE, !.state = launch[e]]

Pass1(e) ==
    IF sha_done[e]
    THEN [Regs(e) EXCEPT !.digest = Compressed(sha[e]), !.launch = "PASS2", !.state = "LAUNCH"]
    ELSE Regs(e)

Pass2(e) ==
    IF sha_done[e]
    THEN [Regs(e) EXCEPT !.digest = Compressed(sha[e]), !.state = "COMPARE"]
    ELSE Regs(e)

Compare(e) == [Regs(e) EXCEPT !.state = "CHECK"]

\* Faulty variants of Check: one nonce too few, or core_first_pass_q not set again.
CheckEarly(e) ==
    IF remaining[e] <= 2
    THEN [Regs(e) EXCEPT !.done = TRUE, !.state = "IDLE"]
    ELSE [Regs(e) EXCEPT !.remaining = @ - 1, !.nonce = @ + NumEngines,
                         !.launch = "PASS1", !.state = "LAUNCH"]
CheckKeepsPass(e) ==
    IF remaining[e] <= 1
    THEN [Regs(e) EXCEPT !.done = TRUE, !.state = "IDLE"]
    ELSE [Regs(e) EXCEPT !.remaining = @ - 1, !.nonce = @ + NumEngines, !.state = "LAUNCH"]

Check(e) ==
    IF remaining[e] <= 1
    THEN [Regs(e) EXCEPT !.done = TRUE, !.state = "IDLE"]
    ELSE [Regs(e) EXCEPT !.remaining = @ - 1, !.nonce = @ + NumEngines,
                         !.launch = "PASS1", !.state = "LAUNCH"]

EngineStep(e) ==
    IF engine_stop THEN [Regs(e) EXCEPT !.state = "IDLE", !.done = (state[e] # "IDLE")]
    ELSE CASE state[e] = "IDLE" -> Idle(e)
           [] state[e] = "LAUNCH" -> Launch(e)
           [] state[e] = "PASS1" -> Pass1(e)
           [] state[e] = "PASS2" -> Pass2(e)
           [] state[e] = "COMPARE" -> Compare(e)
           [] state[e] = "CHECK" -> Check(e)

EngineClock ==
    /\ state' = [e \in Engine |-> EngineStep(e).state]
    /\ launch' = [e \in Engine |-> EngineStep(e).launch]
    /\ ejob' = [e \in Engine |-> EngineStep(e).ejob]
    /\ nonce' = [e \in Engine |-> EngineStep(e).nonce]
    /\ remaining' = [e \in Engine |-> EngineStep(e).remaining]
    /\ digest' = [e \in Engine |-> EngineStep(e).digest]
    /\ core_start' = [e \in Engine |-> EngineStep(e).start]
    /\ done' = [e \in Engine |-> EngineStep(e).done]

busy(e) == state[e] # "IDLE" \/ core_busy(e)

-----------------------------------------------------------------------------
(* bitcoin_miner_axi.  In the always block the load state machine comes     *)
(* after the register write and the completion after both, so each of them  *)
(* overrides what comes before it.                                          *)

engine_work_count(e) == IF count > e THEN ((count - 1 - e) \div NumEngines) + 1 ELSE 0

Started(w) == w = "start" /\ load = "IDLE"

load_last == load_idx = NumEngines - 1

Load(w) ==
    /\ load' = CASE load = "IDLE" -> IF Started(w) THEN "PREP" ELSE "IDLE"
                 [] load = "PREP" -> "DECODE"
                 [] load = "DECODE" -> "START"
                 [] load = "START" -> IF load_last THEN "IDLE" ELSE "PREP"
    /\ load_idx' = CASE Started(w) -> 0
                     [] load = "START" /\ ~load_last -> load_idx + 1
                     [] OTHER -> load_idx
    /\ slice' = IF load = "PREP"
                THEN [slice EXCEPT ![load_idx] = [start |-> load_idx,
                                                  count |-> engine_work_count(load_idx)]]
                ELSE slice
    /\ engine_start' = [e \in Engine |-> load = "START" /\ e = load_idx /\ slice[e].count # 0]
    /\ engine_stop' = (w = "stop")

\* Faulty variants of Completes: during the load too, or only when all engines
\* finish in one clock.
CompletesLoading == running /\ ~start_pulse /\ \A e \in Engine : ~busy(e)
CompletesTogether == running /\ load = "IDLE" /\ ~start_pulse /\ \A e \in Engine : done[e]

\* The range is complete: no engine is busy, or all of them finish in this clock.
Completes ==
    /\ running /\ load = "IDLE" /\ ~start_pulse
    /\ (\A e \in Engine : ~busy(e)) \/ (\A e \in Engine : done[e])

Register(w, c) ==
    /\ start_pulse' = Started(w)
    /\ running' = (~Completes /\ (Started(w) \/ (running /\ w # "stop")))
    /\ nonce_done' = (Completes \/ w = "stop" \/ (nonce_done /\ ~Started(w) /\ w # "clear"))
    /\ count' = c
    /\ job' = IF w = "job" THEN 1 - job ELSE job

\* todo: nonces of the slices loaded since the last start that no engine has
\* compared.  misused: the last start came while running_q was set or an engine was
\* hashing, or a stop or the next job came during the load.  rushed: the engine was
\* started while its core was still busy, and is at its first nonce.
History(w) ==
    /\ todo' = IF Started(w) THEN {}
               ELSE (todo \cup {load_idx + k * NumEngines : k \in IF load = "PREP"
                                  THEN 0 .. engine_work_count(load_idx) - 1 ELSE {}})
                      \ {nonce[e] : e \in {f \in Engine : state[f] = "COMPARE" /\ ~engine_stop}}
    /\ misused' = IF Started(w) THEN running \/ \E e \in Engine : state[e] # "IDLE"
                  ELSE misused \/ (w \in {"stop", "job"} /\ load # "IDLE")
    /\ rushed' = {e \in Engine :
                    \/ state[e] = "IDLE" /\ Takes(e) /\ (core_busy(e) \/ core_start[e])
                    \/ e \in rushed /\ state[e] \notin {"IDLE", "CHECK"}}

\* One clock with write w, after which NONCE_COUNT is c.
Clock(w, c) ==
    /\ IF w = "none" THEN gap' = (IF gap > 0 THEN gap - 1 ELSE 0) /\ written' = written
       ELSE gap = 0 /\ written < MaxWrites /\ gap' = WriteGap /\ written' = written + 1
    /\ Register(w, c)
    /\ Load(w)
    /\ EngineClock
    /\ Core
    /\ History(w)

Next ==
    \/ \E w \in Controls : Clock(w, count)
    \/ \E c \in Counts : Clock("job", c)
Spec == Init /\ [][Next]_vars
FairSpec == Spec /\ WF_vars(Next)

-----------------------------------------------------------------------------
(* Properties                                                               *)

Hashing == load # "IDLE" \/ \E e \in Engine : state[e] # "IDLE"

\* STATUS.running tells the truth: while engines are being loaded or hash, it is
\* set, unless a stop is on its way to the engines.  refill_if_idle and miner_task
\* rely on it.  The exceptions are those of misused: a start before the range has
\* ended, which the completion can overwrite, a stop during the load, which the
\* load state machine ignores, and a count that changes during the load.
RunningTruthful == Hashing /\ ~misused => running \/ engine_stop

\* The digest that is compared with the target is the double hash of the engine's
\* own job and nonce.  A stop leaves the SHA core running; when the engine starts
\* again before it has finished, the done of the old pass spoils the first nonce
\* and no other.
OwnDigest ==
    \A e \in Engine : state[e] = "COMPARE" /\ e \notin rushed =>
        digest[e] = [job |-> ejob[e], nonce |-> nonce[e], hashes |-> 2]

\* nonce_done_q is not raised before every nonce of the range has been compared,
\* unless the range was stopped or misused.
CompletesAfterAll == [][Completes /\ ~misused => todo = {}]_vars

\* Every range ends, also one that was stopped during the load or started again too
\* soon: running_q falls, the load state machine is idle and no engine hashes, unless
\* another start comes first.
RangeEnds == (running \/ Hashing) ~> ((~running /\ ~Hashing) \/ start_pulse)
=============================================================================
