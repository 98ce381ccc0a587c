--------------------------- MODULE MinerCoreProofs ---------------------------
(***************************************************************************)
(* Proofs about MinerCore: types, and that a compared digest is the double *)
(* hash of the engine's own job and nonce, for any number of engines and   *)
(* any length of a compression.                                            *)
(***************************************************************************)
EXTENDS MinerCore, TLAPS

States == {"IDLE", "LAUNCH", "PASS1", "PASS2", "COMPARE", "CHECK"}

EngineType ==
    [state : States, launch : {"PASS1", "PASS2"}, ejob : Job, nonce : Nat, remaining : Nat,
     digest : Digest, start : BOOLEAN, done : BOOLEAN]

-----------------------------------------------------------------------------
(* Types *)

LEMMA CompressedType == ASSUME NEW d \in Digest PROVE Compressed(d) \in Digest
  BY DEF Compressed, Digest

LEMMA StepType == ASSUME TypeOK, NEW e \in Engine PROVE EngineStep(e) \in EngineType
<1>1. /\ state[e] \in States /\ launch[e] \in {"PASS1", "PASS2"} /\ ejob[e] \in Job /\ nonce[e] \in Nat
      /\ remaining[e] \in Nat /\ digest[e] \in Digest /\ sha[e] \in Digest /\ job \in Job
      /\ slice[e].start \in Nat /\ slice[e].count \in Nat /\ NumEngines \in Nat
  BY CoreAssumption DEF TypeOK, States
<1>2. Compressed(sha[e]) \in Digest /\ NoDigest \in Digest
  BY <1>1, CompressedType DEF NoDigest, Digest, Job
<1>3. Regs(e) \in EngineType
  BY <1>1 DEF Regs, EngineType
<1>4. Idle(e) \in EngineType
  BY <1>1, <1>2, <1>3, Zenon DEF Idle, Regs, EngineType, States
<1>5. Launch(e) \in EngineType
  BY <1>1, Zenon DEF Launch, Regs, EngineType, States
<1>6. Pass1(e) \in EngineType /\ Pass2(e) \in EngineType
  BY <1>1, <1>2, <1>3, Zenon DEF Pass1, Pass2, Regs, EngineType, States
<1>7. Compare(e) \in EngineType
  BY <1>1, Zenon DEF Compare, Regs, EngineType, States
<1>8. Check(e) \in EngineType
  <2>1. nonce[e] + NumEngines \in Nat /\ (~(remaining[e] <= 1) => remaining[e] - 1 \in Nat)
    BY <1>1
  <2> QED  BY <1>1, <2>1, Zenon DEF Check, Regs, EngineType, States
<1>9. [Regs(e) EXCEPT !.state = "IDLE", !.done = (state[e] # "IDLE")] \in EngineType
  BY <1>1, Zenon DEF Regs, EngineType, States
<1> QED
  BY <1>1, <1>4, <1>5, <1>6, <1>7, <1>8, <1>9 DEF EngineStep, States

LEMMA EngineTypes ==
  ASSUME TypeOK, EngineClock
  PROVE  /\ state' \in [Engine -> States] /\ launch' \in [Engine -> {"PASS1", "PASS2"}]
         /\ ejob' \in [Engine -> Job] /\ nonce' \in [Engine -> Nat] /\ remaining' \in [Engine -> Nat]
         /\ digest' \in [Engine -> Digest]
         /\ core_start' \in [Engine -> BOOLEAN] /\ done' \in [Engine -> BOOLEAN]
<1>1. \A e \in Engine :
        /\ EngineStep(e).state \in States /\ EngineStep(e).launch \in {"PASS1", "PASS2"}
        /\ EngineStep(e).ejob \in Job /\ EngineStep(e).nonce \in Nat
        /\ EngineStep(e).remaining \in Nat /\ EngineStep(e).digest \in Digest
        /\ EngineStep(e).start \in BOOLEAN /\ EngineStep(e).done \in BOOLEAN
  BY StepType DEF EngineType
<1> QED  BY <1>1, Zenon DEF EngineClock

LEMMA CoreTypes ==
  ASSUME TypeOK, Core
  PROVE  /\ sha' \in [Engine -> Digest] /\ sha_left' \in [Engine -> 0 .. ShaClocks]
         /\ sha_done' \in [Engine -> BOOLEAN]
<1>1. \A e \in Engine : Block(e) \in Digest /\ sha[e] \in Digest
  BY DEF TypeOK, Block, Digest
<1>2. sha' \in [Engine -> Digest]
  BY <1>1 DEF Core
<1>3. sha_left' \in [Engine -> 0 .. ShaClocks]
  BY CoreAssumption DEF Core, core_busy, TypeOK
<1>4. sha_done' \in [Engine -> BOOLEAN]
  BY DEF Core
<1> QED  BY <1>2, <1>3, <1>4

LEMMA WorkCountType == ASSUME TypeOK, NEW e \in Engine PROVE engine_work_count(e) \in Nat
<1>1. count \in Nat /\ e \in Nat /\ NumEngines \in Nat \ {0}
  BY CoreAssumption DEF TypeOK, Engine
<1>2. CASE count > e
  <2>1. count - 1 - e \in Nat
    BY <1>1, <1>2
  <2>2. \A a \in Nat, b \in Nat \ {0} : a \div b \in Nat
    OBVIOUS
  <2>3. (count - 1 - e) \div NumEngines \in Nat
    BY <1>1, <2>1, <2>2
  <2> QED  BY <1>2, <2>3 DEF engine_work_count
<1>3. CASE ~(count > e)
  BY <1>3 DEF engine_work_count
<1> QED  BY <1>2, <1>3

LEMMA LoadTypes ==
  ASSUME TypeOK, NEW w, Load(w)
  PROVE  /\ load' \in {"IDLE", "PREP", "DECODE", "START"} /\ load_idx' \in Engine
         /\ slice' \in [Engine -> [start : Nat, count : Nat]]
         /\ engine_start' \in [Engine -> BOOLEAN] /\ engine_stop' \in BOOLEAN
<1>1. load_idx \in Engine /\ Engine \subseteq Nat /\ 0 \in Engine
  BY CoreAssumption DEF TypeOK, Engine
<1>2. load' \in {"IDLE", "PREP", "DECODE", "START"}
  BY DEF Load, TypeOK
<1>3. load_idx' \in Engine
  BY <1>1, CoreAssumption DEF Load, load_last, Engine
<1>4. slice' \in [Engine -> [start : Nat, count : Nat]]
  BY <1>1, WorkCountType DEF Load, TypeOK
<1>5. engine_start' \in [Engine -> BOOLEAN] /\ engine_stop' \in BOOLEAN
  BY DEF Load
<1> QED  BY <1>2, <1>3, <1>4, <1>5

LEMMA TypeStep == ASSUME TypeOK, [Next]_vars PROVE TypeOK'
<1>1. ASSUME NEW w \in Controls \cup {"job"}, NEW c \in Counts, Clock(w, c) PROVE TypeOK'
  <2>1. Register(w, c) /\ Load(w) /\ EngineClock /\ Core /\ History(w)
    BY <1>1 DEF Clock
  <2>2. gap' \in 0 .. WriteGap /\ written' \in 0 .. MaxWrites
    BY <1>1, CoreAssumption DEF Clock, TypeOK
  <2>3. /\ running' \in BOOLEAN /\ nonce_done' \in BOOLEAN /\ start_pulse' \in BOOLEAN
        /\ count' \in Counts
    BY <2>1, Zenon DEF Register, Started
  <2>4. job' \in Job
    BY <2>1 DEF Register, Job, TypeOK
  <2>5. rushed' \subseteq Engine
    BY <2>1, Zenon DEF History
  <2>6. misused' \in BOOLEAN
    BY <2>1, Zenon DEF History, TypeOK
  <2>7. todo' \subseteq Nat
    <3>1. load_idx \in Nat /\ NumEngines \in Nat
      BY CoreAssumption DEF TypeOK, Engine
    <3>2. \A k \in 0 .. engine_work_count(load_idx) - 1 : load_idx + k * NumEngines \in Nat
      <4>1. engine_work_count(load_idx) \in Nat
        BY WorkCountType DEF TypeOK
      <4> QED  BY <3>1, <4>1
    <3>3. todo' \subseteq todo \cup {load_idx + k * NumEngines : k \in 0 .. engine_work_count(load_idx) - 1}
      BY <2>1 DEF History
    <3> QED  BY <3>2, <3>3 DEF TypeOK
  <2> QED
    BY <2>1, <2>2, <2>3, <2>4, <2>5, <2>6, <2>7, LoadTypes, EngineTypes, CoreTypes, Zenon
       DEF TypeOK, States
<1>2. CASE UNCHANGED vars
  BY <1>2, Zenon DEF TypeOK, vars, regVars, loadVars, engineVars, coreVars
<1>3. CASE Next
  <2>1. count \in Counts
    BY DEF TypeOK
  <2> QED  BY <1>1, <1>3, <2>1 DEF Next
<1> QED  BY <1>2, <1>3

LEMMA TypeInit == Init => TypeOK
<1> SUFFICES ASSUME Init PROVE TypeOK
  OBVIOUS
<1>1. 0 \in Engine /\ 0 \in 0 .. WriteGap /\ 0 \in 0 .. MaxWrites /\ 0 \in 0 .. ShaClocks /\ 0 \in Nat
      /\ NoDigest \in Digest /\ 0 \in Job
  BY CoreAssumption DEF Engine, NoDigest, Digest, Job
<1>2. [start |-> 0, count |-> 0] \in [start : Nat, count : Nat]
  OBVIOUS
<1> QED  BY <1>1, <1>2, Zenon DEF Init, TypeOK, None

\* Every register of the instance keeps its type.
THEOREM CoreTypeCorrect == Spec => []TypeOK
  BY TypeInit, TypeStep, PTL DEF Spec

-----------------------------------------------------------------------------
(***************************************************************************)
(* The engine and its core.  A pass ends with an idle core, even the       *)
(* first one of a rushed engine, so that the spoiled nonce is the only     *)
(* one.  This needs a compression of at least two clocks.                  *)
(***************************************************************************)
CoreInv(e) ==
    /\ sha_done[e] => sha_left[e] = 0
    /\ core_start[e] => state[e] \in {"PASS1", "PASS2"}
    /\ state[e] \in {"PASS1", "PASS2"} => launch[e] = state[e]
    /\ state[e] = "LAUNCH" /\ launch[e] = "PASS2" => ~sha_done[e] /\ sha_left[e] \in {0, ShaClocks}
    /\ state[e] = "PASS2" /\ core_start[e] => ~sha_done[e] /\ sha_left[e] \in {0, ShaClocks - 1}
    /\ state[e] = "PASS2" /\ ~core_start[e] => sha_left[e] > 0 \/ sha_done[e]
    /\ state[e] \in {"COMPARE", "CHECK"} => sha_left[e] = 0 /\ ~sha_done[e]

\* What an engine with an idle core at its start computes.
Own(e, hashes) == [job |-> ejob[e], nonce |-> nonce[e], hashes |-> hashes]
OwnInv(e) ==
    /\ state[e] = "LAUNCH" => sha_left[e] = 0 /\ ~sha_done[e]
    /\ state[e] \in {"PASS1", "PASS2"} /\ core_start[e] => sha_left[e] = 0 /\ ~sha_done[e]
    /\ state[e] \in {"LAUNCH", "PASS2"} /\ launch[e] = "PASS2" => digest[e] = Own(e, 1)
    /\ state[e] = "PASS1" /\ ~core_start[e] => sha[e] = Own(e, 0) /\ (sha_left[e] > 0 \/ sha_done[e])
    /\ state[e] = "PASS2" /\ ~core_start[e] => sha[e] = Own(e, 1)
    /\ state[e] = "COMPARE" => digest[e] = Own(e, 2)

DigestInv == \A e \in Engine : CoreInv(e) /\ (e \notin rushed => OwnInv(e))

\* The core in one clock.
LEMMA CoreStep ==
  ASSUME TypeOK, Core, NEW e \in Engine
  PROVE  /\ sha_left[e] \in 0 .. ShaClocks /\ sha_left'[e] \in 0 .. ShaClocks
         /\ sha_done'[e] <=> sha_left[e] = 1
         /\ Accepts(e) => sha'[e] = Block(e) /\ sha_left'[e] = ShaClocks /\ sha_left[e] = 0
         /\ ~Accepts(e) => /\ sha'[e] = sha[e]
                           /\ sha_left'[e] = IF sha_left[e] > 0 THEN sha_left[e] - 1 ELSE 0
         /\ Accepts(e) <=> core_start[e] /\ sha_left[e] = 0
<1>1. sha_left[e] \in 0 .. ShaClocks /\ sha_left'[e] \in 0 .. ShaClocks
  BY CoreTypes DEF TypeOK
<1>2. /\ sha'[e] = IF Accepts(e) THEN Block(e) ELSE sha[e]
      /\ sha_left'[e] = IF Accepts(e) THEN ShaClocks
                        ELSE IF core_busy(e) THEN sha_left[e] - 1 ELSE 0
      /\ sha_done'[e] = (sha_left[e] = 1)
  BY DEF Core
<1>3. Accepts(e) <=> core_start[e] /\ sha_left[e] = 0
  BY <1>1, CoreAssumption DEF Accepts, core_busy
<1> QED  BY <1>1, <1>2, <1>3, Zenon DEF core_busy

\* The engine in one clock, state by state.
LEMMA EngineMoves ==
  ASSUME TypeOK, EngineClock, NEW e \in Engine
  PROVE  \/ state'[e] = "IDLE" /\ core_start'[e] = FALSE
         \/ /\ state[e] = "IDLE" /\ Takes(e) /\ state'[e] = "LAUNCH" /\ launch'[e] = "PASS1"
            /\ core_start'[e] = FALSE
         \/ /\ state[e] = "LAUNCH" /\ state'[e] = launch[e] /\ core_start'[e] = TRUE
            /\ launch'[e] = launch[e] /\ digest'[e] = digest[e] /\ Own(e, 0)' = Own(e, 0)
         \/ /\ state[e] = "PASS1" /\ sha_done[e] /\ state'[e] = "LAUNCH" /\ launch'[e] = "PASS2"
            /\ digest'[e] = Compressed(sha[e]) /\ Own(e, 0)' = Own(e, 0) /\ core_start'[e] = FALSE
         \/ /\ state[e] = "PASS2" /\ sha_done[e] /\ state'[e] = "COMPARE" /\ launch'[e] = launch[e]
            /\ digest'[e] = Compressed(sha[e]) /\ Own(e, 0)' = Own(e, 0) /\ core_start'[e] = FALSE
         \/ /\ state[e] \in {"PASS1", "PASS2"} /\ ~sha_done[e] /\ state'[e] = state[e]
            /\ launch'[e] = launch[e] /\ digest'[e] = digest[e] /\ Own(e, 0)' = Own(e, 0)
            /\ core_start'[e] = FALSE
         \/ state[e] = "COMPARE" /\ state'[e] = "CHECK" /\ core_start'[e] = FALSE
         \/ /\ state[e] = "CHECK" /\ state'[e] = "LAUNCH" /\ launch'[e] = "PASS1"
            /\ core_start'[e] = FALSE
<1> DEFINE s == EngineStep(e)
<1>1. /\ state'[e] = s.state /\ launch'[e] = s.launch /\ ejob'[e] = s.ejob /\ nonce'[e] = s.nonce
      /\ digest'[e] = s.digest /\ core_start'[e] = s.start
  BY Zenon DEF EngineClock
<1>2. state[e] \in States
  BY DEF TypeOK, States
<1>3. CASE engine_stop
  <2>1. s.state = "IDLE" /\ s.start = FALSE
    BY <1>3 DEF EngineStep, Regs
  <2> QED  BY <1>1, <2>1, Zenon
<1>4. CASE ~engine_stop /\ state[e] = "IDLE"
  <2>1. s = Idle(e)
    BY <1>4, SMTT(60) DEF EngineStep
  <2>2. CASE Takes(e)
    <3>1. s.state = "LAUNCH" /\ s.launch = "PASS1" /\ s.start = FALSE
      BY <2>1, <2>2 DEF Idle, Regs
    <3> QED  BY <1>1, <1>4, <2>2, <3>1, Zenon
  <2>3. CASE ~Takes(e)
    <3>1. s.state = "IDLE" /\ s.start = FALSE
      BY <1>4, <2>1, <2>3 DEF Idle, Regs
    <3> QED  BY <1>1, <3>1
  <2> QED  BY <2>2, <2>3, Zenon
<1>5. CASE ~engine_stop /\ state[e] = "LAUNCH"
  <2>1. /\ s.state = launch[e] /\ s.start = TRUE /\ s.launch = launch[e] /\ s.digest = digest[e]
        /\ s.ejob = ejob[e] /\ s.nonce = nonce[e]
    BY <1>5, Zenon DEF EngineStep, Launch, Regs
  <2> QED  BY <1>1, <1>5, <2>1 DEF Own
<1>6. CASE ~engine_stop /\ state[e] \in {"PASS1", "PASS2"} /\ ~sha_done[e]
  <2>1. s = Regs(e)
    BY <1>6 DEF EngineStep, Pass1, Pass2
  <2>2. /\ s.state = state[e] /\ s.start = FALSE /\ s.launch = launch[e] /\ s.digest = digest[e]
        /\ s.ejob = ejob[e] /\ s.nonce = nonce[e]
    BY <2>1 DEF Regs
  <2> QED  BY <1>1, <1>6, <2>2 DEF Own
<1>7. CASE ~engine_stop /\ state[e] = "PASS1" /\ sha_done[e]
  <2>1. /\ s.state = "LAUNCH" /\ s.start = FALSE /\ s.launch = "PASS2"
        /\ s.digest = Compressed(sha[e]) /\ s.ejob = ejob[e] /\ s.nonce = nonce[e]
    BY <1>7, Zenon DEF EngineStep, Pass1, Regs
  <2> QED  BY <1>1, <1>7, <2>1 DEF Own
<1>8. CASE ~engine_stop /\ state[e] = "PASS2" /\ sha_done[e]
  <2>1. /\ s.state = "COMPARE" /\ s.start = FALSE /\ s.launch = launch[e]
        /\ s.digest = Compressed(sha[e]) /\ s.ejob = ejob[e] /\ s.nonce = nonce[e]
    BY <1>8, Zenon DEF EngineStep, Pass2, Regs
  <2> QED  BY <1>1, <1>8, <2>1 DEF Own
<1>9. CASE ~engine_stop /\ state[e] = "COMPARE"
  <2>1. s.state = "CHECK" /\ s.start = FALSE
    BY <1>9 DEF EngineStep, Compare, Regs
  <2> QED  BY <1>1, <1>9, <2>1
<1>10. CASE ~engine_stop /\ state[e] = "CHECK"
  <2>1. \/ s.state = "IDLE" /\ s.start = FALSE
        \/ s.state = "LAUNCH" /\ s.launch = "PASS1" /\ s.start = FALSE
    BY <1>10 DEF EngineStep, Check, Regs
  <2> QED  BY <1>1, <1>10, <2>1
<1> QED  BY <1>2, <1>3, <1>4, <1>5, <1>6, <1>7, <1>8, <1>9, <1>10, ZenonT(60) DEF States

LEMMA Passes ==
  ASSUME NEW e \in Engine
  PROVE  Compressed(Own(e, 0)) = Own(e, 1) /\ Compressed(Own(e, 1)) = Own(e, 2)
  BY DEF Compressed, Own

LEMMA OwnKept ==
  ASSUME NEW e \in Engine, Own(e, 0)' = Own(e, 0)
  PROVE  Own(e, 1)' = Own(e, 1) /\ Own(e, 2)' = Own(e, 2)
  BY DEF Own

LEMMA CoreInvStep ==
  ASSUME TypeOK, EngineClock, Core, NEW e \in Engine, CoreInv(e)
  PROVE  CoreInv(e)'
<1>1. ShaClocks \in Nat /\ ShaClocks >= 2
  BY CoreAssumption
<1>2. /\ sha_left[e] \in 0 .. ShaClocks /\ sha_left'[e] \in 0 .. ShaClocks
      /\ sha_done'[e] <=> sha_left[e] = 1
      /\ core_start[e] /\ sha_left[e] = 0 => sha_left'[e] = ShaClocks
      /\ ~(core_start[e] /\ sha_left[e] = 0) =>
            sha_left'[e] = IF sha_left[e] > 0 THEN sha_left[e] - 1 ELSE 0
  BY CoreStep
<1>3. sha_done'[e] => sha_left'[e] = 0
  BY <1>1, <1>2
<1>4. launch[e] \in {"PASS1", "PASS2"}
  BY DEF TypeOK
<1>5. CASE state'[e] = "IDLE" /\ core_start'[e] = FALSE
  BY <1>3, <1>5 DEF CoreInv
<1>6. CASE state[e] \in {"IDLE", "CHECK"} /\ state'[e] = "LAUNCH" /\ launch'[e] = "PASS1"
           /\ core_start'[e] = FALSE
  BY <1>3, <1>6 DEF CoreInv
<1>7. CASE state[e] = "LAUNCH" /\ state'[e] = launch[e] /\ core_start'[e] = TRUE
           /\ launch'[e] = launch[e]
  <2>1. core_start[e] = FALSE
    BY <1>7, SMTT(60) DEF CoreInv, TypeOK
  <2>2. launch[e] = "PASS2" => ~sha_done'[e] /\ sha_left'[e] \in {0, ShaClocks - 1}
    BY <1>1, <1>2, <1>7, <2>1 DEF CoreInv
  <2> QED  BY <1>3, <1>4, <1>7, <2>2 DEF CoreInv
<1>8. CASE state[e] = "PASS1" /\ sha_done[e] /\ state'[e] = "LAUNCH" /\ launch'[e] = "PASS2"
           /\ core_start'[e] = FALSE
  <2>1. ~sha_done'[e] /\ sha_left'[e] \in {0, ShaClocks}
    BY <1>1, <1>2, <1>8 DEF CoreInv
  <2> QED  BY <1>3, <1>8, <2>1 DEF CoreInv
<1>9. CASE state[e] = "PASS2" /\ sha_done[e] /\ state'[e] = "COMPARE" /\ core_start'[e] = FALSE
  <2>1. sha_left[e] = 0 /\ ~core_start[e]
    BY <1>9 DEF CoreInv
  <2>2. ~sha_done'[e] /\ sha_left'[e] = 0
    BY <1>1, <1>2, <2>1
  <2> QED  BY <1>3, <1>9, <2>2 DEF CoreInv
<1>10. CASE state[e] \in {"PASS1", "PASS2"} /\ ~sha_done[e] /\ state'[e] = state[e]
            /\ launch'[e] = launch[e] /\ core_start'[e] = FALSE
  <2>1. launch'[e] = state'[e]
    BY <1>10 DEF CoreInv
  <2>2. state[e] = "PASS2" => sha_left'[e] > 0 \/ sha_done'[e]
    <3>1. CASE core_start[e]
      BY <1>1, <1>2, <1>10, <3>1 DEF CoreInv
    <3>2. CASE ~core_start[e]
      BY <1>1, <1>2, <1>10, <3>2 DEF CoreInv
    <3> QED  BY <3>1, <3>2
  <2> QED  BY <1>3, <1>10, <2>1, <2>2 DEF CoreInv
<1>11. CASE state[e] = "COMPARE" /\ state'[e] = "CHECK" /\ core_start'[e] = FALSE
  <2>1. sha_left[e] = 0 /\ ~core_start[e]
    BY <1>11 DEF CoreInv
  <2>2. ~sha_done'[e] /\ sha_left'[e] = 0
    BY <1>1, <1>2, <2>1
  <2> QED  BY <1>3, <1>11, <2>2 DEF CoreInv
<1> QED  BY <1>5, <1>6, <1>7, <1>8, <1>9, <1>10, <1>11, EngineMoves, Zenon

\* An engine that is at its first nonce with an idle core, or past its first nonce.
LEMMA OwnInvStep ==
  ASSUME TypeOK, EngineClock, Core, NEW e \in Engine, CoreInv(e),
         OwnInv(e) \/ state[e] \in {"IDLE", "CHECK"},
         state[e] = "IDLE" /\ Takes(e) => sha_left[e] = 0 /\ ~core_start[e]
  PROVE  OwnInv(e)'
<1>1. ShaClocks \in Nat /\ ShaClocks >= 2
  BY CoreAssumption
<1>2. /\ sha_left[e] \in 0 .. ShaClocks /\ sha_left'[e] \in 0 .. ShaClocks
      /\ sha_done'[e] <=> sha_left[e] = 1
      /\ core_start[e] /\ sha_left[e] = 0 => sha'[e] = Block(e) /\ sha_left'[e] = ShaClocks
      /\ ~(core_start[e] /\ sha_left[e] = 0) =>
            /\ sha'[e] = sha[e]
            /\ sha_left'[e] = IF sha_left[e] > 0 THEN sha_left[e] - 1 ELSE 0
  BY CoreStep
<1>4. launch[e] \in {"PASS1", "PASS2"}
  BY DEF TypeOK
<1>5. CASE state'[e] = "IDLE" /\ core_start'[e] = FALSE
  BY <1>5 DEF OwnInv
<1>6. CASE state[e] \in {"IDLE", "CHECK"} /\ (state[e] = "IDLE" => Takes(e)) /\ state'[e] = "LAUNCH"
           /\ launch'[e] = "PASS1" /\ core_start'[e] = FALSE
  <2>1. sha_left[e] = 0 /\ ~core_start[e]
    BY <1>6 DEF CoreInv
  <2>2. ~sha_done'[e] /\ sha_left'[e] = 0
    BY <1>1, <1>2, <2>1
  <2> QED  BY <1>6, <2>2 DEF OwnInv
<1>7. CASE state[e] = "LAUNCH" /\ state'[e] = launch[e] /\ core_start'[e] = TRUE
           /\ launch'[e] = launch[e] /\ digest'[e] = digest[e] /\ Own(e, 0)' = Own(e, 0)
  <2>1. sha_left[e] = 0 /\ ~core_start[e] /\ (launch[e] = "PASS2" => digest[e] = Own(e, 1))
    BY <1>7, SMTT(60) DEF CoreInv, OwnInv
  <2>2. ~sha_done'[e] /\ sha_left'[e] = 0
    BY <1>1, <1>2, <2>1
  <2> QED  BY <1>4, <1>7, <2>1, <2>2, OwnKept, ZenonT(60) DEF OwnInv
<1>8. CASE state[e] = "PASS1" /\ sha_done[e] /\ state'[e] = "LAUNCH" /\ launch'[e] = "PASS2"
           /\ digest'[e] = Compressed(sha[e]) /\ Own(e, 0)' = Own(e, 0) /\ core_start'[e] = FALSE
  <2>1. sha_left[e] = 0 /\ ~core_start[e] /\ sha[e] = Own(e, 0)
    BY <1>8, SMTT(60) DEF CoreInv, OwnInv
  <2>2. ~sha_done'[e] /\ sha_left'[e] = 0
    BY <1>1, <1>2, <2>1
  <2>3. digest'[e] = Own(e, 1)'
    BY <1>8, <2>1, Passes, OwnKept
  <2> QED  BY <1>8, <2>2, <2>3, Zenon DEF OwnInv
<1>9. CASE state[e] = "PASS2" /\ sha_done[e] /\ state'[e] = "COMPARE"
           /\ digest'[e] = Compressed(sha[e]) /\ Own(e, 0)' = Own(e, 0) /\ core_start'[e] = FALSE
  <2>1. sha[e] = Own(e, 1)
    BY <1>9 DEF CoreInv, OwnInv
  <2>2. digest'[e] = Own(e, 2)'
    BY <1>9, <2>1, Passes, OwnKept
  <2> QED  BY <1>9, <2>2, ZenonT(60) DEF OwnInv
<1>10. CASE state[e] \in {"PASS1", "PASS2"} /\ ~sha_done[e] /\ state'[e] = state[e]
            /\ launch'[e] = launch[e] /\ digest'[e] = digest[e] /\ Own(e, 0)' = Own(e, 0)
            /\ core_start'[e] = FALSE
  <2>1. OwnInv(e) /\ launch[e] = state[e]
    BY <1>10, SMTT(60) DEF CoreInv
  <2>2. state[e] = "PASS1" => sha'[e] = Own(e, 0)
    BY <1>2, <1>10, <2>1, SMTT(60) DEF OwnInv, Block, Own
  <2>3. state[e] = "PASS2" => sha'[e] = Own(e, 1) /\ digest[e] = Own(e, 1)
    BY <1>2, <1>10, <2>1, SMTT(60) DEF OwnInv, Block
  <2>4. state[e] = "PASS1" => sha_left'[e] > 0 \/ sha_done'[e]
    BY <1>1, <1>2, <1>10, <2>1, SMTT(60) DEF OwnInv
  <2> QED  BY <1>10, <2>1, <2>2, <2>3, <2>4, OwnKept, Zenon DEF OwnInv
<1>11. CASE state[e] = "COMPARE" /\ state'[e] = "CHECK" /\ core_start'[e] = FALSE
  BY <1>11 DEF OwnInv
<1> QED  BY <1>5, <1>6, <1>7, <1>8, <1>9, <1>10, <1>11, EngineMoves, ZenonT(30)

LEMMA DigestStep == ASSUME TypeOK, DigestInv, [Next]_vars PROVE DigestInv'
<1>1. ASSUME NEW w, NEW c, Clock(w, c), NEW e \in Engine
      PROVE  CoreInv(e)' /\ (e \notin rushed' => OwnInv(e)')
  <2>1. EngineClock /\ Core /\ History(w)
    BY <1>1 DEF Clock
  <2>2. CoreInv(e) /\ (e \notin rushed => OwnInv(e))
    BY DEF DigestInv
  <2>3. CoreInv(e)'
    BY <2>1, <2>2, CoreInvStep, SMTT(60)
  <2>4. ASSUME e \notin rushed' PROVE OwnInv(e)'
    <3>1. /\ e \in rushed => state[e] \in {"IDLE", "CHECK"}
          /\ state[e] = "IDLE" /\ Takes(e) => ~core_busy(e) /\ ~core_start[e]
      BY <2>1, <2>4, Zenon DEF History
    <3>2. ~core_busy(e) => sha_left[e] = 0
      BY CoreAssumption, SMTT(60) DEF core_busy, TypeOK
    <3> QED  BY <2>1, <2>2, <3>1, <3>2, OwnInvStep
  <2> QED  BY <2>3, <2>4
<1>2. CASE UNCHANGED vars
  BY <1>2 DEF DigestInv, CoreInv, OwnInv, Own, vars, engineVars, coreVars
<1>3. CASE Next
  BY <1>1, <1>3 DEF Next, DigestInv
<1> QED  BY <1>2, <1>3

\* A digest that is compared with the target is the double hash of the engine's own
\* job and nonce, whatever is written to CONTROL and when, for any number of engines.
\* Only the first nonce of an engine started over a pass that a stop left running is
\* excepted.
THEOREM DigestIsOwn == Spec => []OwnDigest
<1>1. Init => DigestInv
  BY CoreAssumption DEF Init, DigestInv, CoreInv, OwnInv, None
<1>2. TypeOK /\ DigestInv /\ [Next]_vars => DigestInv'
  BY DigestStep
<1>3. DigestInv => OwnDigest
  BY Zenon DEF DigestInv, OwnInv, Own, OwnDigest
<1> QED  BY <1>1, <1>2, <1>3, CoreTypeCorrect, PTL DEF Spec
=============================================================================
