--------------------------- MODULE NonceScanProofs ---------------------------
(***************************************************************************)
(* Proofs about NonceScan for any number of instances and engines and any  *)
(* word size.  The k-th nonce of engine e of instance i lies               *)
(* Offset(c, i, e, k) above the start of a range of c nonces; the proofs   *)
(* rest on two facts about that map: different triples have different      *)
(* offsets, and every offset below c is hit.                               *)
(***************************************************************************)
EXTENDS NonceScan, TLAPS

\* The start of instance i's part of a range of c nonces, and its length.
Off(c, i) == i * (c \div NumInst) + IF i < c % NumInst THEN i ELSE c % NumInst
Cnt(c, i) == (c \div NumInst) + IF i < c % NumInst THEN 1 ELSE 0
Work(c, i, e) == engine_work_count(Cnt(c, i), e)
Offset(c, i, e, k) == Off(c, i) + e + k * NumEngines

-----------------------------------------------------------------------------
LEMMA DivMod ==
  ASSUME NEW a \in Nat, NEW b \in Nat \ {0}
  PROVE  /\ a \div b \in Nat /\ a % b \in 0 .. b - 1
         /\ a = b * (a \div b) + (a % b)
<1>1. a \div b \in Nat
  OBVIOUS
<1>2. a % b \in 0 .. b - 1
  OBVIOUS
<1>3. a \in Int /\ b \in Int /\ b > 0
  OBVIOUS
<1>4. a = b * (a \div b) + (a % b)
  BY <1>3, Z3
<1> QED  BY <1>1, <1>2, <1>4

LEMMA MulMono ==
  ASSUME NEW a \in Nat, NEW b \in Nat, NEW m \in Nat, a <= b
  PROVE  a * m <= b * m /\ a * m \in Nat /\ b * m \in Nat
  OBVIOUS

\* The parts are adjacent and end at c.
LEMMA OffStep ==
  ASSUME NEW c \in Nat, NEW i \in Inst
  PROVE  /\ Off(c, i) \in Nat /\ Cnt(c, i) \in Nat
         /\ Off(c, i + 1) = Off(c, i) + Cnt(c, i)
<1> DEFINE b == c \div NumInst
           r == c % NumInst
<1>1. b \in Nat /\ r \in Nat /\ i \in Nat
  BY DivMod, ScanAssumption DEF Inst
<1>2. (i + 1) * b = i * b + b /\ i * b \in Nat
  BY <1>1
<1>3. Off(c, i) = i * b + (IF i < r THEN i ELSE r) /\ Cnt(c, i) = b + IF i < r THEN 1 ELSE 0
  BY DEF Off, Cnt
<1>4. Off(c, i + 1) = (i + 1) * b + IF i + 1 < r THEN i + 1 ELSE r
  BY DEF Off
<1> HIDE DEF b, r
<1> QED  BY <1>1, <1>2, <1>3, <1>4

LEMMA OffMono ==
  ASSUME NEW c \in Nat, NEW i \in Inst, NEW j \in 0 .. NumInst, i < j
  PROVE  Off(c, i) + Cnt(c, i) <= Off(c, j) /\ Off(c, j) <= c
<1> DEFINE b == c \div NumInst
           r == c % NumInst
<1>0. b \in Nat /\ r \in 0 .. NumInst - 1 /\ c = NumInst * b + r
  BY DivMod, ScanAssumption, Zenon
<1>1. b \in Nat /\ r \in 0 .. NumInst - 1 /\ i \in Nat /\ j \in Nat
  BY <1>0, ScanAssumption DEF Inst
<1>2. (i + 1) * b <= j * b /\ j * b <= NumInst * b
  BY <1>1, MulMono, ScanAssumption
<1>3. Off(c, j) = j * b + (IF j < r THEN j ELSE r)
  BY DEF Off
<1>4. Off(c, i + 1) = (i + 1) * b + IF i + 1 < r THEN i + 1 ELSE r
  BY DEF Off
<1>5. j * b \in Nat /\ (i + 1) * b \in Nat /\ NumInst * b \in Nat
  BY <1>1, MulMono, ScanAssumption
<1>6. Off(c, i + 1) = Off(c, i) + Cnt(c, i)
  BY OffStep
<1> HIDE DEF b, r
<1>7. Off(c, i + 1) <= Off(c, j)
  BY <1>1, <1>2, <1>3, <1>4, <1>5
<1>8. Off(c, j) <= c
  BY <1>0, <1>1, <1>2, <1>3, <1>5
<1> QED  BY <1>6, <1>7, <1>8

\* An engine's k-th nonce is inside the part of its instance just when the
\* engine gets to it.
LEMMA WorkBound ==
  ASSUME NEW n \in Nat, NEW e \in Engines, NEW k \in Nat
  PROVE  /\ engine_work_count(n, e) \in Nat
         /\ k < engine_work_count(n, e) <=> e + k * NumEngines < n
<1>0. e \in Nat /\ NumEngines \in Nat \ {0} /\ k * NumEngines \in Nat
  BY ScanAssumption DEF Engines
<1>1. CASE n <= e
  BY <1>0, <1>1 DEF engine_work_count
<1>2. CASE n > e
  <2> DEFINE m == n - 1 - e
             q == m \div NumEngines
  <2>1. m \in Nat
    BY <1>0, <1>2
  <2>2. q \in Nat /\ m % NumEngines \in 0 .. NumEngines - 1 /\ m = NumEngines * q + (m % NumEngines)
    BY <1>0, <2>1, DivMod, Zenon
  <2>3. engine_work_count(n, e) = q + 1
    BY <1>0, <1>2 DEF engine_work_count
  <2>4. k <= q => k * NumEngines <= q * NumEngines
    BY <1>0, <2>2, MulMono
  <2>5. q + 1 <= k => (q + 1) * NumEngines <= k * NumEngines
    BY <1>0, <2>2, MulMono
  <2>6. (q + 1) * NumEngines = q * NumEngines + NumEngines /\ NumEngines * q = q * NumEngines
        /\ q * NumEngines \in Nat
    BY <1>0, <2>2
  <2>7. m = n - 1 - e
    OBVIOUS
  <2> DEFINE kN == k * NumEngines
             qN == q * NumEngines
  <2>8. /\ kN \in Nat /\ qN \in Nat /\ kN = k * NumEngines
        /\ k <= q => kN <= qN
        /\ q + 1 <= k => qN + NumEngines <= kN
        /\ qN <= m /\ m < qN + NumEngines
    BY <1>0, <2>1, <2>2, <2>4, <2>5, <2>6
  <2> HIDE DEF m, q, kN, qN
  <2>9. k < q + 1 <=> e + kN < n
    BY <1>0, <2>2, <2>7, <2>8
  <2> QED  BY <2>2, <2>3, <2>8, <2>9
<1> QED  BY <1>0, <1>1, <1>2

\* Different triples have different offsets, all of them below c.
LEMMA OffsetBound ==
  ASSUME NEW c \in Nat, NEW i \in Inst, NEW e \in Engines, NEW k \in Nat, k < Work(c, i, e)
  PROVE  /\ Offset(c, i, e, k) \in 0 .. c - 1
         /\ Off(c, i) <= Offset(c, i, e, k)
         /\ Offset(c, i, e, k) < Off(c, i) + Cnt(c, i)
<1>1. /\ Off(c, i) \in Nat /\ Cnt(c, i) \in Nat
  BY OffStep
<1>2. e + k * NumEngines < Cnt(c, i) /\ e \in Nat /\ k * NumEngines \in Nat
  BY <1>1, WorkBound, ScanAssumption DEF Work, Engines
<1>3. Off(c, i) + Cnt(c, i) <= c
  <2>1. i + 1 \in 0 .. NumInst /\ i < i + 1
    BY ScanAssumption DEF Inst
  <2>2. Off(c, i) + Cnt(c, i) <= Off(c, i + 1) /\ Off(c, i + 1) <= c
    BY <2>1, OffMono
  <2>3. Off(c, i + 1) = Off(c, i) + Cnt(c, i)
    BY OffStep
  <2> QED  BY <2>2, <2>3
<1>4. Offset(c, i, e, k) = Off(c, i) + e + k * NumEngines
  BY DEF Offset
<1> QED  BY <1>1, <1>2, <1>3, <1>4

LEMMA StrideInjective ==
  ASSUME NEW e \in Engines, NEW f \in Engines, NEW k \in Nat, NEW l \in Nat,
         e + k * NumEngines = f + l * NumEngines
  PROVE  e = f /\ k = l
<1>0. e \in 0 .. NumEngines - 1 /\ f \in 0 .. NumEngines - 1 /\ NumEngines \in Nat \ {0}
  BY ScanAssumption DEF Engines
<1>1. k * NumEngines \in Nat /\ l * NumEngines \in Nat
  BY <1>0
<1>2. ASSUME NEW a \in Nat, NEW b \in Nat, a < b
      PROVE  a * NumEngines + NumEngines <= b * NumEngines
  <2>1. (a + 1) * NumEngines <= b * NumEngines
    BY <1>0, <1>2, MulMono
  <2>2. (a + 1) * NumEngines = a * NumEngines + NumEngines
    BY <1>0
  <2> QED  BY <2>1, <2>2
<1>3. ~(k < l) /\ ~(l < k)
  <2>1. CASE k < l
    BY <1>0, <1>1, <1>2, <2>1
  <2>2. CASE l < k
    BY <1>0, <1>1, <1>2, <2>2
  <2> QED  BY <2>1, <2>2
<1> QED  BY <1>0, <1>1, <1>3

LEMMA OffsetInjective ==
  ASSUME NEW c \in Nat,
         NEW i \in Inst, NEW e \in Engines, NEW k \in Nat, k < Work(c, i, e),
         NEW j \in Inst, NEW f \in Engines, NEW l \in Nat, l < Work(c, j, f),
         Offset(c, i, e, k) = Offset(c, j, f, l)
  PROVE  i = j /\ e = f /\ k = l
<1>1. /\ Off(c, i) \in Nat /\ Cnt(c, i) \in Nat /\ Off(c, j) \in Nat /\ Cnt(c, j) \in Nat
  BY OffStep
<1>2. /\ Off(c, i) <= Offset(c, i, e, k) /\ Offset(c, i, e, k) < Off(c, i) + Cnt(c, i)
      /\ Offset(c, i, e, k) \in Nat
  BY OffsetBound
<1>3. /\ Off(c, j) <= Offset(c, j, f, l) /\ Offset(c, j, f, l) < Off(c, j) + Cnt(c, j)
  BY OffsetBound
<1>4. ~(i < j)
  <2> SUFFICES ASSUME i < j PROVE FALSE
    OBVIOUS
  <2>0. j \in 0 .. NumInst
    BY ScanAssumption DEF Inst
  <2>1. Off(c, i) + Cnt(c, i) <= Off(c, j)
    BY <2>0, OffMono
  <2> QED  BY <1>1, <1>2, <1>3, <2>1
<1>5. ~(j < i)
  <2> SUFFICES ASSUME j < i PROVE FALSE
    OBVIOUS
  <2>0. i \in 0 .. NumInst
    BY ScanAssumption DEF Inst
  <2>1. Off(c, j) + Cnt(c, j) <= Off(c, i)
    BY <2>0, OffMono
  <2> QED  BY <1>1, <1>2, <1>3, <2>1
<1>6. i = j
  BY <1>4, <1>5, ScanAssumption DEF Inst
<1>7. e \in Nat /\ f \in Nat /\ k * NumEngines \in Nat /\ l * NumEngines \in Nat
  BY ScanAssumption DEF Engines
<1>8. e + k * NumEngines = f + l * NumEngines
  BY <1>1, <1>6, <1>7 DEF Offset
<1> QED  BY <1>6, <1>8, StrideInjective

\* Every offset below c belongs to some instance and engine.
LEMMA PartOnto ==
  ASSUME NEW c \in Nat, NEW o \in 0 .. c - 1
  PROVE  \E i \in Inst : Off(c, i) <= o /\ o < Off(c, i) + Cnt(c, i)
<1> DEFINE b == c \div NumInst
           r == c % NumInst
<1>0. b \in Nat /\ r \in 0 .. NumInst - 1 /\ c = NumInst * b + r /\ NumInst \in Nat \ {0}
  BY DivMod, ScanAssumption, Zenon
<1>1. \A i \in Inst : /\ Off(c, i) = i * b + (IF i < r THEN i ELSE r)
                      /\ Cnt(c, i) = b + IF i < r THEN 1 ELSE 0
  BY DEF Off, Cnt
<1> DEFINE s == r * (b + 1)
<1>2. s \in Nat /\ s = r * b + r
  BY <1>0
<1> HIDE DEF b, r, s
<1>3. CASE o < s
  <2> DEFINE i == o \div (b + 1)
             k == o % (b + 1)
  <2>0. b + 1 \in Nat \ {0} /\ o \in Nat
    BY <1>0
  <2>1. i \in Nat /\ k \in 0 .. b /\ o = (b + 1) * i + k
    <3>1. i \in Nat /\ k \in 0 .. (b + 1) - 1 /\ o = (b + 1) * i + k
      BY <2>0, DivMod, Zenon
    <3> QED  BY <1>0, <3>1
  <2>2. i < r
    <3> SUFFICES ASSUME r <= i PROVE FALSE
      BY <1>0, <2>1
    <3>1. r * (b + 1) <= i * (b + 1)
      BY <1>0, <2>1, MulMono
    <3>2. (b + 1) * i = i * (b + 1) /\ i * (b + 1) \in Nat
      BY <1>0, <2>1
    <3>3. s = r * (b + 1)
      BY DEF s
    <3> HIDE DEF i, k
    <3> QED  BY <1>2, <1>3, <2>1, <3>1, <3>2, <3>3
  <2>3. i \in Inst
    BY <1>0, <2>1, <2>2 DEF Inst
  <2>4. (b + 1) * i = i * b + i /\ i * b \in Nat
    BY <1>0, <2>1
  <2>5. Off(c, i) = i * b + i /\ Cnt(c, i) = b + 1
    BY <1>1, <2>2, <2>3
  <2> HIDE DEF i, k
  <2>6. Off(c, i) <= o /\ o < Off(c, i) + Cnt(c, i)
    BY <1>0, <2>1, <2>4, <2>5
  <2> QED  BY <2>3, <2>6
<1>4. CASE o >= s
  <2> DEFINE d == o - s
  <2>1. d \in Nat
    BY <1>2, <1>4
  <2>2. c = NumInst * b + r /\ d < NumInst * b - r * b
    <3>1. NumInst * b \in Nat /\ r * b \in Nat
      BY <1>0
    <3> QED  BY <1>0, <1>2, <1>4, <3>1
  <2>3. b > 0
    <3> SUFFICES ASSUME b = 0 PROVE FALSE
      BY <1>0
    <3>1. NumInst * b = 0 /\ r * b = 0
      BY <1>0
    <3> HIDE DEF d
    <3> QED  BY <2>1, <2>2, <3>1
  <2> DEFINE q == d \div b
             k == d % b
             i == r + q
  <2>4. q \in Nat /\ k \in 0 .. b - 1 /\ d = b * q + k
    <3>1. b \in Nat \ {0}
      BY <1>0, <2>3
    <3> HIDE DEF d
    <3> QED  BY <2>1, <3>1, DivMod, Zenon
  <2>5. i * b = r * b + q * b /\ b * q = q * b /\ q * b \in Nat /\ r * b \in Nat
    <3>1. q \in Nat /\ r \in Nat /\ b \in Nat
      BY <1>0, <2>4
    <3> HIDE DEF q
    <3> QED  BY <3>1
  <2>6. i < NumInst
    <3> SUFFICES ASSUME NumInst <= i PROVE FALSE
      BY <1>0, <2>4
    <3>1. NumInst * b <= i * b
      <4>1. NumInst \in Nat /\ i \in Nat /\ b \in Nat
        BY <1>0, <2>4
      <4> HIDE DEF i
      <4> QED  BY <4>1, MulMono
    <3>0. NumInst \in Nat /\ i \in Nat /\ b \in Nat
      BY <1>0, <2>4
    <3>2. NumInst * b \in Nat /\ i * b \in Nat
      BY <3>0
    <3> HIDE DEF d, q, k, i
    <3> QED  BY <2>1, <2>2, <2>4, <2>5, <3>1, <3>2
  <2>7. i \in Inst /\ ~(i < r)
    BY <1>0, <2>4, <2>6 DEF Inst
  <2>8. Off(c, i) = i * b + r /\ Cnt(c, i) = b
    BY <1>0, <1>1, <2>7
  <2>9. o = s + d
    BY <1>2, <1>4
  <2> HIDE DEF d, q, k, i
  <2>10. Off(c, i) <= o /\ o < Off(c, i) + Cnt(c, i)
    BY <1>0, <1>2, <2>1, <2>4, <2>5, <2>8, <2>9
  <2> QED  BY <2>7, <2>10
<1> QED  BY <1>2, <1>3, <1>4

LEMMA OffsetOnto ==
  ASSUME NEW c \in Nat, NEW o \in 0 .. c - 1
  PROVE  \E i \in Inst, e \in Engines, k \in Nat :
           k < Work(c, i, e) /\ Offset(c, i, e, k) = o
<1>1. PICK i \in Inst : Off(c, i) <= o /\ o < Off(c, i) + Cnt(c, i)
  BY PartOnto
<1>2. Off(c, i) \in Nat /\ Cnt(c, i) \in Nat
  BY OffStep
<1> DEFINE d == o - Off(c, i)
           e == d % NumEngines
           k == d \div NumEngines
<1>3. d \in Nat /\ d < Cnt(c, i) /\ o = Off(c, i) + d
  BY <1>1, <1>2
<1>4. k \in Nat /\ e \in 0 .. NumEngines - 1 /\ d = NumEngines * k + e
  BY <1>3, DivMod, ScanAssumption, Zenon
<1>5. e \in Engines /\ NumEngines * k = k * NumEngines /\ k * NumEngines \in Nat
  BY <1>4, ScanAssumption DEF Engines
<1> HIDE DEF d, e, k
<1>6. e + k * NumEngines = d
  BY <1>4, <1>5
<1>7. k < Work(c, i, e)
  BY <1>2, <1>3, <1>4, <1>5, <1>6, WorkBound DEF Work
<1>8. Offset(c, i, e, k) = o
  BY <1>2, <1>3, <1>4, <1>5, <1>6 DEF Offset
<1> QED  BY <1>4, <1>5, <1>7, <1>8

-----------------------------------------------------------------------------
(***************************************************************************)
(* The inductive invariant: what the loop of miner_start_range has written *)
(* so far, where every loaded engine is, and which nonces are behind it.   *)
(***************************************************************************)
Loaded(i, e) == i < inst /\ e < load_engine_idx[i]
NonceAt(i, e, k) == Plus(nonce_start, Offset(nonce_count, i, e, k))
WorkOf(i, e) == Work(nonce_count, i, e)

\* <<i, e, k>> names a nonce that has been hashed.
Behind(i, e, k) == Loaded(i, e) /\ k + remaining_q[<<i, e>>] < WorkOf(i, e)

LoopInv ==
    /\ range_start = Plus(nonce_start, Off(nonce_count, inst))
    /\ \A i \in Inst :
        IF i < inst
        THEN /\ nonce_start_q[i] = Plus(nonce_start, Off(nonce_count, i))
             /\ nonce_count_q[i] = Cnt(nonce_count, i)
        ELSE load_engine_idx[i] = NumEngines

EngineInv ==
    \A i \in Inst, e \in Engines :
        IF Loaded(i, e)
        THEN /\ remaining_q[<<i, e>>] <= WorkOf(i, e)
             /\ remaining_q[<<i, e>>] > 0 =>
                  nonce_q[<<i, e>>] = NonceAt(i, e, WorkOf(i, e) - remaining_q[<<i, e>>])
        ELSE remaining_q[<<i, e>>] = 0

ScannedInv ==
    \A n \in Word :
        n \in scanned <=> \E i \in Inst, e \in Engines, k \in Nat :
                            Behind(i, e, k) /\ n = NonceAt(i, e, k)

ScanInv == ScanTypeOK /\ LoopInv /\ EngineInv /\ ScannedInv

LEMMA PlusWord ==
  ASSUME NEW a \in Word, NEW b \in Word
  PROVE  Plus(a, b) \in Word
  BY ScanAssumption DEF Plus, Word

LEMMA PlusAssoc ==
  ASSUME NEW a \in Word, NEW b \in Word, NEW d \in Word, b + d < WordMod
  PROVE  Plus(Plus(a, b), d) = Plus(a, b + d)
  BY ScanAssumption DEF Plus, Word

LEMMA PlusInjective ==
  ASSUME NEW a \in Word, NEW b \in Word, NEW d \in Word, Plus(a, b) = Plus(a, d)
  PROVE  b = d
  BY ScanAssumption DEF Plus, Word

LEMMA NonceWord ==
  ASSUME ScanTypeOK, NEW i \in Inst, NEW e \in Engines, NEW k \in Nat, k < WorkOf(i, e)
  PROVE  Offset(nonce_count, i, e, k) \in Word /\ NonceAt(i, e, k) \in Word
<1>1. nonce_start \in Word /\ nonce_count \in Word /\ nonce_count \in Nat
  BY ScanAssumption DEF ScanTypeOK, Word
<1>2. Offset(nonce_count, i, e, k) \in 0 .. nonce_count - 1
  BY <1>1, OffsetBound DEF WorkOf
<1>3. Offset(nonce_count, i, e, k) \in Word
  BY <1>1, <1>2, ScanAssumption DEF Word
<1> QED  BY <1>1, <1>3, PlusWord, Zenon DEF NonceAt

LEMMA NonceInjective ==
  ASSUME ScanTypeOK, NEW i \in Inst, NEW e \in Engines, NEW k \in Nat, k < WorkOf(i, e),
         NEW j \in Inst, NEW f \in Engines, NEW l \in Nat, l < WorkOf(j, f),
         NonceAt(i, e, k) = NonceAt(j, f, l)
  PROVE  i = j /\ e = f /\ k = l
<1>1. nonce_start \in Word /\ nonce_count \in Nat
  BY ScanAssumption DEF ScanTypeOK, Word
<1>2. Offset(nonce_count, i, e, k) \in Word /\ Offset(nonce_count, j, f, l) \in Word
  BY NonceWord
<1>3. Offset(nonce_count, i, e, k) = Offset(nonce_count, j, f, l)
  BY <1>1, <1>2, PlusInjective DEF NonceAt
<1> QED  BY <1>1, <1>3, OffsetInjective DEF WorkOf

LEMMA Facts ==
  ASSUME ScanTypeOK
  PROVE  /\ nonce_start \in Word /\ nonce_count \in Word /\ nonce_count \in Nat
         /\ \A i \in Inst : /\ Off(nonce_count, i) \in Word /\ Cnt(nonce_count, i) \in Word
                             /\ Off(nonce_count, i + 1) \in Word
                             /\ Off(nonce_count, i + 1) = Off(nonce_count, i) + Cnt(nonce_count, i)
         /\ \A i \in Inst, e \in Engines :
               WorkOf(i, e) \in Nat /\ WorkOf(i, e) <= Cnt(nonce_count, i)
<1>1. nonce_start \in Word /\ nonce_count \in Word /\ nonce_count \in Nat
  BY ScanAssumption DEF ScanTypeOK, Word
<1>2. ASSUME NEW i \in Inst
      PROVE  /\ Off(nonce_count, i) \in Word /\ Cnt(nonce_count, i) \in Word
             /\ Off(nonce_count, i + 1) \in Word
             /\ Off(nonce_count, i + 1) = Off(nonce_count, i) + Cnt(nonce_count, i)
  <2>1. /\ Off(nonce_count, i) \in Nat /\ Cnt(nonce_count, i) \in Nat
        /\ Off(nonce_count, i + 1) = Off(nonce_count, i) + Cnt(nonce_count, i)
    BY <1>1, OffStep
  <2>2. i + 1 \in 0 .. NumInst /\ i < i + 1
    BY ScanAssumption DEF Inst
  <2>3. Off(nonce_count, i + 1) <= nonce_count
    BY <1>1, <2>2, OffMono
  <2> QED  BY <1>1, <2>1, <2>3, ScanAssumption DEF Word
<1>3. ASSUME NEW i \in Inst, NEW e \in Engines
      PROVE  WorkOf(i, e) \in Nat /\ WorkOf(i, e) <= Cnt(nonce_count, i)
  <2> DEFINE n == Cnt(nonce_count, i)
             w == WorkOf(i, e)
  <2>1. n \in Nat
    BY <1>1, OffStep
  <2>2. w \in Nat
    BY <2>1, WorkBound DEF WorkOf, Work
  <2>3. ASSUME w > 0 PROVE w <= n
    <3>1. w - 1 \in Nat /\ e \in Nat /\ NumEngines \in Nat \ {0}
      BY <2>2, <2>3, ScanAssumption DEF Engines
    <3>2. w - 1 < w => e + (w - 1) * NumEngines < n
      BY <2>1, <3>1, WorkBound DEF WorkOf, Work
    <3>3. (w - 1) <= (w - 1) * NumEngines /\ (w - 1) * NumEngines \in Nat
      <4> HIDE DEF w
      <4>1. NumEngines >= 1 /\ NumEngines \in Nat
        BY <3>1
      <4>2. 1 * (w - 1) <= NumEngines * (w - 1)
        BY <3>1, <4>1, MulMono
      <4> QED  BY <3>1, <4>2
    <3> HIDE DEF w, n
    <3> QED  BY <2>1, <2>2, <3>1, <3>2, <3>3
  <2> HIDE DEF w, n
  <2>4. w <= n
    BY <2>1, <2>2, <2>3
  <2> QED  BY <2>2, <2>4 DEF w, n
<1> QED  BY <1>1, <1>2, <1>3

LEMMA ScanInitInv == ScanInit => ScanInv
<1> SUFFICES ASSUME ScanInit PROVE ScanInv
  OBVIOUS
<1>1. ScanTypeOK
  BY ScanAssumption DEF ScanInit, ScanTypeOK, Word, Inst
<1>2. LoopInv
  <2>1. nonce_count \div NumInst \in Nat /\ nonce_count % NumInst \in Nat
    <3>1. nonce_count \in Nat
      BY <1>1, Facts
    <3> QED  BY <3>1, DivMod, ScanAssumption
  <2>2. 0 * (nonce_count \div NumInst) = 0
    BY <2>1
  <2>3. Off(nonce_count, 0) = 0
    BY <2>1, <2>2 DEF Off
  <2>4. Plus(nonce_start, 0) = nonce_start
    BY <1>1, ScanAssumption DEF Plus, ScanTypeOK, Word
  <2> QED  BY <2>3, <2>4 DEF LoopInv, ScanInit, Inst
<1>3. \A i \in Inst, e \in Engines : ~Loaded(i, e)
  BY DEF ScanInit, Loaded, Inst
<1>4. EngineInv
  BY <1>3 DEF EngineInv, ScanInit
<1>5. ScannedInv
  BY <1>3, Zenon DEF ScannedInv, Behind, ScanInit
<1> QED  BY <1>1, <1>2, <1>4, <1>5 DEF ScanInv

LEMMA StartInv == ASSUME ScanInv, StartInstance PROVE ScanInv'
<1> USE DEF StartInstance
<1>0. ScanTypeOK /\ LoopInv /\ EngineInv /\ ScannedInv
  BY DEF ScanInv
<1>1. inst \in Inst /\ inst \in Nat /\ range_count(inst) = Cnt(nonce_count, inst)
  BY SMTT(60), <1>0, ScanAssumption DEF ScanTypeOK, Inst, range_count, Cnt
<1>2. /\ nonce_start \in Word /\ Off(nonce_count, inst) \in Word /\ Cnt(nonce_count, inst) \in Word
      /\ Off(nonce_count, inst + 1) \in Word
      /\ Off(nonce_count, inst + 1) = Off(nonce_count, inst) + Cnt(nonce_count, inst)
  BY <1>0, <1>1, Facts
<1>3. range_start' = Plus(nonce_start, Off(nonce_count, inst + 1))
  <2>1. range_start' = Plus(Plus(nonce_start, Off(nonce_count, inst)), Cnt(nonce_count, inst))
    BY <1>0, <1>1 DEF LoopInv
  <2>2. Off(nonce_count, inst) + Cnt(nonce_count, inst) < WordMod
    BY <1>2, ScanAssumption DEF Word
  <2> QED  BY <1>2, <2>1, <2>2, PlusAssoc
<1>4. ScanTypeOK'
  <2>1. range_start' \in Word
    BY <1>2, <1>3, PlusWord
  <2>2. inst' \in 0 .. NumInst
    BY <1>0, ScanAssumption DEF ScanTypeOK
  <2>3. nonce_start_q' \in [Inst -> Word] /\ nonce_count_q' \in [Inst -> Word]
        /\ load_engine_idx' \in [Inst -> 0 .. NumEngines]
    BY <1>0, <1>1, <1>2, ScanAssumption DEF ScanTypeOK
  <2> QED  BY <1>0, <2>1, <2>2, <2>3 DEF ScanTypeOK
<1>5. LoopInv'
  <2>1. ASSUME NEW i \in Inst
        PROVE  IF i < inst'
               THEN /\ nonce_start_q'[i] = Plus(nonce_start', Off(nonce_count', i))
                    /\ nonce_count_q'[i] = Cnt(nonce_count', i)
               ELSE load_engine_idx'[i] = NumEngines
    <3>1. CASE i < inst
      BY <1>0, <1>1, <3>1 DEF LoopInv, ScanTypeOK, Inst
    <3>2. CASE i = inst
      BY <1>0, <1>1, <3>2 DEF LoopInv, ScanTypeOK
    <3>3. CASE i > inst
      BY <1>0, <1>1, <3>3 DEF LoopInv, ScanTypeOK, Inst
    <3> QED  BY <1>1, <3>1, <3>2, <3>3 DEF Inst
  <2> QED  BY <1>3, <2>1 DEF LoopInv
<1>6. \A i \in Inst, e \in Engines : Loaded(i, e)' <=> Loaded(i, e)
  <2> SUFFICES ASSUME NEW i \in Inst, NEW e \in Engines PROVE Loaded(i, e)' <=> Loaded(i, e)
    OBVIOUS
  <2>1. CASE i = inst
    BY <1>0, <1>1, <2>1 DEF Loaded, ScanTypeOK, Engines
  <2>2. CASE i # inst
    BY <1>0, <1>1, <2>2 DEF Loaded, ScanTypeOK, Inst
  <2> QED  BY <2>1, <2>2
<1>7. EngineInv'
  BY ZenonT(60), <1>0, <1>6 DEF EngineInv, WorkOf, NonceAt
<1>8. ScannedInv'
  BY <1>0, <1>6, ZenonT(60) DEF ScannedInv, Behind, WorkOf, NonceAt
<1> QED  BY <1>4, <1>5, <1>7, <1>8 DEF ScanInv

LEMMA LoadInv ==
  ASSUME ScanInv, NEW i \in Inst, NEW e, e = load_engine_idx[i], LoadEngine(i)
  PROVE  ScanInv'
<1> USE DEF LoadEngine
<1>0. ScanTypeOK /\ LoopInv /\ EngineInv /\ ScannedInv
  BY DEF ScanInv
<1>1. e \in Engines /\ e \in Nat /\ e + 1 \in 0 .. NumEngines
  BY <1>0, ScanAssumption DEF ScanTypeOK, Engines
<1>2. i < inst
  BY <1>0, ScanAssumption DEF LoopInv
<1>3. /\ nonce_start_q[i] = Plus(nonce_start, Off(nonce_count, i))
      /\ nonce_count_q[i] = Cnt(nonce_count, i)
  BY <1>0, <1>2 DEF LoopInv
<1>4. engine_work_count(nonce_count_q[i], e) = WorkOf(i, e)
  BY <1>3 DEF WorkOf, Work
<1>5. WorkOf(i, e) \in Nat /\ WorkOf(i, e) \in Word
  <2>1. WorkOf(i, e) \in Nat /\ WorkOf(i, e) <= Cnt(nonce_count, i) /\ Cnt(nonce_count, i) \in Word
    BY <1>0, <1>1, Facts
  <2> QED  BY <2>1, ScanAssumption DEF Word
<1>6. WorkOf(i, e) > 0 => Plus(nonce_start_q[i], e) = NonceAt(i, e, 0)
  <2> SUFFICES ASSUME WorkOf(i, e) > 0 PROVE Plus(nonce_start_q[i], e) = NonceAt(i, e, 0)
    OBVIOUS
  <2>1. Offset(nonce_count, i, e, 0) \in Word
    BY <1>0, <1>1, NonceWord
  <2>2. nonce_start \in Word /\ Off(nonce_count, i) \in Word /\ e \in Word
    BY <1>0, <1>1, Facts, ScanAssumption DEF Word, Engines
  <2>3. Offset(nonce_count, i, e, 0) = Off(nonce_count, i) + e
    BY <1>1, <2>2, ScanAssumption DEF Offset, Word
  <2>4. Off(nonce_count, i) + e < WordMod
    BY <2>1, <2>3, ScanAssumption DEF Word
  <2>5. Plus(Plus(nonce_start, Off(nonce_count, i)), e) = Plus(nonce_start, Off(nonce_count, i) + e)
    BY <2>2, <2>4, PlusAssoc
  <2> QED  BY <1>3, <2>3, <2>5 DEF NonceAt
<1>7. ~Loaded(i, e)
  BY <1>1 DEF Loaded
<1>8. /\ load_engine_idx' = [load_engine_idx EXCEPT ![i] = e + 1]
      /\ remaining_q' = IF WorkOf(i, e) > 0 THEN [remaining_q EXCEPT ![<<i, e>>] = WorkOf(i, e)]
                                            ELSE remaining_q
      /\ nonce_q' = IF WorkOf(i, e) > 0 THEN [nonce_q EXCEPT ![<<i, e>>] = Plus(nonce_start_q[i], e)]
                                        ELSE nonce_q
  BY <1>4, <1>5
<1>9. UNCHANGED <<nonce_start, nonce_count, inst, range_start, nonce_start_q, nonce_count_q, scanned>>
  OBVIOUS
<1> HIDE DEF LoadEngine
<1>10. Plus(nonce_start_q[i], e) \in Word
  <2>1. nonce_start_q[i] \in Word /\ e \in Word
    BY <1>0, <1>1, ScanAssumption DEF ScanTypeOK, Word, Engines
  <2> QED  BY <2>1, PlusWord
<1>11. <<i, e>> \in Inst \X Engines
  BY <1>1
<1>12. ScanTypeOK'
  <2>1. remaining_q' \in [Inst \X Engines -> Word] /\ nonce_q' \in [Inst \X Engines -> Word]
    BY <1>0, <1>5, <1>8, <1>10, <1>11 DEF ScanTypeOK
  <2>2. load_engine_idx' \in [Inst -> 0 .. NumEngines]
    BY <1>0, <1>1, <1>8 DEF ScanTypeOK
  <2> QED  BY <1>0, <1>9, <2>1, <2>2 DEF ScanTypeOK
<1>13. LoopInv'
  BY <1>0, <1>2, <1>8, <1>9 DEF LoopInv, ScanTypeOK
<1>14. \A j \in Inst, f \in Engines : Loaded(j, f)' <=> Loaded(j, f) \/ <<j, f>> = <<i, e>>
  <2> SUFFICES ASSUME NEW j \in Inst, NEW f \in Engines
               PROVE  Loaded(j, f)' <=> Loaded(j, f) \/ <<j, f>> = <<i, e>>
    OBVIOUS
  <2>1. CASE j = i
    BY <1>0, <1>1, <1>2, <1>8, <1>9, <2>1 DEF Loaded, ScanTypeOK, Engines
  <2>2. CASE j # i
    BY <1>0, <1>8, <1>9, <2>2 DEF Loaded, ScanTypeOK
  <2> QED  BY <2>1, <2>2
<1>15. \A j \in Inst, f \in Engines :
          /\ WorkOf(j, f)' = WorkOf(j, f) /\ WorkOf(j, f) \in Nat
          /\ \A k \in Nat : NonceAt(j, f, k)' = NonceAt(j, f, k)
  BY <1>0, <1>9, Facts DEF WorkOf, NonceAt
<1>16. remaining_q'[<<i, e>>] = WorkOf(i, e) /\ nonce_q' \in [Inst \X Engines -> Word]
       /\ (WorkOf(i, e) > 0 => nonce_q'[<<i, e>>] = NonceAt(i, e, 0))
  <2>1. remaining_q[<<i, e>>] = 0
    BY <1>0, <1>1, <1>7 DEF EngineInv
  <2> QED  BY <1>0, <1>5, <1>6, <1>8, <1>11, <1>12, <2>1 DEF ScanTypeOK
<1>17. ASSUME NEW j \in Inst, NEW f \in Engines, <<j, f>> # <<i, e>>
       PROVE  remaining_q'[<<j, f>>] = remaining_q[<<j, f>>] /\ nonce_q'[<<j, f>>] = nonce_q[<<j, f>>]
  BY <1>0, <1>8, <1>11, <1>17 DEF ScanTypeOK
<1>25. \A j \in Inst, f \in Engines : remaining_q'[<<j, f>>] \in Nat
  BY <1>12, ScanAssumption DEF ScanTypeOK, Word
<1>18. EngineInv'
  <2> SUFFICES ASSUME NEW j \in Inst, NEW f \in Engines
               PROVE  IF Loaded(j, f)'
                      THEN /\ remaining_q'[<<j, f>>] <= WorkOf(j, f)'
                           /\ remaining_q'[<<j, f>>] > 0 =>
                                 nonce_q'[<<j, f>>] = NonceAt(j, f, WorkOf(j, f) - remaining_q[<<j, f>>])'
                      ELSE remaining_q'[<<j, f>>] = 0
    BY ZenonT(60) DEF EngineInv
  <2>1. CASE <<j, f>> = <<i, e>>
    <3>1. j = i /\ f = e
      BY <2>1
    <3>2. WorkOf(i, e) - remaining_q'[<<i, e>>] = 0
      BY <1>5, <1>16
    <3>3. NonceAt(i, e, WorkOf(i, e) - remaining_q[<<i, e>>])' = NonceAt(i, e, 0)
      BY <1>1, <1>9, <1>15, <3>2 DEF NonceAt
    <3>4. Loaded(i, e)' /\ WorkOf(i, e)' = WorkOf(i, e) /\ remaining_q'[<<i, e>>] <= WorkOf(i, e)'
      BY <1>5, <1>1, <1>14, <1>15, <1>16
    <3> QED  BY <1>16, <3>1, <3>3, <3>4
  <2>2. CASE <<j, f>> # <<i, e>>
    <3>1. NonceAt(j, f, WorkOf(j, f) - remaining_q[<<j, f>>])'
            = NonceAt(j, f, WorkOf(j, f) - remaining_q[<<j, f>>])
      BY ZenonT(60), <1>9, <1>15, <1>17, <2>2 DEF NonceAt
    <3> QED  BY <1>0, <1>14, <1>15, <1>17, <2>2, <3>1 DEF EngineInv
  <2> QED  BY ZenonT(60), <2>1, <2>2
<1>19. \A j \in Inst, f \in Engines, k \in Nat : Behind(j, f, k)' <=> Behind(j, f, k)
  <2> SUFFICES ASSUME NEW j \in Inst, NEW f \in Engines, NEW k \in Nat
               PROVE  Behind(j, f, k)' <=> Behind(j, f, k)
    OBVIOUS
  <2>1. CASE <<j, f>> = <<i, e>>
    <3>1. j = i /\ f = e
      BY <2>1
    <3>2. ~(k + remaining_q'[<<i, e>>] < WorkOf(i, e))
      BY <1>5, <1>16
    <3> QED  BY <1>1, <1>7, <1>15, <3>1, <3>2 DEF Behind
  <2>2. CASE <<j, f>> # <<i, e>>
    BY <1>14, <1>15, <1>17, <2>2 DEF Behind
  <2> QED  BY <2>1, <2>2
<1>20. ScannedInv'
  BY <1>0, <1>9, <1>15, <1>19 DEF ScannedInv
<1> QED  BY <1>12, <1>13, <1>18, <1>20 DEF ScanInv

LEMMA HashInv ==
  ASSUME ScanInv, NEW i \in Inst, NEW e \in Engines, HashNonce(<<i, e>>)
  PROVE  ScanInv'
<1> USE DEF HashNonce
<1>0. ScanTypeOK /\ LoopInv /\ EngineInv /\ ScannedInv
  BY DEF ScanInv
<1>1. \A j \in Inst, f \in Engines :
         /\ remaining_q[<<j, f>>] \in Nat /\ WorkOf(j, f) \in Nat
         /\ WorkOf(j, f)' = WorkOf(j, f) /\ (Loaded(j, f)' <=> Loaded(j, f))
         /\ \A k \in Nat : NonceAt(j, f, k)' = NonceAt(j, f, k)
  <2>1. \A j \in Inst, f \in Engines : remaining_q[<<j, f>>] \in Nat
    BY <1>0, ScanAssumption DEF ScanTypeOK, Word
  <2>2. \A j \in Inst, f \in Engines : WorkOf(j, f) \in Nat
    BY <1>0, Facts
  <2> QED  BY <2>1, <2>2 DEF WorkOf, Loaded, NonceAt
<1>2. Loaded(i, e) /\ remaining_q[<<i, e>>] <= WorkOf(i, e) /\ remaining_q[<<i, e>>] > 0
  BY <1>0 DEF EngineInv
<1>3. PICK k0 \in Nat : k0 = WorkOf(i, e) - remaining_q[<<i, e>>]
  BY <1>1, <1>2
<1>4. k0 < WorkOf(i, e) /\ nonce_q[<<i, e>>] = NonceAt(i, e, k0)
  BY <1>0, <1>1, <1>2, <1>3 DEF EngineInv
<1>5. remaining_q[<<i, e>>] # 1 => k0 + 1 < WorkOf(i, e) /\ NextNonce(nonce_q[<<i, e>>]) = NonceAt(i, e, k0 + 1)
  <2> SUFFICES ASSUME remaining_q[<<i, e>>] # 1
               PROVE  k0 + 1 < WorkOf(i, e) /\ NextNonce(nonce_q[<<i, e>>]) = NonceAt(i, e, k0 + 1)
    OBVIOUS
  <2>1. k0 + 1 < WorkOf(i, e) /\ k0 + 1 \in Nat
    BY <1>1, <1>2, <1>3
  <2>2. Offset(nonce_count, i, e, k0) \in Word /\ Offset(nonce_count, i, e, k0 + 1) \in Word
    BY <1>0, <1>4, <2>1, NonceWord
  <2>3. Offset(nonce_count, i, e, k0 + 1) = Offset(nonce_count, i, e, k0) + NumEngines
    <3>1. Off(nonce_count, i) \in Nat /\ e \in Nat /\ NumEngines \in Nat
      BY <1>0, Facts, ScanAssumption DEF Word, Engines
    <3>2. (k0 + 1) * NumEngines = k0 * NumEngines + NumEngines /\ k0 * NumEngines \in Nat
      BY <3>1
    <3> QED  BY <3>1, <3>2 DEF Offset
  <2>4. NumEngines \in Word /\ nonce_start \in Word
    BY <1>0, ScanAssumption DEF Word, ScanTypeOK
  <2>5. Offset(nonce_count, i, e, k0) + NumEngines < WordMod
    BY <2>2, <2>3, ScanAssumption DEF Word
  <2>6. Plus(Plus(nonce_start, Offset(nonce_count, i, e, k0)), NumEngines)
          = Plus(nonce_start, Offset(nonce_count, i, e, k0) + NumEngines)
    BY <2>2, <2>4, <2>5, PlusAssoc
  <2> QED  BY <1>4, <2>1, <2>3, <2>6 DEF NextNonce, NonceAt
<1>6. <<i, e>> \in Inst \X Engines
  OBVIOUS
<1>7. ScanTypeOK'
  <2>1. NonceAt(i, e, k0) \in Word
    BY <1>0, <1>4, NonceWord
  <2>2. nonce_q' \in [Inst \X Engines -> Word]
    <3>1. CASE remaining_q[<<i, e>>] = 1
      BY <1>0, <3>1 DEF ScanTypeOK
    <3>2. CASE remaining_q[<<i, e>>] # 1
      <4>1. NonceAt(i, e, k0 + 1) \in Word
        BY <1>0, <1>5, <3>2, NonceWord
      <4> QED  BY <1>0, <1>5, <1>6, <3>2, <4>1 DEF ScanTypeOK
    <3> QED  BY <3>1, <3>2
  <2>3. remaining_q' \in [Inst \X Engines -> Word]
    <3>1. remaining_q[<<i, e>>] - 1 \in Word
      BY <1>0, <1>2, <1>6, ScanAssumption DEF ScanTypeOK, Word
    <3> QED  BY <1>0, <1>6, <3>1 DEF ScanTypeOK
  <2>4. scanned' \subseteq Word
    BY <1>0, <1>4, <2>1 DEF ScanTypeOK
  <2> QED  BY <1>0, <2>2, <2>3, <2>4 DEF ScanTypeOK
<1>8. LoopInv'
  BY <1>0 DEF LoopInv
<1>9. /\ remaining_q'[<<i, e>>] = remaining_q[<<i, e>>] - 1
      /\ remaining_q[<<i, e>>] # 1 => nonce_q'[<<i, e>>] = NonceAt(i, e, k0 + 1)
  BY <1>0, <1>5, <1>6 DEF ScanTypeOK
<1>10. ASSUME NEW j \in Inst, NEW f \in Engines, <<j, f>> # <<i, e>>
       PROVE  remaining_q'[<<j, f>>] = remaining_q[<<j, f>>] /\ nonce_q'[<<j, f>>] = nonce_q[<<j, f>>]
  BY <1>0, <1>6, <1>10 DEF ScanTypeOK
<1>11. scanned' = scanned \cup {NonceAt(i, e, k0)}
  BY <1>4
<1>12. UNCHANGED <<nonce_start, nonce_count>>
  OBVIOUS
<1> HIDE DEF HashNonce
<1>13. EngineInv'
  <2> SUFFICES ASSUME NEW j \in Inst, NEW f \in Engines
               PROVE  IF Loaded(j, f)'
                      THEN /\ remaining_q'[<<j, f>>] <= WorkOf(j, f)'
                           /\ remaining_q'[<<j, f>>] > 0 =>
                                 nonce_q'[<<j, f>>] = NonceAt(j, f, WorkOf(j, f) - remaining_q[<<j, f>>])'
                      ELSE remaining_q'[<<j, f>>] = 0
    BY DEF EngineInv
  <2>1. CASE <<j, f>> = <<i, e>>
    <3>1. j = i /\ f = e
      BY <2>1
    <3>2. WorkOf(i, e) - remaining_q'[<<i, e>>] = k0 + 1
      BY <1>1, <1>3, <1>9
    <3>3. NonceAt(i, e, WorkOf(i, e) - remaining_q[<<i, e>>])' = NonceAt(i, e, k0 + 1)
      BY <1>1, <1>12, <3>2 DEF NonceAt
    <3>4. Loaded(i, e)' /\ remaining_q'[<<i, e>>] <= WorkOf(i, e)'
      <4>1. Loaded(i, e)' /\ WorkOf(i, e)' = WorkOf(i, e)
        BY <1>1, <1>2, Zenon
      <4>2. remaining_q[<<i, e>>] \in Nat /\ WorkOf(i, e) \in Nat
        BY <1>1, Zenon
      <4>3. remaining_q'[<<i, e>>] <= WorkOf(i, e)
        BY <1>2, <1>9, <4>2
      <4> QED  BY <4>1, <4>3, Zenon
    <3>5. remaining_q'[<<i, e>>] > 0 => remaining_q[<<i, e>>] # 1
      BY <1>1, <1>9
    <3> QED  BY <1>9, <3>1, <3>3, <3>4, <3>5
  <2>2. CASE <<j, f>> # <<i, e>>
    <3>1. NonceAt(j, f, WorkOf(j, f) - remaining_q[<<j, f>>])'
            = NonceAt(j, f, WorkOf(j, f) - remaining_q[<<j, f>>])
      BY ZenonT(60), <1>1, <1>10, <1>12, <2>2 DEF NonceAt
    <3> QED  BY ZenonT(60), <1>0, <1>1, <1>10, <2>2, <3>1 DEF EngineInv
  <2> QED  BY <2>1, <2>2
<1>14. ASSUME NEW j \in Inst, NEW f \in Engines, NEW k \in Nat
       PROVE  Behind(j, f, k)' <=> Behind(j, f, k) \/ (j = i /\ f = e /\ k = k0)
  <2>1. CASE <<j, f>> = <<i, e>>
    <3>1. j = i /\ f = e
      BY <2>1, SMTT(60)
    <3>2. k + remaining_q'[<<i, e>>] < WorkOf(i, e) <=> k + remaining_q[<<i, e>>] < WorkOf(i, e) \/ k = k0
      BY <1>1, <1>3, <1>9, SMTT(60)
    <3> QED  BY <1>1, <1>2, <3>1, <3>2 DEF Behind
  <2>2. CASE <<j, f>> # <<i, e>>
    BY <1>1, <1>10, <2>2 DEF Behind
  <2> QED  BY <2>1, <2>2
<1>15. ScannedInv'
  <2>0. \A j \in Inst, f \in Engines, k \in Nat : NonceAt(j, f, k)' = NonceAt(j, f, k)
    BY <1>12 DEF NonceAt
  <2> SUFFICES ASSUME NEW n \in Word
               PROVE  n \in scanned' <=> \E j \in Inst, f \in Engines, k \in Nat :
                                            Behind(j, f, k)' /\ n = NonceAt(j, f, k)'
    BY DEF ScannedInv
  <2>1. n \in scanned <=> \E j \in Inst, f \in Engines, k \in Nat : Behind(j, f, k) /\ n = NonceAt(j, f, k)
    BY <1>0 DEF ScannedInv
  <2>2. ASSUME n \in scanned'
        PROVE  \E j \in Inst, f \in Engines, k \in Nat : Behind(j, f, k)' /\ n = NonceAt(j, f, k)'
    <3>1. PICK j \in Inst, f \in Engines, k \in Nat :
            (Behind(j, f, k) \/ (j = i /\ f = e /\ k = k0)) /\ n = NonceAt(j, f, k)
      BY <1>11, <2>1, <2>2
    <3>2. Behind(j, f, k)' /\ n = NonceAt(j, f, k)'
      BY <1>14, <2>0, <3>1
    <3> QED  BY <3>2
  <2>3. ASSUME NEW j \in Inst, NEW f \in Engines, NEW k \in Nat, Behind(j, f, k)', n = NonceAt(j, f, k)'
        PROVE  n \in scanned'
    <3>1. (Behind(j, f, k) \/ (j = i /\ f = e /\ k = k0)) /\ n = NonceAt(j, f, k)
      BY <1>14, <2>0, <2>3
    <3> QED  BY <1>11, <2>1, <3>1
  <2> QED  BY <2>2, <2>3
<1> QED  BY <1>7, <1>8, <1>13, <1>15 DEF ScanInv

LEMMA ScanInductive == ScanSpec => []ScanInv
<1>1. ScanInv /\ [ScanNext]_scanVars => ScanInv'
  <2> SUFFICES ASSUME ScanInv, [ScanNext]_scanVars PROVE ScanInv'
    OBVIOUS
  <2>1. CASE StartInstance
    BY <2>1, StartInv
  <2>2. ASSUME NEW i \in Inst, LoadEngine(i) PROVE ScanInv'
    BY <2>2, LoadInv
  <2>3. ASSUME NEW p \in Inst \X Engines, HashNonce(p) PROVE ScanInv'
    <3>1. PICK i \in Inst, e \in Engines : p = <<i, e>>
      OBVIOUS
    <3> QED  BY <2>3, <3>1, HashInv
  <2>4. CASE UNCHANGED scanVars
    <3> USE <2>4 DEF scanVars
    <3>1. ScanTypeOK' /\ LoopInv'
      BY DEF ScanInv, ScanTypeOK, LoopInv
    <3>2. EngineInv'
      BY DEF ScanInv, EngineInv, Loaded, WorkOf, NonceAt
    <3>3. ScannedInv'
      BY ZenonT(60) DEF ScanInv, ScannedInv, Behind, Loaded, WorkOf, NonceAt
    <3> QED  BY <3>1, <3>2, <3>3 DEF ScanInv
  <2> QED  BY <2>1, <2>2, <2>3, <2>4 DEF ScanNext
<1> QED  BY <1>1, ScanInitInv, PTL DEF ScanSpec

\* Every register of the scan keeps the width the source gives it.
THEOREM ScanTypeCorrect == ScanSpec => []ScanTypeOK
<1>1. ScanInv => ScanTypeOK
  BY DEF ScanInv
<1> QED  BY <1>1, ScanInductive, PTL

\* No nonce is hashed twice, for any number of instances and engines and any
\* word size.
THEOREM NoncesAreDisjoint == ScanSpec => []NoOverlap
<1>1. ASSUME ScanInv PROVE NoOverlap
  <2>0. ScanTypeOK /\ EngineInv /\ ScannedInv
    BY <1>1 DEF ScanInv
  <2> SUFFICES ASSUME NEW i \in Inst, NEW e \in Engines, remaining_q[<<i, e>>] > 0,
                      nonce_q[<<i, e>>] \in scanned
               PROVE  FALSE
    BY DEF NoOverlap
  <2>1. \A j \in Inst, f \in Engines : remaining_q[<<j, f>>] \in Nat /\ WorkOf(j, f) \in Nat
    <3>1. \A j \in Inst, f \in Engines : remaining_q[<<j, f>>] \in Nat
      BY <2>0, ScanAssumption DEF ScanTypeOK, Word
    <3> QED  BY <2>0, <3>1, Facts
  <2>2. /\ remaining_q[<<i, e>>] <= WorkOf(i, e)
        /\ nonce_q[<<i, e>>] = NonceAt(i, e, WorkOf(i, e) - remaining_q[<<i, e>>])
    BY <2>0 DEF EngineInv
  <2>3. PICK k \in Nat : k = WorkOf(i, e) - remaining_q[<<i, e>>]
    BY <2>1, <2>2
  <2>4. k < WorkOf(i, e) /\ ~(k + remaining_q[<<i, e>>] < WorkOf(i, e))
    BY <2>1, <2>2, <2>3
  <2>5. nonce_q[<<i, e>>] \in Word
    BY <2>0 DEF ScanTypeOK
  <2>6. PICK j \in Inst, f \in Engines, l \in Nat : Behind(j, f, l) /\ nonce_q[<<i, e>>] = NonceAt(j, f, l)
    BY <2>0, <2>5 DEF ScannedInv
  <2>7. l < WorkOf(j, f)
    BY <2>1, <2>6 DEF Behind
  <2>8. i = j /\ e = f /\ k = l
    BY <2>0, <2>2, <2>3, <2>4, <2>6, <2>7, NonceInjective
  <2> QED  BY <2>4, <2>6, <2>8 DEF Behind
<1> QED  BY <1>1, ScanInductive, PTL

LEMMA InRange == ScanInv => InsideRange
<1>1. ASSUME ScanInv PROVE InsideRange
  <2>0. ScanTypeOK /\ ScannedInv
    BY <1>1 DEF ScanInv
  <2> SUFFICES ASSUME NEW n \in scanned PROVE n \in NonceRange
    BY DEF InsideRange
  <2>1. PICK i \in Inst, e \in Engines, k \in Nat : Behind(i, e, k) /\ n = NonceAt(i, e, k)
    BY <2>0 DEF ScannedInv, ScanTypeOK
  <2>2. remaining_q[<<i, e>>] \in Nat /\ WorkOf(i, e) \in Nat
    <3>1. remaining_q[<<i, e>>] \in Nat
      BY <2>0, ScanAssumption DEF ScanTypeOK, Word
    <3> QED  BY <2>0, <3>1, Facts
  <2>3. k < WorkOf(i, e)
    BY <2>1, <2>2 DEF Behind
  <2>4. nonce_count \in Nat
    BY <2>0, Facts
  <2>5. Offset(nonce_count, i, e, k) \in 0 .. nonce_count - 1
    BY <2>3, <2>4, OffsetBound DEF WorkOf
  <2> QED  BY <2>1, <2>5 DEF NonceRange, NonceAt
<1> QED  BY <1>1

\* No engine hashes a nonce that was not asked for.
THEOREM ScanStaysInRange == ScanSpec => []InsideRange
  BY InRange, ScanInductive, PTL

\* Once every engine is idle the whole range has been hashed.
THEOREM ScanIsComplete == ScanSpec => []Covered
<1>1. ASSUME ScanInv PROVE Covered
  <2>0. ScanTypeOK /\ EngineInv /\ ScannedInv
    BY <1>1 DEF ScanInv
  <2> SUFFICES ASSUME Complete, NEW o \in 0 .. nonce_count - 1
               PROVE  Plus(nonce_start, o) \in scanned
    BY <1>1, InRange DEF Covered, NonceRange, InsideRange
  <2>1. nonce_count \in Nat /\ nonce_start \in Word
    BY <2>0, Facts
  <2>2. PICK i \in Inst, e \in Engines, k \in Nat :
          k < Work(nonce_count, i, e) /\ Offset(nonce_count, i, e, k) = o
    BY <2>1, OffsetOnto
  <2>3. remaining_q[<<i, e>>] = 0 /\ Loaded(i, e)
    BY ScanAssumption DEF Complete, Loaded, Inst, Engines
  <2>4. Behind(i, e, k) /\ NonceAt(i, e, k) = Plus(nonce_start, o)
    BY <2>2, <2>3 DEF Behind, WorkOf, NonceAt
  <2>5. NonceAt(i, e, k) \in Word
    BY <2>0, <2>2, NonceWord DEF WorkOf
  <2> QED  BY <2>0, <2>4, <2>5 DEF ScannedInv
<1> QED  BY <1>1, ScanInductive, PTL
=============================================================================
