------------------------- MODULE StratumClientProofs -------------------------
(***************************************************************************)
(* Proofs about StratumClient: the session never sits on work, work never  *)
(* goes back to an earlier notify, the LEDs tell the truth, the variables  *)
(* keep their types and extranonce2 is not reused before it wraps.         *)
(***************************************************************************)
EXTENDS StratumClient, TLAPS

\* What the proof needs to know of the types.
Types ==
    /\ pc \in {"idle", "connect", "delay"} \cup Session
    /\ g_disconnect_requested \in BOOLEAN
    /\ subscribed \in BOOLEAN /\ authorized \in BOOLEAN /\ have_target \in BOOLEAN
    /\ received \in Nat /\ active \in Nat
    /\ pending_notify = None \/ (/\ pending_notify.id \in Nat \ {0}
                                 /\ pending_notify.good \in BOOLEAN)
    /\ pending_notify.id \in Nat /\ current_notify.id \in Nat /\ job_queue.id \in Nat
    /\ (current_notify = None <=> current_notify.id = 0)
    /\ (job_queue = None <=> job_queue.id = 0)
    /\ (pending_notify = None <=> pending_notify.id = 0)

\* Every notify that is still around has arrived.
Arrived ==
    /\ active <= received /\ job_queue.id <= received
    /\ current_notify.id <= received /\ pending_notify.id <= received

\* NoNotifyWaits at every point of the receive loop.
NothingWaits ==
    /\ pc \in {"recv", "drain", "refill"} /\ pending_notify # None
            => ~Ready \/ ~pending_notify.good
    /\ pc = "hello" => pending_notify = None

IInv == Types /\ Arrived /\ WorkMovesForward /\ NothingWaits /\ LedsTruthful

\* A line that leads to try_dispatch_pending_notify with a notify n that is newer
\* than all others.
LEMMA TryDispatch ==
  ASSUME IInv, LedsTruthful', pc = "recv", pc' = "drain",
         NEW n, NEW size, try_dispatch_pending_notify(n, Ready', size),
         n = None \/ (n.id \in Nat \ {0} /\ n.good \in BOOLEAN),
         n.id \in Nat, n.id <= received',
         n # None => active < n.id /\ job_queue.id < n.id /\ current_notify.id < n.id,
         subscribed' \in BOOLEAN, authorized' \in BOOLEAN, have_target' \in BOOLEAN,
         received' \in Nat, received <= received',
         UNCHANGED <<active, g_disconnect_requested>>
  PROVE  IInv'
<1>0. Types /\ Arrived /\ WorkMovesForward
  BY DEF IInv
<1>1. CASE n = None
  <2>1. pending_notify' = None /\ UNCHANGED <<current_notify, job_queue>>
    BY <1>1 DEF try_dispatch_pending_notify
  <2>2. Types' /\ Arrived' /\ WorkMovesForward' /\ NothingWaits'
    BY <1>0, <2>1 DEF Types, Arrived, WorkMovesForward, NothingWaits, None, Session
  <2> QED  BY <2>2 DEF IInv
<1>2. CASE n # None /\ Ready' /\ n.good
  <2>1. pending_notify' = None /\ current_notify' = n /\ job_queue' # None /\ job_queue'.id = n.id
    BY <1>2 DEF try_dispatch_pending_notify, dispatch_notify_work, Dispatched, None
  <2>2. Types' /\ Arrived' /\ WorkMovesForward' /\ NothingWaits'
    BY <1>0, <1>2, <2>1 DEF Types, Arrived, WorkMovesForward, NothingWaits, None, Session
  <2> QED  BY <2>2 DEF IInv
<1>3. CASE n # None /\ ~(Ready' /\ n.good)
  <2>1. pending_notify' = n /\ UNCHANGED <<current_notify, job_queue>>
    BY <1>3 DEF try_dispatch_pending_notify, dispatch_notify_work
  <2>2. Types'
    BY <1>0, <1>3, <2>1 DEF Types, None, Session
  <2>3. Arrived' /\ WorkMovesForward'
    BY <1>0, <1>3, <2>1 DEF Types, Arrived, WorkMovesForward, None
  <2>4. NothingWaits'
    BY <1>3, <2>1 DEF NothingWaits
  <2> QED  BY <2>2, <2>3, <2>4 DEF IInv
<1> QED  BY <1>1, <1>2, <1>3

LEMMA InitInv == Init => IInv
<1> SUFFICES ASSUME Init PROVE IInv
  OBVIOUS
<1>1. pc = "idle" /\ received = 0 /\ active = 0 /\ pending_notify = None /\ current_notify = None
      /\ job_queue = None /\ None.id = 0
  BY DEF Init, NoState, None
<1>3. g_disconnect_requested \in BOOLEAN /\ subscribed \in BOOLEAN /\ authorized \in BOOLEAN
      /\ have_target \in BOOLEAN
  BY Zenon DEF Init, NoState
<1>4. Types /\ Arrived /\ WorkMovesForward /\ NothingWaits
  BY <1>1, <1>3 DEF Types, Arrived, WorkMovesForward, NothingWaits
<1>2. LedsTruthful
  BY DEF Init, NoState, LedsTruthful, Session
<1> QED  BY <1>2, <1>4 DEF IInv

\* The lines of the pool.
LEMMA NotifyInv ==
  ASSUME IInv, NEW clean \in BOOLEAN, NEW good \in BOOLEAN, RxNotify(clean, good)
  PROVE  IInv'
<1>0. Types /\ Arrived /\ LedsTruthful
  BY DEF IInv
<1> DEFINE n == [id |-> received + 1, clean |-> clean, good |-> good]
<1>1. /\ pc = "recv" /\ pc' = "drain" /\ received' = received + 1
      /\ UNCHANGED <<active, g_disconnect_requested, subscribed, authorized, have_target>>
  BY DEF RxNotify, Line, scanVars, flagVars, readyVars
<1>2. Ready' = Ready
  BY <1>1 DEF Ready
<1>3. try_dispatch_pending_notify(n, Ready', extranonce2_size)
  BY <1>2 DEF RxNotify
<1>4. LedsTruthful'
  BY <1>0, <1>1 DEF LedsTruthful, Types, RxNotify, Line, Session
<1>5. /\ n.id \in Nat \ {0} /\ n.good \in BOOLEAN /\ n.id <= received'
      /\ active < n.id /\ job_queue.id < n.id /\ current_notify.id < n.id
  BY <1>0, <1>1 DEF Types, Arrived
<1>6. /\ received' \in Nat /\ received <= received' /\ n.id \in Nat
      /\ subscribed' \in BOOLEAN /\ authorized' \in BOOLEAN /\ have_target' \in BOOLEAN
  BY <1>0, <1>1 DEF Types
<1> HIDE DEF n
<1> QED  BY <1>1, <1>3, <1>4, <1>5, <1>6, TryDispatch

\* The other lines look at the notify that is pending.
LEMMA PendingInv ==
  ASSUME IInv, LedsTruthful', pc = "recv", pc' = "drain",
         NEW size, try_dispatch_pending_notify(pending_notify, Ready', size),
         subscribed' \in BOOLEAN, authorized' \in BOOLEAN, have_target' \in BOOLEAN,
         UNCHANGED <<received, active, g_disconnect_requested>>
  PROVE  IInv'
<1>1. /\ pending_notify = None \/ (pending_notify.id \in Nat \ {0} /\ pending_notify.good \in BOOLEAN)
      /\ pending_notify.id \in Nat /\ pending_notify.id <= received'
      /\ received' \in Nat /\ received <= received'
  BY DEF IInv, Types, Arrived
<1>2. pending_notify # None => /\ active < pending_notify.id /\ job_queue.id < pending_notify.id
                              /\ current_notify.id < pending_notify.id
  BY DEF IInv, WorkMovesForward
<1>3. UNCHANGED <<active, g_disconnect_requested>>
  OBVIOUS
<1> QED  BY <1>1, <1>2, <1>3, TryDispatch

LEMMA LineInv ==
  ASSUME IInv, RxTarget \/ (\E size \in Sizes : RxSubscribe(size)) \/ RxAuthorize \/ RxOther
  PROVE  IInv'
<1>0. Types /\ LedsTruthful
  BY DEF IInv
<1>1. /\ pc = "recv" /\ pc' = "drain" /\ received' = received
      /\ UNCHANGED <<active, g_disconnect_requested>>
  BY DEF RxTarget, RxSubscribe, RxAuthorize, RxOther, Line, scanVars, flagVars, lineVars
<1>2. LedsTruthful'
  <2>1. UNCHANGED <<led_job, g_connected, led_connected>>
    BY DEF RxTarget, RxSubscribe, RxAuthorize, RxOther, Line
  <2>2. led_attached' <=> subscribed' /\ authorized'
    <3>1. led_attached <=> subscribed /\ authorized
      BY <1>0, <1>1 DEF LedsTruthful, Session
    <3>2. CASE RxTarget \/ RxOther
      BY <3>1, <3>2 DEF RxTarget, RxOther, readyVars
    <3>3. CASE \E size \in Sizes : RxSubscribe(size)
      <4>1. subscribed' /\ led_attached' = authorized /\ authorized' = authorized
        BY <3>3 DEF RxSubscribe
      <4> QED  BY <4>1
    <3>4. CASE RxAuthorize
      <4>1. authorized' /\ led_attached' = subscribed /\ subscribed' = subscribed
        BY <3>4 DEF RxAuthorize
      <4> QED  BY <4>1
    <3> QED  BY <3>2, <3>3, <3>4
  <2> QED  BY <1>0, <1>1, <2>1, <2>2 DEF LedsTruthful, Session
<1>3. subscribed' \in BOOLEAN /\ authorized' \in BOOLEAN /\ have_target' \in BOOLEAN
  BY <1>0, Zenon DEF Types, RxTarget, RxSubscribe, RxAuthorize, RxOther, readyVars
<1>4. \E size : try_dispatch_pending_notify(pending_notify, Ready', size)
  <2>1. CASE RxTarget
    <3>1. Ready' = (subscribed /\ authorized)
      BY <1>0, <2>1 DEF RxTarget, Ready, Types
    <3> QED  BY <2>1, <3>1 DEF RxTarget
  <2>2. ASSUME NEW size \in Sizes, RxSubscribe(size)
        PROVE  \E z : try_dispatch_pending_notify(pending_notify, Ready', z)
    <3>1. Ready' = (have_target /\ authorized)
      BY <1>0, <2>2 DEF RxSubscribe, Ready, Types
    <3> QED  BY <2>2, <3>1 DEF RxSubscribe
  <2>3. CASE RxAuthorize
    <3>1. Ready' = (have_target /\ subscribed)
      BY <1>0, <2>3 DEF RxAuthorize, Ready, Types
    <3> QED  BY <2>3, <3>1 DEF RxAuthorize
  <2>4. CASE RxOther
    <3>1. Ready' = Ready
      BY <2>4 DEF RxOther, Ready, readyVars
    <3> QED  BY <2>4, <3>1 DEF RxOther
  <2> QED  BY <2>1, <2>2, <2>3, <2>4
<1> QED  BY <1>1, <1>2, <1>3, <1>4, PendingInv

LEMMA RefillInv == ASSUME IInv, refill_if_idle PROVE IInv'
<1>0. Types /\ Arrived /\ WorkMovesForward /\ NothingWaits /\ LedsTruthful
  BY DEF IInv
<1>1. /\ pc = "refill" /\ pc' \in {"close", "recv"}
      /\ UNCHANGED <<active, g_disconnect_requested, received, subscribed, authorized, have_target,
                     pending_notify, current_notify, g_connected, led_connected, led_attached,
                     led_job>>
  BY DEF refill_if_idle, LoopHead, scanVars, flagVars, lineVars, readyVars, ledVars
<1>2. \/ job_queue' = job_queue
      \/ current_notify # None /\ job_queue' # None /\ job_queue'.id = current_notify.id
  <2>1. CASE current_notify # None /\ ~running /\ Ready /\ current_notify.good
    BY <1>0, <2>1 DEF refill_if_idle, dispatch_notify_work, Types, None
  <2>2. CASE ~(current_notify # None /\ ~running /\ Ready /\ current_notify.good)
    BY <2>2 DEF refill_if_idle, dispatch_notify_work
  <2> QED  BY <2>1, <2>2
<1>3. Types'
  BY <1>0, <1>1, <1>2 DEF Types, Session, None
<1>4. Arrived' /\ WorkMovesForward'
  BY <1>0, <1>1, <1>2 DEF Types, Arrived, WorkMovesForward, None
<1>5. NothingWaits'
  BY <1>0, <1>1 DEF NothingWaits, Ready
<1>6. LedsTruthful'
  BY <1>0, <1>1 DEF LedsTruthful, Session
<1> QED  BY <1>3, <1>4, <1>5, <1>6 DEF IInv

\* Steps of stratum_task that leave the work alone.
LEMMA TaskInv ==
  ASSUME IInv,
         \/ StartConnect \/ ConnectFails \/ Connected \/ send_subscribe_authorize
         \/ RxNothing \/ RecvError \/ drain_share_results \/ CloseSession \/ Delay
  PROVE  IInv'
<1>0. Types /\ Arrived /\ WorkMovesForward /\ NothingWaits /\ LedsTruthful
  BY DEF IInv
<1>1. CASE Connected
  <2>3. /\ pc' = "hello" /\ pending_notify' = None /\ current_notify' = None /\ None.id = 0
        /\ UNCHANGED <<active, received, job_queue>>
        /\ g_disconnect_requested' \in BOOLEAN /\ subscribed' \in BOOLEAN
        /\ authorized' \in BOOLEAN /\ have_target' \in BOOLEAN
    BY <1>1, Zenon DEF Connected, None, scanVars, lineVars
  <2>1. Types' /\ Arrived' /\ WorkMovesForward' /\ NothingWaits'
    BY <1>0, <2>3 DEF Types, Arrived, WorkMovesForward, NothingWaits, Session
  <2>2. LedsTruthful'
    BY <1>0, <1>1 DEF Connected, LedsTruthful, Session, lineVars
  <2> QED  BY <2>1, <2>2 DEF IInv
<1>2. CASE CloseSession
  <2>1. Types' /\ Arrived' /\ WorkMovesForward' /\ NothingWaits'
    BY <1>0, <1>2 DEF CloseSession, Types, Arrived, WorkMovesForward, NothingWaits, Session,
                      scanVars, lineVars, flagVars, readyVars, workVars
  <2>2. LedsTruthful'
    BY <1>0, <1>2 DEF CloseSession, LedsTruthful, Session, lineVars
  <2> QED  BY <2>1, <2>2 DEF IInv
<1>3. ASSUME \/ StartConnect \/ ConnectFails \/ send_subscribe_authorize
             \/ RxNothing \/ RecvError \/ drain_share_results \/ Delay
      PROVE  IInv'
  <2>1. /\ UNCHANGED <<g_disconnect_requested, subscribed, authorized, have_target, pending_notify,
                       current_notify, job_queue, active, received, g_connected, led_connected,
                       led_attached, led_job>>
        /\ \/ pc \notin Session /\ pc' \in {"idle", "connect", "delay"}
           \/ pc = "hello" /\ pc' \in {"recv", "close"}
           \/ pc \in {"recv", "drain", "refill"} /\ pc' \in {"drain", "refill", "close"}
    <3>1. UNCHANGED <<g_disconnect_requested, subscribed, authorized, have_target, pending_notify,
                      current_notify, job_queue, active, received, g_connected, led_connected,
                      led_attached, led_job>>
      BY ZenonT(60), <1>3 DEF StartConnect, ConnectFails, send_subscribe_authorize, RxNothing, RecvError, Line,
                  drain_share_results, Delay, scanVars, lineVars, flagVars, readyVars, workVars,
                  ledVars
    <3>2. \/ pc \notin Session /\ pc' \in {"idle", "connect", "delay"}
          \/ pc = "hello" /\ pc' \in {"recv", "close"}
          \/ pc \in {"recv", "drain", "refill"} /\ pc' \in {"drain", "refill", "close"}
      BY <1>3 DEF StartConnect, ConnectFails, send_subscribe_authorize, RxNothing, RecvError, Line,
                  drain_share_results, Delay, LoopHead, Session
    <3> QED  BY <3>1, <3>2
  <2>2. Types' /\ Arrived' /\ WorkMovesForward'
    BY <1>0, <2>1 DEF Types, Arrived, WorkMovesForward, Session
  <2>3. NothingWaits'
    BY <1>0, <2>1 DEF NothingWaits, Ready, Session
  <2>4. LedsTruthful'
    BY <1>0, <2>1 DEF LedsTruthful, Session
  <2> QED  BY <2>2, <2>3, <2>4 DEF IInv
<1> QED  BY <1>1, <1>2, <1>3

LEMMA OtherInv == ASSUME IInv, Console \/ Miner PROVE IInv'
<1>0. Types /\ Arrived /\ WorkMovesForward /\ NothingWaits /\ LedsTruthful
  BY DEF IInv
<1>1. CASE Console
  <2>1. /\ UNCHANGED <<pc, subscribed, authorized, have_target, pending_notify, current_notify,
                       job_queue, active, received, g_connected, led_connected, led_attached,
                       led_job>>
        /\ g_disconnect_requested' \in BOOLEAN
    BY ZenonT(60), <1>0, <1>1 DEF Console, stratum_client_request_connect, stratum_client_request_disconnect,
                      Types, scanVars, lineVars, readyVars, workVars, ledVars
  <2>2. Types' /\ Arrived' /\ WorkMovesForward'
    BY <1>0, <2>1 DEF Types, Arrived, WorkMovesForward
  <2>3. NothingWaits' /\ LedsTruthful'
    BY <1>0, <2>1 DEF NothingWaits, LedsTruthful, Ready
  <2> QED  BY <2>2, <2>3 DEF IInv
<1>2. CASE Miner
  <2>1. /\ UNCHANGED <<pc, g_disconnect_requested, subscribed, authorized, have_target,
                       pending_notify, current_notify, received, g_connected, led_connected,
                       led_attached, led_job>>
        /\ \/ UNCHANGED <<active, job_queue>>
           \/ job_queue # None /\ active' = job_queue.id /\ job_queue' = None
    BY <1>2 DEF Miner, StartJob, FinishRange, FindCandidate, QueueResult, flagVars, lineVars,
                readyVars, workVars, ledVars
  <2>2. Types' /\ Arrived' /\ WorkMovesForward'
    BY <1>0, <2>1 DEF Types, Arrived, WorkMovesForward, None
  <2>3. NothingWaits' /\ LedsTruthful'
    BY <1>0, <2>1 DEF NothingWaits, LedsTruthful, Ready
  <2> QED  BY <2>2, <2>3 DEF IInv
<1> QED  BY <1>1, <1>2

LEMMA Inductive == Spec => []IInv
<1>1. IInv /\ [Next]_vars => IInv'
  <2> SUFFICES ASSUME IInv, [Next]_vars PROVE IInv'
    OBVIOUS
  <2>1. CASE stratum_task
    BY <2>1, TaskInv, NotifyInv, LineInv, RefillInv DEF stratum_task
  <2>2. CASE Console \/ Miner
    BY <2>2, OtherInv
  <2>3. CASE UNCHANGED vars
    BY <2>3 DEF IInv, Types, Arrived, WorkMovesForward, NothingWaits, LedsTruthful, Ready, vars,
                flagVars, ledVars, lineVars, readyVars, workVars, scanVars
  <2> QED  BY <2>1, <2>2, <2>3 DEF Next
<1> QED  BY <1>1, InitInv, PTL DEF Spec

\* A notify waits only for something that is missing, whatever the order of the
\* pool's lines.
THEOREM NotifiesAreDispatched == Spec => []NoNotifyWaits
<1>1. IInv => NoNotifyWaits
  BY DEF IInv, NothingWaits, NoNotifyWaits
<1> QED  BY <1>1, Inductive, PTL

\* The work of the miner follows the order in which the pool sent it.
THEOREM WorkNeverGoesBack == Spec => []WorkMovesForward
<1>1. IInv => WorkMovesForward
  BY DEF IInv
<1> QED  BY <1>1, Inductive, PTL

\* DS3, DS5 and DS6 show what the documents say they show.
THEOREM LedsTellTheTruth == Spec => []LedsTruthful
<1>1. IInv => LedsTruthful
  BY DEF IInv
<1> QED  BY <1>1, Inductive, PTL

-----------------------------------------------------------------------------
(***************************************************************************)
(* Types, and the values of extranonce2.  Until the counter has run        *)
(* through all the values, it is larger than all the values in rolled.     *)
(***************************************************************************)
Rolling(counter, used, over, size) ==
    ~over => counter < Values(size) /\ \A v \in used : v < counter

RollInv ==
    /\ pc = "hello" \/ "subscribe" \in owed => ~subscribed
    /\ ~subscribed => extranonce2_counter = 0 /\ rolled = {} /\ ~wrapped
    /\ subscribed => Rolling(extranonce2_counter, rolled, wrapped, extranonce2_size)

SessionInv == TypeOK /\ RollInv

LEMMA SmallMod == ASSUME NEW a \in Nat, NEW b \in Nat, a < b PROVE a % b = a
  OBVIOUS

LEMMA WordSize == /\ ByteMod ^ WordBytes \in Nat \ {0}
                  /\ \A size \in Nat : Values(size) \in 1 .. ByteMod ^ WordBytes
<1>1. WordBytes \in 0 .. WordBytes
  BY ClientAssumption
<1>2. ByteMod ^ WordBytes \in Nat \ {0}
  BY <1>1, ClientAssumption
<1>3. ASSUME NEW size \in Nat PROVE Values(size) \in 1 .. ByteMod ^ WordBytes
  <2>1. (IF size < WordBytes THEN size ELSE WordBytes) \in 0 .. WordBytes
    BY ClientAssumption
  <2> QED  BY <2>1, ClientAssumption DEF Values
<1> QED  BY <1>2, <1>3

\* A job takes the value of the counter, and the counter moves on.
LEMMA DispatchRolls ==
  ASSUME TypeOK, NEW n \in Notifies, NEW clean \in BOOLEAN, NEW ready \in BOOLEAN, NEW size \in Nat,
         dispatch_notify_work(n, clean, ready, size),
         ready => Rolling(extranonce2_counter, rolled, wrapped, size)
  PROVE  /\ extranonce2_counter' \in 0 .. ByteMod ^ WordBytes - 1
         /\ rolled' \subseteq Nat /\ wrapped' \in BOOLEAN /\ job_queue' \in Jobs \cup {None}
         /\ ready => Rolling(extranonce2_counter', rolled', wrapped', size)
         /\ ~ready => UNCHANGED <<extranonce2_counter, rolled, wrapped>>
         /\ job_queue' # job_queue => wrapped \/ job_queue'.extranonce2 \notin rolled
<1>1. CASE ~ready
  BY <1>1 DEF dispatch_notify_work, TypeOK
<1>2. CASE ready
  <2> DEFINE c == extranonce2_counter
             M == ByteMod ^ WordBytes
             V == Values(size)
  <2>1. M \in Nat \ {0} /\ V \in Nat \ {0} /\ V <= M /\ c \in Nat /\ c < M
    BY WordSize DEF TypeOK
  <2>2. /\ extranonce2_counter' = (c + 1) % M /\ rolled' = rolled \cup {c % V}
        /\ wrapped' = (wrapped \/ c + 1 >= V)
        /\ job_queue' = IF n.good THEN [id |-> n.id, extranonce2 |-> c % V, clean |-> clean]
                        ELSE job_queue
    BY <1>2 DEF dispatch_notify_work, NextCounter, Extranonce2
  <2> HIDE DEF M, V, c
  <2>3. (c + 1) % M \in 0 .. M - 1 /\ c % V \in Nat
    BY <2>1
  <2>4. rolled' \subseteq Nat
    BY <2>2, <2>3 DEF TypeOK
  <2>5. wrapped' \in BOOLEAN
    BY <2>2
  <2>6. job_queue' \in Jobs \cup {None}
    BY <2>2, <2>3 DEF TypeOK, Jobs, Notifies
  <2>7. Rolling(extranonce2_counter', rolled', wrapped', size)
    <3> SUFFICES ASSUME ~wrapped' PROVE /\ extranonce2_counter' < V
                                        /\ \A v \in rolled' : v < extranonce2_counter'
      BY DEF Rolling, V
    <3>0. ~wrapped /\ ~(c + 1 >= V)
      BY Zenon, <2>2
    <3>1. ~wrapped /\ c + 1 < V
      BY <2>1, <3>0
    <3>2. extranonce2_counter' = c + 1 /\ c % V = c
      BY <2>1, <2>2, <3>1, SmallMod
    <3>3. \A v \in rolled : v < c
      BY <1>2, <3>1 DEF Rolling, c
    <3>4. rolled \subseteq Nat
      BY DEF TypeOK
    <3> QED  BY <2>1, <2>2, <3>1, <3>2, <3>3, <3>4
  <2>8. job_queue' # job_queue => wrapped \/ job_queue'.extranonce2 \notin rolled
    <3> SUFFICES ASSUME job_queue' # job_queue, ~wrapped PROVE job_queue'.extranonce2 \notin rolled
      BY DEF TypeOK
    <3>1. c < V /\ \A v \in rolled : v < c
      BY <1>2 DEF Rolling, c, V
    <3>2. job_queue'.extranonce2 = c
      BY <2>1, <2>2, <3>1, SmallMod
    <3>3. c \notin rolled
      BY <2>1, <3>1
    <3> QED  BY <3>2, <3>3
  <2>9. extranonce2_counter' \in 0 .. ByteMod ^ WordBytes - 1
    BY <2>2, <2>3 DEF M
  <2> QED  BY <1>2, <2>4, <2>5, <2>6, <2>7, <2>8, <2>9
<1> QED  BY <1>1, <1>2

\* A queued job has a new extranonce2: the body of ExtranonceRolls.
JobRolls ==
    job_queue' # job_queue /\ job_queue' # None =>
        job_queue'.extranonce2 \notin rolled \/ wrapped

\* The same for a line of the pool, with the pending notify it leaves.
LEMMA TryRolls ==
  ASSUME TypeOK, NEW n \in Notifies \cup {None}, NEW ready \in BOOLEAN, NEW size \in Nat,
         try_dispatch_pending_notify(n, ready, size),
         ready => Rolling(extranonce2_counter, rolled, wrapped, size)
  PROVE  /\ extranonce2_counter' \in 0 .. ByteMod ^ WordBytes - 1
         /\ rolled' \subseteq Nat /\ wrapped' \in BOOLEAN /\ job_queue' \in Jobs \cup {None}
         /\ ready => Rolling(extranonce2_counter', rolled', wrapped', size)
         /\ ~ready => UNCHANGED <<extranonce2_counter, rolled, wrapped>>
         /\ JobRolls
         /\ pending_notify' \in Notifies \cup {None} /\ current_notify' \in Notifies \cup {None}
         /\ captured' \in BOOLEAN
<1>1. CASE n = None
  BY <1>1, Zenon DEF try_dispatch_pending_notify, TypeOK, JobRolls
<1>2. CASE n # None
  <2>1. n \in Notifies /\ n.clean \in BOOLEAN
    BY <1>2 DEF Notifies
  <2>2. dispatch_notify_work(n, n.clean, ready, size)
    BY <1>2 DEF try_dispatch_pending_notify
  <2>3. pending_notify' \in Notifies \cup {None} /\ current_notify' \in Notifies \cup {None}
    BY <1>2, <2>1 DEF try_dispatch_pending_notify, Dispatched, TypeOK
  <2>4. captured' \in BOOLEAN
    BY <1>2 DEF try_dispatch_pending_notify
  <2> QED  BY <2>1, <2>2, <2>3, <2>4, DispatchRolls DEF JobRolls
<1> QED  BY <1>1, <1>2

LEMMA InitRolls == Init => SessionInv
<1> SUFFICES ASSUME Init PROVE SessionInv
  OBVIOUS
<1>1. 0 \in 0 .. ByteMod ^ WordBytes - 1
  BY WordSize
<1>2. 0 \in 0 .. MaxNotify /\ 0 \in 0 .. ResultDepth /\ 0 \in 0 .. MaxFound
  BY ClientAssumption
<1>3. TypeOK
  BY <1>1, <1>2, Zenon DEF Init, NoState, TypeOK, Session
<1>4. RollInv
  BY DEF Init, NoState, RollInv
<1> QED  BY <1>3, <1>4 DEF SessionInv

\* Lines that leave the subscription as it is.
LEMMA KnownRolls ==
  ASSUME SessionInv, NEW n \in Notifies \cup {None}, NEW ready \in BOOLEAN,
         try_dispatch_pending_notify(n, ready, extranonce2_size), ready => subscribed,
         UNCHANGED <<subscribed, extranonce2_size>>, owed' \subseteq owed, pc' = "drain"
  PROVE  /\ extranonce2_counter' \in 0 .. ByteMod ^ WordBytes - 1
         /\ rolled' \subseteq Nat /\ wrapped' \in BOOLEAN /\ job_queue' \in Jobs \cup {None}
         /\ pending_notify' \in Notifies \cup {None} /\ current_notify' \in Notifies \cup {None}
         /\ captured' \in BOOLEAN
         /\ JobRolls /\ RollInv'
<1>1. TypeOK /\ RollInv /\ extranonce2_size \in Nat
  BY ClientAssumption DEF SessionInv, TypeOK
<1>2. ready => Rolling(extranonce2_counter, rolled, wrapped, extranonce2_size)
  BY <1>1 DEF RollInv
<1>3. /\ extranonce2_counter' \in 0 .. ByteMod ^ WordBytes - 1
      /\ rolled' \subseteq Nat /\ wrapped' \in BOOLEAN /\ job_queue' \in Jobs \cup {None}
      /\ ready => Rolling(extranonce2_counter', rolled', wrapped', extranonce2_size)
      /\ ~ready => UNCHANGED <<extranonce2_counter, rolled, wrapped>>
      /\ JobRolls
      /\ pending_notify' \in Notifies \cup {None} /\ current_notify' \in Notifies \cup {None}
      /\ captured' \in BOOLEAN
  BY <1>1, <1>2, TryRolls
<1>4. RollInv'
  <2>1. CASE ready
    BY <1>1, <1>3, <2>1 DEF RollInv
  <2>2. CASE ~ready
    <3>1. UNCHANGED <<extranonce2_counter, rolled, wrapped>>
      BY <1>3, <2>2
    <3> QED  BY <1>1, <3>1 DEF RollInv
  <2> QED  BY <2>1, <2>2
<1> QED  BY <1>3, <1>4

\* The lines that look at a notify, new or pending.
LEMMA LineRolls ==
  ASSUME SessionInv,
         \/ \E clean, good \in BOOLEAN : RxNotify(clean, good)
         \/ RxTarget \/ (\E size \in Sizes : RxSubscribe(size)) \/ RxAuthorize \/ RxOther
  PROVE  SessionInv' /\ JobRolls
<1>0. TypeOK /\ RollInv
  BY DEF SessionInv
<1>1. /\ pc' = "drain" /\ owed' \subseteq owed
      /\ UNCHANGED <<g_connect_requested, g_disconnect_requested, g_connected, led_connected,
                     active, running, results, found>>
  BY <1>0, Zenon DEF RxNotify, RxTarget, RxSubscribe, RxAuthorize, RxOther, Line, flagVars,
                     scanVars, lineVars, TypeOK
<1>2. /\ subscribed' \in BOOLEAN /\ authorized' \in BOOLEAN /\ have_target' \in BOOLEAN
      /\ led_attached' \in BOOLEAN /\ extranonce2_size' \in Sizes \cup {0}
  BY <1>0, Zenon DEF RxNotify, RxTarget, RxSubscribe, RxAuthorize, RxOther, readyVars, TypeOK
<1>3. led_job' \in {0, 1} /\ received' \in 0 .. MaxNotify
  <2>1. \/ led_job' = 1 - led_job /\ received < MaxNotify /\ received' = received + 1
        \/ UNCHANGED <<led_job, received>>
    BY Zenon DEF RxNotify, RxTarget, RxSubscribe, RxAuthorize, RxOther, lineVars
  <2>2. led_job \in {0, 1} /\ received \in 0 .. MaxNotify
    BY <1>0 DEF TypeOK
  <2> QED  BY <2>1, <2>2, ClientAssumption
<1>4. /\ extranonce2_counter' \in 0 .. ByteMod ^ WordBytes - 1
      /\ rolled' \subseteq Nat /\ wrapped' \in BOOLEAN /\ job_queue' \in Jobs \cup {None}
      /\ pending_notify' \in Notifies \cup {None} /\ current_notify' \in Notifies \cup {None}
      /\ captured' \in BOOLEAN
      /\ JobRolls /\ RollInv'
  <2>1. ASSUME NEW clean \in BOOLEAN, NEW good \in BOOLEAN, RxNotify(clean, good) PROVE <1>4!:
    <3> DEFINE n == [id |-> received + 1, clean |-> clean, good |-> good]
    <3>1. n \in Notifies
      BY <1>0, <2>1, ClientAssumption DEF RxNotify, Notifies, TypeOK
    <3>2. try_dispatch_pending_notify(n, Ready, extranonce2_size)
      BY <2>1 DEF RxNotify
    <3>3. Ready \in BOOLEAN /\ (Ready => subscribed) /\ UNCHANGED <<subscribed, extranonce2_size>>
      BY <2>1 DEF Ready, RxNotify, readyVars
    <3> HIDE DEF n
    <3> QED  BY <1>1, <3>1, <3>2, <3>3, KnownRolls
  <2>2. CASE RxTarget
    <3>1. /\ try_dispatch_pending_notify(pending_notify, subscribed /\ authorized, extranonce2_size)
          /\ UNCHANGED <<subscribed, extranonce2_size>>
      BY <2>2 DEF RxTarget
    <3>2. pending_notify \in Notifies \cup {None} /\ (subscribed /\ authorized) \in BOOLEAN
      BY <1>0 DEF TypeOK
    <3> QED  BY <1>1, <3>1, <3>2, KnownRolls, Zenon
  <2>3. CASE RxAuthorize
    <3>1. /\ try_dispatch_pending_notify(pending_notify, have_target /\ subscribed, extranonce2_size)
          /\ UNCHANGED <<subscribed, extranonce2_size>>
      BY <2>3 DEF RxAuthorize
    <3>2. pending_notify \in Notifies \cup {None} /\ (have_target /\ subscribed) \in BOOLEAN
      BY <1>0 DEF TypeOK
    <3> QED  BY <1>1, <3>1, <3>2, KnownRolls, Zenon
  <2>4. CASE RxOther
    <3>1. /\ try_dispatch_pending_notify(pending_notify, Ready, extranonce2_size)
          /\ UNCHANGED <<subscribed, extranonce2_size>>
      BY <2>4 DEF RxOther, readyVars
    <3>2. pending_notify \in Notifies \cup {None} /\ Ready \in BOOLEAN /\ (Ready => subscribed)
      BY <1>0 DEF TypeOK, Ready
    <3> QED  BY <1>1, <3>1, <3>2, KnownRolls
  <2>5. ASSUME NEW size \in Sizes, RxSubscribe(size) PROVE <1>4!:
    <3> DEFINE ready == have_target /\ authorized
    <3>1. /\ try_dispatch_pending_notify(pending_notify, ready, size)
          /\ subscribed' = TRUE /\ extranonce2_size' = size
          /\ "subscribe" \in owed /\ "subscribe" \notin owed'
      BY <2>5 DEF RxSubscribe
    <3>2. pending_notify \in Notifies \cup {None} /\ ready \in BOOLEAN /\ size \in Nat
      BY <1>0, ClientAssumption DEF TypeOK
    <3>3. extranonce2_counter = 0 /\ rolled = {} /\ ~wrapped
      BY <1>0, <3>1 DEF RollInv
    <3>4. Rolling(extranonce2_counter, rolled, wrapped, size)
      BY <3>2, <3>3, WordSize DEF Rolling
    <3> HIDE DEF ready
    <3>5. /\ extranonce2_counter' \in 0 .. ByteMod ^ WordBytes - 1
          /\ rolled' \subseteq Nat /\ wrapped' \in BOOLEAN /\ job_queue' \in Jobs \cup {None}
          /\ ready => Rolling(extranonce2_counter', rolled', wrapped', size)
          /\ ~ready => UNCHANGED <<extranonce2_counter, rolled, wrapped>>
          /\ JobRolls
          /\ pending_notify' \in Notifies \cup {None} /\ current_notify' \in Notifies \cup {None}
          /\ captured' \in BOOLEAN
      BY <1>0, <3>1, <3>2, <3>4, TryRolls
    <3>6. Rolling(extranonce2_counter', rolled', wrapped', size)
      BY <3>2, <3>4, <3>5
    <3>7. RollInv'
      BY <1>1, <3>1, <3>6 DEF RollInv
    <3> QED  BY <3>5, <3>7
  <2> QED  BY <2>1, <2>2, <2>3, <2>4, <2>5
<1>5. pc' \in {"idle", "connect", "delay"} \cup Session /\ owed' \subseteq {"subscribe", "authorize"}
  BY <1>0, <1>1 DEF Session, TypeOK
<1>6. TypeOK'
  BY <1>0, <1>1, <1>2, <1>3, <1>4, <1>5, Zenon DEF TypeOK
<1> QED  BY <1>4, <1>6 DEF SessionInv

\* A step that leaves the flags, the LEDs, the lines and the session's progress alone.
LEMMA IdleTypes ==
  ASSUME TypeOK, UNCHANGED <<flagVars, g_connected, ledVars, lineVars, readyVars>>
  PROVE  /\ g_connect_requested' \in BOOLEAN /\ g_disconnect_requested' \in BOOLEAN
         /\ g_connected' \in BOOLEAN /\ led_connected' \in BOOLEAN /\ led_attached' \in BOOLEAN
         /\ led_job' \in {0, 1}
         /\ owed' \subseteq {"subscribe", "authorize"} /\ received' \in 0 .. MaxNotify
         /\ subscribed' \in BOOLEAN /\ authorized' \in BOOLEAN /\ have_target' \in BOOLEAN
         /\ extranonce2_size' \in Sizes \cup {0}
<1>1. UNCHANGED <<g_connect_requested, g_disconnect_requested, g_connected>>
  BY DEF flagVars
<1>2. UNCHANGED <<led_connected, led_attached, led_job, owed, received>>
  BY DEF ledVars, lineVars
<1>3. UNCHANGED <<subscribed, authorized, have_target, extranonce2_size>>
  BY DEF readyVars
<1> QED  BY <1>1, <1>2, <1>3, Zenon DEF TypeOK

\* The same for the work.
LEMMA WorkTypes ==
  ASSUME TypeOK, UNCHANGED workVars
  PROVE  /\ pending_notify' \in Notifies \cup {None} /\ current_notify' \in Notifies \cup {None}
         /\ extranonce2_counter' \in 0 .. ByteMod ^ WordBytes - 1
         /\ rolled' \subseteq Nat /\ wrapped' \in BOOLEAN
<1>1. UNCHANGED <<pending_notify, current_notify, extranonce2_counter, rolled, wrapped>>
  BY DEF workVars
<1> QED  BY <1>1, Zenon DEF TypeOK

\* And for the miner.
LEMMA ScanTypes ==
  ASSUME TypeOK, UNCHANGED scanVars
  PROVE  /\ active' \in 0 .. MaxNotify /\ running' \in BOOLEAN
         /\ results' \in 0 .. ResultDepth /\ found' \in 0 .. MaxFound
<1>1. UNCHANGED <<active, running, results, found>>
  BY DEF scanVars
<1> QED  BY <1>1, Zenon DEF TypeOK

LEMMA RefillRolls == ASSUME SessionInv, refill_if_idle PROVE SessionInv' /\ JobRolls
<1>0. TypeOK /\ RollInv /\ extranonce2_size \in Nat
  BY ClientAssumption DEF SessionInv, TypeOK
<1>1. /\ pc' \in {"idle", "connect", "delay"} \cup Session /\ pc' # "hello"
      /\ UNCHANGED <<flagVars, g_connected, ledVars, lineVars, readyVars, pending_notify,
                     current_notify, captured, scanVars>>
  BY DEF refill_if_idle, LoopHead, Session
<1>2. CASE ~(current_notify # None /\ ~running)
  <2>1. UNCHANGED <<extranonce2_counter, rolled, wrapped, job_queue>>
    BY <1>2, Zenon DEF refill_if_idle
  <2>2. TypeOK'
    BY <1>0, <1>1, <2>1, IdleTypes, ScanTypes, Zenon DEF TypeOK
  <2>3. RollInv'
    BY <1>0, <1>1, <2>1 DEF RollInv, lineVars, readyVars
  <2> QED  BY <2>1, <2>2, <2>3 DEF SessionInv, JobRolls
<1>3. CASE current_notify # None /\ ~running
  <2>1. /\ dispatch_notify_work(current_notify, FALSE, Ready, extranonce2_size)
        /\ current_notify \in Notifies
    BY <1>0, <1>3, Zenon DEF refill_if_idle, TypeOK
  <2>2. Ready \in BOOLEAN /\ (Ready => Rolling(extranonce2_counter, rolled, wrapped, extranonce2_size))
    BY <1>0 DEF Ready, RollInv
  <2>3. /\ extranonce2_counter' \in 0 .. ByteMod ^ WordBytes - 1
        /\ rolled' \subseteq Nat /\ wrapped' \in BOOLEAN /\ job_queue' \in Jobs \cup {None}
        /\ Ready => Rolling(extranonce2_counter', rolled', wrapped', extranonce2_size)
        /\ ~Ready => UNCHANGED <<extranonce2_counter, rolled, wrapped>>
        /\ job_queue' # job_queue => wrapped \/ job_queue'.extranonce2 \notin rolled
    BY <1>0, <2>1, <2>2, DispatchRolls, Zenon
  <2>4. TypeOK'
    BY <1>0, <1>1, <2>3, IdleTypes, ScanTypes, Zenon DEF TypeOK
  <2>5. UNCHANGED <<subscribed, extranonce2_size, owed>> /\ pc' # "hello"
    BY <1>1 DEF readyVars, lineVars
  <2>6. RollInv'
    <3>1. CASE Ready
      BY <1>0, <2>3, <2>5, <3>1 DEF RollInv, Ready
    <3>2. CASE ~Ready
      <4>1. UNCHANGED <<extranonce2_counter, rolled, wrapped>>
        BY <2>3, <3>2
      <4> QED  BY <1>0, <2>5, <4>1 DEF RollInv
    <3> QED  BY <3>1, <3>2
  <2> QED  BY <2>3, <2>4, <2>6 DEF SessionInv, JobRolls
<1> QED  BY <1>2, <1>3

\* Steps that build no job.
LEMMA OtherRolls ==
  ASSUME SessionInv,
         \/ StartConnect \/ ConnectFails \/ Connected \/ send_subscribe_authorize
         \/ RxNothing \/ RecvError \/ drain_share_results \/ CloseSession \/ Delay
         \/ Console \/ Miner \/ UNCHANGED vars
  PROVE  SessionInv' /\ JobRolls
<1>0. TypeOK /\ RollInv
  BY DEF SessionInv
<1>1. JobRolls
  BY Zenon DEF StartConnect, ConnectFails, Connected, send_subscribe_authorize, RxNothing, RecvError,
         drain_share_results, CloseSession, Delay, Console, stratum_client_request_connect,
         stratum_client_request_disconnect, Miner, StartJob, FinishRange, FindCandidate, QueueResult,
         vars, JobRolls
<1>2. CASE Connected
  <2>1. 0 \in 0 .. ByteMod ^ WordBytes - 1
    BY WordSize
  <2>2. TypeOK'
    BY <1>0, <1>2, <2>1, Zenon DEF Connected, TypeOK, Session, lineVars, scanVars
  <2>3. RollInv'
    BY <1>2 DEF Connected, RollInv
  <2> QED  BY <1>1, <2>2, <2>3 DEF SessionInv
<1>3. CASE Miner
  <2>1. UNCHANGED <<pc, flagVars, g_connected, ledVars, lineVars, readyVars, workVars>>
    BY <1>3 DEF Miner
  <2>2. /\ job_queue' \in Jobs \cup {None} /\ active' \in 0 .. MaxNotify
        /\ running' \in BOOLEAN /\ captured' \in BOOLEAN
        /\ results' \in 0 .. ResultDepth /\ found' \in 0 .. MaxFound
    <3>1. CASE StartJob
      <4>1. job_queue.id \in 0 .. MaxNotify
        BY <1>0, <3>1 DEF StartJob, TypeOK, Jobs
      <4> QED  BY <1>0, <3>1, <4>1, Zenon DEF StartJob, TypeOK
    <3>2. CASE FinishRange
      BY <1>0, <3>2, Zenon DEF FinishRange, TypeOK
    <3>3. CASE FindCandidate
      <4>1. found' \in 0 .. MaxFound
        BY <1>0, <3>3, ClientAssumption DEF FindCandidate, TypeOK
      <4> QED  BY <1>0, <3>3, <4>1, Zenon DEF FindCandidate, TypeOK
    <3>4. CASE QueueResult
      <4>1. results' \in 0 .. ResultDepth
        BY <1>0, <3>4, ClientAssumption DEF QueueResult, TypeOK
      <4> QED  BY <1>0, <3>4, <4>1, Zenon DEF QueueResult, TypeOK
    <3> QED  BY <1>3, <3>1, <3>2, <3>3, <3>4 DEF Miner
  <2>3. TypeOK'
    BY <1>0, <2>1, <2>2, IdleTypes, WorkTypes, Zenon DEF TypeOK
  <2>4. RollInv'
    BY <1>0, <2>1 DEF RollInv, lineVars, readyVars, workVars
  <2> QED  BY <1>1, <2>3, <2>4 DEF SessionInv
<1>4. CASE drain_share_results
  <2>1. /\ UNCHANGED <<flagVars, g_connected, ledVars, lineVars, readyVars, workVars, job_queue,
                       captured, active, running, found>>
        /\ pc' \in {"idle", "connect", "delay"} \cup Session /\ pc' # "hello"
        /\ results' \in 0 .. ResultDepth
    BY <1>0, <1>4, ClientAssumption DEF drain_share_results, TypeOK, Session
  <2>2. TypeOK'
    BY <1>0, <2>1, IdleTypes, WorkTypes, Zenon DEF TypeOK
  <2>3. RollInv'
    BY <1>0, <2>1 DEF RollInv, lineVars, readyVars, workVars
  <2> QED  BY <1>1, <2>2, <2>3 DEF SessionInv
<1>5. CASE UNCHANGED vars
  <2>1. TypeOK'
    BY <1>0, <1>5, IdleTypes, WorkTypes, ScanTypes, Zenon DEF TypeOK, vars
  <2>2. RollInv'
    BY <1>0, <1>5 DEF RollInv, vars, lineVars, readyVars, workVars
  <2> QED  BY <1>1, <2>1, <2>2 DEF SessionInv
<1>6. ASSUME \/ StartConnect \/ ConnectFails \/ send_subscribe_authorize \/ RxNothing \/ RecvError
             \/ CloseSession \/ Delay \/ Console
      PROVE  SessionInv' /\ JobRolls
  <2>1. UNCHANGED <<received, led_job, readyVars, workVars, job_queue, captured, scanVars>>
    BY <1>6, ZenonT(60) DEF StartConnect, ConnectFails, send_subscribe_authorize, RxNothing, RecvError,
           Line, CloseSession, Delay, Console, stratum_client_request_connect,
           stratum_client_request_disconnect, ledVars, lineVars
  <2>2. /\ pc' \in {"idle", "connect", "delay"} \cup Session
        /\ pc' = "hello" => pc = "hello"
        /\ owed' = owed \/ (pc = "hello" /\ owed' \subseteq {"subscribe", "authorize"})
    BY <1>0, <1>6, ZenonT(60) DEF StartConnect, ConnectFails, send_subscribe_authorize, RxNothing, RecvError,
           Line, CloseSession, Delay, Console, stratum_client_request_connect,
           stratum_client_request_disconnect, lineVars, Session, LoopHead, TypeOK
  <2>3. /\ g_connect_requested' \in BOOLEAN /\ g_disconnect_requested' \in BOOLEAN
        /\ g_connected' \in BOOLEAN /\ led_connected' \in BOOLEAN /\ led_attached' \in BOOLEAN
    BY <1>0, <1>6, ZenonT(60) DEF StartConnect, ConnectFails, send_subscribe_authorize, RxNothing, RecvError,
           Line, CloseSession, Delay, Console, stratum_client_request_connect,
           stratum_client_request_disconnect, flagVars, ledVars, TypeOK
  <2>4. TypeOK'
    BY <1>0, <2>1, <2>2, <2>3, ZenonT(60) DEF TypeOK, readyVars, workVars, scanVars
  <2>5. RollInv'
    BY <1>0, <2>1, <2>2 DEF RollInv, readyVars, workVars
  <2> QED  BY <1>1, <2>4, <2>5 DEF SessionInv
<1> QED  BY <1>2, <1>3, <1>4, <1>5, <1>6

LEMMA SessionInductive == Spec => []SessionInv /\ [][JobRolls]_vars
<1>1. SessionInv /\ [Next]_vars => SessionInv' /\ [JobRolls]_vars
  BY LineRolls, RefillRolls, OtherRolls DEF Next, stratum_task
<1> QED  BY <1>1, InitRolls, PTL DEF Spec

\* Every variable of the session keeps its type: the extranonce2 counter is a word
\* that wraps, and the result queue has its depth.
THEOREM SessionTypeCorrect == Spec => []TypeOK
<1>1. SessionInv => TypeOK
  BY DEF SessionInv
<1> QED  BY <1>1, SessionInductive, PTL

\* No job is queued with an extranonce2 that the session has used, until the counter
\* has run through all the values of the announced size; for every size and width.
THEOREM ExtranonceIsNew == Spec => ExtranonceRolls
<1>1. JobRolls => (job_queue' # job_queue /\ job_queue' # None =>
                      job_queue'.extranonce2 \notin rolled \/ wrapped)
  BY DEF JobRolls
<1> QED  BY <1>1, SessionInductive, PTL DEF ExtranonceRolls
=============================================================================
