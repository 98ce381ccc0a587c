--------------------------- MODULE StratumClient ---------------------------
(***************************************************************************)
(* stratum_client.c: stratum_task, the connect and disconnect requests of  *)
(* the console, the pool at the other end of the connection, and the miner *)
(* service as stratum_task sees it.  A step of stratum_task ends where the *)
(* task blocks or calls the miner service; the console (a lower priority)  *)
(* runs only there.  Lines of the pool are abstract; notifies are numbered *)
(* in the order of their arrival.                                          *)
(***************************************************************************)
EXTENDS Integers, FiniteSets

CONSTANTS
    MaxNotify,     \* bound on the notifies that arrive
    MaxFound,      \* bound on the candidates the miner finds
    ResultDepth,   \* depth of the result queue
    ByteMod,       \* values of a byte
    WordBytes,     \* bytes of extranonce2_counter
    Sizes          \* extranonce2 sizes a pool may announce

ASSUME ClientAssumption ==
    /\ MaxNotify \in Nat /\ MaxFound \in Nat /\ ResultDepth \in Nat
    /\ ByteMod \in Nat \ {0} /\ WordBytes \in Nat /\ Sizes \subseteq Nat
    /\ \A n \in 0 .. WordBytes : ByteMod ^ n \in 1 .. ByteMod ^ WordBytes

None == [id |-> 0]
Notifies == [id : 1 .. MaxNotify, clean : BOOLEAN, good : BOOLEAN]
Jobs == [id : 1 .. MaxNotify, extranonce2 : Nat, clean : BOOLEAN]

VARIABLES
    pc,                              \* control point of stratum_task
    g_connect_requested, g_disconnect_requested, g_connected,
    led_connected, led_attached,     \* DS6 and DS3
    led_job,                         \* DS5
    owed,                            \* requests the pool has still to answer
    received,                        \* number of the last notify
    \* stratum_state_t; None for a notify that the have_ flag says is not there
    subscribed, authorized, have_target, pending_notify, current_notify,
    extranonce2_size, extranonce2_counter,
    \* the miner service
    job_queue, active,               \* queued request, number of the notify being scanned
    running, captured,               \* MINER_STATUS_RUNNING, a candidate in a result register
    results, found,                  \* length of the result queue, candidates so far
    \* history of the session
    rolled,                          \* extranonce2 values of the jobs built
    wrapped                          \* the counter has run through all values

flagVars == <<g_connect_requested, g_disconnect_requested>>
ledVars == <<led_connected, led_attached, led_job>>
lineVars == <<owed, received>>
readyVars == <<subscribed, authorized, have_target, extranonce2_size>>
workVars == <<pending_notify, current_notify, extranonce2_counter, rolled, wrapped>>
scanVars == <<active, running, results, found>>
vars == <<pc, flagVars, g_connected, ledVars, lineVars, readyVars, workVars, job_queue,
          captured, scanVars>>

Session == {"hello", "recv", "drain", "refill", "close"}

\* Every variable keeps its type; extranonce2_counter is a word that wraps.
TypeOK ==
    /\ pc \in {"idle", "connect", "delay"} \cup Session
    /\ g_connect_requested \in BOOLEAN /\ g_disconnect_requested \in BOOLEAN
    /\ g_connected \in BOOLEAN /\ led_connected \in BOOLEAN /\ led_attached \in BOOLEAN
    /\ led_job \in {0, 1}
    /\ owed \subseteq {"subscribe", "authorize"} /\ received \in 0 .. MaxNotify
    /\ subscribed \in BOOLEAN /\ authorized \in BOOLEAN /\ have_target \in BOOLEAN
    /\ pending_notify \in Notifies \cup {None} /\ current_notify \in Notifies \cup {None}
    /\ extranonce2_size \in Sizes \cup {0} /\ extranonce2_counter \in 0 .. ByteMod ^ WordBytes - 1
    /\ job_queue \in Jobs \cup {None} /\ active \in 0 .. MaxNotify
    /\ running \in BOOLEAN /\ captured \in BOOLEAN
    /\ results \in 0 .. ResultDepth /\ found \in 0 .. MaxFound
    /\ rolled \subseteq Nat /\ wrapped \in BOOLEAN

\* stratum_state_t after memset.
NoState ==
    /\ subscribed = FALSE /\ authorized = FALSE /\ have_target = FALSE
    /\ pending_notify = None /\ current_notify = None
    /\ extranonce2_size = 0 /\ extranonce2_counter = 0
    /\ rolled = {} /\ wrapped = FALSE

Init ==
    /\ pc = "idle"
    /\ g_connect_requested = FALSE /\ g_disconnect_requested = FALSE /\ g_connected = FALSE
    /\ led_connected = FALSE /\ led_attached = FALSE /\ led_job = 0
    /\ owed = {} /\ received = 0
    /\ NoState
    /\ job_queue = None /\ active = 0 /\ running = FALSE /\ captured = FALSE
    /\ results = 0 /\ found = 0

-----------------------------------------------------------------------------
(***************************************************************************)
(* Building and dispatching work.                                          *)
(***************************************************************************)
\* make_extranonce2 turns the counter into extranonce2_size bytes, of which the
\* last WordBytes hold the counter.
Values(size) == ByteMod ^ (IF size < WordBytes THEN size ELSE WordBytes)
Extranonce2(size) == extranonce2_counter % Values(size)

\* Faulty variant of NextCounter: every notify restarts the counter.
RestartedCounter(n) ==
    IF n = current_notify THEN (extranonce2_counter + 1) % (ByteMod ^ WordBytes) ELSE 0

NextCounter(n) == (extranonce2_counter + 1) % (ByteMod ^ WordBytes)

\* dispatch_notify_work(n, clean).  build_job returns early until the session is
\* ready, and uses up a counter value when the notify turns out to be malformed.
dispatch_notify_work(n, clean, ready, size) ==
    IF ~ready THEN UNCHANGED <<extranonce2_counter, rolled, wrapped, job_queue>>
    ELSE /\ extranonce2_counter' = NextCounter(n)
         /\ rolled' = rolled \cup {Extranonce2(size)}
         /\ wrapped' = (wrapped \/ extranonce2_counter + 1 >= Values(size))
         /\ job_queue' = IF n.good
                         THEN [id |-> n.id, extranonce2 |-> Extranonce2(size), clean |-> clean]
                         ELSE job_queue

\* Faulty variant of Dispatched: the first notify stays the one for refills.
DispatchedFirst(n) ==
    /\ pending_notify' = None
    /\ current_notify' = IF current_notify = None THEN n ELSE current_notify

Dispatched(n) == pending_notify' = None /\ current_notify' = n

\* try_dispatch_pending_notify, with the pending notify and the session state
\* that the line has just brought about.
try_dispatch_pending_notify(n, ready, size) ==
    IF n = None
    THEN /\ pending_notify' = None
         /\ UNCHANGED <<current_notify, extranonce2_counter, rolled, wrapped, job_queue, captured>>
    ELSE /\ captured' = (captured /\ ~n.clean)
         /\ dispatch_notify_work(n, n.clean, ready, size)
         /\ IF ready /\ n.good THEN Dispatched(n)
            ELSE pending_notify' = n /\ UNCHANGED current_notify

Ready == have_target /\ subscribed /\ authorized

-----------------------------------------------------------------------------
(***************************************************************************)
(* stratum_task: connecting.                                               *)
(***************************************************************************)
StartConnect ==
    /\ pc = "idle" /\ g_connect_requested
    /\ pc' = "connect"
    /\ UNCHANGED <<flagVars, g_connected, ledVars, lineVars, readyVars, workVars, job_queue,
                   captured, scanVars>>

\* The configuration lock, the name, the socket or the connection fails.
ConnectFails ==
    /\ pc = "connect"
    /\ pc' = "delay"
    /\ UNCHANGED <<flagVars, g_connected, ledVars, lineVars, readyVars, workVars, job_queue,
                   captured, scanVars>>

Connected ==
    /\ pc = "connect"
    /\ pc' = "hello"
    /\ subscribed' = FALSE /\ authorized' = FALSE /\ have_target' = FALSE
    /\ pending_notify' = None /\ current_notify' = None
    /\ extranonce2_size' = 0 /\ extranonce2_counter' = 0
    /\ rolled' = {} /\ wrapped' = FALSE
    /\ g_connected' = TRUE /\ led_connected' = TRUE /\ led_attached' = FALSE
    /\ g_disconnect_requested' = FALSE
    /\ UNCHANGED <<g_connect_requested, led_job, lineVars, job_queue, captured, scanVars>>

\* The head of the receive loop.
LoopHead == pc' = IF g_disconnect_requested THEN "close" ELSE "recv"

\* send_subscribe_authorize; the pool answers what could be sent.
send_subscribe_authorize ==
    /\ pc = "hello"
    /\ owed' \in SUBSET {"subscribe", "authorize"}
    /\ LoopHead
    /\ UNCHANGED <<flagVars, g_connected, ledVars, received, readyVars, workVars, job_queue,
                   captured, scanVars>>

-----------------------------------------------------------------------------
(***************************************************************************)
(* stratum_task: FreeRTOS_recv and handle_stratum_line.                    *)
(***************************************************************************)
Line == pc = "recv" /\ pc' = "drain" /\ UNCHANGED <<flagVars, g_connected, led_connected, scanVars>>

RxNotify(clean, good) ==
    LET n == [id |-> received + 1, clean |-> clean, good |-> good] IN
    /\ Line
    /\ received < MaxNotify /\ received' = received + 1
    /\ led_job' = 1 - led_job
    /\ try_dispatch_pending_notify(n, Ready, extranonce2_size)
    /\ UNCHANGED <<led_attached, owed, readyVars>>

\* Faulty variant of RxTarget: a notify that came before the target keeps waiting.
RxTargetOnly ==
    /\ Line
    /\ have_target' = TRUE
    /\ UNCHANGED <<led_attached, led_job, lineVars, subscribed, authorized, extranonce2_size,
                   workVars, job_queue, captured>>

\* mining.set_difficulty and mining.set_target.
RxTarget ==
    /\ Line
    /\ have_target' = TRUE
    /\ try_dispatch_pending_notify(pending_notify, subscribed /\ authorized, extranonce2_size)
    /\ UNCHANGED <<led_attached, led_job, lineVars, subscribed, authorized, extranonce2_size>>

RxSubscribe(size) ==
    /\ Line
    /\ "subscribe" \in owed /\ owed' = owed \ {"subscribe"}
    /\ subscribed' = TRUE /\ extranonce2_size' = size
    /\ led_attached' = authorized
    /\ try_dispatch_pending_notify(pending_notify, have_target /\ authorized, size)
    /\ UNCHANGED <<led_job, received, authorized, have_target>>

RxAuthorize ==
    /\ Line
    /\ "authorize" \in owed /\ owed' = owed \ {"authorize"}
    /\ authorized' = TRUE
    /\ led_attached' = subscribed
    /\ try_dispatch_pending_notify(pending_notify, have_target /\ subscribed, extranonce2_size)
    /\ UNCHANGED <<led_job, received, subscribed, have_target, extranonce2_size>>

\* Any other answer: to a share, an error, a refused authorization.
RxOther ==
    /\ Line
    /\ owed' \in SUBSET owed
    /\ try_dispatch_pending_notify(pending_notify, Ready, extranonce2_size)
    /\ UNCHANGED <<led_attached, led_job, received, readyVars>>

\* Nothing for 100 ms, or a notify, difficulty or target that cannot be parsed.
RxNothing ==
    /\ Line
    /\ UNCHANGED <<led_attached, led_job, lineVars, readyVars, workVars, job_queue, captured>>

RecvError ==
    /\ pc = "recv"
    /\ pc' = "close"
    /\ UNCHANGED <<flagVars, g_connected, ledVars, lineVars, readyVars, workVars, job_queue,
                   captured, scanVars>>

-----------------------------------------------------------------------------
(***************************************************************************)
(* stratum_task: shares, refill, close.                                    *)
(***************************************************************************)
\* Faulty variant of drain_share_results: a candidate that cannot be sent stays.
DrainWhileSent ==
    /\ pc = "drain"
    /\ \/ results > 0 /\ results' = results - 1 /\ pc' = "drain"
       \/ results' = results /\ pc' = "refill"
    /\ UNCHANGED <<flagVars, g_connected, ledVars, lineVars, readyVars, workVars, job_queue,
                   captured, active, running, found>>

\* drain_share_results submits one candidate, or finds none.
\* A candidate is taken from the queue whether or not it can be sent.
drain_share_results ==
    /\ pc = "drain"
    /\ IF results > 0 THEN results' = results - 1 /\ pc' = "drain"
                      ELSE results' = results /\ pc' = "refill"
    /\ UNCHANGED <<flagVars, g_connected, ledVars, lineVars, readyVars, workVars, job_queue,
                   captured, active, running, found>>

\* Faulty variant of refill_if_idle: nothing is dispatched while a notify waits.
RefillUnlessPending ==
    /\ pc = "refill"
    /\ IF current_notify # None /\ ~running /\ pending_notify = None
       THEN dispatch_notify_work(current_notify, FALSE, Ready, extranonce2_size)
       ELSE UNCHANGED <<extranonce2_counter, rolled, wrapped, job_queue>>
    /\ LoopHead
    /\ UNCHANGED <<flagVars, g_connected, ledVars, lineVars, readyVars, pending_notify,
                   current_notify, captured, scanVars>>

refill_if_idle ==
    /\ pc = "refill"
    /\ IF current_notify # None /\ ~running
       THEN dispatch_notify_work(current_notify, FALSE, Ready, extranonce2_size)
       ELSE UNCHANGED <<extranonce2_counter, rolled, wrapped, job_queue>>
    /\ LoopHead
    /\ UNCHANGED <<flagVars, g_connected, ledVars, lineVars, readyVars, pending_notify,
                   current_notify, captured, scanVars>>

CloseSession ==
    /\ pc = "close"
    /\ pc' = IF g_disconnect_requested THEN "idle" ELSE "delay"
    /\ g_connected' = FALSE /\ led_connected' = FALSE /\ led_attached' = FALSE
    /\ UNCHANGED <<flagVars, led_job, lineVars, readyVars, workVars, job_queue, captured, scanVars>>

Delay ==
    /\ pc = "delay"
    /\ pc' = "idle"
    /\ UNCHANGED <<flagVars, g_connected, ledVars, lineVars, readyVars, workVars, job_queue,
                   captured, scanVars>>

stratum_task ==
    \/ StartConnect \/ ConnectFails \/ Connected \/ send_subscribe_authorize
    \/ \E clean, good \in BOOLEAN : RxNotify(clean, good)
    \/ RxTarget \/ (\E size \in Sizes : RxSubscribe(size)) \/ RxAuthorize
    \/ RxOther \/ RxNothing \/ RecvError
    \/ drain_share_results \/ refill_if_idle \/ CloseSession \/ Delay

-----------------------------------------------------------------------------
(***************************************************************************)
(* The console, where stratum_task blocks, and the miner, at any time.     *)
(***************************************************************************)
stratum_client_request_connect ==
    /\ ~g_connect_requested /\ g_connect_requested' = TRUE
    /\ UNCHANGED <<pc, g_disconnect_requested, g_connected, ledVars, lineVars, readyVars, workVars,
                   job_queue, captured, scanVars>>

\* Faulty variant: a disconnect is noted only while there is a connection.
DisconnectIfConnected ==
    /\ g_disconnect_requested' = (g_disconnect_requested \/ g_connected)
    /\ g_connect_requested' = FALSE
    /\ UNCHANGED <<pc, g_connected, ledVars, lineVars, readyVars, workVars, job_queue, captured,
                   scanVars>>

stratum_client_request_disconnect ==
    /\ g_disconnect_requested' = TRUE /\ g_connect_requested' = FALSE
    /\ UNCHANGED <<pc, g_connected, ledVars, lineVars, readyVars, workVars, job_queue, captured,
                   scanVars>>

Console ==
    /\ pc \notin {"refill", "close"}
    /\ stratum_client_request_connect \/ stratum_client_request_disconnect

\* miner_task takes the queued job and starts it.
StartJob ==
    /\ job_queue # None
    /\ active' = job_queue.id /\ running' = TRUE /\ job_queue' = None
    /\ UNCHANGED <<captured, results, found>>

\* The range ends, or is stopped.
FinishRange ==
    /\ running /\ running' = FALSE
    /\ UNCHANGED <<job_queue, captured, active, results, found>>

FindCandidate ==
    /\ running /\ ~captured /\ found < MaxFound
    /\ captured' = TRUE /\ found' = found + 1
    /\ UNCHANGED <<job_queue, active, running, results>>

\* miner_task moves the candidate to the result queue, or drops it.
QueueResult ==
    /\ captured /\ captured' = FALSE
    /\ results' = IF results < ResultDepth THEN results + 1 ELSE results
    /\ UNCHANGED <<job_queue, active, running, found>>

Miner ==
    /\ StartJob \/ FinishRange \/ FindCandidate \/ QueueResult
    /\ UNCHANGED <<pc, flagVars, g_connected, ledVars, lineVars, readyVars, workVars>>

Next == stratum_task \/ Console \/ Miner

Spec == Init /\ [][Next]_vars

\* stratum_task waits only for a bounded time (every call has a timeout), and the
\* miner gets on with its work.
Fairness == WF_vars(stratum_task) /\ WF_vars(Miner)

FairSpec == Spec /\ Fairness

-----------------------------------------------------------------------------
(***************************************************************************)
(* Properties.                                                             *)
(***************************************************************************)
\* The session never sits on work: when the task waits for the next line, a
\* notify is still pending only if it is malformed or the target, the
\* subscription or the authorization is missing, in whatever order the lines
\* came.
NoNotifyWaits == pc = "recv" /\ pending_notify # None => ~Ready \/ ~pending_notify.good

\* Work never goes back: the notify being scanned, the queued one, the one used
\* for refills and the pending one are in the order of their arrival, across
\* sessions and although a refill may overwrite a queued job.
WorkMovesForward ==
    /\ job_queue # None => active <= job_queue.id
    /\ current_notify # None => active <= current_notify.id /\ job_queue.id <= current_notify.id
    /\ pending_notify # None => /\ active < pending_notify.id
                                /\ job_queue.id < pending_notify.id
                                /\ current_notify.id < pending_notify.id

\* "rolls extranonce2 when a nonce range finishes" (vek280_freertos/README.md:71):
\* no job is queued with an extranonce2 that this session has used before, until
\* the counter has run through all the values of the announced size.
ExtranonceRolls ==
    [][job_queue' # job_queue /\ job_queue' # None =>
        job_queue'.extranonce2 \notin rolled \/ wrapped]_vars

\* DS6 is "On while the R5 maintains a Stratum TCP connection", DS5 "Toggles for
\* each valid mining.notify" and DS3 is "On only after the session is subscribed
\* and authorized; off when disconnected" (theory_of_operation.md:166-169).
LedsTruthful ==
    /\ (led_connected <=> pc \in Session) /\ (g_connected <=> pc \in Session)
    /\ led_job = received % 2
    /\ (led_attached <=> pc \in Session /\ subscribed /\ authorized)

\* A session whose miner has run out of work gives it more.
MinerRefilled ==
    pc \in Session /\ current_notify # None /\ ~running
        ~> running \/ job_queue # None \/ pc \notin Session

\* Candidates do not stay in the result queue while there is a session.
SharesSubmitted == pc \in Session /\ results > 0 ~> results = 0 \/ pc \notin Session
=============================================================================
